---------------------------- MODULE MCCopyProgram ----------------------------
EXTENDS CopyProgram

MCWorld(l, h, f, n, m) == [listens |-> l, hangs |-> h, fault |-> f, out |-> n, back |-> m]

\* Connecting and listening, both ends of standard input, every fault, and two
\* bytes in one direction or the other.
MCWorlds ==
  {MCWorld(FALSE, TRUE, "none", 2, 1), MCWorld(TRUE, FALSE, "none", 1, 2),
   MCWorld(FALSE, FALSE, "reset", 1, 2), MCWorld(TRUE, TRUE, "input", 1, 1),
   MCWorld(FALSE, TRUE, "output", 1, 1)}

MCReset == {MCWorld(FALSE, FALSE, "reset", 1, 3)}
=============================================================================
