--------------------------- MODULE MCTCPConnection ---------------------------
EXTENDS TCPConnection

\* Both initial sequence numbers lie so close to the end of the sequence space
\* that the numbers of the stream wrap round.
MCISN == [s \in Side |-> IF s = "client" THEN 14 ELSE 13]

MCTwoBytes   == [s \in Side |-> IF s = "client" THEN 2 ELSE 0]
MCUneven     == [s \in Side |-> IF s = "client" THEN 3 ELSE 1]
MCBothWays   == [s \in Side |-> IF s = "client" THEN 2 ELSE 1]
\* What may go wrong in the runs.
MCFaults(l, d, r, k) == [lost |-> l, duplicated |-> d, resets |-> r, destroyed |-> k]
MCNoFault   == {MCFaults(0, 0, 0, 0)}
MCOneLoss   == {MCFaults(1, 0, 0, 0)}
MCDestroy   == {MCFaults(0, 0, 0, 1)}
MCDisorder  == {MCFaults(1, 0, 0, 0), MCFaults(0, 1, 0, 0), MCFaults(0, 0, 1, 1)}
MCLossOrReset == {MCFaults(1, 0, 0, 0), MCFaults(0, 0, 1, 0)}
=============================================================================
