---------------------------- MODULE MCReassembler ----------------------------
EXTENDS Reassembler

\* Some bytes repeat: a byte put in the wrong slot may have the right value by
\* chance, and its neighbours then give it away.
MCSource == <<"a", "b", "a", "a", "c", "b">>
==============================================================================
