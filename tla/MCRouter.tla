------------------------------ MODULE MCRouter ------------------------------
EXTENDS Router

\* Addresses of 3 bits.  The second interface is on the network 1__; 11_ lies
\* behind its neighbour 5; all else is behind neighbour 1 of the first.
MCOwnAddress == <<0, 4>>
MCNeighbour == {1, 5}
MCRoutes ==
  { [prefix |-> 0, prefix_length |-> 0, next_hop |-> 1, interface_num |-> 1],
    [prefix |-> 5, prefix_length |-> 1, next_hop |-> NoHop, interface_num |-> 2],
    [prefix |-> 6, prefix_length |-> 2, next_hop |-> 5, interface_num |-> 2] }
MCDestinations == {3, 5, 7}
=============================================================================
