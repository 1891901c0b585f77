----------------------------- MODULE BestEffort -----------------------------
(***************************************************************************)
(* What hosts may expect of an internetwork: a datagram that is sent may    *)
(* be lost, or it reaches the host it is addressed to, once.  There is no   *)
(* order between datagrams.                                                 *)
(***************************************************************************)
EXTENDS Naturals, Sequences

CONSTANTS Hosts,    \* the addresses of hosts
          Datagrams \* records with at least id and dst

VARIABLES travelling, \* the datagrams sent that are not delivered or lost
          given,      \* the numbers of all datagrams sent
          delivered   \* for each host, the numbers of those it received

serviceVars == <<travelling, given, delivered>>

Init ==
  /\ travelling = {}
  /\ given = {}
  /\ delivered = [h \in Hosts |-> <<>>]

SendDatagram(d) ==
  /\ d.id \notin given
  /\ given' = given \cup {d.id}
  /\ travelling' = travelling \cup {d}
  /\ UNCHANGED delivered

Deliver(d) ==
  /\ d.dst \in Hosts
  /\ delivered' = [delivered EXCEPT ![d.dst] = Append(@, d.id)]
  /\ travelling' = travelling \ {d}
  /\ UNCHANGED given

LoseSome ==
  /\ UNCHANGED <<given, delivered>>
  /\ travelling' \subseteq travelling

Next ==
  \/ LoseSome
  \/ \E d \in Datagrams : SendDatagram(d)
  \/ \E d \in travelling : Deliver(d)

ServiceSpec == Init /\ [][Next]_serviceVars
=============================================================================
