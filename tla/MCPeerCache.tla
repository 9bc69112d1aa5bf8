---- MODULE MCPeerCache ----
(* Small instances of PeerCache for TLC. *)
EXTENDS PeerCache

CONSTANTS p1, p2

NoReport == [req |-> 0, tok |-> 0]
NoReports == {NoReport}
OneReport == {[req |-> 1, tok |-> 0]}
MCReports == {NoReport, [req |-> 1, tok |-> 0]}
MCWork == {[req |-> 1, tok |-> 0]}
Unreachable == [p \in Peers |-> NoPeer]
SeedRow == [addr |-> "observed", verified |-> TRUE, req |-> 0, tok |-> 1, score |-> 1]
NoSeeds == {Unreachable}
MCSeeds == {Unreachable, [Unreachable EXCEPT ![p1] = SeedRow]}
====
