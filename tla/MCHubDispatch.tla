---- MODULE MCHubDispatch ----
(* Small instances of HubDispatch for TLC. *)
EXTENDS HubDispatch

CONSTANTS r1, r2

PDTogether == [prefill |-> 0, decode |-> 0]
OneAndOne == [prefill |-> 1, decode |-> 1]
NoPrefill == [prefill |-> 0, decode |-> 1]
AllPrefill == [prefill |-> 3, decode |-> 0]
MCClusters == {PDTogether, OneAndOne, NoPrefill, AllPrefill}
OneAndTwo == [prefill |-> 1, decode |-> 2]
Pairs == {PDTogether, OneAndTwo, NoPrefill, AllPrefill}
====
