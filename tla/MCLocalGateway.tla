---- MODULE MCLocalGateway ----
(* Small instances of LocalGateway for TLC. *)
EXTENDS LocalGateway

CONSTANTS n1, n2, r1, r2

Split == [together |-> FALSE, prefill |-> <<n1>>, decode |-> <<Self, n2>>]
SplitLocal == [together |-> FALSE, prefill |-> <<Self>>, decode |-> <<n1>>]
NoDecode == [together |-> FALSE, prefill |-> <<n1>>, decode |-> <<>>]
Both == {Together, Split}
All == {Together, Split, SplitLocal, NoDecode}
Mixed == {Together}
====
