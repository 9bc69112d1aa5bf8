----------------------------- MODULE PeerRecord -----------------------------
(***************************************************************************)
(* One peer's record in a hub (PeerData, server_db.go) and the four ways   *)
(* the hub changes it: a gossip report, an observed connection, credit for *)
(* work it dispatched, and a merge with a stored or fetched snapshot.      *)
(*                                                                         *)
(* Kept: the provenance of the address (what the ip_verified rules are     *)
(* about) and the cumulative counters.  Left out: the fields every report  *)
(* simply overwrites (GPU text, role, engine id, bootstrap address, ping   *)
(* text) and in/out tokens, which follow the same keep-max as the total.   *)
(* The score is ten times the code's float, so that it stays an integer.   *)
(***************************************************************************)
EXTENDS Integers

CONSTANT NoPeer     \* "this id is not a key of the map (a row of the table)"

Record == [addr : {"reported", "observed"}, verified : BOOLEAN,
           req : Nat, tok : Nat, score : Nat]

ASSUME NoPeerAssumption == NoPeer \notin Record

MaybeRecord == Record \cup {NoPeer}

(* Counters as a gossip message carries them, and as the dispatcher credits them. *)
Counters == [req : Nat, tok : Nat]

(* The ids a map or a table holds. *)
Known(map) == {p \in DOMAIN map : map[p] # NoPeer}

Larger(a, b) == IF b > a THEN b ELSE a

(* requests*10 + tokens/10, times ten. *)
Score(req, tok) == 100 * req + tok

Blank == [addr |-> "reported", verified |-> FALSE, req |-> 0, tok |-> 0, score |-> 0]

Existing(old) == IF old = NoPeer THEN Blank ELSE old

(* Seeded fault: the last report wins. *)
LastWins(rec, req, tok, score) == [rec EXCEPT !.req = req, !.tok = tok, !.score = score]

(* Independent keep-max of each cumulative column. *)
KeepMax(rec, req, tok, score) ==
    [rec EXCEPT !.req = Larger(@, req), !.tok = Larger(@, tok), !.score = Larger(@, score)]

(* Seeded fault: a report always replaces the address. *)
AfterGossipUnguarded(old, report) ==
    KeepMax([Existing(old) EXCEPT !.addr = "reported"],
            report.req, report.tok, Score(report.req, report.tok))

(* UpsertGossip: a report never replaces an observed address, and its      *)
(* counters are looked at only when one of them is positive.               *)
AfterGossip(old, report) ==
    LET rec == [Existing(old) EXCEPT !.addr = IF Existing(old).verified THEN @ ELSE "reported"]
    IN  IF report.req > 0 \/ report.tok > 0
        THEN KeepMax(rec, report.req, report.tok, Score(report.req, report.tok))
        ELSE rec

(* UpsertConnection: the address of an actual connection is trusted. *)
AfterConnection(old) == [Existing(old) EXCEPT !.addr = "observed", !.verified = TRUE]

(* IncrementContribution, IncrementTokensDetail: a request count of zero   *)
(* counts as one.                                                          *)
AfterCredit(rec, work) ==
    LET requests == IF work.req = 0 THEN 1 ELSE work.req
    IN  [rec EXCEPT !.req = @ + requests, !.tok = @ + work.tok,
                    !.score = @ + Score(requests, work.tok)]

(* ResetStats, for one peer. *)
Zeroed(rec) == [rec EXCEPT !.req = 0, !.tok = 0, !.score = 0]

(* mergePeer: an unknown peer is taken as it is, of a known one only the   *)
(* cumulative columns are merged.                                          *)
Merged(old, new) ==
    IF new = NoPeer THEN old
    ELSE IF old = NoPeer THEN new
    ELSE KeepMax(old, new.req, new.tok, new.score)

(* What the operations above preserve of a record: its score is never more *)
(* than its counters justify (keep-max works on the columns one by one, so *)
(* it may be less), and an address is trusted exactly when it was observed.*)
ScoreJustified(rec) == rec.score <= Score(rec.req, rec.tok)
AddressTrusted(rec) == rec.verified <=> rec.addr = "observed"
=============================================================================
