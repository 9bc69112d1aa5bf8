--------------------------- MODULE HealthPings ---------------------------
(***************************************************************************)
(* The hub's health pings (server_p2p.go, startServerPingLoop and          *)
(* pingOnePeer) over the peer cache's SetPing and UpdateHealth             *)
(* (peer_cache.go).  A tick copies the cache and starts one goroutine per  *)
(* peer; up to 4 s later each writes back absolute values that it computed *)
(* from its copy.                                                          *)
(*                                                                         *)
(* Left out: the events an outcome queues, which are PeerCache's Emit, but *)
(* for that a WARNING_OFFLINE was queued; and the text of the ping column, *)
(* which nothing reads back.                                               *)
(***************************************************************************)
EXTENDS Integers

CONSTANTS Pinged,      \* peers the hub may know
          Slots,       \* pings of one peer in flight: more than one only when
                       \* check_interval_sec is shorter than the 4 s of a ping
          MaxFail,     \* server_mode.max_fail_count, 3 when it is not positive
          MaxPenalty,  \* bound: recoveries of a peer
          MaxLeaves     \* bound: times a peer leaves the cache

ASSUME PingAssumptions ==
    /\ Slots \in Nat \ {0} /\ MaxFail \in Nat \ {0} /\ MaxPenalty \in Nat /\ MaxLeaves \in Nat

VARIABLES
    health,   \* the cache: known, fail count and penalty points per peer
    ping,     \* per peer and slot: the goroutine's copy and where it is
    tally,    \* history: what the pings of each account of a peer have found
    story     \* history per peer, see PingInit

pingVars == <<health, ping, tally, story>>

NewPeer == [known |-> TRUE, fail |-> 0, penalty |-> 0]

Idle == [at |-> "idle", fail |-> 0, penalty |-> 0, account |-> 0]

(* tally.streak      failures since the peer last answered, up to MaxFail  *)
(* tally.recoveries  answers that ended a streak                           *)
(* tally.warned      a WARNING_OFFLINE was queued in this streak           *)
NewTally == [streak |-> 0, recoveries |-> 0, warned |-> FALSE]

(* A record made anew opens an account, a ping works for the account of    *)
(* the record it copied, and what a ping writes is of its account.         *)
(* story.of       the account of the peer's record                         *)
(* story.last     the last account opened                                  *)
(* story.muddled  two pings of the peer have overlapped                    *)
PingInit ==
    /\ health = [p \in Pinged |-> NewPeer]
    /\ ping = [p \in Pinged |-> [s \in 1..Slots |-> Idle]]
    /\ tally = [p \in Pinged |-> [n \in 0..MaxLeaves |-> NewTally]]
    /\ story = [p \in Pinged |-> [of |-> 0, last |-> 0, muddled |-> FALSE]]

PingTypeOK ==
    /\ health \in [Pinged -> [known : BOOLEAN, fail : Nat, penalty : Nat]]
    /\ ping \in [Pinged -> [1..Slots -> [at : {"idle", "asking", "alive", "healed", "failed"},
                                         fail : Nat, penalty : Nat, account : 0..MaxLeaves]]]
    /\ tally \in [Pinged -> [0..MaxLeaves ->
                      [streak : 0..MaxFail, recoveries : Nat, warned : BOOLEAN]]]
    /\ story \in [Pinged -> [of : 0..MaxLeaves, last : 0..MaxLeaves, muddled : BOOLEAN]]

Flying(p) == {s \in 1..Slots : ping[p][s].at # "idle"}

(* The ticker copies the cache under the lock and pings every peer in it. *)
Tick ==
    LET known == {p \in Pinged : health[p].known}
        Copy(p) == [at |-> "asking", fail |-> health[p].fail, penalty |-> health[p].penalty,
                    account |-> story[p].of]
    IN  /\ known # {}
        /\ \E slot \in [known -> 1..Slots] :
              /\ \A p \in known : slot[p] \notin Flying(p)
              /\ ping' = [p \in Pinged |->
                    IF p \in known THEN [ping[p] EXCEPT ![slot[p]] = Copy(p)] ELSE ping[p]]
        /\ story' = [p \in Pinged |->
              [story[p] EXCEPT !.muddled = @ \/ (p \in known /\ Flying(p) # {})]]
        /\ UNCHANGED <<health, tally>>

Move(p, s, at) == ping' = [ping EXCEPT ![p][s].at = at]
Finish(p, s) == ping' = [ping EXCEPT ![p][s] = Idle]

Tally(p, s) == tally[p][ping[p][s].account]
Found(p, s, new) == tally' = [tally EXCEPT ![p][ping[p][s].account] = new]

(* With a threshold of one no failure is ever stored, and none recovered. *)
Recovery(t) == IF t.streak > 0 /\ MaxFail > 1 THEN 1 ELSE 0

AfterAnswer(t) == [streak |-> 0, recoveries |-> t.recoveries + Recovery(t), warned |-> FALSE]

AfterFailure(t, atThreshold) ==
    [streak |-> IF t.streak = MaxFail THEN MaxFail ELSE t.streak + 1,
     recoveries |-> t.recoveries, warned |-> t.warned \/ atThreshold]

Answers(p, s) ==
    /\ ping[p][s].at = "asking" /\ Tally(p, s).recoveries < MaxPenalty
    /\ Move(p, s, "alive") /\ Found(p, s, AfterAnswer(Tally(p, s)))
    /\ UNCHANGED <<health, story>>

(* The stream fails or the 4 s are over.  At the threshold only an event,  *)
(* WARNING_OFFLINE, is queued.                                             *)
AtThreshold(p, s) == ping[p][s].fail + 1 >= MaxFail

Fails(p, s) ==
    /\ ping[p][s].at = "asking"
    /\ IF AtThreshold(p, s) THEN Finish(p, s) ELSE Move(p, s, "failed")
    /\ Found(p, s, AfterFailure(Tally(p, s), AtThreshold(p, s)))
    /\ UNCHANGED <<health, story>>

(* SetPing; a peer that had not failed is done. *)
SetPing(p, s) ==
    /\ ping[p][s].at = "alive"
    /\ IF ping[p][s].fail > 0 THEN Move(p, s, "healed") ELSE Finish(p, s)
    /\ UNCHANGED <<health, tally, story>>

(* Seeded fault: the penalty points are forgotten. *)
UpdateHealthFailOnly(p, fail, penalty) ==
    health' = IF health[p].known THEN [health EXCEPT ![p].fail = fail] ELSE health

(* UpdateHealth: absolute values, to a peer that is still known. *)
UpdateHealth(p, fail, penalty) ==
    health' = IF health[p].known
              THEN [health EXCEPT ![p].fail = fail, ![p].penalty = penalty] ELSE health

WriteHealth(p, s, fail, penalty) ==
    /\ UpdateHealth(p, fail, penalty) /\ Finish(p, s)
    /\ story' = IF health[p].known THEN [story EXCEPT ![p].of = ping[p][s].account] ELSE story
    /\ UNCHANGED tally

Heal(p, s) == ping[p][s].at = "healed" /\ WriteHealth(p, s, 0, ping[p][s].penalty + 1)

Worsen(p, s) == ping[p][s].at = "failed" /\ WriteHealth(p, s, ping[p][s].fail + 1, ping[p][s].penalty)

(* Disconnected removes the record, a connection or a gossip report makes  *)
(* a new one (PeerCache).                                                  *)
Leave(p) ==
    /\ health[p].known /\ story[p].last < MaxLeaves
    /\ health' = [health EXCEPT ![p] = [NewPeer EXCEPT !.known = FALSE]]
    /\ story' = [story EXCEPT ![p].of = story[p].last + 1, ![p].last = story[p].last + 1]
    /\ UNCHANGED <<ping, tally>>

Return(p) ==
    /\ ~health[p].known /\ health' = [health EXCEPT ![p] = NewPeer]
    /\ UNCHANGED <<ping, tally, story>>

PingNext ==
    \/ Tick
    \/ \E p \in Pinged, s \in 1..Slots :
          Answers(p, s) \/ Fails(p, s) \/ SetPing(p, s) \/ Heal(p, s) \/ Worsen(p, s)
    \/ \E p \in Pinged : Leave(p) \/ Return(p)

PingSpec == PingInit /\ [][PingNext]_pingVars

-----------------------------------------------------------------------------
(* Properties *)

(* Although a ping writes absolute values up to 4 s after it read the      *)
(* record (server_p2p.go:184), and perhaps to a record made anew in        *)
(* between, what stands between two pings in a peer's record is the exact  *)
(* result of all the pings of one account: the streak of failures, short   *)
(* of the threshold, one penalty point for every recovery, and a warning   *)
(* queued when, and only when, the streak reached the threshold.  Pings    *)
(* that overlap break this, for which check_interval_sec must be set       *)
(* below 4 s, and are excepted (see OfflineWhenDue).                       *)
HealthExact ==
    \A p \in Pinged :
        health[p].known /\ Flying(p) = {} /\ ~story[p].muddled =>
            LET t == tally[p][story[p].of]
            IN  /\ health[p].fail = (IF t.streak < MaxFail THEN t.streak ELSE MaxFail - 1)
                /\ health[p].penalty = t.recoveries
                /\ t.warned <=> t.streak = MaxFail

-----------------------------------------------------------------------------
(* Claims of the documents that the code's behaviour does not bear out. *)

(* docs/HUB_MODE.md:153, max_fail_count: "Consecutive ping failures before *)
(* a peer is flagged offline".                                             *)
OfflineWhenDue ==
    \A p \in Pinged : \A n \in 0..MaxLeaves :
        tally[p][n].streak = MaxFail => tally[p][n].warned
=============================================================================
