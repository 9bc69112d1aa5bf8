--------------------------- MODULE PeerStoreProofs ---------------------------
(***************************************************************************)
(* What the table peers.db holds, as long as the callers of Flush have     *)
(* taken turns and every warm start has read the whole table: RowsCovered, *)
(* CommitIsSnapshot, the refinement of WriteBehind, and the audit events   *)
(* (EventsExactlyOnce).                                                    *)
(***************************************************************************)
EXTENDS PeerCacheProofs

Regular == Serial /\ warm

-----------------------------------------------------------------------------
(* The table against the cache and the copies.                             *)
(*                                                                         *)
(* RowsCovered is not inductive: a commit writes a copy that may be older  *)
(* than the cache, and a drain takes DELETEs off the queue.  So the copy   *)
(* has to be covered as well, a commit has to cover what it leaves in the  *)
(* table, and between a commit and its drain the table is the copy.        *)
Covered(map) == \A p \in Peers : map[p] # NoPeer => peers[p] # NoPeer \/ p \in pendingDeletes

FlightCovered(c) ==
    /\ InFlight(c) => Covered(flush[c].peers)
    /\ flush[c].pc = "copied" =>
           \A p \in Peers : rows[p] # NoPeer =>
               flush[c].peers[p] # NoPeer \/ p \in flush[c].deletes
    /\ flush[c].pc = "drain" => rows = flush[c].peers

RowsInv == Regular => Covered(rows) /\ \A c \in Callers : FlightCovered(c)

StoreInv == BaseInv /\ RowsInv

LEMMA RegularStaysSo ==
    ASSUME BaseInv, [Next]_vars, Regular'
    PROVE  Regular
BY DEF BaseInv, TypeOK, Next, Boot, UpsertGossip, Connected, Disconnected, Credit, QueueEvent,
       ResetStats, Stop, FinalFlush, Restart, NewLife, FlushStep, FlushCopy, FlushNothing,
       Commit, CommitFails, Drain, DrainPanics, Regular, Serial, vars, lifeVars

(* A step of the cache that forgets no known peer without queuing its      *)
(* DELETE, and drops no DELETE of a peer that stays unknown.               *)
LEMMA QuietRows ==
    ASSUME RowsInv, Regular, UNCHANGED rows, TypeOK,
           \A p \in Peers : peers[p] # NoPeer \/ p \in pendingDeletes
                                => peers'[p] # NoPeer \/ p \in pendingDeletes',
           \A c \in Callers :
               \/ flush'[c] = flush[c]
               \/ flush'[c].pc \in {"idle", "begin"}
    PROVE  RowsInv'
<1>1. /\ Covered(rows)'
      /\ \A c \in Callers : Covered(flush[c].peers) /\ InFlight(c)' => Covered(flush[c].peers)'
  BY DEF RowsInv, Covered, InFlight
<1>2. ASSUME NEW c \in Callers PROVE FlightCovered(c)'
  BY <1>1, <1>2 DEF RowsInv, FlightCovered, InFlight
<1>3. QED
  BY <1>1, <1>2 DEF RowsInv

LEMMA NewLifeRows ==
    ASSUME TypeOK, NEW readable \in SUBSET Peers, NewLife(readable), Regular'
    PROVE  RowsInv'
<1>1. peers' = [p \in Peers |-> IF p \in readable THEN rows[p] ELSE NoPeer]
      /\ rows' = rows /\ rows \in [Peers -> MaybeRecord]
  BY DEF NewLife, TypeOK, dbVars
<1>k. \A p \in Peers : rows[p] # NoPeer => p \in readable
  BY <1>1, KnownIff DEF NewLife, Regular
<1>2. peers' = rows' /\ \A c \in Callers : flush'[c].pc = "idle"
  BY <1>1, <1>k DEF NewLife, dbVars, NoFlush
<1>3. QED
  BY <1>2 DEF RowsInv, Covered, FlightCovered, InFlight

(* BatchFlush, on a table the copy covers: the table becomes the copy. *)
LEMMA OverlayIsCopy ==
    ASSUME NEW table \in [Peers -> MaybeRecord], NEW copy \in [Peers -> MaybeRecord],
           NEW deletes \in SUBSET Peers,
           \A p \in Peers : table[p] # NoPeer => copy[p] # NoPeer \/ p \in deletes
    PROVE  Overlay(table, copy, deletes) = copy
BY DEF Overlay

LEMMA CommitCopies ==
    ASSUME StoreInv, Regular, NEW c \in Callers, Commit(c)
    PROVE  rows' = flush[c].peers
<1>1. flush[c] \in FlushState /\ rows \in [Peers -> MaybeRecord]
  BY DEF StoreInv, BaseInv, TypeOK
<1>2. \A p \in Peers : rows[p] # NoPeer => flush[c].peers[p] # NoPeer \/ p \in flush[c].deletes
  BY DEF StoreInv, RowsInv, FlightCovered, Commit
<1>3. /\ flush[c].peers \in [Peers -> MaybeRecord] /\ flush[c].deletes \in SUBSET Peers
      /\ rows' = Overlay(rows, flush[c].peers, flush[c].deletes)
  BY <1>1 DEF Commit, FlushState
<1>4. QED
  BY <1>1, <1>2, <1>3, OverlayIsCopy

LEMMA FlushStepRows ==
    ASSUME StoreInv, Regular, NEW c \in Callers, FlushStep(c), Regular'
    PROVE  RowsInv'
<1>t. TypeOK /\ TypeOK' /\ BaseInv /\ BaseInv' /\ RowsInv
  BY FlushStepBase DEF StoreInv, BaseInv
<1>f. flush \in [Callers -> FlushState] /\ flush[c] \in FlushState
  BY <1>t DEF TypeOK
<1>o. InFlight(c)' => \A d \in Callers \ {c} : flush'[d].pc \notin {"copied", "drain"}
  BY <1>t DEF BaseInv, TakeTurns, Regular, InFlight
<1>1. CASE FlushCopy(c)
  <2>1. /\ flush'[c].pc = "copied" /\ flush'[c].peers = peers'
        /\ flush'[c].deletes = pendingDeletes'
        /\ UNCHANGED <<peers, pendingDeletes, rows>>
    BY <1>1, <1>f DEF FlushCopy, cacheVars, dbVars
  <2>2. Covered(rows)' /\ Covered(flush[c].peers)'
    BY <2>1, <1>t DEF RowsInv, Covered
  <2>3. FlightCovered(c)'
    BY <2>1, <2>2 DEF FlightCovered, Covered
  <2>4. \A d \in Callers \ {c} : FlightCovered(d)'
    BY <1>o, <2>1 DEF FlightCovered, InFlight
  <2>5. QED
    BY <2>2, <2>3, <2>4 DEF RowsInv
<1>2. CASE FlushNothing(c)
  BY <1>2, <1>t, <1>f, QuietRows DEF FlushNothing, Return, cacheVars, dbVars, NoFlush
<1>3. CASE Commit(c)
  <2>1. /\ flush'[c].pc = "drain" /\ flush'[c].peers = flush[c].peers
        /\ flush[c].pc = "copied" /\ UNCHANGED <<peers, pendingDeletes>>
    BY <1>3, <1>f DEF Commit, FlushState, cacheVars
  <2>2. rows' = flush[c].peers
    BY <1>3, CommitCopies
  <2>3. Covered(flush[c].peers)' /\ Covered(rows)'
    BY <2>1, <2>2, <1>t DEF RowsInv, FlightCovered, InFlight, Covered
  <2>4. FlightCovered(c)'
    BY <2>1, <2>2, <2>3 DEF FlightCovered
  <2>5. \A d \in Callers \ {c} : FlightCovered(d)'
    BY <1>o, <2>1 DEF FlightCovered, InFlight
  <2>6. QED
    BY <2>3, <2>4, <2>5 DEF RowsInv
<1>4. CASE CommitFails(c)
  BY <1>4, <1>t, <1>f, QuietRows DEF CommitFails, Return, cacheVars, dbVars, NoFlush
<1>5. CASE Drain(c)
  <2>1. /\ flush' = [flush EXCEPT ![c] = NoFlush] /\ UNCHANGED <<peers, rows>>
        /\ pendingDeletes' = pendingDeletes \ flush[c].deletes
        /\ flush[c].pc = "drain"
    BY <1>5 DEF Drain, Return, dbVars
  <2>2. rows = flush[c].peers /\ Covered(rows)
    BY <2>1, <1>t DEF RowsInv, FlightCovered
  <2>3. \A p \in flush[c].deletes : rows[p] = NoPeer
    BY <2>2, <1>t DEF BaseInv, CopiesDisjoint
  <2>4. Covered(rows)'
    BY <2>1, <2>2, <2>3 DEF Covered
  <2>5. \A d \in Callers : flush'[d].pc \notin {"copied", "drain"}
    BY <2>1, <1>f, <1>t DEF BaseInv, TakeTurns, Regular, InFlight, NoFlush
  <2>6. QED
    BY <2>4, <2>5 DEF RowsInv, FlightCovered, InFlight
<1>6. CASE DrainPanics(c)
  <2>1. ASSUME c = "reset", flush' = [flush EXCEPT ![c] = NoFlush],
               UNCHANGED <<cacheVars, dbVars>>
        PROVE  RowsInv'
    BY <2>1, <1>t, <1>f, QuietRows DEF cacheVars, dbVars, NoFlush
  <2>2. QED
    BY <1>6, <1>t, <2>1, NewLifeRows DEF DrainPanics
<1>7. QED
  BY <1>1, <1>2, <1>3, <1>4, <1>5, <1>6 DEF FlushStep

LEMMA BootRows ==
    ASSUME StoreInv, Regular, NEW seed \in SeedSnapshots, NEW written \in BOOLEAN,
           Boot(seed, written)
    PROVE  /\ rows' \in {rows, peers'}
           /\ RowsInv'
<1>t. TypeOK /\ RowsInv /\ seed \in [Peers -> MaybeRecord]
  BY SeedAssumption DEF StoreInv, BaseInv
<1>1. pendingDeletes = {} /\ \A c \in Callers : flush'[c].pc = "idle"
  BY DEF StoreInv, BaseInv, BootClean, Boot, NoFlush
<1>2. \A p \in Peers : peers[p] # NoPeer => peers'[p] # NoPeer
  <2>1. ASSUME NEW p \in Peers, peers[p] # NoPeer, seed[p] # NoPeer
        PROVE  Merged(peers[p], seed[p]) # NoPeer
    <3>1. peers[p] \in Record /\ seed[p] \in Record
      BY <2>1, <1>t DEF TypeOK, MaybeRecord
    <3>2. seed[p].req \in Nat /\ seed[p].tok \in Nat /\ seed[p].score \in Nat
      BY <3>1 DEF Record
    <3>3. KeepMax(peers[p], seed[p].req, seed[p].tok, seed[p].score) \in Record
      BY <3>1, <3>2, KeepMaxRecord
    <3>4. QED
      BY <2>1, <3>3, NoPeerAssumption DEF Merged
  <2>2. QED
    BY <2>1 DEF Boot, Merged
<1>3. \A p \in Peers : rows[p] # NoPeer => peers'[p] # NoPeer
  BY <1>t, <1>1, <1>2 DEF RowsInv, Covered
<1>4. peers' \in [Peers -> MaybeRecord] /\ rows \in [Peers -> MaybeRecord]
  BY <1>t, BootType DEF TypeOK
<1>5. rows' \in {rows, peers'}
  BY <1>3, <1>4, OverlayIsCopy DEF Boot
<1>6. QED
  BY <1>1, <1>3, <1>5 DEF RowsInv, Covered, FlightCovered, InFlight

LEMMA StepRows ==
    ASSUME StoreInv, [Next]_vars
    PROVE  StoreInv'
<1>t. BaseInv /\ BaseInv' /\ TypeOK /\ TypeOK' /\ RowsInv
  BY StepBase DEF StoreInv, BaseInv
<1> SUFFICES ASSUME Regular' PROVE RowsInv'
  BY <1>t DEF StoreInv, RowsInv
<1>r. Regular
  BY <1>t, RegularStaysSo
<1>1. ASSUME NEW seed \in SeedSnapshots, NEW written \in BOOLEAN, Boot(seed, written)
      PROVE  RowsInv'
  BY <1>1, <1>r, BootRows
<1>2. ASSUME NEW p \in Peers, NEW report \in Reports, UpsertGossip(p, report)
      PROVE  RowsInv'
  <2>1. AfterGossip(peers[p], report) # NoPeer
    BY <1>t, AfterGossipRecord, InputsAssumption, NoPeerAssumption DEF TypeOK
  <2>2. QED
    BY <1>2, <1>t, <1>r, <2>1, QuietRows DEF UpsertGossip, dbVars, TypeOK
<1>3. ASSUME NEW p \in Peers, Connected(p) PROVE RowsInv'
  <2>1. AfterConnection(peers[p]) # NoPeer
    BY <1>t, AfterConnectionRecord, NoPeerAssumption DEF TypeOK
  <2>2. QED
    BY <1>3, <1>t, <1>r, <2>1, QuietRows DEF Connected, dbVars, TypeOK
<1>4. ASSUME NEW p \in Peers, Disconnected(p) PROVE RowsInv'
  BY <1>4, <1>t, <1>r, QuietRows DEF Disconnected, dbVars, TypeOK
<1>5. ASSUME NEW p \in Peers, NEW work \in Work, Credit(p, work) PROVE RowsInv'
  <2>1. peers[p] \in Record
    BY <1>5, <1>t DEF Credit, TypeOK, MaybeRecord
  <2>2. AfterCredit(peers[p], work) # NoPeer
    BY <2>1, AfterCreditRecord, InputsAssumption, NoPeerAssumption
  <2>3. QED
    BY <1>5, <1>t, <1>r, <2>2, QuietRows DEF Credit, dbVars, TypeOK
<1>6. CASE ResetStats
  <2>1. \A p \in Peers : peers[p] # NoPeer => Zeroed(peers[p]) # NoPeer
    BY <1>t, ZeroedRecord, NoPeerAssumption DEF TypeOK, MaybeRecord
  <2>2. \A c \in Callers : flush'[c] = flush[c] \/ flush'[c].pc = "begin"
    BY <1>6, <1>t DEF ResetStats, TypeOK, FlushState, Begun
  <2>3. QED
    BY <1>6, <1>t, <1>r, <2>1, <2>2, QuietRows DEF ResetStats, dbVars, TypeOK
<1>7. CASE FinalFlush
  <2>1. \A c \in Callers : flush'[c] = flush[c] \/ flush'[c].pc = "begin"
    BY <1>7, <1>t DEF FinalFlush, TypeOK, FlushState
  <2>2. QED
    BY <1>7, <1>t, <1>r, <2>1, QuietRows DEF FinalFlush, dbVars, cacheVars
<1>8. CASE Restart
  BY <1>8, <1>t, NewLifeRows DEF Restart
<1>9. ASSUME NEW c \in Callers, FlushStep(c) PROVE RowsInv'
  BY <1>9, <1>r, FlushStepRows
<1>10. CASE QueueEvent \/ Stop \/ UNCHANGED vars
  <2>1. UNCHANGED <<peers, pendingDeletes, flush, rows>>
    BY <1>10 DEF QueueEvent, Stop, vars, cacheVars, dbVars
  <2>2. QED
    BY <1>t, <1>r, <2>1, QuietRows
<1>11. QED
  BY <1>1, <1>2, <1>3, <1>4, <1>5, <1>6, <1>7, <1>8, <1>9, <1>10 DEF Next

LEMMA InitRows == Init => StoreInv
<1>1. Init => RowsInv
  BY DEF Init, RowsInv, Covered, FlightCovered, InFlight, NoFlush, NoPeers
<1>2. QED
  BY <1>1, InitBase DEF StoreInv

LEMMA StoreCorrect == Spec => []StoreInv
<1>1. StoreInv /\ [Next]_vars => StoreInv'
  BY StepRows
<1>2. QED
  BY <1>1, InitRows, PTL DEF Spec

(* While flushes take turns and warm starts read the table, no row belongs *)
(* to a peer that was removed and whose DELETE is no longer queued.        *)
THEOREM RowsAlwaysCovered == Spec => []RowsCovered
<1>1. StoreInv => RowsCovered
  <2> SUFFICES ASSUME StoreInv, Serial, warm, NEW p \in Known(rows)
               PROVE  p \in Known(peers) \cup pendingDeletes
    BY DEF RowsCovered
  <2>1. TypeOK /\ Covered(rows)
    BY DEF StoreInv, BaseInv, RowsInv, Regular
  <2>2. p \in Peers /\ rows[p] # NoPeer
    BY <2>1, KnownIff DEF TypeOK
  <2>3. QED
    BY <2>1, <2>2, KnownIff DEF Covered, TypeOK
<1>2. QED
  BY <1>1, StoreCorrect, PTL

(* A commit replaces the table by the cache as it stood at the copy: its   *)
(* DELETEs and UPSERTs never leave a stale row and never lose a live one.  *)
THEOREM CommitsAreSnapshots == Spec => CommitIsSnapshot
<1>1. ASSUME StoreInv, [Next]_vars, NEW c \in Callers,
             flush[c].pc = "copied", flush'[c].pc = "drain", Serial, warm
      PROVE  rows' = flush[c].peers
  <2>t. flush \in [Callers -> FlushState]
    BY <1>1 DEF StoreInv, BaseInv, TypeOK
  <2>1. Commit(c)
    <3>1. ASSUME NEW d \in Callers, FlushStep(d) PROVE Commit(c)
      <4>1. FlushCopy(d) => flush'[c] = flush[c] \/ flush'[c].pc = "copied"
        BY <2>t DEF FlushCopy
      <4>2. FlushNothing(d) \/ CommitFails(d) \/ Drain(d) \/ DrainPanics(d)
                => flush'[c] = flush[c] \/ flush'[c].pc = "idle"
        <5>1. flush' = [flush EXCEPT ![d] = NoFlush]
                  => flush'[c] = flush[c] \/ flush'[c].pc = "idle"
          BY <2>t DEF NoFlush
        <5>2. flush' = [e \in Callers |-> NoFlush] => flush'[c].pc = "idle"
          BY DEF NoFlush
        <5>3. QED
          BY <5>1, <5>2 DEF FlushNothing, CommitFails, Drain, DrainPanics, NewLife, Return
      <4>3. Commit(d) => d = c \/ flush'[c] = flush[c]
        BY <2>t DEF Commit
      <4>4. QED
        BY <1>1, <3>1, <4>1, <4>2, <4>3 DEF FlushStep
    <3>2. CASE UNCHANGED vars
      BY <1>1, <3>2 DEF vars
    <3>3. CASE Restart
      BY <1>1, <3>3 DEF Restart, NewLife, NoFlush
    <3>4. CASE ResetStats
      BY <1>1, <2>t, <3>4 DEF ResetStats, FlushState
    <3>5. CASE FinalFlush
      BY <1>1, <2>t, <3>5 DEF FinalFlush, FlushState
    <3>6. QED
      BY <1>1, <3>1, <3>2, <3>3, <3>4, <3>5
         DEF Next, Boot, UpsertGossip, Connected, Disconnected, Credit, QueueEvent, Stop
  <2>2. QED
    BY <1>1, <2>1, CommitCopies DEF Regular
<1>2. StoreInv /\ [Next]_vars =>
        [\A c \in Callers :
           flush[c].pc = "copied" /\ flush'[c].pc = "drain" /\ Serial /\ warm
               => rows' = flush[c].peers]_vars
  BY <1>1
<1>3. QED
  BY <1>2, StoreCorrect, PTL DEF Spec, CommitIsSnapshot

-----------------------------------------------------------------------------
(* OrderlySpec implements WriteBehind.                                     *)

(* The value cut has under the refinement mapping. *)
Cut == IF InTransit = {} THEN <<>> ELSE <<flush[CHOOSE c \in InTransit : TRUE].peers>>

Copying(c) == flush[c].pc = "copied"

LEMMA CutNone ==
    ASSUME \A c \in Callers : ~Copying(c)
    PROVE  Cut = <<>>
BY DEF Cut, InTransit, Copying

LEMMA CutOne ==
    ASSUME NEW c \in Callers, Copying(c), \A d \in Callers \ {c} : ~Copying(d)
    PROVE  Cut = <<flush[c].peers>>
<1>1. InTransit = {c}
  BY DEF InTransit, Copying
<1>2. (CHOOSE d \in InTransit : TRUE) = c
  BY <1>1
<1>3. QED
  BY <1>1, <1>2 DEF Cut

(* A step that starts and ends no copy keeps the cut. *)
LEMMA CutKept ==
    ASSUME TakeTurns, Serial, Serial',
           \A c \in Callers : Copying(c)' <=> Copying(c),
           \A c \in Callers : Copying(c) => flush'[c].peers = flush[c].peers
    PROVE  Cut' = Cut
<1>1. CASE \A c \in Callers : ~Copying(c)
  <2>1. Cut = <<>>
    BY <1>1, CutNone
  <2>2. InTransit' = {}
    BY <1>1 DEF InTransit, Copying
  <2>3. Cut' = <<>>
    BY <2>2 DEF Cut
  <2>4. QED
    BY <2>1, <2>3
<1>2. ASSUME NEW c \in Callers, Copying(c) PROVE Cut' = Cut
  <2>1. \A d \in Callers \ {c} : ~Copying(d)
    BY <1>2 DEF TakeTurns, InFlight, Copying
  <2>2. Cut = <<flush[c].peers>>
    BY <1>2, <2>1, CutOne
  <2>3. InTransit' = {c}
    BY <1>2, <2>1 DEF InTransit, Copying
  <2>4. (CHOOSE d \in InTransit' : TRUE) = c
    BY <2>3
  <2>5. Cut' = <<flush'[c].peers>>
    BY <2>3, <2>4 DEF Cut
  <2>6. QED
    BY <1>2, <2>2, <2>5
<1>3. QED
  BY <1>1, <1>2

(* The value done has under the refinement mapping. *)
Done == \E c \in Callers : flush[c].pc = "drain"

(* While a flush is in flight, what its caller does decides what is done. *)
LEMMA DoneByOne ==
    ASSUME TakeTurns, Serial, NEW c \in Callers, InFlight(c),
           \A d \in Callers \ {c} : flush'[d] = flush[d]
    PROVE  /\ Done <=> flush[c].pc = "drain"
           /\ Done' <=> flush'[c].pc = "drain"
BY DEF TakeTurns, InFlight, Done

(* A step of the cache alone is a Change of the live map. *)
LEMMA QuietRefines ==
    ASSUME StoreInv, StoreInv', Regular, Regular', UNCHANGED rows,
           \A c \in Callers : flush'[c] = flush[c] \/ (~InFlight(c) /\ ~InFlight(c)')
    PROVE  Store!Next
<1>1. Cut' = Cut
  <2>1. \A c \in Callers : Copying(c)' <=> Copying(c)
    BY DEF Copying, InFlight
  <2>2. \A c \in Callers : Copying(c) => flush'[c].peers = flush[c].peers
    BY DEF Copying, InFlight
  <2>3. QED
    BY <2>1, <2>2, CutKept DEF StoreInv, BaseInv, Regular
<1>2. peers' \in [Peers -> MaybeRecord]
  BY DEF StoreInv, BaseInv, TypeOK
<1>d. Done' = Done
  BY DEF Done, InFlight
<1>3. Store!Change
  BY <1>1, <1>2, <1>d DEF Store!Change, Store!Maps, Store!MaybeRecord, Store!Record, MaybeRecord,
                          Record, Cut, Done
<1>4. QED
  BY <1>3 DEF Store!Next

LEMMA NewLifeRefines ==
    ASSUME StoreInv, NEW readable \in SUBSET Peers, NewLife(readable), Regular'
    PROVE  Store!Next
<1>1. peers' = [p \in Peers |-> IF p \in readable THEN rows[p] ELSE NoPeer]
      /\ rows \in [Peers -> MaybeRecord]
  BY DEF NewLife, StoreInv, BaseInv, TypeOK
<1>k. \A p \in Peers : rows[p] # NoPeer => p \in readable
  BY <1>1, KnownIff DEF NewLife, Regular
<1>2. peers' = rows /\ rows' = rows /\ \A c \in Callers : flush'[c].pc = "idle"
  BY <1>1, <1>k DEF NewLife, dbVars, NoFlush
<1>3. InTransit' = {} /\ Done' = FALSE
  BY <1>2 DEF InTransit, Done
<1>4. Store!Recover
  BY <1>2, <1>3 DEF Store!Recover, Done
<1>5. QED
  BY <1>4 DEF Store!Next

LEMMA FlushStepRefines ==
    ASSUME StoreInv, StoreInv', Regular, Regular', NEW c \in Callers, FlushStep(c)
    PROVE  Store!Next
<1>t. TypeOK /\ TakeTurns /\ TakeTurns'
  BY DEF StoreInv, BaseInv
<1>f. flush \in [Callers -> FlushState] /\ flush[c] \in FlushState
  BY <1>t DEF TypeOK
<1>o. InFlight(c) => \A d \in Callers \ {c} : ~Copying(d)
  BY <1>t DEF TakeTurns, Regular, InFlight, Copying
<1>1. CASE FlushCopy(c)
  <2>1. /\ flush'[c].pc = "copied" /\ flush'[c].peers = peers
        /\ \A d \in Callers \ {c} : flush'[d] = flush[d]
        /\ UNCHANGED <<peers, rows>>
    BY <1>1, <1>f DEF FlushCopy, cacheVars, dbVars
  <2>2. \A d \in Callers \ {c} : ~Copying(d)
    BY <2>1, <1>t DEF TakeTurns, Regular, InFlight, Copying
  <2>3. ~Copying(c)
    BY <1>1 DEF FlushCopy, MayCopy, Copying
  <2>4. Cut = <<>>
    BY <2>2, <2>3, CutNone
  <2>5. InTransit' = {c}
    BY <2>1, <2>2 DEF InTransit, Copying
  <2>6. (CHOOSE d \in InTransit' : TRUE) = c
    BY <2>5
  <2>7. Cut' = <<peers>>
    BY <2>1, <2>5, <2>6 DEF Cut
  <2>d. ~Done /\ ~Done'
    BY <2>1, <1>1, <1>t DEF FlushCopy, MayCopy, TakeTurns, Regular, InFlight, Done
  <2>8. Store!Capture
    BY <2>1, <2>4, <2>7, <2>d DEF Store!Capture, Cut, Done
  <2>9. QED
    BY <2>8 DEF Store!Next
<1>2. CASE FlushNothing(c)
  <2>1. ~InFlight(c) /\ UNCHANGED rows
    BY <1>2 DEF FlushNothing, MayCopy, InFlight, dbVars
  <2>2. flush' = [flush EXCEPT ![c] = NoFlush]
    BY <1>2 DEF FlushNothing, Return
  <2>3. ~InFlight(c)' /\ \A d \in Callers \ {c} : flush'[d] = flush[d]
    BY <2>2, <1>f DEF NoFlush, InFlight
  <2>4. QED
    BY <2>1, <2>3, QuietRefines
<1>3. CASE Commit(c)
  <2>1. Copying(c) /\ rows' = flush[c].peers /\ UNCHANGED peers
    BY <1>3, CommitCopies DEF Commit, Copying, cacheVars
  <2>2. Cut = <<flush[c].peers>>
    BY <2>1, <1>o, CutOne DEF InFlight, Copying
  <2>3. flush'[c].pc = "drain" /\ \A d \in Callers \ {c} : flush'[d] = flush[d]
    BY <1>3, <1>f DEF Commit
  <2>4. InTransit' = {}
    BY <2>1, <2>3, <1>o DEF InTransit, Copying, InFlight
  <2>5. Cut' = <<>>
    BY <2>4 DEF Cut
  <2>6. Cut # <<>> /\ Head(Cut) = flush[c].peers
    BY <2>2
  <2>d. Done' = TRUE
    BY <2>3 DEF Done
  <2>7. Store!Publish
    BY <2>1, <2>5, <2>6, <2>d DEF Store!Publish, Cut, Done
  <2>8. QED
    BY <2>7 DEF Store!Next
<1>4. CASE CommitFails(c)
  <2>1. Copying(c) /\ UNCHANGED <<peers, rows>>
    BY <1>4 DEF CommitFails, Copying, cacheVars, dbVars
  <2>2. flush' = [flush EXCEPT ![c] = NoFlush]
    BY <1>4 DEF CommitFails, Return
  <2>3. \A d \in Callers : flush'[d].pc # "copied"
    BY <2>1, <2>2, <1>f, <1>o DEF NoFlush, Copying, InFlight
  <2>4. InTransit' = {}
    BY <2>3 DEF InTransit
  <2>d. ~Done /\ ~Done'
    <3>1. flush'[c].pc = "idle" /\ \A d \in Callers \ {c} : flush'[d] = flush[d]
      BY <2>2, <1>f DEF NoFlush
    <3>2. QED
      BY <2>1, <3>1, <1>t, DoneByOne DEF Regular, Copying, InFlight
  <2>c. InTransit # {}
    BY <2>1 DEF InTransit, Copying
  <2>5. Store!Abandon
    BY <2>1, <2>4, <2>c, <2>d DEF Store!Abandon, Done
  <2>6. QED
    BY <2>5 DEF Store!Next
<1>d. ASSUME flush[c].pc = "drain", flush' = [flush EXCEPT ![c] = NoFlush],
             UNCHANGED <<peers, rows>>
      PROVE  Store!Next
  <2>1. flush'[c].pc = "idle" /\ \A d \in Callers \ {c} : flush'[d] = flush[d]
    BY <1>d, <1>f DEF NoFlush
  <2>2. Done /\ ~Done'
    BY <1>d, <2>1, <1>t, DoneByOne DEF Regular, InFlight
  <2>3. \A d \in Callers : ~Copying(d) /\ ~Copying(d)'
    BY <1>d, <2>1, <1>o DEF Copying, InFlight
  <2>4. Cut' = Cut
    BY <2>3, <1>t, CutKept DEF Regular
  <2>5. Store!Acknowledge
    BY <1>d, <2>2, <2>4 DEF Store!Acknowledge, Cut, Done
  <2>6. QED
    BY <2>5 DEF Store!Next
<1>5. CASE Drain(c)
  BY <1>5, <1>d DEF Drain, Return, dbVars
<1>6. CASE DrainPanics(c)
  BY <1>6, <1>d, NewLifeRefines DEF DrainPanics, cacheVars, dbVars
<1>7. QED
  BY <1>1, <1>2, <1>3, <1>4, <1>5, <1>6 DEF FlushStep

(* What a start finds before it merges the seed's snapshot is the table.   *)
BootFresh == Regular /\ phase = "boot" => peers = rows

LEMMA NewLifeFresh ==
    ASSUME TypeOK, NEW readable \in SUBSET Peers, NewLife(readable)
    PROVE  BootFresh'
<1>1. peers' = [p \in Peers |-> IF p \in readable THEN rows[p] ELSE NoPeer]
      /\ rows' = rows /\ rows \in [Peers -> MaybeRecord]
  BY DEF NewLife, TypeOK, dbVars
<1>2. Regular' => \A p \in Peers : rows[p] # NoPeer => p \in readable
  BY <1>1, KnownIff DEF NewLife, Regular
<1>3. Regular' => peers' = rows'
  BY <1>1, <1>2
<1>. QED BY <1>3 DEF BootFresh

LEMMA BootFreshStep ==
    ASSUME BaseInv, BootFresh, [Next]_vars
    PROVE  BootFresh'
<1>t. TypeOK /\ (phase = "boot" => \A c \in Callers : flush[c] = NoFlush)
  BY DEF BaseInv, BootClean
<1>1. ASSUME NEW seed \in SeedSnapshots, NEW written \in BOOLEAN, Boot(seed, written)
      PROVE  BootFresh'
  BY <1>1 DEF Boot, BootFresh
<1>2. ASSUME NEW p \in Peers,
             \/ \E report \in Reports : UpsertGossip(p, report)
             \/ Connected(p) \/ Disconnected(p)
             \/ \E work \in Work : Credit(p, work)
      PROVE  BootFresh'
  BY <1>2 DEF UpsertGossip, Connected, Disconnected, Credit, Live, lifeVars, BootFresh
<1>3. CASE QueueEvent \/ ResetStats \/ Stop \/ FinalFlush
  BY <1>3 DEF QueueEvent, ResetStats, Stop, FinalFlush, Live, lifeVars, BootFresh
<1>4. CASE Restart
  BY <1>4, <1>t, NewLifeFresh DEF Restart
<1>5. ASSUME NEW c \in Callers, FlushStep(c) PROVE BootFresh'
  <2>1. CASE phase = "boot"
    <3>1. flush[c].pc = "idle"
      BY <1>t, <2>1 DEF NoFlush
    <3>. QED BY <1>5, <2>1, <3>1 DEF FlushStep, FlushCopy, FlushNothing, Commit, CommitFails,
                Drain, DrainPanics, MayCopy, Live
  <2>2. CASE phase # "boot"
    <3>1. CASE phase' # "boot"
      BY <3>1 DEF BootFresh
    <3>2. CASE DrainPanics(c)
      <4>1. UNCHANGED phase \/ \E readable \in SUBSET Peers : NewLife(readable)
        BY <3>2 DEF DrainPanics, lifeVars
      <4>. QED BY <1>t, <2>2, <4>1, NewLifeFresh DEF BootFresh
    <3>3. CASE ~DrainPanics(c)
      BY <1>5, <2>2, <3>3
         DEF FlushStep, FlushCopy, FlushNothing, Commit, CommitFails, Drain, Return, lifeVars,
             BootFresh
    <3>. QED BY <3>1, <3>2, <3>3
  <2>. QED BY <2>1, <2>2
<1>6. CASE UNCHANGED vars
  BY <1>6 DEF vars, BootFresh, Regular, Serial
<1>. QED BY <1>1, <1>2, <1>3, <1>4, <1>5, <1>6 DEF Next

LEMMA FreshCorrect == Spec => []BootFresh
<1>1. Init => BootFresh
  BY DEF Init, BootFresh
<1>2. StoreInv /\ BootFresh /\ [Next]_vars => BootFresh'
  BY BootFreshStep DEF StoreInv
<1>. QED BY <1>1, <1>2, StoreCorrect, PTL DEF Spec

LEMMA BootRefines ==
    ASSUME StoreInv, StoreInv', Regular, Regular', BootFresh, NEW seed \in SeedSnapshots,
           NEW written \in BOOLEAN, Boot(seed, written)
    PROVE  Store!Next
<1>1. rows' \in {rows, peers'} /\ peers' \in [Peers -> MaybeRecord]
  BY BootRows DEF StoreInv, BaseInv, TypeOK
<1>2. Cut' = Cut
  BY CutKept DEF StoreInv, BaseInv, Regular, Boot, Copying
<1>3. Cut = <<>>
  BY CutNone DEF StoreInv, BaseInv, BootClean, Boot, Copying, NoFlush
<1>4. peers = rows
  BY DEF Boot, BootFresh
<1>d. ~Done /\ ~Done'
  BY DEF StoreInv, BaseInv, BootClean, Boot, Done, NoFlush
<1>5. Store!Catchup
  BY <1>1, <1>2, <1>3, <1>4, <1>d
     DEF Store!Catchup, Store!Maps, Store!MaybeRecord, Store!Record, MaybeRecord, Record, Cut, Done
<1>6. QED
  BY <1>5 DEF Store!Next

LEMMA StepRefines ==
    ASSUME StoreInv, StoreInv', Regular, Regular', BootFresh, [Next]_vars
    PROVE  [Store!Next]_(Store!vars)
<1>1. ASSUME NEW seed \in SeedSnapshots, NEW written \in BOOLEAN, Boot(seed, written)
      PROVE  Store!Next
  BY <1>1, BootRefines
<1>2. ASSUME NEW p \in Peers,
             \/ \E report \in Reports : UpsertGossip(p, report)
             \/ Connected(p) \/ Disconnected(p)
             \/ \E work \in Work : Credit(p, work)
      PROVE  Store!Next
  BY <1>2, QuietRefines DEF UpsertGossip, Connected, Disconnected, Credit, dbVars
<1>3. CASE ResetStats \/ FinalFlush
  <2>1. \A c \in Callers : flush'[c] = flush[c] \/ (~InFlight(c) /\ ~InFlight(c)')
    BY <1>3 DEF ResetStats, Begun, FinalFlush, StoreInv, BaseInv, TypeOK, FlushState, InFlight
  <2>2. QED
    BY <1>3, <2>1, QuietRefines DEF ResetStats, FinalFlush, dbVars
<1>4. CASE QueueEvent \/ Stop
  BY <1>4, QuietRefines DEF QueueEvent, Stop, dbVars
<1>5. CASE Restart
  BY <1>5, NewLifeRefines DEF Restart
<1>6. ASSUME NEW c \in Callers, FlushStep(c) PROVE Store!Next
  BY <1>6, FlushStepRefines
<1>7. CASE UNCHANGED vars
  <2>1. UNCHANGED <<peers, rows, flush>>
    BY <1>7 DEF vars
  <2>2. QED
    BY <2>1, QuietRefines
<1>8. QED
  BY <1>1, <1>2, <1>3, <1>4, <1>5, <1>6, <1>7 DEF Next

LEMMA OrderlyIsRegular == OrderlySpec => Spec /\ []Regular
<1>1. Init => Regular
  BY DEF Init, Regular, Serial
<1>2. Regular /\ [Orderly(Next)]_vars => Regular'
  <2>1. Orderly(Next) => Regular'
    BY DEF Orderly, Regular, Serial
  <2>2. Regular /\ UNCHANGED vars => Regular'
    BY DEF Regular, Serial, vars
  <2>3. QED
    BY <2>1, <2>2
<1>3. [Orderly(Next)]_vars => [Next]_vars
  BY DEF Orderly
<1>4. QED
  BY <1>1, <1>2, <1>3, PTL DEF OrderlySpec, Spec

(* With orderly callers and restarts, the lock, the two queues, the        *)
(* partial transaction and the warm start amount to WriteBehind: the table *)
(* is only ever replaced by the whole cache of one earlier moment, and a   *)
(* restart finds exactly that.                                             *)
THEOREM StoreRefinesWriteBehind == OrderlySpec => StoreSpec
<1>1. Init => Store!Init
  <2> SUFFICES ASSUME Init PROVE Store!Init
    OBVIOUS
  <2>1. InTransit = {} /\ Done = FALSE
    BY DEF Init, InTransit, NoFlush, Done
  <2>2. QED
    BY <2>1 DEF Init, NoPeers, Store!Init, Done
<1>2. StoreInv /\ StoreInv' /\ Regular /\ Regular' /\ BootFresh /\ [Next]_vars
        => [Store!Next]_(Store!vars)
  BY StepRefines
<1>3. OrderlySpec => Init
  BY DEF OrderlySpec
<1>4. Spec => Init /\ [][Next]_vars
  BY DEF Spec
<1>5. QED
  BY <1>1, <1>2, <1>3, <1>4, OrderlyIsRegular, StoreCorrect, FreshCorrect, PTL DEF StoreSpec, Store!Spec

-----------------------------------------------------------------------------
(* The audit events: each reaches peer_events once and in order.           *)

(* What peer_events holds: the ids 1, 2, 3, ... *)
LogInOrder == \A i \in 1..Len(eventLog) : eventLog[i] = i

(* What is pending: the ids up to the last one queued. *)
QueueInOrder ==
    \A i \in 1..Len(pendingEvents) : pendingEvents[i] = queued - Len(pendingEvents) + i

(* A copy in flight is a prefix of the queue: only its own drain takes     *)
(* from the front.  This is what makes pendingEvents[len(copy):] right.    *)
CopyIsPrefix(c) ==
    InFlight(c) =>
        /\ Len(flush[c].events) <= Len(pendingEvents)
        /\ \A i \in 1..Len(flush[c].events) : flush[c].events[i] = pendingEvents[i]

(* Nothing is lost or doubled: log and queue together count every event,   *)
(* those between commit and drain twice.                                   *)
Balance ==
    /\ (\A c \in Callers : flush[c].pc # "drain")
           => queued = Len(eventLog) + Len(pendingEvents)
    /\ \A c \in Callers : flush[c].pc = "drain"
           => queued = Len(eventLog) + Len(pendingEvents) - Len(flush[c].events)

EventsInv ==
    Serial => LogInOrder /\ QueueInOrder /\ Balance /\ \A c \in Callers : CopyIsPrefix(c)

LEMMA SerialStaysSo ==
    ASSUME BaseInv, [Next]_vars, Serial'
    PROVE  Serial
BY DEF BaseInv, TypeOK, Next, Boot, UpsertGossip, Connected, Disconnected, Credit, QueueEvent,
       ResetStats, Stop, FinalFlush, Restart, NewLife, FlushStep, FlushCopy, FlushNothing,
       Commit, CommitFails, Drain, DrainPanics, Serial, vars, lifeVars

LEMMA EventTypes ==
    ASSUME TypeOK
    PROVE  /\ flush \in [Callers -> FlushState] /\ queued \in Nat
           /\ pendingEvents \in Seq(Nat) /\ Len(pendingEvents) \in Nat
           /\ eventLog \in Seq(Nat) /\ Len(eventLog) \in Nat
           /\ \A c \in Callers : flush[c].events \in Seq(Nat) /\ Len(flush[c].events) \in Nat
BY DEF TypeOK, FlushState

(* A step that touches no event: a caller may at most leave its flush      *)
(* before having committed, or take its turn.                              *)
LEMMA QuietEvents ==
    ASSUME EventsInv, Serial, UNCHANGED <<pendingEvents, eventLog, queued>>,
           \A c \in Callers : \/ flush'[c] = flush[c]
                              \/ flush[c].pc # "drain" /\ ~InFlight(c)'
    PROVE  EventsInv'
<1>1. LogInOrder' /\ QueueInOrder'
  BY DEF EventsInv, LogInOrder, QueueInOrder
<1>2. \A c \in Callers : CopyIsPrefix(c)'
  BY DEF EventsInv, CopyIsPrefix, InFlight
<1>3. Balance'
  BY DEF EventsInv, Balance, InFlight
<1>4. QED
  BY <1>1, <1>2, <1>3 DEF EventsInv

LEMMA NewLifeEvents ==
    ASSUME TypeOK, EventsInv, Serial, NEW readable \in SUBSET Peers, NewLife(readable)
    PROVE  EventsInv'
<1>1. /\ pendingEvents' = <<>> /\ Len(pendingEvents') = 0 /\ eventLog' = eventLog
      /\ queued' = Len(eventLog) /\ Len(eventLog) \in Nat
      /\ \A c \in Callers : flush'[c].pc = "idle"
  BY EventTypes DEF NewLife, dbVars, NoFlush
<1>2. LogInOrder' /\ QueueInOrder'
  BY <1>1 DEF EventsInv, LogInOrder, QueueInOrder
<1>3. Balance' /\ \A c \in Callers : CopyIsPrefix(c)'
  BY <1>1 DEF Balance, CopyIsPrefix, InFlight
<1>4. QED
  BY <1>2, <1>3 DEF EventsInv

LEMMA QueueEventEvents ==
    ASSUME TypeOK, EventsInv, Serial, QueueEvent
    PROVE  EventsInv'
<1>t. /\ queued \in Nat /\ pendingEvents \in Seq(Nat) /\ Len(pendingEvents) \in Nat
      /\ Len(eventLog) \in Nat
      /\ \A c \in Callers : Len(flush[c].events) \in Nat
  BY EventTypes
<1>1. /\ Len(pendingEvents') = Len(pendingEvents) + 1
      /\ \A i \in 1..Len(pendingEvents) : pendingEvents'[i] = pendingEvents[i]
      /\ pendingEvents'[Len(pendingEvents) + 1] = queued + 1
  BY <1>t, AppendProperties DEF QueueEvent
<1>2. queued' = queued + 1 /\ UNCHANGED <<eventLog, flush>>
  BY DEF QueueEvent, dbVars
<1>3. QueueInOrder'
  <2>1. ASSUME NEW i \in 1..(Len(pendingEvents) + 1)
        PROVE  pendingEvents'[i] = queued - Len(pendingEvents) + i
    <3>1. CASE i \in 1..Len(pendingEvents)
      BY <1>1, <3>1 DEF EventsInv, QueueInOrder
    <3>2. CASE i = Len(pendingEvents) + 1
      BY <1>1, <1>t, <3>2
    <3>3. QED
      BY <1>t, <3>1, <3>2
  <2>2. QED
    BY <1>1, <1>2, <1>t, <2>1 DEF QueueInOrder
<1>4. LogInOrder'
  BY <1>2 DEF EventsInv, LogInOrder
<1>5. Balance'
  <2>1. ASSUME \A c \in Callers : flush[c].pc # "drain"
        PROVE  queued' = Len(eventLog') + Len(pendingEvents')
    <3>1. queued = Len(eventLog) + Len(pendingEvents)
      BY <2>1 DEF EventsInv, Balance
    <3>2. QED
      BY <3>1, <1>1, <1>2, <1>t
  <2>2. ASSUME NEW c \in Callers, flush[c].pc = "drain"
        PROVE  queued' = Len(eventLog') + Len(pendingEvents') - Len(flush[c].events)
    <3>1. queued = Len(eventLog) + Len(pendingEvents) - Len(flush[c].events)
      BY <2>2 DEF EventsInv, Balance
    <3>2. QED
      BY <3>1, <1>1, <1>2, <1>t
  <2>3. QED
    BY <2>1, <2>2, <1>2 DEF Balance
<1>6. ASSUME NEW c \in Callers PROVE CopyIsPrefix(c)'
  <2> SUFFICES ASSUME InFlight(c)
               PROVE  /\ Len(flush[c].events) <= Len(pendingEvents')
                      /\ \A i \in 1..Len(flush[c].events) : flush[c].events[i] = pendingEvents'[i]
    BY <1>2 DEF CopyIsPrefix, InFlight
  <2>1. /\ Len(flush[c].events) <= Len(pendingEvents)
        /\ \A i \in 1..Len(flush[c].events) : flush[c].events[i] = pendingEvents[i]
    BY DEF EventsInv, CopyIsPrefix
  <2>2. QED
    BY <1>1, <1>t, <2>1
<1>7. QED
  BY <1>3, <1>4, <1>5, <1>6 DEF EventsInv

LEMMA CopyEvents ==
    ASSUME BaseInv, EventsInv, Serial, Serial', NEW c \in Callers, FlushCopy(c)
    PROVE  EventsInv'
<1>t. TypeOK /\ flush \in [Callers -> FlushState] /\ Len(pendingEvents) \in Nat
  BY EventTypes DEF BaseInv
<1>1. /\ flush'[c].pc = "copied" /\ flush'[c].events = pendingEvents
      /\ flush[c].pc # "drain" /\ \A d \in Callers \ {c} : flush'[d] = flush[d]
      /\ UNCHANGED <<pendingEvents, eventLog, queued>>
  BY <1>t DEF FlushCopy, MayCopy, cacheVars, dbVars
<1>2. LogInOrder' /\ QueueInOrder'
  BY <1>1 DEF EventsInv, LogInOrder, QueueInOrder
<1>3. Balance'
  BY <1>1 DEF EventsInv, Balance
<1>4. CopyIsPrefix(c)'
  BY <1>1, <1>t DEF CopyIsPrefix
<1>5. \A d \in Callers \ {c} : CopyIsPrefix(d)'
  BY <1>1 DEF EventsInv, CopyIsPrefix, InFlight
<1>6. QED
  BY <1>2, <1>3, <1>4, <1>5 DEF EventsInv

LEMMA CommitEvents ==
    ASSUME BaseInv, EventsInv, Serial, Serial', NEW c \in Callers, Commit(c)
    PROVE  EventsInv'
<1> DEFINE ev == flush[c].events
<1>t. /\ TypeOK /\ flush \in [Callers -> FlushState] /\ queued \in Nat
      /\ pendingEvents \in Seq(Nat) /\ Len(pendingEvents) \in Nat
      /\ eventLog \in Seq(Nat) /\ Len(eventLog) \in Nat
      /\ ev \in Seq(Nat) /\ Len(ev) \in Nat
  BY EventTypes DEF BaseInv
<1>1. /\ flush[c].pc = "copied" /\ flush'[c].pc = "drain" /\ flush'[c].events = ev
      /\ \A d \in Callers \ {c} : flush'[d] = flush[d]
      /\ UNCHANGED <<pendingEvents, queued>>
  BY <1>t DEF Commit, FlushState, cacheVars
<1>2. \A d \in Callers \ {c} : ~InFlight(d) /\ ~InFlight(d)'
  BY <1>1 DEF BaseInv, TakeTurns, InFlight
<1>3. queued = Len(eventLog) + Len(pendingEvents)
  BY <1>1, <1>2 DEF EventsInv, Balance, InFlight
<1>4. /\ Len(ev) <= Len(pendingEvents)
      /\ \A i \in 1..Len(ev) : ev[i] = pendingEvents[i]
  BY <1>1 DEF EventsInv, CopyIsPrefix, InFlight
<1>5. /\ Len(eventLog') = Len(eventLog) + Len(ev)
      /\ \A i \in 1..(Len(eventLog) + Len(ev)) :
             eventLog'[i] = IF i <= Len(eventLog) THEN eventLog[i] ELSE ev[i - Len(eventLog)]
  BY <1>t, ConcatProperties DEF Commit
<1> HIDE DEF ev
<1>6. LogInOrder'
  <2>1. ASSUME NEW i \in 1..(Len(eventLog) + Len(ev)) PROVE eventLog'[i] = i
    <3>1. CASE i <= Len(eventLog)
      <4>1. i \in 1..Len(eventLog) /\ eventLog'[i] = eventLog[i]
        BY <3>1, <1>5, <1>t
      <4>2. QED
        BY <4>1 DEF EventsInv, LogInOrder
    <3>2. CASE i > Len(eventLog)
      <4> DEFINE k == i - Len(eventLog)
      <4>1. k \in 1..Len(ev) /\ k \in 1..Len(pendingEvents)
        BY <3>2, <1>4, <1>t
      <4>a. eventLog'[i] = ev[k]
        <5>1. ~(i <= Len(eventLog))
          BY <3>2, <1>t
        <5>2. QED
          BY <5>1, <1>5
      <4>b. ev[k] = pendingEvents[k]
        <5> HIDE DEF k
        <5>1. QED
          BY <4>1, <1>4
      <4>2. eventLog'[i] = pendingEvents[k]
        BY <4>a, <4>b
      <4>3. pendingEvents[k] = queued - Len(pendingEvents) + k
        BY <4>1 DEF EventsInv, QueueInOrder
      <4>4. QED
        BY <4>2, <4>3, <1>3, <1>t
    <3>3. QED
      BY <3>1, <3>2, <1>t
  <2>2. QED
    BY <2>1, <1>5 DEF LogInOrder
<1>7. QueueInOrder'
  BY <1>1 DEF EventsInv, QueueInOrder
<1>8. Balance'
  <2>1. queued' = Len(eventLog') + Len(pendingEvents') - Len(flush'[c].events)
    BY <1>1, <1>3, <1>5, <1>t
  <2>2. \A d \in Callers : flush'[d].pc = "drain" => d = c
    BY <1>2 DEF InFlight
  <2>3. QED
    BY <1>1, <2>1, <2>2 DEF Balance
<1>9. \A d \in Callers : CopyIsPrefix(d)'
  BY <1>1, <1>2, <1>4 DEF CopyIsPrefix
<1>10. QED
  BY <1>6, <1>7, <1>8, <1>9 DEF EventsInv

LEMMA DrainEvents ==
    ASSUME BaseInv, EventsInv, Serial, Serial', NEW c \in Callers, Drain(c)
    PROVE  EventsInv'
<1> DEFINE n == Len(flush[c].events)
<1>t. /\ TypeOK /\ flush \in [Callers -> FlushState] /\ queued \in Nat
      /\ pendingEvents \in Seq(Nat) /\ Len(pendingEvents) \in Nat
      /\ Len(eventLog) \in Nat /\ n \in Nat
  BY EventTypes DEF BaseInv
<1>1. /\ flush[c].pc = "drain" /\ UNCHANGED <<eventLog, queued>>
      /\ pendingEvents' = SubSeq(pendingEvents, n + 1, Len(pendingEvents))
      /\ flush' = [flush EXCEPT ![c] = NoFlush] /\ n <= Len(pendingEvents)
  BY DEF Drain, Return, dbVars, InBounds
<1>2. \A d \in Callers : ~InFlight(d)'
  BY <1>1, <1>t DEF BaseInv, TakeTurns, InFlight, NoFlush
<1>3. queued = Len(eventLog) + Len(pendingEvents) - n
  BY <1>1 DEF EventsInv, Balance
<1> HIDE DEF n
<1>4. /\ Len(pendingEvents') = Len(pendingEvents) - n
      /\ \A i \in 1..(Len(pendingEvents) - n) : pendingEvents'[i] = pendingEvents[n + i]
  BY <1>1, <1>t, DropFront
<1>5. LogInOrder'
  BY <1>1 DEF EventsInv, LogInOrder
<1>6. QueueInOrder'
  <2>1. ASSUME NEW i \in 1..(Len(pendingEvents) - n)
        PROVE  pendingEvents'[i] = queued - (Len(pendingEvents) - n) + i
    <3>1. n + i \in 1..Len(pendingEvents)
      BY <1>t
    <3>2. pendingEvents[n + i] = queued - Len(pendingEvents) + (n + i)
      BY <3>1 DEF EventsInv, QueueInOrder
    <3>3. QED
      BY <3>2, <1>4, <1>t
  <2>2. QED
    BY <2>1, <1>1, <1>4 DEF QueueInOrder
<1>7. Balance'
  BY <1>1, <1>2, <1>3, <1>4, <1>t DEF Balance, InFlight
<1>8. \A d \in Callers : CopyIsPrefix(d)'
  BY <1>2 DEF CopyIsPrefix
<1>9. QED
  BY <1>5, <1>6, <1>7, <1>8 DEF EventsInv

LEMMA StepEvents ==
    ASSUME BaseInv, BaseInv', EventsInv, [Next]_vars
    PROVE  EventsInv'
<1> SUFFICES ASSUME Serial' PROVE EventsInv'
  BY DEF EventsInv
<1>r. Serial /\ TypeOK /\ flush \in [Callers -> FlushState]
  BY SerialStaysSo DEF BaseInv, TypeOK
<1>n. NoFlush.pc = "idle"
  BY DEF NoFlush
<1>1. ASSUME NEW c \in Callers, FlushNothing(c) \/ CommitFails(c) PROVE EventsInv'
  <2>1. flush[c].pc # "drain" /\ flush' = [flush EXCEPT ![c] = NoFlush]
    BY <1>1 DEF FlushNothing, CommitFails, MayCopy, Return
  <2>2. \A d \in Callers : \/ flush'[d] = flush[d]
                           \/ flush[d].pc # "drain" /\ ~InFlight(d)'
    BY <2>1, <1>r, <1>n DEF InFlight
  <2>3. QED
    BY <1>1, <1>r, <2>2, QuietEvents DEF FlushNothing, CommitFails, cacheVars, dbVars
<1>2. ASSUME NEW c \in Callers PROVE ~DrainPanics(c)
  BY <1>r DEF DrainPanics, EventsInv, CopyIsPrefix, InFlight, InBounds
<1>3. CASE ResetStats \/ FinalFlush
  <2>1. \A d \in Callers : \/ flush'[d] = flush[d]
                           \/ flush[d].pc # "drain" /\ ~InFlight(d)'
    BY <1>3, <1>r DEF ResetStats, Begun, FinalFlush, FlushState, InFlight
  <2>2. QED
    BY <1>3, <1>r, <2>1, QuietEvents DEF ResetStats, FinalFlush, cacheVars, dbVars
<1>4. CASE Restart
  BY <1>4, <1>r, NewLifeEvents DEF Restart
<1>5. ASSUME NEW c \in Callers, FlushStep(c) PROVE EventsInv'
  BY <1>5, <1>r, <1>1, <1>2, CopyEvents, CommitEvents, DrainEvents DEF FlushStep
<1>6. CASE QueueEvent
  BY <1>6, <1>r, QueueEventEvents
<1>7. ASSUME UNCHANGED <<pendingEvents, eventLog, queued, flush>> PROVE EventsInv'
  BY <1>7, <1>r, QuietEvents
<1>8. QED
  BY <1>3, <1>4, <1>5, <1>6, <1>7
     DEF Next, Boot, UpsertGossip, Connected, Disconnected, Credit, Stop, vars, cacheVars,
         dbVars

(* While flushes take turns, peer_events holds every event once and in     *)
(* order, the queue continues it, and no drain panics.                     *)
THEOREM EventsLoggedExactlyOnce == Spec => []EventsExactlyOnce
<1>1. Init => EventsInv
  <2> SUFFICES ASSUME Init PROVE EventsInv
    OBVIOUS
  <2>1. Len(eventLog) = 0 /\ Len(pendingEvents) = 0 /\ queued = 0
        /\ \A c \in Callers : flush[c].pc = "idle"
    BY DEF Init, NoFlush
  <2>2. QED
    BY <2>1 DEF EventsInv, LogInOrder, QueueInOrder, Balance, CopyIsPrefix, InFlight
<1>2. BaseInv /\ BaseInv' /\ EventsInv /\ [Next]_vars => EventsInv'
  BY StepEvents
<1>3. BaseInv /\ EventsInv => EventsExactlyOnce
  <2> SUFFICES ASSUME BaseInv, EventsInv, Serial PROVE EventsExactlyOnce
    BY DEF EventsExactlyOnce
  <2>1. \A c \in Callers : flush[c].pc = "drain" => InBounds(c)
    BY DEF EventsInv, CopyIsPrefix, InFlight, InBounds
  <2>2. CASE \A c \in Callers : flush[c].pc # "drain"
    BY <2>1, <2>2 DEF EventsExactlyOnce, EventsInv, LogInOrder, QueueInOrder, Balance
  <2>3. CASE \E c \in Callers : flush[c].pc = "drain"
    BY <2>1, <2>3 DEF EventsExactlyOnce, EventsInv, LogInOrder, QueueInOrder, Balance
  <2>4. QED
    BY <2>2, <2>3
<1>4. QED
  BY <1>1, <1>2, <1>3, BaseCorrect, PTL DEF Spec

NoPanic == Serial => ~wedged

(* Only a drain beyond the queue leaves the mutex locked. *)
LEMMA WedgedByPanic ==
    ASSUME [Next]_vars, ~wedged, wedged'
    PROVE  \E c \in Callers : DrainPanics(c)
<1>1. CASE \E seed \in SeedSnapshots, written \in BOOLEAN : Boot(seed, written)
  BY <1>1 DEF Boot
<1>2. CASE \E p \in Peers : \/ \E report \in Reports : UpsertGossip(p, report)
                            \/ Connected(p) \/ Disconnected(p)
                            \/ \E work \in Work : Credit(p, work)
  BY <1>2 DEF UpsertGossip, Connected, Disconnected, Credit
<1>3. CASE QueueEvent \/ ResetStats \/ Stop \/ FinalFlush
  BY <1>3 DEF QueueEvent, ResetStats, Stop, FinalFlush
<1>4. CASE Restart
  BY <1>4 DEF Restart, NewLife
<1>5. ASSUME NEW c \in Callers, FlushStep(c) PROVE DrainPanics(c)
  BY <1>5 DEF FlushStep, FlushCopy, FlushNothing, Commit, CommitFails, Drain
<1>6. CASE UNCHANGED vars
  BY <1>6 DEF vars
<1>7. QED
  BY <1>1, <1>2, <1>3, <1>4, <1>5, <1>6 DEF Next

(* As long as flushes take turns no drain reaches beyond the queue, so     *)
(* that the slice never panics with the mutex held (peer_cache.go:320) and *)
(* the cache is never locked for good: the hazard of the two overlapping   *)
(* flushes is the only way there.                                          *)
THEOREM FlushesNeverPanic ==
    Spec => /\ []NoPanic
            /\ [][Serial => \A c \in Callers : ~DrainPanics(c)]_vars
<1>. DEFINE Calm == Serial => \A c \in Callers : ~DrainPanics(c)
<1>1. Init => NoPanic
  BY DEF Init, NoPanic
<1>2. EventsExactlyOnce => Calm
  BY DEF EventsExactlyOnce, DrainPanics
<1>3. BaseInv /\ EventsExactlyOnce /\ NoPanic /\ [Next]_vars => NoPanic'
  <2> SUFFICES ASSUME BaseInv, EventsExactlyOnce, NoPanic, [Next]_vars, Serial', wedged' PROVE FALSE
    BY DEF NoPanic
  <2>1. Serial
    BY SerialStaysSo
  <2>2. QED
    BY <1>2, <2>1, WedgedByPanic DEF NoPanic
<1>4. QED
  BY <1>1, <1>2, <1>3, BaseCorrect, EventsLoggedExactlyOnce, PTL DEF Spec
=============================================================================
