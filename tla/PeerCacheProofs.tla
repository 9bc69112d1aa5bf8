--------------------------- MODULE PeerCacheProofs ---------------------------
(***************************************************************************)
(* Proofs about PeerCache, for any set of peers, any reports, credits and  *)
(* seed snapshots, and any bounds.                                         *)
(***************************************************************************)
EXTENDS PeerCache, SequenceTheorems, TLAPS

-----------------------------------------------------------------------------
(* What the operations of PeerRecord return and preserve. *)

(* A record whose score is covered by its counters and whose verified mark *)
(* tells the truth about its address.                                      *)
Sound(rec) == ScoreJustified(rec) /\ AddressTrusted(rec)

(* No total of new is below the same total of old. *)
AtLeast(new, old) == new.req >= old.req /\ new.tok >= old.tok /\ new.score >= old.score

(* A known id of a map is one of its keys, and its value is a record. *)
LEMMA KnownIsRecord ==
    ASSUME NEW S, NEW map \in [S -> MaybeRecord], NEW p \in Known(map)
    PROVE  p \in S /\ map[p] \in Record
BY DEF Known, MaybeRecord

(* The record a first gossip or connection starts from is a sound one. *)
LEMMA ExistingRecord ==
    ASSUME NEW old \in MaybeRecord
    PROVE  /\ Existing(old) \in Record
           /\ old # NoPeer => Existing(old) = old
           /\ old = NoPeer \/ Sound(old) => Sound(Existing(old))
<1>1. Blank \in Record /\ Sound(Blank)
  BY DEF Blank, Record, Sound, ScoreJustified, AddressTrusted, Score
<1>2. QED
  BY <1>1 DEF Existing, MaybeRecord

(* keep-max column by column gives a record and lowers no total            *)
(* (UpsertGossip, mergePeer).                                              *)
LEMMA KeepMaxRecord ==
    ASSUME NEW rec \in Record, NEW req \in Nat, NEW tok \in Nat, NEW score \in Nat
    PROVE  /\ KeepMax(rec, req, tok, score) \in Record
           /\ AtLeast(KeepMax(rec, req, tok, score), rec)
<1>1. KeepMax(rec, req, tok, score) \in Record
  BY DEF KeepMax, Larger, Record
<1>2. AtLeast(KeepMax(rec, req, tok, score), rec)
  BY DEF KeepMax, Larger, Record, AtLeast
<1>3. QED
  BY <1>1, <1>2

(* keep-max keeps a record sound when the score it takes in is justified   *)
(* by the counters it takes in, although it may mix columns of two.        *)
LEMMA KeepMaxSound ==
    ASSUME NEW rec \in Record, NEW req \in Nat, NEW tok \in Nat, NEW score \in Nat,
           Sound(rec), score <= Score(req, tok)
    PROVE  Sound(KeepMax(rec, req, tok, score))
<1>1. ScoreJustified(rec) /\ AddressTrusted(rec)
  BY DEF Sound
<1>2. ScoreJustified(KeepMax(rec, req, tok, score))
  BY <1>1 DEF KeepMax, Larger, Record, ScoreJustified, Score
<1>3. AddressTrusted(KeepMax(rec, req, tok, score))
  BY <1>1 DEF KeepMax, Record, AddressTrusted
<1>4. QED
  BY <1>2, <1>3 DEF Sound

(* A gossip report leaves a sound record and lowers no total. *)
LEMMA AfterGossipRecord ==
    ASSUME NEW old \in MaybeRecord, NEW report \in Counters
    PROVE  /\ AfterGossip(old, report) \in Record
           /\ old # NoPeer => AtLeast(AfterGossip(old, report), old)
           /\ old = NoPeer \/ Sound(old) => Sound(AfterGossip(old, report))
<1> DEFINE ex == Existing(old)
           rec == [ex EXCEPT !.addr = IF ex.verified THEN @ ELSE "reported"]
<1>1. ex \in Record /\ (old # NoPeer => ex = old)
      /\ (old = NoPeer \/ Sound(old) => Sound(ex))
  BY ExistingRecord
<1> HIDE DEF ex
<1>2. rec \in Record /\ rec.req = ex.req /\ rec.tok = ex.tok /\ rec.score = ex.score
  BY <1>1 DEF Record
<1>3. Sound(ex) => Sound(rec)
  <2>1. ScoreJustified(ex) => ScoreJustified(rec)
    BY <1>1, <1>2 DEF ScoreJustified
  <2>2. AddressTrusted(ex) => AddressTrusted(rec)
    BY <1>1 DEF AddressTrusted, Record
  <2>3. QED
    BY <2>1, <2>2 DEF Sound
<1>4. /\ report.req \in Nat /\ report.tok \in Nat
      /\ Score(report.req, report.tok) \in Nat
  BY DEF Counters, Score
<1>5. AfterGossip(old, report)
          = IF report.req > 0 \/ report.tok > 0
            THEN KeepMax(rec, report.req, report.tok, Score(report.req, report.tok))
            ELSE rec
  BY DEF AfterGossip, ex
<1> HIDE DEF rec
<1>6. CASE report.req > 0 \/ report.tok > 0
  <2> DEFINE new == KeepMax(rec, report.req, report.tok, Score(report.req, report.tok))
  <2>1. AfterGossip(old, report) = new
    BY <1>5, <1>6
  <2>2. new \in Record /\ AtLeast(new, rec)
    BY <1>2, <1>4, KeepMaxRecord
  <2>3. Sound(rec) => Sound(new)
    <3>1. Score(report.req, report.tok) <= Score(report.req, report.tok)
      BY <1>4
    <3>2. QED
      BY <3>1, <1>2, <1>4, KeepMaxSound
  <2>4. AtLeast(new, ex)
    BY <2>2, <1>2 DEF AtLeast
  <2> HIDE DEF new
  <2>5. QED
    BY <2>1, <2>2, <2>3, <2>4, <1>1, <1>3
<1>7. CASE ~(report.req > 0 \/ report.tok > 0)
  <2>1. AfterGossip(old, report) = rec
    BY <1>5, <1>7
  <2>2. AtLeast(rec, ex)
    BY <1>1, <1>2 DEF AtLeast, Record
  <2>3. QED
    BY <2>1, <2>2, <1>1, <1>2, <1>3
<1>8. QED
  BY <1>6, <1>7

(* An observed connection is trusted and lowers no total. *)
LEMMA AfterConnectionRecord ==
    ASSUME NEW old \in MaybeRecord
    PROVE  /\ AfterConnection(old) \in Record
           /\ old # NoPeer => AtLeast(AfterConnection(old), old)
           /\ old = NoPeer \/ Sound(old) => Sound(AfterConnection(old))
<1> DEFINE ex == Existing(old)
           new == AfterConnection(old)
<1>1. ex \in Record /\ (old # NoPeer => ex = old)
      /\ (old = NoPeer \/ Sound(old) => Sound(ex))
  BY ExistingRecord
<1>2. new = [ex EXCEPT !.addr = "observed", !.verified = TRUE]
  BY DEF AfterConnection
<1> HIDE DEF ex, new
<1>3. new \in Record /\ new.req = ex.req /\ new.tok = ex.tok /\ new.score = ex.score
  BY <1>1, <1>2 DEF Record
<1>4. AtLeast(new, ex)
  BY <1>1, <1>3 DEF AtLeast, Record
<1>5. ScoreJustified(ex) => ScoreJustified(new)
  BY <1>3 DEF ScoreJustified
<1>6. AddressTrusted(new)
  BY <1>1, <1>2 DEF AddressTrusted, Record
<1>7. Sound(ex) => Sound(new)
  BY <1>5, <1>6 DEF Sound
<1>8. QED
  BY <1>1, <1>3, <1>4, <1>7 DEF new

(* A credit raises the score by no more than its counters justify. *)
LEMMA AfterCreditRecord ==
    ASSUME NEW rec \in Record, NEW work \in Counters
    PROVE  /\ AfterCredit(rec, work) \in Record
           /\ AtLeast(AfterCredit(rec, work), rec)
           /\ Sound(rec) => Sound(AfterCredit(rec, work))
<1> DEFINE requests == IF work.req = 0 THEN 1 ELSE work.req
           points == Score(requests, work.tok)
           new == AfterCredit(rec, work)
<1>1. requests \in Nat /\ work.tok \in Nat /\ points \in Nat
  BY DEF Counters, Score
<1>2. new = [rec EXCEPT !.req = @ + requests, !.tok = @ + work.tok,
                        !.score = @ + points]
  BY DEF AfterCredit
<1>p. points = Score(requests, work.tok)
  OBVIOUS
<1> HIDE DEF requests, points, new
<1>3. new \in Record /\ AtLeast(new, rec)
  <2>0. /\ rec.req + requests \in Nat /\ rec.tok + work.tok \in Nat
        /\ rec.score + points \in Nat
    BY <1>1 DEF Record
  <2>1. new \in Record
    BY <2>0, <1>2 DEF Record
  <2>2. AtLeast(new, rec)
    BY <1>1, <1>2 DEF Record, AtLeast
  <2>3. QED
    BY <2>1, <2>2
<1>4. ScoreJustified(rec) => ScoreJustified(new)
  BY <1>1, <1>2, <1>p DEF Record, ScoreJustified, Score
<1>5. AddressTrusted(rec) => AddressTrusted(new)
  BY <1>2 DEF Record, AddressTrusted
<1>6. QED
  BY <1>3, <1>4, <1>5 DEF Sound, new

(* A reset leaves a sound record. *)
LEMMA ZeroedRecord ==
    ASSUME NEW rec \in Record
    PROVE  Zeroed(rec) \in Record /\ (Sound(rec) => Sound(Zeroed(rec)))
<1>1. Zeroed(rec) \in Record /\ ScoreJustified(Zeroed(rec))
  <2>1. Zeroed(rec) \in Record
    BY DEF Zeroed, Record
  <2>2. Zeroed(rec).req = 0 /\ Zeroed(rec).tok = 0 /\ Zeroed(rec).score = 0
    BY DEF Zeroed, Record
  <2>3. QED
    BY <2>1, <2>2 DEF ScoreJustified, Score
<1>2. AddressTrusted(rec) => AddressTrusted(Zeroed(rec))
  BY DEF Zeroed, Record, AddressTrusted
<1>3. QED
  BY <1>1, <1>2 DEF Sound

(* Merging two sound snapshots of a peer gives a sound record. *)
LEMMA MergedRecord ==
    ASSUME NEW old \in MaybeRecord, NEW new \in MaybeRecord
    PROVE  /\ Merged(old, new) \in MaybeRecord
           /\ (old = NoPeer \/ Sound(old)) /\ (new = NoPeer \/ Sound(new))
                  => Merged(old, new) = NoPeer \/ Sound(Merged(old, new))
<1>1. CASE new = NoPeer \/ old = NoPeer
  BY <1>1 DEF Merged
<1>2. CASE new # NoPeer /\ old # NoPeer
  <2>1. old \in Record /\ new \in Record
    BY <1>2 DEF MaybeRecord
  <2>2. Merged(old, new) = KeepMax(old, new.req, new.tok, new.score)
    BY <1>2 DEF Merged
  <2>3. new.req \in Nat /\ new.tok \in Nat /\ new.score \in Nat
    BY <2>1 DEF Record
  <2>4. Merged(old, new) \in Record
    BY <2>1, <2>2, <2>3, KeepMaxRecord
  <2>5. ASSUME Sound(old), Sound(new)
        PROVE  Sound(Merged(old, new))
    <3>1. new.score <= Score(new.req, new.tok)
      BY <2>5 DEF Sound, ScoreJustified
    <3>2. QED
      BY <2>1, <2>2, <2>3, <2>5, <3>1, KeepMaxSound
  <2>6. QED
    BY <1>2, <2>4, <2>5 DEF MaybeRecord
<1>3. QED
  BY <1>1, <1>2

-----------------------------------------------------------------------------
(* Type correctness. *)

LEMMA NoFlushType == NoFlush \in FlushState /\ NoPeers \in [Peers -> MaybeRecord]
<1>1. NoPeers \in [Peers -> MaybeRecord]
  BY DEF NoPeers, MaybeRecord
<1>2. <<>> \in Seq(Nat)
  BY EmptySeq
<1>3. QED
  BY <1>1, <1>2 DEF NoFlush, FlushState

(* The queue that is left after n entries are dropped from its front. *)
LEMMA DropFront ==
    ASSUME NEW s \in Seq(Nat), NEW n \in Nat, n <= Len(s)
    PROVE  /\ SubSeq(s, n + 1, Len(s)) \in Seq(Nat)
           /\ Len(SubSeq(s, n + 1, Len(s))) = Len(s) - n
           /\ \A i \in 1..(Len(s) - n) : SubSeq(s, n + 1, Len(s))[i] = s[n + i]
<1> DEFINE rest == SubSeq(s, n + 1, Len(s))
<1>1. Len(s) \in Nat /\ n + 1 \in Int
  OBVIOUS
<1>2. \A i \in (n + 1)..Len(s) : s[i] \in Nat
  OBVIOUS
<1>3. /\ rest \in Seq(Nat)
      /\ Len(rest) = IF n + 1 <= Len(s) THEN Len(s) - (n + 1) + 1 ELSE 0
      /\ \A i \in 1..(Len(s) - (n + 1) + 1) : rest[i] = s[(n + 1) + i - 1]
  BY <1>1, <1>2, SubSeqProperties
<1> HIDE DEF rest
<1>4. Len(rest) = Len(s) - n
  BY <1>1, <1>3
<1>5. ASSUME NEW i \in 1..(Len(s) - n) PROVE rest[i] = s[n + i]
  <2>1. i \in 1..(Len(s) - (n + 1) + 1) /\ (n + 1) + i - 1 = n + i
    BY <1>1
  <2>2. QED
    BY <1>3, <2>1
<1>6. QED
  BY <1>3, <1>4, <1>5 DEF rest

LEMMA InitType == Init => TypeOK
<1> SUFFICES ASSUME Init PROVE TypeOK
  OBVIOUS
<1>1. peers \in [Peers -> MaybeRecord] /\ rows \in [Peers -> MaybeRecord]
      /\ flush \in [Callers -> FlushState]
  BY NoFlushType DEF Init
<1>2. pendingEvents \in Seq(Nat) /\ eventLog \in Seq(Nat)
  BY EmptySeq DEF Init
<1>3. conns \in [Peers -> Nat] /\ rowGen \in [Peers -> Nat]
  BY DEF Init
<1>4. QED
  BY <1>1, <1>2, <1>3 DEF Init, TypeOK

LEMMA ReturnType ==
    ASSUME TypeOK, NEW c \in Callers, NEW ok \in BOOLEAN, Return(c, ok)
    PROVE  /\ flush' \in [Callers -> FlushState]
           /\ phase' \in {"boot", "running", "stopping", "stopped"}
           /\ durableGen' \in Nat /\ answeredGen' \in Nat
<1>1. flush[c].gen \in Nat
  BY DEF TypeOK, FlushState
<1>2. QED
  BY <1>1, NoFlushType DEF TypeOK, Return, Larger

LEMMA NewLifeType ==
    ASSUME TypeOK, NEW readable \in SUBSET Peers, NewLife(readable)
    PROVE  TypeOK'
<1>1. /\ pendingEvents' \in Seq(Nat) /\ queued' \in Nat /\ resetGen' \in Nat
  BY EmptySeq, LenProperties DEF TypeOK, NewLife
<1>2. peers' \in [Peers -> MaybeRecord]
  BY NoFlushType DEF TypeOK, NewLife, MaybeRecord
<1>3. QED
  BY <1>1, <1>2, NoFlushType DEF TypeOK, NewLife, dbVars

LEMMA BootType ==
    ASSUME TypeOK, NEW seed \in SeedSnapshots, NEW written \in BOOLEAN, Boot(seed, written)
    PROVE  TypeOK'
<1>1. seed \in [Peers -> MaybeRecord]
  BY SeedAssumption
<1>2. peers' \in [Peers -> MaybeRecord]
  BY <1>1, MergedRecord DEF TypeOK, Boot
<1>3. rows' \in [Peers -> MaybeRecord] /\ rowGen' \in [Peers -> Nat]
  BY <1>2 DEF TypeOK, Boot, Overlay
<1>4. QED
  BY <1>2, <1>3 DEF TypeOK, Boot, resetVars

LEMMA PeerStepType ==
    ASSUME TypeOK, NEW p \in Peers,
           \/ \E report \in Reports : UpsertGossip(p, report)
           \/ Connected(p)
           \/ Disconnected(p)
           \/ \E work \in Work : Credit(p, work)
    PROVE  TypeOK'
<1>p. peers \in [Peers -> MaybeRecord] /\ peers[p] \in MaybeRecord
  BY DEF TypeOK
<1>1. ASSUME NEW report \in Reports, UpsertGossip(p, report) PROVE TypeOK'
  <2>1. AfterGossip(peers[p], report) \in MaybeRecord
    BY <1>p, AfterGossipRecord, InputsAssumption DEF MaybeRecord
  <2>2. QED
    BY <1>1, <1>p, <2>1 DEF TypeOK, UpsertGossip, dbVars, lifeVars, resetVars
<1>2. CASE Connected(p)
  <2>1. AfterConnection(peers[p]) \in MaybeRecord
    BY <1>p, AfterConnectionRecord DEF MaybeRecord
  <2>2. QED
    BY <1>2, <1>p, <2>1 DEF TypeOK, Connected, dbVars, lifeVars, resetVars
<1>3. CASE Disconnected(p)
  <2>1. conns' \in [Peers -> Nat]
    BY <1>3 DEF TypeOK, Disconnected
  <2>2. QED
    BY <1>3, <2>1 DEF TypeOK, Disconnected, dbVars, lifeVars, resetVars, MaybeRecord
<1>4. ASSUME NEW work \in Work, Credit(p, work) PROVE TypeOK'
  <2>1. peers[p] \in Record
    BY <1>4, <1>p DEF Credit, MaybeRecord
  <2>2. AfterCredit(peers[p], work) \in MaybeRecord
    BY <2>1, AfterCreditRecord, InputsAssumption DEF MaybeRecord
  <2>3. QED
    BY <1>4, <1>p, <2>2 DEF TypeOK, Credit, dbVars, lifeVars, resetVars
<1>5. QED
  BY <1>1, <1>2, <1>3, <1>4

LEMMA FlushStepType ==
    ASSUME TypeOK, NEW c \in Callers, FlushStep(c)
    PROVE  TypeOK'
<1>f. flush \in [Callers -> FlushState] /\ flush[c] \in FlushState
  BY DEF TypeOK
<1>1. CASE FlushCopy(c)
  <2>1. flush' \in [Callers -> FlushState]
    BY <1>1, <1>f DEF TypeOK, FlushCopy, FlushState
  <2>2. QED
    BY <1>1, <2>1 DEF TypeOK, FlushCopy, cacheVars, dbVars, lifeVars, resetVars
<1>2. CASE FlushNothing(c)
  BY <1>2, ReturnType DEF TypeOK, FlushNothing, cacheVars, dbVars
<1>3. CASE Commit(c)
  <2>1. flush' \in [Callers -> FlushState]
    BY <1>3, <1>f DEF Commit, FlushState
  <2>2. rows' \in [Peers -> MaybeRecord] /\ rowGen' \in [Peers -> Nat]
    BY <1>3, <1>f DEF TypeOK, Commit, Overlay, FlushState
  <2>3. eventLog' \in Seq(Nat)
    BY <1>3, <1>f, ConcatProperties DEF TypeOK, Commit, FlushState
  <2>4. QED
    BY <1>3, <2>1, <2>2, <2>3 DEF TypeOK, Commit, cacheVars, lifeVars, resetVars
<1>4. CASE CommitFails(c)
  BY <1>4, ReturnType DEF TypeOK, CommitFails, cacheVars, dbVars
<1>5. CASE Drain(c)
  <2>1. pendingEvents' \in Seq(Nat)
    BY <1>5, <1>f, DropFront DEF TypeOK, Drain, InBounds, FlushState
  <2>2. pendingDeletes' \in SUBSET Peers
    BY <1>5 DEF TypeOK, Drain
  <2>3. Return(c, TRUE)
    BY <1>5 DEF Drain
  <2>4. QED
    BY <1>5, <2>1, <2>2, <2>3, ReturnType DEF TypeOK, Drain, dbVars
<1>6. CASE DrainPanics(c)
  <2>1. ASSUME c = "reset", wedged' = TRUE, flush' = [flush EXCEPT ![c] = NoFlush],
               UNCHANGED <<cacheVars, dbVars, lifeVars, conns, queued, resetVars, overlapped>>
        PROVE  TypeOK'
    BY <2>1, NoFlushType DEF TypeOK, cacheVars, dbVars, lifeVars, resetVars
  <2>2. QED
    BY <1>6, <2>1, NewLifeType DEF DrainPanics
<1>7. QED
  BY <1>1, <1>2, <1>3, <1>4, <1>5, <1>6 DEF FlushStep

(* A call of Flush that begins. *)
LEMMA BeginType ==
    ASSUME flush \in [Callers -> FlushState], NEW c \in Callers,
           flush' = [flush EXCEPT ![c].pc = "begin"]
    PROVE  flush' \in [Callers -> FlushState]
<1>. DEFINE f == [flush[c] EXCEPT !.pc = "begin"]
<1>1. f \in FlushState
  BY DEF FlushState
<1>2. flush' = [flush EXCEPT ![c] = f]
  OBVIOUS
<1>. HIDE DEF f
<1>. QED BY <1>1, <1>2

LEMMA StepType == TypeOK /\ [Next]_vars => TypeOK'
<1> SUFFICES ASSUME TypeOK, [Next]_vars PROVE TypeOK'
  OBVIOUS
<1>1. ASSUME NEW seed \in SeedSnapshots, NEW written \in BOOLEAN, Boot(seed, written)
      PROVE  TypeOK'
  BY <1>1, BootType
<1>2. ASSUME NEW p \in Peers,
             \/ \E report \in Reports : UpsertGossip(p, report)
             \/ Connected(p) \/ Disconnected(p)
             \/ \E work \in Work : Credit(p, work)
      PROVE  TypeOK'
  BY <1>2, PeerStepType
<1>3. CASE QueueEvent
  <2>1. pendingEvents' \in Seq(Nat) /\ queued' \in Nat
    BY <1>3 DEF TypeOK, QueueEvent
  <2>2. QED
    BY <1>3, <2>1 DEF TypeOK, QueueEvent, dbVars, lifeVars, resetVars
<1>4. CASE ResetStats
  <2>1. \A p \in Peers : peers[p] # NoPeer => Zeroed(peers[p]) \in Record
    BY ZeroedRecord DEF TypeOK, MaybeRecord
  <2>2. peers' \in [Peers -> MaybeRecord]
    BY <1>4, <2>1 DEF ResetStats, MaybeRecord
  <2>3. flush' \in [Callers -> FlushState]
    <3>1. flush \in [Callers -> FlushState] /\ "reset" \in Callers
      BY DEF TypeOK, Callers
    <3>2. Begun(resetGen + 1) \in FlushState
      BY NoFlushType, EmptySeq DEF TypeOK, FlushState, Begun
    <3>. QED BY <1>4, <3>1, <3>2 DEF ResetStats
  <2>4. resetGen' \in Nat
    BY <1>4 DEF TypeOK, ResetStats
  <2>5. UNCHANGED <<pendingEvents, pendingDeletes, wedged, rows, eventLog, rowGen, phase, warm,
                    atStop, conns, queued, durableGen, answeredGen, overlapped>>
    BY <1>4 DEF ResetStats, dbVars, lifeVars
  <2>6. QED
    BY <2>2, <2>3, <2>4, <2>5 DEF TypeOK
<1>5. CASE Stop
  <2>1. atStop' \in SUBSET Peers /\ phase' = "stopping"
    <3>1. atStop' = Known(peers) /\ phase' = "stopping"
      BY <1>5 DEF Stop
    <3>2. peers \in [Peers -> MaybeRecord]
      BY DEF TypeOK
    <3>. QED BY <3>1, <3>2 DEF Known
  <2>2. UNCHANGED <<peers, pendingEvents, pendingDeletes, wedged, flush, rows, eventLog, conns,
                    queued, resetGen, rowGen, durableGen, answeredGen, overlapped, warm>>
    BY <1>5 DEF Stop, cacheVars, dbVars, resetVars
  <2>. QED BY <2>1, <2>2 DEF TypeOK
<1>6. CASE FinalFlush
  <2>1. flush' \in [Callers -> FlushState]
    <3>1. flush \in [Callers -> FlushState] /\ "shutdown" \in Callers
      BY DEF TypeOK, Callers
    <3>2. flush' = [flush EXCEPT !["shutdown"].pc = "begin"]
      BY <1>6 DEF FinalFlush
    <3>. QED BY <3>1, <3>2, BeginType
  <2>2. UNCHANGED <<peers, pendingEvents, pendingDeletes, wedged, rows, eventLog, phase, conns,
                    queued, resetGen, rowGen, durableGen, answeredGen, overlapped, warm, atStop>>
    BY <1>6 DEF FinalFlush, cacheVars, dbVars, lifeVars, resetVars
  <2>. QED BY <2>1, <2>2 DEF TypeOK
<1>7. CASE Restart
  BY <1>7, NewLifeType DEF Restart
<1>8. ASSUME NEW c \in Callers, FlushStep(c) PROVE TypeOK'
  BY <1>8, FlushStepType
<1>9. CASE UNCHANGED vars
  BY <1>9 DEF TypeOK, vars
<1>10. QED
  BY <1>1, <1>2, <1>3, <1>4, <1>5, <1>6, <1>7, <1>8, <1>9 DEF Next

(* Every reachable state of the store is well-typed. *)
THEOREM TypeCorrect == Spec => []TypeOK
BY InitType, StepType, PTL DEF Spec

-----------------------------------------------------------------------------
(* What holds whether or not flushes overlap. *)

(* A process that is booting has empty queues and no flush under way. *)
BootClean ==
    phase = "boot" => /\ pendingEvents = <<>> /\ pendingDeletes = {}
                      /\ flush = [c \in Callers |-> NoFlush]

(* overlapped is the only way for two flushes to be in flight. *)
TakeTurns == Serial => \A c, d \in Callers : InFlight(c) /\ InFlight(d) => c = d

(* A copy never holds a peer together with that peer's DELETE. *)
CopiesDisjoint ==
    \A c \in Callers : \A p \in flush[c].deletes : flush[c].peers[p] = NoPeer

BaseInv == TypeOK /\ BootClean /\ TakeTurns /\ LiveNotDoomed /\ CopiesDisjoint

LEMMA KnownIff ==
    ASSUME NEW map \in [Peers -> MaybeRecord]
    PROVE  \A p : p \in Known(map) <=> p \in Peers /\ map[p] # NoPeer
BY DEF Known

LEMMA LiveNotDoomedIff ==
    ASSUME TypeOK
    PROVE  LiveNotDoomed <=> \A p \in pendingDeletes : peers[p] = NoPeer
BY KnownIff DEF LiveNotDoomed, TypeOK

LEMMA InitBase == Init => BaseInv
<1> SUFFICES ASSUME Init PROVE BaseInv
  OBVIOUS
<1>1. TypeOK
  BY InitType
<1>2. BootClean /\ LiveNotDoomed /\ CopiesDisjoint
  BY DEF Init, BootClean, LiveNotDoomed, CopiesDisjoint, NoFlush
<1>3. TakeTurns
  BY DEF Init, TakeTurns, InFlight, NoFlush
<1>4. QED
  BY <1>1, <1>2, <1>3 DEF BaseInv

LEMMA NewLifeBase ==
    ASSUME BaseInv, NEW readable \in SUBSET Peers, NewLife(readable)
    PROVE  BaseInv'
<1>1. TypeOK'
  BY NewLifeType DEF BaseInv
<1>2. BootClean' /\ LiveNotDoomed' /\ CopiesDisjoint'
  BY DEF NewLife, BootClean, LiveNotDoomed, CopiesDisjoint, NoFlush
<1>3. TakeTurns'
  BY DEF NewLife, TakeTurns, InFlight, NoFlush
<1>4. QED
  BY <1>1, <1>2, <1>3 DEF BaseInv

(* A step that leaves every flush alone disturbs LiveNotDoomed at most. *)
LEMMA QuietBase ==
    ASSUME BaseInv, TypeOK', UNCHANGED <<flush, overlapped>>, phase' # "boot",
           \A p \in pendingDeletes' : peers'[p] = NoPeer
    PROVE  BaseInv'
<1>1. LiveNotDoomed'
  BY KnownIff DEF LiveNotDoomed, TypeOK
<1>2. BootClean' /\ CopiesDisjoint'
  BY DEF BaseInv, BootClean, CopiesDisjoint
<1>3. TakeTurns'
  BY DEF BaseInv, TakeTurns, Serial, InFlight
<1>4. QED
  BY <1>1, <1>2, <1>3 DEF BaseInv

(* So does a step that ends one caller's flush or starts its turn. *)
LEMMA ReturnBase ==
    ASSUME BaseInv, TypeOK', NEW c \in Callers, NEW new \in FlushState,
           new.pc \in {"idle", "begin"}, new.deletes = {},
           flush' = [flush EXCEPT ![c] = new],
           UNCHANGED <<peers, overlapped>>, phase' # "boot",
           pendingDeletes' \subseteq pendingDeletes
    PROVE  BaseInv'
<1>1. LiveNotDoomed'
  BY DEF BaseInv, LiveNotDoomed
<1>2. BootClean' /\ CopiesDisjoint'
  BY DEF BaseInv, BootClean, CopiesDisjoint, TypeOK
<1>3. TakeTurns'
  BY DEF BaseInv, TakeTurns, Serial, InFlight, TypeOK
<1>4. QED
  BY <1>1, <1>2, <1>3 DEF BaseInv

LEMMA FlushStepBase ==
    ASSUME BaseInv, NEW c \in Callers, FlushStep(c)
    PROVE  BaseInv'
<1>t. TypeOK /\ TypeOK'
  BY FlushStepType DEF BaseInv
<1>f. flush \in [Callers -> FlushState] /\ flush[c] \in FlushState
  BY <1>t DEF TypeOK
<1>n. NoFlush \in FlushState /\ NoFlush.pc = "idle" /\ NoFlush.deletes = {}
  BY NoFlushType DEF NoFlush
<1>b. flush[c].pc # "idle" => phase # "boot"
  BY DEF BaseInv, BootClean, NoFlush
<1>1. CASE FlushCopy(c)
  <2>1. phase' # "boot"
    BY <1>1, <1>b DEF FlushCopy, MayCopy, Live, lifeVars
  <2>2. flush'[c].pc = "copied" /\ \A d \in Callers \ {c} : flush'[d] = flush[d]
    BY <1>1, <1>f DEF FlushCopy
  <2>3. TakeTurns'
    <3>1. CASE ~overlapped'
      <4>1. ~overlapped /\ \A d \in Callers \ {c} : ~InFlight(d)
        BY <1>1, <3>1, <1>t DEF FlushCopy, TypeOK
      <4>2. \A d \in Callers \ {c} : ~InFlight(d)'
        BY <4>1, <2>2 DEF InFlight
      <4>3. QED
        BY <4>2 DEF TakeTurns
    <3>2. QED
      BY <3>1 DEF TakeTurns, Serial
  <2>4. CopiesDisjoint'
    <3>1. \A p \in pendingDeletes : peers[p] = NoPeer
      BY <1>t, LiveNotDoomedIff DEF BaseInv
    <3>2. flush'[c].deletes = pendingDeletes /\ flush'[c].peers = peers
      BY <1>1, <1>f DEF FlushCopy
    <3>3. QED
      BY <2>2, <3>1, <3>2 DEF BaseInv, CopiesDisjoint
  <2>5. LiveNotDoomed'
    BY <1>1 DEF BaseInv, LiveNotDoomed, FlushCopy, cacheVars
  <2>6. QED
    BY <1>t, <2>1, <2>3, <2>4, <2>5 DEF BaseInv, BootClean
<1>2. CASE FlushNothing(c)
  <2>1. phase' # "boot"
    BY <1>2, <1>b DEF FlushNothing, MayCopy, Return
  <2>2. QED
    BY <1>2, <1>t, <1>n, <2>1, ReturnBase DEF FlushNothing, Return, cacheVars
<1>3. CASE Commit(c)
  <2>1. phase' # "boot"
    BY <1>3, <1>b DEF Commit, lifeVars
  <2>2. /\ flush'[c].peers = flush[c].peers /\ flush'[c].deletes = flush[c].deletes
        /\ \A d \in Callers \ {c} : flush'[d] = flush[d]
        /\ flush[c].pc = "copied"
    BY <1>3, <1>f DEF Commit, FlushState
  <2>3. CopiesDisjoint'
    BY <2>2 DEF BaseInv, CopiesDisjoint
  <2>4. TakeTurns'
    BY <1>3, <2>2 DEF BaseInv, TakeTurns, Serial, InFlight, Commit
  <2>5. LiveNotDoomed'
    BY <1>3 DEF BaseInv, LiveNotDoomed, Commit, cacheVars
  <2>6. QED
    BY <1>t, <2>1, <2>3, <2>4, <2>5 DEF BaseInv, BootClean
<1>4. CASE CommitFails(c)
  <2>1. phase' # "boot"
    BY <1>4, <1>b DEF CommitFails, Return
  <2>2. QED
    BY <1>4, <1>t, <1>n, <2>1, ReturnBase DEF CommitFails, Return, cacheVars
<1>5. CASE Drain(c)
  <2>1. phase' # "boot"
    BY <1>5, <1>b DEF Drain, Return
  <2>2. QED
    BY <1>5, <1>t, <1>n, <2>1, ReturnBase DEF Drain, Return
<1>6. CASE DrainPanics(c)
  <2>1. ASSUME c = "reset", wedged' = TRUE, flush' = [flush EXCEPT ![c] = NoFlush],
               UNCHANGED <<cacheVars, dbVars, lifeVars, conns, queued, resetVars, overlapped>>
        PROVE  BaseInv'
    <3>1. phase' # "boot"
      BY <1>6, <2>1, <1>b DEF DrainPanics, lifeVars
    <3>2. QED
      BY <1>t, <1>n, <2>1, <3>1, ReturnBase DEF cacheVars
  <2>2. QED
    BY <1>6, <2>1, NewLifeBase DEF DrainPanics
<1>7. QED
  BY <1>1, <1>2, <1>3, <1>4, <1>5, <1>6 DEF FlushStep

LEMMA StepBase == BaseInv /\ [Next]_vars => BaseInv'
<1> SUFFICES ASSUME BaseInv, [Next]_vars PROVE BaseInv'
  OBVIOUS
<1>t. TypeOK /\ TypeOK'
  BY StepType DEF BaseInv
<1>d. \A p \in pendingDeletes : peers[p] = NoPeer
  BY <1>t, LiveNotDoomedIff DEF BaseInv
<1>1. ASSUME NEW seed \in SeedSnapshots, NEW written \in BOOLEAN, Boot(seed, written)
      PROVE  BaseInv'
  <2>1. pendingDeletes' = {} /\ phase' # "boot" /\ UNCHANGED <<flush, overlapped>>
    BY <1>1 DEF Boot, BaseInv, BootClean
  <2>2. QED
    BY <1>t, <2>1, QuietBase
<1>2. ASSUME NEW p \in Peers, NEW report \in Reports, UpsertGossip(p, report)
      PROVE  BaseInv'
  <2>1. phase' # "boot" /\ UNCHANGED <<flush, overlapped>>
    BY <1>2 DEF UpsertGossip, Live, lifeVars
  <2>2. \A q \in pendingDeletes' : peers'[q] = NoPeer
    BY <1>2, <1>t, <1>d DEF UpsertGossip, TypeOK
  <2>3. QED
    BY <1>t, <2>1, <2>2, QuietBase
<1>3. ASSUME NEW p \in Peers, Connected(p) PROVE BaseInv'
  <2>1. phase' # "boot" /\ UNCHANGED <<flush, overlapped>>
    BY <1>3 DEF Connected, Live, lifeVars
  <2>2. \A q \in pendingDeletes' : peers'[q] = NoPeer
    BY <1>3, <1>t, <1>d DEF Connected, TypeOK
  <2>3. QED
    BY <1>t, <2>1, <2>2, QuietBase
<1>4. ASSUME NEW p \in Peers, Disconnected(p) PROVE BaseInv'
  <2>1. phase' # "boot" /\ UNCHANGED <<flush, overlapped>>
    BY <1>4 DEF Disconnected, Live, lifeVars
  <2>2. \A q \in pendingDeletes' : peers'[q] = NoPeer
    BY <1>4, <1>t, <1>d DEF Disconnected, TypeOK
  <2>3. QED
    BY <1>t, <2>1, <2>2, QuietBase
<1>5. ASSUME NEW p \in Peers, NEW work \in Work, Credit(p, work) PROVE BaseInv'
  <2>1. phase' # "boot" /\ UNCHANGED <<flush, overlapped>>
    BY <1>5 DEF Credit, Live, lifeVars
  <2>2. \A q \in pendingDeletes' : peers'[q] = NoPeer
    BY <1>5, <1>t, <1>d DEF Credit, TypeOK
  <2>3. QED
    BY <1>t, <2>1, <2>2, QuietBase
<1>6. CASE QueueEvent
  <2>1. phase' # "boot" /\ UNCHANGED <<flush, overlapped, peers, pendingDeletes>>
    BY <1>6 DEF QueueEvent, Live, lifeVars
  <2>2. QED
    BY <1>t, <1>d, <2>1, QuietBase
<1>7. CASE ResetStats
  <2> DEFINE new == Begun(resetGen + 1)
  <2>1. "reset" \in Callers /\ NoPeers \in [Peers -> MaybeRecord] /\ <<>> \in Seq(Nat)
    BY NoFlushType, EmptySeq DEF Callers
  <2>0. resetGen + 1 \in Nat
    BY <1>t DEF TypeOK
  <2>2. new \in FlushState /\ new.pc = "begin"
    BY <2>0, <2>1 DEF FlushState, Begun
  <2>3. flush' = [flush EXCEPT !["reset"] = new]
    BY <1>7 DEF ResetStats
  <2>4. phase' # "boot" /\ overlapped' = overlapped /\ pendingDeletes' = pendingDeletes
    BY <1>7 DEF ResetStats, Live, lifeVars
  <2>5. \A p \in pendingDeletes' : peers'[p] = NoPeer
    BY <1>7, <1>t, <1>d, <2>4 DEF ResetStats, TypeOK
  <2>6. LiveNotDoomed'
    BY <1>t, <2>5, KnownIff DEF LiveNotDoomed, TypeOK
  <2>7. /\ flush'["reset"].peers = NoPeers
        /\ flush'["reset"].deletes = {}
        /\ flush'["reset"].pc = "begin"
        /\ \A d \in Callers \ {"reset"} : flush'[d] = flush[d]
    BY <1>t, <2>1, <2>3 DEF FlushState, TypeOK, Begun
  <2>8. CopiesDisjoint'
    BY <2>1, <2>7 DEF BaseInv, CopiesDisjoint
  <2>9. TakeTurns'
    BY <2>4, <2>7 DEF BaseInv, TakeTurns, Serial, InFlight
  <2>10. QED
    BY <1>t, <2>4, <2>6, <2>8, <2>9 DEF BaseInv, BootClean
<1>8. CASE Stop
  <2>1. phase' # "boot" /\ UNCHANGED <<flush, overlapped, peers, pendingDeletes>>
    BY <1>8 DEF Stop, cacheVars
  <2>2. QED
    BY <1>t, <1>d, <2>1, QuietBase
<1>9. CASE FinalFlush
  <2>1. "shutdown" \in Callers /\ flush["shutdown"] \in FlushState
    BY <1>t DEF Callers, TypeOK
  <2>2. /\ flush'["shutdown"].peers = flush["shutdown"].peers
        /\ flush'["shutdown"].deletes = flush["shutdown"].deletes
        /\ flush'["shutdown"].pc = "begin"
        /\ \A d \in Callers \ {"shutdown"} : flush'[d] = flush[d]
    BY <1>9, <1>t, <2>1 DEF FinalFlush, FlushState, TypeOK
  <2>3. CopiesDisjoint'
    BY <2>1, <2>2 DEF BaseInv, CopiesDisjoint
  <2>4. TakeTurns'
    BY <1>9, <2>2 DEF BaseInv, TakeTurns, Serial, InFlight, FinalFlush
  <2>5. LiveNotDoomed' /\ phase' # "boot"
    BY <1>9 DEF BaseInv, LiveNotDoomed, FinalFlush, cacheVars, lifeVars
  <2>6. QED
    BY <1>t, <2>3, <2>4, <2>5 DEF BaseInv, BootClean
<1>10. CASE Restart
  BY <1>10, NewLifeBase DEF Restart
<1>11. ASSUME NEW c \in Callers, FlushStep(c) PROVE BaseInv'
  BY <1>11, FlushStepBase
<1>12. CASE UNCHANGED vars
  BY <1>12 DEF vars, BaseInv, TypeOK, BootClean, TakeTurns, Serial, InFlight, LiveNotDoomed,
              CopiesDisjoint
<1>13. QED
  BY <1>1, <1>2, <1>3, <1>4, <1>5, <1>6, <1>7, <1>8, <1>9, <1>10, <1>11, <1>12 DEF Next

LEMMA BaseCorrect == Spec => []BaseInv
BY InitBase, StepBase, PTL DEF Spec

(* No interleaving of flushes, callbacks, resets and restarts leaves a     *)
(* live peer with its DELETE still queued.                                 *)
THEOREM LiveNeverDoomed == Spec => []LiveNotDoomed
<1>1. BaseInv => LiveNotDoomed
  BY DEF BaseInv
<1>2. QED
  BY <1>1, BaseCorrect, PTL

-----------------------------------------------------------------------------
(* Soundness of the records, and totals that never go back. *)

Fine(rec) == rec = NoPeer \/ Sound(rec)

(* RecordsSound, key by key. *)
AllFine ==
    \A p \in Peers : /\ Fine(peers[p]) /\ Fine(rows[p])
                     /\ \A c \in Callers : Fine(flush[c].peers[p])

LEMMA AllFineIsRecordsSound ==
    ASSUME TypeOK
    PROVE  AllFine => RecordsSound
<1> SUFFICES ASSUME AllFine,
                    NEW map \in {peers, rows} \cup {flush[c].peers : c \in Callers},
                    NEW p \in Known(map)
             PROVE  ScoreJustified(map[p]) /\ AddressTrusted(map[p])
  BY DEF RecordsSound
<1>1. map \in [Peers -> MaybeRecord]
  BY DEF TypeOK, FlushState
<1>2. p \in Peers /\ map[p] # NoPeer
  BY <1>1, KnownIff
<1>3. Fine(map[p])
  BY <1>2 DEF AllFine
<1>4. QED
  BY <1>2, <1>3 DEF Fine, Sound

(* A step of the cache that leaves the table and the copies alone. *)
LEMMA QuietFine ==
    ASSUME TypeOK, AllFine, UNCHANGED rows, NEW p \in Peers, NEW rec,
           Fine(rec), peers' = [peers EXCEPT ![p] = rec],
           \A c \in Callers : flush'[c].peers = flush[c].peers
    PROVE  AllFine'
BY DEF AllFine, TypeOK

LEMMA FlushStepFine ==
    ASSUME TypeOK, AllFine, NEW c \in Callers, FlushStep(c)
    PROVE  AllFine'
<1>f. flush \in [Callers -> FlushState] /\ flush[c] \in FlushState
  BY DEF TypeOK
<1>n. \A p \in Peers : NoFlush.peers[p] = NoPeer
  BY DEF NoFlush, NoPeers
<1>r. ASSUME flush' = [flush EXCEPT ![c] = NoFlush], UNCHANGED <<peers, rows>>
      PROVE  AllFine'
  BY <1>f, <1>n, <1>r DEF AllFine, Fine
<1>l. ASSUME NEW readable \in SUBSET Peers, NewLife(readable) PROVE AllFine'
  BY <1>l, <1>n DEF AllFine, Fine, NewLife, NoPeers, dbVars
<1>1. CASE FlushCopy(c)
  <2>1. flush'[c].peers = peers /\ \A d \in Callers \ {c} : flush'[d] = flush[d]
    BY <1>1, <1>f DEF FlushCopy
  <2>2. QED
    BY <1>1, <2>1 DEF AllFine, FlushCopy, cacheVars, dbVars
<1>2. CASE FlushNothing(c)
  BY <1>2, <1>r DEF FlushNothing, Return, cacheVars, dbVars
<1>3. CASE Commit(c)
  <2>1. \A d \in Callers : flush'[d].peers = flush[d].peers
    BY <1>3, <1>f DEF Commit, FlushState
  <2>2. \A p \in Peers : rows'[p] \in {flush[c].peers[p], NoPeer, rows[p]}
    BY <1>3 DEF Commit, Overlay
  <2>3. QED
    BY <1>3, <2>1, <2>2 DEF AllFine, Fine, Commit, cacheVars
<1>4. CASE CommitFails(c)
  BY <1>4, <1>r DEF CommitFails, Return, cacheVars, dbVars
<1>5. CASE Drain(c)
  BY <1>5, <1>r DEF Drain, Return, dbVars
<1>6. CASE DrainPanics(c)
  BY <1>6, <1>r, <1>l DEF DrainPanics, cacheVars, dbVars
<1>7. QED
  BY <1>1, <1>2, <1>3, <1>4, <1>5, <1>6 DEF FlushStep

LEMMA StepFine == TypeOK /\ AllFine /\ [Next]_vars => AllFine'
<1> SUFFICES ASSUME TypeOK, AllFine, [Next]_vars PROVE AllFine'
  OBVIOUS
<1>p. \A p \in Peers : peers[p] \in MaybeRecord /\ Fine(peers[p])
  BY DEF TypeOK, AllFine
<1>1. ASSUME NEW seed \in SeedSnapshots, NEW written \in BOOLEAN, Boot(seed, written)
      PROVE  AllFine'
  <2>1. \A p \in Peers : seed[p] \in MaybeRecord /\ Fine(seed[p])
    <3>1. seed \in [Peers -> MaybeRecord]
      BY SeedAssumption
    <3>2. \A p \in Known(seed) : Sound(seed[p])
      BY SeedAssumption DEF Sound
    <3>3. QED
      BY <3>1, <3>2, KnownIff DEF Fine
  <2>2. \A p \in Peers : Fine(Merged(peers[p], seed[p]))
    BY <1>p, <2>1, MergedRecord DEF Fine
  <2>3. \A p \in Peers : Fine(peers'[p])
    BY <1>1, <2>2 DEF Boot
  <2>4. \A p \in Peers : rows'[p] \in {peers'[p], rows[p]}
    BY <1>1 DEF Boot, Overlay
  <2>5. QED
    BY <1>1, <2>3, <2>4 DEF AllFine, Boot
<1>2. ASSUME NEW p \in Peers, NEW report \in Reports, UpsertGossip(p, report)
      PROVE  AllFine'
  <2>1. Fine(AfterGossip(peers[p], report))
    BY <1>p, AfterGossipRecord, InputsAssumption DEF Fine
  <2>2. QED
    BY <1>2, <2>1, QuietFine DEF UpsertGossip, dbVars
<1>3. ASSUME NEW p \in Peers, Connected(p) PROVE AllFine'
  <2>1. Fine(AfterConnection(peers[p]))
    BY <1>p, AfterConnectionRecord DEF Fine
  <2>2. QED
    BY <1>3, <2>1, QuietFine DEF Connected, dbVars
<1>4. ASSUME NEW p \in Peers, Disconnected(p) PROVE AllFine'
  BY <1>4, QuietFine DEF Disconnected, dbVars, Fine
<1>5. ASSUME NEW p \in Peers, NEW work \in Work, Credit(p, work) PROVE AllFine'
  <2>1. peers[p] \in Record /\ Sound(peers[p])
    BY <1>5, <1>p DEF Credit, MaybeRecord, Fine
  <2>2. Fine(AfterCredit(peers[p], work))
    BY <2>1, AfterCreditRecord, InputsAssumption DEF Fine
  <2>3. QED
    BY <1>5, <2>2, QuietFine DEF Credit, dbVars
<1>6. CASE ResetStats
  <2>1. \A p \in Peers : peers[p] # NoPeer => Sound(Zeroed(peers[p]))
    BY <1>p, ZeroedRecord DEF MaybeRecord, Fine
  <2>2. \A p \in Peers : Fine(peers'[p])
    BY <1>6, <2>1 DEF ResetStats, Fine
  <2>3. \A d \in Callers : flush'[d].peers \in {flush[d].peers, NoPeers}
    BY <1>6 DEF ResetStats, TypeOK, FlushState, Begun
  <2>4. QED
    BY <1>6, <2>2, <2>3 DEF AllFine, ResetStats, dbVars, Fine, NoPeers
<1>7. CASE FinalFlush
  <2>1. \A d \in Callers : flush'[d].peers = flush[d].peers
    BY <1>7 DEF FinalFlush, TypeOK, FlushState
  <2>2. QED
    BY <1>7, <2>1 DEF AllFine, FinalFlush, cacheVars, dbVars
<1>8. CASE Restart
  BY <1>8 DEF AllFine, Fine, Restart, NewLife, NoFlush, NoPeers, dbVars
<1>9. ASSUME NEW c \in Callers, FlushStep(c) PROVE AllFine'
  BY <1>9, FlushStepFine
<1>10. CASE QueueEvent \/ Stop \/ UNCHANGED vars
  BY <1>10 DEF AllFine, QueueEvent, Stop, vars, cacheVars, dbVars
<1>11. QED
  BY <1>1, <1>2, <1>3, <1>4, <1>5, <1>6, <1>7, <1>8, <1>9, <1>10 DEF Next

(* Wherever a record is kept -- cache, copy or table -- its score is       *)
(* justified by its counters and its verified mark tells the truth, for    *)
(* any reports, credits and (sound) seed snapshots.                        *)
THEOREM RecordsAlwaysSound == Spec => []RecordsSound
<1>1. Init => AllFine
  BY DEF Init, AllFine, Fine, NoFlush, NoPeers
<1>2. TypeOK /\ AllFine => RecordsSound
  BY AllFineIsRecordsSound
<1>3. QED
  BY <1>1, <1>2, StepFine, TypeCorrect, PTL DEF Spec

LEMMA FlushStepPeers ==
    ASSUME NEW c \in Callers, FlushStep(c), phase' # "boot"
    PROVE  UNCHANGED peers
BY DEF FlushStep, FlushCopy, FlushNothing, Commit, CommitFails, Drain, DrainPanics, NewLife,
       cacheVars

(* Only a reset, a removal or a restart lowers a peer's totals: a stale    *)
(* report or a merge never does, whatever it carries.                      *)
THEOREM TotalsOnlyGrow == Spec => TotalsNeverRollBack
<1> DEFINE Grows ==
        \A p \in Known(peers) :
            peers'[p] # NoPeer /\ resetGen' = resetGen /\ phase' # "boot"
                => AtLeast(peers'[p], peers[p])
<1>1. TypeOK /\ [Next]_vars => Grows
  <2> SUFFICES ASSUME TypeOK, [Next]_vars, NEW p \in Known(peers), peers'[p] # NoPeer,
                      resetGen' = resetGen, phase' # "boot"
               PROVE  AtLeast(peers'[p], peers[p])
    OBVIOUS
  <2>p. p \in Peers /\ peers[p] \in Record /\ peers[p] # NoPeer
        /\ peers \in [Peers -> MaybeRecord] /\ peers[p] \in MaybeRecord
    BY KnownIsRecord, KnownIff DEF TypeOK, MaybeRecord
  <2>r. AtLeast(peers[p], peers[p])
    BY <2>p DEF AtLeast, Record
  <2>1. ASSUME NEW seed \in SeedSnapshots, NEW written \in BOOLEAN, Boot(seed, written)
        PROVE  AtLeast(peers'[p], peers[p])
    <3>1. peers'[p] = Merged(peers[p], seed[p]) /\ seed[p] \in MaybeRecord
      BY <2>1, <2>p, SeedAssumption DEF Boot
    <3>2. CASE seed[p] = NoPeer
      BY <3>1, <3>2, <2>r DEF Merged
    <3>3. CASE seed[p] # NoPeer
      <4>1. seed[p] \in Record
        BY <3>1, <3>3 DEF MaybeRecord
      <4>2. peers'[p] = KeepMax(peers[p], seed[p].req, seed[p].tok, seed[p].score)
        BY <3>1, <3>3, <2>p DEF Merged
      <4>3. seed[p].req \in Nat /\ seed[p].tok \in Nat /\ seed[p].score \in Nat
        BY <4>1 DEF Record
      <4>4. QED
        BY <4>2, <4>3, <2>p, KeepMaxRecord
    <3>4. QED
      BY <3>2, <3>3
  <2>2. ASSUME NEW q \in Peers, NEW report \in Reports, UpsertGossip(q, report)
        PROVE  AtLeast(peers'[p], peers[p])
    <3>1. AtLeast(AfterGossip(peers[p], report), peers[p])
      BY <2>p, AfterGossipRecord, InputsAssumption
    <3>2. QED
      BY <2>2, <2>p, <2>r, <3>1 DEF UpsertGossip
  <2>3. ASSUME NEW q \in Peers, Connected(q) PROVE AtLeast(peers'[p], peers[p])
    <3>1. AtLeast(AfterConnection(peers[p]), peers[p])
      BY <2>p, AfterConnectionRecord
    <3>2. QED
      BY <2>3, <2>p, <2>r, <3>1 DEF Connected
  <2>4. ASSUME NEW q \in Peers, Disconnected(q) PROVE AtLeast(peers'[p], peers[p])
    BY <2>4, <2>p, <2>r DEF Disconnected
  <2>5. ASSUME NEW q \in Peers, NEW work \in Work, Credit(q, work)
        PROVE  AtLeast(peers'[p], peers[p])
    <3>1. AtLeast(AfterCredit(peers[p], work), peers[p])
      BY <2>p, AfterCreditRecord, InputsAssumption
    <3>2. QED
      BY <2>5, <2>p, <2>r, <3>1 DEF Credit
  <2>6. CASE ResetStats
    <3>1. resetGen' # resetGen
      BY <2>6 DEF ResetStats, TypeOK
    <3>2. QED
      BY <3>1
  <2>7. CASE Restart
    BY <2>7 DEF Restart, NewLife
  <2>8. ASSUME NEW c \in Callers, FlushStep(c) PROVE AtLeast(peers'[p], peers[p])
    BY <2>8, <2>r, FlushStepPeers
  <2>9. CASE QueueEvent \/ Stop \/ FinalFlush \/ UNCHANGED vars
    BY <2>9, <2>r DEF QueueEvent, Stop, FinalFlush, vars, cacheVars
  <2>10. QED
    BY <2>1, <2>2, <2>3, <2>4, <2>5, <2>6, <2>7, <2>8, <2>9 DEF Next
<1>2. TypeOK /\ [Next]_vars =>
        [\A p \in Known(peers) :
           peers'[p] # NoPeer /\ resetGen' = resetGen /\ phase' # "boot"
               => /\ peers'[p].req >= peers[p].req
                  /\ peers'[p].tok >= peers[p].tok
                  /\ peers'[p].score >= peers[p].score]_vars
  BY <1>1 DEF AtLeast
<1>3. QED
  BY <1>2, TypeCorrect, PTL DEF Spec, TotalsNeverRollBack
=============================================================================
