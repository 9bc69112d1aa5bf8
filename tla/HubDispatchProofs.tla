------------------------- MODULE HubDispatchProofs --------------------------
(***************************************************************************)
(* Proofs about HubDispatch, for any finite sets of peers and requests,    *)
(* any cluster settings and any numbers of slots and retries: its types,   *)
(* the balance of the semaphore, credit for the attempt that is answered,  *)
(* and the shape of the two backend lists.                                 *)
(***************************************************************************)
EXTENDS HubDispatch, FiniteSetTheorems, SequenceTheorems, TLAPS

PCs == Calls \cup {"idle", "waiting", "admitted", "attempt", "credit", "done"}

(* Whoever has passed Acquire and not finished holds a slot. *)
Inside == {"together", "prefill", "decode", "admitted", "attempt", "credit"}

Holders == {r \in Requests : req[r].pc \in Inside}

-----------------------------------------------------------------------------
(* Types.                                                                  *)

LEMMA IdleType == Idle \in Handler
BY DEF Idle, Handler

LEMMA PeersFinite ==
    ASSUME NEW S \in SUBSET Peers
    PROVE  Cardinality(S) \in Nat
BY PeersAssumption, FS_Subset, FS_CardinalityType

(* The list of a set of peers names each of them at most once. *)
LEMMA RankingsAreLists ==
    ASSUME TypeOK, NEW S \in SUBSET Peers, NEW list \in Rankings(S)
    PROVE  list \in Seq(Peers) /\ IsInjective(list)
<1>1. Cardinality(S) \in Nat
  BY PeersFinite
<1>2. list \in [1..Cardinality(S) -> Peers]
  BY DEF Rankings
<1>3. list \in Seq(Peers)
  BY <1>1, <1>2
<1>4. ASSUME NEW i \in DOMAIN list, NEW j \in DOMAIN list, list[i] = list[j] PROVE i = j
  <2>1. i \in Int /\ j \in Int /\ list[i] \in Peers /\ list[j] \in Peers
    BY <1>1, <1>2
  <2>2. \A p \in Peers : ~Before(p, p)
    BY PeersAssumption DEF Before, TypeOK
  <2>3. ~(i < j) /\ ~(j < i)
    BY <1>4, <2>1, <2>2 DEF Rankings
  <2>. QED BY <2>1, <2>3
<1>. QED BY <1>3, <1>4 DEF IsInjective

LEMMA AtMostType ==
    ASSUME NEW n \in Nat, NEW list \in Seq(Peers)
    PROVE  /\ AtMost(n, list) \in Seq(Peers)
           /\ Len(AtMost(n, list)) = IF Len(list) < n THEN Len(list) ELSE n
           /\ \A i \in 1..Len(AtMost(n, list)) : i \in 1..Len(list) /\ AtMost(n, list)[i] = list[i]
<1>. DEFINE k == IF Len(list) < n THEN Len(list) ELSE n
<1>1. k \in Int /\ k >= 0 /\ k <= Len(list) /\ \A i \in 1..k : list[i] \in Peers
  BY LenProperties, ElementOfSeq
<1>2. AtMost(n, list) = SubSeq(list, 1, k)
  BY DEF AtMost
<1>. HIDE DEF k
<1>3. /\ SubSeq(list, 1, k) \in Seq(Peers)
      /\ Len(SubSeq(list, 1, k)) = IF 1 <= k THEN k - 1 + 1 ELSE 0
      /\ \A i \in 1..(k - 1 + 1) : SubSeq(list, 1, k)[i] = list[1 + i - 1]
  BY <1>1, SubSeqProperties
<1>4. Len(SubSeq(list, 1, k)) = k
  BY <1>1, <1>3
<1>5. \A i \in 1..k : SubSeq(list, 1, k)[i] = list[i] /\ i \in 1..Len(list)
  <2>1. TAKE i \in 1..k
  <2>2. 1 + i - 1 = i /\ k - 1 + 1 = k /\ Len(list) \in Nat
    BY <1>1, LenProperties
  <2>. QED BY <1>1, <1>3, <2>2
<1>. QED BY <1>2, <1>3, <1>4, <1>5 DEF k

(* What a reload stores are lists of peers: the head of the snapshot, and  *)
(* a stretch of it that shares no position with the head, or the head.     *)
LEMMA RestType ==
    ASSUME TypeOK, NEW list \in Seq(Peers), ~Together
    PROVE  /\ RestOf(list) \in Seq(Peers)
           /\ cluster.decode > 0 => Len(RestOf(list)) <= cluster.decode
           /\ \A i \in 1..Len(RestOf(list)) :
                 /\ cluster.prefill + i \in 1..Len(list)
                 /\ RestOf(list)[i] = list[cluster.prefill + i]
<1>. DEFINE m == cluster.prefill
            rest == SubSeq(list, m + 1, Len(list))
<1>1. m \in Nat /\ cluster.decode \in Nat /\ Len(list) \in Nat
  BY LenProperties DEF TypeOK, Cluster
<1>2. \A i \in (m + 1)..Len(list) : list[i] \in Peers
  BY <1>1, ElementOfSeq
<1>3. RestOf(list) = IF cluster.decode > 0 THEN AtMost(cluster.decode, rest) ELSE rest
  BY DEF RestOf
<1>. HIDE DEF m
<1>4. /\ rest \in Seq(Peers)
      /\ Len(rest) = IF m + 1 <= Len(list) THEN Len(list) - (m + 1) + 1 ELSE 0
      /\ \A i \in 1..(Len(list) - (m + 1) + 1) : rest[i] = list[m + 1 + i - 1]
  BY <1>1, <1>2, SubSeqProperties
<1>. HIDE DEF rest
<1>5. \A i \in 1..Len(rest) : m + i \in 1..Len(list) /\ rest[i] = list[m + i]
  <2>1. TAKE i \in 1..Len(rest)
  <2>2. i \in 1..(Len(list) - (m + 1) + 1) /\ m + 1 + i - 1 = m + i
    BY <1>1, <1>4
  <2>. QED BY <1>1, <1>4, <2>2
<1>6. CASE cluster.decode > 0
  BY <1>1, <1>3, <1>4, <1>5, <1>6, AtMostType DEF m
<1>7. CASE ~(cluster.decode > 0)
  BY <1>3, <1>4, <1>5, <1>7 DEF m
<1>. QED BY <1>6, <1>7

LEMMA RolesType ==
    ASSUME TypeOK, NEW list \in Seq(Peers)
    PROVE  PrefillOf(list) \in Seq(Peers) /\ DecodeOf(list) \in Seq(Peers)
<1>1. cluster.prefill \in Nat
  BY DEF TypeOK, Cluster
<1>2. PrefillOf(list) \in Seq(Peers)
  BY <1>1, AtMostType DEF PrefillOf
<1>. QED BY <1>2, RestType DEF DecodeOf, RestOf

(* A handler that moves on, and one that is over, keep their type. *)
LEMMA MoveType ==
    ASSUME TypeOK, NEW r \in Requests, NEW pc \in PCs, req' = [req EXCEPT ![r].pc = pc]
    PROVE  req' \in [Requests -> Handler]
<1>. DEFINE h == [req[r] EXCEPT !.pc = pc]
<1>1. req[r] \in Handler
  BY DEF TypeOK
<1>2. h \in Handler
  BY <1>1 DEF Handler, PCs
<1>3. req' = [req EXCEPT ![r] = h]
  OBVIOUS
<1>. HIDE DEF h
<1>. QED BY <1>2, <1>3 DEF TypeOK

LEMMA FinishType ==
    ASSUME TypeOK, NEW r \in Requests, NEW ok \in BOOLEAN, Finish(r, ok)
    PROVE  req' \in [Requests -> Handler]
<1>. DEFINE square == req[r].paid = IF ok THEN req[r].backends ELSE <<>>
<1>1. req[r].answers + 1 \in Nat /\ square \in BOOLEAN
  BY DEF TypeOK, Handler
<1>2. req' = [req EXCEPT ![r] = [Idle EXCEPT !.pc = "done", !.answers = req[r].answers + 1,
                                             !.square = square]]
  BY DEF Finish
<1>. HIDE DEF square
<1>3. [Idle EXCEPT !.pc = "done", !.answers = req[r].answers + 1, !.square = square] \in Handler
  BY <1>1, IdleType DEF Handler
<1>. QED BY <1>2, <1>3 DEF TypeOK

LEMMA BeginType ==
    ASSUME TypeOK, NEW r \in Requests, NEW pc \in Calls, NEW list \in Seq(Peers),
           Begin(r, pc, list)
    PROVE  req' \in [Requests -> Handler]
<1>. DEFINE next == req[r].attempt + 1
<1>1. req[r] \in Handler /\ next \in Nat
  BY DEF TypeOK, Handler
<1>2. req' = [req EXCEPT ![r] = [req[r] EXCEPT !.pc = pc, !.attempt = next, !.backends = list,
                                               !.served = TRUE]]
  BY DEF Begin, TypeOK
<1>. HIDE DEF next
<1>3. [req[r] EXCEPT !.pc = pc, !.attempt = next, !.backends = list, !.served = TRUE] \in Handler
  BY <1>1 DEF Handler, Calls
<1>. QED BY <1>2, <1>3 DEF TypeOK

LEMMA BodyType ==
    ASSUME TypeOK, NEW r \in Requests, NEW inference \in BOOLEAN, AnyBody(r, inference)
    PROVE  req' \in [Requests -> Handler]
<1>. DEFINE pc == IF At(r, "prefill") THEN "decode" ELSE "credit"
            owed == IF At(r, "prefill") THEN req[r].owed ELSE req[r].backends
            served == req[r].served /\ inference
<1>1. req[r] \in Handler /\ req[r].owed \in Seq(Peers) /\ req[r].backends \in Seq(Peers)
      /\ req[r].served \in BOOLEAN
  BY DEF TypeOK, Handler
<1>2. pc \in {"decode", "credit"} /\ owed \in Seq(Peers) /\ served \in BOOLEAN
  BY <1>1
<1>3. req' = [req EXCEPT ![r] = [req[r] EXCEPT !.pc = pc, !.owed = owed, !.served = served]]
  BY DEF AnyBody, TypeOK, At
<1>. HIDE DEF pc, owed, served
<1>4. [req[r] EXCEPT !.pc = pc, !.owed = owed, !.served = served] \in Handler
  BY <1>1, <1>2 DEF Handler, Calls
<1>. QED BY <1>3, <1>4 DEF TypeOK

LEMMA CreditType ==
    ASSUME TypeOK, NEW r \in Requests, Credit(r)
    PROVE  req' \in [Requests -> Handler] /\ score' \in [Peers -> Nat]
<1>. DEFINE p == Head(req[r].owed)
            owed == Tail(req[r].owed)
            paid == Append(req[r].paid, p)
<1>1. req[r] \in Handler /\ req[r].owed \in Seq(Peers) /\ req[r].paid \in Seq(Peers)
  BY DEF TypeOK, Handler
<1>2. p \in Peers /\ owed \in Seq(Peers)
  BY <1>1, HeadTailProperties DEF Credit
<1>3. paid \in Seq(Peers)
  BY <1>1, <1>2, AppendProperties
<1>4. req' = [req EXCEPT ![r] = [req[r] EXCEPT !.owed = owed, !.paid = paid]]
  BY DEF Credit, TypeOK
<1>5. score' = IF cache[p] = "absent" THEN score ELSE [score EXCEPT ![p] = @ + 1]
  BY DEF Credit
<1>. HIDE DEF p, owed, paid
<1>6. [req[r] EXCEPT !.owed = owed, !.paid = paid] \in Handler
  BY <1>1, <1>2, <1>3 DEF Handler
<1>7. score' \in [Peers -> Nat]
  BY <1>2, <1>5 DEF TypeOK
<1>. QED BY <1>4, <1>6, <1>7 DEF TypeOK
(* The environment's steps and the reloads. *)
LEMMA CacheTypes ==
    ASSUME TypeOK, NEW p \in Peers, Gossip(p) \/ Connected(p) \/ Disconnected(p)
    PROVE  TypeOK'
<1>1. CASE Gossip(p)
  <2>1. cache' \in [Peers -> Knowledge]
    BY <1>1 DEF Gossip, TypeOK, Knowledge
  <2>2. score' \in [Peers -> Nat]
    BY <1>1, BoundsAssumption DEF Gossip, TypeOK
  <2>3. called' \in Nat
    BY <1>1 DEF Gossip, ReloadCalled, TypeOK
  <2>. QED BY <1>1, <2>1, <2>2, <2>3 DEF Gossip, TypeOK, listVars
<1>2. CASE Connected(p)
  BY <1>2 DEF Connected, ReloadCalled, TypeOK, Knowledge, listVars
<1>3. CASE Disconnected(p)
  BY <1>3 DEF Disconnected, TypeOK, Knowledge, listVars, reloadVars
<1>. QED BY <1>1, <1>2, <1>3

LEMMA ReloadTypes ==
    ASSUME TypeOK, ForceRank \/ ReadPeers \/ (\E list \in inHand : StoreBackends(list))
    PROVE  TypeOK'
<1>1. CASE ForceRank
  BY <1>1 DEF ForceRank, ReloadCalled, TypeOK, cacheVars, listVars
<1>2. CASE ReadPeers
  <2>1. Usable \subseteq Peers
    BY DEF Usable
  <2>2. inHand' \in SUBSET Seq(Peers)
    BY <1>2, <2>1, RankingsAreLists DEF ReadPeers, TypeOK
  <2>3. called' \in Nat
    BY <1>2 DEF ReadPeers, TypeOK
  <2>. QED BY <1>2, <2>2, <2>3 DEF ReadPeers, TypeOK, cacheVars, listVars
<1>3. ASSUME NEW list \in inHand, StoreBackends(list) PROVE TypeOK'
  <2>1. list \in Seq(Peers)
    BY DEF TypeOK
  <2>2. prefillBackends' \in Seq(Peers) /\ decodeBackends' \in Seq(Peers)
    BY <1>3, <2>1, RolesType DEF StoreBackends
  <2>. QED BY <1>3, <2>2 DEF StoreBackends, TypeOK, cacheVars
<1>. QED BY <1>1, <1>2, <1>3

-----------------------------------------------------------------------------
(* The semaphore.                                                          *)

LEMMA HoldersFinite == IsFiniteSet(Holders) /\ Cardinality(Holders) \in Nat
<1>1. IsFiniteSet(Holders)
  BY RequestsAssumption, FS_Subset DEF Holders
<1>. QED BY <1>1, FS_CardinalityType

SlotInv == sem = Cardinality(Holders)

LEMMA HoldersAreInside == TypeOK => (SlotInv <=> SlotsBalanced)
<1>. SUFFICES ASSUME TypeOK PROVE SlotInv <=> SlotsBalanced
  OBVIOUS
<1>1. \A r \in Requests : req[r].pc \in PCs
  BY DEF TypeOK, Handler, PCs
<1>2. Holders = {r \in Requests : req[r].pc \notin {"idle", "waiting", "done"}}
  BY <1>1 DEF Holders, Inside, PCs, Calls
<1>. QED BY <1>2 DEF SlotInv, SlotsBalanced

LEMMA EnteringTakesASlot ==
    ASSUME TypeOK, SlotInv, NEW r \in Requests, Acquire(r)
    PROVE  SlotInv'
<1>1. req'[r].pc = "admitted" /\ (\A s \in Requests : s # r => req'[s] = req[s]) /\ r \notin Holders
  BY DEF Acquire, At, TypeOK, Handler, Holders, Inside
<1>2. Holders' = Holders \cup {r}
  BY <1>1 DEF Holders, Inside
<1>3. Cardinality(Holders \cup {r}) = Cardinality(Holders) + 1
  BY <1>1, HoldersFinite, FS_AddElement
<1>. QED BY <1>2, <1>3 DEF SlotInv, Acquire

LEMMA FinishingGivesItBack ==
    ASSUME TypeOK, SlotInv, NEW r \in Requests, NEW ok \in BOOLEAN, req[r].pc \in Inside, Finish(r, ok)
    PROVE  SlotInv' /\ sem' \in 0..Slots
<1>1. req'[r].pc = "done" /\ (\A s \in Requests : s # r => req'[s] = req[s]) /\ r \in Holders
  BY DEF Finish, TypeOK, Handler, Holders, Idle
<1>2. Holders' = Holders \ {r}
  BY <1>1 DEF Holders, Inside
<1>3. Cardinality(Holders \ {r}) = Cardinality(Holders) - 1
  BY <1>1, HoldersFinite, FS_RemoveElement
<1>4. Cardinality(Holders) \in Nat /\ Cardinality(Holders \ {r}) \in Nat
  BY HoldersFinite, FS_RemoveElement, FS_CardinalityType
<1>. QED BY <1>2, <1>3, <1>4, BoundsAssumption DEF SlotInv, Finish, TypeOK

LEMMA StayingKeepsTheSlot ==
    ASSUME SlotInv, UNCHANGED sem,
           \A s \in Requests : req'[s].pc \in Inside <=> req[s].pc \in Inside
    PROVE  SlotInv'
BY DEF SlotInv, Holders

(* A handler that moves from one point inside to another. *)
LEMMA MovingKeepsTheSlot ==
    ASSUME TypeOK, SlotInv, UNCHANGED sem, NEW r \in Requests, NEW h,
           req' = [req EXCEPT ![r] = h], req[r].pc \in Inside, h.pc \in Inside
    PROVE  SlotInv'
BY StayingKeepsTheSlot DEF TypeOK

(* The ways to finish share what they leave alone. *)
LEMMA FinishKeepsBase ==
    ASSUME TypeOK, SlotInv, NEW r \in Requests, NEW ok \in BOOLEAN, req[r].pc \in Inside, Finish(r, ok),
           UNCHANGED <<cluster, cacheVars, listVars, decodeIndex, reloadVars, gone>>
    PROVE  TypeOK' /\ SlotInv'
<1>1. req' \in [Requests -> Handler]
  BY FinishType
<1>2. SlotInv' /\ sem' \in 0..Slots
  BY FinishingGivesItBack
<1>. QED BY <1>1, <1>2 DEF TypeOK, cacheVars, listVars, reloadVars

(* A pick steps the index within the list it picks from. *)
LEMMA PickKeepsBase ==
    ASSUME TypeOK, SlotInv, NEW r \in Requests, PickOne(r) \/ PickTwo(r)
    PROVE  TypeOK' /\ SlotInv'
<1>0. \A i \in Nat, n \in Nat \ {0} : (i + 1) % n \in Nat /\ ((i + 1) % n) + 1 \in 1..n
  OBVIOUS
<1>1. \A list \in Seq(Peers) : list # <<>> => Len(list) \in Nat \ {0} /\ \A i \in 1..Len(list) : list[i] \in Peers
  BY EmptySeq, ElementOfSeq
<1>2. CASE PickOne(r)
  <2>. DEFINE p == prefillBackends[decodeIndex' + 1]
  <2>1. decodeIndex' \in Nat /\ p \in Peers
    BY <1>0, <1>1, <1>2 DEF PickOne, TypeOK
  <2>2. <<p>> \in Seq(Peers) /\ Begin(r, "together", <<p>>)
    BY <1>2, <2>1 DEF PickOne
  <2>. HIDE DEF p
  <2>3. req' \in [Requests -> Handler]
    BY <2>2, BeginType DEF Calls
  <2>4. SlotInv'
    BY <1>2, <2>2, StayingKeepsTheSlot DEF PickOne, Begin, TypeOK, At, Inside
  <2>. QED BY <1>2, <2>1, <2>3, <2>4 DEF PickOne, TypeOK, cacheVars, listVars, reloadVars
<1>3. CASE PickTwo(r)
  <2>. DEFINE p == prefillBackends[1]
              q == decodeBackends[decodeIndex' + 1]
  <2>0. /\ decodeBackends \in Seq(Peers) /\ decodeBackends # <<>>
        /\ prefillBackends \in Seq(Peers) /\ prefillBackends # <<>>
        /\ decodeIndex' = (decodeIndex + 1) % Len(decodeBackends) /\ decodeIndex \in Nat
    BY <1>3 DEF PickTwo, TypeOK
  <2>1. decodeIndex' \in Nat /\ p \in Peers /\ q \in Peers
    BY <1>0, <1>1, <2>0
  <2>2. <<p, q>> \in Seq(Peers) /\ Begin(r, "prefill", <<p, q>>)
    BY <1>3, <2>1 DEF PickTwo
  <2>. HIDE DEF p, q
  <2>3. req' \in [Requests -> Handler]
    BY <2>2, BeginType DEF Calls
  <2>4. SlotInv'
    BY <1>3, <2>2, StayingKeepsTheSlot DEF PickTwo, Begin, TypeOK, At, Inside
  <2>. QED BY <1>3, <2>1, <2>3, <2>4 DEF PickTwo, TypeOK, cacheVars, listVars, reloadVars
<1>. QED BY <1>2, <1>3

LEMMA HandleKeepsBase ==
    ASSUME TypeOK, SlotInv, NEW r \in Requests, Handle(r)
    PROVE  TypeOK' /\ SlotInv'
<1>1. CASE Acquire(r)
  <2>1. req' \in [Requests -> Handler]
    BY <1>1, MoveType DEF Acquire, PCs
  <2>2. sem' \in 0..Slots
    BY <1>1, BoundsAssumption DEF Acquire, TypeOK
  <2>. QED BY <1>1, <2>1, <2>2, EnteringTakesASlot DEF Acquire, TypeOK, cacheVars, listVars, reloadVars
<1>2. ASSUME NEW wellFormed \in BOOLEAN, Check(r, wellFormed) PROVE TypeOK' /\ SlotInv'
  <2>1. CASE Finish(r, FALSE)
    BY <1>2, <2>1, FinishKeepsBase DEF Check, At, Inside
  <2>2. CASE req' = [req EXCEPT ![r].pc = "attempt"] /\ UNCHANGED sem
    <3>1. req' \in [Requests -> Handler]
      BY <2>2, MoveType DEF PCs
    <3>2. SlotInv'
      BY <1>2, <2>2, StayingKeepsTheSlot DEF Check, At, Inside, TypeOK
    <3>. QED BY <1>2, <2>2, <3>1, <3>2 DEF Check, TypeOK, cacheVars, listVars, reloadVars
  <2>. QED BY <1>2, <2>1, <2>2 DEF Check
<1>3. CASE PickOne(r) \/ PickTwo(r)
  BY <1>3, PickKeepsBase
<1>4. CASE NoBackends(r)
  BY <1>4, FinishKeepsBase DEF NoBackends, At, Inside
<1>5. CASE Exhausted(r)
  BY <1>5, FinishKeepsBase DEF Exhausted, At, Inside
<1>6. CASE Broken(r)
  <2>1. CASE Finish(r, FALSE)
    BY <1>6, <2>1, FinishKeepsBase DEF Broken, Calling, Calls, Inside
  <2>2. CASE req' = [req EXCEPT ![r].pc = "attempt"] /\ UNCHANGED sem
    <3>1. req' \in [Requests -> Handler]
      BY <2>2, MoveType DEF PCs
    <3>2. SlotInv'
      BY <1>6, <2>2, StayingKeepsTheSlot DEF Broken, Calling, Calls, Inside, TypeOK
    <3>. QED BY <1>6, <2>2, <3>1, <3>2 DEF Broken, TypeOK, cacheVars, listVars, reloadVars
  <2>. QED BY <1>6, <2>1, <2>2 DEF Broken
<1>7. CASE ErrorBody(r)
  <2>1. req' \in [Requests -> Handler]
    BY <1>7, MoveType DEF ErrorBody, PCs
  <2>2. SlotInv'
    BY <1>7, StayingKeepsTheSlot DEF ErrorBody, Calling, Calls, Inside, TypeOK
  <2>. QED BY <1>7, <2>1, <2>2 DEF ErrorBody, TypeOK, cacheVars, listVars, reloadVars
<1>8. ASSUME NEW inference \in BOOLEAN, AnyBody(r, inference) PROVE TypeOK' /\ SlotInv'
  <2>1. req' \in [Requests -> Handler]
    BY <1>8, BodyType
  <2>2. SlotInv'
    BY <1>8, StayingKeepsTheSlot DEF AnyBody, Calling, Calls, Inside, TypeOK
  <2>. QED BY <1>8, <2>1, <2>2 DEF AnyBody, TypeOK, cacheVars, listVars, reloadVars
<1>9. CASE Credit(r)
  <2>1. req' \in [Requests -> Handler] /\ score' \in [Peers -> Nat]
    BY <1>9, CreditType
  <2>2. SlotInv'
    BY <1>9, StayingKeepsTheSlot DEF Credit, At, Inside, TypeOK
  <2>. QED BY <1>9, <2>1, <2>2 DEF Credit, TypeOK, listVars, reloadVars
<1>10. CASE Answer(r)
  BY <1>10, FinishKeepsBase DEF Answer, At, Inside
<1>. QED BY <1>1, <1>2, <1>3, <1>4, <1>5, <1>6, <1>7, <1>8, <1>9, <1>10 DEF Handle

LEMMA StepKeepsBase ==
    ASSUME TypeOK, SlotInv, [Next]_vars
    PROVE  TypeOK' /\ SlotInv'
<1>1. ASSUME NEW p \in Peers, Gossip(p) \/ Connected(p) \/ Disconnected(p) PROVE TypeOK' /\ SlotInv'
  BY <1>1, CacheTypes, StayingKeepsTheSlot DEF Gossip, Connected, Disconnected
<1>2. CASE ForceRank \/ ReadPeers \/ (\E list \in inHand : StoreBackends(list))
  BY <1>2, ReloadTypes, StayingKeepsTheSlot DEF ForceRank, ReadPeers, StoreBackends
<1>3. ASSUME NEW r \in Requests, ClientLeaves(r) PROVE TypeOK' /\ SlotInv'
  BY <1>3, StayingKeepsTheSlot DEF ClientLeaves, TypeOK, cacheVars, listVars, reloadVars
<1>4. ASSUME NEW r \in Requests, Arrive(r) PROVE TypeOK' /\ SlotInv'
  <2>1. req' \in [Requests -> Handler]
    BY <1>4, MoveType DEF Arrive, PCs
  <2>2. SlotInv'
    BY <1>4, StayingKeepsTheSlot DEF Arrive, At, Inside, TypeOK
  <2>. QED BY <1>4, <2>1, <2>2 DEF Arrive, TypeOK, cacheVars, listVars, reloadVars
<1>5. ASSUME NEW r \in Requests, Handle(r) PROVE TypeOK' /\ SlotInv'
  BY <1>5, HandleKeepsBase
<1>6. CASE UNCHANGED vars
  BY <1>6 DEF vars, cacheVars, listVars, reloadVars, TypeOK, SlotInv, Holders
<1>. QED BY <1>1, <1>2, <1>3, <1>4, <1>5, <1>6 DEF Next

LEMMA InitBase == Init => TypeOK /\ SlotInv
<1>. SUFFICES ASSUME Init PROVE TypeOK /\ SlotInv
  OBVIOUS
<1>1. Holders = {}
  BY DEF Init, Holders, Idle, Inside
<1>2. SlotInv
  BY <1>1, FS_EmptySet DEF SlotInv, Init
<1>3. <<>> \in Seq(Peers) /\ cluster \in Cluster /\ 0 \in 0..Slots
  BY ClustersAssumption, BoundsAssumption DEF Init
<1>4. TypeOK
  BY <1>3, IdleType DEF Init, TypeOK, Knowledge
<1>. QED BY <1>2, <1>4

(* Every variable of the dispatcher keeps its type: neither list ever      *)
(* holds anything but peers, and no way out of a handler gives back a slot *)
(* that was not taken (server_proxy.go:276).                               *)
THEOREM TypeCorrect == Spec => []TypeOK
<1>1. TypeOK /\ SlotInv /\ [Next]_vars => TypeOK' /\ SlotInv'
  BY StepKeepsBase
<1>. QED BY InitBase, <1>1, PTL DEF Spec

(* The semaphore counts the requests inside, for any number of requests    *)
(* and slots, whichever return a handler leaves by (server_proxy.go:276).  *)
THEOREM SlotsAlwaysBalanced == Spec => []SlotsBalanced
<1>1. TypeOK /\ SlotInv /\ [Next]_vars => TypeOK' /\ SlotInv'
  BY StepKeepsBase
<1>2. TypeOK /\ SlotInv => SlotsBalanced
  BY HoldersAreInside
<1>. QED BY InitBase, <1>1, <1>2, PTL DEF Spec

-----------------------------------------------------------------------------
(* Credit.                                                                 *)

(* What a handler has paid and still owes, point by point. *)
Squared(h) ==
    /\ h.answers = IF h.pc = "done" THEN 1 ELSE 0
    /\ h.pc = "done" => h.square
    /\ h.pc # "credit" => h.paid = <<>>
    /\ h.pc = "credit" => h.paid \o h.owed = h.backends

CreditInv == \A r \in Requests : Squared(req[r])

(* Only the handler that moves has to be looked at. *)
LEMMA OneHandlerMoves ==
    ASSUME TypeOK, CreditInv, NEW r \in Requests, NEW h, req' = [req EXCEPT ![r] = h], Squared(h)
    PROVE  CreditInv'
BY DEF CreditInv, TypeOK

(* With a 200 the paid list must be the attempt's backends, and otherwise  *)
(* empty; both follow from where the handler is.                           *)
LEMMA FinishSquares ==
    ASSUME TypeOK, CreditInv, NEW r \in Requests, NEW ok \in BOOLEAN, Finish(r, ok),
           req[r].pc # "done",
           req[r].paid = IF ok THEN req[r].backends ELSE <<>>
    PROVE  CreditInv'
<1>. DEFINE n == req[r].answers + 1
            h == [Idle EXCEPT !.pc = "done", !.answers = n, !.square = TRUE]
<1>1. n = 1
  <2>1. Squared(req[r])
    BY DEF CreditInv
  <2>2. req[r].answers = 0
    BY <2>1 DEF Squared
  <2>. QED BY <2>2
<1>2. req' = [req EXCEPT ![r] = h]
  BY DEF Finish
<1>. HIDE DEF n
<1>3. Squared(h)
  BY <1>1 DEF Squared, Idle
<1>. HIDE DEF h
<1>. QED BY <1>2, <1>3, OneHandlerMoves

LEMMA MoveSquares ==
    ASSUME TypeOK, CreditInv, NEW r \in Requests, NEW pc \in PCs \ {"done", "credit"},
           req' = [req EXCEPT ![r].pc = pc], req[r].pc \notin {"done", "credit"}
    PROVE  CreditInv'
<1>. DEFINE h == [req[r] EXCEPT !.pc = pc]
<1>1. req' = [req EXCEPT ![r] = h] /\ req[r] \in Handler
  BY DEF TypeOK
<1>2. Squared(h)
  BY <1>1 DEF CreditInv, Squared, Handler
<1>. HIDE DEF h
<1>. QED BY <1>1, <1>2, OneHandlerMoves

LEMMA BeginSquares ==
    ASSUME TypeOK, CreditInv, NEW r \in Requests, NEW pc \in Calls, NEW list, At(r, "attempt"),
           Begin(r, pc, list)
    PROVE  CreditInv'
<1>. DEFINE n == req[r].attempt + 1
            h == [req[r] EXCEPT !.pc = pc, !.attempt = n, !.backends = list, !.served = TRUE]
<1>1. req' = [req EXCEPT ![r] = h] /\ req[r] \in Handler
  BY DEF TypeOK, Begin
<1>. HIDE DEF n
<1>2. Squared(h)
  BY <1>1 DEF CreditInv, Squared, Handler, At, Calls
<1>. HIDE DEF h
<1>. QED BY <1>1, <1>2, OneHandlerMoves

LEMMA BodySquares ==
    ASSUME TypeOK, CreditInv, NEW r \in Requests, NEW inference \in BOOLEAN, AnyBody(r, inference)
    PROVE  CreditInv'
<1>. DEFINE pc == IF At(r, "prefill") THEN "decode" ELSE "credit"
            owed == IF At(r, "prefill") THEN req[r].owed ELSE req[r].backends
            served == req[r].served /\ inference
            h == [req[r] EXCEPT !.pc = pc, !.owed = owed, !.served = served]
<1>1. req' = [req EXCEPT ![r] = h] /\ req[r] \in Handler
  BY DEF TypeOK, AnyBody, At
<1>2. req[r].pc \in Calls /\ pc \in {"decode", "credit"} /\ (pc = "credit" => owed = req[r].backends)
  BY DEF AnyBody, Calling
<1>. HIDE DEF pc, owed, served
<1>3. req[r].paid = <<>> /\ req[r].answers = 0 /\ <<>> \o req[r].backends = req[r].backends
  BY <1>1, <1>2, ConcatEmptySeq DEF CreditInv, Squared, Calls, Handler
<1>4. Squared(h)
  BY <1>1, <1>2, <1>3 DEF Squared, Handler
<1>. HIDE DEF h
<1>. QED BY <1>1, <1>4, OneHandlerMoves

(* Moving the head of one list to the end of another. *)
LEMMA PayingMoves ==
    ASSUME NEW done \in Seq(Peers), NEW p \in Peers, NEW rest \in Seq(Peers)
    PROVE  Append(done, p) \o rest = done \o (<<p>> \o rest)
<1>1. Append(done, p) = done \o <<p>> /\ <<p>> \in Seq(Peers)
  BY AppendIsConcat
<1>2. (done \o <<p>>) \o rest = done \o (<<p>> \o rest)
  BY <1>1, ConcatAssociative
<1>. QED BY <1>1, <1>2, Zenon

LEMMA CreditSquares ==
    ASSUME TypeOK, CreditInv, NEW r \in Requests, Credit(r)
    PROVE  CreditInv'
<1>. DEFINE p == Head(req[r].owed)
            owed == Tail(req[r].owed)
            paid == Append(req[r].paid, p)
            h == [req[r] EXCEPT !.owed = owed, !.paid = paid]
<1>1. req[r] \in Handler /\ req[r].owed \in Seq(Peers) /\ req[r].paid \in Seq(Peers)
  BY DEF TypeOK, Handler
<1>2. req[r].owed # <<>> /\ req[r].pc = "credit"
  BY DEF Credit, At
<1>3. paid \o owed = req[r].paid \o req[r].owed
  <2>1. p \in Peers /\ owed \in Seq(Peers) /\ req[r].owed = <<p>> \o owed
    BY <1>1, <1>2, HeadTailProperties, HeadTailAppend
  <2>2. paid \o owed = req[r].paid \o (<<p>> \o owed)
    BY <1>1, <2>1, PayingMoves
  <2>. QED BY <2>1, <2>2, Zenon
<1>4. req' = [req EXCEPT ![r] = h]
  BY DEF Credit, TypeOK
<1>. HIDE DEF p, owed, paid
<1>5. Squared(h)
  BY <1>1, <1>2, <1>3 DEF CreditInv, Squared, Handler
<1>. HIDE DEF h
<1>. QED BY <1>4, <1>5, OneHandlerMoves

LEMMA HandleSquares ==
    ASSUME TypeOK, CreditInv, NEW r \in Requests, Handle(r)
    PROVE  CreditInv'
<1>0. /\ req[r].pc # "credit" => req[r].paid = <<>>
      /\ At(r, "credit") /\ req[r].owed = <<>> => req[r].paid = req[r].backends
  <2>1. req[r].paid \in Seq(Peers)
    BY DEF TypeOK, Handler
  <2>. QED BY <2>1, ConcatEmptySeq DEF CreditInv, Squared, At
<1>1. CASE Acquire(r)
  BY <1>1, MoveSquares DEF Acquire, At, PCs
<1>2. ASSUME NEW wellFormed \in BOOLEAN, Check(r, wellFormed) PROVE CreditInv'
  BY <1>0, <1>2, MoveSquares, FinishSquares DEF Check, At, PCs
<1>3. CASE PickOne(r) \/ PickTwo(r)
  BY <1>3, BeginSquares DEF PickOne, PickTwo, Calls
<1>4. CASE NoBackends(r)
  BY <1>0, <1>4, FinishSquares DEF NoBackends, At
<1>5. CASE Exhausted(r)
  BY <1>0, <1>5, FinishSquares DEF Exhausted, At
<1>6. CASE Broken(r)
  BY <1>0, <1>6, MoveSquares, FinishSquares DEF Broken, Calling, Calls, PCs
<1>7. CASE ErrorBody(r)
  BY <1>7, MoveSquares DEF ErrorBody, Calling, Calls, PCs
<1>8. ASSUME NEW inference \in BOOLEAN, AnyBody(r, inference) PROVE CreditInv'
  BY <1>8, BodySquares
<1>9. CASE Credit(r)
  BY <1>9, CreditSquares
<1>10. CASE Answer(r)
  BY <1>0, <1>10, FinishSquares DEF Answer, At
<1>. QED BY <1>1, <1>2, <1>3, <1>4, <1>5, <1>6, <1>7, <1>8, <1>9, <1>10 DEF Handle

(* A request is answered once, and exactly the backends of the attempt     *)
(* that is answered are credited, for any number of retries: a stage that  *)
(* succeeded in an attempt that failed is never paid                       *)
(* (server_proxy.go:268-270).                                              *)
THEOREM AlwaysPaidAsAnswered == Spec => []PaidAsAnswered
<1>1. Init => CreditInv
  BY DEF Init, CreditInv, Squared, Idle
<1>2. TypeOK /\ CreditInv /\ [Next]_vars => CreditInv'
  <2>. SUFFICES ASSUME TypeOK, CreditInv, [Next]_vars PROVE CreditInv'
    OBVIOUS
  <2>1. ASSUME NEW p \in Peers, Gossip(p) \/ Connected(p) \/ Disconnected(p) PROVE CreditInv'
    BY <2>1 DEF Gossip, Connected, Disconnected, CreditInv
  <2>2. CASE ForceRank \/ ReadPeers \/ (\E list \in inHand : StoreBackends(list))
    BY <2>2 DEF ForceRank, ReadPeers, StoreBackends, CreditInv
  <2>3. ASSUME NEW r \in Requests, ClientLeaves(r) PROVE CreditInv'
    BY <2>3 DEF ClientLeaves, CreditInv
  <2>4. ASSUME NEW r \in Requests, Arrive(r) PROVE CreditInv'
    BY <2>4, MoveSquares DEF Arrive, At, PCs
  <2>5. ASSUME NEW r \in Requests, Handle(r) PROVE CreditInv'
    BY <2>5, HandleSquares
  <2>6. CASE UNCHANGED vars
    BY <2>6 DEF vars, CreditInv
  <2>. QED BY <2>1, <2>2, <2>3, <2>4, <2>5, <2>6 DEF Next
<1>3. CreditInv => PaidAsAnswered
  BY DEF CreditInv, Squared, PaidAsAnswered, At
<1>. QED BY TypeCorrect, <1>1, <1>2, <1>3, PTL DEF Spec

-----------------------------------------------------------------------------
(* The two lists.                                                          *)

(* The snapshots in hand name no peer twice. *)
ListsInv == \A list \in inHand : IsInjective(list)

LEMMA SplitIsSound ==
    ASSUME TypeOK, NEW list \in Seq(Peers), IsInjective(list),
           prefillBackends' = PrefillOf(list), decodeBackends' = DecodeOf(list), UNCHANGED cluster
    PROVE  RolesSound'
<1>. DEFINE P == PrefillOf(list)
            R == RestOf(list)
            D == DecodeOf(list)
<1>0. cluster.prefill \in Nat /\ cluster.decode \in Nat /\ Len(list) \in Nat /\ DOMAIN list = 1..Len(list)
  BY LenProperties DEF TypeOK, Cluster
<1>1. P \in Seq(Peers) /\ D \in Seq(Peers)
  BY RolesType
<1>2. /\ \A i \in DOMAIN P : i \in 1..Len(list) /\ P[i] = list[i]
      /\ ~Together => Len(P) <= cluster.prefill
      /\ ~Together => \A i \in DOMAIN P : i <= cluster.prefill
  <2>1. CASE Together
    BY <1>0, <2>1 DEF PrefillOf
  <2>2. CASE ~Together
    <3>1. P = AtMost(cluster.prefill, list)
      BY <2>2 DEF PrefillOf
    <3>2. /\ Len(P) = IF Len(list) < cluster.prefill THEN Len(list) ELSE cluster.prefill
          /\ \A i \in 1..Len(P) : i \in 1..Len(list) /\ P[i] = list[i]
      BY <1>0, <3>1, AtMostType
    <3>3. DOMAIN P = 1..Len(P)
      BY <1>1, LenProperties
    <3>. QED BY <1>0, <2>2, <3>2, <3>3
  <2>. QED BY <2>1, <2>2
<1>3. IsInjective(P)
  BY <1>0, <1>2 DEF IsInjective
<1>4. CASE R = <<>>
  <2>1. D = P
    BY <1>4 DEF DecodeOf
  <2>. QED BY <1>2, <1>3, <2>1 DEF RolesSound, Together
<1>5. CASE R # <<>>
  <2>1. D = R /\ ~Together
    BY <1>5 DEF DecodeOf, RestOf
  <2>2. /\ cluster.decode > 0 => Len(R) <= cluster.decode
        /\ \A i \in DOMAIN R : i >= 1 /\ cluster.prefill + i \in 1..Len(list)
                                 /\ R[i] = list[cluster.prefill + i] /\ i \in Int
    <3>1. R \in Seq(Peers) /\ DOMAIN R = 1..Len(R) /\ Len(R) \in Nat
      BY <2>1, RestType, LenProperties
    <3>. QED BY <2>1, <3>1, RestType
  <2>. HIDE DEF P, R, D
  <2>3. IsInjective(R)
    BY <1>0, <2>2 DEF IsInjective
  <2>4. \A i \in DOMAIN P, j \in DOMAIN R : P[i] # R[j]
    BY <1>0, <1>2, <2>1, <2>2 DEF IsInjective
  <2>5. ToSet(P) \cap ToSet(R) = {}
    BY <2>4 DEF ToSet
  <2>6. prefillBackends' = P /\ decodeBackends' = R
    BY <2>1 DEF P, D
  <2>. QED BY <1>2, <1>3, <1>5, <2>1, <2>2, <2>3, <2>5, <2>6 DEF RolesSound, Together
<1>. QED BY <1>4, <1>5

(* The lists are a split of one snapshot, whatever order the concurrent    *)
(* reloads store theirs in and whatever the cluster settings ask for       *)
(* (server_proxy.go:89, 139): no peer twice, none in both unless the lists *)
(* are the same, nobody to prefill without somebody to decode.             *)
THEOREM RolesAlwaysSound == Spec => []RolesSound
<1>1. Init => ListsInv /\ RolesSound
  <2>1. IsInjective(<<>>)
    BY DEF IsInjective
  <2>. SUFFICES ASSUME Init PROVE ListsInv /\ RolesSound
    OBVIOUS
  <2>2. Len(<<>>) = 0 /\ cluster.prefill \in Nat
    BY ClustersAssumption DEF Init, Cluster
  <2>. QED BY <2>1, <2>2 DEF Init, ListsInv, RolesSound
<1>2. TypeOK /\ ListsInv /\ RolesSound /\ [Next]_vars => ListsInv' /\ RolesSound'
  <2>. SUFFICES ASSUME TypeOK, ListsInv, RolesSound, [Next]_vars PROVE ListsInv' /\ RolesSound'
    OBVIOUS
  <2>1. CASE ReadPeers
    <3>1. Usable \subseteq Peers
      BY DEF Usable
    <3>2. ListsInv'
      BY <2>1, <3>1, RankingsAreLists DEF ReadPeers, ListsInv
    <3>. QED BY <2>1, <3>2 DEF ReadPeers, RolesSound, listVars, Together
  <2>2. ASSUME NEW list \in inHand, StoreBackends(list) PROVE ListsInv' /\ RolesSound'
    <3>1. list \in Seq(Peers) /\ IsInjective(list)
      BY DEF TypeOK, ListsInv
    <3>. QED BY <2>2, <3>1, SplitIsSound DEF StoreBackends, ListsInv
  <2>3. CASE UNCHANGED <<inHand, listVars, cluster>>
    BY <2>3 DEF ListsInv, RolesSound, listVars, Together
  <2>4. ASSUME NEW r \in Requests, Handle(r) PROVE UNCHANGED <<inHand, listVars, cluster>>
    BY <2>4 DEF Handle, Acquire, Check, PickOne, PickTwo, NoBackends, Exhausted, Broken, ErrorBody,
                AnyBody, Credit, Answer, reloadVars
  <2>5. ASSUME NEW p \in Peers, Gossip(p) \/ Connected(p) \/ Disconnected(p)
        PROVE  UNCHANGED <<inHand, listVars, cluster>>
    BY <2>5 DEF Gossip, Connected, Disconnected, reloadVars
  <2>6. ASSUME NEW r \in Requests, ClientLeaves(r) \/ Arrive(r) PROVE UNCHANGED <<inHand, listVars, cluster>>
    BY <2>6 DEF ClientLeaves, Arrive, reloadVars
  <2>7. CASE ForceRank \/ UNCHANGED vars
    BY <2>3, <2>7 DEF ForceRank, vars, listVars
  <2>. QED BY <2>1, <2>2, <2>3, <2>4, <2>5, <2>6, <2>7 DEF Next
<1>. QED BY TypeCorrect, <1>1, <1>2, PTL DEF Spec
-----------------------------------------------------------------------------
(* Handlers come to an end: each has a number of steps left that every     *)
(* step of its own lowers and nobody else's touches.                       *)

Stage(h) ==
    CASE h.pc = "idle" -> 4
      [] h.pc = "waiting" -> 3
      [] h.pc = "admitted" -> 2
      [] h.pc = "attempt" -> 1
      [] h.pc \in {"together", "prefill"} -> 3 + Len(h.backends)
      [] h.pc = "decode" -> 2 + Len(h.backends)
      [] h.pc = "credit" -> 1 + Len(h.owed)
      [] h.pc = "done" -> 0

(* An attempt costs five steps at most: two calls and two credits. *)
StepsLeft(h) == IF h.pc = "done" THEN 0 ELSE 5 * (MaxRetries - h.attempt) + Stage(h)

AttemptsInv == \A r \in Requests : req[r].attempt \in 0..MaxRetries

LEMMA StageType == ASSUME NEW h \in Handler PROVE Stage(h) \in Nat /\ (h.pc # "done" => Stage(h) > 0)
<1>1. Len(h.backends) \in Nat /\ Len(h.owed) \in Nat
  BY LenProperties DEF Handler
<1>2. h.pc \in {"idle", "waiting", "admitted", "attempt", "together", "prefill", "decode", "credit", "done"}
  BY DEF Handler, Calls
<1>. QED BY <1>1, <1>2 DEF Stage

(* Another place in the same attempt. *)
LEMMA StageLowers ==
    ASSUME TypeOK, AttemptsInv, NEW r \in Requests, req' \in [Requests -> Handler],
           req'[r].attempt = req[r].attempt, Stage(req'[r]) < Stage(req[r]), req[r].pc # "done"
    PROVE  StepsLeft(req'[r]) < StepsLeft(req[r])
<1>1. /\ Stage(req[r]) \in Nat /\ Stage(req[r]) > 0 /\ Stage(req'[r]) \in Nat
      /\ MaxRetries \in Nat /\ req[r].attempt \in 0..MaxRetries
  BY StageType, BoundsAssumption DEF TypeOK, AttemptsInv
<1>. QED BY <1>1 DEF StepsLeft

LEMMA OverIsNone ==
    ASSUME TypeOK, AttemptsInv, NEW r \in Requests, NEW ok \in BOOLEAN, req[r].pc # "done", Finish(r, ok)
    PROVE  StepsLeft(req'[r]) < StepsLeft(req[r]) /\ req'[r].attempt = 0
<1>1. /\ Stage(req[r]) \in Nat /\ Stage(req[r]) > 0
      /\ MaxRetries \in Nat /\ req[r].attempt \in 0..MaxRetries
  BY StageType, BoundsAssumption DEF TypeOK, AttemptsInv
<1>2. req'[r].pc = "done" /\ req'[r].attempt = 0
  BY DEF Finish, Idle, TypeOK
<1>. QED BY <1>1, <1>2 DEF StepsLeft

LEMMA MoveLowers ==
    ASSUME TypeOK, AttemptsInv, NEW r \in Requests, NEW pc \in {"waiting", "admitted", "attempt"},
           req' = [req EXCEPT ![r].pc = pc],
           \/ At(r, "idle")
           \/ At(r, "waiting") /\ pc # "waiting"
           \/ (At(r, "admitted") \/ Calling(r)) /\ pc = "attempt"
    PROVE  StepsLeft(req'[r]) < StepsLeft(req[r]) /\ req'[r].attempt = req[r].attempt
<1>1. req' \in [Requests -> Handler] /\ req'[r].pc = pc /\ req'[r].attempt = req[r].attempt
  <2>1. pc \in PCs
    BY DEF PCs
  <2>2. req' \in [Requests -> Handler]
    BY <2>1, MoveType
  <2>3. req'[r] = [req[r] EXCEPT !.pc = pc] /\ req[r] \in Handler
    BY DEF TypeOK
  <2>4. req'[r].pc = pc /\ req'[r].attempt = req[r].attempt
    BY <2>3 DEF Handler
  <2>. QED BY <2>2, <2>4
<1>2. Len(req[r].backends) \in Nat
  BY LenProperties DEF TypeOK, Handler
<1>3. Stage(req'[r]) < Stage(req[r]) /\ req[r].pc # "done"
  BY <1>1, <1>2 DEF Stage, At, Calling, Calls
<1>. QED BY <1>1, <1>3, StageLowers

LEMMA BeginLowers ==
    ASSUME TypeOK, AttemptsInv, NEW r \in Requests, At(r, "attempt"), req[r].attempt < MaxRetries,
           NEW pc \in {"together", "prefill"}, NEW list, Len(list) \in 1..2, Begin(r, pc, list)
    PROVE  StepsLeft(req'[r]) < StepsLeft(req[r]) /\ req'[r].attempt \in 0..MaxRetries
<1>1. MaxRetries \in Nat /\ req[r].attempt \in 0..MaxRetries
  BY BoundsAssumption DEF AttemptsInv
<1>2. req'[r].pc = pc /\ req'[r].backends = list /\ req'[r].attempt = req[r].attempt + 1
  BY DEF Begin, TypeOK, Handler
<1>3. Stage(req'[r]) = 3 + Len(list) /\ Stage(req[r]) = 1
  BY <1>2 DEF Stage, At
<1>4. StepsLeft(req[r]) = 5 * (MaxRetries - req[r].attempt) + 1
  BY <1>3 DEF StepsLeft, At
<1>5. StepsLeft(req'[r]) = 5 * (MaxRetries - (req[r].attempt + 1)) + (3 + Len(list))
  BY <1>2, <1>3 DEF StepsLeft
<1>6. \A a \in 0..MaxRetries, n \in 1..2 : a < MaxRetries =>
          /\ a + 1 \in 0..MaxRetries
          /\ 5 * (MaxRetries - (a + 1)) + (3 + n) < 5 * (MaxRetries - a) + 1
  BY <1>1
<1>. QED BY <1>1, <1>2, <1>4, <1>5, <1>6

LEMMA BodyLowers ==
    ASSUME TypeOK, AttemptsInv, NEW r \in Requests, NEW inference \in BOOLEAN, AnyBody(r, inference)
    PROVE  StepsLeft(req'[r]) < StepsLeft(req[r]) /\ req'[r].attempt = req[r].attempt
<1>. DEFINE owed == IF At(r, "prefill") THEN req[r].owed ELSE req[r].backends
<1>1. /\ req'[r].pc = IF At(r, "prefill") THEN "decode" ELSE "credit"
      /\ req'[r].owed = owed /\ req'[r].backends = req[r].backends
      /\ req'[r].attempt = req[r].attempt
  BY DEF AnyBody, TypeOK, Handler, At
<1>2. Len(req[r].backends) \in Nat
  BY LenProperties DEF TypeOK, Handler
<1>3. Stage(req'[r]) < Stage(req[r]) /\ req[r].pc # "done"
  BY <1>1, <1>2 DEF Stage, At, AnyBody, Calling, Calls
<1>. QED BY <1>1, <1>3, BodyType, StageLowers

LEMMA CreditLowers ==
    ASSUME TypeOK, AttemptsInv, NEW r \in Requests, Credit(r)
    PROVE  StepsLeft(req'[r]) < StepsLeft(req[r]) /\ req'[r].attempt = req[r].attempt
<1>1. /\ req'[r].pc = "credit" /\ req'[r].owed = Tail(req[r].owed) /\ req'[r].attempt = req[r].attempt
  BY DEF Credit, TypeOK, Handler, At
<1>2. Len(Tail(req[r].owed)) < Len(req[r].owed) /\ Len(req[r].owed) \in Nat /\ Len(Tail(req[r].owed)) \in Nat
  <2>1. req[r].owed \in Seq(Peers) /\ req[r].owed # <<>>
    BY DEF TypeOK, Handler, Credit
  <2>. QED BY <2>1, HeadTailProperties, LenProperties
<1>3. Stage(req[r]) = 1 + Len(req[r].owed) /\ Stage(req'[r]) = 1 + Len(Tail(req[r].owed))
  BY <1>1 DEF Stage, At, Credit
<1>4. Stage(req'[r]) < Stage(req[r])
  BY <1>2, <1>3
<1>. QED BY <1>1, <1>4, CreditType, StageLowers DEF Credit, At

(* What a step does to the handler that takes it. *)
LEMMA HandleLowers ==
    ASSUME TypeOK, AttemptsInv, NEW r \in Requests, Handle(r) \/ Arrive(r)
    PROVE  StepsLeft(req'[r]) < StepsLeft(req[r]) /\ req'[r].attempt \in 0..MaxRetries
<1>0. req[r].attempt \in 0..MaxRetries /\ 0 \in 0..MaxRetries
  BY BoundsAssumption DEF AttemptsInv
<1>1. CASE Acquire(r) \/ Arrive(r)
  <2>1. CASE Acquire(r)
    BY <1>0, <2>1, MoveLowers DEF Acquire
  <2>2. CASE Arrive(r)
    BY <1>0, <2>2, MoveLowers DEF Arrive
  <2>. QED BY <1>1, <2>1, <2>2
<1>2. ASSUME NEW wellFormed \in BOOLEAN, Check(r, wellFormed)
      PROVE  StepsLeft(req'[r]) < StepsLeft(req[r]) /\ req'[r].attempt \in 0..MaxRetries
  BY <1>0, <1>2, MoveLowers, OverIsNone DEF Check, At
<1>3. CASE PickOne(r)
  <2>1. Len(<<prefillBackends[decodeIndex' + 1]>>) = 1
    OBVIOUS
  <2>. QED BY <1>3, <2>1, BeginLowers DEF PickOne
<1>4. CASE PickTwo(r)
  <2>1. Len(<<prefillBackends[1], decodeBackends[decodeIndex' + 1]>>) = 2
    OBVIOUS
  <2>. QED BY <1>4, <2>1, BeginLowers DEF PickTwo
<1>5. CASE NoBackends(r) \/ Exhausted(r)
  BY <1>0, <1>5, OverIsNone DEF NoBackends, Exhausted, At
<1>6. CASE Broken(r)
  BY <1>0, <1>6, MoveLowers, OverIsNone DEF Broken, Calling, Calls
<1>7. CASE ErrorBody(r)
  BY <1>0, <1>7, MoveLowers DEF ErrorBody
<1>8. ASSUME NEW inference \in BOOLEAN, AnyBody(r, inference)
      PROVE  StepsLeft(req'[r]) < StepsLeft(req[r]) /\ req'[r].attempt \in 0..MaxRetries
  BY <1>0, <1>8, BodyLowers
<1>9. CASE Credit(r)
  BY <1>0, <1>9, CreditLowers
<1>10. CASE Answer(r)
  BY <1>0, <1>10, OverIsNone DEF Answer, At
<1>. QED BY <1>1, <1>2, <1>3, <1>4, <1>5, <1>6, <1>7, <1>8, <1>9, <1>10 DEF Handle

(* and to the others. *)
LEMMA HandleIsOnesOwn ==
    ASSUME TypeOK, NEW r \in Requests, Handle(r) \/ Arrive(r), NEW q \in Requests, q # r
    PROVE  req'[q] = req[q]
BY DEF Handle, Arrive, Acquire, Check, PickOne, PickTwo, NoBackends, Exhausted, Broken, ErrorBody,
       AnyBody, Credit, Answer, Finish, Begin, TypeOK

RunsDown == \A r \in Requests : req'[r] = req[r] \/ StepsLeft(req'[r]) < StepsLeft(req[r])

LEMMA RunsDownStep ==
    ASSUME TypeOK, AttemptsInv, [Next]_vars
    PROVE  RunsDown /\ AttemptsInv'
<1>1. CASE UNCHANGED req
  BY <1>1 DEF RunsDown, AttemptsInv
<1>2. ASSUME NEW r \in Requests, Handle(r) \/ Arrive(r) PROVE RunsDown /\ AttemptsInv'
  BY <1>2, HandleLowers, HandleIsOnesOwn DEF RunsDown, AttemptsInv
<1>3. ASSUME NEW r \in Requests, ClientLeaves(r) PROVE UNCHANGED req
  BY <1>3 DEF ClientLeaves
<1>4. ASSUME NEW p \in Peers, Gossip(p) \/ Connected(p) \/ Disconnected(p) PROVE UNCHANGED req
  BY <1>4 DEF Gossip, Connected, Disconnected
<1>5. ForceRank \/ ReadPeers \/ (\E list \in inHand : StoreBackends(list)) => UNCHANGED req
  BY DEF ForceRank, ReadPeers, StoreBackends
<1>. QED BY <1>1, <1>2, <1>3, <1>4, <1>5 DEF Next, vars

(* The handler has a step to take now: the guards of Handle, in short. *)
MayMove(r) ==
    \/ At(r, "waiting") /\ sem < Slots
    \/ At(r, "admitted") \/ Calling(r) \/ At(r, "credit")
    \/ At(r, "attempt") /\ req[r].attempt <= MaxRetries

(* A request is over after 5 * MaxRetries + 4 steps at most, whatever      *)
(* backends and clients do and however often the lists change, and while   *)
(* any request is not, one of them may move: requests never all wait for   *)
(* slots that nobody holds (server_proxy.go:276, the loop of retries).     *)
THEOREM RequestsRunDown ==
    Spec => /\ [](\A r \in Requests : StepsLeft(req[r]) \in 0..(5 * MaxRetries + 4))
            /\ [][RunsDown]_vars
            /\ []((\E r \in Requests : req[r].pc \notin {"idle", "done"})
                     => \E r \in Requests : MayMove(r))
<1>. DEFINE Bound == 5 * MaxRetries + 4
            InBound == \A r \in Requests : StepsLeft(req[r]) \in 0..Bound
            IInv == TypeOK /\ SlotInv /\ AttemptsInv /\ InBound
<1>1. MaxRetries \in Nat /\ Slots \in Nat \ {0}
  BY BoundsAssumption
<1>2. Init => IInv
  <2>1. Init => AttemptsInv
    BY <1>1 DEF Init, AttemptsInv, Idle
  <2>2. StepsLeft(Idle) = Bound
    BY <1>1 DEF StepsLeft, Stage, Idle
  <2>3. Init => InBound
    BY <1>1, <2>2 DEF Init
  <2>. QED BY <2>1, <2>3, InitBase
<1>3. IInv /\ [Next]_vars => IInv' /\ RunsDown
  <2>. SUFFICES ASSUME IInv, [Next]_vars PROVE IInv' /\ RunsDown
    OBVIOUS
  <2>1. (TypeOK /\ SlotInv)' /\ RunsDown /\ AttemptsInv'
    BY StepKeepsBase, RunsDownStep
  <2>2. ASSUME NEW r \in Requests PROVE StepsLeft(req'[r]) \in 0..Bound
    <3>1. StepsLeft(req[r]) \in 0..Bound
      OBVIOUS
    <3>2. req'[r] = req[r] \/ StepsLeft(req'[r]) < StepsLeft(req[r])
      BY <2>1 DEF RunsDown
    <3>3. StepsLeft(req'[r]) \in Nat
      <4>1. req'[r] \in Handler /\ req'[r].attempt \in 0..MaxRetries
        BY <2>1 DEF TypeOK, AttemptsInv
      <4>2. Stage(req'[r]) \in Nat
        BY <4>1, StageType
      <4>. QED BY <1>1, <4>1, <4>2 DEF StepsLeft
    <3>. HIDE DEF StepsLeft
    <3>. QED BY <1>1, <3>1, <3>2, <3>3
  <2>. QED BY <2>1, <2>2
<1>4. IInv => ((\E r \in Requests : req[r].pc \notin {"idle", "done"})
                 => \E r \in Requests : MayMove(r))
  <2>. SUFFICES ASSUME IInv, NEW r \in Requests, req[r].pc \notin {"idle", "done"}
                PROVE  \E q \in Requests : MayMove(q)
    OBVIOUS
  <2>1. \A q \in Holders : MayMove(q)
    BY DEF Holders, Inside, MayMove, At, Calling, Calls, AttemptsInv
  <2>2. Holders \subseteq Requests
    BY DEF Holders
  <2>3. CASE Holders # {}
    BY <2>1, <2>2, <2>3
  <2>4. CASE Holders = {}
    <3>1. sem = 0
      BY <2>4, FS_EmptySet DEF SlotInv
    <3>2. req[r].pc = "waiting"
      BY <2>4 DEF Holders, Inside, TypeOK, Handler, Calls
    <3>. QED BY <1>1, <3>1, <3>2 DEF MayMove, At
  <2>. QED BY <2>3, <2>4
<1>. HIDE DEF IInv
<1>5. IInv => InBound
  BY DEF IInv
<1>. QED BY <1>2, <1>3, <1>4, <1>5, PTL DEF Spec
====
