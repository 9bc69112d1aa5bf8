--------------------------- MODULE GatewayProofs ----------------------------
(***************************************************************************)
(* Proofs about LocalGateway, for any set of requests, any finite set of   *)
(* nodes and any topologies: its types, the local slot, the checkers of    *)
(* vLLM, the one answer per request, and the local vLLM as a last resort.  *)
(***************************************************************************)
EXTENDS LocalGateway, FiniteSetTheorems, SequenceTheorems, TLAPS

(* Where a local call leads, call by call. *)
LEMMA Continuations ==
    ASSUME NEW c \in Calls
    PROVE  /\ OnFailure[c] \in {"release", "attempt", "giveup", "pdattempt"}
           /\ OnSuccess[c] \in {"release", "decode", "done"}
           /\ OnFailure[c] = "release" <=> c = "direct"
           /\ OnSuccess[c] = "release" <=> c = "direct"
           /\ OnSuccess[c] = "decode" <=> c = "prefill"
           /\ OnFailure[c] = "pdattempt" => c \in {"prefill", "decode"}
           /\ c \in PCs
<1>1. c \in {"direct", "queue", "last", "prefill", "decode", "none", "pdlast"}
  BY DEF Calls, OnFailure
<1>. QED BY <1>1 DEF OnFailure, OnSuccess, PCs, Calls

-----------------------------------------------------------------------------
(* Types.                                                                  *)

LEMMA IdleType == Idle \in Handler
<1>1. Together \in Topology
  BY DEF Together, Topology
<1>2. "idle" \in PCs /\ "direct" \in Calls
  BY DEF PCs, Calls, OnFailure
<1>. QED BY <1>1, <1>2 DEF Idle, Handler

LEMMA PCsCovered ==
    /\ Calls \subseteq PCs
    /\ {"idle", "entry", "claim", "second", "release", "attempt", "dial", "pdattempt", "sent",
        "mark", "spawn", "giveup", "done", "decode", "prefill", "direct", "queue", "last",
        "none", "pdlast"} \subseteq PCs
BY DEF PCs, Calls, OnFailure

(* Every order in which peers may be listed is a sequence of nodes. *)
LEMMA ListingsAreSequences ==
    ASSUME NEW known \in SUBSET Nodes, NEW list \in Listings(known)
    PROVE  list \in Seq(Nodes)
<1>1. Cardinality(known) \in Nat
  BY NodesAssumption, FS_Subset, FS_CardinalityType
<1>2. list \in [1..Cardinality(known) -> Nodes]
  BY DEF Listings
<1>. QED BY <1>1, <1>2

(* A handler that moves to another point of the code keeps its type. *)
LEMMA GoType ==
    ASSUME TypeOK, NEW r \in Requests, NEW pc \in PCs, Go(r, pc)
    PROVE  req' \in [Requests -> Handler]
<1>. DEFINE h == [req[r] EXCEPT !.pc = pc]
<1>1. req[r] \in Handler
  BY DEF TypeOK
<1>2. h \in Handler
  BY <1>1 DEF Handler
<1>3. req' = [req EXCEPT ![r] = h]
  BY DEF Go
<1>. HIDE DEF h
<1>. QED BY <1>2, <1>3 DEF TypeOK

LEMMA HandlerAnswers ==
    ASSUME NEW h \in Handler, NEW pc \in PCs, NEW n \in Nat
    PROVE  [h EXCEPT !.pc = pc, !.answers = n] \in Handler
BY DEF Handler

LEMMA HandlerTurns ==
    ASSUME NEW h \in Handler, NEW pc \in PCs, NEW n \in Nat, NEW t \in Nodes \cup {Self}
    PROVE  [h EXCEPT !.pc = pc, !.attempt = n, !.target = t, !.tried = h.tried \cup {t}]
               \in Handler
BY DEF Handler

LEMMA AnswerType ==
    ASSUME TypeOK, NEW r \in Requests, NEW pc \in PCs, Answer(r, pc)
    PROVE  req' \in [Requests -> Handler]
<1>. DEFINE n == req[r].answers + 1
            new == IF pc = "done" THEN [Idle EXCEPT !.pc = pc, !.answers = n]
                   ELSE [req[r] EXCEPT !.pc = pc, !.answers = n]
<1>1. req[r] \in Handler /\ n \in Nat
  BY DEF TypeOK, Handler
<1>2. new \in Handler
  BY <1>1, IdleType, HandlerAnswers
<1>3. req' = [req EXCEPT ![r] = new]
  BY DEF Answer
<1>. HIDE DEF new
<1>. QED BY <1>2, <1>3 DEF TypeOK

LEMMA RotateType ==
    ASSUME TypeOK, NEW r \in Requests, NEW pc \in PCs,
           NEW targets \in Seq(Nodes \cup {Self}), targets # <<>>, Rotate(r, targets, pc)
    PROVE  decodeIndex' \in Nat /\ req' \in [Requests -> Handler]
<1>1. Len(targets) \in Nat \ {0}
  BY EmptySeq, LenProperties
<1>2. decodeIndex' \in 0..Len(targets) - 1
  BY <1>1 DEF TypeOK, Rotate
<1>. DEFINE t == targets[decodeIndex' + 1]
            mine == [req[r] EXCEPT !.pc = pc, !.attempt = req[r].attempt + 1,
                                   !.target = t, !.tried = req[r].tried \cup {t}]
            new(q) == IF q # r THEN [req[q] EXCEPT !.alone = FALSE] ELSE mine
<1>3. t \in Nodes \cup {Self}
  BY <1>1, <1>2, ElementOfSeq
<1>4. req' = [q \in Requests |-> new(q)]
  BY DEF Rotate
<1>5. ASSUME NEW q \in Requests PROVE new(q) \in Handler
  <2>1. req[q] \in Handler /\ req[r] \in Handler /\ req[r].attempt + 1 \in Nat
    BY DEF TypeOK, Handler
  <2>2. [req[q] EXCEPT !.alone = FALSE] \in Handler
    BY <2>1 DEF Handler
  <2>. HIDE DEF t
  <2>3. mine \in Handler
    BY <1>3, <2>1, HandlerTurns
  <2>. QED BY <2>2, <2>3
<1>. HIDE DEF new
<1>. QED BY <1>2, <1>4, <1>5

(* Every variable keeps its type. *)
LEMMA TypeInit == Init => TypeOK
<1>1. Together \in Topology /\ Idle \in Handler
  BY IdleType DEF Together, Topology
<1>2. ASSUME Init PROVE req \in [Requests -> Handler]
  BY <1>1, <1>2 DEF Init
<1>3. ASSUME Init PROVE checkers \in Nat
  BY <1>3 DEF Init
<1>4. ASSUME Init PROVE topology \in Topology
  BY <1>1, <1>4 DEF Init
<1>5. ASSUME Init PROVE vllmReady \in BOOLEAN /\ localBusy \in BOOLEAN /\ vllm \in BOOLEAN
  BY <1>5 DEF Init
<1>6. ASSUME Init
      PROVE  /\ cut \in SUBSET Requests /\ gone \in SUBSET Requests /\ deaths \in Nat
             /\ decodeIndex \in Nat /\ verdicts \in Nat
  BY <1>6 DEF Init
<1>. QED BY <1>2, <1>3, <1>4, <1>5, <1>6 DEF TypeOK

LEMMA PickPeerType ==
    ASSUME TypeOK, NEW r \in Requests, PickPeer(r)
    PROVE  TypeOK'
<1>1. req[r].list \in Seq(Nodes) /\ req[r].list # <<>>
  BY DEF TypeOK, Handler, PickPeer, Attempts
<1>2. req[r].list \in Seq(Nodes \cup {Self})
  BY <1>1
<1>3. decodeIndex' \in Nat /\ req' \in [Requests -> Handler]
  BY <1>1, <1>2, RotateType, PCsCovered DEF PickPeer
<1>. QED BY <1>3 DEF TypeOK, PickPeer, localVars, envVars

LEMMA PickPairType ==
    ASSUME TypeOK, NEW r \in Requests, PickPair(r)
    PROVE  TypeOK'
<1>1. req[r].top.decode \in Seq(Nodes \cup {Self})
  BY DEF TypeOK, Handler, Topology
<1>2. CASE req[r].top.prefill = <<>> \/ req[r].top.decode = <<>>
  BY <1>2, GoType, PCsCovered DEF TypeOK, PickPair, localVars, envVars
<1>3. CASE ~(req[r].top.prefill = <<>> \/ req[r].top.decode = <<>>)
  <2>1. decodeIndex' \in Nat /\ req' \in [Requests -> Handler]
    BY <1>1, <1>3, RotateType, PCsCovered DEF PickPair
  <2>. QED BY <2>1 DEF TypeOK, PickPair, localVars, envVars
<1>. QED BY <1>2, <1>3

LEMMA ArriveType ==
    ASSUME TypeOK, NEW r \in Requests, Arrive(r)
    PROVE  TypeOK'
<1>1. req[r] \in Handler /\ topology \in Topology
  BY DEF TypeOK
<1>2. req' \in [Requests -> Handler]
  <2>1. CASE Mode1(topology)
    <3>1. PICK known \in SUBSET Nodes : \E list \in Listings(known) :
              req' = [req EXCEPT ![r].pc = "entry", ![r].top = topology, ![r].list = list,
                                  ![r].alone = TRUE]
      BY <2>1 DEF Arrive
    <3>2. PICK list \in Listings(known) :
              req' = [req EXCEPT ![r].pc = "entry", ![r].top = topology, ![r].list = list,
                                  ![r].alone = TRUE]
      BY <3>1
    <3>3. list \in Seq(Nodes) /\ "entry" \in PCs
      BY ListingsAreSequences, PCsCovered
    <3>4. [req[r] EXCEPT !.pc = "entry", !.top = topology, !.list = list,
                                      !.alone = TRUE] \in Handler
      BY <1>1, <3>3 DEF Handler
    <3>5. req' = [req EXCEPT ![r] =
                     [req[r] EXCEPT !.pc = "entry", !.top = topology, !.list = list,
                                      !.alone = TRUE]]
      BY <3>2 DEF TypeOK
    <3>. QED BY <3>4, <3>5 DEF TypeOK
  <2>2. CASE ~Mode1(topology)
    <3>1. [req[r] EXCEPT !.pc = "pdattempt", !.top = topology] \in Handler
      BY <1>1, PCsCovered DEF Handler
    <3>2. req' = [req EXCEPT ![r] = [req[r] EXCEPT !.pc = "pdattempt", !.top = topology]]
      BY <2>2 DEF Arrive
    <3>. QED BY <3>1, <3>2 DEF TypeOK
  <2>. QED BY <2>1, <2>2
<1>. QED BY <1>2 DEF TypeOK, Arrive, localVars, routeVars, envVars

LEMMA HandleType ==
    ASSUME TypeOK, NEW r \in Requests, Handle(r)
    PROVE  TypeOK'
<1>. USE PCsCovered DEF localVars, routeVars, envVars
<1>1. req[r] \in Handler /\ req[r].call \in Calls /\ req[r].pc \in PCs
  BY DEF TypeOK, Handler
<1>2. \A c \in Calls : OnFailure[c] \in PCs /\ OnSuccess[c] \in PCs
  BY Continuations
<1>3. CASE NotReady(r)
  BY <1>1, <1>2, <1>3, GoType DEF NotReady, CallsLocal, TypeOK
<1>4. CASE Send(r)
  BY <1>1, <1>4 DEF Send, CallsLocal, TypeOK, Handler
<1>5. CASE LocalAnswer(r)
  BY <1>1, <1>2, <1>5, GoType, AnswerType DEF LocalAnswer, TypeOK
<1>6. CASE LocalRefusal(r)
  BY <1>1, <1>2, <1>6, GoType DEF LocalRefusal, TypeOK
<1>6b. CASE LocalBreaksOff(r)
  <2>1. req' \in [Requests -> Handler]
    BY <1>1, <1>2, <1>6b, GoType, AnswerType DEF LocalBreaksOff
  <2>. QED BY <1>6b, <2>1 DEF LocalBreaksOff, TypeOK
<1>7. CASE LocalError(r)
  BY <1>7, GoType DEF LocalError, TypeOK
<1>8. CASE MarkNotReady(r)
  BY <1>8, GoType DEF MarkNotReady, TypeOK
<1>9. CASE SpawnChecker(r)
  BY <1>1, <1>2, <1>9, GoType DEF SpawnChecker, TypeOK
<1>10. CASE Entry(r)
  BY <1>1, <1>10 DEF Entry, TypeOK, Handler
<1>11. CASE Claim(r)
  BY <1>11, GoType DEF Claim, TypeOK
<1>12. CASE Second(r)
  BY <1>12, GoType DEF Second, TypeOK
<1>13. CASE Release(r)
  <2>1. req' \in [Requests -> Handler]
    <3>1. [Idle EXCEPT !.pc = "done", !.answers = req[r].answers] \in Handler
      BY <1>1, IdleType, HandlerAnswers DEF Handler
    <3>2. CASE req[r].answers > 0
      BY <1>13, <3>1, <3>2 DEF Release, TypeOK
    <3>3. CASE ~(req[r].answers > 0)
      BY <1>13, <3>3, GoType DEF Release
    <3>. QED BY <3>2, <3>3
  <2>. QED BY <1>13, <2>1 DEF Release, TypeOK
<1>14. CASE PickPeer(r)
  BY <1>14, PickPeerType
<1>15. CASE Exhausted(r)
  BY <1>15, GoType DEF Exhausted, TypeOK
<1>16. CASE PickPair(r)
  BY <1>16, PickPairType
<1>17. CASE PairsExhausted(r)
  BY <1>17, GoType DEF PairsExhausted, TypeOK
<1>18. CASE PeerAnswers(r)
  BY <1>18, GoType, AnswerType DEF PeerAnswers, TypeOK
<1>19. CASE PeerFails(r)
  BY <1>19, GoType DEF PeerFails, TypeOK
<1>20. CASE GiveUp(r)
  BY <1>20, AnswerType DEF GiveUp, TypeOK
<1>. QED BY <1>3, <1>4, <1>5, <1>6, <1>6b, <1>7, <1>8, <1>9, <1>10, <1>11, <1>12, <1>13,
            <1>14, <1>15, <1>16, <1>17, <1>18, <1>19, <1>20 DEF Handle

LEMMA TypeStep == TypeOK /\ [Next]_vars => TypeOK'
<1>. SUFFICES ASSUME TypeOK, [Next]_vars PROVE TypeOK'
  OBVIOUS
<1>. USE DEF localVars, routeVars, envVars
<1>1. CASE VllmUp
  BY <1>1 DEF VllmUp, TypeOK
<1>2. CASE VllmDies
  <2>1. cut' \subseteq Requests
    BY <1>2 DEF VllmDies, TypeOK
  <2>2. cut' \in SUBSET Requests
    BY <2>1
  <2>3. deaths' \in Nat /\ vllm' = FALSE
    BY <1>2 DEF VllmDies, TypeOK
  <2>4. UNCHANGED <<localVars, routeVars, req, gone>>
    BY <1>2 DEF VllmDies
  <2>. QED BY <2>2, <2>3, <2>4 DEF TypeOK
<1>3. CASE CheckerSees200
  BY <1>3 DEF CheckerSees200, TypeOK
<1>4. CASE CheckerStores
  BY <1>4 DEF CheckerStores, TypeOK
<1>5. CASE SyncTopology
  BY <1>5, TopologiesAssumption DEF SyncTopology, TypeOK
<1>6. ASSUME NEW r \in Requests, ClientLeaves(r) PROVE TypeOK'
  BY <1>6 DEF ClientLeaves, TypeOK
<1>7. ASSUME NEW r \in Requests, Arrive(r) PROVE TypeOK'
  BY <1>7, ArriveType
<1>8. ASSUME NEW r \in Requests, Handle(r) PROVE TypeOK'
  BY <1>8, HandleType
<1>9. CASE UNCHANGED vars
  BY <1>9 DEF vars, TypeOK
<1>10. ASSUME NEW r \in Requests, Reject(r) PROVE TypeOK'
  BY <1>10, AnswerType, PCsCovered DEF Reject, TypeOK
<1>. QED BY <1>1, <1>2, <1>3, <1>4, <1>5, <1>6, <1>7, <1>8, <1>9, <1>10 DEF Next

THEOREM TypeCorrect == Spec => []TypeOK
<1>. QED BY TypeInit, TypeStep, PTL DEF Spec
(* What a request's arrival does to its handler. *)
LEMMA ArriveMoves ==
    ASSUME TypeOK, NEW r \in Requests, Arrive(r)
    PROVE  /\ req'[r].pc \in {"entry", "pdattempt"}
           /\ req'[r].answers = req[r].answers /\ req'[r].sawReady = req[r].sawReady
           /\ req'[r].attempt = req[r].attempt
           /\ req'[r].pc = "pdattempt" => req'[r].list = req[r].list
           /\ \A q \in Requests : q # r => req'[q] = req[q]
<1>1. req[r] \in Handler
  BY DEF TypeOK
<1>2. CASE Mode1(topology)
  <2>1. PICK known \in SUBSET Nodes : \E list \in Listings(known) :
            req' = [req EXCEPT ![r].pc = "entry", ![r].top = topology, ![r].list = list,
                               ![r].alone = TRUE]
    BY <1>2 DEF Arrive
  <2>2. PICK list : req' = [req EXCEPT ![r].pc = "entry", ![r].top = topology,
                                       ![r].list = list, ![r].alone = TRUE]
    BY <2>1
  <2>3. req' = [req EXCEPT ![r] = [req[r] EXCEPT !.pc = "entry", !.top = topology,
                                                 !.list = list, !.alone = TRUE]]
    BY <2>2
  <2>. QED BY <1>1, <2>3 DEF TypeOK, Handler
<1>3. CASE ~Mode1(topology)
  <2>1. req' = [req EXCEPT ![r] = [req[r] EXCEPT !.pc = "pdattempt", !.top = topology]]
    BY <1>3 DEF Arrive
  <2>. QED BY <1>1, <2>1 DEF TypeOK, Handler
<1>. QED BY <1>2, <1>3
-----------------------------------------------------------------------------
(* One answer per request.                                                 *)

(* A request that is neither answered nor giving the slot back has no      *)
(* answer yet: AnsweredOnce made inductive.                                *)
Unanswered ==
    \A r \in Requests : /\ req[r].pc \notin {"release", "done"} => req[r].answers = 0
                        /\ At(r, "release") => req[r].answers <= 1
                        /\ At(r, "done") => req[r].answers = 1

LEMMA AnswersInit == Init => Unanswered
BY DEF Init, Unanswered, At, Idle

LEMMA UnansweredSuffices == TypeOK /\ Unanswered => AnsweredOnce
BY DEF TypeOK, Handler, Unanswered, AnsweredOnce, At

(* A step that leaves every other request's count and place alone only has *)
(* to be right about its own request.                                      *)
LEMMA AnswersGo ==
    ASSUME TypeOK, Unanswered, NEW r \in Requests, NEW pc, Go(r, pc),
           req[r].pc \notin {"release", "done"}, pc # "done"
    PROVE  Unanswered'
BY DEF TypeOK, Handler, Unanswered, Go, At

LEMMA AnswersWritten ==
    ASSUME TypeOK, Unanswered, NEW r \in Requests, NEW pc \in {"release", "done"},
           Answer(r, pc), req[r].pc \notin {"release", "done"}
    PROVE  Unanswered'
<1>1. req[r].answers = 0
  BY DEF Unanswered
<1>2. req'[r].pc = pc /\ req'[r].answers = 1
  BY <1>1 DEF TypeOK, Handler, Answer, Idle
<1>3. \A q \in Requests : q # r => req'[q] = req[q]
  BY DEF TypeOK, Answer
<1>. QED BY <1>2, <1>3 DEF Unanswered, At

LEMMA AnswersTurn ==
    ASSUME TypeOK, Unanswered, NEW r \in Requests, NEW pc \in {"dial", "prefill"},
           NEW targets, Rotate(r, targets, pc), req[r].pc \notin {"release", "done"}
    PROVE  Unanswered'
<1>1. \A q \in Requests : /\ req'[q].answers = req[q].answers
                          /\ q # r => req'[q].pc = req[q].pc
  BY DEF TypeOK, Handler, Rotate
<1>2. req'[r].pc = pc
  BY DEF TypeOK, Handler, Rotate
<1>. QED BY <1>1, <1>2 DEF Unanswered, At

LEMMA HandleAnswers ==
    ASSUME TypeOK, Unanswered, NEW r \in Requests, Handle(r)
    PROVE  Unanswered'
<1>. DEFINE open == req[r].pc \notin {"release", "done"}
<1>1. req[r].pc \in Calls => open
  BY DEF Calls, OnFailure
<1>2. \A c \in Calls : OnFailure[c] # "done"
                      /\ (OnSuccess[c] # "decode" => OnSuccess[c] \in {"release", "done"})
                      /\ (OnSuccess[c] = "decode" <=> c = "prefill")
  BY Continuations
<1>3. req[r].call \in Calls
  BY DEF TypeOK, Handler
<1>4. CASE NotReady(r)
  BY <1>1, <1>2, <1>4, AnswersGo DEF NotReady, CallsLocal
<1>5. CASE Send(r)
  BY <1>1, <1>5 DEF Send, CallsLocal, TypeOK, Handler, Unanswered, At
<1>6. CASE LocalAnswer(r)
  <2>1. CASE req[r].call = "prefill"
    BY <1>6, <2>1, AnswersGo DEF LocalAnswer, At
  <2>2. CASE req[r].call # "prefill"
    BY <1>2, <1>3, <1>6, <2>2, AnswersWritten DEF LocalAnswer, At
  <2>. QED BY <2>1, <2>2
<1>7. CASE LocalRefusal(r)
  BY <1>2, <1>3, <1>7, AnswersGo DEF LocalRefusal, At
<1>7b. CASE LocalBreaksOff(r)
  <2>1. CASE req[r].call \in Buffered
    BY <1>2, <1>3, <1>7b, <2>1, AnswersGo DEF LocalBreaksOff, At
  <2>2. CASE req[r].call \notin Buffered
    <3>1. req[r].call # "prefill"
      BY <2>2 DEF Buffered
    <3>. QED BY <1>2, <1>3, <1>7b, <2>2, <3>1, AnswersWritten DEF LocalBreaksOff, At
  <2>. QED BY <2>1, <2>2
<1>8. CASE LocalError(r)
  BY <1>8, AnswersGo DEF LocalError, At
<1>9. CASE MarkNotReady(r)
  BY <1>9, AnswersGo DEF MarkNotReady, At
<1>10. CASE SpawnChecker(r)
  BY <1>2, <1>3, <1>10, AnswersGo DEF SpawnChecker, At
<1>11. CASE Entry(r)
  BY <1>11 DEF Entry, TypeOK, Handler, Unanswered, At
<1>12. CASE Claim(r)
  BY <1>12, AnswersGo DEF Claim, At
<1>13. CASE Second(r)
  BY <1>13, AnswersGo DEF Second, At
<1>14. CASE Release(r)
  <2>1. req[r].answers \in {0, 1}
    BY <1>14 DEF Release, TypeOK, Handler, Unanswered, At
  <2>2. CASE req[r].answers = 1
    <3>1. req' = [req EXCEPT ![r] = [Idle EXCEPT !.pc = "done", !.answers = 1]]
      BY <1>14, <2>2 DEF Release
    <3>2. req'[r].pc = "done" /\ req'[r].answers = 1
      BY <3>1 DEF TypeOK, Idle
    <3>3. \A q \in Requests : q # r => req'[q] = req[q]
      BY <3>1 DEF TypeOK
    <3>. QED BY <3>2, <3>3 DEF Unanswered, At
  <2>3. CASE req[r].answers = 0
    <3>1. Go(r, "attempt")
      BY <1>14, <2>3 DEF Release
    <3>2. req'[r].pc = "attempt" /\ req'[r].answers = 0
      BY <2>3, <3>1 DEF TypeOK, Handler, Go
    <3>3. \A q \in Requests : q # r => req'[q] = req[q]
      BY <3>1 DEF TypeOK, Go
    <3>. QED BY <3>2, <3>3 DEF Unanswered, At
  <2>. QED BY <2>1, <2>2, <2>3
<1>15. CASE PickPeer(r)
  BY <1>15, AnswersTurn DEF PickPeer, At
<1>16. CASE Exhausted(r)
  BY <1>16, AnswersGo DEF Exhausted, At
<1>17. CASE PickPair(r)
  <2>1. CASE Go(r, "none")
    BY <1>17, <2>1, AnswersGo DEF PickPair, At
  <2>2. CASE Rotate(r, req[r].top.decode, "prefill")
    BY <1>17, <2>2, AnswersTurn DEF PickPair, At
  <2>. QED BY <1>17, <2>1, <2>2 DEF PickPair
<1>18. CASE PairsExhausted(r)
  BY <1>18, AnswersGo DEF PairsExhausted, At
<1>19. CASE PeerAnswers(r)
  <2>1. open
    BY <1>19 DEF PeerAnswers, CallsPeer, At
  <2>. QED BY <1>19, <2>1, AnswersGo, AnswersWritten DEF PeerAnswers
<1>20. CASE PeerFails(r)
  BY <1>20, AnswersGo DEF PeerFails, CallsPeer, At
<1>21. CASE GiveUp(r)
  BY <1>21, AnswersWritten DEF GiveUp, At
<1>. QED BY <1>4, <1>5, <1>6, <1>7, <1>7b, <1>8, <1>9, <1>10, <1>11, <1>12, <1>13, <1>14,
            <1>15, <1>16, <1>17, <1>18, <1>19, <1>20, <1>21 DEF Handle

LEMMA AnswersStep == TypeOK /\ Unanswered /\ [Next]_vars => Unanswered'
<1>. SUFFICES ASSUME TypeOK, Unanswered, [Next]_vars PROVE Unanswered'
  OBVIOUS
<1>1. CASE UNCHANGED req
  BY <1>1 DEF Unanswered, At
<1>2. ASSUME NEW r \in Requests, Arrive(r) PROVE Unanswered'
  <2>. QED BY <1>2, ArriveMoves DEF Arrive, Unanswered, At
<1>3. ASSUME NEW r \in Requests, Handle(r) PROVE Unanswered'
  BY <1>3, HandleAnswers
<1>4. ASSUME NEW r \in Requests, ClientLeaves(r) PROVE UNCHANGED req
  BY <1>4 DEF ClientLeaves
<1>5. ASSUME NEW r \in Requests, Reject(r) PROVE Unanswered'
  BY <1>5, AnswersWritten DEF Reject, At
<1>. QED BY <1>1, <1>2, <1>3, <1>4, <1>5
         DEF Next, VllmUp, VllmDies, CheckerSees200, CheckerStores, SyncTopology, vars

(* A request is answered at most once, and no handler returns unanswered.  *)
THEOREM AnsweredExactlyOnce == Spec => []AnsweredOnce
<1>1. Init => TypeOK /\ Unanswered
  BY TypeInit, AnswersInit
<1>2. TypeOK /\ Unanswered /\ [Next]_vars => (TypeOK /\ Unanswered)'
  BY TypeStep, AnswersStep
<1>3. TypeOK /\ Unanswered => AnsweredOnce
  BY UnansweredSuffices
<1>. QED BY <1>1, <1>2, <1>3, PTL DEF Spec
-----------------------------------------------------------------------------
(* The local slot.                                                         *)

LEMMA SlotKept ==
    ASSUME SlotHeldByOne, \A q \in Requests : Holds(q)' <=> Holds(q), UNCHANGED localBusy
    PROVE  SlotHeldByOne'
BY DEF SlotHeldByOne

(* A handler that holds nothing and moves to where it holds nothing. *)
LEMMA SlotGo ==
    ASSUME TypeOK, SlotHeldByOne, NEW r \in Requests, NEW pc, Go(r, pc), UNCHANGED localBusy,
           ~Holds(r), pc \notin {"direct", "release", "sent", "mark", "spawn"}
    PROVE  SlotHeldByOne'
<1>1. req'[r].pc = pc /\ \A q \in Requests : q # r => req'[q] = req[q]
  BY DEF Go, TypeOK, Handler
<1>2. \A q \in Requests : Holds(q)' <=> Holds(q)
  BY <1>1 DEF Holds
<1>. QED BY <1>2, SlotKept

(* A handler in a local call moves on within it, or lets go of it. *)
LEMMA SlotCall ==
    ASSUME TypeOK, SlotHeldByOne, NEW r \in Requests, NEW pc, UNCHANGED localBusy,
           req'[r].pc = pc, req'[r].call = req[r].call,
           \A q \in Requests : q # r => req'[q] = req[q],
           req[r].pc \in {"sent", "mark", "spawn"},
           \/ pc \in {"sent", "mark", "spawn"}
           \/ pc = "release" /\ req[r].call = "direct"
           \/ pc \notin {"direct", "release"} /\ req[r].call # "direct"
    PROVE  SlotHeldByOne'
<1>1. \A q \in Requests : Holds(q)' <=> Holds(q)
  BY DEF Holds
<1>. QED BY <1>1, SlotKept

LEMMA SlotAnswer ==
    ASSUME TypeOK, SlotHeldByOne, NEW r \in Requests, ~Holds(r), Answer(r, "done"),
           UNCHANGED localBusy
    PROVE  SlotHeldByOne'
<1>1. req'[r].pc = "done" /\ \A q \in Requests : q # r => req'[q] = req[q]
  BY DEF Answer, TypeOK, Handler, Idle
<1>2. \A q \in Requests : Holds(q)' <=> Holds(q)
  BY <1>1 DEF Holds
<1>. QED BY <1>2, SlotKept

LEMMA SlotTurn ==
    ASSUME TypeOK, SlotHeldByOne, NEW r \in Requests, ~Holds(r), UNCHANGED localBusy,
           NEW targets, NEW pc \in {"dial", "prefill"}, Rotate(r, targets, pc)
    PROVE  SlotHeldByOne'
<1>1. req'[r].pc = pc /\ \A q \in Requests : q # r => /\ req'[q].pc = req[q].pc
                                                      /\ req'[q].call = req[q].call
  BY DEF Rotate, TypeOK, Handler
<1>2. \A q \in Requests : Holds(q)' <=> Holds(q)
  BY <1>1 DEF Holds
<1>. QED BY <1>2, SlotKept

LEMMA HandleSlot ==
    ASSUME TypeOK, SlotHeldByOne, NEW r \in Requests, Handle(r)
    PROVE  SlotHeldByOne'
<1>. USE DEF localVars, routeVars
<1>1. \A c \in Calls : /\ OnFailure[c] \in {"release", "attempt", "giveup", "pdattempt"}
                       /\ OnSuccess[c] \in {"release", "decode", "done"}
                       /\ OnFailure[c] = "release" <=> c = "direct"
                       /\ OnSuccess[c] = "release" <=> c = "direct"
                       /\ OnSuccess[c] = "decode" <=> c = "prefill"
  BY Continuations
<1>2. req[r].call \in Calls
  BY DEF TypeOK, Handler
<1>3. CASE NotReady(r)
  <2>1. Go(r, OnFailure[req[r].pc]) /\ req[r].pc \in Calls /\ UNCHANGED localBusy
    BY <1>3 DEF NotReady, CallsLocal
  <2>2. CASE req[r].pc = "direct"
    <3>1. req'[r].pc = "release" /\ \A q \in Requests : q # r => req'[q] = req[q]
      BY <1>1, <2>1, <2>2 DEF Go, TypeOK, Handler
    <3>2. \A q \in Requests : Holds(q)' <=> Holds(q)
      BY <2>2, <3>1 DEF Holds
    <3>. QED BY <2>1, <3>2, SlotKept
  <2>3. CASE req[r].pc # "direct"
    <3>1. ~Holds(r)
      BY <2>1, <2>3 DEF Holds, Calls, OnFailure
    <3>. QED BY <1>1, <2>1, <2>3, <3>1, SlotGo
  <2>. QED BY <2>2, <2>3
<1>4. CASE Send(r)
  <2>1. /\ req'[r].pc = "sent" /\ req'[r].call = req[r].pc
        /\ \A q \in Requests : q # r => req'[q] = req[q]
    BY <1>4 DEF Send, TypeOK, Handler
  <2>2. req[r].pc \in Calls
    BY <1>4 DEF Send, CallsLocal
  <2>3. \A q \in Requests : Holds(q)' <=> Holds(q)
    BY <2>1, <2>2 DEF Holds, Calls, OnFailure
  <2>. QED BY <1>4, <2>3, SlotKept DEF Send
<1>5. CASE LocalAnswer(r)
  <2>. DEFINE pc == IF req[r].call = "prefill" THEN "decode" ELSE OnSuccess[req[r].call]
  <2>1. At(r, "sent") /\ UNCHANGED localBusy
    BY <1>5 DEF LocalAnswer
  <2>2. CASE req[r].call = "prefill"
    <3>1. Go(r, "decode")
      BY <1>5, <2>2 DEF LocalAnswer
    <3>. QED BY <2>1, <2>2, <3>1, SlotGo DEF Holds, At
  <2>3. CASE req[r].call = "direct"
    <3>1. Answer(r, "release")
      BY <1>1, <1>2, <1>5, <2>3 DEF LocalAnswer
    <3>2. /\ req'[r].pc = "release" /\ req'[r].call = req[r].call
          /\ \A q \in Requests : q # r => req'[q] = req[q]
      BY <3>1 DEF Answer, TypeOK, Handler
    <3>. QED BY <2>1, <2>3, <3>2, SlotCall DEF At
  <2>4. CASE req[r].call \notin {"prefill", "direct"}
    <3>1. Answer(r, "done")
      BY <1>1, <1>2, <1>5, <2>4 DEF LocalAnswer
    <3>. QED BY <2>1, <2>4, <3>1, SlotAnswer DEF Holds, At
  <2>. QED BY <2>2, <2>3, <2>4
<1>6. CASE LocalRefusal(r)
  <2>1. ~Holds(r)
    BY <1>6 DEF LocalRefusal, Holds, At
  <2>. QED BY <1>1, <1>2, <1>6, <2>1, SlotGo DEF LocalRefusal
<1>6b. CASE LocalBreaksOff(r)
  <2>1. At(r, "sent") /\ UNCHANGED localBusy
    BY <1>6b DEF LocalBreaksOff
  <2>2. CASE req[r].call \in Buffered
    <3>1. ~Holds(r) /\ req[r].call # "direct" /\ Go(r, OnFailure[req[r].call])
      BY <1>6b, <2>1, <2>2 DEF LocalBreaksOff, Buffered, Holds, At
    <3>. QED BY <1>1, <1>2, <2>1, <3>1, SlotGo
  <2>3. CASE req[r].call = "direct"
    <3>1. Answer(r, "release")
      BY <1>1, <1>2, <1>6b, <2>3 DEF LocalBreaksOff, Buffered
    <3>2. /\ req'[r].pc = "release" /\ req'[r].call = req[r].call
          /\ \A q \in Requests : q # r => req'[q] = req[q]
      BY <3>1 DEF Answer, TypeOK, Handler
    <3>. QED BY <2>1, <2>3, <3>2, SlotCall DEF At
  <2>4. CASE req[r].call \notin Buffered \cup {"direct"}
    <3>1. Answer(r, "done")
      BY <1>1, <1>2, <1>6b, <2>4 DEF LocalBreaksOff, Buffered
    <3>. QED BY <2>1, <2>4, <3>1, SlotAnswer DEF Holds, At
  <2>. QED BY <2>2, <2>3, <2>4
<1>7. CASE LocalError(r)
  <2>1. /\ req'[r].pc = "mark" /\ req'[r].call = req[r].call
        /\ \A q \in Requests : q # r => req'[q] = req[q]
    BY <1>7 DEF LocalError, Go, TypeOK, Handler
  <2>. QED BY <1>7, <2>1, SlotCall DEF LocalError, At
<1>8. CASE MarkNotReady(r)
  <2>1. /\ req'[r].pc = "spawn" /\ req'[r].call = req[r].call
        /\ \A q \in Requests : q # r => req'[q] = req[q]
    BY <1>8 DEF MarkNotReady, Go, TypeOK, Handler
  <2>. QED BY <1>8, <2>1, SlotCall DEF MarkNotReady, At
<1>9. CASE SpawnChecker(r)
  <2>1. /\ req'[r].pc = OnFailure[req[r].call] /\ req'[r].call = req[r].call
        /\ \A q \in Requests : q # r => req'[q] = req[q]
    BY <1>9 DEF SpawnChecker, Go, TypeOK, Handler
  <2>. QED BY <1>1, <1>2, <1>9, <2>1, SlotCall DEF SpawnChecker, At
<1>10. CASE Entry(r)
  <2>1. /\ req'[r].pc \in {"claim", "second"}
        /\ \A q \in Requests : q # r => req'[q] = req[q]
    BY <1>10 DEF Entry, TypeOK, Handler
  <2>2. \A q \in Requests : Holds(q)' <=> Holds(q)
    BY <1>10, <2>1 DEF Entry, Holds, At
  <2>. QED BY <1>10, <2>2, SlotKept DEF Entry
<1>11. CASE Claim(r)
  <2>1. ~Holds(r)
    BY <1>11 DEF Claim, Holds, At
  <2>2. CASE localBusy
    BY <1>11, <2>1, <2>2, SlotGo DEF Claim
  <2>3. CASE ~localBusy
    <3>1. \A q \in Requests : ~Holds(q)
      BY <2>3 DEF SlotHeldByOne
    <3>2. /\ req'[r].pc = "direct" /\ \A q \in Requests : q # r => req'[q] = req[q]
      BY <1>11, <2>3 DEF Claim, Go, TypeOK, Handler
    <3>3. localBusy' /\ Holds(r)' /\ \A q \in Requests : Holds(q)' => q = r
      BY <1>11, <3>1, <3>2 DEF Claim, Holds
    <3>. QED BY <3>3 DEF SlotHeldByOne
  <2>. QED BY <2>2, <2>3 DEF TypeOK
<1>12. CASE Second(r)
  <2>1. ~Holds(r)
    BY <1>12 DEF Second, Holds, At
  <2>. QED BY <1>12, <2>1, SlotGo DEF Second
<1>13. CASE Release(r)
  <2>1. \A q \in Requests : q # r => ~Holds(q)
    BY <1>13 DEF Release, At, Holds, SlotHeldByOne
  <2>2. req'[r].pc \in {"done", "attempt"} /\ \A q \in Requests : q # r => req'[q] = req[q]
    <3>1. CASE req[r].answers > 0
      <4>1. req' = [req EXCEPT ![r] = [Idle EXCEPT !.pc = "done", !.answers = req[r].answers]]
        BY <1>13, <3>1 DEF Release
      <4>. QED BY <4>1 DEF TypeOK, Idle
    <3>2. CASE ~(req[r].answers > 0)
      <4>1. Go(r, "attempt")
        BY <1>13, <3>2 DEF Release
      <4>. QED BY <4>1 DEF Go, TypeOK, Handler
    <3>. QED BY <3>1, <3>2
  <2>3. \A q \in Requests : ~Holds(q)'
    BY <2>1, <2>2 DEF Holds
  <2>. QED BY <1>13, <2>3 DEF Release, SlotHeldByOne
<1>14. CASE PickPeer(r)
  BY <1>14, SlotTurn DEF PickPeer, Holds, At
<1>15. CASE Exhausted(r)
  BY <1>15, SlotGo DEF Exhausted, Holds, At
<1>16. CASE PickPair(r)
  <2>1. ~Holds(r) /\ UNCHANGED localBusy
    BY <1>16 DEF PickPair, Holds, At
  <2>. QED BY <1>16, <2>1, SlotGo, SlotTurn DEF PickPair
<1>17. CASE PairsExhausted(r)
  BY <1>17, SlotGo DEF PairsExhausted, Holds, At
<1>18. CASE PeerAnswers(r)
  <2>1. ~Holds(r) /\ UNCHANGED localBusy
    BY <1>18 DEF PeerAnswers, CallsPeer, Holds, At
  <2>. QED BY <1>18, <2>1, SlotGo, SlotAnswer DEF PeerAnswers
<1>19. CASE PeerFails(r)
  <2>1. ~Holds(r) /\ UNCHANGED localBusy
    BY <1>19 DEF PeerFails, CallsPeer, Holds, At
  <2>. QED BY <1>19, <2>1, SlotGo DEF PeerFails
<1>20. CASE GiveUp(r)
  BY <1>20, SlotAnswer DEF GiveUp, Holds, At
<1>. QED BY <1>3, <1>4, <1>5, <1>6, <1>6b, <1>7, <1>8, <1>9, <1>10, <1>11, <1>12, <1>13,
            <1>14, <1>15, <1>16, <1>17, <1>18, <1>19, <1>20 DEF Handle

LEMMA SlotStep == TypeOK /\ SlotHeldByOne /\ [Next]_vars => SlotHeldByOne'
<1>. SUFFICES ASSUME TypeOK, SlotHeldByOne, [Next]_vars PROVE SlotHeldByOne'
  OBVIOUS
<1>1. CASE UNCHANGED <<req, localBusy>>
  BY <1>1 DEF SlotHeldByOne, Holds
<1>2. ASSUME NEW r \in Requests, Arrive(r) PROVE SlotHeldByOne'
  <2>1. req'[r].pc \in {"entry", "pdattempt"} /\ \A q \in Requests : q # r => req'[q] = req[q]
    BY <1>2, ArriveMoves
  <2>2. \A q \in Requests : Holds(q)' <=> Holds(q)
    BY <1>2, <2>1 DEF Arrive, At, Holds
  <2>. QED BY <1>2, <2>2, SlotKept DEF Arrive, localVars
<1>3. ASSUME NEW r \in Requests, Handle(r) PROVE SlotHeldByOne'
  BY <1>3, HandleSlot
<1>4. ASSUME NEW r \in Requests, ClientLeaves(r) PROVE UNCHANGED <<req, localBusy>>
  BY <1>4 DEF ClientLeaves, localVars
<1>5. ASSUME NEW r \in Requests, Reject(r) PROVE SlotHeldByOne'
  BY <1>5, SlotAnswer DEF Reject, Holds, At, localVars
<1>. QED BY <1>1, <1>2, <1>3, <1>4, <1>5
         DEF Next, VllmUp, VllmDies, CheckerSees200, CheckerStores, SyncTopology, vars, localVars

(* The local vLLM serves one direct request at a time, and its slot is     *)
(* taken exactly while one is being served.                                *)
THEOREM SlotExclusive == Spec => []SlotHeldByOne
<1>1. Init => TypeOK /\ SlotHeldByOne
  BY TypeInit DEF Init, SlotHeldByOne, Holds, Idle
<1>2. TypeOK /\ SlotHeldByOne /\ [Next]_vars => (TypeOK /\ SlotHeldByOne)'
  BY TypeStep, SlotStep
<1>. QED BY <1>1, <1>2, PTL DEF Spec
-----------------------------------------------------------------------------
(* The checkers of vLLM.                                                   *)

LEMMA HandleRechecked ==
    ASSUME TypeOK, AlwaysRechecked, NEW r \in Requests, Handle(r)
    PROVE  AlwaysRechecked'
<1>. USE DEF localVars
<1>1. CASE MarkNotReady(r)
  <2>1. req'[r].pc = "spawn"
    BY <1>1 DEF MarkNotReady, Go, TypeOK, Handler
  <2>. QED BY <2>1 DEF AlwaysRechecked, At
<1>2. CASE SpawnChecker(r)
  <2>1. checkers' + verdicts' > 0
    BY <1>2 DEF SpawnChecker, TypeOK
  <2>. QED BY <2>1 DEF AlwaysRechecked
<1>3. CASE ~MarkNotReady(r) /\ ~SpawnChecker(r)
  <2>1. UNCHANGED <<vllmReady, checkers, verdicts>>
    BY <1>3 DEF Handle, NotReady, Send, LocalAnswer, LocalRefusal, LocalBreaksOff,
                LocalError, Entry, Claim, Second, Release, PickPeer, Exhausted, PickPair, PairsExhausted, PeerAnswers,
                PeerFails, GiveUp
  <2>2. ~At(r, "spawn")
    BY <1>3 DEF Handle, NotReady, Send, LocalAnswer, LocalRefusal, LocalBreaksOff,
                LocalError, Entry, Claim, Second, Release, PickPeer, Exhausted, PickPair, PairsExhausted, PeerAnswers,
                PeerFails, GiveUp, CallsLocal, CallsPeer, At, Calls, OnFailure
  <2>3. \A q \in Requests : q # r => req'[q].pc = req[q].pc
    BY <1>3 DEF Handle, NotReady, Send, LocalAnswer, LocalRefusal, LocalBreaksOff,
                LocalError, Entry, Claim, Second, Release, PickPeer, Exhausted, PickPair, PairsExhausted, PeerAnswers,
                PeerFails, GiveUp, Go, Answer, Rotate, TypeOK, Handler
  <2>. QED BY <2>1, <2>2, <2>3 DEF AlwaysRechecked, At
<1>. QED BY <1>1, <1>2, <1>3

LEMMA RecheckedStep == TypeOK /\ AlwaysRechecked /\ [Next]_vars => AlwaysRechecked'
<1>. SUFFICES ASSUME TypeOK, AlwaysRechecked, [Next]_vars PROVE AlwaysRechecked'
  OBVIOUS
<1>. USE DEF localVars, AlwaysRechecked, At
<1>1. CASE VllmUp \/ VllmDies \/ SyncTopology \/ UNCHANGED vars
  BY <1>1 DEF VllmUp, VllmDies, SyncTopology, vars
<1>2. CASE CheckerSees200
  BY <1>2 DEF CheckerSees200, TypeOK
<1>3. CASE CheckerStores
  BY <1>3 DEF CheckerStores
<1>4. ASSUME NEW r \in Requests, Arrive(r) PROVE AlwaysRechecked'
  <2>1. \A q \in Requests : req[q].pc = "spawn" => req'[q].pc = "spawn"
    BY <1>4, ArriveMoves DEF Arrive, At
  <2>. QED BY <1>4, <2>1 DEF Arrive
<1>5. ASSUME NEW r \in Requests, ClientLeaves(r) PROVE AlwaysRechecked'
  BY <1>5 DEF ClientLeaves
<1>6. ASSUME NEW r \in Requests, Handle(r) PROVE AlwaysRechecked'
  BY <1>6, HandleRechecked
<1>7. ASSUME NEW r \in Requests, Reject(r) PROVE AlwaysRechecked'
  <2>1. \A q \in Requests : req[q].pc = "spawn" => req'[q].pc = "spawn"
    BY <1>7 DEF Reject, Answer, TypeOK, Handler
  <2>. QED BY <1>7, <2>1 DEF Reject
<1>. QED BY <1>1, <1>2, <1>3, <1>4, <1>5, <1>6, <1>7 DEF Next

(* Whenever vLLM is distrusted somebody will poll it again.                *)
THEOREM DistrustIsRechecked == Spec => []AlwaysRechecked
<1>1. Init => TypeOK /\ AlwaysRechecked
  BY TypeInit DEF Init, AlwaysRechecked
<1>2. TypeOK /\ AlwaysRechecked /\ [Next]_vars => (TypeOK /\ AlwaysRechecked)'
  BY TypeStep, RecheckedStep
<1>. QED BY <1>1, <1>2, PTL DEF Spec
-----------------------------------------------------------------------------
(* The local vLLM as a last resort.                                        *)

(* As long as vLLM has not died and no client has left, trust in it is     *)
(* deserved and nobody withdraws it; a request that found it ready is on   *)
(* the Mode 1 path, and whatever call it has under way is one of that path.*)
Peaceful == deaths = 0 /\ gone = {}

Trusting(r) ==
    /\ req[r].pc \notin {"mark", "spawn"}
    /\ At(r, "sent") => vllm
    /\ req[r].sawReady =>
           /\ vllmReady
           /\ req[r].pc \in {"claim", "second", "direct", "queue", "last", "release",
                             "attempt", "dial", "sent"}
           /\ At(r, "sent") => req[r].call \in {"direct", "queue", "last"}

TrustDeserved ==
    Peaceful => /\ cut = {}
                /\ verdicts > 0 \/ vllmReady => vllm
                /\ \A r \in Requests : Trusting(r)

LEMMA TrustSuffices == TrustDeserved => ServedWhileReady
BY DEF TrustDeserved, Peaceful, Trusting, ServedWhileReady, At

(* A handler's step keeps the trust if it does so for its own request.     *)
LEMMA TrustKept ==
    ASSUME TypeOK, TrustDeserved, NEW r \in Requests, UNCHANGED <<localVars, envVars>>,
           \A q \in Requests : q # r => /\ req'[q].pc = req[q].pc
                                       /\ req'[q].call = req[q].call
                                       /\ req'[q].sawReady = req[q].sawReady,
           Peaceful => Trusting(r)'
    PROVE  TrustDeserved'
<1>1. Peaceful' => Peaceful
  BY DEF Peaceful, envVars
<1>2. ASSUME Peaceful, NEW q \in Requests, q # r PROVE Trusting(q)'
  BY <1>2 DEF TrustDeserved, Trusting, At, localVars, envVars
<1>. QED BY <1>1, <1>2 DEF TrustDeserved, localVars, envVars

LEMMA TrustGo ==
    ASSUME TypeOK, NEW r \in Requests, NEW pc, Go(r, pc)
    PROVE  /\ req'[r].pc = pc /\ req'[r].sawReady = req[r].sawReady /\ req'[r].call = req[r].call
           /\ \A q \in Requests : q # r => req'[q] = req[q]
BY DEF TypeOK, Handler, Go

LEMMA TrustAnswer ==
    ASSUME TypeOK, NEW r \in Requests, NEW pc, Answer(r, pc)
    PROVE  /\ req'[r].pc = pc
           /\ IF pc = "done" THEN ~req'[r].sawReady
              ELSE req'[r].sawReady = req[r].sawReady /\ req'[r].call = req[r].call
           /\ \A q \in Requests : q # r => req'[q] = req[q]
BY DEF TypeOK, Handler, Answer, Idle

LEMMA TrustTurn ==
    ASSUME TypeOK, NEW r \in Requests, NEW pc, NEW targets, Rotate(r, targets, pc)
    PROVE  /\ req'[r].pc = pc /\ req'[r].sawReady = req[r].sawReady
           /\ \A q \in Requests : q # r => /\ req'[q].pc = req[q].pc
                                          /\ req'[q].call = req[q].call
                                          /\ req'[q].sawReady = req[q].sawReady
BY DEF TypeOK, Handler, Rotate

LEMMA HandleTrust ==
    ASSUME TypeOK, TrustDeserved, NEW r \in Requests, Handle(r)
    PROVE  TrustDeserved'
<1>. USE DEF localVars, envVars
<1>1. \A c \in Calls : /\ OnFailure[c] \in {"release", "attempt", "giveup", "pdattempt"}
                       /\ OnSuccess[c] \in {"release", "decode", "done"}
                       /\ OnFailure[c] = "release" <=> c = "direct"
                       /\ OnSuccess[c] = "release" <=> c = "direct"
                       /\ OnSuccess[c] = "decode" <=> c = "prefill"
  BY Continuations
<1>2. req[r].call \in Calls
  BY DEF TypeOK, Handler
<1>3. Peaceful => Trusting(r) /\ cut = {} /\ (verdicts > 0 \/ vllmReady => vllm)
  BY DEF TrustDeserved
<1>4. Peaceful' <=> deaths' = 0 /\ gone' = {}
  BY DEF Peaceful
<1>5. CASE NotReady(r)
  <2>1. Go(r, OnFailure[req[r].pc]) /\ req[r].pc \in Calls /\ ~vllmReady
        /\ UNCHANGED <<localVars, envVars>>
    BY <1>5 DEF NotReady, CallsLocal
  <2>2. Peaceful => Trusting(r)'
    BY <1>1, <1>3, <2>1, TrustGo DEF Trusting, At
  <2>. QED BY <2>1, <2>2, TrustKept, TrustGo
<1>6. CASE Send(r)
  <2>1. /\ req'[r].pc = "sent" /\ req'[r].call = req[r].pc /\ req'[r].sawReady = req[r].sawReady
        /\ \A q \in Requests : q # r => req'[q] = req[q]
    BY <1>6 DEF Send, TypeOK, Handler
  <2>2. vllmReady /\ req[r].pc \in Calls /\ UNCHANGED <<localVars, envVars>>
    BY <1>6 DEF Send, CallsLocal
  <2>3. Peaceful => Trusting(r)'
    BY <1>3, <2>1, <2>2 DEF Trusting, At, Calls, OnFailure
  <2>. QED BY <2>1, <2>2, <2>3, TrustKept
<1>7. CASE LocalAnswer(r)
  <2>1. At(r, "sent") /\ vllm /\ UNCHANGED <<localVars, envVars>>
    BY <1>7 DEF LocalAnswer
  <2>2. CASE req[r].call = "prefill"
    <3>1. Go(r, "decode")
      BY <1>7, <2>2 DEF LocalAnswer
    <3>2. Peaceful => Trusting(r)'
      BY <1>3, <2>1, <2>2, <3>1, TrustGo DEF Trusting, At
    <3>. QED BY <2>1, <3>1, <3>2, TrustKept, TrustGo
  <2>3. CASE req[r].call # "prefill"
    <3>1. PICK pc \in {"release", "done"} : Answer(r, pc)
      BY <1>1, <1>2, <1>7, <2>3 DEF LocalAnswer
    <3>2. Peaceful => Trusting(r)'
      BY <1>3, <2>1, <3>1, TrustAnswer DEF Trusting, At
    <3>. QED BY <2>1, <3>1, <3>2, TrustKept, TrustAnswer
  <2>. QED BY <2>2, <2>3
<1>8. CASE LocalRefusal(r)
  <2>1. /\ At(r, "sent") /\ req[r].call \in {"prefill", "none", "pdlast"}
        /\ Go(r, OnFailure[req[r].call]) /\ UNCHANGED <<localVars, envVars>>
    BY <1>8 DEF LocalRefusal
  <2>2. Peaceful => Trusting(r)'
    BY <1>1, <1>2, <1>3, <2>1, TrustGo DEF Trusting, At
  <2>. QED BY <2>1, <2>2, TrustKept, TrustGo
<1>8b. CASE LocalBreaksOff(r)
  <2>1. At(r, "sent") /\ UNCHANGED <<localVars, vllm, gone, deaths>> /\ cut' = cut \ {r}
    BY <1>8b DEF LocalBreaksOff
  <2>2. CASE ~Peaceful
    BY <1>4, <2>1, <2>2 DEF TrustDeserved, Peaceful
  <2>3. CASE Peaceful
    <3>1. UNCHANGED <<localVars, envVars>>
      BY <1>3, <2>1, <2>3
    <3>2. CASE req[r].call \in Buffered
      <4>1. Go(r, OnFailure[req[r].call])
        BY <1>8b, <3>2 DEF LocalBreaksOff
      <4>2. ~req[r].sawReady
        BY <1>3, <2>1, <2>3, <3>2 DEF Trusting, Buffered
      <4>3. Trusting(r)'
        BY <1>1, <1>2, <4>1, <4>2, TrustGo DEF Trusting, At
      <4>. QED BY <3>1, <4>1, <4>3, TrustKept, TrustGo
    <3>3. CASE req[r].call \notin Buffered
      <4>1. PICK pc \in {"release", "done"} : Answer(r, pc)
        BY <1>1, <1>2, <1>8b, <3>3 DEF LocalBreaksOff, Buffered
      <4>2. Trusting(r)'
        BY <1>3, <2>1, <2>3, <4>1, TrustAnswer DEF Trusting, At
      <4>. QED BY <3>1, <4>1, <4>2, TrustKept, TrustAnswer
    <3>. QED BY <3>2, <3>3
  <2>. QED BY <2>2, <2>3
<1>9. CASE LocalError(r)
  <2>1. ~Peaceful
    BY <1>3, <1>9 DEF LocalError, Trusting, Peaceful, At
  <2>. QED BY <1>9, <2>1 DEF LocalError, TrustDeserved, Peaceful
<1>10. CASE MarkNotReady(r) \/ SpawnChecker(r)
  <2>1. ~Peaceful
    BY <1>3, <1>10 DEF MarkNotReady, SpawnChecker, Trusting, At
  <2>. QED BY <1>10, <2>1 DEF MarkNotReady, SpawnChecker, TrustDeserved, Peaceful
<1>11. CASE Entry(r)
  <2>1. /\ req'[r].pc = IF vllmReady THEN "claim" ELSE "second"
        /\ req'[r].sawReady = vllmReady
        /\ \A q \in Requests : q # r => req'[q] = req[q]
    BY <1>11 DEF Entry, TypeOK, Handler
  <2>2. Peaceful => Trusting(r)'
    BY <1>11, <2>1 DEF Entry, Trusting, At
  <2>. QED BY <1>11, <2>1, <2>2, TrustKept DEF Entry
<1>12. CASE Claim(r) \/ Release(r)
  <2>1. /\ req'[r].pc \in {"second", "direct", "attempt", "done"}
        /\ req'[r].pc = "done" => ~req'[r].sawReady
        /\ req'[r].pc # "done" => req'[r].sawReady = req[r].sawReady
        /\ \A q \in Requests : q # r => req'[q] = req[q]
    <3>1. CASE Claim(r)
      BY <3>1, TrustGo DEF Claim
    <3>2. CASE Release(r) /\ req[r].answers > 0
      <4>1. req' = [req EXCEPT ![r] = [Idle EXCEPT !.pc = "done", !.answers = req[r].answers]]
        BY <3>2 DEF Release
      <4>. QED BY <4>1 DEF TypeOK, Idle
    <3>3. CASE Release(r) /\ ~(req[r].answers > 0)
      BY <3>3, TrustGo DEF Release
    <3>. QED BY <1>12, <3>1, <3>2, <3>3
  <2>2. Peaceful => Trusting(r)'
    BY <1>3, <1>12, <2>1 DEF Claim, Release, Trusting, At
  <2>3. ASSUME Peaceful, NEW q \in Requests, q # r PROVE Trusting(q)'
    BY <1>12, <2>1, <2>3 DEF Claim, Release, TrustDeserved, Trusting, At
  <2>. QED BY <1>12, <2>2, <2>3 DEF Claim, Release, TrustDeserved, Peaceful
<1>13. CASE \/ Second(r) \/ Exhausted(r) \/ PeerFails(r) \/ PairsExhausted(r)
  <2>1. PICK pc \in {"queue", "attempt", "last", "pdattempt", "pdlast"} :
            Go(r, pc) /\ (pc = "pdattempt" => req[r].pc \in {"prefill", "decode"})
                      /\ (pc = "pdlast" => req[r].pc = "pdattempt")
    BY <1>13 DEF Second, Exhausted, PeerFails, PairsExhausted, CallsPeer, At
  <2>2. UNCHANGED <<localVars, envVars>>
    BY <1>13 DEF Second, Exhausted, PeerFails, PairsExhausted
  <2>3. Peaceful => Trusting(r)'
    BY <1>3, <2>1, <2>2, TrustGo DEF Trusting, At,
       Second, Exhausted, PeerFails, PairsExhausted, CallsPeer
  <2>. QED BY <2>1, <2>2, <2>3, TrustKept, TrustGo
<1>14. CASE PickPeer(r)
  <2>1. At(r, "attempt") /\ Rotate(r, req[r].list, "dial") /\ UNCHANGED <<localVars, envVars>>
    BY <1>14 DEF PickPeer
  <2>2. Peaceful => Trusting(r)'
    BY <1>3, <2>1, TrustTurn DEF Trusting, At
  <2>. QED BY <2>1, <2>2, TrustKept, TrustTurn
<1>15. CASE PickPair(r)
  <2>1. At(r, "pdattempt") /\ UNCHANGED <<localVars, envVars>>
    BY <1>15 DEF PickPair
  <2>2. Go(r, "none") \/ Rotate(r, req[r].top.decode, "prefill")
    BY <1>15 DEF PickPair
  <2>3. Peaceful => Trusting(r)'
    BY <1>3, <2>1, <2>2, TrustGo, TrustTurn DEF Trusting, At
  <2>. QED BY <2>1, <2>2, <2>3, TrustKept, TrustGo, TrustTurn
<1>16. CASE PeerAnswers(r)
  <2>1. CallsPeer(r) /\ UNCHANGED <<localVars, envVars>>
    BY <1>16 DEF PeerAnswers
  <2>2. (At(r, "prefill") /\ Go(r, "decode")) \/ Answer(r, "done")
    BY <1>16 DEF PeerAnswers
  <2>3. Peaceful => Trusting(r)'
    BY <1>3, <2>1, <2>2, TrustGo, TrustAnswer DEF Trusting, At
  <2>. QED BY <2>1, <2>2, <2>3, TrustKept, TrustGo, TrustAnswer
<1>17. CASE GiveUp(r)
  <2>1. Answer(r, "done") /\ UNCHANGED <<localVars, envVars>>
    BY <1>17 DEF GiveUp
  <2>2. Peaceful => Trusting(r)'
    BY <1>3, <2>1, TrustAnswer DEF Trusting, At
  <2>. QED BY <2>1, <2>2, TrustKept, TrustAnswer
<1>. QED BY <1>5, <1>6, <1>7, <1>8, <1>8b, <1>9, <1>10, <1>11, <1>12, <1>13, <1>14, <1>15,
            <1>16, <1>17 DEF Handle

LEMMA TrustStep == TypeOK /\ TrustDeserved /\ [Next]_vars => TrustDeserved'
<1>. SUFFICES ASSUME TypeOK, TrustDeserved, [Next]_vars PROVE TrustDeserved'
  OBVIOUS
<1>. USE DEF localVars, routeVars, envVars, TrustDeserved, Peaceful, Trusting, At
<1>1. CASE VllmUp \/ SyncTopology \/ UNCHANGED vars
  BY <1>1 DEF VllmUp, SyncTopology, vars
<1>2. CASE VllmDies
  <2>1. deaths' # 0
    BY <1>2 DEF VllmDies, TypeOK
  <2>. QED BY <2>1
<1>3. CASE CheckerSees200 \/ CheckerStores
  BY <1>3 DEF CheckerSees200, CheckerStores, TypeOK
<1>4. ASSUME NEW r \in Requests, Arrive(r) PROVE TrustDeserved'
  <2>1. /\ req'[r].pc \in {"entry", "pdattempt"} /\ req'[r].sawReady = req[r].sawReady
        /\ \A q \in Requests : q # r => req'[q] = req[q]
    BY <1>4, ArriveMoves DEF Arrive, At
  <2>2. Peaceful => ~req[r].sawReady
    BY <1>4 DEF Arrive
  <2>3. UNCHANGED <<localVars, envVars>> /\ (Peaceful => Trusting(r)')
    BY <1>4, <2>1, <2>2 DEF Arrive
  <2>. QED BY <2>1, <2>3, TrustKept
<1>5. ASSUME NEW r \in Requests, ClientLeaves(r) PROVE TrustDeserved'
  <2>1. gone' # {}
    BY <1>5 DEF ClientLeaves
  <2>. QED BY <2>1
<1>6. ASSUME NEW r \in Requests, Handle(r) PROVE TrustDeserved'
  BY <1>6, HandleTrust
<1>7. ASSUME NEW r \in Requests, Reject(r) PROVE TrustDeserved'
  <2>1. Answer(r, "done") /\ UNCHANGED <<localVars, envVars>>
    BY <1>7 DEF Reject
  <2>2. Peaceful => Trusting(r)'
    BY <2>1, TrustAnswer
  <2>. QED BY <2>1, <2>2, TrustKept, TrustAnswer
<1>. QED BY <1>1, <1>2, <1>3, <1>4, <1>5, <1>6, <1>7 DEF Next

(* A request that found the local vLLM ready is never refused while vLLM   *)
(* has not died and no client has left.                                    *)
THEOREM ReadyMeansServed == Spec => []ServedWhileReady
<1>1. Init => TypeOK /\ TrustDeserved
  BY TypeInit DEF Init, TrustDeserved, Trusting, At, Idle
<1>2. TypeOK /\ TrustDeserved /\ [Next]_vars => (TypeOK /\ TrustDeserved)'
  BY TypeStep, TrustStep
<1>. QED BY <1>1, <1>2, TrustSuffices, PTL DEF Spec
-----------------------------------------------------------------------------
(* A full round of the peers.                                              *)

(* How many turns ago the shared index, now at d, was at i.                *)
Back(i, d, n) == IF i <= d THEN d - i ELSE d - i + n

(* The handler is on the Mode 2 path. *)
Paired(r) ==
    \/ req[r].pc \in {"pdattempt", "prefill", "decode", "none", "pdlast"}
    \/ /\ req[r].pc \in {"sent", "mark", "spawn"}
       /\ req[r].call \in {"prefill", "decode", "none", "pdlast"}

(* A request whose round nobody has disturbed has tried the peers that the *)
(* index stood at in its own turns, that is, at the last turns of all.     *)
Round(r) ==
    /\ Paired(r) => req[r].list = <<>>
    /\ At(r, "idle") => req[r].attempt = 0 /\ req[r].list = <<>>
    /\ At(r, "last") => req[r].attempt >= Len(req[r].list)
    /\ req[r].alone /\ req[r].attempt > 0 /\ req[r].list # <<>> =>
           /\ decodeIndex < Len(req[r].list)
           /\ \A i \in 0..Len(req[r].list) - 1 :
                  Back(i, decodeIndex, Len(req[r].list)) < req[r].attempt
                      => req[r].list[i + 1] \in req[r].tried
Rounds == \A r \in Requests : Round(r)

LEMMA RoundsSuffice == TypeOK /\ Rounds => FullRoundIfAlone
<1>. SUFFICES ASSUME TypeOK, Rounds, NEW r \in Requests, At(r, "last"), req[r].alone,
                     NEW j \in DOMAIN req[r].list
              PROVE  req[r].list[j] \in req[r].tried
  BY DEF FullRoundIfAlone, Dialled
<1>. DEFINE n == Len(req[r].list)
<1>1. req[r].list \in Seq(Nodes) /\ req[r].attempt \in Nat /\ decodeIndex \in Nat
  BY DEF TypeOK, Handler
<1>2. n \in Nat /\ j \in 1..n /\ req[r].list # <<>>
  BY <1>1
<1>3. req[r].attempt >= n /\ req[r].attempt > 0
  BY <1>1, <1>2 DEF Rounds, Round
<1>4. /\ decodeIndex < n
      /\ Back(j - 1, decodeIndex, n) < req[r].attempt => req[r].list[(j - 1) + 1] \in req[r].tried
  BY <1>2, <1>3 DEF Rounds, Round
<1>5. Back(j - 1, decodeIndex, n) < n
  BY <1>1, <1>2, <1>4 DEF Back
<1>6. Back(j - 1, decodeIndex, n) \in Int
  BY <1>1, <1>2 DEF Back
<1>7. (j - 1) + 1 = j
  BY <1>2
<1>. QED BY <1>1, <1>2, <1>3, <1>4, <1>5, <1>6, <1>7

(* A handler's step that takes no turn. *)
LEMMA RoundsKept ==
    ASSUME Rounds, NEW r \in Requests, UNCHANGED decodeIndex,
           \A q \in Requests : q # r => req'[q] = req[q],
           req'[r].list = req[r].list, req'[r].attempt = req[r].attempt,
           req'[r].tried = req[r].tried, req'[r].alone = req[r].alone,
           Paired(r)' => Paired(r), req'[r].pc # "idle",
           req'[r].pc = "last" => req[r].attempt >= Len(req[r].list)
    PROVE  Rounds'
<1>1. Round(r)'
  BY DEF Rounds, Round, At
<1>2. \A q \in Requests : q # r => Round(q)'
  BY DEF Rounds, Round, Paired, At
<1>. QED BY <1>1, <1>2 DEF Rounds

LEMMA RoundGo ==
    ASSUME TypeOK, Rounds, NEW r \in Requests, NEW pc, Go(r, pc), UNCHANGED decodeIndex,
           pc \notin {"idle", "sent"}, pc \in {"mark", "spawn"} => req[r].pc \in {"sent", "mark"},
           pc \in {"pdattempt", "prefill", "decode", "none", "pdlast"} => Paired(r),
           pc = "last" => req[r].attempt >= Len(req[r].list)
    PROVE  Rounds'
<1>1. req'[r] = [req[r] EXCEPT !.pc = pc] /\ \A q \in Requests : q # r => req'[q] = req[q]
  BY DEF Go, TypeOK
<1>2. req'[r].pc = pc /\ req'[r].call = req[r].call /\ req'[r].list = req[r].list
      /\ req'[r].attempt = req[r].attempt /\ req'[r].tried = req[r].tried
      /\ req'[r].alone = req[r].alone
  BY <1>1 DEF TypeOK, Handler
<1>3. Paired(r)' => Paired(r)
  BY <1>2 DEF Paired
<1>. QED BY <1>1, <1>2, <1>3, RoundsKept

LEMMA RoundAnswer ==
    ASSUME TypeOK, Rounds, NEW r \in Requests, NEW pc \in {"release", "done"}, Answer(r, pc),
           UNCHANGED decodeIndex
    PROVE  Rounds'
<1>1. \A q \in Requests : q # r => req'[q] = req[q]
  BY DEF Answer, TypeOK
<1>2. CASE pc = "done"
  <2>1. req'[r].pc = "done" /\ req'[r].list = <<>> /\ ~req'[r].alone
    BY <1>2 DEF Answer, TypeOK, Idle
  <2>2. Round(r)'
    BY <2>1 DEF Round, At
  <2>3. \A q \in Requests : q # r => Round(q)'
    BY <1>1 DEF Rounds, Round, Paired, At
  <2>. QED BY <2>2, <2>3 DEF Rounds
<1>3. CASE pc = "release"
  <2>1. /\ req'[r].pc = pc /\ req'[r].list = req[r].list
        /\ req'[r].attempt = req[r].attempt /\ req'[r].tried = req[r].tried
        /\ req'[r].alone = req[r].alone
    BY <1>3 DEF Answer, TypeOK, Handler
  <2>2. ~Paired(r)'
    BY <1>3, <2>1 DEF Paired
  <2>. QED BY <1>1, <1>3, <2>1, <2>2, RoundsKept
<1>. QED BY <1>2, <1>3

(* A turn ends everyone else's claim to an undisturbed round. *)
LEMMA RoundOthers ==
    ASSUME TypeOK, Rounds, NEW r \in Requests, NEW targets, NEW pc, Rotate(r, targets, pc)
    PROVE  \A q \in Requests : q # r => Round(q)'
<1>. SUFFICES ASSUME NEW q \in Requests, q # r PROVE Round(q)'
  OBVIOUS
<1>1. req'[q] = [req[q] EXCEPT !.alone = FALSE]
  BY DEF Rotate
<1>2. /\ req'[q].pc = req[q].pc /\ req'[q].call = req[q].call /\ req'[q].list = req[q].list
      /\ req'[q].attempt = req[q].attempt /\ ~req'[q].alone
  BY <1>1 DEF TypeOK, Handler
<1>. QED BY <1>2 DEF Rounds, Round, Paired, At

LEMMA NextIndex ==
    ASSUME NEW d \in Nat, NEW n \in Nat \ {0}
    PROVE  /\ (d + 1) % n \in 0..n - 1
           /\ d < n => (d + 1) % n = IF d + 1 = n THEN 0 ELSE d + 1
<1>1. (d + 1) % n \in 0..n - 1
  OBVIOUS
<1>2. ASSUME d < n PROVE (d + 1) % n = IF d + 1 = n THEN 0 ELSE d + 1
  BY <1>2
<1>. QED BY <1>1, <1>2

LEMMA BackPositive ==
    ASSUME NEW n \in Nat \ {0}, NEW d \in 0..n - 1, NEW i \in 0..n - 1, i # d
    PROVE  Back(i, d, n) \in Nat \ {0}
BY DEF Back

LEMMA BackOne ==
    ASSUME NEW n \in Nat \ {0}, NEW d \in 0..n - 1, NEW i \in 0..n - 1,
           NEW e \in 0..n - 1, e = IF d + 1 = n THEN 0 ELSE d + 1, i # e
    PROVE  Back(i, e, n) = Back(i, d, n) + 1
BY DEF Back

LEMMA RoundPickPeer ==
    ASSUME TypeOK, Rounds, NEW r \in Requests, PickPeer(r)
    PROVE  Rounds'
<1>. DEFINE list == req[r].list  n == Len(list)  a == req[r].attempt
<1>1. list \in Seq(Nodes) /\ list # <<>> /\ n \in Nat \ {0} /\ a \in Nat /\ decodeIndex \in Nat
  BY DEF TypeOK, Handler, PickPeer, Attempts
<1>2. Rotate(r, list, "dial") /\ decodeIndex' = (decodeIndex + 1) % n
  BY DEF PickPeer, Rotate
<1>3. decodeIndex' \in 0..n - 1
  BY <1>1, <1>2, NextIndex
<1>4. req'[r] = [req[r] EXCEPT !.pc = "dial", !.attempt = a + 1,
                               !.target = list[decodeIndex' + 1],
                               !.tried = req[r].tried \cup {list[decodeIndex' + 1]}]
  BY <1>2 DEF Rotate
<1>5. /\ req'[r].pc = "dial" /\ req'[r].list = list /\ req'[r].attempt = a + 1
      /\ req'[r].alone = req[r].alone
      /\ req'[r].tried = req[r].tried \cup {list[decodeIndex' + 1]}
  <2>1. req[r] \in Handler
    BY DEF TypeOK
  <2>. DEFINE target == list[decodeIndex' + 1]
              tried == req[r].tried \cup {target}
  <2>2. req'[r] = [req[r] EXCEPT !.pc = "dial", !.attempt = a + 1, !.target = target, !.tried = tried]
    BY <1>4
  <2>. HIDE DEF target, tried
  <2>3. /\ req'[r].pc = "dial" /\ req'[r].list = list /\ req'[r].attempt = a + 1
        /\ req'[r].alone = req[r].alone /\ req'[r].tried = tried
    BY <2>1, <2>2 DEF Handler
  <2>. QED BY <2>3 DEF target, tried
<1>6. ASSUME req[r].alone, NEW i \in 0..n - 1, Back(i, decodeIndex', n) < a + 1
      PROVE  list[i + 1] \in req'[r].tried
  <2>1. CASE i = decodeIndex'
    BY <1>5, <2>1
  <2>2. CASE i # decodeIndex'
    <3>1. Back(i, decodeIndex', n) \in Nat \ {0}
      BY <1>1, <1>3, <2>2, BackPositive
    <3>2. a > 0
      BY <1>1, <1>6, <3>1
    <3>3. /\ decodeIndex < n
          /\ Back(i, decodeIndex, n) < a => list[i + 1] \in req[r].tried
      BY <1>1, <1>6, <3>2 DEF Rounds, Round
    <3>4. decodeIndex' = IF decodeIndex + 1 = n THEN 0 ELSE decodeIndex + 1
      BY <1>1, <1>2, <3>3, NextIndex
    <3>. HIDE DEF n
    <3>5. Back(i, decodeIndex', n) = Back(i, decodeIndex, n) + 1
      BY <1>1, <1>3, <2>2, <3>3, <3>4, BackOne
    <3>. USE DEF n
    <3>6. Back(i, decodeIndex, n) \in Int
      BY <1>1 DEF Back
    <3>. QED BY <1>1, <1>5, <1>6, <3>3, <3>5, <3>6
  <2>. QED BY <2>1, <2>2
<1>7. Round(r)'
  BY <1>1, <1>3, <1>5, <1>6 DEF Round, Paired, At
<1>. QED BY <1>2, <1>7, RoundOthers DEF Rounds

LEMMA HandleRound ==
    ASSUME TypeOK, Rounds, NEW r \in Requests, Handle(r)
    PROVE  Rounds'
<1>. USE DEF routeVars
<1>1. \A c \in Calls : /\ OnFailure[c] \in {"release", "attempt", "giveup", "pdattempt"}
                       /\ OnSuccess[c] \in {"release", "decode", "done"}
                       /\ OnSuccess[c] = "decode" <=> c = "prefill"
                       /\ OnFailure[c] = "pdattempt" => c \in {"prefill", "decode"}
  BY Continuations
<1>2. req[r].call \in Calls
  BY DEF TypeOK, Handler
<1>3. CASE NotReady(r)
  <2>1. Go(r, OnFailure[req[r].pc]) /\ req[r].pc \in Calls /\ UNCHANGED decodeIndex
    BY <1>3 DEF NotReady, CallsLocal
  <2>. QED BY <1>1, <2>1, RoundGo DEF Paired
<1>4. CASE Send(r)
  <2>1. /\ req'[r].pc = "sent" /\ req'[r].call = req[r].pc /\ req'[r].list = req[r].list
        /\ req'[r].attempt = req[r].attempt /\ req'[r].tried = req[r].tried
        /\ req'[r].alone = req[r].alone /\ \A q \in Requests : q # r => req'[q] = req[q]
    BY <1>4 DEF Send, TypeOK, Handler
  <2>2. Paired(r)' => Paired(r)
    BY <2>1 DEF Paired
  <2>. QED BY <1>4, <2>1, <2>2, RoundsKept DEF Send
<1>5. CASE LocalAnswer(r)
  <2>1. At(r, "sent") /\ UNCHANGED decodeIndex
    BY <1>5 DEF LocalAnswer
  <2>2. CASE req[r].call = "prefill"
    <3>1. Go(r, "decode")
      BY <1>5, <2>2 DEF LocalAnswer
    <3>. QED BY <2>1, <2>2, <3>1, RoundGo DEF Paired, At
  <2>3. CASE req[r].call # "prefill"
    BY <1>1, <1>2, <1>5, <2>1, <2>3, RoundAnswer DEF LocalAnswer
  <2>. QED BY <2>2, <2>3
<1>6. CASE LocalRefusal(r)
  BY <1>1, <1>2, <1>6, RoundGo DEF LocalRefusal, Paired, At
<1>6b. CASE LocalBreaksOff(r)
  <2>1. At(r, "sent") /\ UNCHANGED decodeIndex
    BY <1>6b DEF LocalBreaksOff
  <2>2. CASE req[r].call \in Buffered
    BY <1>1, <1>2, <1>6b, <2>1, <2>2, RoundGo DEF LocalBreaksOff, Buffered, Paired, At
  <2>3. CASE req[r].call \notin Buffered
    BY <1>1, <1>2, <1>6b, <2>1, <2>3, RoundAnswer DEF LocalBreaksOff, Buffered
  <2>. QED BY <2>2, <2>3
<1>7. CASE LocalError(r)
  BY <1>7, RoundGo DEF LocalError, At
<1>8. CASE MarkNotReady(r)
  BY <1>8, RoundGo DEF MarkNotReady, At
<1>9. CASE SpawnChecker(r)
  BY <1>1, <1>2, <1>9, RoundGo DEF SpawnChecker, Paired, At
<1>10. CASE Entry(r)
  <2>1. /\ req'[r].pc \in {"claim", "second"} /\ req'[r].list = req[r].list
        /\ req'[r].attempt = req[r].attempt /\ req'[r].tried = req[r].tried
        /\ req'[r].alone = req[r].alone /\ \A q \in Requests : q # r => req'[q] = req[q]
    BY <1>10 DEF Entry, TypeOK, Handler
  <2>2. ~Paired(r)'
    BY <2>1 DEF Paired
  <2>. QED BY <1>10, <2>1, <2>2, RoundsKept DEF Entry
<1>11. CASE Claim(r)
  BY <1>11, RoundGo DEF Claim
<1>12. CASE Second(r)
  BY <1>12, RoundGo DEF Second
<1>13. CASE Release(r)
  <2>1. CASE req[r].answers > 0
    <3>1. req' = [req EXCEPT ![r] = [Idle EXCEPT !.pc = "done", !.answers = req[r].answers]]
      BY <1>13, <2>1 DEF Release
    <3>2. /\ req'[r].pc = "done" /\ req'[r].list = <<>> /\ ~req'[r].alone
          /\ \A q \in Requests : q # r => req'[q] = req[q]
      BY <3>1 DEF TypeOK, Idle
    <3>3. Round(r)'
      BY <3>2 DEF Round, At
    <3>4. \A q \in Requests : q # r => Round(q)'
      BY <1>13, <3>2 DEF Release, Rounds, Round, Paired, At
    <3>. QED BY <3>3, <3>4 DEF Rounds
  <2>2. CASE ~(req[r].answers > 0)
    BY <1>13, <2>2, RoundGo DEF Release
  <2>. QED BY <2>1, <2>2
<1>14. CASE PickPeer(r)
  BY <1>14, RoundPickPeer
<1>15. CASE Exhausted(r)
  <2>1. req[r].attempt >= Len(req[r].list)
    <3>1. Len(req[r].list) \in Nat /\ req[r].attempt \in Nat /\ MaxRetries \in Nat
      BY BoundsAssumption DEF TypeOK, Handler
    <3>2. req[r].list = <<>> => Len(req[r].list) = 0
      OBVIOUS
    <3>. QED BY <1>15, <3>1, <3>2 DEF Exhausted, Attempts
  <2>. QED BY <1>15, <2>1, RoundGo DEF Exhausted
<1>16. CASE PickPair(r)
  <2>1. Paired(r)
    BY <1>16 DEF PickPair, At, Paired
  <2>2. CASE Go(r, "none") /\ UNCHANGED decodeIndex
    BY <2>1, <2>2, RoundGo
  <2>3. CASE Rotate(r, req[r].top.decode, "prefill")
    <3>1. req'[r].list = req[r].list /\ req'[r].pc = "prefill"
      BY <2>3 DEF Rotate, TypeOK, Handler
    <3>2. req[r].list = <<>>
      BY <2>1 DEF Rounds, Round
    <3>3. Round(r)'
      BY <3>1, <3>2 DEF Round, At
    <3>. QED BY <2>3, <3>3, RoundOthers DEF Rounds
  <2>. QED BY <1>16, <2>2, <2>3 DEF PickPair
<1>17. CASE PairsExhausted(r)
  BY <1>17, RoundGo DEF PairsExhausted, Paired, At
<1>18. CASE PeerAnswers(r)
  <2>1. CASE At(r, "prefill") /\ Go(r, "decode")
    BY <1>18, <2>1, RoundGo DEF PeerAnswers, Paired, At
  <2>2. CASE Answer(r, "done")
    BY <1>18, <2>2, RoundAnswer DEF PeerAnswers
  <2>. QED BY <1>18, <2>1, <2>2 DEF PeerAnswers
<1>19. CASE PeerFails(r)
  <2>1. Go(r, "attempt") \/ (Go(r, "pdattempt") /\ Paired(r))
    BY <1>19 DEF PeerFails, CallsPeer, Paired, At
  <2>. QED BY <1>19, <2>1, RoundGo DEF PeerFails
<1>20. CASE GiveUp(r)
  BY <1>20, RoundAnswer DEF GiveUp
<1>. QED BY <1>3, <1>4, <1>5, <1>6, <1>6b, <1>7, <1>8, <1>9, <1>10, <1>11, <1>12, <1>13,
            <1>14, <1>15, <1>16, <1>17, <1>18, <1>19, <1>20 DEF Handle

LEMMA RoundsStep == TypeOK /\ Rounds /\ [Next]_vars => Rounds'
<1>. SUFFICES ASSUME TypeOK, Rounds, [Next]_vars PROVE Rounds'
  OBVIOUS
<1>1. CASE UNCHANGED <<req, decodeIndex>>
  BY <1>1 DEF Rounds, Round, Paired, At
<1>2. ASSUME NEW r \in Requests, Arrive(r) PROVE Rounds'
  <2>1. At(r, "idle") /\ req[r].attempt = 0 /\ UNCHANGED decodeIndex
    BY <1>2 DEF Arrive, Rounds, Round, routeVars
  <2>2. req'[r].pc = "pdattempt" => req'[r].list = <<>>
    BY <1>2, ArriveMoves DEF Arrive, Rounds, Round
  <2>3. Round(r)'
    BY <1>2, <2>1, <2>2, ArriveMoves DEF Round, Paired, At
  <2>4. \A q \in Requests : q # r => Round(q)'
    BY <1>2, <2>1, ArriveMoves DEF Rounds, Round, Paired, At
  <2>. QED BY <2>3, <2>4 DEF Rounds
<1>3. ASSUME NEW r \in Requests, Handle(r) PROVE Rounds'
  BY <1>3, HandleRound
<1>4. ASSUME NEW r \in Requests, ClientLeaves(r) PROVE UNCHANGED <<req, decodeIndex>>
  BY <1>4 DEF ClientLeaves, routeVars
<1>5. ASSUME NEW r \in Requests, Reject(r) PROVE Rounds'
  BY <1>5, RoundAnswer DEF Reject, routeVars
<1>. QED BY <1>1, <1>2, <1>3, <1>4, <1>5
         DEF Next, VllmUp, VllmDies, CheckerSees200, CheckerStores, SyncTopology, vars, routeVars

(* The round-robin loop dials every peer of an undisturbed request's list  *)
(* before it falls back, however long the list is.                         *)
THEOREM UndisturbedRoundsAreFull == Spec => []FullRoundIfAlone
<1>1. Init => TypeOK /\ Rounds
  BY TypeInit DEF Init, Rounds, Round, Paired, At, Idle
<1>2. TypeOK /\ Rounds /\ [Next]_vars => (TypeOK /\ Rounds)'
  BY TypeStep, RoundsStep
<1>. QED BY <1>1, <1>2, RoundsSuffice, PTL DEF Spec
-----------------------------------------------------------------------------
(* Handlers come to an end: each has a number of steps left that every     *)
(* step of its own lowers and nobody else's touches.                       *)

(* A local call may be sent, break, be marked and spawn a checker before   *)
(* its handler goes on.                                                    *)
CallStage == [direct |-> 11, queue |-> 10, last |-> 5, prefill |-> 14, decode |-> 10,
              none |-> 5, pdlast |-> 5]

Stage(h) ==
    CASE h.pc = "idle" -> 15
      [] h.pc = "entry" -> 13
      [] h.pc = "claim" -> 12
      [] h.pc = "second" -> 11
      [] h.pc = "release" -> 7
      [] h.pc = "dial" -> 7
      [] h.pc \in {"attempt", "pdattempt"} -> 6
      [] h.pc \in Calls -> CallStage[h.pc]
      [] h.pc = "sent" -> CallStage[h.call] - 1
      [] h.pc = "mark" -> CallStage[h.call] - 2
      [] h.pc = "spawn" -> CallStage[h.call] - 3
      [] h.pc = "giveup" -> 1
      [] h.pc = "done" -> 0

(* A list of peers cannot be longer than there are nodes. *)
MaxTurns == MaxRetries + Cardinality(Nodes)

(* A turn of either loop costs nine steps at most. *)
StepsLeft(h) == IF h.pc = "done" THEN 0 ELSE 9 * (MaxTurns - h.attempt) + Stage(h)

(* The handler has not left the Mode 1 loop. *)
Looping(r) ==
    \/ req[r].pc \in {"idle", "entry", "claim", "second", "direct", "queue", "release", "attempt", "dial"}
    \/ req[r].pc \in {"sent", "mark", "spawn"} /\ req[r].call \in {"direct", "queue"}

TurnsInv ==
    \A r \in Requests : /\ req[r].attempt \in 0..MaxTurns /\ Len(req[r].list) <= Cardinality(Nodes)
                        /\ Looping(r) => req[r].attempt <= Attempts(r)
                        /\ Paired(r) => req[r].attempt <= MaxRetries
(* What a step does to the request that takes it, and to the others. *)
Lowers(r) ==
    /\ StepsLeft(req'[r]) < StepsLeft(req[r])
    /\ \A q \in Requests : q # r => req'[q] = [req[q] EXCEPT !.alone = req'[q].alone]

(* The stages of a call, and of where it leads. *)
LEMMA CallStages ==
    ASSUME NEW c \in Calls
    PROVE  /\ CallStage[c] \in 5..14
           /\ OnFailure[c] = "release" => CallStage[c] - 3 > 7
           /\ OnFailure[c] \in {"attempt", "pdattempt"} => CallStage[c] - 3 > 6
           /\ c = "prefill" => CallStage[c] = 14
           /\ c = "decode" => CallStage[c] = 10
           /\ OnFailure[c] \in {"release", "attempt"} => c \in {"direct", "queue"}
           /\ OnFailure[c] = "pdattempt" => c \in {"prefill", "decode"}
           /\ OnFailure[c] \in {"release", "attempt", "pdattempt", "giveup"}
           /\ OnSuccess[c] \in {"release", "decode", "done"}
           /\ OnSuccess[c] = "release" => c = "direct"
           /\ OnSuccess[c] = "decode" => c = "prefill"
           /\ c = "direct" => CallStage[c] = 11
           /\ c \notin {"sent", "mark", "spawn", "idle", "entry", "claim", "second", "release",
                        "attempt", "pdattempt", "dial", "giveup", "done"}
<1>1. c \in {"direct", "queue", "last", "prefill", "decode", "none", "pdlast"}
  BY DEF Calls, OnFailure
<1>. QED BY <1>1 DEF OnFailure, OnSuccess, CallStage

LEMMA StageOf ==
    ASSUME NEW h \in Handler
    PROVE  /\ h.pc \in Calls => Stage(h) = CallStage[h.pc]
           /\ h.pc = "sent" => Stage(h) = CallStage[h.call] - 1
           /\ h.pc = "mark" => Stage(h) = CallStage[h.call] - 2
           /\ h.pc = "spawn" => Stage(h) = CallStage[h.call] - 3
           /\ h.pc \in {"attempt", "pdattempt"} => Stage(h) = 6
           /\ h.pc \in {"release", "dial"} => Stage(h) = 7
           /\ h.pc = "idle" => Stage(h) = 15
           /\ h.pc = "entry" => Stage(h) = 13
           /\ h.pc = "claim" => Stage(h) = 12
           /\ h.pc = "second" => Stage(h) = 11
           /\ h.pc = "giveup" => Stage(h) = 1
<1>. USE DEF Stage
<1>1. h.pc \in Calls => Stage(h) = CallStage[h.pc]
  BY CallStages
<1>2. ASSUME h.pc \notin Calls
      PROVE  /\ h.pc = "sent" => Stage(h) = CallStage[h.call] - 1
             /\ h.pc = "mark" => Stage(h) = CallStage[h.call] - 2
             /\ h.pc = "spawn" => Stage(h) = CallStage[h.call] - 3
             /\ h.pc \in {"attempt", "pdattempt"} => Stage(h) = 6
             /\ h.pc \in {"release", "dial"} => Stage(h) = 7
             /\ h.pc = "idle" => Stage(h) = 15
             /\ h.pc = "entry" => Stage(h) = 13
             /\ h.pc = "claim" => Stage(h) = 12
             /\ h.pc = "second" => Stage(h) = 11
             /\ h.pc = "giveup" => Stage(h) = 1
  BY <1>2
<1>. HIDE DEF Stage
<1>. QED BY <1>1, <1>2, CallStages

LEMMA StageAt ==
    ASSUME NEW h \in Handler, NEW pc \in PCs
    PROVE  LET s == Stage([h EXCEPT !.pc = pc])
           IN  /\ pc \in Calls => s = CallStage[pc]
               /\ pc = "mark" => s = CallStage[h.call] - 2
               /\ pc = "spawn" => s = CallStage[h.call] - 3
               /\ pc \in {"attempt", "pdattempt"} => s = 6
               /\ pc = "second" => s = 11
<1>. DEFINE g == [h EXCEPT !.pc = pc]
<1>1. g \in Handler /\ g.pc = pc /\ g.call = h.call
  BY DEF Handler
<1>. HIDE DEF g
<1>2. /\ pc \in Calls => Stage(g) = CallStage[pc]
      /\ pc = "mark" => Stage(g) = CallStage[h.call] - 2
      /\ pc = "spawn" => Stage(g) = CallStage[h.call] - 3
      /\ pc \in {"attempt", "pdattempt"} => Stage(g) = 6
      /\ pc = "second" => Stage(g) = 11
  BY <1>1, StageOf
<1>. QED BY <1>2 DEF g

LEMMA StageType ==
    ASSUME NEW h \in Handler
    PROVE  h.pc # "done" => Stage(h) \in 1..15
<1>1. h.call \in Calls /\ h.pc \in PCs
  BY DEF Handler
<1>2. CallStage[h.call] \in 5..14 /\ (h.pc \in Calls => CallStage[h.pc] \in 5..14)
  BY <1>1, CallStages
<1>. QED BY <1>1, <1>2, StageOf DEF PCs

LEMMA TurnsAreNat == MaxTurns \in Nat /\ Cardinality(Nodes) \in Nat /\ MaxRetries \in Nat \ {0} /\ MaxRetries <= MaxTurns
<1>1. Cardinality(Nodes) \in Nat
  BY NodesAssumption, FS_CardinalityType
<1>. QED BY <1>1, BoundsAssumption DEF MaxTurns

(* A step within a turn. *)
LEMMA MoveLowers ==
    ASSUME TypeOK, TurnsInv, NEW r \in Requests, req' \in [Requests -> Handler],
           \A q \in Requests : q # r => req'[q] = req[q],
           req'[r].list = req[r].list, req'[r].attempt = req[r].attempt,
           req[r].pc # "done", req'[r].pc # "done",
           Stage(req'[r]) < Stage(req[r]),
           Looping(r)' => Looping(r), Paired(r)' => Paired(r)
    PROVE  Lowers(r) /\ TurnsInv'
<1>1. /\ Stage(req[r]) \in 1..15 /\ Stage(req'[r]) \in 1..15
      /\ MaxTurns \in Nat /\ req[r].attempt \in 0..MaxTurns
  BY StageType, TurnsAreNat DEF TypeOK, TurnsInv
<1>2. StepsLeft(req'[r]) < StepsLeft(req[r])
  BY <1>1 DEF StepsLeft
<1>3. ASSUME NEW q \in Requests, q # r PROVE req'[q] = [req[q] EXCEPT !.alone = req'[q].alone]
  <2>1. req[q] \in Handler /\ req'[q] = req[q]
    BY <1>3 DEF TypeOK
  <2>. QED BY <2>1 DEF Handler
<1>4. TurnsInv'
  <2>1. Attempts(r)' = Attempts(r)
    BY DEF Attempts
  <2>2. /\ req'[r].attempt \in 0..MaxTurns /\ Len(req'[r].list) <= Cardinality(Nodes)
        /\ Looping(r)' => req'[r].attempt <= Attempts(r)'
        /\ Paired(r)' => req'[r].attempt <= MaxRetries
    BY <2>1 DEF TurnsInv
  <2>3. \A q \in Requests : q # r =>
            /\ req'[q].attempt \in 0..MaxTurns /\ Len(req'[q].list) <= Cardinality(Nodes)
            /\ Looping(q)' => req'[q].attempt <= Attempts(q)'
            /\ Paired(q)' => req'[q].attempt <= MaxRetries
    BY DEF TurnsInv, Looping, Paired, Attempts
  <2>. QED BY <2>2, <2>3 DEF TurnsInv
<1>. QED BY <1>2, <1>3, <1>4 DEF Lowers

LEMMA GoLowers ==
    ASSUME TypeOK, TurnsInv, NEW r \in Requests, NEW pc \in PCs \ {"done", "sent"}, Go(r, pc), req[r].pc # "done",
           Stage([req[r] EXCEPT !.pc = pc]) < Stage(req[r]),
           pc \in {"mark", "spawn"} => req[r].pc \in {"sent", "mark"},
           pc \in {"idle", "entry", "claim", "second", "direct", "queue", "release", "attempt", "dial"}
               => Looping(r),
           pc \in {"pdattempt", "prefill", "decode", "none", "pdlast"} => Paired(r)
    PROVE  Lowers(r) /\ TurnsInv'
<1>1. req'[r] = [req[r] EXCEPT !.pc = pc] /\ \A q \in Requests : q # r => req'[q] = req[q]
  BY DEF Go, TypeOK
<1>2. /\ req'[r].pc = pc /\ req'[r].call = req[r].call /\ req'[r].list = req[r].list
      /\ req'[r].attempt = req[r].attempt
  BY <1>1 DEF TypeOK, Handler
<1>3. (Looping(r)' => Looping(r)) /\ (Paired(r)' => Paired(r))
  BY <1>2 DEF Looping, Paired
<1>. QED BY <1>1, <1>2, <1>3, GoType, MoveLowers

(* The handler returns. *)
LEMMA DoneLowers ==
    ASSUME TypeOK, TurnsInv, NEW r \in Requests, req[r].pc # "done", NEW n,
           req' = [req EXCEPT ![r] = [Idle EXCEPT !.pc = "done", !.answers = n]]
    PROVE  Lowers(r) /\ TurnsInv'
<1>1. /\ req'[r].pc = "done" /\ req'[r].attempt = 0 /\ req'[r].list = <<>>
      /\ \A q \in Requests : q # r => req'[q] = req[q]
  BY DEF Idle, TypeOK
<1>2. /\ Stage(req[r]) \in 1..15 /\ MaxTurns \in Nat /\ req[r].attempt \in 0..MaxTurns
      /\ Cardinality(Nodes) \in Nat
  BY StageType, TurnsAreNat DEF TypeOK, TurnsInv
<1>3. StepsLeft(req'[r]) < StepsLeft(req[r])
  <2>1. StepsLeft(req'[r]) = 0 /\ StepsLeft(req[r]) = 9 * (MaxTurns - req[r].attempt) + Stage(req[r])
    BY <1>1 DEF StepsLeft
  <2>. QED BY <1>2, <2>1
<1>4. ASSUME NEW q \in Requests, q # r PROVE req'[q] = [req[q] EXCEPT !.alone = req'[q].alone]
  <2>1. req[q] \in Handler /\ req'[q] = req[q]
    BY <1>1, <1>4 DEF TypeOK
  <2>. QED BY <2>1 DEF Handler
<1>5. TurnsInv'
  <2>1. ~Looping(r)' /\ ~Paired(r)' /\ Len(req'[r].list) = 0
    BY <1>1 DEF Looping, Paired
  <2>2. \A q \in Requests : q # r =>
            /\ req'[q].attempt \in 0..MaxTurns /\ Len(req'[q].list) <= Cardinality(Nodes)
            /\ Looping(q)' => req'[q].attempt <= Attempts(q)'
            /\ Paired(q)' => req'[q].attempt <= MaxRetries
    BY <1>1 DEF TurnsInv, Looping, Paired, Attempts
  <2>. QED BY <1>1, <1>2, <2>1, <2>2 DEF TurnsInv
<1>. QED BY <1>3, <1>4, <1>5 DEF Lowers

LEMMA AnswerLowers ==
    ASSUME TypeOK, TurnsInv, NEW r \in Requests, req[r].pc # "done", NEW pc \in {"release", "done"},
           Answer(r, pc), pc = "release" => At(r, "sent") /\ req[r].call = "direct"
    PROVE  Lowers(r) /\ TurnsInv'
<1>1. CASE pc = "done"
  BY <1>1, DoneLowers DEF Answer
<1>2. CASE pc = "release"
  <2>1. /\ req'[r] = [req[r] EXCEPT !.pc = pc, !.answers = req[r].answers + 1]
        /\ \A q \in Requests : q # r => req'[q] = req[q]
    BY <1>2 DEF Answer, TypeOK
  <2>2. /\ req'[r].pc = "release" /\ req'[r].list = req[r].list /\ req'[r].attempt = req[r].attempt
        /\ req' \in [Requests -> Handler]
    BY <1>2, <2>1, AnswerType DEF TypeOK, Handler, PCs
  <2>3. Stage(req[r]) = 10 /\ Stage(req'[r]) = 7
    <3>1. req[r] \in Handler /\ req'[r] \in Handler /\ req[r].call \in Calls
      BY <2>2 DEF TypeOK, Handler
    <3>2. CallStage["direct"] = 11
      BY DEF CallStage
    <3>3. Stage(req[r]) = CallStage["direct"] - 1
      BY <1>2, <3>1, StageOf DEF At
    <3>. QED BY <2>2, <3>1, <3>2, <3>3, StageOf
  <2>4. Looping(r) /\ ~Paired(r)'
    BY <1>2, <2>2 DEF Looping, Paired, At
  <2>5. req'[r].pc # "done" /\ Stage(req'[r]) < Stage(req[r])
    BY <2>2, <2>3
  <2>. QED BY <2>1, <2>2, <2>4, <2>5, MoveLowers
<1>. QED BY <1>1, <1>2

(* A turn of either loop. *)
LEMMA TurnLowers ==
    ASSUME TypeOK, TurnsInv, NEW r \in Requests, NEW targets \in Seq(Nodes \cup {Self}), targets # <<>>,
           NEW pc \in {"dial", "prefill"}, Rotate(r, targets, pc),
           \/ At(r, "attempt") /\ pc = "dial" /\ req[r].attempt < Attempts(r)
           \/ At(r, "pdattempt") /\ pc = "prefill" /\ req[r].attempt < MaxRetries
    PROVE  Lowers(r) /\ TurnsInv'
<1>0. /\ MaxTurns \in Nat /\ Cardinality(Nodes) \in Nat /\ MaxRetries \in Nat /\ MaxRetries <= MaxTurns
      /\ req[r].attempt \in Nat /\ Len(req[r].list) \in Nat /\ Len(req[r].list) <= Cardinality(Nodes)
  BY TurnsAreNat DEF TypeOK, Handler, TurnsInv
<1>1. req' \in [Requests -> Handler] /\ req'[r].pc = pc /\ req'[r].attempt = req[r].attempt + 1
      /\ req'[r].list = req[r].list
  <2>1. pc \in PCs
    BY PCsCovered
  <2>2. req'[r].pc = pc /\ req'[r].attempt = req[r].attempt + 1 /\ req'[r].list = req[r].list
    BY DEF Rotate, TypeOK, Handler
  <2>. QED BY <2>1, <2>2, RotateType
<1>2. ASSUME NEW q \in Requests, q # r
      PROVE  /\ req'[q] = [req[q] EXCEPT !.alone = req'[q].alone]
             /\ req'[q].pc = req[q].pc /\ req'[q].call = req[q].call
             /\ req'[q].list = req[q].list /\ req'[q].attempt = req[q].attempt
  <2>1. req[q] \in Handler /\ req'[q] = [req[q] EXCEPT !.alone = FALSE]
    BY <1>2 DEF TypeOK, Rotate
  <2>. QED BY <2>1 DEF Handler
<1>3. Attempts(r) \in Nat /\ Attempts(r) <= MaxTurns
  <2>1. MaxTurns = MaxRetries + Cardinality(Nodes)
    BY DEF MaxTurns
  <2>. QED BY <1>0, <2>1 DEF Attempts
<1>4. req[r].attempt < MaxTurns
  BY <1>0, <1>3
<1>5. StepsLeft(req'[r]) < StepsLeft(req[r])
  <2>1. Stage(req[r]) = 6 /\ Stage(req'[r]) \in {7, 14}
    <3>1. "prefill" \in Calls
      BY DEF Calls, OnFailure
    <3>2. req[r] \in Handler /\ req'[r] \in Handler
      BY <1>1 DEF TypeOK
    <3>. QED BY <1>1, <3>1, <3>2, StageOf, CallStages DEF At
  <2>2. StepsLeft(req[r]) = 9 * (MaxTurns - req[r].attempt) + 6
    BY <2>1 DEF StepsLeft, At
  <2>3. StepsLeft(req'[r]) = 9 * (MaxTurns - (req[r].attempt + 1)) + Stage(req'[r])
    BY <1>1 DEF StepsLeft
  <2>4. \A a \in Nat, s \in {7, 14} : 9 * (MaxTurns - (a + 1)) + s < 9 * (MaxTurns - a) + 6
    BY <1>0
  <2>. QED BY <1>0, <2>1, <2>2, <2>3, <2>4
<1>6. TurnsInv'
  <2>1. Attempts(r)' = Attempts(r)
    BY <1>1 DEF Attempts
  <2>2. /\ req'[r].attempt \in 0..MaxTurns /\ Len(req'[r].list) <= Cardinality(Nodes)
        /\ Looping(r)' => req'[r].attempt <= Attempts(r)'
        /\ Paired(r)' => req'[r].attempt <= MaxRetries
    <3>1. Looping(r)' => pc = "dial"
      BY <1>1 DEF Looping
    <3>2. Paired(r)' => pc = "prefill"
      BY <1>1 DEF Paired
    <3>. QED BY <1>0, <1>1, <1>3, <1>4, <2>1, <3>1, <3>2 DEF At
  <2>3. \A q \in Requests : q # r =>
            /\ req'[q].attempt \in 0..MaxTurns /\ Len(req'[q].list) <= Cardinality(Nodes)
            /\ Looping(q)' => req'[q].attempt <= Attempts(q)'
            /\ Paired(q)' => req'[q].attempt <= MaxRetries
    BY <1>2 DEF TurnsInv, Looping, Paired, Attempts
  <2>. QED BY <2>2, <2>3 DEF TurnsInv
<1>. QED BY <1>2, <1>5, <1>6 DEF Lowers

(* A request arrives with as many peers as it knows. *)
LEMMA ArriveLowers ==
    ASSUME TypeOK, Rounds, TurnsInv, NEW r \in Requests, Arrive(r)
    PROVE  Lowers(r) /\ TurnsInv'
<1>1. /\ At(r, "idle") /\ req[r].attempt = 0 /\ req'[r].attempt = 0
      /\ req'[r].pc \in {"entry", "pdattempt"} /\ \A q \in Requests : q # r => req'[q] = req[q]
  BY ArriveMoves DEF Arrive, Rounds, Round
<1>2. req' \in [Requests -> Handler]
  BY ArriveType DEF TypeOK
<1>3. Len(req'[r].list) \in Nat /\ Len(req'[r].list) <= Cardinality(Nodes)
  <2>1. CASE Mode1(topology)
    <3>1. PICK known \in SUBSET Nodes : \E list \in Listings(known) :
              req' = [req EXCEPT ![r].pc = "entry", ![r].top = topology, ![r].list = list,
                                 ![r].alone = TRUE]
      BY <2>1 DEF Arrive
    <3>2. PICK list \in Listings(known) :
              req' = [req EXCEPT ![r].pc = "entry", ![r].top = topology, ![r].list = list,
                                 ![r].alone = TRUE]
      BY <3>1
    <3>3. req'[r].list = list
      BY <3>2 DEF TypeOK, Handler
    <3>4. Cardinality(known) \in Nat /\ Cardinality(known) <= Cardinality(Nodes)
      BY NodesAssumption, FS_Subset, FS_CardinalityType
    <3>5. list \in Seq(Nodes) /\ list \in [1..Cardinality(known) -> known]
      BY ListingsAreSequences DEF Listings
    <3>6. Len(list) = Cardinality(known)
      BY <3>4, <3>5
    <3>. QED BY <3>3, <3>4, <3>6
  <2>2. CASE ~Mode1(topology)
    <3>1. req'[r].list = req[r].list
      BY <2>2 DEF Arrive, TypeOK, Handler
    <3>. QED BY <3>1 DEF TurnsInv, TypeOK, Handler
  <2>. QED BY <2>1, <2>2
<1>4. StepsLeft(req'[r]) < StepsLeft(req[r])
  <2>1. req[r] \in Handler /\ req'[r] \in Handler
    BY <1>2 DEF TypeOK
  <2>2. Stage(req[r]) = 15 /\ Stage(req'[r]) \in {6, 13}
    BY <1>1, <2>1, StageOf DEF At
  <2>3. StepsLeft(req[r]) = 9 * (MaxTurns - 0) + 15 /\ StepsLeft(req'[r]) = 9 * (MaxTurns - 0) + Stage(req'[r])
    BY <1>1, <2>2 DEF StepsLeft, At
  <2>. QED BY <2>2, <2>3, TurnsAreNat
<1>5. ASSUME NEW q \in Requests, q # r PROVE req'[q] = [req[q] EXCEPT !.alone = req'[q].alone]
  <2>1. req[q] \in Handler /\ req'[q] = req[q]
    BY <1>1, <1>5 DEF TypeOK
  <2>. QED BY <2>1 DEF Handler
<1>6. TurnsInv'
  <2>1. Attempts(r)' \in Nat /\ MaxRetries \in Nat /\ MaxTurns \in Nat
    BY <1>3, TurnsAreNat DEF Attempts
  <2>2. \A q \in Requests : q # r =>
            /\ req'[q].attempt \in 0..MaxTurns /\ Len(req'[q].list) <= Cardinality(Nodes)
            /\ Looping(q)' => req'[q].attempt <= Attempts(q)'
            /\ Paired(q)' => req'[q].attempt <= MaxRetries
    BY <1>1 DEF TurnsInv, Looping, Paired, Attempts
  <2>3. /\ req'[r].attempt \in 0..MaxTurns
        /\ Looping(r)' => req'[r].attempt <= Attempts(r)'
        /\ Paired(r)' => req'[r].attempt <= MaxRetries
    BY <1>1, <2>1
  <2>. QED BY <1>3, <2>2, <2>3 DEF TurnsInv
<1>. QED BY <1>4, <1>5, <1>6 DEF Lowers

(* A local call that fails, and one that is sent. *)
LEMMA FailureLowers ==
    ASSUME TypeOK, TurnsInv, NEW r \in Requests, NEW c \in Calls, Go(r, OnFailure[c]),
           At(r, c) \/ (req[r].pc \in {"sent", "spawn"} /\ req[r].call = c)
    PROVE  Lowers(r) /\ TurnsInv'
<1>. DEFINE pc == OnFailure[c]
            h == [req[r] EXCEPT !.pc = pc]
<1>0. /\ pc \in {"release", "attempt", "pdattempt", "giveup"} /\ pc \in PCs
      /\ CallStage[c] \in 5..14 /\ (pc = "release" => CallStage[c] - 3 > 7)
      /\ pc \in {"attempt", "pdattempt"} => CallStage[c] - 3 > 6
      /\ pc \in {"release", "attempt"} => c \in {"direct", "queue"}
      /\ pc = "pdattempt" => c \in {"prefill", "decode"}
      /\ c # "done"
  BY CallStages, PCsCovered
<1>1. req[r] \in Handler
  BY DEF TypeOK
<1>. HIDE DEF pc
<1>2. h \in Handler /\ h.pc = pc
  BY <1>0, <1>1 DEF Handler
<1>. HIDE DEF h
<1>3. Stage(h) = IF pc = "release" THEN 7 ELSE IF pc = "giveup" THEN 1 ELSE 6
  BY <1>0, <1>2, StageOf
<1>4. Stage(req[r]) \in {CallStage[c], CallStage[c] - 1, CallStage[c] - 3}
  BY <1>1, StageOf DEF At
<1>5. Stage(h) < Stage(req[r])
  BY <1>0, <1>3, <1>4
<1>6. req[r].pc # "done" /\ pc \notin {"done", "sent", "mark", "spawn", "prefill", "decode", "none", "pdlast"}
  BY <1>0 DEF At
<1>7. /\ pc \in {"idle", "entry", "claim", "second", "direct", "queue", "release", "attempt", "dial"} => Looping(r)
      /\ pc \in {"pdattempt", "prefill", "decode", "none", "pdlast"} => Paired(r)
  BY <1>0 DEF Looping, Paired, At
<1>. QED BY <1>0, <1>5, <1>6, <1>7, GoLowers DEF h, pc

LEMMA SendLowers ==
    ASSUME TypeOK, TurnsInv, NEW r \in Requests, Send(r)
    PROVE  Lowers(r) /\ TurnsInv'
<1>1. /\ req[r].pc \in Calls /\ req' = [req EXCEPT ![r].pc = "sent", ![r].call = req[r].pc]
      /\ "sent" \in PCs
  BY PCsCovered DEF Send, CallsLocal
<1>2. /\ req' \in [Requests -> Handler] /\ req'[r].pc = "sent" /\ req'[r].call = req[r].pc
      /\ req'[r].list = req[r].list /\ req'[r].attempt = req[r].attempt
      /\ \A q \in Requests : q # r => req'[q] = req[q]
  <2>. DEFINE h == [req[r] EXCEPT !.pc = "sent", !.call = req[r].pc]
  <2>1. req[r] \in Handler
    BY DEF TypeOK
  <2>2. h \in Handler /\ h.pc = "sent" /\ h.call = req[r].pc /\ h.list = req[r].list
        /\ h.attempt = req[r].attempt
    BY <1>1, <2>1 DEF Handler
  <2>3. req' = [req EXCEPT ![r] = h]
    BY <1>1
  <2>. HIDE DEF h
  <2>. QED BY <2>2, <2>3 DEF TypeOK
<1>3. Stage(req[r]) = CallStage[req[r].pc] /\ Stage(req'[r]) = CallStage[req[r].pc] - 1
  <2>1. req[r] \in Handler /\ req'[r] \in Handler
    BY <1>2 DEF TypeOK
  <2>. QED BY <1>1, <1>2, <2>1, StageOf
<1>4. CallStage[req[r].pc] \in 5..14 /\ req[r].pc # "done"
  BY <1>1, CallStages
<1>5. Stage(req'[r]) < Stage(req[r])
  BY <1>3, <1>4
<1>6. (Looping(r)' => Looping(r)) /\ (Paired(r)' => Paired(r))
  BY <1>2 DEF Looping, Paired
<1>7. req'[r].pc # "done"
  BY <1>2
<1>. QED BY <1>2, <1>4, <1>5, <1>6, <1>7, MoveLowers

LEMMA HandleLowers ==
    ASSUME TypeOK, Rounds, TurnsInv, NEW r \in Requests, Handle(r)
    PROVE  Lowers(r) /\ TurnsInv'
<1>1. req[r] \in Handler /\ req[r].call \in Calls
  BY DEF TypeOK, Handler
<1>2. ASSUME NEW pc \in PCs
      PROVE  LET s == Stage([req[r] EXCEPT !.pc = pc])
             IN  /\ pc \in Calls => s = CallStage[pc]
                 /\ pc = "mark" => s = CallStage[req[r].call] - 2
                 /\ pc = "spawn" => s = CallStage[req[r].call] - 3
                 /\ pc \in {"attempt", "pdattempt"} => s = 6
                 /\ pc = "second" => s = 11
  BY <1>1, StageAt
<1>3. /\ CallStage["direct"] = 11 /\ CallStage["queue"] = 10 /\ CallStage["last"] = 5
      /\ CallStage["prefill"] = 14 /\ CallStage["decode"] = 10
      /\ CallStage["none"] = 5 /\ CallStage["pdlast"] = 5
      /\ {"direct", "queue", "last", "prefill", "decode", "none", "pdlast"} \subseteq Calls
  BY DEF CallStage, Calls, OnFailure
<1>4. CASE NotReady(r)
  BY <1>4, FailureLowers DEF NotReady, CallsLocal, At
<1>5. CASE Send(r)
  BY <1>5, SendLowers
<1>6. CASE LocalAnswer(r)
  <2>1. CASE req[r].call = "prefill"
    <3>1. Go(r, "decode") /\ req[r].pc = "sent" /\ "decode" \in PCs
      BY <1>6, <2>1, PCsCovered DEF LocalAnswer, At
    <3>2. Stage(req[r]) = 13 /\ Stage([req[r] EXCEPT !.pc = "decode"]) = 10
      BY <1>1, <1>2, <1>3, <2>1, <3>1, StageOf
    <3>3. Stage([req[r] EXCEPT !.pc = "decode"]) < Stage(req[r])
      BY <3>2
    <3>4. Paired(r)
      BY <2>1, <3>1 DEF Paired
    <3>. QED BY <3>1, <3>3, <3>4, GoLowers
  <2>2. CASE req[r].call # "prefill"
    <3>1. Answer(r, OnSuccess[req[r].call]) /\ At(r, "sent") /\ req[r].pc # "done"
      BY <1>6, <2>2 DEF LocalAnswer, At
    <3>2. OnSuccess[req[r].call] \in {"release", "done"}
          /\ (OnSuccess[req[r].call] = "release" => req[r].call = "direct")
      BY <1>1, <2>2, CallStages
    <3>. QED BY <3>1, <3>2, AnswerLowers
  <2>. QED BY <2>1, <2>2
<1>7. CASE LocalRefusal(r)
  BY <1>1, <1>7, FailureLowers DEF LocalRefusal, At
<1>7b. CASE LocalBreaksOff(r)
  <2>1. CASE req[r].call \in Buffered
    BY <1>1, <1>7b, <2>1, FailureLowers DEF LocalBreaksOff, At
  <2>2. CASE req[r].call \notin Buffered
    <3>1. Answer(r, OnSuccess[req[r].call]) /\ At(r, "sent") /\ req[r].pc # "done"
      BY <1>7b, <2>2 DEF LocalBreaksOff, At
    <3>2. OnSuccess[req[r].call] \in {"release", "done"}
          /\ (OnSuccess[req[r].call] = "release" => req[r].call = "direct")
      BY <1>1, <2>2, CallStages DEF Buffered
    <3>. QED BY <3>1, <3>2, AnswerLowers
  <2>. QED BY <2>1, <2>2
<1>8. CASE LocalError(r)
  <2>1. Go(r, "mark") /\ req[r].pc = "sent" /\ "mark" \in PCs
    BY <1>8, PCsCovered DEF LocalError, At
  <2>2. Stage([req[r] EXCEPT !.pc = "mark"]) = CallStage[req[r].call] - 2
        /\ Stage(req[r]) = CallStage[req[r].call] - 1 /\ CallStage[req[r].call] \in 5..14
    BY <1>1, <1>2, <2>1, StageOf, CallStages
  <2>3. Stage([req[r] EXCEPT !.pc = "mark"]) < Stage(req[r])
    BY <2>2
  <2>. QED BY <2>1, <2>3, GoLowers
<1>9. CASE MarkNotReady(r)
  <2>1. Go(r, "spawn") /\ req[r].pc = "mark" /\ "spawn" \in PCs
    BY <1>9, PCsCovered DEF MarkNotReady, At
  <2>2. Stage([req[r] EXCEPT !.pc = "spawn"]) = CallStage[req[r].call] - 3
        /\ Stage(req[r]) = CallStage[req[r].call] - 2 /\ CallStage[req[r].call] \in 5..14
    BY <1>1, <1>2, <2>1, StageOf, CallStages
  <2>3. Stage([req[r] EXCEPT !.pc = "spawn"]) < Stage(req[r])
    BY <2>2
  <2>. QED BY <2>1, <2>3, GoLowers
<1>10. CASE SpawnChecker(r)
  BY <1>1, <1>10, FailureLowers DEF SpawnChecker, At
<1>11. CASE Entry(r)
  <2>1. /\ req'[r].pc \in {"claim", "second"} /\ req'[r].list = req[r].list
        /\ req'[r].attempt = req[r].attempt /\ req[r].pc = "entry"
        /\ req' \in [Requests -> Handler]
        /\ \A q \in Requests : q # r => req'[q] = req[q]
    <3>1. PICK pc \in {"claim", "second"} :
              req' = [req EXCEPT ![r].pc = pc, ![r].sawReady = vllmReady]
      BY <1>11 DEF Entry
    <3>2. pc \in PCs /\ vllmReady \in BOOLEAN /\ req[r].pc = "entry"
      BY <1>11, PCsCovered DEF Entry, TypeOK, At
    <3>. DEFINE h == [req[r] EXCEPT !.pc = pc, !.sawReady = vllmReady]
    <3>3. h \in Handler /\ h.pc = pc /\ h.list = req[r].list /\ h.attempt = req[r].attempt
      BY <1>1, <3>2 DEF Handler
    <3>4. req' = [req EXCEPT ![r] = h]
      BY <3>1
    <3>. HIDE DEF h
    <3>. QED BY <3>1, <3>2, <3>3, <3>4 DEF TypeOK
  <2>2. Stage(req[r]) = 13 /\ Stage(req'[r]) \in {11, 12}
    <3>1. req'[r] \in Handler
      BY <2>1
    <3>. QED BY <1>1, <2>1, <3>1, StageOf
  <2>3. Stage(req'[r]) < Stage(req[r]) /\ req[r].pc # "done" /\ req'[r].pc # "done"
    BY <2>1, <2>2
  <2>4. Looping(r) /\ ~Paired(r)'
    BY <2>1 DEF Looping, Paired
  <2>. QED BY <2>1, <2>3, <2>4, MoveLowers
<1>12. CASE Claim(r)
  <2>1. PICK pc \in {"second", "direct"} : Go(r, pc) /\ req[r].pc = "claim" /\ pc \in PCs
    BY <1>12, PCsCovered DEF Claim, At
  <2>2. Stage([req[r] EXCEPT !.pc = pc]) = 11 /\ Stage(req[r]) = 12
    BY <1>1, <1>2, <1>3, <2>1, StageOf
  <2>3. Stage([req[r] EXCEPT !.pc = pc]) < Stage(req[r]) /\ Looping(r)
    BY <2>1, <2>2 DEF Looping
  <2>. QED BY <2>1, <2>3, GoLowers
<1>13. CASE Second(r)
  <2>1. PICK pc \in {"queue", "attempt"} : Go(r, pc) /\ req[r].pc = "second" /\ pc \in PCs
    BY <1>13, PCsCovered DEF Second, At
  <2>2. Stage([req[r] EXCEPT !.pc = pc]) \in {6, 10} /\ Stage(req[r]) = 11
    BY <1>1, <1>2, <1>3, <2>1, StageOf
  <2>3. Stage([req[r] EXCEPT !.pc = pc]) < Stage(req[r]) /\ Looping(r)
    BY <2>1, <2>2 DEF Looping
  <2>. QED BY <2>1, <2>3, GoLowers
<1>14. CASE Release(r)
  <2>1. CASE req[r].answers > 0
    BY <1>14, <2>1, DoneLowers DEF Release, At
  <2>2. CASE ~(req[r].answers > 0)
    <3>1. Go(r, "attempt") /\ req[r].pc = "release" /\ "attempt" \in PCs
      BY <1>14, <2>2, PCsCovered DEF Release, At
    <3>2. Stage([req[r] EXCEPT !.pc = "attempt"]) = 6 /\ Stage(req[r]) = 7
      BY <1>1, <1>2, <3>1, StageOf
    <3>3. Stage([req[r] EXCEPT !.pc = "attempt"]) < Stage(req[r]) /\ Looping(r)
      BY <3>1, <3>2 DEF Looping
    <3>. QED BY <3>1, <3>3, GoLowers
  <2>. QED BY <2>1, <2>2
<1>15. CASE PickPeer(r)
  <2>1. /\ Rotate(r, req[r].list, "dial") /\ At(r, "attempt") /\ req[r].attempt < Attempts(r)
        /\ req[r].attempt \in Nat /\ req[r].list \in Seq(Nodes)
    BY <1>1, <1>15 DEF PickPeer, Handler
  <2>2. req[r].list # <<>>
    BY <2>1 DEF Attempts
  <2>3. req[r].list \in Seq(Nodes \cup {Self})
    BY <2>1
  <2>. QED BY <2>1, <2>2, <2>3, TurnLowers
<1>16. CASE Exhausted(r)
  <2>1. Go(r, "last") /\ req[r].pc = "attempt" /\ "last" \in PCs
    BY <1>16, PCsCovered DEF Exhausted, At
  <2>2. Stage([req[r] EXCEPT !.pc = "last"]) = 5 /\ Stage(req[r]) = 6
    BY <1>1, <1>2, <1>3, <2>1, StageOf
  <2>3. Stage([req[r] EXCEPT !.pc = "last"]) < Stage(req[r])
    BY <2>2
  <2>. QED BY <2>1, <2>3, GoLowers
<1>17. CASE PickPair(r)
  <2>1. CASE req[r].top.prefill = <<>> \/ req[r].top.decode = <<>>
    <3>1. Go(r, "none") /\ req[r].pc = "pdattempt" /\ "none" \in PCs
      BY <1>17, <2>1, PCsCovered DEF PickPair, At
    <3>2. Stage([req[r] EXCEPT !.pc = "none"]) = 5 /\ Stage(req[r]) = 6
      BY <1>1, <1>2, <1>3, <3>1, StageOf
    <3>3. Stage([req[r] EXCEPT !.pc = "none"]) < Stage(req[r]) /\ Paired(r)
      BY <3>1, <3>2 DEF Paired
    <3>. QED BY <3>1, <3>3, GoLowers
  <2>2. CASE ~(req[r].top.prefill = <<>> \/ req[r].top.decode = <<>>)
    <3>1. /\ Rotate(r, req[r].top.decode, "prefill") /\ At(r, "pdattempt")
          /\ req[r].attempt < MaxRetries /\ req[r].top.decode # <<>>
      BY <1>17, <2>2 DEF PickPair
    <3>2. req[r].top.decode \in Seq(Nodes \cup {Self})
      BY <1>1 DEF Handler, Topology
    <3>. QED BY <3>1, <3>2, TurnLowers
  <2>. QED BY <2>1, <2>2
<1>18. CASE PairsExhausted(r)
  <2>1. Go(r, "pdlast") /\ req[r].pc = "pdattempt" /\ "pdlast" \in PCs
    BY <1>18, PCsCovered DEF PairsExhausted, At
  <2>2. Stage([req[r] EXCEPT !.pc = "pdlast"]) = 5 /\ Stage(req[r]) = 6
    BY <1>1, <1>2, <1>3, <2>1, StageOf
  <2>3. Stage([req[r] EXCEPT !.pc = "pdlast"]) < Stage(req[r]) /\ Paired(r)
    BY <2>1, <2>2 DEF Paired
  <2>. QED BY <2>1, <2>3, GoLowers
<1>19. CASE PeerAnswers(r)
  <2>1. CASE At(r, "prefill")
    <3>1. Go(r, "decode") /\ req[r].pc = "prefill" /\ "decode" \in PCs
      BY <1>19, <2>1, PCsCovered DEF PeerAnswers, At
    <3>2. Stage([req[r] EXCEPT !.pc = "decode"]) = 10 /\ Stage(req[r]) = 14
      BY <1>1, <1>2, <1>3, <3>1, StageOf
    <3>3. Stage([req[r] EXCEPT !.pc = "decode"]) < Stage(req[r]) /\ Paired(r)
      BY <3>1, <3>2 DEF Paired
    <3>. QED BY <3>1, <3>3, GoLowers
  <2>2. CASE ~At(r, "prefill")
    <3>1. Answer(r, "done") /\ req[r].pc # "done"
      BY <1>19, <2>2 DEF PeerAnswers, CallsPeer, At
    <3>. QED BY <3>1, AnswerLowers
  <2>. QED BY <2>1, <2>2
<1>20. CASE PeerFails(r)
  <2>1. CASE At(r, "dial")
    <3>1. Go(r, "attempt") /\ req[r].pc = "dial" /\ "attempt" \in PCs
      BY <1>20, <2>1, PCsCovered DEF PeerFails, At
    <3>2. Stage([req[r] EXCEPT !.pc = "attempt"]) = 6 /\ Stage(req[r]) = 7
      BY <1>1, <1>2, <3>1, StageOf
    <3>3. Stage([req[r] EXCEPT !.pc = "attempt"]) < Stage(req[r]) /\ Looping(r)
      BY <3>1, <3>2 DEF Looping
    <3>. QED BY <3>1, <3>3, GoLowers
  <2>2. CASE ~At(r, "dial")
    <3>1. Go(r, "pdattempt") /\ req[r].pc \in {"prefill", "decode"} /\ "pdattempt" \in PCs
      BY <1>20, <2>2, PCsCovered DEF PeerFails, CallsPeer, At
    <3>2. Stage([req[r] EXCEPT !.pc = "pdattempt"]) = 6 /\ Stage(req[r]) \in {10, 14}
      BY <1>1, <1>2, <1>3, <3>1, StageOf
    <3>3. Stage([req[r] EXCEPT !.pc = "pdattempt"]) < Stage(req[r]) /\ Paired(r)
      BY <3>1, <3>2 DEF Paired
    <3>. QED BY <3>1, <3>3, GoLowers
  <2>. QED BY <2>1, <2>2
<1>21. CASE GiveUp(r)
  BY <1>21, AnswerLowers DEF GiveUp, At
<1>. QED BY <1>4, <1>5, <1>6, <1>7, <1>7b, <1>8, <1>9, <1>10, <1>11, <1>12, <1>13, <1>14,
            <1>15, <1>16, <1>17, <1>18, <1>19, <1>20, <1>21 DEF Handle

(* Nobody moves, or one request comes nearer to its end; a turn may end    *)
(* another's claim to an undisturbed round, which is history.              *)
RunsDown ==
    \A r \in Requests : \/ req'[r] = [req[r] EXCEPT !.alone = req'[r].alone]
                        \/ StepsLeft(req'[r]) < StepsLeft(req[r])

LEMMA RunsDownStep ==
    ASSUME TypeOK, Rounds, TurnsInv, [Next]_vars
    PROVE  RunsDown /\ TurnsInv'
<1>1. ASSUME NEW r \in Requests, Lowers(r) PROVE RunsDown
  BY <1>1 DEF Lowers, RunsDown
<1>2. CASE UNCHANGED req
  <2>1. RunsDown
    BY <1>2 DEF RunsDown, TypeOK, Handler
  <2>2. TurnsInv'
    BY <1>2 DEF TurnsInv, Looping, Paired, Attempts
  <2>. QED BY <2>1, <2>2
<1>3. ASSUME NEW r \in Requests, Arrive(r) \/ Handle(r) PROVE RunsDown /\ TurnsInv'
  BY <1>1, <1>3, ArriveLowers, HandleLowers
<1>4. ASSUME NEW r \in Requests, ClientLeaves(r) PROVE UNCHANGED req
  BY <1>4 DEF ClientLeaves
<1>5. ASSUME NEW r \in Requests, Reject(r) PROVE RunsDown /\ TurnsInv'
  BY <1>1, <1>5, AnswerLowers DEF Reject, At
<1>. QED BY <1>2, <1>3, <1>4, <1>5
         DEF Next, VllmUp, VllmDies, CheckerSees200, CheckerStores, SyncTopology, vars

(* A request is over after 9 * (MaxRetries + number of nodes) + 15 steps   *)
(* at most, whatever vLLM, the peers and the client do and however many    *)
(* requests move the shared index; and the loops stand at a count their    *)
(* tests look at, so that no handler is stuck beyond them                  *)
(* (proxy.go:654-660, the loops of handleProxyRequest).                    *)
THEOREM RequestsRunDown ==
    Spec => /\ [](\A r \in Requests : StepsLeft(req[r]) \in 0..(9 * MaxTurns + 15))
            /\ [][RunsDown]_vars
            /\ [](\A r \in Requests : /\ At(r, "attempt") => req[r].attempt <= Attempts(r)
                                      /\ At(r, "pdattempt") => req[r].attempt <= MaxRetries)
<1>. DEFINE Bound == 9 * MaxTurns + 15
            InBound == \A r \in Requests : StepsLeft(req[r]) \in 0..Bound
            IInv == TypeOK /\ Rounds /\ TurnsInv /\ InBound
<1>1. Init => IInv
  <2>. SUFFICES ASSUME Init PROVE IInv
    OBVIOUS
  <2>1. TypeOK /\ Rounds
    BY TypeInit DEF Init, Rounds, Round, Paired, At, Idle
  <2>2. \A r \in Requests : req[r].pc = "idle" /\ req[r].attempt = 0 /\ req[r].list = <<>>
    BY DEF Init, Idle
  <2>3. TurnsInv
    <3>1. Len(<<>>) = 0 /\ \A r \in Requests : Attempts(r) = 0
      BY <2>2 DEF Attempts
    <3>. QED BY <2>2, <3>1, TurnsAreNat DEF TurnsInv
  <2>4. ASSUME NEW r \in Requests PROVE StepsLeft(req[r]) = Bound
    <3>1. Stage(req[r]) = 15
      BY <2>1, <2>2, StageOf DEF TypeOK
    <3>. QED BY <2>2, <3>1, TurnsAreNat DEF StepsLeft
  <2>5. InBound
    BY <2>4, TurnsAreNat
  <2>. QED BY <2>1, <2>3, <2>5
<1>2. IInv /\ [Next]_vars => IInv' /\ RunsDown
  <2>. SUFFICES ASSUME IInv, [Next]_vars PROVE IInv' /\ RunsDown
    OBVIOUS
  <2>1. (TypeOK /\ Rounds)' /\ RunsDown /\ TurnsInv'
    BY TypeStep, RoundsStep, RunsDownStep
  <2>2. ASSUME NEW r \in Requests PROVE StepsLeft(req'[r]) \in 0..Bound
    <3>1. StepsLeft(req[r]) \in 0..Bound
      OBVIOUS
    <3>2. StepsLeft(req'[r]) = StepsLeft(req[r]) \/ StepsLeft(req'[r]) < StepsLeft(req[r])
      <4>1. CASE req'[r] = [req[r] EXCEPT !.alone = req'[r].alone]
        <5>1. req'[r].pc = req[r].pc /\ req'[r].call = req[r].call /\ req'[r].attempt = req[r].attempt
          BY <4>1 DEF TypeOK, Handler
        <5>. QED BY <5>1 DEF StepsLeft, Stage
      <4>. QED BY <2>1, <4>1 DEF RunsDown
    <3>3. StepsLeft(req'[r]) \in Nat
      <4>1. req'[r] \in Handler /\ req'[r].attempt \in 0..MaxTurns
        BY <2>1 DEF TypeOK, TurnsInv
      <4>2. CASE req'[r].pc = "done"
        BY <4>2 DEF StepsLeft
      <4>3. CASE req'[r].pc # "done"
        <5>1. Stage(req'[r]) \in 1..15
          BY <4>1, <4>3, StageType
        <5>. QED BY <4>1, <4>3, <5>1, TurnsAreNat DEF StepsLeft
      <4>. QED BY <4>2, <4>3
    <3>. QED BY <3>1, <3>2, <3>3, TurnsAreNat
  <2>. QED BY <2>1, <2>2
<1>3. IInv => InBound /\ (\A r \in Requests : /\ At(r, "attempt") => req[r].attempt <= Attempts(r)
                                              /\ At(r, "pdattempt") => req[r].attempt <= MaxRetries)
  BY DEF TurnsInv, At, Looping, Paired
<1>. HIDE DEF IInv
<1>. QED BY <1>1, <1>2, <1>3, PTL DEF Spec
=============================================================================
