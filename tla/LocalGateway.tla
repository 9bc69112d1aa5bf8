---------------------------- MODULE LocalGateway -----------------------------
(***************************************************************************)
(* A node's OpenAI-compatible gateway (LocalDispatcher, proxy.go): many    *)
(* requests at once share vllmReady, localBusy, decodeIndex and the last   *)
(* synchronised topology.  A request tries the local vLLM when it is free, *)
(* then the peers it knows in turn, then the local vLLM once more (Mode 1),*)
(* or a prefill peer followed by a decode peer (Mode 2).                   *)
(*                                                                         *)
(* One action is one access to shared state or one end of a call.  What a  *)
(* peer or vLLM answers is left open; bodies, headers, logs and pauses are *)
(* left out.  The local vLLM process and its failures are the environment. *)
(***************************************************************************)
EXTENDS Integers, Sequences, FiniteSets

CONSTANTS
    Requests,      \* client requests, each used once
    Nodes,         \* peers that serve inference
    Self,          \* this node's own id, as a topology may name it
    NoNode,
    Topologies,    \* what the hub may answer to /hub/api/cluster_topology
    RelayOnly,     \* Config.ServerMode.RelayOnly: no local vLLM
    MaxRetries,    \* 3 in the code
    MaxDeaths,     \* bound: how often the local vLLM dies
    MaxGone        \* bound: how many clients leave before they are answered

Topology == [together : BOOLEAN, prefill : Seq(Nodes \cup {Self}),
             decode : Seq(Nodes \cup {Self})]

ASSUME NodesAssumption ==
    IsFiniteSet(Nodes) /\ Self \notin Nodes /\ NoNode \notin Nodes \cup {Self}
ASSUME TopologiesAssumption == Topologies \subseteq Topology
ASSUME BoundsAssumption ==
    /\ RelayOnly \in BOOLEAN /\ MaxRetries \in Nat \ {0}
    /\ MaxDeaths \in Nat /\ MaxGone \in Nat

VARIABLES
    \* struct LocalDispatcher
    vllmReady, localBusy, decodeIndex, topology,
    checkers,   \* startVLLMHealthChecker goroutines between two polls
    verdicts,   \* those that have seen a 200 and have not stored it yet
    \* one handler per request
    req,
    \* the environment
    vllm,       \* the local vLLM process is up
    cut,        \* requests whose connection to it broke when it died
    gone,       \* requests whose client has left: their context is cancelled
    deaths

vars == <<vllmReady, localBusy, decodeIndex, topology, checkers, verdicts, req, vllm, cut,
          gone, deaths>>
localVars == <<vllmReady, localBusy, checkers, verdicts>>
routeVars == <<decodeIndex, topology>>
envVars == <<vllm, cut, gone, deaths>>

(* Where a handler calls the local vLLM, and where it goes on when the     *)
(* call fails and when it succeeds.                                        *)
OnFailure == [direct |-> "release", queue |-> "attempt", last |-> "giveup",
              prefill |-> "pdattempt", decode |-> "pdattempt", none |-> "giveup",
              pdlast |-> "giveup"]
OnSuccess == [direct |-> "release", queue |-> "done", last |-> "done",
              prefill |-> "decode", decode |-> "done", none |-> "done", pdlast |-> "done"]
Calls == DOMAIN OnFailure

(* The calls whose body is read to its end before anything is answered.    *)
Buffered == {"prefill", "decode", "none", "pdlast"}

PCs == Calls \cup {"idle", "entry", "claim", "second", "release", "attempt", "dial",
                   "pdattempt", "sent", "mark", "spawn", "giveup", "done"}

Handler == [pc : PCs,
            call : Calls,              \* the local call under way
            top : Topology,            \* the topology it read
            list : Seq(Nodes),         \* peerIDs
            attempt : Nat,             \* turns of the loop begun
            tried : SUBSET (Nodes \cup {Self}),   \* targets picked
            target : Nodes \cup {Self, NoNode},
            answers : Nat,             \* history: responses written to the client
            alone : BOOLEAN,           \* history: in Mode 1, nobody else has moved decodeIndex yet
            sawReady : BOOLEAN]        \* history: vllmReady held on arrival

Together == [together |-> TRUE, prefill |-> <<>>, decode |-> <<>>]

Idle == [pc |-> "idle", call |-> "direct", top |-> Together, list |-> <<>>, attempt |-> 0,
         tried |-> {}, target |-> NoNode, answers |-> 0, alone |-> FALSE, sawReady |-> FALSE]

TypeOK ==
    /\ vllmReady \in BOOLEAN /\ localBusy \in BOOLEAN
    /\ decodeIndex \in Nat /\ topology \in Topology
    /\ checkers \in Nat /\ verdicts \in Nat
    /\ req \in [Requests -> Handler]
    /\ vllm \in BOOLEAN /\ cut \in SUBSET Requests /\ gone \in SUBSET Requests
    /\ deaths \in Nat

Init ==
    /\ vllmReady = FALSE /\ localBusy = FALSE /\ decodeIndex = 0 /\ topology = Together
    /\ checkers = (IF RelayOnly THEN 0 ELSE 1) /\ verdicts = 0
    /\ req = [r \in Requests |-> Idle]
    /\ vllm = FALSE /\ cut = {} /\ gone = {} /\ deaths = 0

At(r, pc) == req[r].pc = pc
Go(r, pc) == req' = [req EXCEPT ![r].pc = pc]
-----------------------------------------------------------------------------
(* The engine comes up, never on a relay-only node. *)
VllmUp ==
    /\ ~vllm /\ ~RelayOnly
    /\ vllm' = TRUE
    /\ UNCHANGED <<localVars, routeVars, req, cut, gone, deaths>>

(* It dies, and the connections it had break. *)
VllmDies ==
    /\ vllm /\ deaths < MaxDeaths
    /\ vllm' = FALSE /\ deaths' = deaths + 1
    /\ cut' = cut \cup {r \in Requests : At(r, "sent")}
    /\ UNCHANGED <<localVars, routeVars, req, gone>>

ClientLeaves(r) ==
    /\ req[r].pc \notin {"idle", "done"} /\ r \notin gone /\ Cardinality(gone) < MaxGone
    /\ gone' = gone \cup {r}
    /\ UNCHANGED <<localVars, routeVars, req, vllm, cut, deaths>>

(* startVLLMHealthChecker: GET /health answers 200; any other outcome is   *)
(* another turn of its loop.                                               *)
CheckerSees200 ==
    /\ checkers > 0 /\ vllm
    /\ checkers' = checkers - 1 /\ verdicts' = verdicts + 1
    /\ UNCHANGED <<vllmReady, localBusy, routeVars, req, envVars>>

(* Later it stores its verdict and returns. *)
CheckerStores ==
    /\ verdicts > 0
    /\ verdicts' = verdicts - 1 /\ vllmReady' = TRUE
    /\ UNCHANGED <<localBusy, checkers, routeVars, req, envVars>>

(* syncTopologyLoop; a failed fetch or parse changes nothing. *)
SyncTopology ==
    /\ topology' \in Topologies
    /\ UNCHANGED <<localVars, decodeIndex, req, envVars>>
-----------------------------------------------------------------------------
(* A call to the local vLLM: proxyToLocalVLLMDirect, streamToLocalVLLM.    *)

CallsLocal(r) ==
    /\ req[r].pc \in Calls
    /\ At(r, "prefill") => req[r].top.prefill[1] = Self
    /\ At(r, "decode") => req[r].target = Self

NotReady(r) ==
    /\ CallsLocal(r) /\ ~vllmReady
    /\ Go(r, OnFailure[req[r].pc])
    /\ UNCHANGED <<localVars, routeVars, envVars>>

Send(r) ==
    /\ CallsLocal(r) /\ vllmReady
    /\ req' = [req EXCEPT ![r].pc = "sent", ![r].call = req[r].pc]
    /\ UNCHANGED <<localVars, routeVars, envVars>>

(* The client's response is written; a handler that returns keeps nothing  *)
(* but the history of it.                                                  *)
Answer(r, pc) ==
    LET answers == req[r].answers + 1
    IN  req' = [req EXCEPT ![r] = IF pc = "done"
                                  THEN [Idle EXCEPT !.pc = pc, !.answers = answers]
                                  ELSE [req[r] EXCEPT !.pc = pc, !.answers = answers]]

(* A response of any status is the client's, a prefill's is the handler's. *)
LocalAnswer(r) ==
    /\ At(r, "sent") /\ vllm /\ r \notin cut
    /\ IF req[r].call = "prefill" THEN Go(r, "decode") ELSE Answer(r, OnSuccess[req[r].call])
    /\ UNCHANGED <<localVars, routeVars, envVars>>

(* Buffered calls look into the body: an error in a prefill's, nothing in  *)
(* a fallback's.                                                           *)
LocalRefusal(r) ==
    /\ At(r, "sent") /\ vllm /\ r \notin cut
    /\ req[r].call \in {"prefill", "none", "pdlast"}
    /\ Go(r, OnFailure[req[r].call])
    /\ UNCHANGED <<localVars, routeVars, envVars>>

(* The body breaks off behind the status.  A direct call has written what  *)
(* there was and has answered; a buffered one fails, and vLLM keeps the    *)
(* trust it has (proxy.go:502).                                            *)
LocalBreaksOff(r) ==
    /\ At(r, "sent")
    /\ cut' = cut \ {r}
    /\ IF req[r].call \in Buffered THEN Go(r, OnFailure[req[r].call])
       ELSE Answer(r, OnSuccess[req[r].call])
    /\ UNCHANGED <<localVars, routeVars, vllm, gone, deaths>>

(* Do returns an error: vLLM is gone, or the client's context is. *)
LocalError(r) ==
    /\ At(r, "sent") /\ (~vllm \/ r \in cut \/ r \in gone)
    /\ cut' = cut \ {r}
    /\ Go(r, "mark")
    /\ UNCHANGED <<localVars, routeVars, vllm, gone, deaths>>

(* Seeded fault: the trust is withdrawn and no checker started. *)
MarkNotReadyOnly(r) ==
    /\ At(r, "mark")
    /\ vllmReady' = FALSE
    /\ Go(r, OnFailure[req[r].call])
    /\ UNCHANGED <<localBusy, checkers, verdicts, routeVars, envVars>>

MarkNotReady(r) ==
    /\ At(r, "mark")
    /\ vllmReady' = FALSE
    /\ Go(r, "spawn")
    /\ UNCHANGED <<localBusy, checkers, verdicts, routeVars, envVars>>

(* Seeded fault: only the holder of the slot starts a checker. *)
SpawnCheckerIfHolder(r) ==
    /\ At(r, "spawn")
    /\ checkers' = IF req[r].call = "direct" THEN checkers + 1 ELSE checkers
    /\ Go(r, OnFailure[req[r].call])
    /\ UNCHANGED <<vllmReady, localBusy, verdicts, routeVars, envVars>>

SpawnChecker(r) ==
    /\ At(r, "spawn")
    /\ checkers' = checkers + 1
    /\ Go(r, OnFailure[req[r].call])
    /\ UNCHANGED <<vllmReady, localBusy, verdicts, routeVars, envVars>>
-----------------------------------------------------------------------------
(* handleProxyRequest.                                                     *)

(* The orders in which ranging over a map may list the peers it knows. *)
Listings(known) == {s \in [1..Cardinality(known) -> known] :
                        \A i, j \in DOMAIN s : i # j => s[i] # s[j]}

Mode1(top) == top.together \/ (top.prefill = <<>> /\ top.decode = <<>>)

(* A preflight is answered at once; so is a request that is no POST, whose *)
(* body cannot be read or holds no JSON.                                   *)
Reject(r) ==
    /\ At(r, "idle")
    /\ Answer(r, "done")
    /\ UNCHANGED <<localVars, routeVars, envVars>>

(* A request arrives, reads the topology and, in Mode 1, lists the peers   *)
(* seen in the last 90 s that serve inference.                             *)
Arrive(r) ==
    /\ At(r, "idle")
    /\ IF Mode1(topology)
       THEN \E known \in SUBSET Nodes : \E list \in Listings(known) :
                req' = [req EXCEPT ![r].pc = "entry", ![r].top = topology, ![r].list = list,
                                   ![r].alone = TRUE]
       ELSE req' = [req EXCEPT ![r].pc = "pdattempt", ![r].top = topology]
    /\ UNCHANGED <<localVars, routeVars, envVars>>

(* Mode 1: vllmReady.Load(), *)
Entry(r) ==
    /\ At(r, "entry")
    /\ req' = [req EXCEPT ![r].pc = IF vllmReady THEN "claim" ELSE "second",
                          ![r].sawReady = vllmReady]
    /\ UNCHANGED <<localVars, routeVars, envVars>>

(* Seeded fault: the slot is taken without comparing. *)
ClaimUnchecked(r) ==
    /\ At(r, "claim")
    /\ localBusy' = TRUE
    /\ Go(r, "direct")
    /\ UNCHANGED <<vllmReady, checkers, verdicts, routeVars, envVars>>

(* then localBusy.CompareAndSwap(false, true), *)
Claim(r) ==
    /\ At(r, "claim")
    /\ localBusy' = TRUE
    /\ Go(r, IF localBusy THEN "second" ELSE "direct")
    /\ UNCHANGED <<vllmReady, checkers, verdicts, routeVars, envVars>>

(* or the Load of the else branch: queue for the local vLLM when there is  *)
(* no one to hand the request to.                                          *)
Second(r) ==
    /\ At(r, "second")
    /\ Go(r, IF vllmReady /\ req[r].list = <<>> THEN "queue" ELSE "attempt")
    /\ UNCHANGED <<localVars, routeVars, envVars>>

(* Seeded fault: the handler goes on although the client has its answer. *)
ReleaseAndGoOn(r) ==
    /\ At(r, "release")
    /\ localBusy' = FALSE
    /\ Go(r, "attempt")
    /\ UNCHANGED <<vllmReady, checkers, verdicts, routeVars, envVars>>

(* localBusy.Store(false), whether the direct call succeeded or not. *)
Release(r) ==
    /\ At(r, "release")
    /\ localBusy' = FALSE
    /\ IF req[r].answers > 0
       THEN req' = [req EXCEPT ![r] = [Idle EXCEPT !.pc = "done", !.answers = req[r].answers]]
       ELSE Go(r, "attempt")
    /\ UNCHANGED <<vllmReady, checkers, verdicts, routeVars, envVars>>

(* Seeded fault: three attempts, however many peers there are. *)
AttemptsConstant(r) == IF req[r].list = <<>> THEN 0 ELSE MaxRetries

(* peerAttempts; a loop without peers does nothing. *)
Attempts(r) ==
    IF req[r].list = <<>> THEN 0
    ELSE IF Len(req[r].list) > MaxRetries THEN Len(req[r].list) ELSE MaxRetries

(* Seeded fault: turns are not counted. *)
RotateUncounted(r, targets, pc) ==
    /\ decodeIndex' = (decodeIndex + 1) % Len(targets)
    /\ req' = [req EXCEPT ![r].pc = pc, ![r].target = targets[decodeIndex' + 1]]

(* The next of the targets under d.mu; everyone else's round is disturbed. *)
Rotate(r, targets, pc) ==
    /\ decodeIndex' = (decodeIndex + 1) % Len(targets)
    /\ req' = [q \in Requests |->
                  IF q # r THEN [req[q] EXCEPT !.alone = FALSE]
                  ELSE [req[r] EXCEPT !.pc = pc, !.attempt = @ + 1,
                                      !.target = targets[decodeIndex' + 1],
                                      !.tried = @ \cup {targets[decodeIndex' + 1]}]]

PickPeer(r) ==
    /\ At(r, "attempt") /\ req[r].attempt < Attempts(r)
    /\ Rotate(r, req[r].list, "dial")
    /\ UNCHANGED <<localVars, topology, envVars>>

(* Seeded fault: the last resort is forgotten. *)
ExhaustedGivesUp(r) ==
    /\ At(r, "attempt") /\ req[r].attempt = Attempts(r)
    /\ Go(r, "giveup")
    /\ UNCHANGED <<localVars, routeVars, envVars>>

Exhausted(r) ==
    /\ At(r, "attempt") /\ req[r].attempt = Attempts(r)
    /\ Go(r, "last")
    /\ UNCHANGED <<localVars, routeVars, envVars>>

(* Mode 2: no prefill or no decode backend leaves the local vLLM; otherwise *)
(* the first prefill backend and the next decode backend.                   *)
PickPair(r) ==
    /\ At(r, "pdattempt") /\ req[r].attempt < MaxRetries
    /\ IF req[r].top.prefill = <<>> \/ req[r].top.decode = <<>>
       THEN Go(r, "none") /\ UNCHANGED decodeIndex
       ELSE Rotate(r, req[r].top.decode, "prefill")
    /\ UNCHANGED <<localVars, topology, envVars>>

PairsExhausted(r) ==
    /\ At(r, "pdattempt") /\ req[r].attempt = MaxRetries
    /\ Go(r, "pdlast")
    /\ UNCHANGED <<localVars, routeVars, envVars>>

CallsPeer(r) ==
    \/ At(r, "dial")
    \/ At(r, "prefill") /\ req[r].top.prefill[1] # Self
    \/ At(r, "decode") /\ req[r].target # Self

(* A peer serves the call: streamToPeerDirect (although its body may break *)
(* off behind the status), streamToPeer.                                   *)
PeerAnswers(r) ==
    /\ CallsPeer(r)
    /\ IF At(r, "prefill") THEN Go(r, "decode") ELSE Answer(r, "done")
    /\ UNCHANGED <<localVars, routeVars, envVars>>

(* It cannot be reached, breaks off, answers 5xx (Mode 1) or an error to a *)
(* prefill (Mode 2).                                                       *)
PeerFails(r) ==
    /\ CallsPeer(r)
    /\ Go(r, IF At(r, "dial") THEN "attempt" ELSE "pdattempt")
    /\ UNCHANGED <<localVars, routeVars, envVars>>

(* 502, or 503 when Mode 2 had no backends. *)
GiveUp(r) ==
    /\ At(r, "giveup")
    /\ Answer(r, "done")
    /\ UNCHANGED <<localVars, routeVars, envVars>>

Handle(r) ==
    \/ NotReady(r) \/ Send(r) \/ LocalAnswer(r) \/ LocalRefusal(r) \/ LocalBreaksOff(r)
    \/ LocalError(r) \/ MarkNotReady(r) \/ SpawnChecker(r)
    \/ Entry(r) \/ Claim(r) \/ Second(r) \/ Release(r)
    \/ PickPeer(r) \/ Exhausted(r) \/ PickPair(r) \/ PairsExhausted(r)
    \/ PeerAnswers(r) \/ PeerFails(r) \/ GiveUp(r)

Next ==
    \/ VllmUp \/ VllmDies \/ CheckerSees200 \/ CheckerStores \/ SyncTopology
    \/ \E r \in Requests : ClientLeaves(r) \/ Reject(r) \/ Arrive(r) \/ Handle(r)

Spec == Init /\ [][Next]_vars

(* A handler runs on and its calls end: vLLM answers or its connection     *)
(* breaks, libp2p's keep-alive closes the stream of a peer that is gone.   *)
(* A checker keeps polling.                                                *)
FairSpec ==
    /\ Spec
    /\ \A r \in Requests : WF_vars(Handle(r))
    /\ WF_vars(CheckerSees200) /\ WF_vars(CheckerStores)
-----------------------------------------------------------------------------
(* The handler has localBusy. *)
Holds(r) == \/ req[r].pc \in {"direct", "release"}
            \/ req[r].pc \in {"sent", "mark", "spawn"} /\ req[r].call = "direct"

(* The local slot is one request's at a time and is never left taken: it   *)
(* is busy exactly while one handler is in its direct call, whichever way  *)
(* the call ends (proxy.go:631-638).                                       *)
SlotHeldByOne ==
    /\ localBusy <=> \E r \in Requests : Holds(r)
    /\ \A r, q \in Requests : Holds(r) /\ Holds(q) => r = q

(* A node that is not relay-only and does not trust its vLLM has a checker *)
(* that will say when it may again, although checkers end as soon as one   *)
(* poll succeeds and requests withdraw the trust at any moment.            *)
AlwaysRechecked ==
    RelayOnly \/ vllmReady \/ checkers + verdicts > 0 \/ \E r \in Requests : At(r, "spawn")

(* Each request is answered once, on whichever of the paths; a client is   *)
(* never sent a second response and a handler never returns without one.   *)
AnsweredOnce ==
    \A r \in Requests : /\ req[r].answers <= 1
                        /\ At(r, "done") => req[r].answers = 1
                        /\ req[r].pc \in {"attempt", "dial", "last", "giveup"}
                               => req[r].answers = 0

(* The round-robin loop dials every peer of a request's list before it     *)
(* falls back, as long as no other request moves the shared index          *)
(* meanwhile (proxy.go:654-660).                                           *)
Dialled(r) == \A i \in DOMAIN req[r].list : req[r].list[i] \in req[r].tried
FullRoundIfAlone == \A r \in Requests : At(r, "last") /\ req[r].alone => Dialled(r)

(* While the local vLLM has never died and no client has left, a request   *)
(* that found it ready is not refused, however many requests crowd the     *)
(* slot and whichever peers fail.                                          *)
ServedWhileReady ==
    deaths = 0 /\ gone = {} =>
        \A r \in Requests : req[r].sawReady => ~At(r, "giveup")

(* Every request that arrives is answered. *)
EveryoneAnswered == \A r \in Requests : At(r, "entry") \/ At(r, "pdattempt") ~> At(r, "done")

(* When the local vLLM is up for good, the gateway comes to trust it again.*)
TrustReturns == <>[]vllm => []<>vllmReady

(* proxy.go:655: "before giving up, go round once": the claim without the  *)
(* proviso of FullRoundIfAlone.                                            *)
FullRound == \A r \in Requests : At(r, "last") => Dialled(r)
=============================================================================
