---------------------------- MODULE HubDispatch -----------------------------
(***************************************************************************)
(* A hub's own gateway (ProxyServer, server_proxy.go): the prefill and     *)
(* decode lists it derives from the peer cache, and the requests it sends  *)
(* to them.                                                                *)
(*                                                                         *)
(* The gossip subscriber, the gossip publisher (the hub hears itself), the *)
(* connection callbacks and the force_rank handler each reload the lists,  *)
(* and a reload is two critical sections: a snapshot of the cache, and the *)
(* store of what was made of it.  Requests hold one of a fixed number of   *)
(* slots, try a backend (or a prefill and a decode backend) up to          *)
(* MaxRetries times, and credit the peers that answered.                   *)
(*                                                                         *)
(* Of the cache this module keeps what the reload looks at: what is known  *)
(* of a peer, and its score in units of one credited request.              *)
(***************************************************************************)
EXTENDS Integers, Sequences, FiniteSets, SequencesExt

CONSTANTS
    Peers,        \* peer ids, as numbers: ids are ordered
    Hub,          \* this node's own id; libp2p refuses to dial it
    Relays,       \* peers that run with relay_only
    Requests,     \* client requests, each used once
    Clusters,     \* values of server_mode.cluster
    GossipScores, \* scores a gossip message may carry
    Slots,        \* 128 in the code
    MaxRetries,   \* 3 in the code
    MaxReloads,   \* bound: reloads under way at once
    MaxGone       \* bound: clients that leave before they are answered

Cluster == [prefill : Nat, decode : Nat]

ASSUME PeersAssumption ==
    Peers \subseteq Nat /\ IsFiniteSet(Peers) /\ Hub \in Peers /\ Relays \subseteq Peers
ASSUME RequestsAssumption == IsFiniteSet(Requests)
ASSUME ClustersAssumption == Clusters \subseteq Cluster
ASSUME BoundsAssumption ==
    /\ GossipScores \subseteq Nat /\ Slots \in Nat \ {0} /\ MaxRetries \in Nat
    /\ MaxReloads \in Nat /\ MaxGone \in Nat

VARIABLES
    cluster,          \* Config.ServerMode.Cluster, read at start and never written
    \* PeerCache, as far as a reload looks at it
    cache,            \* what is known of each peer
    score,
    \* struct ProxyServer
    prefillBackends, decodeBackends, decodeIndex,
    sem,              \* tokens in the channel
    \* the goroutines
    called,           \* reloads that have not taken their snapshot
    inHand,           \* what the reloads that have will store
    req,              \* one handler per request
    gone              \* requests whose context is cancelled

vars == <<cluster, cache, score, prefillBackends, decodeBackends, decodeIndex, sem, called,
          inHand, req, gone>>
cacheVars == <<cache, score>>
listVars == <<prefillBackends, decodeBackends>>
reloadVars == <<called, inHand>>

(* "unnamed": known from a connection only, no role and no GPU text yet. *)
Knowledge == {"absent", "unnamed", "inference", "relay"}

Calls == {"together", "prefill", "decode"}

Handler == [pc : Calls \cup {"idle", "waiting", "admitted", "attempt", "credit", "done"},
            attempt : Nat,
            backends : Seq(Peers),   \* picked in this attempt: prefill, then decode
            owed : Seq(Peers),       \* still to be credited
            paid : Seq(Peers),       \* history: credited
            served : BOOLEAN,        \* history: what this attempt got is an inference result
            answers : Nat,           \* history: responses written
            square : BOOLEAN]        \* history: on return, credit matched the answer

Idle == [pc |-> "idle", attempt |-> 0, backends |-> <<>>, owed |-> <<>>, paid |-> <<>>,
         served |-> TRUE, answers |-> 0, square |-> TRUE]

TypeOK ==
    /\ cluster \in Cluster
    /\ cache \in [Peers -> Knowledge] /\ score \in [Peers -> Nat]
    /\ prefillBackends \in Seq(Peers) /\ decodeBackends \in Seq(Peers) /\ decodeIndex \in Nat
    /\ sem \in 0..Slots
    /\ called \in Nat /\ inHand \in SUBSET Seq(Peers)
    /\ req \in [Requests -> Handler] /\ gone \in SUBSET Requests

Init ==
    /\ cluster \in Clusters
    /\ cache = [p \in Peers |-> "absent"] /\ score = [p \in Peers |-> 0]
    /\ prefillBackends = <<>> /\ decodeBackends = <<>> /\ decodeIndex = 0 /\ sem = 0
    /\ called = 0 /\ inHand = {}
    /\ req = [r \in Requests |-> Idle] /\ gone = {}

Together == cluster.prefill = 0 /\ cluster.decode = 0
-----------------------------------------------------------------------------
(* The peer cache, and the reloads that follow its changes.                *)

ReloadCalled == called + Cardinality(inHand) < MaxReloads /\ called' = called + 1

(* serverProcessGossipMessage, from a peer's broadcast or the hub's own. *)
Gossip(p) ==
    /\ cache' = [cache EXCEPT ![p] = IF p \in Relays THEN "relay" ELSE "inference"]
    /\ \E s \in GossipScores :
           score' = [score EXCEPT ![p] = IF s > @ THEN s ELSE @]
    /\ ReloadCalled
    /\ UNCHANGED <<cluster, listVars, decodeIndex, sem, inHand, req, gone>>

(* ConnNotifee.Connected. *)
Connected(p) ==
    /\ p # Hub
    /\ cache' = [cache EXCEPT ![p] = IF @ = "absent" THEN "unnamed" ELSE @]
    /\ ReloadCalled
    /\ UNCHANGED <<cluster, score, listVars, decodeIndex, sem, inHand, req, gone>>

(* ConnNotifee.Disconnected: no reload. *)
Disconnected(p) ==
    /\ p # Hub /\ cache[p] # "absent"
    /\ cache' = [cache EXCEPT ![p] = "absent"]
    /\ score' = [score EXCEPT ![p] = 0]
    /\ UNCHANGED <<cluster, listVars, decodeIndex, sem, reloadVars, req, gone>>

(* POST /hub/api/debug/force_rank. *)
ForceRank ==
    /\ ReloadCalled
    /\ UNCHANGED <<cluster, cacheVars, listVars, decodeIndex, sem, inHand, req, gone>>

Usable == {p \in Peers : cache[p] \notin {"absent", "relay"}}

(* Snapshot's order: score, then id. *)
Before(p, q) == score[p] > score[q] \/ (score[p] = score[q] /\ p < q)

(* A set's one list in that order. *)
Rankings(S) == {list \in [1..Cardinality(S) -> S] :
                   \A i, j \in DOMAIN list : i < j => Before(list[i], list[j])}

(* Seeded fault: relays are not filtered out. *)
ReadPeersUnfiltered ==
    /\ called > 0
    /\ called' = called - 1
    /\ inHand' = inHand \cup Rankings({p \in Peers : cache[p] # "absent"})
    /\ UNCHANGED <<cluster, cacheVars, listVars, decodeIndex, sem, req, gone>>

(* reloadBackendsFromDB up to p.mu: with nobody usable it returns. *)
ReadPeers ==
    /\ called > 0
    /\ called' = called - 1
    /\ inHand' = IF Usable = {} THEN inHand ELSE inHand \cup Rankings(Usable)
    /\ UNCHANGED <<cluster, cacheVars, listVars, decodeIndex, sem, req, gone>>

(* The first prefill_nodes peers; of the rest decode_nodes, or all of them *)
(* if that is zero.  With nobody left to decode, the prefill peers do.     *)
AtMost(n, list) == SubSeq(list, 1, IF Len(list) < n THEN Len(list) ELSE n)

PrefillOf(list) == IF Together THEN list ELSE AtMost(cluster.prefill, list)

RestOf(list) ==
    LET rest == SubSeq(list, cluster.prefill + 1, Len(list))
    IN  IF Together THEN <<>>
        ELSE IF cluster.decode > 0 THEN AtMost(cluster.decode, rest) ELSE rest

(* Seeded fault: the decode peers are counted from the first peer. *)
DecodeFromFirst(list) == IF Together THEN list ELSE AtMost(cluster.decode, list)

DecodeOf(list) == IF RestOf(list) = <<>> THEN PrefillOf(list) ELSE RestOf(list)

(* reloadBackendsFromDB under p.mu. *)
StoreBackends(list) ==
    /\ list \in inHand
    /\ inHand' = inHand \ {list}
    /\ prefillBackends' = PrefillOf(list) /\ decodeBackends' = DecodeOf(list)
    /\ UNCHANGED <<cluster, cacheVars, decodeIndex, sem, called, req, gone>>
-----------------------------------------------------------------------------
(* handleProxyRequest.                                                     *)

At(r, pc) == req[r].pc = pc

ClientLeaves(r) ==
    /\ req[r].pc \notin {"idle", "done"} /\ r \notin gone /\ Cardinality(gone) < MaxGone
    /\ gone' = gone \cup {r}
    /\ UNCHANGED <<cluster, cacheVars, listVars, decodeIndex, sem, reloadVars, req>>

Arrive(r) ==
    /\ At(r, "idle")
    /\ req' = [req EXCEPT ![r].pc = "waiting"]
    /\ UNCHANGED <<cluster, cacheVars, listVars, decodeIndex, sem, reloadVars, gone>>

(* Every return writes one response and gives the slot back. *)
Finish(r, ok) ==
    /\ sem' = sem - 1
    /\ req' = [req EXCEPT ![r] =
                  [Idle EXCEPT !.pc = "done", !.answers = req[r].answers + 1,
                               !.square = req[r].paid = IF ok THEN req[r].backends ELSE <<>>]]

(* p.sem <- struct{}{}, whether or not the client is still there; *)
Acquire(r) ==
    /\ At(r, "waiting") /\ sem < Slots
    /\ sem' = sem + 1
    /\ req' = [req EXCEPT ![r].pc = "admitted"]
    /\ UNCHANGED <<cluster, cacheVars, listVars, decodeIndex, reloadVars, gone>>

(* Seeded fault: an early return gives the slot back and its defer does again. *)
CheckReleasesTwice(r, wellFormed) ==
    /\ At(r, "admitted")
    /\ IF r \in gone \/ ~wellFormed
       THEN req' = [req EXCEPT ![r] = [Idle EXCEPT !.pc = "done", !.answers = 1]] /\ sem' = sem - 2
       ELSE req' = [req EXCEPT ![r].pc = "attempt"] /\ UNCHANGED sem
    /\ UNCHANGED <<cluster, cacheVars, listVars, decodeIndex, reloadVars, gone>>

(* then 499 for a client that has left, 400 for what is not JSON. *)
Check(r, wellFormed) ==
    /\ At(r, "admitted")
    /\ IF r \in gone \/ ~wellFormed THEN Finish(r, FALSE)
       ELSE req' = [req EXCEPT ![r].pc = "attempt"] /\ UNCHANGED sem
    /\ UNCHANGED <<cluster, cacheVars, listVars, decodeIndex, reloadVars, gone>>

Begin(r, pc, backends) ==
    req' = [req EXCEPT ![r].pc = pc, ![r].attempt = @ + 1, ![r].backends = backends,
                       ![r].served = TRUE]

(* Under p.mu: the next backend, *)
PickOne(r) ==
    /\ At(r, "attempt") /\ req[r].attempt < MaxRetries
    /\ Together /\ prefillBackends # <<>>
    /\ decodeIndex' = (decodeIndex + 1) % Len(prefillBackends)
    /\ Begin(r, "together", <<prefillBackends[decodeIndex' + 1]>>)
    /\ UNCHANGED <<cluster, cacheVars, listVars, sem, reloadVars, gone>>

(* or the first prefill backend and the next decode backend; *)
PickTwo(r) ==
    /\ At(r, "attempt") /\ req[r].attempt < MaxRetries
    /\ ~Together /\ prefillBackends # <<>> /\ decodeBackends # <<>>
    /\ decodeIndex' = (decodeIndex + 1) % Len(decodeBackends)
    /\ Begin(r, "prefill", <<prefillBackends[1], decodeBackends[decodeIndex' + 1]>>)
    /\ UNCHANGED <<cluster, cacheVars, listVars, sem, reloadVars, gone>>

(* 503 when there is none, *)
NoBackends(r) ==
    /\ At(r, "attempt") /\ req[r].attempt < MaxRetries
    /\ prefillBackends = <<>> \/ (~Together /\ decodeBackends = <<>>)
    /\ Finish(r, FALSE)
    /\ UNCHANGED <<cluster, cacheVars, listVars, decodeIndex, reloadVars, gone>>

(* 502 when every attempt has failed. *)
Exhausted(r) ==
    /\ At(r, "attempt") /\ req[r].attempt = MaxRetries
    /\ Finish(r, FALSE)
    /\ UNCHANGED <<cluster, cacheVars, listVars, decodeIndex, reloadVars, gone>>

Calling(r) == req[r].pc \in Calls
Target(r) == req[r].backends[IF At(r, "decode") THEN 2 ELSE 1]

(* StreamRequest fails: 499 if the client has left, otherwise a retry. *)
Broken(r) ==
    /\ Calling(r)
    /\ IF r \in gone THEN Finish(r, FALSE)
       ELSE req' = [req EXCEPT ![r].pc = "attempt"] /\ UNCHANGED sem
    /\ UNCHANGED <<cluster, cacheVars, listVars, decodeIndex, reloadVars, gone>>

(* Seeded fault: what the stages have cost is paid before they are known to succeed. *)
ErrorBodyPaid(r) ==
    /\ Calling(r) /\ Target(r) # Hub
    /\ req' = [req EXCEPT ![r].pc = "attempt", ![r].paid = Append(@, Target(r))]
    /\ UNCHANGED <<cluster, cacheVars, listVars, decodeIndex, sem, reloadVars, gone>>

(* The body is JSON with an "error": a retry. *)
ErrorBody(r) ==
    /\ Calling(r) /\ Target(r) # Hub
    /\ req' = [req EXCEPT ![r].pc = "attempt"]
    /\ UNCHANGED <<cluster, cacheVars, listVars, decodeIndex, sem, reloadVars, gone>>

(* Any other body counts as a result: an inference, or the plain text of a *)
(* peer that could not reach its own vLLM; the status is not looked at.    *)
AnyBody(r, inference) ==
    /\ Calling(r) /\ Target(r) # Hub
    /\ req' = [req EXCEPT ![r].pc = IF @ = "prefill" THEN "decode" ELSE "credit",
                          ![r].owed = IF At(r, "prefill") THEN @ ELSE req[r].backends,
                          ![r].served = @ /\ inference]
    /\ UNCHANGED <<cluster, cacheVars, listVars, decodeIndex, sem, reloadVars, gone>>

(* IncrementTokensDetail or IncrementContribution, once per stage; nothing *)
(* happens for a peer that is no longer known.                             *)
Credit(r) ==
    /\ At(r, "credit") /\ req[r].owed # <<>>
    /\ LET p == Head(req[r].owed)
       IN  /\ score' = IF cache[p] = "absent" THEN score ELSE [score EXCEPT ![p] = @ + 1]
           /\ req' = [req EXCEPT ![r].owed = Tail(@), ![r].paid = Append(@, p)]
    /\ UNCHANGED <<cluster, cache, listVars, decodeIndex, sem, reloadVars, gone>>

(* Seeded fault: the slot is not given back. *)
AnswerKeepsSlot(r) ==
    /\ At(r, "credit") /\ req[r].owed = <<>>
    /\ req' = [req EXCEPT ![r] = [Idle EXCEPT !.pc = "done", !.answers = req[r].answers + 1]]
    /\ UNCHANGED <<cluster, cacheVars, listVars, decodeIndex, sem, reloadVars, gone>>

Answer(r) ==
    /\ At(r, "credit") /\ req[r].owed = <<>>
    /\ Finish(r, TRUE)
    /\ UNCHANGED <<cluster, cacheVars, listVars, decodeIndex, reloadVars, gone>>

Handle(r) ==
    \/ Acquire(r)
    \/ \E wellFormed \in BOOLEAN : Check(r, wellFormed)
    \/ PickOne(r) \/ PickTwo(r) \/ NoBackends(r)
    \/ Exhausted(r) \/ Broken(r) \/ ErrorBody(r)
    \/ \E inference \in BOOLEAN : AnyBody(r, inference)
    \/ Credit(r) \/ Answer(r)

Next ==
    \/ \E p \in Peers : Gossip(p) \/ Connected(p) \/ Disconnected(p)
    \/ ForceRank
    \/ ReadPeers
    \/ \E list \in inHand : StoreBackends(list)
    \/ \E r \in Requests : ClientLeaves(r) \/ Arrive(r) \/ Handle(r)

Spec == Init /\ [][Next]_vars

(* The hub publishes, and hears itself, every 3 s (p2p.go:957); a reload   *)
(* that has started runs on; a call ends, because the peer's handler gives *)
(* its vLLM 60 s (p2p.go:489) and libp2p closes the stream of a dead peer; *)
(* senders blocked on a channel are served in turn.                        *)
FairSpec ==
    /\ Spec
    /\ WF_vars(Gossip(Hub)) /\ WF_vars(ReadPeers)
    /\ WF_vars(\E list \in inHand : StoreBackends(list))
    /\ \A r \in Requests : WF_vars(Handle(r))
-----------------------------------------------------------------------------
(* The semaphore counts the requests inside, whichever of the many returns *)
(* they leave by.                                                          *)
SlotsBalanced ==
    sem = Cardinality({r \in Requests : req[r].pc \notin {"idle", "waiting", "done"}})

(* A request is answered once; with a 200 each backend of the attempt that *)
(* succeeded has been credited once, otherwise nobody has: retries are     *)
(* never paid for (server_proxy.go:268-270).                               *)
PaidAsAnswered ==
    \A r \in Requests : At(r, "done") => req[r].answers = 1 /\ req[r].square

(* The two lists always come from one snapshot: no peer twice in a list,   *)
(* none in both unless the lists are the same, never more than the cluster *)
(* settings ask for, and decode peers wherever there are prefill peers.    *)
RolesSound ==
    LET P == prefillBackends  D == decodeBackends
    IN  /\ IsInjective(P) /\ IsInjective(D)
        /\ D = P \/ ToSet(P) \cap ToSet(D) = {}
        /\ P # <<>> => D # <<>>
        /\ ~Together => /\ Len(P) <= cluster.prefill
                        /\ cluster.decode > 0 /\ D # P => Len(D) <= cluster.decode

(* A peer that is gone, or known as a relay, for good leaves the lists for *)
(* good, unless nobody usable is left, whatever order the concurrent       *)
(* reloads store their lists in.                                           *)
Backends == ToSet(prefillBackends) \cup ToSet(decodeBackends)
UnusableLeave ==
    \A p \in Peers : <>[](p \notin Usable /\ Usable # {}) => <>[](p \notin Backends)

(* Every request is answered, although slots run out. *)
EveryoneAnswered == \A r \in Requests : At(r, "waiting") ~> At(r, "done")
-----------------------------------------------------------------------------
(* Claims of the code's comments that its behaviour does not bear out. *)

(* server_proxy.go:98: relay-only peers "must never become inference       *)
(* backends -- dispatching to them would always fail".                     *)
RelaysNeverBackends == Backends \cap Relays = {}

(* server_proxy.go:270: "crediting the serving peer(s)": credit is for     *)
(* peers that served the request.                                          *)
CreditIsForService == \A r \in Requests : req[r].paid # <<>> => req[r].served
=============================================================================
