----------------------------- MODULE PeerCache ------------------------------
(***************************************************************************)
(* The hub's peer store: the in-memory PeerCache (peer_cache.go), its      *)
(* write-behind flush into peers.db (DBManager.BatchFlush, server_db.go),  *)
(* and the callers of both: gossip, libp2p connection callbacks, the       *)
(* dispatcher's credit, the health pings' audit events, the reset_stats    *)
(* handler, the periodic flusher, and App.Start / App.Stop.                *)
(*                                                                         *)
(* A call on the cache is one critical section of pc.mu, so one action.    *)
(* Flush is not: it copies under the lock, commits without it, and drains  *)
(* what it committed under the lock again.  Three goroutines call it: the  *)
(* ticker, the reset_stats handler and App.Stop, and nothing keeps one     *)
(* from starting while another is between its copy and its drain.          *)
(***************************************************************************)
EXTENDS PeerRecord, FiniteSets, Sequences

CONSTANTS
    Peers,          \* peer ids
    Reports,        \* the counters a gossip message may carry
    Work,           \* what one dispatched request may be credited as
    SeedSnapshots,  \* what the seed hub may answer at boot; all NoPeer: unreachable
    CounterCap,     \* bound: credits stop when a counter would pass this
    MaxEvents,      \* bound: audit events queued in one life of peer_events
    MaxResets,      \* bound: reset_stats calls
    MaxConns        \* bound: simultaneous libp2p connections to one peer

ASSUME PeersAssumption == NoPeer \notin Peers
ASSUME InputsAssumption == Reports \subseteq Counters /\ Work \subseteq Counters
ASSUME SeedAssumption ==
    /\ SeedSnapshots \subseteq [Peers -> MaybeRecord]
    /\ \A seed \in SeedSnapshots : \A p \in Known(seed) :
           ScoreJustified(seed[p]) /\ AddressTrusted(seed[p])
ASSUME BoundsAssumption ==
    CounterCap \in Nat /\ MaxEvents \in Nat /\ MaxResets \in Nat /\ MaxConns \in Nat

VARIABLES
    \* struct PeerCache
    peers,           \* [Peers -> MaybeRecord]
    pendingEvents,   \* ids of the audit events not yet drained, oldest first
    pendingDeletes,  \* removed peers whose row is still to be deleted
    wedged,          \* a panic left pc.mu locked for ever
    flush,           \* where each caller of Flush is, and its copies
    \* peers.db
    rows,            \* table peers
    eventLog,        \* table peer_events, in insertion order
    \* the process around them
    phase,           \* "boot", "running", "stopping", "stopped"
    conns,           \* open libp2p connections per peer
    \* history
    queued,          \* id of the last event queued (ids lost in a crash are reused)
    resetGen,        \* which reset the totals in the cache have seen
    rowGen,          \* which reset the totals in each row have seen
    durableGen,      \* the last reset whose handler saw its flush succeed
    answeredGen,     \* the last reset whose handler has answered
    overlapped,      \* two flushes have been in flight together
    warm,            \* every warm start so far has read the table
    atStop           \* the peers known when App.Stop was called

cacheVars == <<peers, pendingEvents, pendingDeletes>>
dbVars == <<rows, eventLog, rowGen>>
resetVars == <<resetGen, durableGen, answeredGen>>
lifeVars == <<phase, warm, atStop>>
vars == <<peers, pendingEvents, pendingDeletes, wedged, flush, rows, eventLog, phase,
          conns, queued, resetGen, rowGen, durableGen, answeredGen, overlapped, warm, atStop>>

Callers == {"ticker", "reset", "shutdown"}

NoPeers == [p \in Peers |-> NoPeer]
NoFlush == [pc |-> "idle", peers |-> NoPeers, events |-> <<>>, deletes |-> {}, gen |-> 0]
Begun(gen) == [pc |-> "begin", peers |-> NoPeers, events |-> <<>>, deletes |-> {}, gen |-> gen]

FlushState == [pc : {"idle", "begin", "copied", "drain"}, peers : [Peers -> MaybeRecord],
               events : Seq(Nat), deletes : SUBSET Peers, gen : Nat]

TypeOK ==
    /\ peers \in [Peers -> MaybeRecord]
    /\ pendingEvents \in Seq(Nat)
    /\ pendingDeletes \in SUBSET Peers
    /\ wedged \in BOOLEAN
    /\ flush \in [Callers -> FlushState]
    /\ rows \in [Peers -> MaybeRecord]
    /\ eventLog \in Seq(Nat)
    /\ phase \in {"boot", "running", "stopping", "stopped"}
    /\ conns \in [Peers -> Nat]
    /\ queued \in Nat
    /\ resetGen \in Nat
    /\ rowGen \in [Peers -> Nat]
    /\ durableGen \in Nat
    /\ answeredGen \in Nat
    /\ overlapped \in BOOLEAN
    /\ warm \in BOOLEAN
    /\ atStop \in SUBSET Peers

Init ==
    /\ peers = NoPeers /\ pendingEvents = <<>> /\ pendingDeletes = {} /\ wedged = FALSE
    /\ flush = [c \in Callers |-> NoFlush]
    /\ rows = NoPeers /\ eventLog = <<>>
    /\ phase = "boot" /\ conns = [p \in Peers |-> 0]
    /\ queued = 0 /\ resetGen = 0 /\ rowGen = [p \in Peers |-> 0]
    /\ durableGen = 0 /\ answeredGen = 0
    /\ overlapped = FALSE /\ warm = TRUE /\ atStop = {}

-----------------------------------------------------------------------------
(* Seeded faults: the transaction skips its DELETE; its INSERT keeps a row that is there. *)
OverlayNoDelete(table, snap, deletes) ==
    [p \in Peers |-> IF snap[p] # NoPeer THEN snap[p] ELSE table[p]]
OverlayInsertOnly(table, snap, deletes) ==
    [p \in Peers |-> IF p \in deletes THEN NoPeer
                     ELSE IF table[p] = NoPeer THEN snap[p] ELSE table[p]]

(* BatchFlush's transaction on the peers table: DELETE, then one UPSERT per peer.   *)
Overlay(table, snap, deletes) ==
    [p \in Peers |-> IF snap[p] # NoPeer THEN snap[p]
                     ELSE IF p \in deletes THEN NoPeer ELSE table[p]]

(* The mutex can be taken and the process still takes input. *)
Live == phase \in {"running", "stopping"} /\ ~wedged

(* App.Start before P2P.Start: syncPeerCacheFromSeed merges the seed hub's *)
(* snapshot into the warm-started cache and writes the result at once; the *)
(* write may fail.                                                         *)
Boot(seed, written) ==
    /\ phase = "boot"
    /\ phase' = "running"
    /\ peers' = [p \in Peers |-> Merged(peers[p], seed[p])]
    /\ rows' = IF written THEN Overlay(rows, peers', {}) ELSE rows
    /\ rowGen' = IF written
                 THEN [p \in Peers |-> IF peers'[p] # NoPeer THEN resetGen ELSE rowGen[p]]
                 ELSE rowGen
    /\ UNCHANGED <<pendingEvents, pendingDeletes, wedged, flush, eventLog, conns, queued,
                   resetVars, overlapped, warm, atStop>>

(* Seeded fault: the re-insert leaves the queued DELETE standing. *)
UpsertGossipNoCancel(p, report) ==
    /\ Live
    /\ peers' = [peers EXCEPT ![p] = AfterGossip(@, report)]
    /\ UNCHANGED <<pendingEvents, pendingDeletes, wedged, flush, dbVars, lifeVars, conns,
                   queued, resetVars, overlapped>>

(* A gossip broadcast from p.  (Its JOIN audit event is a QueueEvent.) *)
UpsertGossip(p, report) ==
    /\ Live
    /\ peers' = [peers EXCEPT ![p] = AfterGossip(@, report)]
    /\ pendingDeletes' = pendingDeletes \ {p}
    /\ UNCHANGED <<pendingEvents, wedged, flush, dbVars, lifeVars, conns, queued,
                   resetVars, overlapped>>

(* ConnNotifee.Connected. *)
Connected(p) ==
    /\ Live /\ phase = "running" /\ conns[p] < MaxConns
    /\ conns' = [conns EXCEPT ![p] = @ + 1]
    /\ peers' = [peers EXCEPT ![p] = AfterConnection(@)]
    /\ pendingDeletes' = pendingDeletes \ {p}
    /\ UNCHANGED <<pendingEvents, wedged, flush, dbVars, lifeVars, queued, resetVars,
                   overlapped>>

(* ConnNotifee.Disconnected: RemovePeer, whichever connection it was that  *)
(* closed.  While stopping, host.Close closes every connection and waits   *)
(* for these callbacks.                                                    *)
Disconnected(p) ==
    /\ Live /\ conns[p] > 0
    /\ conns' = [conns EXCEPT ![p] = @ - 1]
    /\ peers' = [peers EXCEPT ![p] = NoPeer]
    /\ pendingDeletes' = pendingDeletes \cup {p}
    /\ UNCHANGED <<pendingEvents, wedged, flush, dbVars, lifeVars, queued, resetVars,
                   overlapped>>

(* IncrementContribution / IncrementTokensDetail: no-op for an unknown peer. *)
Credit(p, work) ==
    /\ Live /\ peers[p] # NoPeer
    /\ peers[p].req < CounterCap /\ peers[p].tok + work.tok <= CounterCap
    /\ peers' = [peers EXCEPT ![p] = AfterCredit(@, work)]
    /\ UNCHANGED <<pendingEvents, pendingDeletes, wedged, flush, dbVars, lifeVars, conns,
                   queued, resetVars, overlapped>>

(* JOIN, RECOVERED_PENALTY, FAIL_INCREMENT and WARNING_OFFLINE all arrive here. *)
QueueEvent ==
    /\ Live /\ queued < MaxEvents
    /\ queued' = queued + 1
    /\ pendingEvents' = Append(pendingEvents, queued + 1)
    /\ UNCHANGED <<peers, pendingDeletes, wedged, flush, dbVars, lifeVars, conns,
                   resetVars, overlapped>>

(* POST /hub/api/debug/reset_stats: zero every cached total; Flush comes next. *)
ResetStats ==
    /\ Live /\ flush["reset"].pc = "idle" /\ resetGen < MaxResets
    /\ peers' = [p \in Peers |-> IF peers[p] = NoPeer THEN NoPeer ELSE Zeroed(peers[p])]
    /\ resetGen' = resetGen + 1
    /\ flush' = [flush EXCEPT !["reset"] = Begun(resetGen + 1)]
    /\ UNCHANGED <<pendingEvents, pendingDeletes, wedged, dbVars, lifeVars, conns, queued,
                   durableGen, answeredGen, overlapped>>
-----------------------------------------------------------------------------
(* The ticker may flush whenever the process is up: after StopFlusher a    *)
(* tick that is already due can still win the select.  The other callers   *)
(* flush once per call.                                                    *)
MayCopy(c) == IF c = "ticker" THEN flush[c].pc = "idle" /\ Live
              ELSE flush[c].pc = "begin" /\ ~wedged

(* Seeded fault: only the queues are looked at, and a cache whose records  *)
(* have changed counts as clean.                                           *)
QueuesEmpty == pendingEvents = <<>> /\ pendingDeletes = {}
NothingToFlush == Known(peers) = {} /\ pendingEvents = <<>> /\ pendingDeletes = {}

InFlight(c) == flush[c].pc \in {"copied", "drain"}

(* Seeded fault: the copy forgets the queued deletes. *)
FlushCopyNoDeletes(c) ==
    /\ MayCopy(c) /\ ~NothingToFlush
    /\ flush' = [flush EXCEPT ![c] = [pc |-> "copied", peers |-> peers,
                     events |-> pendingEvents, deletes |-> {}, gen |-> resetGen]]
    /\ overlapped' = (overlapped \/ \E d \in Callers \ {c} : InFlight(d))
    /\ UNCHANGED <<cacheVars, wedged, dbVars, lifeVars, conns, queued, resetVars>>

(* Flush, first critical section. *)
FlushCopy(c) ==
    /\ MayCopy(c) /\ ~NothingToFlush
    /\ flush' = [flush EXCEPT ![c] = [pc |-> "copied", peers |-> peers,
                     events |-> pendingEvents, deletes |-> pendingDeletes, gen |-> resetGen]]
    /\ overlapped' = (overlapped \/ \E d \in Callers \ {c} : InFlight(d))
    /\ UNCHANGED <<cacheVars, wedged, dbVars, lifeVars, conns, queued, resetVars>>

(* What a return from Flush means to its caller.  The reset_stats handler  *)
(* logs an error and answers "ok" all the same.                            *)
Return(c, ok) ==
    /\ flush' = [flush EXCEPT ![c] = NoFlush]
    /\ phase' = IF c = "shutdown" THEN "stopped" ELSE phase
    /\ durableGen' = IF c = "reset" /\ ok THEN Larger(durableGen, flush[c].gen) ELSE durableGen
    /\ answeredGen' = IF c = "reset" THEN Larger(answeredGen, flush[c].gen) ELSE answeredGen

FlushNothing(c) ==
    /\ MayCopy(c) /\ c # "ticker" /\ NothingToFlush
    /\ Return(c, TRUE)
    /\ UNCHANGED <<cacheVars, wedged, dbVars, conns, queued, resetGen, overlapped, warm,
                   atStop>>

(* BatchFlush, one transaction; nothing holds pc.mu. *)
Commit(c) ==
    /\ flush[c].pc = "copied" /\ phase # "stopped"
    /\ rows' = Overlay(rows, flush[c].peers, flush[c].deletes)
    /\ rowGen' = [p \in Peers |-> IF flush[c].peers[p] # NoPeer THEN flush[c].gen
                                  ELSE IF p \in flush[c].deletes THEN 0 ELSE rowGen[p]]
    /\ eventLog' = eventLog \o flush[c].events
    /\ flush' = [flush EXCEPT ![c].pc = "drain"]
    /\ UNCHANGED <<cacheVars, wedged, lifeVars, conns, queued, resetVars, overlapped>>

(* Seeded fault: an error empties the queue. *)
CommitFailsAndDrains(c) ==
    /\ flush[c].pc = "copied"
    /\ Return(c, FALSE)
    /\ pendingEvents' = <<>>
    /\ UNCHANGED <<peers, pendingDeletes, wedged, dbVars, conns, queued, resetGen,
                   overlapped, warm, atStop>>

(* BatchFlush fails and rolls back: both queues stay for the next flush. *)
CommitFails(c) ==
    /\ flush[c].pc = "copied"
    /\ Return(c, FALSE)
    /\ UNCHANGED <<cacheVars, wedged, dbVars, conns, queued, resetGen, overlapped, warm,
                   atStop>>

InBounds(c) == Len(flush[c].events) <= Len(pendingEvents)

(* Seeded faults: the drain empties a queue instead of dropping what was committed. *)
DrainAllEvents(c) ==
    /\ flush[c].pc = "drain" /\ ~wedged /\ InBounds(c)
    /\ pendingEvents' = <<>>
    /\ pendingDeletes' = pendingDeletes \ flush[c].deletes
    /\ Return(c, TRUE)
    /\ UNCHANGED <<peers, wedged, dbVars, conns, queued, resetGen, overlapped, warm, atStop>>
DrainAllDeletes(c) ==
    /\ flush[c].pc = "drain" /\ ~wedged /\ InBounds(c)
    /\ pendingEvents' = SubSeq(pendingEvents, Len(flush[c].events) + 1, Len(pendingEvents))
    /\ pendingDeletes' = {}
    /\ Return(c, TRUE)
    /\ UNCHANGED <<peers, wedged, dbVars, conns, queued, resetGen, overlapped, warm, atStop>>

(* Flush, second critical section: drop what was committed. *)
Drain(c) ==
    /\ flush[c].pc = "drain" /\ ~wedged /\ InBounds(c)
    /\ pendingEvents' = SubSeq(pendingEvents, Len(flush[c].events) + 1, Len(pendingEvents))
    /\ pendingDeletes' = pendingDeletes \ flush[c].deletes
    /\ Return(c, TRUE)
    /\ UNCHANGED <<peers, wedged, dbVars, conns, queued, resetGen, overlapped, warm, atStop>>
-----------------------------------------------------------------------------
(* The process ends and is started again: memory is gone, NewApp's warm    *)
(* start loads the rows it can read, none when reading the table fails.    *)
NewLife(readable) ==
    /\ phase' = "boot" /\ warm' = (warm /\ Known(rows) \subseteq readable)
    /\ peers' = [p \in Peers |-> IF p \in readable THEN rows[p] ELSE NoPeer]
    /\ pendingEvents' = <<>> /\ pendingDeletes' = {} /\ wedged' = FALSE
    /\ flush' = [c \in Callers |-> NoFlush]
    /\ conns' = [p \in Peers |-> 0]
    /\ queued' = Len(eventLog) /\ resetGen' = durableGen /\ atStop' = {}
    /\ UNCHANGED <<dbVars, durableGen, answeredGen, overlapped>>

(* A hard crash, the TUI's q key (main returns without App.Stop), or the   *)
(* end of a process that was stopped.                                      *)
Restart == \E readable \in SUBSET Peers : NewLife(readable)

(* pendingEvents[n:] beyond the slice panics with pc.mu held.  net/http    *)
(* recovers in the handler and leaves the mutex locked; elsewhere the      *)
(* panic ends the process.                                                 *)
DrainPanics(c) ==
    /\ flush[c].pc = "drain" /\ ~wedged /\ ~InBounds(c)
    /\ \/ /\ c = "reset"
          /\ wedged' = TRUE
          /\ flush' = [flush EXCEPT ![c] = NoFlush]
          /\ UNCHANGED <<cacheVars, dbVars, lifeVars, conns, queued, resetVars, overlapped>>
       \/ c # "reset" /\ \E readable \in SUBSET Peers : NewLife(readable)

(* App.Stop on SIGINT or SIGTERM, up to P2P.Stop. *)
Stop ==
    /\ phase = "running"
    /\ phase' = "stopping"
    /\ atStop' = Known(peers)
    /\ UNCHANGED <<cacheVars, wedged, flush, dbVars, conns, queued, resetVars, overlapped,
                   warm>>

(* App.Stop after the host is closed: StopFlusher, then the final Flush. *)
FinalFlush ==
    /\ phase = "stopping" /\ flush["shutdown"].pc = "idle"
    /\ \A p \in Peers : conns[p] = 0
    /\ flush' = [flush EXCEPT !["shutdown"].pc = "begin"]
    /\ UNCHANGED <<cacheVars, wedged, dbVars, lifeVars, conns, queued, resetVars, overlapped>>

FlushStep(c) ==
    \/ FlushCopy(c)
    \/ FlushNothing(c)
    \/ Commit(c)
    \/ CommitFails(c)
    \/ Drain(c)
    \/ DrainPanics(c)

Next ==
    \/ \E seed \in SeedSnapshots, written \in BOOLEAN : Boot(seed, written)
    \/ \E p \in Peers : \/ \E report \in Reports : UpsertGossip(p, report)
                        \/ Connected(p)
                        \/ Disconnected(p)
                        \/ \E work \in Work : Credit(p, work)
    \/ QueueEvent
    \/ ResetStats
    \/ Stop
    \/ FinalFlush
    \/ Restart
    \/ \E c \in Callers : FlushStep(c)

Spec == Init /\ [][Next]_vars

(* The behaviours in which callers of Flush take turns and every warm      *)
(* start reads the whole table: what the strong properties below assume.   *)
Orderly(A) == A /\ ~overlapped' /\ warm'

OrderlySpec == Init /\ [][Orderly(Next)]_vars

(* The ticker keeps ticking, a flush that has started runs on, and a       *)
(* database that fails a transaction does not fail every one after it.     *)
FlushFairness ==
    /\ WF_vars(Orderly(FlushCopy("ticker")))
    /\ \A c \in Callers : SF_vars(Orderly(Commit(c))) /\ WF_vars(Orderly(Drain(c)))

FairSpec == OrderlySpec /\ FlushFairness
-----------------------------------------------------------------------------
Serial == ~overlapped

(* A live peer never has a DELETE queued: every re-insert cancels it under *)
(* the same lock (peer_cache.go:60, 101).                                  *)
LiveNotDoomed == Known(peers) \cap pendingDeletes = {}

(* In the cache, in every copy of it and in the table, a score is never    *)
(* more than the counters beside it justify, and an address is marked      *)
(* verified exactly when it was observed on a connection.                  *)
RecordsSound ==
    \A map \in {peers, rows} \cup {flush[c].peers : c \in Callers} : \A p \in Known(map) :
        ScoreJustified(map[p]) /\ AddressTrusted(map[p])

(* As long as flushes have not overlapped and every warm start read the    *)
(* whole table, every row belongs to a cached peer or to one whose DELETE is     *)
(* queued: no removed peer survives in peers.db to come back on a restart. *)
RowsCovered == Serial /\ warm => Known(rows) \subseteq Known(peers) \cup pendingDeletes

(* As long as flushes have not overlapped: peer_events holds every event   *)
(* queued and not lost in a crash, once and in order; what is pending      *)
(* continues it, starting with what a flush has committed and not yet      *)
(* drained; and a drain never reaches beyond the queue.                    *)
EventsExactlyOnce ==
    Serial =>
        /\ \A i \in 1..Len(eventLog) : eventLog[i] = i
        /\ \A i \in 1..Len(pendingEvents) :
               pendingEvents[i] = queued - Len(pendingEvents) + i
        /\ \A c \in Callers : flush[c].pc = "drain" => InBounds(c)
        /\ LET draining == {c \in Callers : flush[c].pc = "drain"}
           IN  \/ /\ draining = {}
                  /\ queued = Len(eventLog) + Len(pendingEvents)
               \/ \E c \in draining :
                      queued = Len(eventLog) + Len(pendingEvents) - Len(flush[c].events)

(* A commit makes the table equal to the cache at the moment of the copy:  *)
(* the incremental DELETE and UPSERT amount to replacing the table.        *)
CommitIsSnapshot ==
    [][\A c \in Callers :
           flush[c].pc = "copied" /\ flush'[c].pc = "drain" /\ Serial /\ warm
               => rows' = flush[c].peers]_vars

(* server_db.go:322: hub-observed totals are never rolled back by a stale  *)
(* broadcast; only a reset, a removal or a restart lowers them.            *)
TotalsNeverRollBack ==
    [][\A p \in Known(peers) :
           peers'[p] # NoPeer /\ resetGen' = resetGen /\ phase' # "boot"
               => /\ peers'[p].req >= peers[p].req
                  /\ peers'[p].tok >= peers[p].tok
                  /\ peers'[p].score >= peers[p].score]_vars

(* In orderly behaviours the cache and the table implement WriteBehind. *)
InTransit == {c \in Callers : flush[c].pc = "copied"}
Store == INSTANCE WriteBehind WITH
             live <- peers,
             disk <- rows,
             done <- \E c \in Callers : flush[c].pc = "drain",
             cut <- IF InTransit = {} THEN <<>>
                    ELSE <<flush[CHOOSE c \in InTransit : TRUE].peers>>
StoreSpec == Store!Spec

(* A queued event is written to peer_events, unless the process dies or stops    *)
(* first ("only a hard crash between flushes loses data").                 *)
Ended == phase \in {"boot", "stopped"}
EventsReachDisk ==
    \A e \in 1..MaxEvents :
        (\E i \in 1..Len(pendingEvents) : pendingEvents[i] = e)
            ~> ((\E i \in 1..Len(eventLog) : eventLog[i] = e) \/ Ended)

(* A removed peer's row is deleted, unless the peer comes back first. *)
DeletesReachDisk ==
    \A p \in Peers : p \in pendingDeletes ~> (rows[p] = NoPeer \/ peers[p] # NoPeer \/ Ended)

(* server_web.go:147-158: the reset_stats handler answers "ok" although its *)
(* flush failed.  A later flush then brings the reset to peers.db: rows     *)
(* with totals from before it are replaced, unless the process ends first.  *)
ResetsReachDisk ==
    \A g \in 1..MaxResets :
        resetGen >= g ~> ((\A p \in Known(rows) : rowGen[p] >= g) \/ Ended)
-----------------------------------------------------------------------------
(* Claims of the code's comments that its behaviour does not bear out. *)

(* peer_cache.go:152: "Every discrete event is preserved -- none are       *)
(* dropped or coalesced": an event leaves the queue only into peer_events, *)
(* unless the process dies.                                                *)
EveryEventPreserved ==
    [][\A i \in 1..Len(pendingEvents) :
           \/ phase' = "boot"
           \/ \E j \in 1..Len(pendingEvents') : pendingEvents'[j] = pendingEvents[i]
           \/ \E j \in 1..Len(eventLog') : eventLog'[j] = pendingEvents[i]]_vars

(* app.go:111: "a graceful shutdown never loses the accepted window": when *)
(* the final flush has succeeded, the peers known at App.Stop are in the   *)
(* table.                                                                  *)
ShutdownKeepsPeers ==
    [][flush["shutdown"].pc = "drain" /\ phase' = "stopped"
           => atStop \subseteq Known(rows)]_vars

(* server_web.go:147: "Persist immediately: ... a restart before it would  *)
(* reload the old totals": once the reset_stats handler has seen its flush *)
(* succeed, no row holds totals from before that reset.                    *)
ResetDurable == warm => \A p \in Known(rows) : rowGen[p] >= durableGen

(* The same of a reset the handler has answered with "ok", for flushes     *)
(* that take turns.                                                        *)
ResetAnswered == Serial /\ warm => \A p \in Known(rows) : rowGen[p] >= answeredGen
=============================================================================
