# Verification of yuanyi

yuanyi joins machines with GPUs into a libp2p network that serves one
OpenAI-compatible API. Every node runs the same Go program; a node in *server
mode* is also a *hub*: it keeps a database of its peers and dispatches requests
to them. This directory holds TLA+ models of that program, TLC configurations
that check them on small instances, and proofs checked by TLAPS that carry the
main results over to every instance.

Source paths below are relative to `src/`.

## 1. The system

| Component | Source | State | Operations | Talks to |
|---|---|---|---|---|
| Peer cache and `peers.db` | `peer_cache.go`, `server_db.go` | map of peer records, queue of audit events, queue of removed ids, mutex; SQLite tables `peers`, `peer_events` | upsert from gossip / from a connection, remove, credit, health updates, queue an event, reset, flush, merge a seed's snapshot, snapshot | everyone on a hub |
| Hub dispatcher | `server_proxy.go` | prefill and decode lists, round-robin index, 128-slot semaphore | reload the lists, dispatch together or split, KV tunnel | peer cache; peers by stream |
| Local gateway | `proxy.go` | `vllmReady`, `localBusy`, round-robin index, last topology | health checkers, topology sync, dispatch of a request | local vLLM, peers, hub API |
| Hub pings, gossip intake, connection callbacks | `server_p2p.go` | none of its own | ping loop, `Connected`, `Disconnected`, gossip processing | peer cache, dispatcher |
| Network node | `p2p.go` | host, known peers with last-seen times, virtual IPs and listeners | gossip publish/subscribe every 3 s, keep-alive, streams for proxying and for the hub API | libp2p |
| Node statistics, telemetry | `tui.go`, `sys.go` | counters, `stats.json` | count, save every 5 s, reset, scrape vLLM metrics with keep-max | gateway, gossip |
| vLLM runner | `runner.go`, `process_*.go` | child process handle | start (with a delay), stop | the OS |
| Rank manager | `server_rank.go`, `scanGPUlevel.go` | lazily loaded GPU table | score, triggered recomputation | peer cache |
| Hub web API | `server_web.go` | none | `reset_stats`, `force_rank`, read-only routes | peer cache, dispatcher |
| Node web API, configuration | `web.go`, `config.go` | `config.json` and its backups | write, back up, restore, proxy to the hub API | statistics |
| Chat history | `chat_history.go`, `web-ui/src/composables/useChatState.js` | Markdown files; the browser's session list | write, list, read, delete | |
| App container | `app.go`, `main.go` | the services | start, stop, crash, restart | all |
| Web UI, logging, installers | `web-ui/`, `logger.go`, `install.*`, `serve_api.py` | | views, logs, scripts | |

**How they interact.** Every node gossips a record of itself every 3 s. A hub's
subscriber hands each record to the peer cache and makes the dispatcher reload
its lists; libp2p calls back on its own goroutines when a connection opens
(upsert, reload) or closes (remove). Dispatch credits the peers that answered in
the cache. A ticker flushes the cache to `peers.db`; so do the `reset_stats`
handler and `App.Stop`. A node's gateway asks the hub for the topology every few
seconds and sends requests to its own vLLM or to peers over streams.

**What is hard.** (1) `Flush` is two critical sections around a database
transaction, and three goroutines call it without coordination. (2) The cache
changes between the copy and the commit; the table must follow through two
queues, across failed transactions, crashes and restarts. (3) Gossip is a stale
counter from elsewhere; keep-max must not roll totals back, and a reset must not
be undone. (4) In both gateways many requests share readiness, a slot or a
semaphore, and a round-robin index, with many ways out of a handler. (5) Backend
lists are computed from one snapshot and stored later, by several goroutines.
(6) Clients leave, vLLM dies, peers fail at any point of a request.

**What makes each part right.** Peer cache: live peers are never deleted, the table
equals the cache at one earlier moment, events are logged once and in order, queued
work and a reset reach the disk, late if a flush fails (a reset should be durable
when it is answered, and is not in two cases, section 6). Hub dispatcher: slots
balance, exactly the peers of the answered attempt are credited, the lists are a
split of one snapshot and converge. Local gateway: the local slot is exclusive and
given back, distrust of vLLM is always rechecked, one answer per request, all peers
tried, vLLM is the last resort while it is healthy. Statistics: begun and finished
requests balance, a reset that was answered survives restarts and, in the order the
code asks for, late gossip; the hub catches up with what was counted. Health pings:
absolute values written seconds later still count failures and recoveries exactly,
as long as pings do not overlap. Network node: connections and local listeners are
repaired once their cause is gone. Hub query: an answer is found where there is one.
Runner: a stop that comes when the launch is over leaves no process; a container of
an earlier life does not keep the engine from starting (outside a container,
processes of an earlier life do: `runner.go:62-64`). Configuration: an acknowledged
save is lost only if its backup failed or was overwritten, or writes crossed; the
hub's listeners should get ports of their own. Chat history: a session reads back as
it was saved, but for pictures that could not be stored or whose format the reader
does not know. Rank manager: `top.json` is one whole, ordered ranking.

## 2. Modules

```
PeerRecord <- PeerCache <- MCPeerCache            (TLC)
                  ^   \--- INSTANCE WriteBehind   (abstract store)
                  PeerCacheProofs <- PeerStoreProofs            (TLAPS)
LocalGateway <- MCLocalGateway, GatewayProofs
HubDispatch  <- MCHubDispatch, HubDispatchProofs
PeerRecord <- NodeStats <- StatsProofs
NodeStats, HealthPings, NetworkNode, HubQuery, Runner, ConfigStore, ChatStore,
    RankManager <- MCNode                         (TLC)
Runner, HubQuery, NetworkNode, HealthPings, ConfigStore, RankManager
    <- ServiceProofs                              (TLAPS)
ChatStore <- ChatProofs                           (TLAPS)
MCNode, StatsProofs, ServiceProofs, ChatProofs <- NodeProofs              (TLAPS)
```

**`PeerRecord`** is one peer's record and the pure operations on it
(`AfterGossip`, `AfterConnection`, `AfterCredit`, `Merged`, `Zeroed`). Kept are
the address's provenance and the request, token and score columns; the score is
ten times the code's float. Columns that every report overwrites are left out,
and input and output tokens, which follow the same rule as their total.

**`PeerCache`** is the store. `peers`, `pendingEvents`, `pendingDeletes` are the
struct's fields, `rows` and `eventLog` the tables. Each cache method is one
action, since it is one critical section. `Flush` is `FlushCopy` (first critical
section), `Commit` or `CommitFails` (`BatchFlush`'s transaction) and `Drain`
(second one); `DrainPanics` is the slice expression going out of range, which
leaves the mutex locked when `net/http` recovers it. Callers are the ticker, the
reset handler and the shutdown. `Boot` is the merge of the seed hub's snapshot,
`Stop`/`Disconnected`/`FinalFlush` the order of `App.Stop`, `Restart` a crash,
an exit by the TUI's `q`, or a fresh start: the warm start gets the rows it can read,
which may be none (`scanPeers` skips the others). Audit events are numbered in the
order they are queued. `resetGen`, `rowGen`, `durableGen`, `answeredGen`,
`overlapped`, `warm`, `atStop` and `queued` are history variables.

**`WriteBehind`** is what the store promises: a live map, a disk that is only ever
replaced by the whole map of one earlier moment, and success reported only of a map
that has arrived there (`Acknowledge`, the drain). It knows nothing of deletion
queues, upserts and slices.

**`LocalGateway`** is a node's gateway. A handler's program counter names the
call it is in; `OnFailure` and `OnSuccess` say where each of the seven local
calls goes on. `Entry`, `Claim`, `Second` are the three separate loads and the
compare-and-swap of `proxy.go:631-652`; `MarkNotReady` and `SpawnChecker` are
two steps, as are a checker's poll and its store. `Reject` is what the handler answers
before it looks at the topology, `LocalBreaksOff` a body that ends early. Peers' and
vLLM's answers are left open.

**`HubDispatch`** is a hub's dispatcher with what it reads of the cache: what is
known of a peer (`unnamed` is one that connected and has not gossiped) and its
score. `ReloadCalled`, `ReadPeers`, `StoreBackends` split a reload at its two
critical sections; snapshots in hand may be stored in any order. Handlers hold a
semaphore token from `Acquire` to `Finish`. One credited stage is one unit of
score. The hub hears its own gossip, so it can be its own backend; libp2p
refuses to dial oneself, so such a call always fails (`Broken`).

The remaining modules are the parts of a node that share no state in these
models; each is a machine of its own.

**`NodeStats`** follows a node's totals through memory, `stats.json`, the wire and
the hub. `ServeOwn`, `PeerBegin`, `PeerEnd` are the counts of `recordMetrics` and of
the proxy stream handler (two separate steps, `p2p.go:482` and `506`);
`ScrapeRead`/`ScrapeMerge` the scraper; `SaveCopy`, `SaveTruncate`, `SaveWrite` a
saver, which copies under the lock and writes outside it, so that two writers may
interleave and a crash may leave an empty file; `NodeReset`, `HubReset` the two
resets; `GossipPublish`, `Deliver`, `Lose` the messages. The hub's columns also grow by
its own dispatcher (`HubCredit`) and by the snapshot of a seed (`SeedMerge`). `told` is
history: the node's and the hub's counts since their resets, and which order they came in.

**`HealthPings`** is the hub's ping loop. `Tick` copies the record into one
goroutine per peer; `Answers`/`Fails` is the stream, `SetPing`, `Heal`, `Worsen`
what the goroutine then writes. `Leave` and `Return` are the callbacks that
remove and re-create the record meanwhile. `tally` is history, what the pings have
found: a record made anew opens an account of its own, a ping finds for the account it
copied, and a ping that writes to a later record brings its account with it.

**`NetworkNode`** is a node's place in the mesh: `Start` with what it refuses and
forces (`Refused`, which includes a seed address that does not parse, and `Reach`), the passes of `keepAlive` (`PassBegins`, `PassGoesOn`,
`Visit` with `Redial`), gossip (`Hear`, with the listener it opens, and `Silent` after
90 s), `Stop`. Deaths, lost connections and other processes on a virtual
address are the environment's.

**`HubQuery`** is `FetchHubAPI`: the seeds asked in order under one deadline, while
nodes turn from hubs into plain, unreachable or silent ones and back.

**`Runner`** has `Runner.Start` in its three modes as the steps between its waits,
`Runner.Stop` as `RunnerStops` (with `killProcessTree`), and every end of the
program: the signal handler racing main's return, the Q key, a crash. `StartFails` is
docker or a program that cannot be started, `RayDies` and `VllmDies` a main process that
ends by itself. Processes of earlier lives are `orphans`; beside them a new Ray or vLLM
ends at once, which nobody notices.

**`ConfigStore`** is `config.json`. A save is `Post`, `MakeBackup`, `Truncate`,
`WriteAndAnswer`, without a lock; `Restore` is the same on a backup's content.
`BackupFails` goes on as the code does, `GiveUp` and `WriteFails` answer an error.
`record.exposed` is history, the contents that a failed backup, a backup of the same
name or a crossing write has left without protection.
`Boot` is `LoadOrCreateConfig` with `ServerPorts(ClientPorts(..))`, the two passes of
port fallbacks. A content is the number of the save it came with, and its ports.

**`ChatStore`** is one session: `Written` and `Read` are the Markdown format as it is
written and read back, line by line kind; a save is its images and then its file, a
delete its file and then its images, with requests in flight together. A picture is
one the reader knows, one of a format it does not (`odd`), or one that cannot be
stored (`lost`), which is skipped; `FileFails`, `RemoveFails` and `SweepFails` are the other
errors. The loops of
the format are recursive functions over lines, images and messages, so that they can
be proved about; `Words` is what a line, a link or a picture may say.

**`RankManager`** is the table downloaded once, `CalculateScore`, and the
ranking: copied and scored (`BeginUpdate`), written aside (`TruncateTmp`,
`WriteTmp`), renamed (`PublishTop`).

**`MCNode`** instantiates them for TLC. The variable `focus` chooses one part per
behaviour and the others stand still, so that the state space is the sum of the
parts and each is explored as if it were alone. Statistics come three times, with
their files, with the wire, and with what else changes the hub's record (`OnDisk`,
`OnWire`, `OnHub`), the configuration twice, with its handlers and with its ports.

Definitions marked "Seeded fault" are not part of any specification: each is the
form a definition would have with a plausible bug, and the property listed with
it in `PROJECT.json` fails when it takes the definition's place.

## 3. Runs

| Run | Instance | Shows |
|---|---|---|
| `PeerCache` | 1 peer, up to 2 connections, a seed hub, all three callers, overlapping, panics, failed boots and warm starts | a live peer is never queued for deletion; records are sound everywhere; totals only fall by a reset, a removal or a restart |
| `PeerCacheOrderly` | 1 peer, up to 2 connections, 2 events, a reset, callers take turns, warm starts read the table | rows are covered, commits are snapshots, events logged exactly once, `WriteBehind` implemented; queued events, deletes and a reset whose own flush failed reach the disk, or the process ends |
| `Gateway` | 2 requests, 2 peers, 4 topologies, one death of vLLM, one client leaving | slot, rechecking, one answer, full rounds, last resort |
| `GatewayLive` | 2 requests, 2 topologies, one death | every request is answered; trust in a vLLM that stays up returns |
| `HubDispatch` | 2 peers (the hub and a relay), 4 cluster settings, 2 requests, 1 slot, 2 attempts, 2 concurrent reloads, one client leaving | semaphore balance, credit matches the answer, list shape; unusable peers leave the lists; every request is answered |
| `NodeServices` | the eight parts of `MCNode`, about 307 000 states | the properties below |

| Property of `NodeServices` | Says | Excepts |
|---|---|---|
| `TallyBalanced` | finished plus served requests never exceed those begun, also from `stats.json` after a crash | a reset between the two counts of one request (`straddled`) |
| `ResetSurvivesAlone` | no restart undoes a reset that was answered | a reset during another save (`crossed`), see `ResetSurvives` in section 6 |
| `ResetInOrderHolds` | after node, then hub, were reset with no older message under way, the hub shows no more than the node has counted and the hub has credited since | any other order; the snapshot of a seed that was not reset |
| `GossipCatchesUp` | the hub gets to the node's requests and vLLM's tokens, whatever was lost or reordered and although vLLM restarts | |
| `HealthExact` | between pings a record holds one account's failures and one penalty per recovery, and a warning was queued when the threshold was reached, also when a ping outlived the record it copied | pings that overlap (`muddled`), see `OfflineWhenDue` |
| `RedialsFollowLife` | if all nodes stay up and a seed can be dialled, all get connected for good; a dead ordinary peer is left alone | |
| `TunnelsRecover` | a heard peer gets its listener once its address is free | of peers with one address, one does |
| `FailsOnlyWithoutHub` | a read fails only when no seed was a hub all the while | a silent seed used up the deadline |
| `StopLeavesNothing` | after `Runner.Stop` no engine process runs | it overtook `Start` (`raced`); vLLM's main process had died (`died`), see `StopEndsEngine` |
| `EngineComesBack` | in a program that goes on running vLLM comes to run, whatever container an earlier life left | something could not be started or ended by itself (`Unhurt`); without a container, processes of an earlier life |
| `NothingLost` | every acknowledged save is in `config.json` or a backup, through restores, failed or torn writes and crashes | a save that a failed backup, a backup of the same second or a crossing write has exposed (`exposed`), see `SavedAndBackedUp` |
| `ReadsBack` | a request that had the files to itself leaves nothing, or exactly its chat: stored pictures with their messages, the line of one whose format is not known | texts that look like the format (`Ambiguous`); pictures that were not stored are absent |
| `TopSound` | `top.json` is absent or one whole, ordered ranking of one copy of the cache | |

Each exception is something the code does not handle, recorded by history at the step
where it happens, so that everything short of it is checked. Where a comment or a
document promises the excepted case too, the promise is stated and shown to be broken:
six runs do, and eight more claims are refuted the same way (section 6).

**Bounds, and why they are enough.** Counters are capped by guards
(`CounterCap`, `MaxEvents`, `MaxResets`, `MaxConns`, `MaxDeaths`, `MaxGone`,
`MaxReloads`), so `Next` is unchanged below them. Records of different
peers in `PeerCache` interact only where a flush asks whether there is anything to
write and where one transaction writes them all; the runs have one peer, so that all
three callers may overlap freely and liveness stays in reach, and the theorems of
section 5 are about any set of peers. Two connections to a peer are
what it takes to remove one that is still connected. Two events suffice for a
drain to cut off the wrong one. Two requests suffice for every race over a
shared flag, index or slot, since each race is between one handler and one
other. `MaxRetries` is 1 in the gateway's runs where two peers already make the
loop longer, 2 at the hub, where the second attempt is what must not be paid.
The cluster settings include the boundary cases: no prefill node, more prefill
nodes than peers. A hub's `Relays` are never its own id. What is proved
(section 5) needs none of these bounds.

`NodeServices`: one request, token, reset of each kind and restart, and two messages
in flight, so that a message of before a reset can arrive after one from after it,
with two writers of `stats.json`; one credit of the hub and one snapshot of a seed
(`MaxCredits`, `MaxSeeds`); two pings of one peer in flight and a failure
threshold of 3, so that a streak can end below, at and beyond it, with one
recovery (`MaxPenalty`) and one departure of the peer; two other nodes of which one is
only reachable through the other, and both share a virtual address; three changes of
condition during a query over at most two seeds; two reboots, since orphans come from
the life before; two requests to the dashboard, two saves (`MaxSaves`), two seconds and
a restore, which is what it takes to overwrite a backup, to fail one, and to cross two
writes; up to two ports set at a time, at values that clash with each other or with a
fallback; two requests on a chat session and three in all, so that a save follows a
delete that was cut off; two ranked peers and one restart of the hub.

Deadlock is checked in every run but those of `MCNode`: a process can always be
restarted, the hub's topology always be read again, a reload always be finished. In
`NodeServices` and the violation runs on `MCNode` it is not: a node that refuses to
start, a query that is over and a launch that is done with nobody to stop it really
end, and so does a part whose bounds are used up.

## 4. Fairness

* `PeerCache!FairSpec` (flushes take turns, warm starts read the table): the ticker
  ticks for ever and a started flush runs on (weak fairness); a database that
  fails one transaction does not fail every later one (strong fairness of
  `Commit`). Input, resets, stops and crashes have none. The promises are
  conditional: the process may end first.
* `LocalGateway!FairSpec`: a handler runs on and its calls end (vLLM answers or
  its connection breaks; libp2p closes streams of dead peers); checkers poll for
  ever. That calls end is an assumption about vLLM and the peers: the HTTP calls have no
  timeout of their own (`proxy.go:246`, `433`, `495`), so a vLLM that hangs with its
  connection open keeps its request for as long as the client waits. vLLM has no fairness: it may never come up.
* `HubDispatch!FairSpec`: the hub publishes every 3 s and hears itself
  (`p2p.go:957`, `p2p.go:1070`), started reloads go on, a handler's call ends
  because the peer bounds its own vLLM call to 60 s (`p2p.go:489`), and Go serves
  senders blocked on a channel in turn. A client that does not send its body keeps its
  slot (`server_proxy.go:292`); the runs assume that bodies end. Weak fairness of "some reload stores" is
  all that is assumed of their order.
* `MCNode!Spec`, `StatsFairness`: the scraper and the publisher are tickers
  (weak); gossip to a connected hub gets through again and again (strong fairness of
  some delivery: any one message may be lost). `MeshFairness`: `Start` goes on,
  `keepAlive` is a ticker whose pass visits every peer, running nodes gossip, and
  90 s of silence pass. `EngineFairness`: `Runner.Start` and its goroutine go on.
  Resets, saves, signals, deaths, dials by others and operators have none.

## 5. Proofs

`tlapm` checks every theorem below for all values of the constants, under the
named assumptions of the modules: inputs have their types, the seed's snapshots
are sound records, `NoPeer` is no record, the nodes of a gateway are a finite set
that contains neither `Self` nor `NoNode`.

* **`PeerCacheProofs`**: `TypeCorrect`, `LiveNeverDoomed`,
  `RecordsAlwaysSound`, `TotalsOnlyGrow`. It begins with what each operation on a
  record preserves (type, `ScoreJustified`, `AddressTrusted`) and never lowers.
  `LiveNotDoomed` is inductive only with `BaseInv`: before `Boot` the queues are
  empty, two flushes are in flight only if `overlapped` says so, and a copy never
  both holds and deletes a peer.
* **`PeerStoreProofs`**: `RowsAlwaysCovered`, `CommitsAreSnapshots` and
  `StoreRefinesWriteBehind`, for flushes that take turns.
  `RowsCovered` needs more than the table: the copy in flight must be covered
  too, a commit must delete or rewrite every row that is there, and between
  commit and drain the table *is* the copy (`FlightCovered`). With that, every
  step maps to a step of `WriteBehind` or to a stutter; `BootFresh` says that the
  merge at start begins from what is on disk.
  `EventsLoggedExactlyOnce`: the copy is a prefix of the queue until its own drain
  (`CopyIsPrefix`), and log and queue together count every event once (`Balance`).
  `FlushesNeverPanic` follows: a drain that stays within the queue cannot panic with
  the mutex held (`peer_cache.go:320`), and nothing else wedges the cache
  (`WedgedByPanic`).
* **`GatewayProofs`**: all safety properties of `LocalGateway`, for any number of
  requests and peers. `SlotExclusive` and `DistrustIsRechecked` are inductive
  given the types. `AnsweredExactlyOnce` needs `Unanswered` (a handler that is
  neither done nor releasing has no answer). `ReadyMeansServed` needs
  `TrustDeserved`: while nothing has gone wrong, readiness is true, nobody is on
  the way to withdraw it, and a request that saw it is on the Mode 1 path.
  `UndisturbedRoundsAreFull` counts turns backwards from the shared index
  (`Back`): the peers the index stood at in the last `attempt` turns have been
  tried, so after `Len(list)` turns all have. `RequestsRunDown` is what there is of
  `EveryoneAnswered` without fairness: `StepsLeft` counts a turn of either loop as
  nine steps and each program counter as the steps to the end of its turn, every
  step of a handler lowers its count and no other step touches it, and `TurnsInv`
  keeps the turns within what the loops test for.
* **`HubDispatchProofs`**: all safety properties of `HubDispatch`, for any finite
  sets of peers and requests, any number of slots, attempts and reloads. The
  semaphore is counted by the handlers between `Acquire` and `Finish` (`SlotInv`:
  `sem = Cardinality(Holders)`). `PaidAsAnswered` needs `CreditInv`, which squares a
  handler's account at every program counter: nothing is paid outside the
  crediting steps, and there what is paid and what is owed make up the backends.
  `RolesSound` needs that snapshots in hand name no peer twice (`ListsInv`); the split
  of such a list is then sound (`SplitIsSound`). `RequestsRunDown` bounds the steps of
  a request here too (five to an attempt: two calls, two credits), and shows from
  `SlotInv` that requests never all wait for slots that nobody holds.
* **`StatsProofs`**: `TallyAlwaysBalanced`, `OrderedResetAlwaysHolds`,
  `AnsweredResetSurvives`. `TallyInv` extends the balance to `stats.json` and to the
  copies in the savers' hands, which a crash brings back; `OrderInv` bounds
  everything that carries the latest reset's number by the high mark of that
  reset, and the hub by that and its own credits; `SurvivesInv` says which copies may still be written.
* **`ServiceProofs`**: `EngineAlwaysStopped` (`EngineInv`: whatever runs is of a process
  that `Stop` knows), `LaunchNeverSpoiled` (with its files in place `Start` gives up
  only after `Stop`) and `EngineGetsUp` (both by `LaunchInv`: a launch in the container
  finds no older one there, then the container itself until `Stop`; when it is done vLLM
  runs, unless one of the provisos of `Unhurt` fails), `ReadsFindAHub`
  (`QueryInv`: a seed that was a hub all the while is still ahead), `QueriesRunDown`
  (`AskedInv`: only configured seeds are ahead, and no more than there are),
  `MeshOnlyMends` (`TunnelInv`: an entry of `activeProxies` always has its listener, so
  a failed attempt never blocks the next), `HealthAlwaysExact` (`PeerSound`: a single
  ping in flight carries the record's own values, adjusted by what the history already
  knows and the record does not; a ping of an earlier account is in flight alone, `Stray`),
  `SavesNeverLost` (`Covered`: a save that nothing exposed is on disk or in a backup, and a
  request past its backup has put what is on disk there), and
  `TopAlwaysSound` (`RankInv`, `OrdersRank`: what the sort guarantees of its input).
* **`ChatProofs`**: `FormatReadsBack`, that `Read` inverts `Written` for sessions of any
  length, any images and any texts that do not look like the format itself, up to what
  `Kept` says becomes of pictures that were not stored or are not known, and
  `SessionReadsBack`. The format is an induction
  over the messages, and within one over its images and the lines of its text; each
  takes the set of lengths for which the claim holds and shows, from the well-founded
  order on the naturals, that it is all of them (`SetInduction`). The loop's
  invariant is `Seen`: what the reader has made of the lines so far is what they were
  written from (`WriteMessageSeen`), as long as the files hold the images numbered so
  far (`StoredBefore`). `ReadsBack` is then inductive with `ChatInv`: a request that
  is alone and clean has stored its first images (`PartlyStored`), all of them, or
  removed the file, and with none in flight the files are those of `last`.
  Images cannot overwrite each other because they are numbered over the session and
  not over the message (`FilesNumbered`).
* **`NodeProofs`**: the parts of a node together. `NodeIsItsParts`: a behaviour of
  `MCNode` is one of each part's own specification; `NodeKeepsItsPromises`: all
  the services' safety properties hold of it at once, for any values of the constants.
  `NodeAlwaysTyped` is `MCNode!TypeOK`, types with the bounds the guards keep. Not all
  of it is inductive by itself: that an answered reset is one there has been needs
  `OrderInv` (no copy in a saver's hand carries a later one, `SaveStaysBounded`); what
  a query has still to ask is the end of the seed list, whichever step came last
  (`QueryTypesStep`); the configuration and the ranking rest on `ConfigInv` and
  `RankInv`, the chat on `ChatTypes`.

The assumptions on constants: the dispatcher's peers and requests are finite sets,
`Slots` and `MaxFail` are positive, seed lists are sequences of nodes, configured
ports are integers, the reset handler is one of the savers, chats are sequences of
messages whose words include the two roles and the empty word, and every bound is a
natural number. `TLC` evaluates each of them in a run.

**Only model-checked** are the liveness properties of section 3, since TLAPS handles
neither fairness nor `ENABLED`: `EventsReachDisk`, `DeletesReachDisk`,
`ResetsReachDisk`, `EveryoneAnswered` (gateway and dispatcher), `TrustReturns`,
`UnusableLeave`, `GossipCatchesUp`, `RedialsFollowLife`, `TunnelsRecover` and
`EngineComesBack`. For five of them what remains without fairness is proved: the two
`RequestsRunDown` (handlers), `EngineGetsUp` (the launch) and `MeshOnlyMends`
(redials and tunnels) say that the step each waits for may be taken or brings the
end nearer, and that only `Stop`, a crash or the world undoes it; what they leave to
TLC is that the scheduler takes it. Every safety property of a passing run is a
theorem, and so are the types of `PeerCache` and `LocalGateway`, which no run
repeats.

## 6. Where the code and its comments disagree

| Run | Statement | What happens |
|---|---|---|
| `EveryEventPreserved` | `peer_cache.go:152` | two overlapping flushes copy the same events; the second drain removes events nobody wrote |
| `ShutdownKeepsPeers` | `app.go:111` | closing the host disconnects every peer, whose DELETE the final flush then performs |
| `FullRound` | `proxy.go:654` | two requests share the index; each may get the same peer every turn |
| `RelaysNeverBackends` | `server_proxy.go:98` | a relay that connected and has not gossiped passes both filters |
| `CreditIsForService` | `server_proxy.go:268` | the status is dropped, so a plain-text 502 is credited and sent on as a 200 |
| `QuitStopsEngine` | `runner.go:60`, `docs/APP_CONTAINER.md:101` | the Q key ends the program without `App.Stop` (`tui.go:559`, `main.go:46`): outside Windows the engine goes on running |

Further claims of comments and documents are stated in the modules without a run in
`PROJECT.json`. The configurations named like them check each on the instance of its
module (`MCPeerCache` for the first two, `MCNode` for the others), and TLC refutes all:

| Claim | Statement | What happens |
|---|---|---|
| `ResetDurable` | `server_web.go:149` | a flush that copied before the reset commits after the reset's own and restores the old totals on disk |
| `ResetAnswered` | `server_web.go:149` | the reset's flush fails, the handler logs it and answers `ok` (`server_web.go:152`) |
| `OfflineWhenDue` | `docs/HUB_MODE.md:153` | with `check_interval_sec` below 4 pings of a peer overlap and count from the same copy: `max_fail_count` failures in a row queue no warning |
| `StopEndsEngine` | `runner.go:62`, `process_unix.go:9` | a `Stop` that overtakes `Start`, or a vLLM whose main process has ended, leaves processes that hold GPU memory |
| `SavedAndBackedUp` | `web.go:305`, `web.go:327`, `docs/DASHBOARD_UI.md:130` | errors of the backup are ignored (`web.go:308-313`) and saves of one second share its name |
| `HubPortsSteerClear` | `config.go:307`, `docs/CONFIG.md:155` | the fallbacks 50008 and 50004 are taken without asking whether they are claimed |
| `PicturesReadBack` | `chat_history.go:68` | `image/svg+xml` is stored as `img-N.svg+xml`, which `chatImageRefRe` does not match |
| `ResetSurvives` | `tui.go:100` | the ticker's older copy of `stats.json` is written after the reset's |

The properties of section 3 that hold only without overlapping flushes
(`RowsCovered`, `EventsExactlyOnce`, ...) say so in their premise `Serial`, and
those about the table assume that a warm start reads it (`warm`).

## 7. Not modelled, and the plan

Not modelled, for good:

* the web UI's views, logging, installers and the API sample: they keep nothing
  that another part relies on;
* text handling: headers and bodies, GPU detection, normalising and matching GPU names,
  command lines, drawing;
* `DBManager`'s methods without callers, whose rules the cache took over;
* the prefill/decode split of the counters, rates and telemetry, which nothing
  accumulates;
* that a request forwarded to a peer is counted by the dispatcher and by the peer
  (`proxy.go:296`) and that the hub adds both (`server_web.go:184`). `proxy.go:788-791`
  gives that as a reason not to count in the split mode, and Mode 1 does it all the same;
  the models keep the counters of one node, and no property relates two nodes';
* libp2p, SQLite, Docker, Ray, vLLM and Bubble Tea themselves. They appear as the
  steps they can cause.

What is left of the plan, in this order:

1. compositions: gossip between several nodes and two hubs (do hubs agree?), a node's
   gateway against a hub's dispatcher, `HealthPings` inside `PeerCache`;
2. the KV tunnel (`p2p.go`, `proxy.go`, `server_proxy.go`): a stream copied in both
   directions behind a port allowlist;
3. the browser's session list (`useChatState.js`) beside the server's files;
4. the order in which the app starts and stops services that share no state in
   these models.
