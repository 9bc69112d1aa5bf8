---------------------------- MODULE NodeStats ----------------------------
(***************************************************************************)
(* A node's cumulative statistics and the way they travel (tui.go, sys.go, *)
(* the proxy stream handler and the gossip publisher of p2p.go, web.go):   *)
(* counters in memory, their copy in stats.json, the scraper that follows  *)
(* vLLM's own token counter, the totals on the wire and the hub's record   *)
(* of them, which gossip, the hub's own dispatcher and a seed's snapshot   *)
(* only raise until the hub is reset.                                      *)
(*                                                                         *)
(* Kept: requests, finished requests (success and error), tokens.  Left    *)
(* out: the prefill/decode split, rates and GPU telemetry, which nothing   *)
(* accumulates.  stats.json is written outside the lock: copy under the    *)
(* lock, then WriteFile truncates, then it writes.  Two writers that are   *)
(* both past the truncation may leave one text over the tail of another.   *)
(***************************************************************************)
EXTENDS Integers, FiniteSets, PeerRecord

CONSTANTS Savers,        \* who writes stats.json: the 5 s ticker, ResetStats, the Q key
          MaxServed,     \* bound: requests counted in a life of the node
          MaxTokens,     \* bound: vLLM's token counter
          MaxNodeResets, \* bound: POST /api/stats/reset on the node
          MaxHubResets,  \* bound: POST /hub/api/debug/reset_stats
          MaxCredits,    \* bound: requests the hub credits after a reset of its own
          MaxSeeds,      \* bound: snapshots of a seed the hub starts from
          MaxRestarts,   \* bound: crashes and restarts of the node
          MaxWire        \* bound: gossip messages in flight

ASSUME SaversAssumption == "reset" \in Savers

ASSUME StatsBounds ==
    \A n \in {MaxServed, MaxTokens, MaxNodeResets, MaxHubResets, MaxCredits, MaxSeeds,
              MaxRestarts, MaxWire} : n \in Nat

(* gen numbers the node's resets; it is not in the code and tells totals   *)
(* of before a reset from totals of after it.                              *)
Totals == [req : Nat, done : Nat, tok : Nat, gen : Nat]

Message == [req : Nat, tok : Nat, gen : Nat]

NoCounts == [req |-> 0, tok |-> 0]

Fresh == [req |-> 0, done |-> 0, tok |-> 0, gen |-> 0]

VARIABLES
    stats,      \* Stats
    serving,    \* inference requests of peers inside the proxy stream handler
    vllm,       \* vLLM's own token counter
    scraped,    \* the counter metricScraper has read and not yet merged; -1: none
    file,       \* stats.json: a whole record, nothing, or a record over the tail of another
    saver,      \* per writer of stats.json: where it is and what it copied
    wire,       \* totals published and not yet delivered or lost
    hub,        \* the hub's record of this node
    told        \* history, see StatsInit

statsVars == <<stats, serving, vllm, scraped, file, saver, wire, hub, told>>

NoText == [text |-> "empty", totals |-> Fresh]

SaverIdle == [at |-> "idle", copy |-> Fresh]

(* stats.json is absent at first, which reads like an empty one.           *)
(* told.resets, hubs, seeds, lives   resets of the node and of the hub;    *)
(*                 snapshots merged; restarts                              *)
(* told.acked      the last reset that was answered                        *)
(* told.high       the largest totals since the last reset of the node     *)
(* told.credits    what the hub's dispatcher added since the hub's reset   *)
(* told.ordered    the hub was reset after the node, with no older total   *)
(*                 on the wire, and no seed has brought older ones since   *)
(* told.straddled  a reset came while a peer's request was being served    *)
(* told.crossed    a reset came while stats.json was being saved           *)
StatsInit ==
    /\ stats = Fresh /\ serving = 0 /\ vllm = 0 /\ scraped = -1
    /\ file = NoText
    /\ saver = [s \in Savers |-> SaverIdle]
    /\ wire = {} /\ hub = NoCounts
    /\ told = [resets |-> 0, acked |-> 0, high |-> NoCounts, credits |-> NoCounts, ordered |-> FALSE,
               straddled |-> FALSE, crossed |-> FALSE, hubs |-> 0, seeds |-> 0, lives |-> 0]

StatsTypeOK ==
    /\ stats \in Totals /\ serving \in Nat /\ vllm \in 0..MaxTokens /\ scraped \in -1..MaxTokens
    /\ file \in [text : {"whole", "empty", "garbled"}, totals : Totals]
    /\ saver \in [Savers -> [at : {"idle", "zeroed", "copied", "truncated"}, copy : Totals]]
    /\ wire \subseteq Message /\ Cardinality(wire) <= MaxWire
    /\ hub \in Counters
    /\ told \in [resets : 0..MaxNodeResets, acked : 0..MaxNodeResets, high : Counters,
                 credits : Counters, ordered : BOOLEAN, straddled : BOOLEAN, crossed : BOOLEAN,
                 hubs : 0..MaxHubResets, seeds : 0..MaxSeeds, lives : 0..MaxRestarts]

Grown(high, new) == [req |-> Larger(high.req, new.req), tok |-> Larger(high.tok, new.tok)]

Count(new) == stats' = new /\ told' = [told EXCEPT !.high = Grown(@, new)]

(* A request of this node's own gateway: one UpdateStats when it is over   *)
(* (recordMetrics, or the end of either pipe); only recordMetrics knows    *)
(* the tokens of the response.                                             *)
ServeOwn(tokens) ==
    /\ stats.req < MaxServed /\ stats.tok + tokens <= MaxTokens
    /\ Count([stats EXCEPT !.req = @ + 1, !.done = @ + 1, !.tok = @ + tokens])
    /\ UNCHANGED <<serving, vllm, scraped, file, saver, wire, hub>>

(* Seeded fault: the request of a peer is counted when it is over, too. *)
PeerBeginUncounted ==
    /\ stats.req < MaxServed /\ serving' = serving + 1
    /\ UNCHANGED <<stats, vllm, scraped, file, saver, wire, hub, told>>

(* The proxy stream handler counts a peer's request when it arrives ...    *)
PeerBegin ==
    /\ stats.req < MaxServed
    /\ Count([stats EXCEPT !.req = @ + 1]) /\ serving' = serving + 1
    /\ UNCHANGED <<vllm, scraped, file, saver, wire, hub>>

(* ... and its success or error when vLLM has answered, up to 60 s later. *)
PeerEnd ==
    /\ serving > 0
    /\ serving' = serving - 1 /\ Count([stats EXCEPT !.done = @ + 1])
    /\ UNCHANGED <<vllm, scraped, file, saver, wire, hub>>

VllmWorks ==
    /\ vllm < MaxTokens /\ vllm' = vllm + 1
    /\ UNCHANGED <<stats, serving, scraped, file, saver, wire, hub, told>>

VllmRestarts ==
    /\ vllm > 0 /\ vllm' = 0 /\ told.lives < MaxRestarts
    /\ told' = [told EXCEPT !.lives = @ + 1]
    /\ UNCHANGED <<stats, serving, scraped, file, saver, wire, hub>>

(* metricScraper: read the counter, then merge it under the lock, which    *)
(* keeps the larger value.                                                 *)
ScrapeRead ==
    /\ scraped = -1 /\ scraped' = vllm
    /\ UNCHANGED <<stats, serving, vllm, file, saver, wire, hub, told>>

ScrapeMerge ==
    /\ scraped # -1 /\ scraped' = -1
    /\ Count([stats EXCEPT !.tok = Larger(@, scraped)])
    /\ UNCHANGED <<serving, vllm, file, saver, wire, hub>>

-----------------------------------------------------------------------------
(* saveStatsDisk *)

SaveCopy(s) ==
    /\ saver[s].at = IF s = "reset" THEN "zeroed" ELSE "idle"
    /\ saver' = [saver EXCEPT ![s] = [at |-> "copied", copy |-> stats]]
    /\ UNCHANGED <<stats, serving, vllm, scraped, file, wire, hub, told>>

SaveTruncate(s) ==
    /\ saver[s].at = "copied"
    /\ saver' = [saver EXCEPT ![s].at = "truncated"]
    /\ file' = NoText
    /\ UNCHANGED <<stats, serving, vllm, scraped, wire, hub, told>>

(* A file that another writer filled since the truncation is overwritten   *)
(* from its start: the result is the new text, or the new text with the    *)
(* tail of a longer old one.  ResetStats answers once its save is over.    *)
SaveWrite(s) ==
    /\ saver[s].at = "truncated"
    /\ file' \in [text : {"whole", IF file = NoText THEN "whole" ELSE "garbled"},
                 totals : {saver[s].copy}]
    /\ saver' = [saver EXCEPT ![s] = SaverIdle]
    /\ told' = IF s = "reset" THEN [told EXCEPT !.acked = saver[s].copy.gen] ELSE told
    /\ UNCHANGED <<stats, serving, vllm, scraped, wire, hub>>

ResetTotals == [Fresh EXCEPT !.gen = told.resets + 1]

AtReset(acked) == [told EXCEPT !.resets = @ + 1, !.acked = acked, !.high = NoCounts,
                     !.ordered = FALSE, !.straddled = @ \/ serving > 0,
                     !.crossed = @ \/ \E s \in Savers : saver[s].at # "idle"]

(* Seeded fault: the reset is answered and left for the ticker to save. *)
NodeResetUnsaved ==
    /\ saver["reset"].at = "idle" /\ told.resets < MaxNodeResets
    /\ stats' = ResetTotals /\ told' = AtReset(told.resets + 1)
    /\ UNCHANGED <<serving, vllm, scraped, file, saver, wire, hub>>

(* ResetStats: zero under the lock, then save like the others, then answer.*)
NodeReset ==
    /\ saver["reset"].at = "idle" /\ told.resets < MaxNodeResets
    /\ stats' = ResetTotals /\ told' = AtReset(told.acked)
    /\ saver' = [saver EXCEPT !["reset"].at = "zeroed"]
    /\ UNCHANGED <<serving, vllm, scraped, file, wire, hub>>

(* The process ends and starts again: loadStatsDisk takes a stats.json     *)
(* that parses and starts from zero otherwise.                             *)
Loaded == IF file.text = "whole" THEN file.totals ELSE [Fresh EXCEPT !.gen = stats.gen]

Restart ==
    /\ told.lives < MaxRestarts
    /\ stats' = Loaded /\ serving' = 0 /\ scraped' = -1
    /\ saver' = [s \in Savers |-> SaverIdle]
    /\ told' = [told EXCEPT !.lives = @ + 1, !.high = Grown(@, Loaded),
                            !.ordered = @ /\ Loaded.gen = stats.gen]
    /\ UNCHANGED <<vllm, file, wire, hub>>

-----------------------------------------------------------------------------
(* Gossip and the hub *)

Sent == [req |-> stats.req, tok |-> stats.tok, gen |-> stats.gen]

(* gossipPublisher puts the current totals on the wire every 3 s. *)
GossipPublish ==
    /\ Sent \notin wire /\ Cardinality(wire) < MaxWire
    /\ wire' = wire \cup {Sent}
    /\ UNCHANGED <<stats, serving, vllm, scraped, file, saver, hub, told>>

(* Seeded fault: the requests decide which of the two is the larger. *)
DeliverByRequests(m) ==
    /\ m \in wire /\ wire' = wire \ {m}
    /\ hub' = IF m.req > hub.req THEN [req |-> m.req, tok |-> m.tok] ELSE hub
    /\ UNCHANGED <<stats, serving, vllm, scraped, file, saver, told>>

(* Messages arrive in any order; the hub keeps the larger of each total. *)
Deliver(m) ==
    /\ m \in wire /\ wire' = wire \ {m}
    /\ hub' = [req |-> Larger(hub.req, m.req), tok |-> Larger(hub.tok, m.tok)]
    /\ UNCHANGED <<stats, serving, vllm, scraped, file, saver, told>>

Lose(m) ==
    /\ m \in wire /\ wire' = wire \ {m}
    /\ UNCHANGED <<stats, serving, vllm, scraped, file, saver, hub, told>>

HubResets(new) ==
    /\ told.hubs < MaxHubResets
    /\ hub' = new
    /\ told' = [told EXCEPT !.hubs = @ + 1, !.credits = NoCounts,
                            !.ordered = \A m \in wire \cup {stats} : m.gen = told.resets]
    /\ UNCHANGED <<stats, serving, vllm, scraped, file, saver, wire>>

(* Seeded fault: the token total is forgotten. *)
HubResetRequestsOnly == HubResets([hub EXCEPT !.req = 0])

HubReset == HubResets(NoCounts)

(* What is within the totals of the node since its reset and the hub's own *)
(* credits since its reset.                                                *)
Within(totals, high, credits) ==
    totals.req <= high.req + credits.req /\ totals.tok <= high.tok + credits.tok

(* The hub's dispatcher credits the node for a request it answered, on the *)
(* same columns (HubDispatch).                                             *)
HubCredit(tokens) ==
    /\ told.credits.req < MaxCredits
    /\ hub' = [req |-> hub.req + 1, tok |-> hub.tok + tokens]
    /\ told' = [told EXCEPT !.credits = [req |-> @.req + 1, tok |-> @.tok + tokens]]
    /\ UNCHANGED <<stats, serving, vllm, scraped, file, saver, wire>>

(* A hub that starts merges the snapshot of a seed, another hub that has   *)
(* followed the node and may not have been reset: the larger of each total *)
(* stays.  What its own peers.db brings back is PeerCache's.               *)
SeedMerge(snapshot) ==
    /\ told.seeds < MaxSeeds
    /\ hub' = [req |-> Larger(hub.req, snapshot.req), tok |-> Larger(hub.tok, snapshot.tok)]
    /\ told' = [told EXCEPT !.seeds = @ + 1,
                            !.ordered = @ /\ Within(snapshot, told.high, told.credits)]
    /\ UNCHANGED <<stats, serving, vllm, scraped, file, saver, wire>>

Snapshots == [req : 0..MaxServed, tok : 0..MaxTokens]

StatsNext ==
    \/ \E tokens \in 0..1 : ServeOwn(tokens)
    \/ PeerBegin \/ PeerEnd
    \/ VllmWorks \/ VllmRestarts \/ ScrapeRead \/ ScrapeMerge
    \/ \E s \in Savers : SaveCopy(s) \/ SaveTruncate(s) \/ SaveWrite(s)
    \/ NodeReset \/ Restart
    \/ GossipPublish \/ HubReset
    \/ \E tokens \in 0..1 : HubCredit(tokens)
    \/ \E snapshot \in Snapshots : SeedMerge(snapshot)
    \/ \E m \in wire : Deliver(m) \/ Lose(m)

StatsSpec == StatsInit /\ [][StatsNext]_statsVars

-----------------------------------------------------------------------------
(* Properties *)

(* The proxy stream handler's two separate counts (p2p.go:482, 506) stay   *)
(* in step: what is finished or still being served was counted as a        *)
(* request, and in a first life nothing else was.  A reset between the two *)
(* counts of one request breaks this, and is excepted.                     *)
TallyBalanced ==
    ~told.straddled =>
        /\ stats.done + serving <= stats.req
        /\ told.lives = 0 => stats.done + serving = stats.req

(* The order the code asks for (web.go:215, peer_cache.go:212): once the   *)
(* node was reset, then the hub, with no older message on its way, gossip  *)
(* never again brings old totals back: the hub shows no more than the node *)
(* has counted since its reset and the hub itself has credited since its   *)
(* own.  The snapshot of a seed that was not reset does bring them back,   *)
(* and is excepted.                                                        *)
ResetInOrderHolds == told.ordered => Within(hub, told.high, told.credits)

(* A reset that was answered is not undone by a restart (tui.go:101),      *)
(* unless it came while stats.json was being saved: then the saver's copy  *)
(* from before the reset may be written last.                              *)
ResetSurvivesAlone ==
    [][Restart /\ ~told.crossed => stats'.gen >= told.acked]_statsVars

(* Messages may be lost and arrive in any order, vLLM may restart: the     *)
(* scraper's and the hub's keep-max still bring the hub up to the node's   *)
(* requests and to vLLM's tokens (sys.go:199, p2p.go:955).                 *)
HubCatchesUp == <>[](hub.req >= stats.req /\ hub.tok >= vllm)

-----------------------------------------------------------------------------
(* Claims of the code that its behaviour does not bear out. *)

(* tui.go:101, of a reset: it is saved at once, "or else a restart within  *)
(* this window reads the old values back from stats.json".                 *)
ResetSurvives == [][Restart => stats'.gen >= told.acked]_statsVars
=============================================================================
