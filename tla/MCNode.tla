------------------------------- MODULE MCNode -------------------------------
(* Small instances of the parts of a node that share no state in these     *)
(* models.  A behaviour is about one of them, chosen at the start: the     *)
(* state space is their sum, and what TLC finds of each is what a run of   *)
(* its own would find.                                                     *)
EXTENDS NodeStats, HealthPings, NetworkNode, HubQuery, Runner, ConfigStore, ChatStore, RankManager

CONSTANTS p, q,            \* peers, seeds and ranked nodes
          me,              \* this node
          v,               \* a virtual address
          w1, w2,          \* requests to the dashboard
          ticker           \* the saver of stats.json

VARIABLE focus

nodeVars == <<focus, statsVars, pingVars, netVars, queryVars, runnerVars, configVars, chatVars, rankVars>>

-----------------------------------------------------------------------------
(* Instances *)

MCSavers == {ticker, "reset"}

(* Two ids may share a virtual address. *)
SameVip == [n \in {p, q} |-> v]

Plain == [seeds |-> {p}, seedsParse |-> TRUE, hub |-> FALSE, key |-> TRUE, announce |-> "none",
          nat |-> "unset", publicInterface |-> FALSE]

MCConfigs ==
    {Plain, [Plain EXCEPT !.seedsParse = FALSE], [Plain EXCEPT !.seeds = {}], [Plain EXCEPT !.key = FALSE],
     [Plain EXCEPT !.announce = "bad"], [Plain EXCEPT !.announce = "good", !.nat = "yes"],
     [Plain EXCEPT !.seeds = {}, !.hub = TRUE, !.announce = "good"]}

MCSeedLists == {<<>>, <<me, p>>, <<p, q>>}

(* Up to two ports at a time, at values that clash with each other or with *)
(* a fallback.                                                             *)
MCPortSettings ==
    {[NoPorts EXCEPT ![n] = x, ![m] = y] :
        n \in PortNames, m \in PortNames, x \in {50004, 50008, 9000}, y \in {9000, 8100}} \cup {NoPorts}

MCWords == {"", "user", "assistant", "hello", "cat", "dog", "logo", "http://"}

Hello == Line("words", 0, "hello")

Image(as, of) == [as |-> as, of |-> of]

Said(role, text, pictures) == [role |-> role, text |-> text, images |-> pictures]

(* Images in two messages, some of a format the reader does not know, some *)
(* that cannot be stored; texts that look like the format; many images.    *)
MCChats ==
    {<<Said("user", <<Hello>>, <<Image(as, "cat"), Image("broken", "")>>),
       Said("assistant", <<Hello, Line("image", 3, "")>>, <<>>),
       Said("user", <<>>, <<Image("link", "http://"), Image("picture", "dog")>>)>> :
           as \in {"picture", "lost"}} \cup
    {<<Said("user", <<Hello, Line("head", 0, "")>>, <<Image("odd", "logo")>>),
       Said("user", <<Line("image", 1, "")>>, <<>>)>>,
     <<Said("user", <<Line("marker", 0, "user")>>,
            <<Image("picture", "cat"), Image("picture", "dog"), Image("picture", "cat")>>)>>}

-----------------------------------------------------------------------------
(* One part at a time; the others keep one of their initial states. *)

Init ==
    /\ focus \in {"disk", "wire", "hub", "pings", "mesh", "query", "engine", "config", "ports", "chat", "rank"}
    /\ StatsInit
    /\ PingInit
    /\ IF focus = "mesh" THEN TRUE ELSE config = Plain
    /\ NetInit
    /\ IF focus = "query" THEN TRUE
       ELSE seeds = <<>> /\ condition = [n \in Nodes |-> "plain"]
    /\ QueryInit
    /\ IF focus = "engine" THEN TRUE ELSE mode = "direct" /\ sound = FALSE /\ terminal = TRUE
    /\ RunnerInit
    /\ IF focus = "ports" THEN TRUE ELSE disk = [DefaultFile EXCEPT !.ports = NoPorts]
    /\ ConfigInit
    /\ ChatInit
    /\ RankInit

(* The statistics on disk, on the wire, and where the hub changes them as  *)
(* well: each with the others still.                                       *)
OnDisk == wire' = wire /\ vllm' = vllm /\ scraped' = scraped /\ hub' = hub /\ told'.hubs = 0

OnWire == /\ serving' = serving /\ saver'[ticker] = SaverIdle
          /\ told'.credits = NoCounts /\ told'.seeds = 0

OnHub == serving' = serving /\ saver'[ticker] = SaverIdle /\ vllm' = vllm /\ scraped' = scraped

Next ==
    /\ UNCHANGED focus
    /\ CASE focus = "disk" -> StatsNext /\ OnDisk
         [] focus = "wire" -> StatsNext /\ OnWire
         [] focus = "hub" -> StatsNext /\ OnHub
         [] OTHER -> UNCHANGED statsVars
    /\ IF focus = "pings" THEN PingNext ELSE UNCHANGED pingVars
    /\ IF focus = "mesh" THEN NetNext ELSE UNCHANGED netVars
    /\ IF focus = "query" THEN QueryNext ELSE UNCHANGED queryVars
    /\ IF focus = "engine" THEN RunnerNext ELSE UNCHANGED runnerVars
    /\ CASE focus = "config" -> ConfigNext
         [] focus = "ports" -> Boot
         [] OTHER -> UNCHANGED configVars
    /\ IF focus = "chat" THEN ChatNext ELSE UNCHANGED chatVars
    /\ IF focus = "rank" THEN RankNext ELSE UNCHANGED rankVars

(* A step of the part in focus, while no other moves. *)
InFocus(part, A, others) ==
    /\ focus = part /\ A
    /\ UNCHANGED <<focus, others, pingVars, queryVars, configVars, chatVars, rankVars>>

OfWire(A) == InFocus("wire", A, <<netVars, runnerVars>>)
OfMesh(A) == InFocus("mesh", A, <<statsVars, runnerVars>>)
OfEngine(A) == InFocus("engine", A, <<statsVars, netVars>>)

(* The scraper and the publisher are tickers; gossip gets through again    *)
(* and again, or the two nodes are not connected.                          *)
StatsFairness ==
    /\ WF_nodeVars(OfWire(ScrapeRead))
    /\ WF_nodeVars(OfWire(ScrapeMerge))
    /\ WF_nodeVars(OfWire(GossipPublish))
    /\ SF_nodeVars(OfWire(\E m \in wire : Deliver(m)))

(* keepAlive is a ticker, every node gossips, and 90 s pass. *)
MeshFairness ==
    /\ WF_nodeVars(OfMesh(Start))
    /\ WF_nodeVars(OfMesh(PassBegins \/ PassGoesOn))
    /\ WF_nodeVars(OfMesh(\E n \in Others : Visit(n)))
    /\ \A n \in Others : WF_nodeVars(OfMesh(Hear(n))) /\ WF_nodeVars(OfMesh(Silent(n)))

(* Runner.Start and its goroutine go on. *)
EngineFairness ==
    WF_nodeVars(OfEngine(\/ ContainerClears \/ ContainerRuns \/ DirectRunsRay \/ WindowsPrepares
                         \/ WaitOver \/ RunVllm \/ ExecVllm \/ LaunchFails))

Spec == Init /\ [][Next]_nodeVars /\ StatsFairness /\ MeshFairness /\ EngineFairness

-----------------------------------------------------------------------------

(* Every variable of every part keeps its type. *)
TypeOK ==
    /\ StatsTypeOK /\ PingTypeOK /\ NetTypeOK /\ QueryTypeOK
    /\ RunnerTypeOK /\ ConfigTypeOK /\ ChatTypeOK /\ RankTypeOK

(* HubCatchesUp, for the part whose fairness it rests on. *)
GossipCatchesUp == focus = "wire" => HubCatchesUp
=============================================================================
