----------------------------- MODULE NodeProofs -----------------------------
(***************************************************************************)
(* Proofs about the parts of a node together (MCNode): each part takes its *)
(* own steps, so that what is proved of a part's specification holds of    *)
(* the node's, and every variable of every part keeps its type, within the *)
(* bounds, for any values of the constants.  The types rest on the         *)
(* inductive invariants of StatsProofs, ServiceProofs and ChatProofs, and  *)
(* on the bounds that the guards of the models keep.                       *)
(***************************************************************************)
EXTENDS MCNode, StatsProofs, ServiceProofs, ChatProofs

-----------------------------------------------------------------------------
(* The network node.                                                       *)

LEMMA DialTypes ==
    ASSUME NetTypeOK, NEW n \in Others, Dial(n), alive' = alive
    PROVE  conn' \subseteq alive' /\ backoff' \subseteq Others
BY DEF Dial, Dialable, NetTypeOK

(* A listener that is open has its entry. *)
LEMMA TunnelTypes ==
    ASSUME NetTypeOK, NEW n \in Others, OpenTunnel(n)
    PROVE  proxies' \subseteq Others /\ listening' \subseteq proxies'
<1>1. CASE Free(n)
  BY <1>1 DEF OpenTunnel, Listen, NetTypeOK
<1>2. CASE ~Free(n)
  BY <1>2 DEF OpenTunnel, Listen, NetTypeOK
<1>. QED BY <1>1, <1>2

LEMMA NetStart == NetInit => NetTypeOK
<1>1. 0 \in 0..MaxUpsets
  BY NetworkAssumptions
<1>. QED BY <1>1 DEF NetInit, NetTypeOK, Resting

LEMMA NetStep == NetTypeOK /\ [NetNext]_netVars => NetTypeOK'
<1>. SUFFICES ASSUME NetTypeOK, [NetNext]_netVars PROVE NetTypeOK'
  OBVIOUS
<1>. DEFINE Passes == [phase : {"idle", "seeds", "peers"}, todo : SUBSET Others]
<1>0. config.seeds \subseteq Others /\ pass \in Passes
  BY NetworkAssumptions DEF NetTypeOK
<1>1. ASSUME Start PROVE NetTypeOK'
  <2>1. reach' \in {"auto", "public", "private"} /\ node' \in {"down", "up", "refused", "stopped"}
    BY <1>1 DEF Start, Reach, NetTypeOK
  <2>2. conn' \subseteq alive /\ backoff' \subseteq Others
    BY <1>0, <1>1 DEF Start, NetTypeOK, linkVars
  <2>. QED BY <1>1, <2>1, <2>2 DEF Start, NetTypeOK, tunnelVars, worldVars
<1>2. ASSUME PassBegins PROVE NetTypeOK'
  <2>1. pass' \in Passes
    BY <1>0, <1>2 DEF PassBegins
  <2>. QED BY <1>2, <2>1 DEF PassBegins, NetTypeOK, selfVars, linkVars, tunnelVars, worldVars
<1>3. ASSUME PassGoesOn PROVE NetTypeOK'
  <2>1. pass' \in Passes
    BY <1>3 DEF PassGoesOn, Resting, NetTypeOK
  <2>. QED BY <1>3, <2>1 DEF PassGoesOn, NetTypeOK, selfVars, linkVars, tunnelVars, worldVars
<1>4. ASSUME Stop PROVE NetTypeOK'
  BY <1>4 DEF Stop, NetTypeOK, tunnelVars, worldVars
<1>5. ASSUME NEW n \in Others, OtherDial(n) PROVE NetTypeOK'
  BY <1>5, DialTypes DEF OtherDial, NetTypeOK, selfVars, tunnelVars, worldVars
<1>6. ASSUME NEW n \in Others, Inbound(n) PROVE NetTypeOK'
  BY <1>6 DEF Inbound, NetTypeOK, selfVars, tunnelVars, worldVars
<1>7. ASSUME NEW n \in Others, Hear(n) PROVE NetTypeOK'
  BY <1>7, TunnelTypes DEF Hear, NetTypeOK, selfVars, linkVars, worldVars
<1>8. ASSUME NEW n \in Others, Silent(n) PROVE NetTypeOK'
  BY <1>8 DEF Silent, NetTypeOK, selfVars, linkVars, tunnelVars, worldVars
<1>9. ASSUME NEW n \in Others, Visit(n) PROVE NetTypeOK'
  <2>1. pass' \in Passes
    BY <1>0, <1>9 DEF Visit
  <2>2. conn' \subseteq alive' /\ backoff' \subseteq Others
    BY <1>9, DialTypes DEF Visit, Redial, NetTypeOK, worldVars, linkVars
  <2>. QED BY <1>9, <2>1, <2>2 DEF Visit, NetTypeOK, selfVars, tunnelVars, worldVars
<1>10. ASSUME Upset PROVE upsets' \in 0..MaxUpsets
  BY <1>10, NetworkAssumptions DEF Upset, NetTypeOK
<1>11. ASSUME NEW n \in Others, Dies(n) PROVE NetTypeOK'
  BY <1>10, <1>11 DEF Dies, NetTypeOK, selfVars, tunnelVars
<1>12. ASSUME NEW n \in Others, Returns(n) PROVE NetTypeOK'
  BY <1>12 DEF Returns, NetTypeOK, selfVars, linkVars, tunnelVars
<1>13. ASSUME NEW n \in Others, Drops(n) PROVE NetTypeOK'
  BY <1>10, <1>13 DEF Drops, NetTypeOK, selfVars, tunnelVars
<1>14. ASSUME NEW a \in Vips, Takes(a) PROVE NetTypeOK'
  BY <1>10, <1>14 DEF Takes, NetTypeOK, selfVars, linkVars, tunnelVars
<1>15. ASSUME NEW a \in Vips, Frees(a) PROVE NetTypeOK'
  BY <1>15 DEF Frees, NetTypeOK, selfVars, linkVars, tunnelVars
<1>16. CASE UNCHANGED netVars
  BY <1>16 DEF netVars, selfVars, linkVars, tunnelVars, worldVars, NetTypeOK
<1>. QED BY <1>1, <1>2, <1>3, <1>4, <1>5, <1>6, <1>7, <1>8, <1>9, <1>11, <1>12, <1>13, <1>14, <1>15,
            <1>16 DEF NetNext

-----------------------------------------------------------------------------
(* A query to the hubs.                                                    *)

LEMMA QueryTypesStart == QueryInit => QueryTypeOK
<1>. SUFFICES ASSUME QueryInit PROVE QueryTypeOK
  OBVIOUS
<1>1. seeds \in Seq(Nodes) /\ Me \in Nodes /\ 0 \in 0..MaxTurns
  BY SeedsAssumption, TurnsAssumption DEF QueryInit, Nodes
<1>2. Len(seeds) \in 0..Len(seeds) /\ query.left = SubSeq(seeds, Len(seeds) + 1, Len(seeds))
  BY <1>1 DEF QueryInit, NoQuery
<1>. QED BY <1>1, <1>2 DEF QueryInit, QueryTypeOK, NoQuery, Conditions, Paths

LEMMA TurnsAtMostOnce ==
    ASSUME [QueryNext]_queryVars
    PROVE  seeds' = seeds /\ (turns' = turns \/ (turns < MaxTurns /\ turns' = turns + 1))
<1>1. ASSUME NEW path, NEW answered, Begin(path, answered) PROVE UNCHANGED <<seeds, turns>>
  BY <1>1 DEF Begin
<1>2. CASE (\E path \in Paths : Dashboard(path)) \/ Internal
  BY <1>1, <1>2 DEF Dashboard, Internal
<1>3. CASE Ask \/ Done \/ UNCHANGED queryVars
  BY <1>3 DEF Ask, Done, queryVars
<1>4. CASE \E n \in Nodes, to \in Conditions : Turn(n, to)
  BY <1>4 DEF Turn
<1>. QED BY <1>2, <1>3, <1>4 DEF QueryNext

(* What is left of the seeds, after each step. *)
LEMMA QueryTypesStep ==
    ASSUME QueryInv, QueryTypeOK, [QueryNext]_queryVars
    PROVE  QueryTypeOK'
<1>. DEFINE Rest(l) == \E n \in 0..Len(seeds) : l = SubSeq(seeds, n + 1, Len(seeds))
<1>0. QueryInv' /\ seeds' = seeds /\ seeds \in Seq(Nodes) /\ Len(seeds) \in Nat
  BY QueryStep, TurnsAtMostOnce DEF QueryInv
<1>1. Rest(<<>>) /\ Rest(seeds)
  <2>1. <<>> = SubSeq(seeds, Len(seeds) + 1, Len(seeds)) /\ seeds = SubSeq(seeds, 0 + 1, Len(seeds))
    BY <1>0
  <2>. QED BY <1>0, <2>1
<1>2. ASSUME Rest(query.left), query.left # <<>> PROVE Rest(Tail(query.left))
  <2>1. PICK n \in 0..Len(seeds) : query.left = SubSeq(seeds, n + 1, Len(seeds))
    BY <1>2
  <2>2. n # Len(seeds)
    BY <1>0, <1>2, <2>1
  <2>3. n + 1 \in 0..Len(seeds)
    BY <1>0, <2>2
  <2>4. Tail(query.left) = SubSeq(seeds, (n + 1) + 1, Len(seeds))
    BY <1>0, <2>1, <2>3
  <2>. QED BY <2>3, <2>4
<1>3. Rest(query.left)
  BY DEF QueryTypeOK
<1>4. Rest(query'.left)
  <2>1. ASSUME NEW path, NEW answered \in BOOLEAN, Begin(path, answered) PROVE Rest(query'.left)
    <3>1. query'.left \in {<<>>, seeds}
      BY <2>1 DEF Begin, NoQuery
    <3>. HIDE DEF Rest
    <3>. QED BY <1>1, <3>1
  <2>2. CASE Ask
    <3>1. query \in Queries /\ query.left # <<>>
      BY <2>2 DEF Ask, QueryInv
    <3>2. query'.left \in {query.left, Tail(query.left)}
      BY <2>2, <3>1 DEF Ask, Answered, NextSeed, Queries
    <3>. HIDE DEF Rest
    <3>. QED BY <1>2, <1>3, <3>1, <3>2
  <2>3. CASE Done
    <3>1. query'.left = <<>>
      BY <2>3 DEF Done, NoQuery
    <3>. HIDE DEF Rest
    <3>. QED BY <1>1, <3>1
  <2>4. CASE query' = query
    <3>. HIDE DEF Rest
    <3>. QED BY <1>3, <2>4
  <2>5. ASSUME NEW n \in Nodes, NEW to \in Conditions, Turn(n, to) PROVE query' = query
    BY <2>5 DEF Turn
  <2>. HIDE DEF Rest
  <2>. QED BY <2>1, <2>2, <2>3, <2>4, <2>5 DEF QueryNext, Dashboard, Internal, IsHub, queryVars
<1>5. turns' \in 0..MaxTurns
  <2>1. turns \in 0..MaxTurns
    BY DEF QueryTypeOK
  <2>. QED BY <2>1, TurnsAssumption, TurnsAtMostOnce
<1>6. /\ condition' \in [Nodes -> Conditions] /\ query' \in Queries
      /\ steady' \subseteq {n \in Nodes : condition'[n] = "hub"}
  BY <1>0 DEF QueryInv, IsHub
<1>7. /\ query'.at \in {"idle", "asking", "answered", "failed"} /\ query'.path \in Paths
      /\ query'.late \in BOOLEAN /\ query'.by \in Nodes
  BY <1>6 DEF Queries
<1>. QED BY <1>0, <1>4, <1>5, <1>6, <1>7 DEF QueryTypeOK

-----------------------------------------------------------------------------
(* The statistics.                                                         *)

(* What the guards bound. *)
StatsBounded ==
    /\ vllm \in 0..MaxTokens /\ scraped \in -1..MaxTokens
    /\ IsFiniteSet(wire) /\ Cardinality(wire) <= MaxWire
    /\ told.resets <= MaxNodeResets /\ told.acked <= MaxNodeResets
    /\ told.hubs <= MaxHubResets /\ told.seeds <= MaxSeeds /\ told.lives <= MaxRestarts

StatsRanges ==
    [resets : 0..MaxNodeResets, acked : 0..MaxNodeResets, high : Counters, credits : Counters,
     ordered : BOOLEAN, straddled : BOOLEAN, crossed : BOOLEAN,
     hubs : 0..MaxHubResets, seeds : 0..MaxSeeds, lives : 0..MaxRestarts]

LEMMA StatsBoundsAreNat ==
    /\ MaxServed \in Nat /\ MaxTokens \in Nat /\ MaxNodeResets \in Nat
    /\ MaxHubResets \in Nat /\ MaxSeeds \in Nat /\ MaxRestarts \in Nat /\ MaxWire \in Nat
BY StatsBounds

LEMMA StatsTyped == StatsInv /\ StatsBounded => StatsTypeOK
<1>. SUFFICES ASSUME StatsInv, StatsBounded PROVE StatsTypeOK
  OBVIOUS
<1>1. told \in StatsRanges
  BY StatsBoundsAreNat DEF StatsInv, StatsTypes, StatsBounded, Told, StatsRanges
<1>2. told \in StatsRanges /\ StatsTypes
  BY <1>1 DEF StatsInv
<1>. QED BY <1>2 DEF StatsTypes, StatsBounded, StatsTypeOK, StatsRanges, StatsFiles, Copies

LEMMA BoundedStart == StatsInit => StatsBounded
<1>. SUFFICES ASSUME StatsInit PROVE StatsBounded
  OBVIOUS
<1>1. IsFiniteSet(wire) /\ Cardinality(wire) = 0
  BY FS_EmptySet DEF StatsInit
<1>. QED BY <1>1, StatsBoundsAreNat DEF StatsInit, StatsBounded

(* A step that leaves the wire, the resets and the lives alone. *)
LEMMA CountStaysBounded ==
    ASSUME StatsInv, StatsBounded, NEW new, Count(new), UNCHANGED <<vllm, wire>>, scraped' \in -1..MaxTokens
    PROVE  StatsBounded'
<1>1. /\ told \in Told
      /\ told' = [told EXCEPT !.high = Grown(told.high, new)]
  BY DEF Count, StatsInv, StatsTypes
<1>2. /\ told'.resets = told.resets /\ told'.acked = told.acked /\ told'.hubs = told.hubs
      /\ told'.seeds = told.seeds /\ told'.lives = told.lives
  BY <1>1 DEF Told
<1>. QED BY <1>2 DEF StatsBounded

LEMMA ResetStaysBounded == ASSUME StatsInv, StatsBounded, NodeReset PROVE StatsBounded'
<1>. DEFINE straddled == told.straddled \/ serving > 0
            crossed == told.crossed \/ \E s \in Savers : saver[s].at # "idle"
            resets == told.resets + 1
<1>1. /\ told' = [told EXCEPT !.resets = resets, !.acked = told.acked, !.high = NoCounts,
                     !.ordered = FALSE, !.straddled = straddled, !.crossed = crossed]
      /\ told \in Told /\ UNCHANGED <<vllm, scraped, wire>> /\ told.resets < MaxNodeResets
  BY DEF NodeReset, AtReset, StatsInv, StatsTypes
<1>2. resets <= MaxNodeResets
  BY <1>1, StatsBoundsAreNat DEF Told
<1>. HIDE DEF straddled, crossed, resets
<1>3. /\ told'.resets = resets /\ told'.acked = told.acked /\ told'.hubs = told.hubs
      /\ told'.seeds = told.seeds /\ told'.lives = told.lives
  BY <1>1 DEF Told
<1>. QED BY <1>1, <1>2, <1>3 DEF StatsBounded

LEMMA RestartStaysBounded == ASSUME StatsInv, StatsBounded, Restart PROVE StatsBounded'
<1>. DEFINE high == Grown(told.high, Loaded)
            same == told.ordered /\ Loaded.gen = stats.gen
            lives == told.lives + 1
<1>1. /\ told' = [told EXCEPT !.lives = lives, !.high = high, !.ordered = same]
      /\ told \in Told /\ UNCHANGED <<vllm, wire>> /\ scraped' = -1 /\ told.lives < MaxRestarts
  BY DEF Restart, StatsInv, StatsTypes
<1>2. lives <= MaxRestarts /\ -1 \in -1..MaxTokens
  BY <1>1, StatsBoundsAreNat DEF Told
<1>. HIDE DEF high, same, lives
<1>3. /\ told'.resets = told.resets /\ told'.acked = told.acked /\ told'.hubs = told.hubs
      /\ told'.seeds = told.seeds /\ told'.lives = lives
  BY <1>1 DEF Told
<1>. QED BY <1>1, <1>2, <1>3 DEF StatsBounded

LEMMA HubResetStaysBounded == ASSUME StatsInv, StatsBounded, HubReset PROVE StatsBounded'
<1>. DEFINE clean == \A m \in wire \cup {stats} : m.gen = told.resets
            hubs == told.hubs + 1
<1>1. /\ told' = [told EXCEPT !.hubs = hubs, !.credits = NoCounts, !.ordered = clean]
      /\ told \in Told /\ UNCHANGED <<vllm, scraped, wire>> /\ told.hubs < MaxHubResets
  BY DEF HubReset, HubResets, StatsInv, StatsTypes
<1>2. hubs <= MaxHubResets
  BY <1>1, StatsBoundsAreNat DEF Told
<1>. HIDE DEF clean, hubs
<1>3. /\ told'.resets = told.resets /\ told'.acked = told.acked /\ told'.hubs = hubs
      /\ told'.seeds = told.seeds /\ told'.lives = told.lives
  BY <1>1 DEF Told
<1>. QED BY <1>1, <1>2, <1>3 DEF StatsBounded

(* What a saver answers is a reset there has been. *)
LEMMA SaveStaysBounded == ASSUME StatsInv, StatsBounded, NEW s \in Savers, SaveWrite(s) PROVE StatsBounded'
<1>. DEFINE acked == saver[s].copy.gen
<1>1. /\ told' = IF s = "reset" THEN [told EXCEPT !.acked = acked] ELSE told
      /\ told \in Told /\ UNCHANGED <<vllm, scraped, wire>>
  BY DEF SaveWrite, StatsInv, StatsTypes
<1>2. acked <= MaxNodeResets
  <2>1. acked <= told.resets /\ acked \in Nat /\ told.resets \in Nat
    BY <1>1 DEF StatsInv, OrderInv, StatsTypes, Copies, Totals, Told
  <2>. QED BY <2>1, StatsBoundsAreNat DEF StatsBounded
<1>. HIDE DEF acked
<1>3. /\ told'.resets = told.resets /\ told'.acked \in {told.acked, acked} /\ told'.hubs = told.hubs
      /\ told'.seeds = told.seeds /\ told'.lives = told.lives
  BY <1>1 DEF Told
<1>. QED BY <1>1, <1>2, <1>3 DEF StatsBounded

LEMMA HubCreditStaysBounded ==
    ASSUME StatsInv, StatsBounded, NEW tokens \in 0..1, HubCredit(tokens)
    PROVE  StatsBounded'
<1>. DEFINE credits == [req |-> told.credits.req + 1, tok |-> told.credits.tok + tokens]
<1>1. /\ told' = [told EXCEPT !.credits = credits]
      /\ told \in Told /\ UNCHANGED <<vllm, scraped, wire>>
  BY DEF HubCredit, StatsInv, StatsTypes
<1>. HIDE DEF credits
<1>2. /\ told'.resets = told.resets /\ told'.acked = told.acked /\ told'.hubs = told.hubs
      /\ told'.seeds = told.seeds /\ told'.lives = told.lives
  BY <1>1 DEF Told
<1>. QED BY <1>1, <1>2 DEF StatsBounded

LEMMA SeedMergeStaysBounded ==
    ASSUME StatsInv, StatsBounded, NEW snapshot \in Snapshots, SeedMerge(snapshot)
    PROVE  StatsBounded'
<1>. DEFINE within == told.ordered /\ Within(snapshot, told.high, told.credits)
            seeded == told.seeds + 1
<1>1. /\ told' = [told EXCEPT !.seeds = seeded, !.ordered = within]
      /\ told \in Told /\ UNCHANGED <<vllm, scraped, wire>> /\ told.seeds < MaxSeeds
  BY DEF SeedMerge, StatsInv, StatsTypes
<1>2. seeded <= MaxSeeds
  BY <1>1, StatsBoundsAreNat DEF Told
<1>. HIDE DEF within, seeded
<1>3. /\ told'.resets = told.resets /\ told'.acked = told.acked /\ told'.hubs = told.hubs
      /\ told'.seeds = seeded /\ told'.lives = told.lives
  BY <1>1 DEF Told
<1>. QED BY <1>1, <1>2, <1>3 DEF StatsBounded

LEMMA BoundedStep == ASSUME StatsInv, StatsBounded, [StatsNext]_statsVars PROVE StatsBounded'
<1>0. told \in Told /\ -1 \in -1..MaxTokens /\ MaxTokens \in Nat /\ MaxWire \in Nat
  BY StatsBoundsAreNat DEF StatsInv, StatsTypes
<1>1. ASSUME NEW tokens \in 0..1, ServeOwn(tokens) PROVE StatsBounded'
  BY <1>1, CountStaysBounded DEF ServeOwn, StatsBounded
<1>2. ASSUME PeerBegin PROVE StatsBounded'
  BY <1>2, CountStaysBounded DEF PeerBegin, StatsBounded
<1>3. ASSUME PeerEnd PROVE StatsBounded'
  BY <1>3, CountStaysBounded DEF PeerEnd, StatsBounded
<1>4. ASSUME ScrapeMerge PROVE StatsBounded'
  BY <1>0, <1>4, CountStaysBounded DEF ScrapeMerge, StatsBounded
<1>5. ASSUME VllmWorks \/ ScrapeRead PROVE StatsBounded'
  <2>1. vllm' \in 0..MaxTokens /\ scraped' \in -1..MaxTokens /\ UNCHANGED <<wire, told>>
    BY <1>0, <1>5 DEF VllmWorks, ScrapeRead, StatsBounded
  <2>. QED BY <2>1 DEF StatsBounded
<1>6. ASSUME VllmRestarts PROVE StatsBounded'
  <2>1. /\ vllm' = 0 /\ UNCHANGED <<scraped, wire>> /\ told.lives < MaxRestarts
        /\ told' = [told EXCEPT !.lives = @ + 1]
    BY <1>6 DEF VllmRestarts
  <2>2. /\ told'.resets = told.resets /\ told'.acked = told.acked /\ told'.hubs = told.hubs
        /\ told'.seeds = told.seeds /\ told'.lives = told.lives + 1 /\ told'.lives <= MaxRestarts
    BY <1>0, <2>1, StatsBoundsAreNat DEF Told
  <2>. QED BY <1>0, <2>1, <2>2 DEF StatsBounded
<1>7. ASSUME NEW s \in Savers, SaveCopy(s) \/ SaveTruncate(s) PROVE StatsBounded'
  <2>1. UNCHANGED <<vllm, scraped, wire, told>>
    BY <1>7 DEF SaveCopy, SaveTruncate
  <2>. QED BY <2>1 DEF StatsBounded
<1>8. ASSUME GossipPublish PROVE StatsBounded'
  <2>1. Sent \notin wire /\ Cardinality(wire) < MaxWire /\ wire' = wire \cup {Sent}
        /\ UNCHANGED <<vllm, scraped, told>> /\ IsFiniteSet(wire)
    BY <1>8 DEF GossipPublish, StatsBounded
  <2>2. IsFiniteSet(wire') /\ Cardinality(wire') = Cardinality(wire) + 1 /\ Cardinality(wire) \in Nat
    BY <2>1, FS_AddElement, FS_CardinalityType
  <2>. QED BY <1>0, <2>1, <2>2 DEF StatsBounded
<1>9. ASSUME NEW m \in wire, Deliver(m) \/ Lose(m) PROVE StatsBounded'
  <2>1. wire' = wire \ {m} /\ UNCHANGED <<vllm, scraped, told>> /\ IsFiniteSet(wire)
    BY <1>9 DEF Deliver, Lose, StatsBounded
  <2>2. IsFiniteSet(wire') /\ Cardinality(wire') = Cardinality(wire) - 1 /\ Cardinality(wire) \in Nat
    BY <2>1, FS_RemoveElement, FS_CardinalityType
  <2>. QED BY <1>0, <2>1, <2>2 DEF StatsBounded
<1>10. CASE UNCHANGED statsVars
  BY <1>10 DEF statsVars, StatsBounded
<1>. QED BY <1>1, <1>2, <1>3, <1>4, <1>5, <1>6, <1>7, <1>8, <1>9, <1>10, ResetStaysBounded,
            RestartStaysBounded, HubResetStaysBounded, HubCreditStaysBounded, SeedMergeStaysBounded,
            SaveStaysBounded DEF StatsNext

-----------------------------------------------------------------------------
(* config.json and its backups.                                            *)

Bodies == [at : {"idle", "backup", "write", "truncated"}, restores : BOOLEAN, saw : Files, new : Files]

LEMMA SavesAreFiles ==
    /\ DefaultFile \in Files /\ TornFile \in Files /\ Unread \in Bodies
    /\ \A text \in {"whole", "bad", "absent"}, n \in 0..MaxSaves :
          [DefaultFile EXCEPT !.text = text, !.save = n] \in Files
    /\ \A ports \in Ports : [DefaultFile EXCEPT !.ports = ports] \in Files
<1>1. Fallback \in Ports /\ NoPorts \in Ports /\ 0 \in 0..MaxSaves
  BY ConfigAssumptions DEF Ports
<1>2. DefaultFile \in Files /\ TornFile \in Files
  BY <1>1 DEF DefaultFile, TornFile, Files
<1>3. \A text \in {"whole", "bad", "absent"}, n \in 0..MaxSaves :
          [DefaultFile EXCEPT !.text = text, !.save = n] \in Files
  BY <1>1 DEF DefaultFile, Files
<1>4. \A ports \in Ports : [DefaultFile EXCEPT !.ports = ports] \in Files
  BY <1>1 DEF DefaultFile, Files
<1>5. Unread \in Bodies
  BY <1>2 DEF Unread, Bodies
<1>. QED BY <1>2, <1>3, <1>4, <1>5

LEMMA PortsAreNumbers == ASSUME NEW given \in Ports PROVE ServerPorts(ClientPorts(given)) \in [PortNames -> Int]
<1>1. given \in [PortNames -> Int] /\ Fallback \in [PortNames -> Int]
  BY ConfigAssumptions DEF Ports, NoPorts, Fallback, PortNames
<1>. DEFINE c == ClientPorts(given)
            used == {c[n] : n \in Client}
            forHub == Claim(c, "hub", used)
<1>2. c \in [PortNames -> Int]
  BY <1>1 DEF ClientPorts, PortNames
<1>. HIDE DEF c
<1>3. ASSUME NEW n \in PortNames, NEW in PROVE Claim(c, n, in) \in Int
  BY <1>1, <1>2 DEF Claim
<1>4. forHub \in Int /\ Claim(c, "p2p", used \cup {forHub}) \in Int
  BY <1>3 DEF PortNames
<1>5. ServerPorts(c) = [c EXCEPT !.hub = forHub, !.p2p = Claim(c, "p2p", used \cup {forHub})]
  BY DEF ServerPorts
<1>. HIDE DEF forHub, used
<1>6. ServerPorts(c) \in [PortNames -> Int]
  BY <1>2, <1>4, <1>5
<1>. QED BY <1>6 DEF c

LEMMA ConfigTypesStart == ConfigInit => ConfigTypeOK
<1>. SUFFICES ASSUME ConfigInit PROVE ConfigTypeOK
  OBVIOUS
<1>1. PICK ports \in PortSettings :
          disk \in {[DefaultFile EXCEPT !.ports = ports], [DefaultFile EXCEPT !.text = "absent"]}
  BY DEF ConfigInit
<1>2. ports \in Ports /\ 0 \in 0..MaxSaves /\ 0 \in 0..MaxSeconds
  BY ConfigAssumptions DEF Ports
<1>3. [DefaultFile EXCEPT !.text = "absent"] \in Files
  BY SavesAreFiles DEF Files
<1>4. disk \in Files
  BY <1>1, <1>2, <1>3, SavesAreFiles
<1>5. NoPorts \in [PortNames -> Int] /\ NoPorts \in Ports /\ booted = Off("down")
  BY DEF NoPorts, Ports, ConfigInit
<1>6. writer \in [Writers -> Bodies]
  BY SavesAreFiles DEF ConfigInit
<1>7. backups = {} /\ second = 0 /\ record.acked = {0} /\ record.backedUp = {} /\ record.exposed = {}
  BY DEF ConfigInit
<1>. QED BY <1>2, <1>4, <1>5, <1>6, <1>7 DEF ConfigTypeOK, Off, Bodies

LEMMA SavesAreBounded == ASSUME NEW f \in Files PROVE Saved(f) \subseteq 0..MaxSaves
BY DEF Saved, Files

LEMMA SavesInBackups ==
    ASSUME NEW in, \A b \in in : b.file \in Files
    PROVE  UNION {Saved(b.file) : b \in in} \subseteq 0..MaxSaves
BY SavesAreBounded

RecordBounded == record.acked \cup record.backedUp \cup record.exposed \subseteq 0..MaxSaves

LEMMA ExposedIsBounded ==
    ASSUME ConfigTypeOK, record \in Records, NEW contents \in SUBSET (0..MaxSaves), Expose(contents)
    PROVE  RecordBounded'
<1>. DEFINE lost == record.exposed \cup (contents \ BackedUp')
<1>1. record' = [record EXCEPT !.exposed = lost]
  BY DEF Expose
<1>2. lost \subseteq 0..MaxSaves
  BY DEF ConfigTypeOK
<1>. HIDE DEF lost
<1>3. record'.acked = record.acked /\ record'.backedUp = record.backedUp /\ record'.exposed = lost
  BY <1>1 DEF Records
<1>. QED BY <1>2, <1>3 DEF ConfigTypeOK, RecordBounded

(* A step of a request: its own state and perhaps the file. *)
LEMMA RequestTypes ==
    ASSUME ConfigTypeOK, NEW w \in Writers, NEW body \in Bodies, writer' = [writer EXCEPT ![w] = body],
           UNCHANGED <<second, booted>>, disk' \in Files, RecordBounded',
           \A b \in backups' : b.restores \in BOOLEAN /\ b.second \in 0..second /\ b.file \in Files
    PROVE  ConfigTypeOK'
<1>1. writer' \in [Writers -> Bodies]
  BY DEF ConfigTypeOK, Bodies
<1>. QED BY <1>1 DEF ConfigTypeOK, Bodies, RecordBounded

LEMMA BeginTypes ==
    ASSUME ConfigTypeOK, record \in Records, NEW w \in Writers, NEW restores \in BOOLEAN, NEW new \in Files,
           Request(w, restores, new), OneMore
    PROVE  ConfigTypeOK'
<1>. DEFINE body == [Unread EXCEPT !.at = "backup", !.restores = restores, !.new = new]
<1>1. body \in Bodies
  BY SavesAreFiles DEF Bodies
<1>2. writer' = [writer EXCEPT ![w] = body] /\ UNCHANGED <<disk, backups, second, booted>>
  BY DEF Request
<1>3. RecordBounded'
  BY DEF OneMore, Records, ConfigTypeOK, RecordBounded
<1>. HIDE DEF body
<1>. QED BY <1>1, <1>2, <1>3, RequestTypes DEF ConfigTypeOK

(* The two ways a backup ends: what it leaves in backups, what it exposes. *)
LEMMA BackupTypes ==
    ASSUME ConfigTypeOK, record \in Records, NEW w \in Writers, NEW content \in Files,
           backups' \in {backups, Backup(w, content)}, NEW contents \in SUBSET (0..MaxSaves),
           Expose(contents \cup UNION {Saved(b.file) : b \in SameName(w)}),
           writer' = [writer EXCEPT ![w].at = "write", ![w].saw = disk], UNCHANGED <<disk, second, booted>>
    PROVE  ConfigTypeOK'
<1>. DEFINE b == [restores |-> writer[w].restores, second |-> second, file |-> content]
            body == [writer[w] EXCEPT !.at = "write", !.saw = disk]
<1>1. writer[w] \in Bodies /\ disk \in Files /\ second \in 0..MaxSeconds /\ MaxSeconds \in Nat
  BY ConfigAssumptions DEF ConfigTypeOK, Bodies
<1>2. b.restores \in BOOLEAN /\ b.second \in 0..second /\ b.file \in Files
  BY <1>1 DEF Bodies
<1>3. body \in Bodies
  BY <1>1 DEF Bodies
<1>4. writer' = [writer EXCEPT ![w] = body]
  BY DEF ConfigTypeOK
<1>5. backups' \subseteq backups \cup {b}
  BY DEF Backup
<1>6. UNION {Saved(x.file) : x \in SameName(w)} \subseteq 0..MaxSaves
  BY SavesInBackups DEF SameName, ConfigTypeOK
<1>7. RecordBounded'
  BY <1>6, ExposedIsBounded
<1>. HIDE DEF b, body
<1>8. \A x \in backups' : x.restores \in BOOLEAN /\ x.second \in 0..second /\ x.file \in Files
  BY <1>2, <1>5 DEF ConfigTypeOK
<1>9. disk' \in Files /\ UNCHANGED <<second, booted>>
  BY <1>1
<1>. QED BY <1>3, <1>4, <1>7, <1>8, <1>9, RequestTypes

LEMMA ConfigTypesStep == ASSUME ConfigInv, ConfigTypeOK, [ConfigNext]_configVars PROVE ConfigTypeOK'
<1>0. /\ record \in Records /\ RecordBounded
      /\ MaxSaves \in Nat /\ MaxSeconds \in Nat
      /\ disk \in Files /\ writer \in [Writers -> Bodies]
      /\ NoPorts \in [PortNames -> Int] /\ NoPorts \in Ports
  BY ConfigAssumptions DEF ConfigInv, ConfigTypes, ConfigTypeOK, Bodies, NoPorts, Ports, RecordBounded
<1>1. ASSUME Boot PROVE ConfigTypeOK'
  <2>1. disk' \in Files /\ RecordBounded' /\ UNCHANGED <<backups, second, writer>>
    BY <1>0, <1>1, SavesAreFiles DEF Boot, RecordBounded, Records
  <2>2. disk'.ports \in Ports
    BY <2>1 DEF Files
  <2>3. booted'.at \in {"up", "refused"} /\ booted'.given \in Ports /\ booted'.ports \in [PortNames -> Int]
    <3>1. CASE disk'.text = "whole"
      <4>1. booted' = [at |-> "up", given |-> disk'.ports, ports |-> ServerPorts(ClientPorts(disk'.ports))]
        BY <1>1, <3>1 DEF Boot
      <4>. QED BY <2>2, <4>1, PortsAreNumbers
    <3>2. CASE disk'.text # "whole"
      <4>1. booted' = Off("refused")
        BY <1>1, <3>2 DEF Boot
      <4>. QED BY <1>0, <4>1 DEF Off
    <3>. QED BY <3>1, <3>2
  <2>. QED BY <2>1, <2>3 DEF ConfigTypeOK, RecordBounded
<1>2. ASSUME Down PROVE ConfigTypeOK'
  <2>1. booted' = Off("down") /\ writer' = [w \in Writers |-> Unread]
        /\ UNCHANGED <<disk, backups, second, record>>
    BY <1>2 DEF Down
  <2>2. writer' \in [Writers -> Bodies]
    BY <2>1, SavesAreFiles
  <2>. QED BY <1>0, <2>1, <2>2 DEF ConfigTypeOK, Off, Bodies
<1>3. ASSUME SecondPasses PROVE ConfigTypeOK'
  <2>1. second' = second + 1 /\ second < MaxSeconds /\ UNCHANGED <<disk, backups, booted, writer, record>>
    BY <1>3 DEF SecondPasses
  <2>2. second \in 0..MaxSeconds /\ \A b \in backups : b.second \in 0..second
    BY DEF ConfigTypeOK
  <2>3. second' \in 0..MaxSeconds /\ \A b \in backups : b.second \in 0..second'
    BY <1>0, <2>1, <2>2
  <2>. QED BY <2>1, <2>3 DEF ConfigTypeOK
<1>4. ASSUME NEW w \in Writers, Post(w) PROVE ConfigTypeOK'
  <2>1. PICK text \in {"whole", "bad"} :
            Request(w, FALSE, [DefaultFile EXCEPT !.text = text, !.save = record.saves + 1])
    BY <1>4 DEF Post
  <2>. DEFINE new == [DefaultFile EXCEPT !.text = text, !.save = record.saves + 1]
  <2>2. record.saves + 1 \in 0..MaxSaves /\ OneMore
    BY <1>0, <1>4 DEF Post, OneMore, Records
  <2>3. new \in Files
    BY <2>2, SavesAreFiles
  <2>. HIDE DEF new
  <2>4. Request(w, FALSE, new)
    BY <2>1 DEF new
  <2>. QED BY <1>0, <2>2, <2>3, <2>4, BeginTypes
<1>5. ASSUME NEW w \in Writers, Restore(w) PROVE ConfigTypeOK'
  <2>1. PICK b \in backups : Request(w, TRUE, b.file)
    BY <1>5 DEF Restore
  <2>2. b.file \in Files /\ OneMore
    BY <1>5 DEF ConfigTypeOK, Restore
  <2>. QED BY <1>0, <2>1, <2>2, BeginTypes
<1>6. ASSUME NEW w \in Writers, MakeBackup(w) PROVE ConfigTypeOK'
  <2>1. {} \cup UNION {Saved(b.file) : b \in SameName(w)} = UNION {Saved(b.file) : b \in SameName(w)}
    OBVIOUS
  <2>2. Expose({} \cup UNION {Saved(b.file) : b \in SameName(w)})
    BY <1>6, <2>1 DEF MakeBackup
  <2>3. /\ backups' \in {backups, Backup(w, disk)} /\ UNCHANGED <<disk, second, booted>>
        /\ writer' = [writer EXCEPT ![w].at = "write", ![w].saw = disk]
    BY <1>6 DEF MakeBackup
  <2>4. disk \in Files /\ {} \in SUBSET (0..MaxSaves) /\ record \in Records
    BY <1>0
  <2>. QED BY <2>2, <2>3, <2>4, BackupTypes
<1>7. ASSUME NEW w \in Writers, BackupFails(w) PROVE ConfigTypeOK'
  <2>1. Saved(disk) \in SUBSET (0..MaxSaves) /\ TornFile \in Files
    BY <1>0, SavesAreBounded, SavesAreFiles
  <2>. QED BY <1>0, <1>7, <2>1, BackupTypes DEF BackupFails
<1>8. ASSUME NEW w \in Writers, GiveUp(w) PROVE ConfigTypeOK'
  <2>1. RecordBounded' /\ disk' \in Files
    BY <1>0, <1>8 DEF GiveUp, RecordBounded
  <2>. QED BY <1>0, <1>8, <2>1, SavesAreFiles, RequestTypes DEF GiveUp, ConfigTypeOK
<1>9. ASSUME NEW w \in Writers, Truncate(w) PROVE ConfigTypeOK'
  <2>. DEFINE body == [writer[w] EXCEPT !.at = "truncated"]
  <2>1. body \in Bodies
    BY <1>0 DEF Bodies
  <2>2. writer' = [writer EXCEPT ![w] = body] /\ UNCHANGED <<backups, second, booted>> /\ disk' \in Files
    BY <1>0, <1>9, SavesAreFiles DEF Truncate
  <2>. HIDE DEF body
  <2>3. Saved(disk) \ Saved(writer[w].saw) \in SUBSET (0..MaxSaves)
    BY <1>0, SavesAreBounded
  <2>4. RecordBounded'
    BY <1>0, <1>9, <2>3, ExposedIsBounded DEF Truncate
  <2>. QED BY <2>1, <2>2, <2>4, RequestTypes DEF ConfigTypeOK
<1>10. ASSUME NEW w \in Writers, WriteFails(w) PROVE ConfigTypeOK'
  <2>1. Saved(disk) \in SUBSET (0..MaxSaves)
    BY <1>0, SavesAreBounded
  <2>2. RecordBounded'
    BY <1>0, <1>10, <2>1, ExposedIsBounded DEF WriteFails
  <2>. QED BY <1>10, <2>2, SavesAreFiles, RequestTypes DEF WriteFails, ConfigTypeOK
<1>11. ASSUME NEW w \in Writers, WriteAndAnswer(w) PROVE ConfigTypeOK'
  <2>. DEFINE content == writer[w].new
              saw == writer[w].saw
              acked == record.acked \cup Saved(content)
              backedUp == record.backedUp \cup (IF writer[w].restores THEN {} ELSE Saved(saw))
              exposed == record.exposed \cup (IF disk.text # "torn" THEN Saved(disk) \cup Saved(content) ELSE {})
  <2>1. content \in Files /\ saw \in Files
    BY <1>0 DEF Bodies
  <2>2. disk' \in Files
    BY <1>11, <2>1, SavesAreFiles DEF WriteAndAnswer
  <2>3. Saved(content) \subseteq 0..MaxSaves /\ Saved(saw) \subseteq 0..MaxSaves /\ Saved(disk) \subseteq 0..MaxSaves
    BY <1>0, <2>1, SavesAreBounded
  <2>4. record' = [record EXCEPT !.acked = acked, !.backedUp = backedUp, !.exposed = exposed]
    BY <1>11 DEF WriteAndAnswer
  <2>5. acked \cup backedUp \cup exposed \subseteq 0..MaxSaves
    BY <1>0, <2>3 DEF RecordBounded
  <2>6. writer' = [writer EXCEPT ![w] = Unread] /\ UNCHANGED <<backups, second, booted>>
    BY <1>11 DEF WriteAndAnswer
  <2>. HIDE DEF content, saw, acked, backedUp, exposed
  <2>7. RecordBounded'
    BY <1>0, <2>4, <2>5 DEF RecordBounded, Records
  <2>. QED BY <2>2, <2>6, <2>7, SavesAreFiles, RequestTypes DEF ConfigTypeOK
<1>12. CASE UNCHANGED configVars
  BY <1>12 DEF configVars, ConfigTypeOK
<1>. QED BY <1>1, <1>2, <1>3, <1>4, <1>5, <1>6, <1>7, <1>8, <1>9, <1>10, <1>11, <1>12 DEF ConfigNext

-----------------------------------------------------------------------------
(* The ranking and the chats.                                              *)

LEMMA RankTypesStart == RankInit => RankTypeOK
<1>1. 0 \in 0..MaxStarts /\ 0 \in 0..MaxReports
  BY RankAssumptions
<1>2. ASSUME cached = <<>> PROVE DOMAIN cached = {}
  BY <1>2
<1>. QED BY <1>1, <1>2 DEF RankInit, RankTypeOK, Nothing, NoRanking

LEMMA RankTypesStep == ASSUME RankInv, RankTypeOK, [RankNext]_rankVars PROVE RankTypeOK'
<1>. DEFINE Places == {"off", "idle", "scored", "truncated", "written"}
<1>0. DOMAIN ranking = {"at", "peers", "order"} /\ MaxStarts \in Nat /\ MaxReports \in Nat
  BY RankAssumptions DEF RankInv
<1>1. ASSUME StartRanking PROVE RankTypeOK'
  <2>1. runs' \in [starts : 0..MaxStarts, reports : 0..MaxReports]
    BY <1>0, <1>1 DEF StartRanking, RankTypeOK
  <2>2. gpuFile' \in {"absent", "cut", "whole"}
    BY <1>1 DEF StartRanking, Download, RankTypeOK
  <2>. QED BY <1>1, <2>1, <2>2 DEF StartRanking, RankTypeOK, Nothing, NoRanking
<1>2. ASSUME TableArrives PROVE RankTypeOK'
  BY <1>2 DEF TableArrives, RankTypeOK
<1>3. ASSUME BeginUpdate PROVE RankTypeOK'
  BY <1>3 DEF BeginUpdate, RankTypeOK
<1>4. ASSUME TruncateTmp \/ WriteTmp PROVE RankTypeOK'
  <2>1. ranking'.at \in Places
    BY <1>0, <1>4 DEF TruncateTmp, WriteTmp
  <2>. QED BY <1>4, <2>1 DEF TruncateTmp, WriteTmp, RankTypeOK
<1>5. ASSUME PublishTop PROVE RankTypeOK'
  BY <1>5 DEF PublishTop, RankTypeOK, Nothing, NoRanking
<1>6. ASSUME UpdateFails \/ Ends PROVE RankTypeOK'
  BY <1>6 DEF UpdateFails, Ends, RankTypeOK, Nothing
<1>7. ASSUME NEW r \in Ranked, CacheChanges(r) PROVE RankTypeOK'
  <2>1. runs' \in [starts : 0..MaxStarts, reports : 0..MaxReports]
    BY <1>0, <1>7 DEF CacheChanges, RankTypeOK
  <2>2. DOMAIN cached' \in {DOMAIN cached \cup {r}, DOMAIN cached \ {r}}
    BY <1>7 DEF CacheChanges
  <2>. QED BY <1>7, <2>1, <2>2 DEF CacheChanges, RankTypeOK
<1>8. CASE UNCHANGED rankVars
  BY <1>8 DEF rankVars, RankTypeOK
<1>. QED BY <1>1, <1>2, <1>3, <1>4, <1>5, <1>6, <1>7, <1>8 DEF RankNext

LEMMA ChatTyped == ChatTypes => ChatTypeOK
<1>. SUFFICES ASSUME ChatTypes PROVE ChatTypeOK
  OBVIOUS
<1>. DEFINE lines == md.lines
<1>1. lines \in Seq(Lines)
  BY DEF ChatTypes
<1>2. \A i \in DOMAIN lines : lines[i].kind \in Kinds
  <2>. HIDE DEF lines
  <2>1. \A i \in DOMAIN lines : lines[i] \in Lines
    BY <1>1
  <2>. QED BY <2>1 DEF Lines
<1>. QED BY <1>2 DEF ChatTypes, ChatTypeOK, Stages, Sessions, Pictured

-----------------------------------------------------------------------------
(* The node.                                                               *)

(* A step of the node is a step of each part, or leaves it as it is. *)
LEMMA EachPartSteps ==
    ASSUME [Next]_nodeVars
    PROVE  /\ [StatsNext]_statsVars /\ [PingNext]_pingVars /\ [NetNext]_netVars
           /\ [QueryNext]_queryVars /\ [RunnerNext]_runnerVars /\ [ConfigNext]_configVars
           /\ [ChatNext]_chatVars /\ [RankNext]_rankVars
<1>1. CASE UNCHANGED nodeVars
  BY <1>1 DEF nodeVars
<1>2. CASE Next
  <2>1. [StatsNext]_statsVars
    BY <1>2 DEF Next
  <2>2. /\ [PingNext]_pingVars /\ [NetNext]_netVars /\ [QueryNext]_queryVars
        /\ [RunnerNext]_runnerVars /\ [ChatNext]_chatVars /\ [RankNext]_rankVars
    BY <1>2 DEF Next
  <2>3. [ConfigNext]_configVars
    BY <1>2 DEF Next, ConfigNext
  <2>. QED BY <2>1, <2>2, <2>3
<1>. QED BY <1>1, <1>2

(* The node as MCNode composes it is every one of its parts, so that what  *)
(* is proved of the specification of a part is proved of the node.         *)
THEOREM NodeIsItsParts ==
    Spec => /\ StatsSpec /\ PingSpec /\ NetSpec /\ QuerySpec /\ RunnerSpec
            /\ ConfigSpec /\ ChatSpec /\ RankSpec
<1>1. Init => /\ StatsInit /\ PingInit /\ NetInit /\ QueryInit /\ RunnerInit
              /\ ConfigInit /\ ChatInit /\ RankInit
  BY DEF Init
<1>2. [Next]_nodeVars => /\ [StatsNext]_statsVars /\ [PingNext]_pingVars /\ [NetNext]_netVars
                         /\ [QueryNext]_queryVars /\ [RunnerNext]_runnerVars
                         /\ [ConfigNext]_configVars /\ [ChatNext]_chatVars
                         /\ [RankNext]_rankVars
  BY EachPartSteps
<1>. QED BY <1>1, <1>2, PTL DEF Spec, StatsSpec, PingSpec, NetSpec, QuerySpec, RunnerSpec, ConfigSpec,
            ChatSpec, RankSpec

(* What the parts promise, the node keeps, whichever of them moves: the    *)
(* safety properties of its services, all at once.                         *)
THEOREM NodeKeepsItsPromises ==
    Spec => /\ [](/\ TallyBalanced /\ ResetInOrderHolds /\ HealthExact /\ FailsOnlyWithoutHub
                  /\ StopLeavesNothing /\ OnlyStopSpoilsLaunch /\ NothingLost /\ ReadsBack /\ TopSound)
            /\ ResetSurvivesAlone
BY NodeIsItsParts, TallyAlwaysBalanced, OrderedResetAlwaysHolds, HealthAlwaysExact, ReadsFindAHub,
   EngineAlwaysStopped, LaunchNeverSpoiled, SavesNeverLost, SessionReadsBack, TopAlwaysSound, AnsweredResetSurvives, PTL

(* The invariants of the parts, and the types and bounds that rest on them. *)
NodeInv ==
    /\ StatsInv /\ StatsBounded /\ PingTypes /\ PingInv /\ NetTypeOK /\ QueryInv /\ QueryTypeOK
    /\ RunnerTypeOK /\ ConfigInv /\ ConfigTypeOK /\ ChatTypes /\ RankInv /\ RankTypeOK

LEMMA NodeStart == Init => NodeInv
<1>. SUFFICES ASSUME Init PROVE NodeInv
  OBVIOUS
<1>1. /\ StatsInit /\ PingInit /\ NetInit /\ QueryInit /\ RunnerInit /\ ConfigInit /\ ChatInit /\ RankInit
  BY DEF Init
<1>. QED BY <1>1, StatsStart, BoundedStart, PingStart, NetStart, QueryStart, QueryTypesStart, EngineTypes,
            ConfigStart, ConfigTypesStart, TypesInitially, RankStart, RankTypesStart DEF NodeInv

LEMMA NodeStep == NodeInv /\ [Next]_nodeVars => NodeInv'
<1>. SUFFICES ASSUME NodeInv, [Next]_nodeVars PROVE NodeInv'
  OBVIOUS
<1>1. (StatsInv /\ StatsBounded)'
  BY EachPartSteps, StatsStep, BoundedStep DEF NodeInv
<1>2. (PingTypes /\ PingInv)'
  BY EachPartSteps, PingStep DEF NodeInv
<1>3. NetTypeOK'
  BY EachPartSteps, NetStep DEF NodeInv
<1>4. (QueryInv /\ QueryTypeOK)'
  BY EachPartSteps, QueryStep, QueryTypesStep DEF NodeInv
<1>5. RunnerTypeOK'
  BY EachPartSteps, EngineStepTypes DEF NodeInv
<1>6. (ConfigInv /\ ConfigTypeOK)'
  BY EachPartSteps, ConfigStep, ConfigTypesStep DEF NodeInv
<1>7. ChatTypes'
  BY EachPartSteps, TypesKept DEF NodeInv
<1>8. (RankInv /\ RankTypeOK)'
  BY EachPartSteps, RankStep, RankTypesStep DEF NodeInv
<1>. QED BY <1>1, <1>2, <1>3, <1>4, <1>5, <1>6, <1>7, <1>8 DEF NodeInv

(* Every variable of every part keeps its type and its bound: counters of  *)
(* statistics, connections among those that live, one listener per virtual *)
(* address, the seeds of a query that are left, config.json and its        *)
(* backups, the ranking, a chat and the requests that write it.            *)
THEOREM NodeAlwaysTyped == Spec => []TypeOK
<1>1. PingTypes => PingTypeOK
  BY DEF PingTypes, PingTypeOK, Healths, PingStates, Tallies, Stories
<1>2. NodeInv => TypeOK
  BY <1>1, StatsTyped, ChatTyped DEF NodeInv, TypeOK
<1>. QED BY <1>2, NodeStart, NodeStep, PTL DEF Spec
====
