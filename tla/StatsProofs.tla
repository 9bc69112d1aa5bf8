---------------------------- MODULE StatsProofs ----------------------------
(***************************************************************************)
(* Proofs about a node's statistics (NodeStats), for any number of         *)
(* requests, tokens, resets, restarts and messages on the wire: the two    *)
(* counts of a peer's request, a reset of the node followed by one of the  *)
(* hub, and a reset that is not undone by a restart.                       *)
(***************************************************************************)
EXTENDS NodeStats, TLAPS

(* Types, without the bounds. *)
Told == [resets : Nat, acked : Nat, high : Counters, credits : Counters, ordered : BOOLEAN,
         straddled : BOOLEAN, crossed : BOOLEAN, hubs : Nat, seeds : Nat, lives : Nat]

StatsFiles == [text : {"whole", "empty", "garbled"}, totals : Totals]

Copies == [at : {"idle", "zeroed", "copied", "truncated"}, copy : Totals]

StatsTypes ==
    /\ stats \in Totals /\ serving \in Nat /\ vllm \in Nat /\ scraped \in Nat \cup {-1}
    /\ file \in StatsFiles /\ saver \in [Savers -> Copies]
    /\ wire \subseteq Message /\ hub \in Counters /\ told \in Told

(* No totals anywhere have more finished than begun requests. *)
TallyInv ==
    ~told.straddled =>
        /\ stats.done + serving <= stats.req
        /\ told.lives = 0 => stats.done + serving = stats.req
        /\ file.totals.done <= file.totals.req
        /\ \A s \in Savers : saver[s].copy.done <= saver[s].copy.req

(* Totals of the latest reset are within the high mark; those of earlier   *)
(* resets are gone once the hub was reset in order.                        *)
OrderInv ==
    /\ stats.gen <= told.resets /\ file.totals.gen <= told.resets
    /\ \A s \in Savers : saver[s].copy.gen <= told.resets
    /\ \A m \in wire : m.gen <= told.resets
    /\ stats.req <= told.high.req /\ stats.tok <= told.high.tok
    /\ \A m \in wire : m.gen = told.resets => m.req <= told.high.req /\ m.tok <= told.high.tok
    /\ told.ordered => /\ stats.gen = told.resets /\ \A m \in wire : m.gen = told.resets
                       /\ Within(hub, told.high, told.credits)

(* While no reset met a save, every copy in a saver's hands and a whole    *)
(* stats.json are of the reset that was answered, or of a later one.       *)
SurvivesInv ==
    ~told.crossed =>
        /\ told.acked <= stats.gen
        /\ \A s \in Savers : saver[s].at \in {"copied", "truncated"} => saver[s].copy.gen = stats.gen
        /\ file.text = "whole" => told.acked <= file.totals.gen

StatsInv == StatsTypes /\ TallyInv /\ OrderInv /\ SurvivesInv

LEMMA LargerType == ASSUME NEW a \in Nat, NEW b \in Nat
                    PROVE  Larger(a, b) \in Nat /\ Larger(a, b) >= a /\ Larger(a, b) >= b
                           /\ Larger(a, b) \in {a, b}
BY DEF Larger

LEMMA GrownType == ASSUME NEW high \in Counters, NEW new \in Totals
                   PROVE  /\ Grown(high, new) \in Counters
                          /\ Grown(high, new).req >= high.req /\ Grown(high, new).tok >= high.tok
                          /\ Grown(high, new).req >= new.req /\ Grown(high, new).tok >= new.tok
BY LargerType DEF Grown, Counters, Totals

(* Counting keeps everything in order when it adds to the totals of the    *)
(* same reset and keeps requests and finished requests in step.            *)
LEMMA CountKeeps ==
    ASSUME StatsInv, NEW new \in Totals, Count(new), new.gen = stats.gen,
           serving' \in Nat, vllm' \in Nat, scraped' \in Nat \cup {-1},
           UNCHANGED <<file, saver, wire, hub>>,
           stats.done + serving <= stats.req => new.done + serving' <= new.req,
           stats.done + serving = stats.req => new.done + serving' = new.req
    PROVE  StatsInv'
<1>. DEFINE high == Grown(told.high, new)
<1>1. stats' = new /\ told' = [told EXCEPT !.high = high] /\ told \in Told /\ stats \in Totals
  BY DEF Count, StatsInv, StatsTypes
<1>2. /\ high \in Counters /\ high.req >= told.high.req /\ high.tok >= told.high.tok
      /\ high.req >= new.req /\ high.tok >= new.tok /\ told.high \in Counters
  BY <1>1, GrownType DEF Told
<1>. HIDE DEF high
<1>3. /\ told' \in Told /\ told'.credits = told.credits /\ told'.high = high /\ told'.resets = told.resets /\ told'.acked = told.acked
      /\ told'.ordered = told.ordered /\ told'.straddled = told.straddled
      /\ told'.crossed = told.crossed /\ told'.lives = told.lives
  BY <1>1, <1>2 DEF Told
<1>4. StatsTypes'
  BY <1>1, <1>3 DEF StatsInv, StatsTypes
<1>5. TallyInv'
  BY <1>1, <1>3 DEF StatsInv, TallyInv
<1>6. OrderInv'
  <2>1. /\ hub.req \in Nat /\ hub.tok \in Nat /\ \A m \in wire : m.req \in Nat /\ m.tok \in Nat
        /\ high.req \in Nat /\ high.tok \in Nat /\ told.high.req \in Nat /\ told.high.tok \in Nat
        /\ told.credits.req \in Nat /\ told.credits.tok \in Nat
    BY <1>1, <1>2 DEF StatsInv, StatsTypes, Counters, Message, Told
  <2>2. \A m \in wire : m.gen = told.resets => m.req <= high.req /\ m.tok <= high.tok
    BY <1>2, <2>1 DEF StatsInv, OrderInv
  <2>3. told.ordered => Within(hub, high, told.credits)
    BY <1>2, <2>1 DEF StatsInv, OrderInv, Within
  <2>4. told'.ordered => Within(hub', told'.high, told'.credits)
    BY <1>3, <2>3
  <2>. QED BY <1>1, <1>2, <1>3, <2>2, <2>4 DEF StatsInv, OrderInv
<1>7. SurvivesInv'
  BY <1>1, <1>3 DEF StatsInv, SurvivesInv
<1>. QED BY <1>4, <1>5, <1>6, <1>7 DEF StatsInv

LEMMA ServeOwnKeeps == ASSUME StatsInv, NEW tokens \in 0..1, ServeOwn(tokens) PROVE StatsInv'
<1>. DEFINE new == [stats EXCEPT !.req = @ + 1, !.done = @ + 1, !.tok = @ + tokens]
<1>1. stats \in Totals /\ serving \in Nat /\ vllm \in Nat /\ scraped \in Nat \cup {-1} /\ tokens \in Nat
  BY DEF StatsInv, StatsTypes
<1>2. stats.req + 1 \in Nat /\ stats.done + 1 \in Nat /\ stats.tok + tokens \in Nat
  BY <1>1 DEF Totals
<1>3. new \in Totals /\ new.gen = stats.gen /\ new.req = stats.req + 1 /\ new.done = stats.done + 1
  BY <1>1, <1>2 DEF Totals
<1>4. Count(new) /\ UNCHANGED <<serving, vllm, scraped, file, saver, wire, hub>>
  BY DEF ServeOwn
<1>. HIDE DEF new
<1>5. /\ stats.done + serving <= stats.req => new.done + serving <= new.req
      /\ stats.done + serving = stats.req => new.done + serving = new.req
  BY <1>1, <1>3 DEF Totals
<1>. QED BY <1>1, <1>3, <1>4, <1>5, CountKeeps

LEMMA PeerBeginKeeps == ASSUME StatsInv, PeerBegin PROVE StatsInv'
<1>. DEFINE new == [stats EXCEPT !.req = @ + 1]
<1>1. stats \in Totals /\ serving \in Nat /\ vllm \in Nat /\ scraped \in Nat \cup {-1}
  BY DEF StatsInv, StatsTypes
<1>2. new \in Totals /\ new.gen = stats.gen /\ new.req = stats.req + 1 /\ new.done = stats.done
  BY <1>1 DEF Totals
<1>3. Count(new) /\ serving' = serving + 1 /\ UNCHANGED <<vllm, scraped, file, saver, wire, hub>>
  BY DEF PeerBegin
<1>. HIDE DEF new
<1>4. /\ stats.done + serving <= stats.req => new.done + serving' <= new.req
      /\ stats.done + serving = stats.req => new.done + serving' = new.req
      /\ serving' \in Nat
  BY <1>1, <1>2, <1>3 DEF Totals
<1>. QED BY <1>1, <1>2, <1>3, <1>4, CountKeeps

LEMMA PeerEndKeeps == ASSUME StatsInv, PeerEnd PROVE StatsInv'
<1>. DEFINE new == [stats EXCEPT !.done = @ + 1]
<1>1. stats \in Totals /\ serving \in Nat /\ vllm \in Nat /\ scraped \in Nat \cup {-1}
  BY DEF StatsInv, StatsTypes
<1>2. new \in Totals /\ new.gen = stats.gen /\ new.req = stats.req /\ new.done = stats.done + 1
  BY <1>1 DEF Totals
<1>3. /\ serving > 0 /\ Count(new) /\ serving' = serving - 1
      /\ UNCHANGED <<vllm, scraped, file, saver, wire, hub>>
  BY DEF PeerEnd
<1>. HIDE DEF new
<1>4. /\ stats.done + serving <= stats.req => new.done + serving' <= new.req
      /\ stats.done + serving = stats.req => new.done + serving' = new.req
      /\ serving' \in Nat
  BY <1>1, <1>2, <1>3 DEF Totals
<1>. QED BY <1>1, <1>2, <1>3, <1>4, CountKeeps

LEMMA ScrapeMergeKeeps == ASSUME StatsInv, ScrapeMerge PROVE StatsInv'
<1>. DEFINE new == [stats EXCEPT !.tok = Larger(@, scraped)]
<1>1. stats \in Totals /\ serving \in Nat /\ vllm \in Nat /\ scraped \in Nat
  BY DEF ScrapeMerge, StatsInv, StatsTypes
<1>2. Larger(stats.tok, scraped) \in Nat
  BY <1>1, LargerType DEF Totals
<1>3. new \in Totals /\ new.gen = stats.gen /\ new.req = stats.req /\ new.done = stats.done
  BY <1>1, <1>2 DEF Totals
<1>4. Count(new) /\ scraped' = -1 /\ UNCHANGED <<serving, vllm, file, saver, wire, hub>>
  BY DEF ScrapeMerge
<1>. HIDE DEF new
<1>. QED BY <1>1, <1>3, <1>4, CountKeeps

(* Of vLLM's counter only the number matters. *)
LEMMA VllmKeeps == ASSUME StatsInv, VllmWorks \/ VllmRestarts \/ ScrapeRead PROVE StatsInv'
<1>1. CASE VllmWorks \/ ScrapeRead
  <2>1. UNCHANGED <<stats, serving, file, saver, wire, hub, told>>
    BY <1>1 DEF VllmWorks, ScrapeRead
  <2>2. vllm' \in Nat /\ scraped' \in Nat \cup {-1}
    BY <1>1 DEF VllmWorks, ScrapeRead, StatsInv, StatsTypes
  <2>. QED BY <2>1, <2>2 DEF StatsInv, StatsTypes, TallyInv, OrderInv, SurvivesInv
<1>2. CASE VllmRestarts
  <2>1. /\ UNCHANGED <<stats, serving, scraped, file, saver, wire, hub>> /\ vllm' = 0
        /\ told' = [told EXCEPT !.lives = @ + 1] /\ told \in Told
    BY <1>2 DEF VllmRestarts, StatsInv, StatsTypes
  <2>2. /\ told' \in Told /\ told'.credits = told.credits /\ told'.high = told.high /\ told'.resets = told.resets /\ told'.acked = told.acked
        /\ told'.ordered = told.ordered /\ told'.straddled = told.straddled
        /\ told'.crossed = told.crossed /\ told'.lives = told.lives + 1 /\ told.lives \in Nat
    BY <2>1 DEF Told
  <2>3. StatsTypes' /\ OrderInv' /\ SurvivesInv'
    BY <2>1, <2>2 DEF StatsInv, StatsTypes, OrderInv, SurvivesInv
  <2>4. TallyInv'
    BY <2>1, <2>2 DEF StatsInv, TallyInv
  <2>. QED BY <2>3, <2>4 DEF StatsInv
<1>. QED BY <1>1, <1>2

LEMMA SaveCopyKeeps == ASSUME StatsInv, NEW s \in Savers, SaveCopy(s) PROVE StatsInv'
<1>. DEFINE new == [at |-> "copied", copy |-> stats]
<1>1. saver' = [saver EXCEPT ![s] = new] /\ UNCHANGED <<stats, serving, vllm, scraped, file, wire, hub, told>>
  BY DEF SaveCopy
<1>2. new \in Copies /\ new.copy = stats /\ stats \in Totals /\ serving \in Nat
  BY DEF StatsInv, StatsTypes, Copies
<1>. HIDE DEF new
<1>3. /\ saver' \in [Savers -> Copies] /\ saver'[s] = new
      /\ \A t \in Savers \ {s} : saver'[t] = saver[t]
  BY <1>1, <1>2 DEF StatsInv, StatsTypes
<1>4. StatsTypes'
  BY <1>1, <1>3 DEF StatsInv, StatsTypes
<1>5. TallyInv'
  <2>1. stats.done + serving <= stats.req => stats.done <= stats.req
    BY <1>2 DEF Totals
  <2>. QED BY <1>1, <1>2, <1>3, <2>1 DEF StatsInv, TallyInv
<1>6. OrderInv'
  BY <1>1, <1>2, <1>3 DEF StatsInv, OrderInv
<1>7. SurvivesInv'
  BY <1>1, <1>2, <1>3 DEF StatsInv, SurvivesInv
<1>. QED BY <1>4, <1>5, <1>6, <1>7 DEF StatsInv

LEMMA FreshTotals ==
    /\ Fresh \in Totals /\ Fresh.req = 0 /\ Fresh.done = 0 /\ Fresh.tok = 0 /\ Fresh.gen = 0
    /\ NoText \in StatsFiles /\ NoText.text = "empty" /\ NoText.totals = Fresh
    /\ SaverIdle \in Copies /\ SaverIdle.at = "idle" /\ SaverIdle.copy = Fresh
    /\ \A n \in Nat : /\ [Fresh EXCEPT !.gen = n] \in Totals /\ [Fresh EXCEPT !.gen = n].gen = n
                      /\ [Fresh EXCEPT !.gen = n].req = 0 /\ [Fresh EXCEPT !.gen = n].done = 0
                      /\ [Fresh EXCEPT !.gen = n].tok = 0
BY DEF Fresh, Totals, NoText, StatsFiles, SaverIdle, Copies

LEMMA SaveTruncateKeeps == ASSUME StatsInv, NEW s \in Savers, SaveTruncate(s) PROVE StatsInv'
<1>1. /\ saver' = [saver EXCEPT ![s].at = "truncated"] /\ file' = NoText /\ saver[s].at = "copied"
      /\ UNCHANGED <<stats, serving, vllm, scraped, wire, hub, told>>
  BY DEF SaveTruncate
<1>2. /\ saver' \in [Savers -> Copies] /\ saver'[s].at = "truncated" /\ saver'[s].copy = saver[s].copy
      /\ \A t \in Savers \ {s} : saver'[t] = saver[t]
  BY <1>1 DEF StatsInv, StatsTypes, Copies
<1>3. StatsTypes'
  BY <1>1, <1>2, FreshTotals DEF StatsInv, StatsTypes
<1>4. TallyInv'
  BY <1>1, <1>2, FreshTotals DEF StatsInv, TallyInv
<1>5. OrderInv'
  <2>1. told.resets \in Nat
    BY DEF StatsInv, StatsTypes, Told
  <2>. QED BY <1>1, <1>2, <2>1, FreshTotals DEF StatsInv, OrderInv
<1>6. SurvivesInv'
  BY <1>1, <1>2, FreshTotals DEF StatsInv, SurvivesInv
<1>. QED BY <1>3, <1>4, <1>5, <1>6 DEF StatsInv

LEMMA SaveWriteKeeps == ASSUME StatsInv, NEW s \in Savers, SaveWrite(s) PROVE StatsInv'
<1>1. /\ saver' = [saver EXCEPT ![s] = SaverIdle] /\ saver[s].at = "truncated"
      /\ told' = IF s = "reset" THEN [told EXCEPT !.acked = saver[s].copy.gen] ELSE told
      /\ UNCHANGED <<stats, serving, vllm, scraped, wire, hub>>
  BY DEF SaveWrite
<1>2. file'.totals = saver[s].copy /\ saver[s].copy \in Totals /\ file' \in StatsFiles
  <2>1. saver[s].copy \in Totals
    BY DEF StatsInv, StatsTypes, Copies
  <2>. QED BY <2>1 DEF SaveWrite, StatsFiles
<1>3. /\ saver' \in [Savers -> Copies] /\ saver'[s] = SaverIdle
      /\ \A t \in Savers \ {s} : saver'[t] = saver[t]
  BY <1>1, FreshTotals DEF StatsInv, StatsTypes
<1>4. /\ told' \in Told /\ told'.credits = told.credits /\ told'.high = told.high /\ told'.resets = told.resets
      /\ told'.ordered = told.ordered /\ told'.straddled = told.straddled
      /\ told'.crossed = told.crossed /\ told'.lives = told.lives /\ told.resets \in Nat
      /\ told'.acked \in {told.acked, saver[s].copy.gen}
  BY <1>1, <1>2 DEF StatsInv, StatsTypes, Told, Totals
<1>5. StatsTypes'
  BY <1>1, <1>2, <1>3, <1>4 DEF StatsInv, StatsTypes
<1>6. TallyInv'
  BY <1>1, <1>2, <1>3, <1>4, FreshTotals DEF StatsInv, TallyInv
<1>7. OrderInv'
  BY <1>1, <1>2, <1>3, <1>4, FreshTotals DEF StatsInv, OrderInv
<1>8. SurvivesInv'
  <2>. SUFFICES ASSUME ~told.crossed
                PROVE  /\ told'.acked <= stats.gen
                       /\ \A t \in Savers : saver'[t].at \in {"copied", "truncated"} => saver'[t].copy.gen = stats.gen
                       /\ told'.acked <= file'.totals.gen
    BY <1>1, <1>4 DEF SurvivesInv
  <2>1. saver[s].copy.gen = stats.gen /\ told.acked <= stats.gen /\ stats.gen \in Nat
    BY <1>1 DEF StatsInv, StatsTypes, SurvivesInv, Totals
  <2>2. told'.acked <= stats.gen /\ told'.acked <= file'.totals.gen
    BY <1>2, <1>4, <2>1
  <2>. QED BY <1>3, <2>2, FreshTotals DEF StatsInv, SurvivesInv
<1>. QED BY <1>5, <1>6, <1>7, <1>8 DEF StatsInv

LEMMA NodeResetKeeps == ASSUME StatsInv, NodeReset PROVE StatsInv'
<1>. DEFINE meets == \E s \in Savers : saver[s].at # "idle"
<1>1. /\ stats' = [Fresh EXCEPT !.gen = told.resets + 1] /\ told \in Told
      /\ told' = [told EXCEPT !.resets = @ + 1, !.acked = told.acked, !.high = NoCounts,
                     !.ordered = FALSE, !.straddled = @ \/ serving > 0, !.crossed = @ \/ meets]
      /\ saver' = [saver EXCEPT !["reset"].at = "zeroed"]
      /\ UNCHANGED <<serving, vllm, scraped, file, wire, hub>>
  BY DEF NodeReset, ResetTotals, AtReset, StatsInv, StatsTypes
<1>2. NoCounts \in Counters /\ NoCounts.req = 0 /\ NoCounts.tok = 0 /\ told.resets + 1 \in Nat
      /\ told.resets \in Nat /\ told.acked \in Nat
  BY <1>1 DEF NoCounts, Counters, Told
<1>3. /\ stats' \in Totals /\ stats'.gen = told.resets + 1 /\ stats'.req = 0 /\ stats'.done = 0 /\ stats'.tok = 0
  BY <1>1, <1>2, FreshTotals
<1>4. /\ saver' \in [Savers -> Copies] /\ saver'["reset"].at = "zeroed"
      /\ \A s \in Savers : saver'[s].copy = saver[s].copy /\ (s # "reset" => saver'[s] = saver[s])
  BY <1>1, SaversAssumption DEF StatsInv, StatsTypes, Copies
<1>5. meets \in BOOLEAN
  OBVIOUS
<1>6. ~meets => \A s \in Savers : saver[s].at = "idle"
  OBVIOUS
<1>. HIDE DEF meets
<1>7. /\ told' \in Told /\ told'.credits = told.credits /\ told'.high = NoCounts /\ told'.resets = told.resets + 1
      /\ told'.acked = told.acked /\ told'.ordered = FALSE
      /\ ~told'.straddled => ~told.straddled /\ ~(serving > 0)
      /\ ~told'.crossed => ~told.crossed /\ ~meets
      /\ told'.lives = told.lives
  BY <1>1, <1>2, <1>5 DEF Told
<1>8. StatsTypes'
  BY <1>1, <1>3, <1>4, <1>7 DEF StatsInv, StatsTypes
<1>9. TallyInv'
  <2>1. ~told'.straddled => serving = 0
    BY <1>7 DEF StatsInv, StatsTypes
  <2>. QED BY <1>1, <1>3, <1>4, <1>7, <2>1 DEF StatsInv, TallyInv
<1>10. OrderInv'
  <2>1. \A n \in Nat : n <= told.resets => n <= told.resets + 1 /\ n # told.resets + 1
    BY <1>2
  <2>2. /\ file.totals.gen \in Nat /\ \A s \in Savers : saver[s].copy.gen \in Nat
        /\ \A m \in wire : m.gen \in Nat
    BY DEF StatsInv, StatsTypes, StatsFiles, Copies, Totals, Message
  <2>3. /\ file.totals.gen <= told.resets + 1 /\ \A s \in Savers : saver[s].copy.gen <= told.resets + 1
        /\ \A m \in wire : m.gen <= told.resets + 1 /\ m.gen # told.resets + 1
    BY <2>1, <2>2 DEF StatsInv, OrderInv
  <2>. QED BY <1>1, <1>2, <1>3, <1>4, <1>7, <2>3 DEF OrderInv
<1>11. SurvivesInv'
  <2>. SUFFICES ASSUME ~told'.crossed
                PROVE  /\ told'.acked <= stats'.gen
                       /\ \A s \in Savers : saver'[s].at \notin {"copied", "truncated"}
                       /\ file'.text = "whole" => told'.acked <= file'.totals.gen
    BY DEF SurvivesInv
  <2>1. told.acked <= stats.gen /\ stats.gen <= told.resets /\ stats.gen \in Nat
    BY <1>7 DEF StatsInv, SurvivesInv, OrderInv, StatsTypes, Totals
  <2>2. \A s \in Savers : saver'[s].at \in {"idle", "zeroed"}
    BY <1>4, <1>6, <1>7
  <2>3. told.acked <= told.resets + 1
    BY <1>2, <2>1
  <2>. QED BY <1>1, <1>3, <1>7, <2>2, <2>3 DEF StatsInv, SurvivesInv
<1>. QED BY <1>8, <1>9, <1>10, <1>11 DEF StatsInv

LEMMA LoadedTotals ==
    ASSUME StatsInv
    PROVE  /\ Loaded \in Totals /\ Loaded.gen <= told.resets
           /\ ~told.straddled => Loaded.done <= Loaded.req
           /\ ~told.crossed => told.acked <= Loaded.gen
<1>1. CASE file.text = "whole"
  BY <1>1 DEF Loaded, StatsInv, StatsTypes, TallyInv, OrderInv, SurvivesInv, StatsFiles
<1>2. CASE file.text # "whole"
  <2>1. stats.gen \in Nat
    BY DEF StatsInv, StatsTypes, Totals
  <2>2. Loaded = [Fresh EXCEPT !.gen = stats.gen]
    BY <1>2 DEF Loaded
  <2>3. Loaded \in Totals /\ Loaded.gen = stats.gen /\ Loaded.req = 0 /\ Loaded.done = 0
    BY <2>1, <2>2, FreshTotals
  <2>. QED BY <2>3 DEF StatsInv, OrderInv, SurvivesInv
<1>. QED BY <1>1, <1>2

LEMMA RestartKeeps == ASSUME StatsInv, Restart PROVE StatsInv'
<1>. DEFINE high == Grown(told.high, Loaded)
            same == told.ordered /\ Loaded.gen = stats.gen
<1>1. /\ stats' = Loaded /\ serving' = 0 /\ scraped' = -1 /\ saver' = [s \in Savers |-> SaverIdle]
      /\ told' = [told EXCEPT !.lives = @ + 1, !.high = high, !.ordered = same]
      /\ UNCHANGED <<vllm, file, wire, hub>>
  BY DEF Restart
<1>2. told \in Told /\ Loaded \in Totals /\ told.high \in Counters /\ told.lives \in Nat
  BY LoadedTotals DEF StatsInv, StatsTypes, Told
<1>3. /\ high \in Counters /\ high.req >= told.high.req /\ high.tok >= told.high.tok
      /\ high.req >= Loaded.req /\ high.tok >= Loaded.tok /\ same \in BOOLEAN
      /\ same => told.ordered /\ Loaded.gen = stats.gen
  BY <1>2, GrownType DEF Told
<1>. HIDE DEF high, same
<1>4. /\ told' \in Told /\ told'.credits = told.credits /\ told'.high = high /\ told'.resets = told.resets /\ told'.acked = told.acked
      /\ told'.ordered = same /\ told'.straddled = told.straddled
      /\ told'.crossed = told.crossed /\ told'.lives = told.lives + 1
  <2>. DEFINE more == told.lives + 1
  <2>1. more \in Nat /\ told' = [told EXCEPT !.lives = more, !.high = high, !.ordered = same]
    BY <1>1, <1>2
  <2>. HIDE DEF more
  <2>2. /\ told' \in Told /\ told'.credits = told.credits /\ told'.high = high /\ told'.resets = told.resets /\ told'.acked = told.acked
        /\ told'.ordered = same /\ told'.straddled = told.straddled
        /\ told'.crossed = told.crossed /\ told'.lives = more
    BY <1>2, <1>3, <2>1 DEF Told
  <2>. QED BY <2>2 DEF more
<1>5. saver' \in [Savers -> Copies] /\ \A s \in Savers : saver'[s] = SaverIdle
  BY <1>1, FreshTotals
<1>6. StatsTypes'
  BY <1>1, <1>2, <1>4, <1>5 DEF StatsInv, StatsTypes
<1>7. TallyInv'
  <2>1. ~told'.straddled => stats'.done + serving' <= stats'.req
    BY <1>1, <1>2, <1>4, LoadedTotals DEF Totals
  <2>2. told'.lives # 0
    BY <1>2, <1>4
  <2>. QED BY <1>1, <1>4, <1>5, <2>1, <2>2, FreshTotals DEF StatsInv, TallyInv
<1>8. OrderInv'
  <2>1. /\ hub.req \in Nat /\ hub.tok \in Nat /\ \A m \in wire : m.req \in Nat /\ m.tok \in Nat
        /\ high.req \in Nat /\ high.tok \in Nat /\ told.high.req \in Nat /\ told.high.tok \in Nat
        /\ Loaded.req \in Nat /\ Loaded.tok \in Nat /\ told.resets \in Nat
        /\ told.credits.req \in Nat /\ told.credits.tok \in Nat
    BY <1>2, <1>3 DEF StatsInv, StatsTypes, Counters, Message, Totals, Told
  <2>2. \A m \in wire : m.gen = told.resets => m.req <= high.req /\ m.tok <= high.tok
    BY <1>3, <2>1 DEF StatsInv, OrderInv
  <2>3. same => /\ Loaded.gen = told.resets /\ Within(hub, high, told.credits)
                /\ \A m \in wire : m.gen = told.resets
    BY <1>3, <2>1 DEF StatsInv, OrderInv, Within
  <2>. QED BY <1>1, <1>3, <1>4, <1>5, <2>1, <2>2, <2>3, LoadedTotals, FreshTotals DEF StatsInv, OrderInv
<1>9. SurvivesInv'
  BY <1>1, <1>4, <1>5, LoadedTotals, FreshTotals DEF StatsInv, SurvivesInv
<1>. QED BY <1>6, <1>7, <1>8, <1>9 DEF StatsInv

LEMMA PublishKeeps == ASSUME StatsInv, GossipPublish PROVE StatsInv'
<1>1. wire' = wire \cup {Sent} /\ UNCHANGED <<stats, serving, vllm, scraped, file, saver, hub, told>>
  BY DEF GossipPublish
<1>2. Sent \in Message /\ Sent.gen = stats.gen /\ Sent.req = stats.req /\ Sent.tok = stats.tok
  BY DEF Sent, Message, StatsInv, StatsTypes, Totals
<1>3. StatsTypes' /\ TallyInv' /\ SurvivesInv'
  BY <1>1, <1>2 DEF StatsInv, StatsTypes, TallyInv, SurvivesInv
<1>4. OrderInv'
  BY <1>1, <1>2 DEF StatsInv, OrderInv
<1>. QED BY <1>3, <1>4 DEF StatsInv

LEMMA DeliverKeeps == ASSUME StatsInv, NEW m \in wire, Deliver(m) \/ Lose(m) PROVE StatsInv'
<1>. DEFINE new == [req |-> Larger(hub.req, m.req), tok |-> Larger(hub.tok, m.tok)]
<1>1. /\ wire' = wire \ {m} /\ UNCHANGED <<stats, serving, vllm, scraped, file, saver, told>>
      /\ hub' \in {hub, new}
  BY DEF Deliver, Lose
<1>2. /\ new \in Counters /\ new.req \in {hub.req, m.req} /\ new.tok \in {hub.tok, m.tok}
  BY LargerType DEF StatsInv, StatsTypes, Counters, Message
<1>. HIDE DEF new
<1>3. StatsTypes' /\ TallyInv' /\ SurvivesInv'
  BY <1>1, <1>2 DEF StatsInv, StatsTypes, TallyInv, SurvivesInv
<1>4. told.ordered => Within(hub', told.high, told.credits)
  <2>1. /\ told.high.req \in Nat /\ told.high.tok \in Nat /\ told.credits.req \in Nat
        /\ told.credits.tok \in Nat /\ m.req \in Nat /\ m.tok \in Nat
    BY DEF StatsInv, StatsTypes, Told, Counters, Message
  <2>2. told.ordered => /\ Within(hub, told.high, told.credits)
                        /\ m.req <= told.high.req /\ m.tok <= told.high.tok
    BY DEF StatsInv, OrderInv
  <2>. QED BY <1>1, <1>2, <2>1, <2>2 DEF Within
<1>5. OrderInv'
  BY <1>1, <1>4 DEF StatsInv, OrderInv
<1>. QED BY <1>3, <1>5 DEF StatsInv

LEMMA HubResetKeeps == ASSUME StatsInv, HubReset PROVE StatsInv'
<1>. DEFINE clean == \A m \in wire \cup {stats} : m.gen = told.resets
<1>1. /\ hub' = NoCounts /\ told' = [told EXCEPT !.hubs = @ + 1, !.credits = NoCounts, !.ordered = clean] /\ told \in Told
      /\ UNCHANGED <<stats, serving, vllm, scraped, file, saver, wire>>
  BY DEF HubReset, HubResets, StatsInv, StatsTypes
<1>2. clean \in BOOLEAN /\ (clean => stats.gen = told.resets /\ \A m \in wire : m.gen = told.resets)
  OBVIOUS
<1>. HIDE DEF clean
<1>3. /\ told' \in Told /\ told'.high = told.high /\ told'.credits = NoCounts
      /\ told'.resets = told.resets /\ told'.acked = told.acked
      /\ told'.ordered = clean /\ told'.straddled = told.straddled
      /\ told'.crossed = told.crossed /\ told'.lives = told.lives
      /\ told.high.req \in Nat /\ told.high.tok \in Nat
  <2>. DEFINE more == told.hubs + 1
  <2>1. more \in Nat /\ NoCounts \in Counters /\ told' = [told EXCEPT !.hubs = more, !.credits = NoCounts, !.ordered = clean]
    BY <1>1 DEF Told, NoCounts, Counters
  <2>. HIDE DEF more
  <2>. QED BY <1>1, <1>2, <2>1 DEF Told, Counters
<1>4. NoCounts \in Counters /\ NoCounts.req = 0 /\ NoCounts.tok = 0
  BY DEF NoCounts, Counters
<1>5. StatsTypes' /\ TallyInv' /\ SurvivesInv'
  BY <1>1, <1>3, <1>4 DEF StatsInv, StatsTypes, TallyInv, SurvivesInv
<1>6. OrderInv'
  <2>1. told'.high.req \in Nat /\ told'.high.tok \in Nat
    BY <1>3
  <2>2. Within(hub', told'.high, told'.credits)
    BY <1>1, <1>3, <1>4, <2>1 DEF Within
  <2>. QED BY <1>1, <1>2, <1>3, <2>2 DEF StatsInv, OrderInv
<1>. QED BY <1>5, <1>6 DEF StatsInv

(* What the hub adds itself, and what a seed brings. *)
LEMMA HubRaisesKeeps ==
    ASSUME StatsInv, NEW new \in Counters, NEW credits \in Counters, NEW seeds \in Nat,
           NEW ordered \in BOOLEAN, hub' = new,
           told' = [told EXCEPT !.credits = credits, !.seeds = seeds, !.ordered = ordered],
           UNCHANGED <<stats, serving, vllm, scraped, file, saver, wire>>,
           ordered => told.ordered /\ Within(new, told.high, credits)
    PROVE  StatsInv'
<1>1. /\ told' \in Told /\ told'.high = told.high /\ told'.credits = credits
      /\ told'.resets = told.resets /\ told'.acked = told.acked
      /\ told'.ordered = ordered /\ told'.straddled = told.straddled
      /\ told'.crossed = told.crossed /\ told'.lives = told.lives
  BY DEF StatsInv, StatsTypes, Told
<1>2. StatsTypes' /\ TallyInv' /\ SurvivesInv'
  BY <1>1 DEF StatsInv, StatsTypes, TallyInv, SurvivesInv
<1>3. OrderInv'
  BY <1>1 DEF StatsInv, OrderInv
<1>. QED BY <1>2, <1>3 DEF StatsInv

LEMMA HubCreditKeeps == ASSUME StatsInv, NEW tokens \in 0..1, HubCredit(tokens) PROVE StatsInv'
<1>. DEFINE new == [req |-> hub.req + 1, tok |-> hub.tok + tokens]
            credits == [req |-> told.credits.req + 1, tok |-> told.credits.tok + tokens]
<1>1. /\ told \in Told /\ hub \in Counters /\ told.credits \in Counters /\ told.high \in Counters
      /\ told.ordered \in BOOLEAN /\ told.seeds \in Nat /\ tokens \in Nat
  BY DEF StatsInv, StatsTypes, Told
<1>2. new \in Counters /\ credits \in Counters
  BY <1>1 DEF Counters
<1>3. told.ordered => Within(new, told.high, credits)
  <2>1. told.ordered => Within(hub, told.high, told.credits)
    BY DEF StatsInv, OrderInv
  <2>. QED BY <1>1, <2>1 DEF Within, Counters
<1>4. /\ hub' = new /\ UNCHANGED <<stats, serving, vllm, scraped, file, saver, wire>>
      /\ told' = [told EXCEPT !.credits = credits]
  BY DEF HubCredit
<1>. HIDE DEF new, credits
<1>5. told' = [told EXCEPT !.credits = credits, !.seeds = told.seeds, !.ordered = told.ordered]
  BY <1>1, <1>4 DEF Told
<1>. QED BY <1>1, <1>2, <1>3, <1>4, <1>5, HubRaisesKeeps

LEMMA SeedMergeKeeps == ASSUME StatsInv, NEW snapshot \in Snapshots, SeedMerge(snapshot) PROVE StatsInv'
<1>. DEFINE new == [req |-> Larger(hub.req, snapshot.req), tok |-> Larger(hub.tok, snapshot.tok)]
            ordered == told.ordered /\ Within(snapshot, told.high, told.credits)
            seeds == told.seeds + 1
<1>1. /\ told \in Told /\ hub \in Counters /\ told.credits \in Counters /\ told.high \in Counters
      /\ snapshot \in Counters /\ seeds \in Nat
  BY StatsBounds DEF StatsInv, StatsTypes, Told, Snapshots, Counters
<1>2. new \in Counters /\ new.req \in {hub.req, snapshot.req} /\ new.tok \in {hub.tok, snapshot.tok}
  BY <1>1, LargerType DEF Counters
<1>3. ordered => told.ordered /\ Within(new, told.high, told.credits)
  BY <1>2 DEF StatsInv, OrderInv, Within
<1>4. ordered \in BOOLEAN
  BY DEF Within
<1>5. /\ hub' = new /\ UNCHANGED <<stats, serving, vllm, scraped, file, saver, wire>>
      /\ told' = [told EXCEPT !.seeds = seeds, !.ordered = ordered]
  BY DEF SeedMerge
<1>. HIDE DEF new, ordered, seeds
<1>6. told' = [told EXCEPT !.credits = told.credits, !.seeds = seeds, !.ordered = ordered]
  BY <1>1, <1>5 DEF Told
<1>. QED BY <1>1, <1>2, <1>3, <1>4, <1>5, <1>6, HubRaisesKeeps

LEMMA StatsStart == StatsInit => StatsInv
<1>. SUFFICES ASSUME StatsInit PROVE StatsInv
  OBVIOUS
<1>1. NoCounts \in Counters /\ NoCounts.req = 0 /\ NoCounts.tok = 0
  BY DEF NoCounts, Counters
<1>2. /\ told \in Told /\ told.high = NoCounts /\ told.resets = 0 /\ told.acked = 0 /\ told.ordered = FALSE
  BY <1>1 DEF StatsInit, Told
<1>3. saver \in [Savers -> Copies] /\ \A s \in Savers : saver[s] = SaverIdle
  BY FreshTotals DEF StatsInit
<1>4. /\ stats = Fresh /\ serving = 0 /\ vllm = 0 /\ scraped = -1 /\ file = NoText
      /\ wire = {} /\ hub = NoCounts
  BY DEF StatsInit
<1>5. StatsTypes
  BY <1>1, <1>2, <1>3, <1>4, FreshTotals DEF StatsTypes
<1>6. TallyInv /\ OrderInv /\ SurvivesInv
  BY <1>1, <1>2, <1>3, <1>4, FreshTotals DEF TallyInv, OrderInv, SurvivesInv
<1>. QED BY <1>5, <1>6 DEF StatsInv

LEMMA StatsStep == ASSUME StatsInv, [StatsNext]_statsVars PROVE StatsInv'
<1>1. CASE \E tokens \in 0..1 : ServeOwn(tokens)
  BY <1>1, ServeOwnKeeps
<1>2. CASE PeerBegin \/ PeerEnd \/ ScrapeMerge
  BY <1>2, PeerBeginKeeps, PeerEndKeeps, ScrapeMergeKeeps
<1>3. CASE VllmWorks \/ VllmRestarts \/ ScrapeRead
  BY <1>3, VllmKeeps
<1>4. ASSUME NEW s \in Savers, SaveCopy(s) \/ SaveTruncate(s) \/ SaveWrite(s) PROVE StatsInv'
  BY <1>4, SaveCopyKeeps, SaveTruncateKeeps, SaveWriteKeeps
<1>5. CASE NodeReset \/ Restart
  BY <1>5, NodeResetKeeps, RestartKeeps
<1>6. CASE GossipPublish \/ HubReset
  BY <1>6, PublishKeeps, HubResetKeeps
<1>9. CASE \E tokens \in 0..1 : HubCredit(tokens)
  BY <1>9, HubCreditKeeps
<1>10. CASE \E snapshot \in Snapshots : SeedMerge(snapshot)
  BY <1>10, SeedMergeKeeps
<1>7. ASSUME NEW m \in wire, Deliver(m) \/ Lose(m) PROVE StatsInv'
  BY <1>7, DeliverKeeps
<1>8. CASE UNCHANGED statsVars
  BY <1>8 DEF statsVars, StatsInv, StatsTypes, TallyInv, OrderInv, SurvivesInv
<1>. QED BY <1>1, <1>2, <1>3, <1>4, <1>5, <1>6, <1>7, <1>8, <1>9, <1>10 DEF StatsNext

LEMMA StatsAlways == StatsSpec => []StatsInv
<1>1. StatsInv /\ [StatsNext]_statsVars => StatsInv'
  BY StatsStep
<1>. QED BY <1>1, StatsStart, PTL DEF StatsSpec

(* The two counts of a peer's request stay in step (p2p.go:482, 506), for  *)
(* any number of requests, saves, crashes and restarts, unless a reset     *)
(* comes between them.                                                     *)
THEOREM TallyAlwaysBalanced == StatsSpec => []TallyBalanced
<1>1. StatsInv => TallyBalanced
  BY DEF StatsInv, TallyInv, TallyBalanced
<1>. QED BY <1>1, StatsAlways, PTL

(* Reset the node, then the hub with no older message on its way, and      *)
(* gossip never brings old totals back (peer_cache.go:212): the hub shows  *)
(* at most what the node counted and the hub credited since their resets,  *)
(* however messages are lost and reordered and the node restarts, until a  *)
(* seed that was not reset brings more.                                    *)
THEOREM OrderedResetAlwaysHolds == StatsSpec => []ResetInOrderHolds
<1>1. StatsInv => ResetInOrderHolds
  BY DEF StatsInv, OrderInv, ResetInOrderHolds
<1>. QED BY <1>1, StatsAlways, PTL

(* A reset that was answered and met no other save is still in force after *)
(* every later crash (tui.go:101).                                         *)
THEOREM AnsweredResetSurvives == StatsSpec => ResetSurvivesAlone
<1>1. StatsInv /\ [StatsNext]_statsVars
        => [Restart /\ ~told.crossed => stats'.gen >= told.acked]_statsVars
  <2>. SUFFICES ASSUME StatsInv, Restart, ~told.crossed PROVE stats'.gen >= told.acked
    OBVIOUS
  <2>1. stats' = Loaded /\ Loaded \in Totals /\ told.acked <= Loaded.gen /\ told.acked \in Nat
    BY LoadedTotals DEF Restart, StatsInv, StatsTypes, Told
  <2>. QED BY <2>1 DEF Totals
<1>. QED BY <1>1, StatsAlways, PTL DEF StatsSpec, ResetSurvivesAlone
=============================================================================
