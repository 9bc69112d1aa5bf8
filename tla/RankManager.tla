---------------------------- MODULE RankManager ----------------------------
(***************************************************************************)
(* The hub's ranking (server_rank.go, scanGPUlevel.go): the GPU table that *)
(* main downloads once, the score of what a peer says of its hardware, and *)
(* top.json, rewritten every ten seconds from one copy of the peer cache   *)
(* and published by a rename.                                              *)
(*                                                                         *)
(* A peer's GPU text is one of a few kinds; a score is the gigabytes it    *)
(* resolves to (the code multiplies all of them by 300).  Left out: how    *)
(* names are normalised and matched, and the number of cards.              *)
(***************************************************************************)
EXTENDS Integers, FiniteSets, Sequences, SequencesExt

CONSTANTS Ranked,      \* peers that may be in the cache
          Texts,       \* kinds of GPU text they may report
          MaxReports,  \* bound: changes of the cache
          MaxStarts    \* bound: starts of the hub

ASSUME RankAssumptions ==
    /\ Texts \subseteq {"sized", "named", "unknown", "garbage", "none", "relay"}
    /\ MaxReports \in Nat /\ MaxStarts \in Nat

VARIABLES
    cached,   \* the peer cache: a GPU text per peer
    gpuFile,  \* gpu_database.json: "absent", "cut" or "whole"
    ranking,  \* TriggerUpdate: where it is, the peers it copied, what it scored
    tmp,      \* top.json.tmp
    top,      \* top.json
    runs,     \* starts and reports so far
    shown     \* history: the copy of the cache that top.json was made from

rankVars == <<cached, gpuFile, ranking, tmp, top, runs, shown>>

Nothing == [at |-> "off", peers |-> <<>>, order |-> <<>>]

NoRanking == [text |-> "absent", order |-> <<>>]

RankInit ==
    /\ cached = <<>> /\ gpuFile = "absent"
    /\ ranking = Nothing /\ tmp = NoRanking /\ top = NoRanking
    /\ runs = [starts |-> 0, reports |-> 0] /\ shown = <<>>

DefaultGB == 16

(* CalculateScore: the size in the text or that of a built-in name; else   *)
(* what the table has for the name; the default for what cannot be         *)
(* resolved or parsed; zero for a relay and for a node that says it has no *)
(* GPU.  getGPUMap reads the table when it is first needed, and until then *)
(* at every score.                                                         *)
CalculateScore(text) ==
    CASE text = "sized" -> 24
      [] text = "named" -> IF gpuFile = "whole" THEN 80 ELSE DefaultGB
      [] text \in {"none", "relay"} -> 0
      [] OTHER -> DefaultGB

RankTypeOK ==
    /\ DOMAIN cached \subseteq Ranked /\ gpuFile \in {"absent", "cut", "whole"}
    /\ ranking.at \in {"off", "idle", "scored", "truncated", "written"}
    /\ tmp.text \in {"absent", "torn", "whole"} /\ top.text \in {"absent", "torn", "whole"}
    /\ runs \in [starts : 0..MaxStarts, reports : 0..MaxReports]

-----------------------------------------------------------------------------
(* scanGPUlevel: a download that breaks off leaves a file, which no later  *)
(* start replaces.                                                         *)
Download == gpuFile' \in (IF gpuFile = "absent" THEN {"absent", "cut", "whole"} ELSE {gpuFile})

(* main, NewRankManager and Start, with the first update to come. *)
StartRanking ==
    /\ ranking.at = "off" /\ runs.starts < MaxStarts
    /\ Download
    /\ top' = NoRanking /\ ranking' = [Nothing EXCEPT !.at = "idle"]
    /\ runs' = [runs EXCEPT !.starts = @ + 1]
    /\ UNCHANGED <<cached, tmp, shown>>

(* The operator puts the table there. *)
TableArrives ==
    /\ gpuFile # "whole" /\ gpuFile' = "whole"
    /\ UNCHANGED <<cached, ranking, tmp, top, runs, shown>>

(* One peer is heard of, changes its text or leaves. *)
CacheChanges(p) ==
    /\ runs.reports < MaxReports
    /\ \/ \E text \in Texts : cached' = [r \in DOMAIN cached \cup {p} |-> IF r = p THEN text ELSE cached[r]]
       \/ p \in DOMAIN cached /\ cached' = [r \in DOMAIN cached \ {p} |-> cached[r]]
    /\ runs' = [runs EXCEPT !.reports = @ + 1]
    /\ UNCHANGED <<gpuFile, ranking, tmp, top, shown>>

ByScore(a, b) == a.score > b.score

(* sort.SliceStable keeps the order of the copy between equal scores: by   *)
(* contribution, which is left out here, so any.                           *)
Orders(entries) ==
    {order \in [1..Cardinality(entries) -> entries] :
        \A i, j \in DOMAIN order : i < j => order[i] # order[j] /\ ~ByScore(order[j], order[i])}

(* TriggerUpdate copies the cache and scores the copy, at once here: a     *)
(* table that arrives meanwhile counts for all of it or for none.          *)
BeginUpdate ==
    /\ ranking.at = "idle"
    /\ \E order \in Orders({[peer |-> p, score |-> CalculateScore(cached[p])] : p \in DOMAIN cached}) :
          ranking' = [at |-> "scored", peers |-> cached, order |-> order]
    /\ UNCHANGED <<cached, gpuFile, tmp, top, runs, shown>>

(* Seeded fault: top.json is written in place. *)
TruncateTop ==
    /\ ranking.at = "scored" /\ ranking' = [ranking EXCEPT !.at = "truncated"]
    /\ top' = [text |-> "torn", order |-> <<>>]
    /\ UNCHANGED <<cached, gpuFile, tmp, runs, shown>>

TruncateTmp ==
    /\ ranking.at = "scored" /\ ranking' = [ranking EXCEPT !.at = "truncated"]
    /\ tmp' = [text |-> "torn", order |-> <<>>]
    /\ UNCHANGED <<cached, gpuFile, top, runs, shown>>

WriteTmp ==
    /\ ranking.at = "truncated" /\ ranking' = [ranking EXCEPT !.at = "written"]
    /\ tmp' = [text |-> "whole", order |-> ranking.order]
    /\ UNCHANGED <<cached, gpuFile, top, runs, shown>>

PublishTop ==
    /\ ranking.at = "written" /\ ranking' = [Nothing EXCEPT !.at = "idle"]
    /\ top' = tmp /\ tmp' = NoRanking /\ shown' = ranking.peers
    /\ UNCHANGED <<cached, gpuFile, runs>>

(* A write that fails is logged, and the next tick tries again. *)
UpdateFails ==
    /\ ranking.at \in {"scored", "truncated", "written"} /\ ranking' = [Nothing EXCEPT !.at = "idle"]
    /\ UNCHANGED <<cached, gpuFile, tmp, top, runs, shown>>

(* The hub ends, anywhere. *)
Ends ==
    /\ ranking.at # "off" /\ ranking' = Nothing
    /\ UNCHANGED <<cached, gpuFile, tmp, top, runs, shown>>

RankNext ==
    \/ StartRanking \/ TableArrives
    \/ BeginUpdate \/ TruncateTmp \/ WriteTmp \/ PublishTop \/ UpdateFails \/ Ends
    \/ \E p \in Ranked : CacheChanges(p)

RankSpec == RankInit /\ [][RankNext]_rankVars

-----------------------------------------------------------------------------
(* Properties *)

(* Whoever reads top.json finds no file, or the whole ranking of one copy  *)
(* of the cache (server_rank.go:376), also after a crash: each peer of it  *)
(* once, none above one with a higher score, and no peer that is known to  *)
(* have no GPU above one that has any (server_rank.go:296).                *)
TopSound ==
    \/ top.text = "absent"
    \/ /\ top.text = "whole"
       /\ {e.peer : e \in Range(top.order)} = DOMAIN shown /\ Len(top.order) = Cardinality(DOMAIN shown)
       /\ \A i, j \in DOMAIN top.order : i < j =>
             /\ top.order[i].score >= top.order[j].score
             /\ shown[top.order[i].peer] \in {"none", "relay"} =>
                   shown[top.order[j].peer] \in {"none", "relay"}
=============================================================================
