----------------------------- MODULE HubQuery -----------------------------
(***************************************************************************)
(* How a node asks a hub (p2p.go, FetchHubAPI and the HubAPIProtocolID     *)
(* handler; web.go, /hub/api/): the seeds are asked in the configured      *)
(* order, except that the dashboard's route on a hub answers from the      *)
(* hub's own mux.  The callers put one deadline on the whole query (15 s   *)
(* on the dashboard's route, 10 s on the topology sync, 5 s on             *)
(* local_stats), and a seed that accepts the stream and never answers uses *)
(* all of it.                                                              *)
(***************************************************************************)
EXTENDS Integers, Sequences

CONSTANTS Me,          \* this node
          SeedLists,   \* seed lists the operator may have configured
          MaxTurns     \* bound: times a node changes its condition

Nodes == {Me} \cup UNION {{l[i] : i \in 1..Len(l)} : l \in SeedLists}

(* A seed list is a list. *)
ASSUME SeedsAssumption == SeedLists \subseteq Seq(Nodes)

ASSUME TurnsAssumption == MaxTurns \in Nat

Conditions == {"hub", "plain", "unreachable", "silent"}

Paths == {"read", "debug", "elsewhere"}

VARIABLES
    seeds,      \* resolveSeedAddrs: duplicates are gone
    condition,  \* what each node is: a hub, not a hub, off, or hung
    query,      \* the query: where it is, its path, the seeds left, its answer
    turns,      \* how often a condition changed
    steady      \* history: nodes that were hubs ever since the query began

queryVars == <<seeds, condition, query, turns, steady>>

NoQuery == [at |-> "idle", path |-> "read", left |-> <<>>, late |-> FALSE, by |-> Me]

QueryInit ==
    /\ seeds \in SeedLists
    /\ condition \in [Nodes -> {"hub", "plain"}]
    /\ query = NoQuery /\ turns = 0 /\ steady = {}

QueryTypeOK ==
    /\ seeds \in SeedLists /\ condition \in [Nodes -> Conditions] /\ turns \in 0..MaxTurns
    /\ query.at \in {"idle", "asking", "answered", "failed"} /\ query.path \in Paths
    /\ query.late \in BOOLEAN /\ query.by \in Nodes
    /\ \E n \in 0..Len(seeds) : query.left = SubSeq(seeds, n + 1, Len(seeds))
    /\ steady \subseteq {n \in Nodes : condition[n] = "hub"}

IsHub(n) == condition[n] = "hub"

Begin(path, answered) ==
    /\ query.at = "idle" /\ condition[Me] \in {"hub", "plain"}
    /\ query' = [NoQuery EXCEPT !.path = path, !.left = IF answered THEN <<>> ELSE seeds,
                   !.at = IF answered THEN "answered" ELSE IF seeds = <<>> THEN "failed" ELSE "asking"]
    /\ steady' = {n \in Nodes : IsHub(n)}
    /\ UNCHANGED <<seeds, condition, turns>>

(* GET /hub/api/... on this node: its own mux, if it is a hub, answers     *)
(* anything.                                                               *)
Dashboard(path) == Begin(path, IsHub(Me))

(* local_stats and the topology sync ask the seeds in any case. *)
Internal == Begin("read", FALSE)

(* The handler: it serves what lies under /hub/api/ but not the debug      *)
(* routes, which change the hub.                                           *)
Serves(n, path) == IsHub(n) /\ path = "read"

Answered == query' = [query EXCEPT !.at = "answered", !.by = Head(query.left)]

(* Seeded fault: the first error ends the query. *)
NextSeedGivesUp(late) == query' = [query EXCEPT !.late = late, !.at = "failed"]

(* Any error makes way for the next seed, the last one is reported. *)
NextSeed(late) == query' = [query EXCEPT !.late = late, !.left = Tail(@),
                              !.at = IF Len(query.left) = 1 THEN "failed" ELSE "asking"]

(* Ask the next seed: in time it answers 200, 404 or 403, or the dial      *)
(* fails; after the deadline the stream is not even opened.  A seed that   *)
(* is this node answers from the mux, without a stream, or is passed over. *)
Ask ==
    /\ query.at = "asking"
    /\ LET n == Head(query.left)
       IN  IF IF n = Me THEN IsHub(Me) ELSE Serves(n, query.path) /\ ~query.late
           THEN Answered
           ELSE NextSeed(query.late \/ (condition[n] = "silent" /\ n # Me))
    /\ UNCHANGED <<seeds, condition, turns, steady>>

Done ==
    /\ query.at \in {"answered", "failed"} /\ query' = NoQuery /\ steady' = {}
    /\ UNCHANGED <<seeds, condition, turns>>

(* A node is switched off or hangs, or starts with or without server_mode. *)
Turn(n, to) ==
    /\ turns < MaxTurns /\ condition[n] # to
    /\ condition' = [condition EXCEPT ![n] = to] /\ turns' = turns + 1
    /\ steady' = steady \ {n}
    /\ n = Me => query.at = "idle"
    /\ UNCHANGED <<seeds, query>>

QueryNext ==
    \/ \E path \in Paths : Dashboard(path)
    \/ Internal \/ Ask \/ Done
    \/ \E n \in Nodes, to \in Conditions : Turn(n, to)

QuerySpec == QueryInit /\ [][QueryNext]_queryVars

Configured == {seeds[i] : i \in 1..Len(seeds)}

(* A read fails only when no configured seed was a hub all the while, or a *)
(* seed before it used up the deadline without answering (p2p.go:606).     *)
FailsOnlyWithoutHub ==
    query.at = "failed" /\ query.path = "read" /\ ~query.late => steady \cap Configured = {}
=============================================================================
