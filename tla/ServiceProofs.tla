--------------------------- MODULE ServiceProofs ----------------------------
(***************************************************************************)
(* Proofs about the services of a node, each for any values of its         *)
(* constants: the engine and who stops it (Runner), the hubs a query asks  *)
(* (HubQuery), the mesh and its tunnels (NetworkNode), what pings write    *)
(* back (HealthPings), config.json and its backups (ConfigStore), the      *)
(* published ranking (RankManager).                                        *)
(***************************************************************************)
EXTENDS Runner, HubQuery, NetworkNode, HealthPings, ConfigStore, RankManager,
        FiniteSetTheorems, SequenceTheorems, TLAPS

-----------------------------------------------------------------------------
(* The engine.                                                             *)

(* Nothing runs before Start, whatever runs outside a container was        *)
(* started as a command of this life, vLLM's workers have a vLLM until     *)
(* Stop unless it died, and a Stop that came after Start was done found    *)
(* Start done.                                                             *)
EngineInv ==
    /\ mode # "container" =>
          /\ engine \cap Ray # {} => "ray" \in known
          /\ engine \cap Vllm # {} => "vllm" \in known
    /\ program \in {"running", "stopping"} /\ ~saga.died /\ engine \cap Vllm # {} => "vllm" \in engine
    /\ saga.stopped /\ ~saga.raced => launch \in {"done", "failed"}
    /\ launch = "new" => engine = {}
    /\ launch = "cleared" => mode = "container"

LEMMA EngineTypes == RunnerInit => RunnerTypeOK
<1>1. 0 \in 0..MaxReboots
  BY LivesAssumption
<1>2. NewSaga(0) \in [stopped : BOOLEAN, quit : BOOLEAN, raced : BOOLEAN, died : BOOLEAN,
                       mishap : BOOLEAN, lives : 0..MaxReboots]
  BY <1>1 DEF NewSaga
<1>. QED BY <1>2 DEF RunnerInit, RunnerTypeOK

LEMMA EngineStepTypes == RunnerTypeOK /\ [RunnerNext]_runnerVars => RunnerTypeOK'
<1>. SUFFICES ASSUME RunnerTypeOK, [RunnerNext]_runnerVars PROVE RunnerTypeOK'
  OBVIOUS
<1>. USE DEF RunnerTypeOK
<1>1. CASE ContainerClears
  BY <1>1 DEF ContainerClears, Launching, RemoveOld, programVars
<1>2. CASE ContainerRuns
  BY <1>2 DEF ContainerRuns, Launching, programVars
<1>3. CASE DirectRunsRay
  BY <1>3 DEF DirectRunsRay, Launching, programVars
<1>4. CASE WindowsPrepares
  BY <1>4 DEF WindowsPrepares, Launching, programVars
<1>5. CASE WaitOver
  BY <1>5 DEF WaitOver, Launching, programVars
<1>6. CASE RunVllm
  BY <1>6 DEF RunVllm, Launching, programVars
<1>7. CASE ExecVllm
  BY <1>7 DEF ExecVllm, Launching, programVars
<1>8. CASE LaunchFails
  BY <1>8 DEF LaunchFails, Launching, programVars
<1>9. CASE VllmDies
  BY <1>9 DEF VllmDies
<1>10. CASE Signal
  BY <1>10 DEF Signal
<1>11. CASE RunnerStops
  <2>1. (launch \notin {"done", "failed"}) \in BOOLEAN
    OBVIOUS
  <2>. QED BY <1>11, <2>1 DEF RunnerStops
<1>12. CASE Cancel
  BY <1>12 DEF Cancel
<1>13. CASE MainReturns
  BY <1>13 DEF MainReturns, Over
<1>14. CASE QuitKey
  BY <1>14 DEF QuitKey, Over
<1>15. CASE Killed
  BY <1>15 DEF Killed, Over
<1>16. CASE StartAgain
  <2>1. saga.lives + 1 \in 0..MaxReboots
    BY <1>16, LivesAssumption DEF StartAgain
  <2>. QED BY <1>16, <2>1 DEF StartAgain, NewSaga
<1>17. CASE UNCHANGED runnerVars
  BY <1>17 DEF runnerVars
<1>18. CASE StartFails
  BY <1>18 DEF StartFails, Launching
<1>19. CASE RayDies
  BY <1>19 DEF RayDies
<1>. QED BY <1>1, <1>2, <1>3, <1>4, <1>5, <1>6, <1>7, <1>8, <1>9, <1>10, <1>11, <1>12, <1>13, <1>14,
            <1>15, <1>16, <1>17, <1>18, <1>19 DEF RunnerNext

(* What Stop kills is all that runs, once Start is done. *)
LEMMA StopReachesAll ==
    ASSUME RunnerTypeOK, EngineInv, RunnerStops, ~saga.died, launch \in {"done", "failed"}
    PROVE  engine' = {}
<1>1. CASE mode = "container"
  BY <1>1 DEF RunnerStops
<1>2. CASE mode # "container"
  <2>1. \A x \in engine : x \in UNION {KillTree(main) : main \in known}
    BY <1>2 DEF RunnerTypeOK, EngineInv, RunnerStops, KillTree, Ray, Vllm
  <2>. QED BY <1>2, <2>1 DEF RunnerStops
<1>. QED BY <1>1, <1>2

LEMMA EngineStep ==
    ASSUME RunnerTypeOK, EngineInv, StopLeavesNothing, [RunnerNext]_runnerVars
    PROVE  EngineInv' /\ StopLeavesNothing'
<1>. USE DEF EngineInv, StopLeavesNothing, Ray, Vllm
<1>1. CASE ContainerClears
  BY <1>1 DEF ContainerClears, Launching, programVars
<1>2. CASE ContainerRuns
  BY <1>2 DEF ContainerRuns, Launching, programVars
<1>3. CASE DirectRunsRay
  BY <1>3 DEF DirectRunsRay, Launching, programVars
<1>4. CASE WindowsPrepares
  BY <1>4 DEF WindowsPrepares, Launching, programVars
<1>5. CASE WaitOver
  BY <1>5 DEF WaitOver, Launching, programVars
<1>6. CASE RunVllm
  BY <1>6 DEF RunVllm, Launching, programVars
<1>7. CASE ExecVllm
  BY <1>7 DEF ExecVllm, Launching, programVars
<1>8. CASE LaunchFails
  BY <1>8 DEF LaunchFails, Launching, programVars
<1>9. CASE VllmDies
  BY <1>9 DEF VllmDies, RunnerTypeOK
<1>10. CASE Signal
  BY <1>10 DEF Signal
<1>11. CASE RunnerStops
  <2>1. /\ saga' = [saga EXCEPT !.stopped = TRUE, !.raced = launch \notin {"done", "failed"}]
        /\ engine' \subseteq engine /\ launch' = launch /\ known' = known /\ mode' = mode
        /\ program' = "closing"
    BY <1>11 DEF RunnerStops
  <2>2. StopLeavesNothing'
    BY <1>11, <2>1, StopReachesAll DEF RunnerTypeOK
  <2>. QED BY <2>1, <2>2 DEF RunnerTypeOK
<1>12. CASE Cancel
  BY <1>12 DEF Cancel, RunnerTypeOK
<1>13. CASE MainReturns
  BY <1>13 DEF MainReturns, Over, RunnerTypeOK
<1>14. CASE QuitKey
  BY <1>14 DEF QuitKey, Over, RunnerTypeOK
<1>15. CASE Killed
  BY <1>15 DEF Killed, Over, RunnerTypeOK
<1>16. CASE StartAgain
  BY <1>16 DEF StartAgain, NewSaga
<1>17. CASE UNCHANGED runnerVars
  BY <1>17 DEF runnerVars
<1>18. CASE StartFails
  BY <1>18 DEF StartFails, Launching
<1>19. CASE RayDies
  BY <1>19 DEF RayDies, RunnerTypeOK
<1>. QED BY <1>1, <1>2, <1>3, <1>4, <1>5, <1>6, <1>7, <1>8, <1>9, <1>10, <1>11, <1>12, <1>13, <1>14,
            <1>15, <1>16, <1>17, <1>18, <1>19 DEF RunnerNext

(* After Runner.Stop nothing of the engine runs, whatever ends the program *)
(* and however often it starts again (runner.go:62), save the two excepted *)
(* cases.                                                                  *)
THEOREM EngineAlwaysStopped == RunnerSpec => []StopLeavesNothing
<1>1. RunnerInit => RunnerTypeOK /\ EngineInv /\ StopLeavesNothing
  <2>1. RunnerInit => EngineInv /\ StopLeavesNothing
    BY DEF RunnerInit, EngineInv, StopLeavesNothing, NewSaga
  <2>. QED BY <2>1, EngineTypes
<1>2. RunnerTypeOK /\ EngineInv /\ StopLeavesNothing /\ [RunnerNext]_runnerVars
        => (RunnerTypeOK /\ EngineInv /\ StopLeavesNothing)'
  BY EngineStepTypes, EngineStep
<1>. QED BY <1>1, <1>2, PTL DEF RunnerSpec

(* With its files in place, and while nothing fails to start and Ray lives, *)
(* Start gives up only after Stop: not because of a container of an earlier *)
(* life (runner.go:134), nor for want of the container when vLLM is to run *)
(* in it (runner.go:199).                                                  *)
OnlyStopSpoilsLaunch ==
    sound /\ launch = "failed" => saga.mishap \/ program \in {"closing", "cancelled", "over"}

(* Before Stop a launch that is done has left a vLLM, as long as nothing   *)
(* ended or failed by itself and, outside a container, nothing of an       *)
(* earlier life is left.                                                   *)
LaunchedRuns == launch = "done" /\ program \in {"running", "stopping"} /\ Unhurt => Vllm \subseteq engine

(* A launch in the container finds no older one there, then the container  *)
(* itself until Stop; Windows waits for nothing and leaves nothing behind. *)
LaunchInv ==
    /\ launch = "cleared" => mode = "container" /\ orphans = {}
    /\ launch = "waiting" => mode # "windows"
    /\ mode = "windows" => orphans = {} /\ (program = "over" => engine = {})
    /\ mode = "container" /\ launch \in {"waiting", "ready"} /\ program \in {"running", "stopping"}
          /\ ~saga.mishap => "ray" \in engine
    /\ OnlyStopSpoilsLaunch /\ LaunchedRuns

LaunchSteps == [new |-> 4, cleared |-> 3, waiting |-> 2, ready |-> 1, done |-> 0, failed |-> 0]

(* Start moves forward or a new life begins. *)
LaunchRunsDown ==
    \/ launch' = launch
    \/ LaunchSteps[launch'] < LaunchSteps[launch]
    \/ program = "over" /\ launch' = "new"

(* The guards of Start's steps, but for those of LaunchFails. *)
MayGoOn ==
    \/ launch = "new" /\ sound /\ (mode = "direct" => ~Cancelled)
    \/ launch = "cleared" /\ ~Cancelled /\ orphans = {}
    \/ launch = "waiting" /\ ~Cancelled
    \/ launch = "ready" /\ ~Cancelled /\ (mode = "container" => "ray" \in engine)

LEMMA FailureCauses ==
    ASSUME LaunchFails
    PROVE  /\ UNCHANGED <<mode, sound, program, engine, orphans, saga>> /\ launch' = "failed" /\ program # "over"
           /\ launch \in {"new", "cleared", "waiting", "ready"}
           /\ \/ ~sound \/ program = "cancelled" \/ (launch = "cleared" /\ orphans # {})
              \/ launch = "ready" /\ mode = "container" /\ "ray" \notin engine
<1>1. UNCHANGED <<mode, sound, program, engine, orphans, saga>>
  BY DEF LaunchFails, programVars
<1>2. PICK at \in {"new", "cleared", "waiting", "ready"} :
          /\ Launching(at, "failed")
          /\ \/ ~sound \/ Cancelled \/ (at = "cleared" /\ orphans # {})
             \/ at = "ready" /\ mode = "container" /\ "ray" \notin engine
  <2>1. CASE ~sound /\ Launching("new", "failed")
    BY <2>1
  <2>2. CASE mode # "windows" /\ Cancelled /\ \E at \in {"new", "cleared", "waiting"} : Launching(at, "failed")
    BY <2>2
  <2>3. CASE orphans # {} /\ Launching("cleared", "failed")
    BY <2>3
  <2>4. CASE (Cancelled \/ (mode = "container" /\ "ray" \notin engine)) /\ Launching("ready", "failed")
    BY <2>4
  <2>. QED BY <2>1, <2>2, <2>3, <2>4 DEF LaunchFails
<1>. QED BY <1>1, <1>2 DEF Launching, Alive, Cancelled

LEMMA LaunchStep ==
    ASSUME RunnerTypeOK, LaunchInv, [RunnerNext]_runnerVars
    PROVE  LaunchInv' /\ LaunchRunsDown
<1>. USE DEF LaunchInv, OnlyStopSpoilsLaunch, LaunchedRuns, LaunchRunsDown, LaunchSteps
<1>1. CASE ContainerClears
  BY <1>1 DEF ContainerClears, Launching, RemoveOld, programVars, RunnerTypeOK
<1>2. CASE ContainerRuns
  BY <1>2 DEF ContainerRuns, Launching, programVars, Ray
<1>3. CASE DirectRunsRay
  BY <1>3 DEF DirectRunsRay, Launching, programVars
<1>4. CASE WindowsPrepares
  BY <1>4 DEF WindowsPrepares, Launching, programVars
<1>5. CASE WaitOver
  BY <1>5 DEF WaitOver, Launching, programVars
<1>6. CASE RunVllm
  <2>1. /\ UNCHANGED <<mode, sound, program, orphans, saga>> /\ launch = "ready" /\ launch' = "done"
        /\ mode # "container" /\ program # "over"
    BY <1>6 DEF RunVllm, Launching, Alive, programVars
  <2>2. Unhurt' => orphans = {}
    BY <2>1 DEF Unhurt, RunnerTypeOK
  <2>3. orphans = {} => Vllm \subseteq engine'
    BY <1>6 DEF RunVllm
  <2>. QED BY <2>1, <2>2, <2>3
<1>7. CASE ExecVllm
  BY <1>7 DEF ExecVllm, Launching, programVars, Unhurt
<1>8. CASE LaunchFails
  <2>1. /\ UNCHANGED <<mode, sound, program, engine, orphans, saga>> /\ launch' = "failed" /\ program # "over"
        /\ launch \in {"new", "cleared", "waiting", "ready"}
        /\ \/ ~sound \/ program = "cancelled" \/ (launch = "cleared" /\ orphans # {})
           \/ launch = "ready" /\ mode = "container" /\ "ray" \notin engine
    BY <1>8, FailureCauses
  <2>3. sound => saga.mishap \/ program \in {"closing", "cancelled"}
    BY <2>1 DEF RunnerTypeOK
  <2>. QED BY <2>1, <2>3
<1>9. CASE VllmDies
  BY <1>9 DEF VllmDies, Unhurt
<1>10. CASE Signal
  BY <1>10 DEF Signal, Unhurt
<1>11. CASE RunnerStops
  BY <1>11 DEF RunnerStops
<1>12. CASE Cancel
  BY <1>12 DEF Cancel
<1>13. CASE MainReturns
  BY <1>13 DEF MainReturns, Over, RunnerTypeOK
<1>14. CASE QuitKey
  BY <1>14 DEF QuitKey, Over, RunnerTypeOK
<1>15. CASE Killed
  BY <1>15 DEF Killed, Over, RunnerTypeOK
<1>16. CASE StartAgain
  BY <1>16 DEF StartAgain, NewSaga
<1>17. CASE UNCHANGED runnerVars
  BY <1>17 DEF runnerVars, Unhurt
<1>18. CASE StartFails
  BY <1>18 DEF StartFails, Launching
<1>19. CASE RayDies
  BY <1>19 DEF RayDies, RunnerTypeOK, Unhurt, Vllm
<1>. QED BY <1>1, <1>2, <1>3, <1>4, <1>5, <1>6, <1>7, <1>8, <1>9, <1>10, <1>11, <1>12, <1>13, <1>14,
            <1>15, <1>16, <1>17, <1>18, <1>19 DEF RunnerNext

(* With its files in place Start does not give up before Stop, after any   *)
(* number of restarts and whatever an earlier life left (runner.go:132),   *)
(* unless docker or a program fails to start or Ray ends by itself.        *)
THEOREM LaunchNeverSpoiled == RunnerSpec => []OnlyStopSpoilsLaunch
<1>1. RunnerInit => RunnerTypeOK /\ LaunchInv
  BY EngineTypes DEF RunnerInit, LaunchInv, OnlyStopSpoilsLaunch, LaunchedRuns
<1>2. RunnerTypeOK /\ LaunchInv /\ [RunnerNext]_runnerVars => (RunnerTypeOK /\ LaunchInv)'
  BY EngineStepTypes, LaunchStep
<1>3. LaunchInv => OnlyStopSpoilsLaunch
  BY DEF LaunchInv
<1>. QED BY <1>1, <1>2, <1>3, PTL DEF RunnerSpec

(* In a program that runs with its files in place and without a mishap     *)
(* Start is done or one of its steps may be taken and LaunchFails is not   *)
(* among them, it takes four steps at most, and when it is done vLLM runs: *)
(* what EngineComesBack is without fairness.                               *)
THEOREM EngineGetsUp ==
    RunnerSpec => /\ [](sound /\ program = "running" /\ ~saga.mishap => launch = "done" \/ MayGoOn)
                  /\ [][sound /\ program = "running" /\ ~saga.mishap => ~LaunchFails]_runnerVars
                  /\ [][LaunchRunsDown]_runnerVars
                  /\ []LaunchedRuns
<1>. DEFINE GoesOn == sound /\ program = "running" /\ ~saga.mishap => launch = "done" \/ MayGoOn
            NotSpoiled == sound /\ program = "running" /\ ~saga.mishap => ~LaunchFails
<1>1. RunnerInit => RunnerTypeOK /\ LaunchInv
  BY EngineTypes DEF RunnerInit, LaunchInv, OnlyStopSpoilsLaunch, LaunchedRuns
<1>2. RunnerTypeOK /\ LaunchInv /\ [RunnerNext]_runnerVars => (RunnerTypeOK /\ LaunchInv)' /\ LaunchRunsDown
  BY EngineStepTypes, LaunchStep
<1>3. RunnerTypeOK /\ LaunchInv => GoesOn
  BY DEF RunnerTypeOK, LaunchInv, OnlyStopSpoilsLaunch, MayGoOn, Cancelled
<1>4. RunnerTypeOK /\ LaunchInv => NotSpoiled
  BY DEF RunnerTypeOK, LaunchInv, LaunchFails, Launching, Cancelled
<1>5. LaunchInv => LaunchedRuns
  BY DEF LaunchInv
<1>. QED BY <1>1, <1>2, <1>3, <1>4, <1>5, PTL DEF RunnerSpec

-----------------------------------------------------------------------------
(* A query to the hubs.                                                    *)

Queries == [at : {"idle", "asking", "answered", "failed"}, path : Paths, left : Seq(Nodes),
            late : BOOLEAN, by : Nodes]

Left == {query.left[i] : i \in 1..Len(query.left)}

(* A hub that was one all the while and was not asked is yet to be asked. *)
QueryInv ==
    /\ seeds \in Seq(Nodes) /\ condition \in [Nodes -> Conditions] /\ query \in Queries
    /\ steady \subseteq {n \in Nodes : IsHub(n)}
    /\ query.at = "asking" => query.left # <<>>
    /\ query.at = "failed" => query.left = <<>>
    /\ query.at \in {"asking", "failed"} /\ query.path = "read" /\ ~query.late
          => steady \cap Configured \subseteq Left

LEMMA NoQueryIsQuery == NoQuery \in Queries
<1>1. Me \in Nodes /\ <<>> \in Seq(Nodes)
  BY DEF Nodes
<1>. QED BY <1>1 DEF NoQuery, Queries, Paths

LEMMA BeginKeeps ==
    ASSUME QueryInv, NEW path \in Paths, NEW answered \in BOOLEAN, Begin(path, answered)
    PROVE  QueryInv'
<1>. DEFINE left == IF answered THEN <<>> ELSE seeds
            at == IF answered THEN "answered" ELSE IF seeds = <<>> THEN "failed" ELSE "asking"
<1>1. query' = [NoQuery EXCEPT !.path = path, !.left = left, !.at = at]
  BY DEF Begin
<1>2. left \in Seq(Nodes) /\ at \in {"asking", "answered", "failed"}
  BY DEF QueryInv
<1>3. query' \in Queries /\ query'.left = left /\ query'.at = at
  <2>. HIDE DEF left, at
  <2>. QED BY <1>1, <1>2, NoQueryIsQuery DEF Queries
<1>4. UNCHANGED <<seeds, condition>> /\ steady' = {n \in Nodes : IsHub(n)}
  BY DEF Begin
<1>5. query'.at \in {"asking", "failed"} => steady' \cap Configured' \subseteq Left'
  BY <1>3, <1>4 DEF Left, Configured
<1>6. (query'.at = "asking" => query'.left # <<>>) /\ (query'.at = "failed" => query'.left = <<>>)
  BY <1>3
<1>. QED BY <1>3, <1>4, <1>5, <1>6 DEF QueryInv, IsHub

LEMMA AskKeeps ==
    ASSUME QueryInv, Ask
    PROVE  QueryInv'
<1>. DEFINE n == Head(query.left)
            late == query.late \/ (condition[n] = "silent" /\ n # Me)
<1>1. /\ UNCHANGED <<seeds, condition, steady>> /\ query \in Queries /\ query.left # <<>>
      /\ query.at = "asking" /\ query.left \in Seq(Nodes)
  BY DEF Ask, QueryInv, Queries
<1>2. n \in Nodes /\ n = query.left[1] /\ late \in BOOLEAN /\ Tail(query.left) \in Seq(Nodes)
      /\ Len(query.left) \in Nat \ {0}
  BY <1>1 DEF Queries
<1>3. CASE Answered
  <2>1. query' \in Queries /\ query'.at = "answered"
    BY <1>1, <1>2, <1>3 DEF Answered, Queries
  <2>. QED BY <1>1, <2>1 DEF QueryInv, IsHub
<1>4. CASE ~(IF n = Me THEN IsHub(Me) ELSE Serves(n, query.path) /\ ~query.late) /\ NextSeed(late)
  <2>. DEFINE at == IF Len(query.left) = 1 THEN "failed" ELSE "asking"
  <2>1. at \in {"failed", "asking"}
    OBVIOUS
  <2>2. /\ query' \in Queries /\ query'.late = late /\ query'.left = Tail(query.left)
        /\ query'.at = at /\ query'.path = query.path
    <3>1. query' = [query EXCEPT !.late = late, !.left = Tail(query.left), !.at = at]
      BY <1>4 DEF NextSeed
    <3>. HIDE DEF at, late
    <3>. QED BY <1>1, <1>2, <2>1, <3>1 DEF Queries
  <2>3. (query'.at = "asking" => query'.left # <<>>) /\ (query'.at = "failed" => query'.left = <<>>)
    <3>1. Len(Tail(query.left)) = Len(query.left) - 1
      BY <1>1
    <3>2. Tail(query.left) = <<>> <=> Len(Tail(query.left)) = 0
      BY <1>2, EmptySeq
    <3>. QED BY <1>2, <2>2, <3>1, <3>2
  <2>4. ASSUME query'.path = "read", ~query'.late PROVE steady' \cap Configured' \subseteq Left'
    <3>1. ~query.late /\ query.path = "read" /\ steady \cap Configured \subseteq Left
      BY <1>1, <2>2, <2>4 DEF QueryInv
    <3>2. n \notin steady
      BY <1>4, <2>2, <2>4, <3>1 DEF QueryInv, Serves, IsHub
    <3>3. ASSUME NEW m \in steady \cap Configured PROVE m \in Left'
      <4>1. PICK i \in 1..Len(query.left) : query.left[i] = m
        BY <3>1, <3>3 DEF Left
      <4>2. i - 1 \in 1..Len(Tail(query.left)) /\ Tail(query.left)[i - 1] = m
        BY <1>1, <1>2, <3>2, <3>3, <4>1
      <4>. QED BY <2>2, <4>2 DEF Left
    <3>. QED BY <1>1, <3>3 DEF Configured
  <2>. QED BY <1>1, <2>2, <2>3, <2>4 DEF QueryInv, IsHub
<1>. QED BY <1>3, <1>4 DEF Ask

LEMMA TurnKeeps ==
    ASSUME QueryInv, NEW n \in Nodes, NEW to \in Conditions, Turn(n, to)
    PROVE  QueryInv'
<1>1. /\ condition' = [condition EXCEPT ![n] = to] /\ steady' = steady \ {n}
      /\ UNCHANGED <<seeds, query>> /\ Configured' = Configured /\ Left' = Left
  BY DEF Turn, Configured, Left
<1>2. condition' \in [Nodes -> Conditions] /\ steady' \subseteq {m \in Nodes : IsHub(m)'}
  BY <1>1 DEF QueryInv, IsHub
<1>. QED BY <1>1, <1>2 DEF QueryInv

LEMMA QueryStep ==
    ASSUME QueryInv, [QueryNext]_queryVars
    PROVE  QueryInv'
<1>1. CASE \E path \in Paths : Dashboard(path)
  BY <1>1, BeginKeeps DEF Dashboard, IsHub
<1>2. CASE Internal
  BY <1>2, BeginKeeps DEF Internal, Paths
<1>3. CASE Ask
  BY <1>3, AskKeeps
<1>4. CASE Done
  <2>1. query' \in Queries /\ query'.at = "idle" /\ steady' = {} /\ UNCHANGED <<seeds, condition>>
    BY <1>4, NoQueryIsQuery DEF Done, NoQuery
  <2>. QED BY <2>1 DEF QueryInv
<1>5. CASE \E n \in Nodes, to \in Conditions : Turn(n, to)
  BY <1>5, TurnKeeps
<1>6. CASE UNCHANGED queryVars
  BY <1>6 DEF queryVars, QueryInv, IsHub, Configured, Left
<1>. QED BY <1>1, <1>2, <1>3, <1>4, <1>5, <1>6 DEF QueryNext

LEMMA QueryStart == QueryInit => QueryInv
<1>. SUFFICES ASSUME QueryInit PROVE QueryInv
  OBVIOUS
<1>1. query \in Queries /\ query.at = "idle" /\ steady = {}
  BY NoQueryIsQuery DEF QueryInit, NoQuery
<1>2. seeds \in Seq(Nodes) /\ condition \in [Nodes -> Conditions]
  BY SeedsAssumption DEF QueryInit, Conditions
<1>. QED BY <1>1, <1>2 DEF QueryInv

(* While a configured seed is a hub, a read that loses no time on a silent *)
(* seed before it is answered, whatever the other seeds are and turn into, *)
(* for any list of seeds (p2p.go:606).                                     *)
THEOREM ReadsFindAHub == QuerySpec => []FailsOnlyWithoutHub
<1>1. QueryInit => QueryInv
  BY QueryStart
<1>2. QueryInv /\ [QueryNext]_queryVars => QueryInv'
  BY QueryStep
<1>3. QueryInv => FailsOnlyWithoutHub
  <2>. SUFFICES ASSUME QueryInv, query.at = "failed", query.path = "read", ~query.late
                PROVE  steady \cap Configured = {}
    BY DEF FailsOnlyWithoutHub
  <2>1. Left = {}
    BY DEF QueryInv, Left
  <2>. QED BY <2>1 DEF QueryInv
<1>. QED BY <1>1, <1>2, <1>3, PTL DEF QuerySpec

AsksLeft == IF query.at = "asking" THEN Len(query.left) ELSE 0

(* What is still to be asked is configured, and so is who answered, or it  *)
(* was this node.                                                          *)
AskedInv ==
    /\ Len(query.left) <= Len(seeds) /\ Left \subseteq Configured
    /\ query.at = "answered" => query.by \in Configured \cup {Me}

(* While a query asks, whatever changes it brings its end nearer. *)
AsksRunDown == query.at = "asking" => query' = query \/ AsksLeft' < AsksLeft

LEMMA AskedBegin ==
    ASSUME QueryInv, AskedInv, NEW path \in Paths, NEW answered \in BOOLEAN, Begin(path, answered)
    PROVE  AskedInv' /\ AsksRunDown
<1>. DEFINE left == IF answered THEN <<>> ELSE seeds
            at == IF answered THEN "answered" ELSE IF seeds = <<>> THEN "failed" ELSE "asking"
<1>1. /\ query' = [NoQuery EXCEPT !.path = path, !.left = left, !.at = at]
      /\ UNCHANGED seeds /\ query.at = "idle"
  BY DEF Begin
<1>2. query'.left = left /\ query'.by = Me
  <2>. HIDE DEF left, at
  <2>. QED BY <1>1, NoQueryIsQuery DEF NoQuery
<1>3. left \in Seq(Nodes) /\ Len(left) <= Len(seeds)
  BY DEF QueryInv
<1>4. Left' \subseteq Configured'
  BY <1>1, <1>2 DEF Left, Configured
<1>. QED BY <1>1, <1>2, <1>3, <1>4 DEF AskedInv, AsksRunDown

LEMMA AskedAsk ==
    ASSUME QueryInv, AskedInv, Ask
    PROVE  AskedInv' /\ AsksRunDown
<1>. DEFINE n == Head(query.left)
            late == query.late \/ (condition[n] = "silent" /\ n # Me)
            rest == Tail(query.left)
            at == IF Len(query.left) = 1 THEN "failed" ELSE "asking"
<1>1. /\ UNCHANGED seeds /\ query \in Queries /\ query.left \in Seq(Nodes) /\ query.left # <<>>
      /\ query.at = "asking" /\ Configured' = Configured
  BY DEF Ask, QueryInv, Queries, Configured
<1>2. /\ Len(query.left) \in Nat \ {0} /\ Len(rest) = Len(query.left) - 1
      /\ 1 \in 1..Len(query.left) /\ n = query.left[1]
      /\ \A i \in 1..Len(rest) : i + 1 \in 1..Len(query.left) /\ rest[i] = query.left[i + 1]
  BY <1>1
<1>3. AsksLeft = Len(query.left)
  BY <1>1 DEF AsksLeft
<1>4. n \in Configured
  BY <1>2 DEF AskedInv, Left
<1>. HIDE DEF n, rest
<1>5. CASE query' = [query EXCEPT !.at = "answered", !.by = n]
  <2>1. query'.at = "answered" /\ query'.by = n /\ query'.left = query.left
    BY <1>1, <1>5 DEF Queries
  <2>2. Left' = Left /\ AsksLeft' = 0
    BY <2>1 DEF Left, AsksLeft
  <2>. QED BY <1>1, <1>2, <1>3, <1>4, <2>1, <2>2 DEF AskedInv, AsksRunDown
<1>6. CASE query' = [query EXCEPT !.late = late, !.left = rest, !.at = at]
  <2>. HIDE DEF late, at
  <2>1. query'.at = at /\ query'.left = rest
    BY <1>1, <1>6 DEF Queries
  <2>2. Left' \subseteq Left
    BY <1>2, <2>1 DEF Left
  <2>3. Len(rest) < Len(query.left) /\ Len(rest) \in Nat /\ Len(seeds) \in Nat
    BY <1>2 DEF QueryInv
  <2>4. AsksLeft' < AsksLeft
    BY <1>2, <1>3, <2>1, <2>3 DEF AsksLeft
  <2>5. at # "answered"
    BY DEF at
  <2>6. Len(rest) <= Len(seeds)
    BY <1>2, <2>3 DEF AskedInv
  <2>. QED BY <1>1, <2>1, <2>2, <2>4, <2>5, <2>6 DEF AskedInv, AsksRunDown
<1>. QED BY <1>5, <1>6 DEF Ask, Answered, NextSeed, n, rest

LEMMA AskedStep ==
    ASSUME QueryInv, AskedInv, [QueryNext]_queryVars
    PROVE  AskedInv' /\ AsksRunDown
<1>1. CASE \E path \in Paths : Dashboard(path)
  BY <1>1, AskedBegin DEF Dashboard, IsHub
<1>2. CASE Internal
  BY <1>2, AskedBegin DEF Internal, Paths
<1>3. CASE Ask
  BY <1>3, AskedAsk
<1>4. CASE Done
  <2>1. query'.at = "idle" /\ query'.left = <<>> /\ UNCHANGED seeds /\ query.at # "asking"
    BY <1>4, NoQueryIsQuery DEF Done, NoQuery
  <2>2. Left' = {} /\ Len(query'.left) = 0 /\ Len(seeds) \in Nat
    BY <2>1 DEF Left, QueryInv
  <2>. QED BY <2>1, <2>2 DEF AskedInv, AsksRunDown
<1>5. CASE (\E n \in Nodes, to \in Conditions : Turn(n, to)) \/ UNCHANGED queryVars
  <2>1. UNCHANGED <<seeds, query>>
    BY <1>5 DEF Turn, queryVars
  <2>. QED BY <2>1 DEF AskedInv, AsksRunDown, Left, Configured
<1>. QED BY <1>1, <1>2, <1>3, <1>4, <1>5 DEF QueryNext

(* A query is over after as many asks as there are seeds, whatever becomes *)
(* of the nodes meanwhile, and its answer is a configured seed's or this   *)
(* node's own (p2p.go:606).                                                *)
THEOREM QueriesRunDown ==
    QuerySpec => /\ [](AsksLeft \in 0..Len(seeds))
                 /\ [](query.at = "answered" => query.by \in Configured \cup {Me})
                 /\ [][AsksRunDown]_queryVars
<1>. DEFINE Bounded == AsksLeft \in 0..Len(seeds)
            OfSeed == query.at = "answered" => query.by \in Configured \cup {Me}
<1>1. QueryInit => QueryInv /\ AskedInv
  <2>. SUFFICES ASSUME QueryInit PROVE QueryInv /\ AskedInv
    OBVIOUS
  <2>1. QueryInv /\ query.left = <<>> /\ query.at = "idle"
    BY QueryStart DEF QueryInit, NoQuery
  <2>2. Left = {} /\ Len(query.left) = 0 /\ Len(seeds) \in Nat
    BY <2>1 DEF Left, QueryInv
  <2>. QED BY <2>1, <2>2 DEF AskedInv
<1>2. QueryInv /\ AskedInv /\ [QueryNext]_queryVars => (QueryInv /\ AskedInv)' /\ AsksRunDown
  BY QueryStep, AskedStep
<1>3. QueryInv /\ AskedInv => Bounded /\ OfSeed
  <2>1. QueryInv => Len(seeds) \in Nat /\ Len(query.left) \in Nat
    BY DEF QueryInv, Queries
  <2>. QED BY <2>1 DEF AskedInv, AsksLeft
<1>. QED BY <1>1, <1>2, <1>3, PTL DEF QuerySpec

-----------------------------------------------------------------------------
(* The mesh.                                                               *)

(* An entry of activeProxies always has its listener, no two of which      *)
(* share an address.                                                       *)
TunnelInv ==
    /\ proxies = listening
    /\ \A p, q \in listening : Vip[p] = Vip[q] => p = q

(* Nothing is connected before Start. *)
DownInv == node = "down" => conn = {} /\ pass = Resting

(* One message of p is enough: its address free, somebody listens there.   *)
OneMessageOpens == \A p \in Others : Hear(p) /\ Vip[p] \notin taken => \E q \in listening' : Vip[q] = Vip[p]

(* keepAlive leaves nobody it can reach unconnected, back-off or not, and  *)
(* a connection ends only with the peer, the network or this node.         *)
LinksLast ==
    /\ \A p \in Others : Visit(p) /\ node = "up" /\ Dialable(p) => p \in conn'
    /\ \A p \in conn \ conn' : Dies(p) \/ Drops(p) \/ Stop

LEMMA HearOpens ==
    ASSUME TunnelInv, NEW p \in Others, Hear(p)
    PROVE  /\ TunnelInv' /\ listening \subseteq listening'
           /\ Vip[p] \notin taken => \E q \in listening' : Vip[q] = Vip[p]
<1>1. /\ listening' = IF p \notin proxies /\ Free(p) THEN listening \cup {p} ELSE listening
      /\ proxies' = IF Free(p) THEN proxies \cup {p} ELSE proxies
      /\ proxies = listening
  BY DEF Hear, OpenTunnel, Listen, TunnelInv
<1>2. CASE p \in listening
  BY <1>1, <1>2 DEF TunnelInv
<1>3. CASE p \notin listening /\ Free(p)
  BY <1>1, <1>3 DEF TunnelInv, Free
<1>4. CASE p \notin listening /\ ~Free(p)
  BY <1>1, <1>4 DEF TunnelInv, Free
<1>. QED BY <1>2, <1>3, <1>4

(* A step is a message heard, one that may change connections, or neither. *)
LEMMA MeshMoves ==
    ASSUME [NetNext]_netVars
    PROVE  \/ \E p \in Others : Hear(p)
           \/ /\ UNCHANGED tunnelVars
              /\ Start \/ Stop \/ \E p \in Others : OtherDial(p) \/ Inbound(p) \/ Visit(p) \/ Dies(p) \/ Drops(p)
           \/ UNCHANGED <<tunnelVars, conn, node>> /\ (pass' = pass \/ node # "down" \/ pass.phase # "idle")
<1>. USE DEF tunnelVars, linkVars, selfVars, worldVars
<1>1. CASE Start \/ Stop
  BY <1>1 DEF Start, Stop
<1>2. CASE PassBegins \/ PassGoesOn
  BY <1>2 DEF PassBegins, PassGoesOn
<1>3. CASE \E p \in Others : OtherDial(p) \/ Inbound(p) \/ Visit(p) \/ Dies(p) \/ Drops(p)
  BY <1>3 DEF OtherDial, Inbound, Visit, Dies, Drops
<1>4. CASE \E p \in Others : Silent(p) \/ Returns(p)
  BY <1>4 DEF Silent, Returns
<1>5. CASE \E v \in Vips : Takes(v) \/ Frees(v)
  BY <1>5 DEF Takes, Frees
<1>6. CASE UNCHANGED netVars
  BY <1>6 DEF netVars
<1>. HIDE DEF tunnelVars, linkVars, selfVars, worldVars
<1>. QED BY <1>1, <1>2, <1>3, <1>4, <1>5, <1>6 DEF NetNext

LEMMA MeshStep ==
    ASSUME TunnelInv, DownInv, [NetNext]_netVars
    PROVE  (TunnelInv /\ DownInv)' /\ listening \subseteq listening' /\ OneMessageOpens /\ LinksLast
<1>1. ASSUME NEW p \in Others, Hear(p)
      PROVE  /\ TunnelInv' /\ listening \subseteq listening'
             /\ Vip[p] \notin taken => \E q \in listening' : Vip[q] = Vip[p]
  BY <1>1, HearOpens
<1>2. UNCHANGED tunnelVars => TunnelInv' /\ listening' = listening
  BY DEF tunnelVars, TunnelInv
<1>3. TunnelInv' /\ listening \subseteq listening' /\ OneMessageOpens
  <2>1. CASE \E p \in Others : Hear(p)
    BY <1>1, <2>1 DEF OneMessageOpens
  <2>2. CASE UNCHANGED tunnelVars
    BY <1>1, <1>2, <2>2 DEF OneMessageOpens
  <2>. QED BY <2>1, <2>2, MeshMoves
<1>4. DownInv'
  <2>1. CASE \E p \in Others : Hear(p)
    BY <2>1 DEF Hear, selfVars, linkVars, DownInv
  <2>2. CASE Start \/ Stop
    BY <2>2 DEF Start, Stop, DownInv
  <2>3. ASSUME NEW p \in Others, OtherDial(p) \/ Inbound(p) \/ Visit(p) PROVE DownInv'
    BY <2>3 DEF OtherDial, Inbound, Visit, selfVars, DownInv, Resting
  <2>4. ASSUME NEW p \in Others, Dies(p) \/ Drops(p) PROVE DownInv'
    BY <2>4 DEF Dies, Drops, selfVars, DownInv
  <2>5. CASE UNCHANGED <<tunnelVars, conn, node>> /\ (pass' = pass \/ node # "down" \/ pass.phase # "idle")
    BY <2>5 DEF DownInv, Resting
  <2>. QED BY <2>1, <2>2, <2>3, <2>4, <2>5, MeshMoves
<1>5. ASSUME NEW p \in Others, Visit(p), node = "up", Dialable(p) PROVE p \in conn'
  BY <1>5 DEF Visit, Redial, Dial, linkVars
<1>6. ASSUME NEW p \in conn \ conn' PROVE Dies(p) \/ Drops(p) \/ Stop
  <2>1. CASE Start
    BY <1>6, <2>1 DEF Start, DownInv
  <2>2. ASSUME NEW q \in Others, OtherDial(q) \/ Inbound(q) \/ Visit(q) \/ Hear(q) PROVE FALSE
    BY <1>6, <2>2 DEF OtherDial, Inbound, Visit, Redial, Dial, Hear, linkVars
  <2>3. ASSUME NEW q \in Others, Dies(q) \/ Drops(q) PROVE q = p
    BY <1>6, <2>3 DEF Dies, Drops
  <2>4. CASE UNCHANGED <<tunnelVars, conn, node>>
    BY <1>6, <2>4
  <2>. QED BY <2>1, <2>2, <2>3, <2>4, MeshMoves
<1>. QED BY <1>3, <1>4, <1>5, <1>6 DEF LinksLast

(* No tunnel is stuck and no link is given up: what TunnelsRecover and     *)
(* RedialsFollowLife are without fairness, for any peers, configurations   *)
(* and virtual addresses.  A failed attempt to listen leaves nothing that  *)
(* would stop the next, which opens one whenever the address is free, and  *)
(* listeners stay (p2p.go:856); a visit of keepAlive connects whoever can  *)
(* be dialled, and only the world or Stop ends a connection (p2p.go:699).  *)
THEOREM MeshOnlyMends ==
    NetSpec => /\ [](proxies = listening)
               /\ [][listening \subseteq listening' /\ OneMessageOpens /\ LinksLast]_netVars
<1>. DEFINE Inv == TunnelInv /\ DownInv
            Mends == listening \subseteq listening' /\ OneMessageOpens /\ LinksLast
            Entries == proxies = listening
<1>1. NetInit => Inv
  BY DEF NetInit, TunnelInv, DownInv, Resting
<1>2. Inv /\ [NetNext]_netVars => Inv' /\ Mends
  BY MeshStep
<1>3. Inv => Entries
  BY DEF TunnelInv
<1>. QED BY <1>1, <1>2, <1>3, PTL DEF NetSpec

-----------------------------------------------------------------------------
(* What pings write back.  A peer's record, its slots, its story and the   *)
(* tallies of its accounts are taken as values: h, g (one slot) or slots,  *)
(* st, and t (one account) or tl.                                          *)

Healths == [known : BOOLEAN, fail : Nat, penalty : Nat]
PingStates == [at : {"idle", "asking", "alive", "healed", "failed"}, fail : Nat, penalty : Nat,
               account : 0..MaxLeaves]
Tallies == [streak : 0..MaxFail, recoveries : Nat, warned : BOOLEAN]
Stories == [of : 0..MaxLeaves, last : 0..MaxLeaves, muddled : BOOLEAN]

(* A record, or a copy of one, that tells an account's tally. *)
Exact(h, t) ==
    /\ h.fail = (IF t.streak < MaxFail THEN t.streak ELSE MaxFail - 1)
    /\ h.penalty = t.recoveries
    /\ t.warned <=> t.streak = MaxFail

(* An idle slot, or a ping of another account than the record's. *)
Stray(g, st) == g.at = "idle" \/ g.account # st.of

(* What a ping in flight knows of its account, by where it is, and of the  *)
(* record while that is still the one it copied.                           *)
Carries(h, g, st, t) ==
    /\ \/ g.at = "asking" /\ Exact(g, t)
       \/ /\ g.at = "alive" /\ t.streak = 0 /\ ~t.warned
          /\ t.recoveries = g.penalty + (IF g.fail > 0 THEN 1 ELSE 0)
       \/ g.at = "healed" /\ t.streak = 0 /\ ~t.warned /\ t.recoveries = g.penalty + 1
       \/ /\ g.at = "failed" /\ t.streak = g.fail + 1 /\ g.fail + 1 < MaxFail /\ ~t.warned
          /\ t.recoveries = g.penalty
    /\ g.at \in {"asking", "alive"} /\ g.account = st.of => h.fail = g.fail /\ h.penalty = g.penalty

PeerSound(h, slots, st, tl) ==
    /\ st.of =< st.last
    /\ \A s \in 1..Slots : slots[s].account =< st.last
    /\ \A n \in 0..MaxLeaves : n > st.last => tl[n] = NewTally
    /\ \A s, t \in 1..Slots : slots[s].at # "idle" /\ slots[t].at # "idle" => s = t
    /\ \A s \in 1..Slots : slots[s].at # "idle" => Carries(h, slots[s], st, tl[slots[s].account])
    /\ ~h.known => tl[st.of] = NewTally /\ \A s \in 1..Slots : Stray(slots[s], st)
    /\ h.known /\ (\A s \in 1..Slots : Stray(slots[s], st)) => Exact(h, tl[st.of])

PingInv == \A p \in Pinged : ~story[p].muddled => PeerSound(health[p], ping[p], story[p], tally[p])

LEMMA IdleIsStray == Idle \in PingStates /\ Idle.at = "idle" /\ Idle.account = 0
BY PingAssumptions DEF Idle, PingStates

(* A step of the one ping in flight keeps its peer sound when it changes   *)
(* the tally of no other account, writes in no other name, and goes on     *)
(* knowing its account or leaves the record exact.                         *)
LEMMA SlotMoves ==
    ASSUME NEW h \in Healths, NEW h2 \in Healths, NEW st \in Stories, NEW st2 \in Stories,
           NEW tl \in [0..MaxLeaves -> Tallies], NEW tl2 \in [0..MaxLeaves -> Tallies],
           NEW slots \in [1..Slots -> PingStates], NEW s \in 1..Slots, NEW g \in PingStates,
           PeerSound(h, slots, st, tl), slots[s].at # "idle",
           g = Idle \/ g.account = slots[s].account,
           st2.last = st.last, st2.of \in {st.of, slots[s].account}, h2.known = h.known,
           \A n \in 0..MaxLeaves : n # slots[s].account => tl2[n] = tl[n],
           ~h.known => st2 = st,
           g # Idle => Carries(h2, g, st2, tl2[g.account]),
           h.known /\ Stray(g, st2) => Exact(h2, tl2[st2.of])
    PROVE  PeerSound(h2, [slots EXCEPT ![s] = g], st2, tl2)
<1>. DEFINE new == [slots EXCEPT ![s] = g]
<1>1. /\ new[s] = g /\ \A t \in 1..Slots \ {s} : new[t] = slots[t]
      /\ st.last \in Nat /\ st.last >= 0 /\ slots[s].account \in 0..MaxLeaves /\ st.of \in 0..MaxLeaves
  BY PingAssumptions DEF Stories, PingStates
<1>. HIDE DEF new
<1>2. \A t \in 1..Slots \ {s} : slots[t].at = "idle"
  BY DEF PeerSound
<1>3. st2.of =< st2.last /\ \A t \in 1..Slots : new[t].account =< st2.last
  BY <1>1, IdleIsStray DEF PeerSound
<1>4. \A n \in 0..MaxLeaves : n > st2.last => tl2[n] = NewTally
  <2>. SUFFICES ASSUME NEW n \in 0..MaxLeaves, n > st2.last PROVE tl2[n] = NewTally
    OBVIOUS
  <2>1. slots[s].account =< st.last /\ tl[n] = NewTally
    BY DEF PeerSound
  <2>2. n # slots[s].account
    BY <1>1, <2>1, PingAssumptions
  <2>. QED BY <2>1, <2>2
<1>5. \A t, u \in 1..Slots : new[t].at # "idle" /\ new[u].at # "idle" => t = u
  BY <1>1, <1>2
<1>6. \A t \in 1..Slots : new[t].at # "idle" => Carries(h2, new[t], st2, tl2[new[t].account])
  BY <1>1, <1>2, IdleIsStray
<1>7. ASSUME ~h2.known
      PROVE  tl2[st2.of] = NewTally /\ \A t \in 1..Slots : Stray(new[t], st2)
  <2>1. st2 = st /\ slots[s].account # st.of /\ tl[st.of] = NewTally
    BY <1>7 DEF PeerSound, Stray
  <2>2. tl2[st2.of] = NewTally
    BY <1>1, <2>1
  <2>. QED BY <1>1, <1>2, <2>1, <2>2, IdleIsStray DEF Stray
<1>8. h2.known /\ (\A t \in 1..Slots : Stray(new[t], st2)) => Exact(h2, tl2[st2.of])
  BY <1>1
<1>. QED BY <1>3, <1>4, <1>5, <1>6, <1>7, <1>8 DEF PeerSound, new

PingTypes ==
    /\ health \in [Pinged -> Healths] /\ ping \in [Pinged -> [1..Slots -> PingStates]]
    /\ tally \in [Pinged -> [0..MaxLeaves -> Tallies]] /\ story \in [Pinged -> Stories]

(* A step of one slot of one peer, told by the new values. *)
LEMMA SlotStep ==
    ASSUME PingTypes, PingInv, NEW p \in Pinged, NEW s \in 1..Slots,
           NEW h2 \in Healths, NEW g \in PingStates, NEW st2 \in Stories, NEW t2 \in Tallies,
           health' = [health EXCEPT ![p] = h2], ping' = [ping EXCEPT ![p][s] = g],
           story' = [story EXCEPT ![p] = st2],
           tally' = [tally EXCEPT ![p][ping[p][s].account] = t2],
           ping[p][s].at # "idle", g = Idle \/ g.account = ping[p][s].account,
           st2.last = story[p].last, st2.of \in {story[p].of, ping[p][s].account},
           st2.muddled = story[p].muddled, h2.known = health[p].known,
           ~health[p].known => st2 = story[p],
           Carries(health[p], ping[p][s], story[p], Tally(p, s)) /\ g # Idle => Carries(h2, g, st2, t2),
           Carries(health[p], ping[p][s], story[p], Tally(p, s)) /\ g = Idle /\ health[p].known
               /\ st2.of = ping[p][s].account => Exact(h2, t2),
           st2.of # ping[p][s].account => h2 = health[p]
    PROVE  PingTypes' /\ PingInv'
<1>. DEFINE a == ping[p][s].account
            slots == ping[p]
            tl2 == [tally[p] EXCEPT ![a] = t2]
<1>1. /\ health[p] \in Healths /\ slots \in [1..Slots -> PingStates] /\ story[p] \in Stories
      /\ tally[p] \in [0..MaxLeaves -> Tallies] /\ a \in 0..MaxLeaves
  BY DEF PingTypes, PingStates
<1>2. /\ health'[p] = h2 /\ ping'[p] = [slots EXCEPT ![s] = g] /\ story'[p] = st2
      /\ tally'[p] = tl2
  BY DEF PingTypes
<1>3. \A q \in Pinged \ {p} : /\ health'[q] = health[q] /\ ping'[q] = ping[q]
                             /\ story'[q] = story[q] /\ tally'[q] = tally[q]
  BY DEF PingTypes
<1>4. tl2 \in [0..MaxLeaves -> Tallies] /\ tl2[a] = t2
      /\ \A n \in 0..MaxLeaves : n # a => tl2[n] = tally[p][n]
  BY <1>1
<1>5. [slots EXCEPT ![s] = g] \in [1..Slots -> PingStates]
  BY <1>1
<1>. HIDE DEF tl2
<1>6. ASSUME ~story[p].muddled PROVE PeerSound(h2, [slots EXCEPT ![s] = g], st2, tl2)
  <2>1. PeerSound(health[p], slots, story[p], tally[p])
    BY <1>6 DEF PingInv
  <2>2. Carries(health[p], ping[p][s], story[p], Tally(p, s))
    BY <2>1 DEF PeerSound, Tally
  <2>3. g # Idle => Carries(h2, g, st2, tl2[g.account])
    BY <1>4, <2>2
  <2>4. ASSUME health[p].known, Stray(g, st2) PROVE Exact(h2, tl2[st2.of])
    <3>1. CASE st2.of = a
      <4>1. g = Idle
        <5>1. CASE g # Idle
          <6>1. g.account = st2.of /\ g.at # "idle"
            BY <2>2, <3>1, <5>1 DEF Carries
          <6>. QED BY <2>4, <6>1 DEF Stray
        <5>. QED BY <5>1
      <4>. QED BY <1>4, <2>2, <2>4, <3>1, <4>1
    <3>2. CASE st2.of # a
      <4>1. st2.of = story[p].of /\ h2 = health[p] /\ story[p].of \in 0..MaxLeaves
        BY <1>1, <3>2 DEF Stories
      <4>2. \A t \in 1..Slots : Stray(slots[t], story[p])
        BY <2>1, <3>2, <4>1 DEF PeerSound, Stray
      <4>3. Exact(health[p], tally[p][story[p].of])
        BY <2>1, <2>4, <4>2 DEF PeerSound
      <4>. QED BY <1>4, <3>2, <4>1, <4>3
    <3>. QED BY <3>1, <3>2
  <2>. DEFINE h == health[p]
              st == story[p]
              tl == tally[p]
  <2>5. /\ slots[s].at # "idle" /\ (g = Idle \/ g.account = slots[s].account)
        /\ st2.last = st.last /\ st2.of \in {st.of, slots[s].account} /\ h2.known = h.known
        /\ ~h.known => st2 = st
        /\ \A n \in 0..MaxLeaves : n # slots[s].account => tl2[n] = tl[n]
    BY <1>4
  <2>6. /\ PeerSound(h, slots, st, tl)
        /\ h \in Healths /\ st \in Stories /\ tl \in [0..MaxLeaves -> Tallies]
        /\ slots \in [1..Slots -> PingStates]
        /\ h.known /\ Stray(g, st2) => Exact(h2, tl2[st2.of])
    BY <1>1, <2>1, <2>4
  <2>. HIDE DEF slots, a, h, st, tl
  <2>. QED BY <1>4, <2>3, <2>5, <2>6, SlotMoves
<1>7. PingInv'
  <2>. SUFFICES ASSUME NEW q \in Pinged, ~story'[q].muddled
                PROVE  PeerSound(health'[q], ping'[q], story'[q], tally'[q])
    BY DEF PingInv
  <2>1. CASE q = p
    BY <1>2, <1>6, <2>1
  <2>2. CASE q # p
    BY <1>3, <2>2 DEF PingInv
  <2>. QED BY <2>1, <2>2
<1>8. PingTypes'
  BY <1>2, <1>4, <1>5 DEF PingTypes
<1>. QED BY <1>7, <1>8

(* The values of a slot, and the new one when it moves on. *)
LEMMA SlotValues ==
    ASSUME PingTypes, NEW p \in Pinged, NEW s \in 1..Slots
    PROVE  /\ health[p] \in Healths /\ ping[p] \in [1..Slots -> PingStates]
           /\ ping[p][s] \in PingStates /\ story[p] \in Stories /\ Tally(p, s) \in Tallies
           /\ \A at \in {"alive", "healed", "failed"} :
                 /\ [ping[p][s] EXCEPT !.at = at] \in PingStates
                 /\ Move(p, s, at) => ping' = [ping EXCEPT ![p][s] = [ping[p][s] EXCEPT !.at = at]]
           /\ health = [health EXCEPT ![p] = health[p]] /\ story = [story EXCEPT ![p] = story[p]]
           /\ tally = [tally EXCEPT ![p][ping[p][s].account] = Tally(p, s)]
<1>1. /\ health[p] \in Healths /\ ping[p] \in [1..Slots -> PingStates]
      /\ ping[p][s] \in PingStates /\ story[p] \in Stories
      /\ tally[p] \in [0..MaxLeaves -> Tallies] /\ ping[p][s].account \in 0..MaxLeaves
  BY DEF PingTypes, PingStates
<1>2. Tally(p, s) \in Tallies
  BY <1>1 DEF Tally
<1>3. ASSUME NEW at \in {"alive", "healed", "failed"}
      PROVE  /\ [ping[p][s] EXCEPT !.at = at] \in PingStates
             /\ Move(p, s, at) => ping' = [ping EXCEPT ![p][s] = [ping[p][s] EXCEPT !.at = at]]
  <2>1. [ping[p][s] EXCEPT !.at = at] \in PingStates
    BY <1>1 DEF PingStates
  <2>2. Move(p, s, at) => ping' = [ping EXCEPT ![p][s] = [ping[p][s] EXCEPT !.at = at]]
    BY Zenon DEF Move
  <2>. QED BY <2>1, <2>2
<1>4. health = [health EXCEPT ![p] = health[p]] /\ story = [story EXCEPT ![p] = story[p]]
  BY DEF PingTypes
<1>5. tally = [tally EXCEPT ![p][ping[p][s].account] = Tally(p, s)]
  <2>1. tally[p] = [tally[p] EXCEPT ![ping[p][s].account] = Tally(p, s)]
    BY <1>1 DEF Tally
  <2>2. tally = [tally EXCEPT ![p] = tally[p]]
    BY DEF PingTypes
  <2>. QED BY <2>1, <2>2
<1>. QED BY <1>1, <1>2, <1>3, <1>4, <1>5

LEMMA AnswersKeeps ==
    ASSUME PingTypes, PingInv, NEW p \in Pinged, NEW s \in 1..Slots, Answers(p, s)
    PROVE  PingTypes' /\ PingInv'
<1>. DEFINE g == [ping[p][s] EXCEPT !.at = "alive"]
            t == Tally(p, s)
            t2 == AfterAnswer(t)
<1>1. /\ health[p] \in Healths /\ ping[p][s] \in PingStates /\ story[p] \in Stories /\ t \in Tallies
      /\ g \in PingStates /\ g.account = ping[p][s].account /\ g.at = "alive"
      /\ g.fail = ping[p][s].fail /\ g.penalty = ping[p][s].penalty
      /\ ping' = [ping EXCEPT ![p][s] = g] /\ ping[p][s].at = "asking"
      /\ health' = [health EXCEPT ![p] = health[p]] /\ story' = [story EXCEPT ![p] = story[p]]
      /\ tally' = [tally EXCEPT ![p][ping[p][s].account] = t2]
  BY SlotValues DEF Answers, PingStates, Found
<1>. HIDE DEF g, t
<1>2. Recovery(t) \in Nat /\ Recovery(t) = (IF t.streak > 0 /\ MaxFail > 1 THEN 1 ELSE 0)
  BY DEF Recovery
<1>3. /\ t2 \in Tallies /\ t2.streak = 0 /\ ~t2.warned
      /\ t2.recoveries = t.recoveries + Recovery(t)
  <2>1. 0 \in 0..MaxFail /\ t.recoveries + Recovery(t) \in Nat
    BY <1>1, <1>2, PingAssumptions DEF Tallies
  <2>. QED BY <2>1 DEF AfterAnswer, Tallies
<1>. HIDE DEF t2
<1>4. ASSUME Carries(health[p], ping[p][s], story[p], t) PROVE Carries(health[p], g, story[p], t2)
  <2>1. /\ Exact(ping[p][s], t)
        /\ g.account = story[p].of => health[p].fail = g.fail /\ health[p].penalty = g.penalty
    BY <1>1, <1>4 DEF Carries
  <2>2. ping[p][s].fail > 0 <=> t.streak > 0 /\ MaxFail > 1
    BY <1>1, <2>1, PingAssumptions DEF Exact, Tallies, PingStates
  <2>3. t2.recoveries = g.penalty + (IF g.fail > 0 THEN 1 ELSE 0)
    BY <1>1, <1>2, <1>3, <2>1, <2>2 DEF Exact
  <2>. QED BY <1>1, <1>3, <2>1, <2>3 DEF Carries
<1>5. g # Idle /\ ping[p][s].at # "idle"
  BY <1>1, IdleIsStray
<1>. QED BY <1>1, <1>3, <1>4, <1>5, SlotStep DEF t

LEMMA FailsKeeps ==
    ASSUME PingTypes, PingInv, NEW p \in Pinged, NEW s \in 1..Slots, Fails(p, s)
    PROVE  PingTypes' /\ PingInv'
<1>. DEFINE g == IF AtThreshold(p, s) THEN Idle ELSE [ping[p][s] EXCEPT !.at = "failed"]
            t == Tally(p, s)
            t2 == AfterFailure(t, AtThreshold(p, s))
<1>1. /\ health[p] \in Healths /\ ping[p][s] \in PingStates /\ story[p] \in Stories /\ t \in Tallies
      /\ ping[p][s].at = "asking"
      /\ health' = [health EXCEPT ![p] = health[p]] /\ story' = [story EXCEPT ![p] = story[p]]
      /\ tally' = [tally EXCEPT ![p][ping[p][s].account] = t2]
  BY SlotValues DEF Fails, Found
<1>2. /\ g \in PingStates /\ ping' = [ping EXCEPT ![p][s] = g]
      /\ g = Idle \/ g.account = ping[p][s].account
      /\ AtThreshold(p, s) => g = Idle
      /\ ~AtThreshold(p, s) =>
            g.account = ping[p][s].account /\ g.at = "failed" /\ g.fail = ping[p][s].fail
               /\ g.penalty = ping[p][s].penalty
  <2>1. CASE AtThreshold(p, s)
    BY <2>1, IdleIsStray DEF Fails, Finish
  <2>2. CASE ~AtThreshold(p, s)
    BY <1>1, <2>2, SlotValues DEF Fails, PingStates
  <2>. QED BY <2>1, <2>2
<1>3. /\ t2 \in Tallies /\ t2.recoveries = t.recoveries
      /\ t2.streak = (IF t.streak = MaxFail THEN MaxFail ELSE t.streak + 1)
      /\ t2.warned <=> t.warned \/ AtThreshold(p, s)
  <2>1. (IF t.streak = MaxFail THEN MaxFail ELSE t.streak + 1) \in 0..MaxFail
    BY <1>1, PingAssumptions DEF Tallies
  <2>2. AtThreshold(p, s) \in BOOLEAN /\ t.warned \in BOOLEAN
    BY <1>1 DEF AtThreshold, Tallies
  <2>. QED BY <1>1, <2>1, <2>2 DEF AfterFailure, Tallies
<1>4. AtThreshold(p, s) <=> ping[p][s].fail + 1 >= MaxFail
  BY DEF AtThreshold
<1>. HIDE DEF g, t, t2
<1>5. ASSUME Carries(health[p], ping[p][s], story[p], t)
      PROVE  /\ AtThreshold(p, s) /\ story[p].of = ping[p][s].account => Exact(health[p], t2)
             /\ ~AtThreshold(p, s) => Carries(health[p], g, story[p], t2)
  <2>1. /\ Exact(ping[p][s], t)
        /\ ping[p][s].account = story[p].of =>
              health[p].fail = ping[p][s].fail /\ health[p].penalty = ping[p][s].penalty
    BY <1>1, <1>5 DEF Carries
  <2>2. CASE AtThreshold(p, s)
    <3>1. t2.streak = MaxFail /\ t2.warned /\ ping[p][s].fail = MaxFail - 1
      BY <1>1, <1>3, <1>4, <2>1, <2>2, PingAssumptions DEF Exact, Tallies, PingStates
    <3>. QED BY <1>3, <2>1, <2>2, <3>1, PingAssumptions DEF Exact
  <2>3. CASE ~AtThreshold(p, s)
    <3>1. t.streak = ping[p][s].fail /\ t.streak # MaxFail /\ ~t.warned /\ ping[p][s].fail + 1 < MaxFail
      BY <1>1, <1>4, <2>1, <2>3, PingAssumptions DEF Exact, Tallies, PingStates
    <3>. QED BY <1>2, <1>3, <2>1, <2>3, <3>1 DEF Carries, Exact
  <2>. QED BY <2>2, <2>3
<1>6. g = Idle <=> AtThreshold(p, s)
  BY <1>2, IdleIsStray
<1>. QED BY <1>1, <1>2, <1>3, <1>5, <1>6, SlotStep DEF t

LEMMA SetPingKeeps ==
    ASSUME PingTypes, PingInv, NEW p \in Pinged, NEW s \in 1..Slots, SetPing(p, s)
    PROVE  PingTypes' /\ PingInv'
<1>. DEFINE g == IF ping[p][s].fail > 0 THEN [ping[p][s] EXCEPT !.at = "healed"] ELSE Idle
            t == Tally(p, s)
<1>1. /\ health[p] \in Healths /\ ping[p][s] \in PingStates /\ story[p] \in Stories /\ t \in Tallies
      /\ ping[p][s].at = "alive"
      /\ health' = [health EXCEPT ![p] = health[p]] /\ story' = [story EXCEPT ![p] = story[p]]
      /\ tally' = [tally EXCEPT ![p][ping[p][s].account] = t]
  BY SlotValues DEF SetPing
<1>2. /\ g \in PingStates /\ ping' = [ping EXCEPT ![p][s] = g]
      /\ g = Idle \/ g.account = ping[p][s].account
      /\ ~(ping[p][s].fail > 0) => g = Idle
      /\ ping[p][s].fail > 0 =>
            g.account = ping[p][s].account /\ g.at = "healed" /\ g.penalty = ping[p][s].penalty
  <2>1. CASE ~(ping[p][s].fail > 0)
    BY <2>1, IdleIsStray DEF SetPing, Finish
  <2>2. CASE ping[p][s].fail > 0
    BY <1>1, <2>2, SlotValues DEF SetPing, PingStates
  <2>. QED BY <2>1, <2>2
<1>3. g = Idle <=> ~(ping[p][s].fail > 0)
  BY <1>2, IdleIsStray
<1>. HIDE DEF g, t
<1>4. ASSUME Carries(health[p], ping[p][s], story[p], t)
      PROVE  /\ g # Idle => Carries(health[p], g, story[p], t)
             /\ g = Idle /\ story[p].of = ping[p][s].account => Exact(health[p], t)
  BY <1>1, <1>2, <1>3, <1>4, PingAssumptions DEF Carries, Exact, Tallies, PingStates
<1>. QED BY <1>1, <1>2, <1>4, SlotStep DEF t

LEMMA WriteKeeps ==
    ASSUME PingTypes, PingInv, NEW p \in Pinged, NEW s \in 1..Slots, NEW fail \in Nat, NEW penalty \in Nat,
           WriteHealth(p, s, fail, penalty), ping[p][s].at # "idle",
           \A h \in Healths : Carries(health[p], ping[p][s], story[p], Tally(p, s))
                              /\ h.fail = fail /\ h.penalty = penalty => Exact(h, Tally(p, s))
    PROVE  PingTypes' /\ PingInv'
<1>. DEFINE h2 == IF health[p].known THEN [health[p] EXCEPT !.fail = fail, !.penalty = penalty] ELSE health[p]
            st2 == IF health[p].known THEN [story[p] EXCEPT !.of = ping[p][s].account] ELSE story[p]
            t == Tally(p, s)
<1>1. /\ health[p] \in Healths /\ ping[p][s] \in PingStates /\ story[p] \in Stories /\ t \in Tallies
      /\ ping' = [ping EXCEPT ![p][s] = Idle] /\ Idle \in PingStates
      /\ tally' = [tally EXCEPT ![p][ping[p][s].account] = t]
  BY SlotValues, IdleIsStray DEF WriteHealth, Finish
<1>2. /\ h2 \in Healths /\ h2.known = health[p].known /\ health' = [health EXCEPT ![p] = h2]
      /\ ~health[p].known => h2 = health[p]
      /\ health[p].known => h2.fail = fail /\ h2.penalty = penalty
  <2>1. CASE health[p].known
    BY <1>1, <2>1 DEF WriteHealth, UpdateHealth, PingTypes, Healths
  <2>2. CASE ~health[p].known
    BY <1>1, <2>2 DEF WriteHealth, UpdateHealth, PingTypes
  <2>. QED BY <2>1, <2>2
<1>3. /\ st2 \in Stories /\ st2.last = story[p].last /\ st2.muddled = story[p].muddled
      /\ story' = [story EXCEPT ![p] = st2]
      /\ health[p].known => st2.of = ping[p][s].account
      /\ ~health[p].known => st2 = story[p]
  BY <1>1 DEF WriteHealth, PingTypes, Stories, PingStates
<1>. HIDE DEF h2, st2, t
<1>4. Carries(health[p], ping[p][s], story[p], t) /\ health[p].known => Exact(h2, t)
  BY <1>2 DEF t
<1>. QED BY <1>1, <1>2, <1>3, <1>4, SlotStep DEF t

LEMMA HealKeeps ==
    ASSUME PingTypes, PingInv, NEW p \in Pinged, NEW s \in 1..Slots, Heal(p, s)
    PROVE  PingTypes' /\ PingInv'
<1>1. ping[p][s] \in PingStates /\ ping[p][s].at = "healed"
  BY SlotValues DEF Heal
<1>2. ping[p][s].penalty + 1 \in Nat /\ 0 \in Nat
  BY <1>1 DEF PingStates
<1>3. \A h \in Healths : Carries(health[p], ping[p][s], story[p], Tally(p, s)) /\ h.fail = 0
                         /\ h.penalty = ping[p][s].penalty + 1 => Exact(h, Tally(p, s))
  BY <1>1, PingAssumptions DEF Carries, Exact
<1>. QED BY <1>1, <1>2, <1>3, WriteKeeps DEF Heal

LEMMA WorsenKeeps ==
    ASSUME PingTypes, PingInv, NEW p \in Pinged, NEW s \in 1..Slots, Worsen(p, s)
    PROVE  PingTypes' /\ PingInv'
<1>1. ping[p][s] \in PingStates /\ ping[p][s].at = "failed"
  BY SlotValues DEF Worsen
<1>2. ping[p][s].penalty \in Nat /\ ping[p][s].fail + 1 \in Nat
  BY <1>1 DEF PingStates
<1>3. \A h \in Healths : Carries(health[p], ping[p][s], story[p], Tally(p, s))
                         /\ h.fail = ping[p][s].fail + 1
                         /\ h.penalty = ping[p][s].penalty => Exact(h, Tally(p, s))
  BY <1>1, <1>2, PingAssumptions DEF Carries, Exact
<1>. QED BY <1>1, <1>2, <1>3, WriteKeeps DEF Worsen

(* A tick takes an idle slot of a peer that is known and has no ping in    *)
(* flight.                                                                 *)
LEMMA SlotTaken ==
    ASSUME NEW h \in Healths, NEW st \in Stories, NEW tl \in [0..MaxLeaves -> Tallies],
           NEW slots \in [1..Slots -> PingStates], NEW s \in 1..Slots, NEW g \in PingStates,
           PeerSound(h, slots, st, tl), \A t \in 1..Slots : slots[t].at = "idle", h.known,
           g.at = "asking", g.fail = h.fail, g.penalty = h.penalty, g.account = st.of
    PROVE  PeerSound(h, [slots EXCEPT ![s] = g], st, tl)
<1>. DEFINE new == [slots EXCEPT ![s] = g]
<1>1. new[s] = g /\ \A t \in 1..Slots \ {s} : new[t] = slots[t]
  OBVIOUS
<1>. HIDE DEF new
<1>2. Exact(h, tl[st.of])
  BY DEF PeerSound, Stray
<1>3. Carries(h, g, st, tl[g.account])
  BY <1>2 DEF Carries, Exact
<1>4. \A t \in 1..Slots : new[t].account =< st.last
  BY <1>1 DEF PeerSound
<1>5. ~Stray(new[s], st)
  BY <1>1 DEF Stray
<1>. QED BY <1>1, <1>3, <1>4, <1>5 DEF PeerSound, new

LEMMA TickKeeps ==
    ASSUME PingTypes, PingInv, Tick
    PROVE  PingTypes' /\ PingInv'
<1>. DEFINE knownNow == {p \in Pinged : health[p].known}
            Copy(p) == [at |-> "asking", fail |-> health[p].fail, penalty |-> health[p].penalty,
                        account |-> story[p].of]
            St(p) == [story[p] EXCEPT !.muddled = @ \/ (p \in knownNow /\ Flying(p) # {})]
<1>1. PICK slot \in [knownNow -> 1..Slots] :
          /\ \A p \in knownNow : slot[p] \notin Flying(p)
          /\ ping' = [p \in Pinged |->
                IF p \in knownNow THEN [ping[p] EXCEPT ![slot[p]] = Copy(p)] ELSE ping[p]]
  BY DEF Tick
<1>2. health' = health /\ tally' = tally /\ story' = [p \in Pinged |-> St(p)]
  BY DEF Tick
<1>3. ASSUME NEW p \in Pinged
      PROVE  /\ ping'[p] \in [1..Slots -> PingStates] /\ story'[p] \in Stories
             /\ ~story'[p].muddled => PeerSound(health[p], ping'[p], story'[p], tally[p])
  <2>1. /\ health[p] \in Healths /\ story[p] \in Stories /\ ping[p] \in [1..Slots -> PingStates]
        /\ tally[p] \in [0..MaxLeaves -> Tallies]
        /\ ~story[p].muddled => PeerSound(health[p], ping[p], story[p], tally[p])
    BY DEF PingTypes, PingInv
  <2>2. /\ story'[p] \in Stories
        /\ ~story'[p].muddled => /\ story'[p] = story[p] /\ ~story[p].muddled
                                 /\ p \in knownNow => Flying(p) = {}
    <3>1. story'[p] = St(p)
      BY <1>2
    <3>. HIDE DEF knownNow
    <3>. QED BY <2>1, <3>1 DEF Stories
  <2>3. CASE p \in knownNow
    <3>1. ping'[p] = [ping[p] EXCEPT ![slot[p]] = Copy(p)] /\ slot[p] \in 1..Slots
      BY <1>1, <2>3
    <3>2. /\ Copy(p) \in PingStates /\ Copy(p).at = "asking" /\ Copy(p).fail = health[p].fail
          /\ Copy(p).penalty = health[p].penalty /\ Copy(p).account = story[p].of
      BY <2>1 DEF PingStates, Healths, Stories
    <3>. HIDE DEF Copy
    <3>3. ping'[p] \in [1..Slots -> PingStates]
      BY <2>1, <3>1, <3>2
    <3>4. ASSUME ~story'[p].muddled
          PROVE  PeerSound(health[p], [ping[p] EXCEPT ![slot[p]] = Copy(p)], story[p], tally[p])
      <4>1. health[p].known /\ \A t \in 1..Slots : ping[p][t].at = "idle"
        BY <2>2, <2>3, <3>4 DEF Flying
      <4>2. PeerSound(health[p], ping[p], story[p], tally[p])
        BY <2>1, <2>2, <3>4
      <4>. QED BY <2>1, <3>1, <3>2, <4>1, <4>2, SlotTaken
    <3>. QED BY <2>2, <3>1, <3>3, <3>4
  <2>4. CASE p \notin knownNow
    BY <1>1, <2>1, <2>2, <2>4
  <2>. QED BY <2>3, <2>4
<1>4. ping' \in [Pinged -> [1..Slots -> PingStates]] /\ story' \in [Pinged -> Stories]
  BY <1>1, <1>2, <1>3
<1>. QED BY <1>2, <1>3, <1>4 DEF PingTypes, PingInv

LEMMA LeaveKeeps ==
    ASSUME PingTypes, PingInv, NEW p \in Pinged, Leave(p)
    PROVE  PingTypes' /\ PingInv'
<1>. DEFINE h2 == [NewPeer EXCEPT !.known = FALSE]
            st2 == [story[p] EXCEPT !.of = story[p].last + 1, !.last = story[p].last + 1]
<1>1. /\ health[p] \in Healths /\ story[p] \in Stories /\ ping[p] \in [1..Slots -> PingStates]
      /\ tally[p] \in [0..MaxLeaves -> Tallies]
  BY DEF PingTypes
<1>2. /\ health' = [health EXCEPT ![p] = h2] /\ story' = [story EXCEPT ![p] = st2]
      /\ ping' = ping /\ tally' = tally /\ health[p].known
  BY <1>1 DEF Leave, PingTypes, Stories
<1>3. h2 \in Healths /\ h2.known = FALSE
  BY DEF NewPeer, Healths
<1>4. /\ st2 \in Stories /\ st2.of = story[p].last + 1 /\ st2.last = story[p].last + 1
      /\ st2.muddled = story[p].muddled
      /\ story[p].last \in Nat /\ story[p].last + 1 \in 0..MaxLeaves
  <2>1. story[p].last + 1 \in 0..MaxLeaves /\ story[p].last \in Nat
    BY <1>1, PingAssumptions DEF Leave, Stories
  <2>. QED BY <1>1, <2>1 DEF Stories
<1>. HIDE DEF h2, st2
<1>5. ASSUME ~story[p].muddled PROVE PeerSound(h2, ping[p], st2, tally[p])
  <2>1. PeerSound(health[p], ping[p], story[p], tally[p])
    BY <1>5 DEF PingInv
  <2>2. \A s \in 1..Slots : ping[p][s].account \in Nat /\ ping[p][s].account =< story[p].last
    <3>. SUFFICES ASSUME NEW s \in 1..Slots
                  PROVE  ping[p][s].account \in Nat /\ ping[p][s].account =< story[p].last
      OBVIOUS
    <3>1. ping[p][s] \in PingStates
      BY <1>1
    <3>. QED BY <2>1, <3>1, PingAssumptions DEF PeerSound, PingStates
  <2>3. \A s \in 1..Slots : ping[p][s].account =< st2.last /\ ping[p][s].account # st2.of
    BY <1>4, <2>2
  <2>4. tally[p][st2.of] = NewTally
        /\ \A n \in 0..MaxLeaves : n > st2.last => tally[p][n] = NewTally
    BY <1>4, <2>1 DEF PeerSound
  <2>5. \A s \in 1..Slots : ping[p][s].at # "idle" =>
            Carries(h2, ping[p][s], st2, tally[p][ping[p][s].account])
    BY <2>1, <2>3 DEF PeerSound, Carries
  <2>6. \A s, t \in 1..Slots : ping[p][s].at # "idle" /\ ping[p][t].at # "idle" => s = t
    BY <2>1 DEF PeerSound
  <2>. QED BY <1>3, <1>4, <2>3, <2>4, <2>5, <2>6 DEF PeerSound, Stray
<1>. QED BY <1>2, <1>3, <1>4, <1>5 DEF PingTypes, PingInv

LEMMA NewPeerIsExact ==
    /\ NewPeer \in Healths /\ NewPeer.known /\ NewTally \in Tallies /\ Exact(NewPeer, NewTally)
BY PingAssumptions DEF NewPeer, NewTally, Healths, Tallies, Exact

LEMMA ReturnKeeps ==
    ASSUME PingTypes, PingInv, NEW p \in Pinged, Return(p)
    PROVE  PingTypes' /\ PingInv'
<1>1. ~health[p].known /\ health' = [health EXCEPT ![p] = NewPeer] /\ UNCHANGED <<ping, tally, story>>
  BY DEF Return
<1>2. ASSUME ~story[p].muddled PROVE PeerSound(NewPeer, ping[p], story[p], tally[p])
  <2>1. PeerSound(health[p], ping[p], story[p], tally[p])
    BY <1>2 DEF PingInv
  <2>2. \A s \in 1..Slots : ping[p][s].at # "idle" =>
            Carries(NewPeer, ping[p][s], story[p], tally[p][ping[p][s].account])
    BY <1>1, <2>1 DEF PeerSound, Carries, Stray
  <2>. QED BY <1>1, <2>1, <2>2, NewPeerIsExact DEF PeerSound
<1>. QED BY <1>1, <1>2, NewPeerIsExact DEF PingTypes, PingInv

LEMMA PingStep ==
    ASSUME PingTypes, PingInv, [PingNext]_pingVars
    PROVE  PingTypes' /\ PingInv'
<1>1. CASE Tick
  BY <1>1, TickKeeps
<1>2. ASSUME NEW p \in Pinged, NEW s \in 1..Slots,
             Answers(p, s) \/ Fails(p, s) \/ SetPing(p, s) \/ Heal(p, s) \/ Worsen(p, s)
      PROVE  PingTypes' /\ PingInv'
  BY <1>2, AnswersKeeps, FailsKeeps, SetPingKeeps, HealKeeps, WorsenKeeps
<1>3. ASSUME NEW p \in Pinged, Leave(p) \/ Return(p)
      PROVE  PingTypes' /\ PingInv'
  BY <1>3, LeaveKeeps, ReturnKeeps
<1>4. CASE UNCHANGED pingVars
  BY <1>4 DEF pingVars, PingTypes, PingInv
<1>. QED BY <1>1, <1>2, <1>3, <1>4 DEF PingNext

LEMMA PingStart == PingInit => PingTypes /\ PingInv
<1>. SUFFICES ASSUME PingInit PROVE PingTypes /\ PingInv
  OBVIOUS
<1>. DEFINE st == [of |-> 0, last |-> 0, muddled |-> FALSE]
            slots == [s \in 1..Slots |-> Idle]
            tl == [n \in 0..MaxLeaves |-> NewTally]
<1>1. st \in Stories /\ 0 \in 0..MaxLeaves
  BY PingAssumptions DEF Stories
<1>2. PingTypes
  BY <1>1, NewPeerIsExact, IdleIsStray DEF PingInit, PingTypes
<1>3. PeerSound(NewPeer, slots, st, tl)
  BY <1>1, NewPeerIsExact, IdleIsStray DEF PeerSound
<1>. QED BY <1>2, <1>3 DEF PingInit, PingInv

(* For any number of peers, threshold and number of slots: between two     *)
(* pings a peer's record tells one account's failures and recoveries       *)
(* exactly, and a warning was queued when, and only when, its streak       *)
(* reached the threshold, as long as no two pings of the peer overlapped,  *)
(* even when a ping writes to a record made anew since its copy            *)
(* (server_p2p.go:184).                                                    *)
THEOREM HealthAlwaysExact == PingSpec => []HealthExact
<1>1. PingInit => PingTypes /\ PingInv
  BY PingStart
<1>2. PingTypes /\ PingInv /\ [PingNext]_pingVars => (PingTypes /\ PingInv)'
  BY PingStep
<1>3. PingInv => HealthExact
  <2>. SUFFICES ASSUME PingInv, NEW p \in Pinged, health[p].known, Flying(p) = {}, ~story[p].muddled
                PROVE  Exact(health[p], tally[p][story[p].of])
    BY DEF HealthExact, Exact
  <2>. QED BY DEF PingInv, PeerSound, Stray, Flying
<1>. QED BY <1>1, <1>2, <1>3, PTL DEF PingSpec


-----------------------------------------------------------------------------
(* config.json and its backups.                                            *)

Contents == [text : {"whole", "torn", "bad", "absent"}, save : Nat, ports : [PortNames -> Int]]

Requests == [at : {"idle", "backup", "write", "truncated"}, restores : BOOLEAN,
             saw : Contents, new : Contents]

Records == [saves : Nat, boots : Nat, acked : SUBSET Nat, backedUp : SUBSET Nat, exposed : SUBSET Nat]

ConfigTypes ==
    /\ disk \in Contents /\ \A b \in backups : b.file \in Contents
    /\ writer \in [Writers -> Requests] /\ record \in Records

(* A file that is not there stands for the default. *)
AbsentIsDefault(f) == f.text = "absent" => f.save = 0

AllNumbered ==
    /\ AbsentIsDefault(disk) /\ \A b \in backups : AbsentIsDefault(b.file)
    /\ \A w \in Writers : AbsentIsDefault(writer[w].new)

(* Whoever is about to write has in a backup what it read, or that is      *)
(* exposed.                                                                *)
Covered ==
    /\ record.acked \subseteq Saved(disk) \cup BackedUp \cup record.exposed
    /\ \A w \in Writers : writer[w].at = "write" =>
          Saved(writer[w].saw) \subseteq BackedUp \cup record.exposed

ConfigInv == ConfigTypes /\ AllNumbered /\ Covered

LEMMA FilesAreContents ==
    /\ DefaultFile \in Contents /\ TornFile \in Contents /\ Unread \in Requests
    /\ \A text \in {"whole", "bad", "absent"}, save \in Nat :
          [DefaultFile EXCEPT !.text = text, !.save = save] \in Contents
    /\ DefaultFile.text = "whole" /\ DefaultFile.save = 0 /\ TornFile.text = "torn"
    /\ Unread.at = "idle" /\ Unread.new = DefaultFile
<1>1. Fallback \in [PortNames -> Int] /\ NoPorts \in [PortNames -> Int]
  BY DEF Fallback, NoPorts, PortNames
<1>2. /\ DefaultFile \in Contents /\ TornFile \in Contents
      /\ DefaultFile.text = "whole" /\ DefaultFile.save = 0 /\ TornFile.text = "torn"
  BY <1>1 DEF DefaultFile, TornFile, Contents
<1>3. \A text \in {"whole", "bad", "absent"}, save \in Nat :
          [DefaultFile EXCEPT !.text = text, !.save = save] \in Contents
  BY <1>2 DEF Contents
<1>4. Unread \in Requests /\ Unread.at = "idle" /\ Unread.new = DefaultFile
  BY <1>2 DEF Unread, Requests
<1>. QED BY <1>2, <1>3, <1>4

LEMMA SavedAreNumbers == ASSUME NEW f \in Contents PROVE Saved(f) \in SUBSET Nat
BY DEF Saved, Contents

(* A step of one request keeps what is covered when what leaves the file   *)
(* or the backups is exposed.                                              *)
LEMMA CoverMoves ==
    ASSUME Covered, NEW w \in Writers, \A v \in Writers \ {w} : writer'[v] = writer[v],
           record.exposed \subseteq record'.exposed,
           BackedUp \subseteq BackedUp' \cup record'.exposed,
           Saved(disk) \subseteq Saved(disk)' \cup BackedUp' \cup record'.exposed,
           record'.acked \subseteq record.acked \cup Saved(disk)' \cup record'.exposed,
           writer'[w].at = "write" => Saved(writer'[w].saw) \subseteq BackedUp' \cup record'.exposed
    PROVE  Covered'
<1>1. record'.acked \subseteq Saved(disk)' \cup BackedUp' \cup record'.exposed
  BY DEF Covered
<1>2. ASSUME NEW v \in Writers, writer'[v].at = "write"
      PROVE  Saved(writer'[v].saw) \subseteq BackedUp' \cup record'.exposed
  <2>1. CASE v = w
    BY <1>2, <2>1
  <2>2. CASE v # w
    BY <1>2, <2>2 DEF Covered
  <2>. QED BY <2>1, <2>2
<1>3. \A v \in Writers : writer'[v].at = "write" => Saved(writer[v].saw)' \subseteq (BackedUp \cup record.exposed)'
  BY <1>2 DEF Saved
<1>. QED BY <1>1, <1>3 DEF Covered

LEMMA RequestKeeps ==
    ASSUME ConfigInv, NEW w \in Writers, NEW restores \in BOOLEAN, NEW new \in Contents, AbsentIsDefault(new),
           Request(w, restores, new), record' \in Records,
           record'.acked = record.acked, record'.exposed = record.exposed
    PROVE  ConfigInv'
<1>. DEFINE r == [Unread EXCEPT !.at = "backup", !.restores = restores, !.new = new]
<1>1. r \in Requests /\ r.new = new /\ r.at = "backup"
  BY FilesAreContents DEF Requests
<1>2. writer' = [writer EXCEPT ![w] = r] /\ UNCHANGED <<disk, backups>>
  BY DEF Request
<1>. HIDE DEF r
<1>3. writer' \in [Writers -> Requests] /\ writer'[w] = r
      /\ \A v \in Writers \ {w} : writer'[v] = writer[v]
  BY <1>1, <1>2 DEF ConfigInv, ConfigTypes
<1>4. ConfigTypes' /\ AllNumbered'
  BY <1>1, <1>2, <1>3 DEF ConfigInv, ConfigTypes, AllNumbered, AbsentIsDefault
<1>5. Saved(disk)' = Saved(disk) /\ BackedUp' = BackedUp
  BY <1>2 DEF Saved, BackedUp
<1>6. Covered'
  BY <1>1, <1>3, <1>5, CoverMoves DEF ConfigInv
<1>. QED BY <1>4, <1>6 DEF ConfigInv

LEMMA BootKeeps == ASSUME ConfigInv, Boot PROVE ConfigInv'
<1>1. /\ disk' = (IF disk.text = "absent" THEN DefaultFile ELSE disk) /\ UNCHANGED <<backups, writer>>
      /\ record' = [record EXCEPT !.boots = @ + 1]
  BY DEF Boot
<1>2. disk' \in Contents /\ record' \in Records
      /\ record'.acked = record.acked /\ record'.exposed = record.exposed
  <2>1. disk' \in Contents
    BY <1>1, FilesAreContents DEF ConfigInv, ConfigTypes
  <2>2. record' \in Records /\ record'.acked = record.acked /\ record'.exposed = record.exposed
    BY <1>1 DEF ConfigInv, ConfigTypes, Records
  <2>. QED BY <2>1, <2>2
<1>3. ConfigTypes' /\ AllNumbered'
  <2>1. ConfigTypes'
    BY <1>1, <1>2 DEF ConfigInv, ConfigTypes
  <2>2. AbsentIsDefault(disk')
    BY <1>1, FilesAreContents DEF ConfigInv, AllNumbered, AbsentIsDefault
  <2>. QED BY <1>1, <2>1, <2>2 DEF ConfigInv, AllNumbered, AbsentIsDefault
<1>4. Saved(disk') = Saved(disk)
  BY <1>1, FilesAreContents DEF ConfigInv, AllNumbered, AbsentIsDefault, Saved
<1>5. Covered'
  <2>1. Saved(disk)' = Saved(disk) /\ BackedUp' = BackedUp
    BY <1>1, <1>4 DEF Saved, BackedUp
  <2>2. \A w \in Writers : Saved(writer[w].saw)' = Saved(writer[w].saw)
    BY <1>1 DEF Saved
  <2>. QED BY <1>1, <1>2, <2>1, <2>2 DEF ConfigInv, Covered
<1>. QED BY <1>3, <1>5 DEF ConfigInv

LEMMA DownKeeps == ASSUME ConfigInv, Down PROVE ConfigInv'
<1>1. writer' = [w \in Writers |-> Unread] /\ UNCHANGED <<disk, backups, record>>
  BY DEF Down
<1>2. ConfigTypes' /\ AllNumbered'
  BY <1>1, FilesAreContents DEF ConfigInv, ConfigTypes, AllNumbered, AbsentIsDefault
<1>3. Saved(disk)' = Saved(disk) /\ BackedUp' = BackedUp
  BY <1>1 DEF Saved, BackedUp
<1>4. Covered'
  BY <1>1, <1>3, FilesAreContents DEF ConfigInv, Covered
<1>. QED BY <1>2, <1>4 DEF ConfigInv

LEMMA PostKeeps == ASSUME ConfigInv, NEW w \in Writers, Post(w) PROVE ConfigInv'
<1>1. PICK text \in {"whole", "bad"} :
          Request(w, FALSE, [DefaultFile EXCEPT !.text = text, !.save = record.saves + 1])
  BY DEF Post
<1>. DEFINE new == [DefaultFile EXCEPT !.text = text, !.save = record.saves + 1]
<1>2. new \in Contents /\ AbsentIsDefault(new)
  <2>1. record.saves + 1 \in Nat
    BY DEF ConfigInv, ConfigTypes, Records
  <2>. QED BY <2>1, FilesAreContents DEF AbsentIsDefault, Contents
<1>3. record' \in Records /\ record'.acked = record.acked /\ record'.exposed = record.exposed
  BY DEF Post, OneMore, ConfigInv, ConfigTypes, Records
<1>. HIDE DEF new
<1>. QED BY <1>1, <1>2, <1>3, RequestKeeps DEF new

LEMMA RestoreKeeps == ASSUME ConfigInv, NEW w \in Writers, Restore(w) PROVE ConfigInv'
<1>1. PICK b \in backups : Request(w, TRUE, b.file)
  BY DEF Restore
<1>2. b.file \in Contents /\ AbsentIsDefault(b.file)
  BY DEF ConfigInv, ConfigTypes, AllNumbered
<1>3. record' \in Records /\ record'.acked = record.acked /\ record'.exposed = record.exposed
  BY DEF Restore, OneMore, ConfigInv, ConfigTypes, Records
<1>. QED BY <1>1, <1>2, <1>3, RequestKeeps

(* A request that has made, or failed to make, its backup. *)
LEMMA BackedUpKeeps ==
    ASSUME ConfigInv, NEW w \in Writers, NEW file \in {disk, TornFile}, NEW contents \in SUBSET Nat,
           backups' \in {backups, Backup(w, file)}, disk' = disk,
           writer' = [writer EXCEPT ![w].at = "write", ![w].saw = disk], Expose(contents),
           backups' = Backup(w, file) => \A b \in SameName(w) : Saved(b.file) \subseteq contents,
           Saved(disk) \subseteq contents \cup BackedUp'
    PROVE  ConfigInv'
<1>1. /\ writer' \in [Writers -> Requests] /\ writer'[w].saw = disk /\ writer'[w].at = "write"
      /\ writer'[w].new = writer[w].new /\ \A v \in Writers \ {w} : writer'[v] = writer[v]
  BY DEF ConfigInv, ConfigTypes, Requests
<1>2. /\ record' \in Records /\ record'.acked = record.acked
      /\ record'.exposed = record.exposed \cup (contents \ BackedUp')
  <2>1. contents \ BackedUp' \in SUBSET Nat
    OBVIOUS
  <2>2. record \in Records /\ record' = [record EXCEPT !.exposed = @ \cup (contents \ BackedUp')]
    BY DEF Expose, ConfigInv, ConfigTypes
  <2>. DEFINE more == contents \ BackedUp'
  <2>. HIDE DEF more
  <2>. QED BY <2>1, <2>2 DEF Records, more
<1>3. \A b \in backups' : b \in backups \/ b.file = file
  BY DEF Backup
<1>4. file \in Contents /\ AbsentIsDefault(file)
  BY FilesAreContents DEF ConfigInv, ConfigTypes, AllNumbered, AbsentIsDefault
<1>5. ConfigTypes' /\ AllNumbered'
  BY <1>1, <1>2, <1>3, <1>4 DEF ConfigInv, ConfigTypes, AllNumbered
<1>6. BackedUp \subseteq BackedUp' \cup record'.exposed
  <2>. SUFFICES ASSUME NEW b \in backups, NEW save \in Saved(b.file)
                PROVE  save \in BackedUp' \cup record'.exposed
    BY DEF BackedUp
  <2>1. CASE b \in backups'
    <3>1. Saved(b.file) \subseteq BackedUp'
      BY <2>1 DEF BackedUp, Saved
    <3>. QED BY <3>1
  <2>2. CASE b \notin backups'
    <3>1. backups' = Backup(w, file) /\ b \in SameName(w)
      BY <2>2 DEF Backup
    <3>. QED BY <1>2, <3>1
  <2>. QED BY <2>1, <2>2
<1>7. Saved(disk)' = Saved(disk) /\ Saved(writer'[w].saw) \subseteq BackedUp' \cup record'.exposed
  BY <1>1, <1>2 DEF Saved
<1>8. Covered'
  BY <1>1, <1>2, <1>6, <1>7, CoverMoves DEF ConfigInv
<1>. QED BY <1>5, <1>8 DEF ConfigInv

LEMMA SavedIn == ASSUME NEW in, \A b \in in : b.file \in Contents
                 PROVE  UNION {Saved(b.file) : b \in in} \in SUBSET Nat
BY SavedAreNumbers

LEMMA MakeBackupKeeps == ASSUME ConfigInv, NEW w \in Writers, MakeBackup(w) PROVE ConfigInv'
<1>. DEFINE contents == UNION {Saved(b.file) : b \in SameName(w)}
<1>1. /\ backups' = Backup(w, disk) /\ disk' = disk
      /\ writer' = [writer EXCEPT ![w].at = "write", ![w].saw = disk] /\ Expose(contents)
  BY DEF MakeBackup
<1>2. contents \in SUBSET Nat /\ \A b \in SameName(w) : Saved(b.file) \subseteq contents
  BY SavedIn DEF SameName, ConfigInv, ConfigTypes
<1>3. Saved(disk) \subseteq BackedUp'
  <2>1. \E b \in backups' : b.file = disk
    <3>. DEFINE b == [restores |-> writer[w].restores, second |-> second, file |-> disk]
    <3>1. b \in backups' /\ b.file = disk
      BY <1>1 DEF Backup
    <3>. QED BY <3>1
  <2>2. \A b \in backups' : Saved(b.file) \subseteq BackedUp'
    BY DEF BackedUp, Saved
  <2>. QED BY <2>1, <2>2
<1>. HIDE DEF contents
<1>. QED BY <1>1, <1>2, <1>3, BackedUpKeeps

LEMMA BackupFailsKeeps == ASSUME ConfigInv, NEW w \in Writers, BackupFails(w) PROVE ConfigInv'
<1>. DEFINE contents == Saved(disk) \cup UNION {Saved(b.file) : b \in SameName(w)}
<1>1. /\ backups' \in {backups, Backup(w, TornFile)} /\ disk' = disk
      /\ writer' = [writer EXCEPT ![w].at = "write", ![w].saw = disk] /\ Expose(contents)
  BY DEF BackupFails
<1>2. /\ contents \in SUBSET Nat /\ Saved(disk) \subseteq contents
      /\ \A b \in SameName(w) : Saved(b.file) \subseteq contents
  BY SavedIn, SavedAreNumbers DEF SameName, ConfigInv, ConfigTypes
<1>. HIDE DEF contents
<1>. QED BY <1>1, <1>2, BackedUpKeeps

LEMMA GiveUpKeeps == ASSUME ConfigInv, NEW w \in Writers, GiveUp(w) PROVE ConfigInv'
<1>1. writer' = [writer EXCEPT ![w] = Unread] /\ UNCHANGED <<disk, backups, record>>
  BY DEF GiveUp
<1>2. writer' \in [Writers -> Requests] /\ writer'[w] = Unread
      /\ \A v \in Writers \ {w} : writer'[v] = writer[v]
  BY <1>1, FilesAreContents DEF ConfigInv, ConfigTypes
<1>3. ConfigTypes' /\ AllNumbered'
  BY <1>1, <1>2, FilesAreContents DEF ConfigInv, ConfigTypes, AllNumbered, AbsentIsDefault
<1>4. Saved(disk)' = Saved(disk) /\ BackedUp' = BackedUp
  BY <1>1 DEF Saved, BackedUp
<1>5. Covered'
  BY <1>1, <1>2, <1>4, FilesAreContents, CoverMoves DEF ConfigInv
<1>. QED BY <1>3, <1>5 DEF ConfigInv

(* A request that truncates the file, or gives it a new content, exposes   *)
(* what it takes away, where it did not read it.                           *)
LEMMA WritingKeeps ==
    ASSUME ConfigInv, NEW w \in Writers, NEW r \in Requests, NEW file \in Contents, NEW record2 \in Records,
           writer' = [writer EXCEPT ![w] = r], disk' = file, backups' = backups, record' = record2,
           AbsentIsDefault(file), AbsentIsDefault(r.new), r.at # "write",
           record.exposed \subseteq record2.exposed,
           record2.acked \subseteq record.acked \cup Saved(file) \cup record2.exposed,
           Saved(disk) \subseteq BackedUp \cup record2.exposed
    PROVE  ConfigInv'
<1>1. writer' \in [Writers -> Requests] /\ writer'[w] = r
      /\ \A v \in Writers \ {w} : writer'[v] = writer[v]
  BY DEF ConfigInv, ConfigTypes
<1>2. ConfigTypes' /\ AllNumbered'
  BY <1>1 DEF ConfigInv, ConfigTypes, AllNumbered, AbsentIsDefault
<1>3. Saved(disk)' = Saved(file) /\ BackedUp' = BackedUp
  BY DEF Saved, BackedUp
<1>4. Covered'
  BY <1>1, <1>3, CoverMoves DEF ConfigInv
<1>. QED BY <1>2, <1>4 DEF ConfigInv

LEMMA Exposing ==
    ASSUME ConfigTypes, NEW contents \in SUBSET Nat, Expose(contents), backups' = backups
    PROVE  /\ record' \in Records /\ record'.acked = record.acked
           /\ record'.exposed = record.exposed \cup (contents \ BackedUp)
<1>1. BackedUp' = BackedUp
  BY DEF BackedUp, Saved
<1>. DEFINE more == contents \ BackedUp
<1>2. more \in SUBSET Nat /\ record' = [record EXCEPT !.exposed = @ \cup more]
  BY <1>1 DEF Expose
<1>. HIDE DEF more
<1>3. record' \in Records /\ record'.acked = record.acked /\ record'.exposed = record.exposed \cup more
  BY <1>2 DEF ConfigTypes, Records
<1>. QED BY <1>3 DEF more

LEMMA TruncateKeeps == ASSUME ConfigInv, NEW w \in Writers, Truncate(w) PROVE ConfigInv'
<1>. DEFINE r == [writer[w] EXCEPT !.at = "truncated"]
<1>1. /\ writer' = [writer EXCEPT ![w].at = "truncated"] /\ disk' = TornFile /\ backups' = backups
      /\ Expose(Saved(disk) \ Saved(writer[w].saw)) /\ writer[w].at = "write"
  BY DEF Truncate
<1>2. r \in Requests /\ r.at = "truncated" /\ r.new = writer[w].new /\ writer' = [writer EXCEPT ![w] = r]
  BY <1>1 DEF ConfigInv, ConfigTypes, Requests
<1>3. Saved(disk) \ Saved(writer[w].saw) \in SUBSET Nat
  BY SavedAreNumbers DEF ConfigInv, ConfigTypes
<1>4. /\ record' \in Records /\ record'.acked = record.acked
      /\ record'.exposed = record.exposed \cup ((Saved(disk) \ Saved(writer[w].saw)) \ BackedUp)
  BY <1>1, <1>3, Exposing DEF ConfigInv
<1>5. Saved(disk) \subseteq BackedUp \cup record'.exposed
  BY <1>1, <1>4 DEF ConfigInv, Covered
<1>6. AbsentIsDefault(TornFile) /\ AbsentIsDefault(r.new) /\ TornFile \in Contents
  BY <1>2, FilesAreContents DEF AbsentIsDefault, ConfigInv, AllNumbered
<1>. HIDE DEF r
<1>. QED BY <1>1, <1>2, <1>4, <1>5, <1>6, WritingKeeps

LEMMA WriteFailsKeeps == ASSUME ConfigInv, NEW w \in Writers, WriteFails(w) PROVE ConfigInv'
<1>1. /\ writer' = [writer EXCEPT ![w] = Unread] /\ disk' = TornFile /\ backups' = backups
      /\ Expose(Saved(disk))
  BY DEF WriteFails
<1>2. /\ record' \in Records /\ record'.acked = record.acked
      /\ record'.exposed = record.exposed \cup (Saved(disk) \ BackedUp)
  BY <1>1, SavedAreNumbers, Exposing DEF ConfigInv, ConfigTypes
<1>3. AbsentIsDefault(TornFile) /\ AbsentIsDefault(Unread.new)
  BY FilesAreContents DEF AbsentIsDefault
<1>. QED BY <1>1, <1>2, <1>3, FilesAreContents, WritingKeeps

LEMMA WriteAnswerKeeps == ASSUME ConfigInv, NEW w \in Writers, WriteAndAnswer(w) PROVE ConfigInv'
<1>. DEFINE file == writer[w].new
            crossed == disk.text # "torn"
            told == IF writer[w].restores THEN {} ELSE Saved(writer[w].saw)
            danger == IF crossed THEN Saved(disk) \cup Saved(file) ELSE {}
<1>1. /\ writer' = [writer EXCEPT ![w] = Unread] /\ backups' = backups
      /\ disk' \in {file} \cup (IF crossed THEN {TornFile} ELSE {})
      /\ record' = [record EXCEPT !.acked = @ \cup Saved(file), !.backedUp = @ \cup told,
                                  !.exposed = @ \cup danger]
  BY DEF WriteAndAnswer
<1>2. file \in Contents /\ writer[w].saw \in Contents /\ disk \in Contents /\ AbsentIsDefault(file)
  BY DEF ConfigInv, ConfigTypes, AllNumbered, Requests
<1>3. told \in SUBSET Nat /\ danger \in SUBSET Nat /\ Saved(file) \in SUBSET Nat
  BY <1>2, SavedAreNumbers
<1>. HIDE DEF told, danger, file
<1>4. /\ record' \in Records /\ record'.acked = record.acked \cup Saved(file)
      /\ record'.exposed = record.exposed \cup danger
  BY <1>1, <1>3 DEF ConfigInv, ConfigTypes, Records
<1>5. Saved(disk) \subseteq danger /\ (crossed => Saved(file) \subseteq danger)
  BY DEF danger, Saved
<1>6. disk' \in Contents /\ AbsentIsDefault(disk') /\ (disk' = file \/ Saved(file) \subseteq danger)
  BY <1>1, <1>2, <1>5, FilesAreContents DEF AbsentIsDefault
<1>7. Saved(file) \subseteq Saved(disk') \cup danger
  BY <1>6
<1>8. AbsentIsDefault(Unread.new) /\ Unread \in Requests /\ Unread.at # "write"
  BY FilesAreContents DEF AbsentIsDefault
<1>. QED BY <1>1, <1>4, <1>5, <1>6, <1>7, <1>8, WritingKeeps

LEMMA ConfigStep == ASSUME ConfigInv, [ConfigNext]_configVars PROVE ConfigInv'
<1>1. CASE Boot
  BY <1>1, BootKeeps
<1>2. CASE Down
  BY <1>2, DownKeeps
<1>3. CASE SecondPasses \/ UNCHANGED configVars
  <2>1. UNCHANGED <<disk, backups, writer, record>>
    BY <1>3 DEF SecondPasses, configVars
  <2>. QED BY <2>1 DEF ConfigInv, ConfigTypes, AllNumbered, AbsentIsDefault, Covered, Saved, BackedUp
<1>4. ASSUME NEW w \in Writers,
             \/ Post(w) \/ Restore(w) \/ MakeBackup(w) \/ BackupFails(w) \/ GiveUp(w)
             \/ Truncate(w) \/ WriteFails(w) \/ WriteAndAnswer(w)
      PROVE  ConfigInv'
  BY <1>4, PostKeeps, RestoreKeeps, MakeBackupKeeps, BackupFailsKeeps, GiveUpKeeps, TruncateKeeps,
     WriteFailsKeeps, WriteAnswerKeeps
<1>. QED BY <1>1, <1>2, <1>3, <1>4 DEF ConfigNext

LEMMA ConfigStart == ConfigInit => ConfigInv
<1>. SUFFICES ASSUME ConfigInit PROVE ConfigInv
  OBVIOUS
<1>1. PICK ports \in PortSettings :
          disk \in {[DefaultFile EXCEPT !.ports = ports], [DefaultFile EXCEPT !.text = "absent"]}
  BY DEF ConfigInit
<1>2. ports \in [PortNames -> Int]
  BY ConfigAssumptions
<1>3. disk \in Contents /\ disk.save = 0 /\ disk.text # "torn"
  <2>1. DefaultFile \in Contents /\ DefaultFile.save = 0 /\ DefaultFile.text = "whole"
    BY FilesAreContents
  <2>2. CASE disk = [DefaultFile EXCEPT !.ports = ports]
    BY <1>2, <2>1, <2>2 DEF Contents
  <2>3. CASE disk = [DefaultFile EXCEPT !.text = "absent"]
    BY <2>1, <2>3 DEF Contents
  <2>. QED BY <1>1, <2>2, <2>3
<1>4. /\ backups = {} /\ writer = [w \in Writers |-> Unread]
      /\ record = [saves |-> 0, boots |-> 0, acked |-> {0}, backedUp |-> {}, exposed |-> {}]
  BY DEF ConfigInit
<1>5. ConfigTypes /\ AllNumbered
  <2>1. record \in Records
    BY <1>4 DEF Records
  <2>2. \A w \in Writers : writer[w] = Unread
    BY <1>4
  <2>3. AbsentIsDefault(Unread.new) /\ writer \in [Writers -> Requests]
    BY <1>4, FilesAreContents DEF AbsentIsDefault
  <2>. QED BY <1>3, <1>4, <2>1, <2>2, <2>3 DEF ConfigTypes, AllNumbered, AbsentIsDefault
<1>6. Covered
  <2>1. Saved(disk) = {0} /\ record.acked = {0}
    BY <1>3, <1>4 DEF Saved
  <2>2. \A w \in Writers : writer[w].at # "write"
    BY <1>4, FilesAreContents
  <2>. QED BY <2>1, <2>2 DEF Covered
<1>. QED BY <1>5, <1>6 DEF ConfigInv

(* A content that an operator was told is in config.json (web.go:327, 393) *)
(* is there or in a backup, for any number of concurrent requests, saves,  *)
(* restores, crashes and starts, unless that content was exposed: by a     *)
(* backup that failed or lost its name, or by a write that crossed         *)
(* another.                                                                *)
THEOREM SavesNeverLost == ConfigSpec => []NothingLost
<1>1. ConfigInit => ConfigInv
  BY ConfigStart
<1>2. ConfigInv /\ [ConfigNext]_configVars => ConfigInv'
  BY ConfigStep
<1>3. ConfigInv => NothingLost
  BY DEF ConfigInv, Covered, NothingLost
<1>. QED BY <1>1, <1>2, <1>3, PTL DEF ConfigSpec

-----------------------------------------------------------------------------
(* The published ranking.                                                  *)

RankedIn(order, peers) ==
    /\ {e.peer : e \in Range(order)} = DOMAIN peers /\ Len(order) = Cardinality(DOMAIN peers)
    /\ \A i, j \in DOMAIN order : i < j =>
          /\ order[i].score >= order[j].score
          /\ peers[order[i].peer] \in {"none", "relay"} => peers[order[j].peer] \in {"none", "relay"}

(* What is being written, or was published, ranks one copy of the cache.   *)
RankInv ==
    /\ IsFiniteSet(DOMAIN cached)
    /\ DOMAIN ranking = {"at", "peers", "order"}
    /\ ranking.at \in {"scored", "truncated", "written"} => RankedIn(ranking.order, ranking.peers)
    /\ ranking.at = "written" => tmp = [text |-> "whole", order |-> ranking.order]
    /\ top.text = "absent" \/ (top.text = "whole" /\ RankedIn(top.order, shown))

(* An order of a finite set of entries, one per peer, ranks its peers. *)
LEMMA OrdersRank ==
    ASSUME NEW peers, IsFiniteSet(DOMAIN peers), NEW score \in [DOMAIN peers -> Nat],
           \A p \in DOMAIN peers : score[p] = 0 <=> peers[p] \in {"none", "relay"},
           NEW order \in Orders({[peer |-> p, score |-> score[p]] : p \in DOMAIN peers})
    PROVE  RankedIn(order, peers)
<1>. DEFINE Entry(p) == [peer |-> p, score |-> score[p]]
            entries == {Entry(p) : p \in DOMAIN peers}
            n == Cardinality(DOMAIN peers)
<1>1. IsFiniteSet(entries) /\ Cardinality(entries) = n /\ n \in Nat
  <2>. DEFINE f == [p \in DOMAIN peers |-> Entry(p)]
  <2>1. f \in Bijection(DOMAIN peers, entries)
    BY DEF Bijection, Injection, Surjection, IsInjective
  <2>. QED BY <2>1, FS_Bijection, FS_CardinalityType DEF ExistsBijection
<1>2. /\ order \in [1..n -> entries]
      /\ \A i, j \in 1..n : i < j => order[i] # order[j] /\ ~ByScore(order[j], order[i])
  BY <1>1 DEF Orders
<1>3. \A e \in entries : e.peer \in DOMAIN peers /\ e = Entry(e.peer) /\ e.score = score[e.peer]
  OBVIOUS
<1>. HIDE DEF entries, n
<1>4. order \in Surjection(1..n, entries)
  <2>1. order \in Injection(1..n, entries)
    BY <1>1, <1>2 DEF Injection, IsInjective
  <2>2. Cardinality(1..n) = n
    <3>1. 1 \in Int /\ n \in Int /\ n \in Nat
      BY <1>1
    <3>2. Cardinality(1..n) = IF 1 <= n THEN n - 1 + 1 ELSE 0
      BY <3>1, FS_Interval
    <3>. QED BY <3>1, <3>2
  <2>. QED BY <1>1, <2>1, <2>2, FS_Injection
<1>5. Range(order) = entries
  BY <1>2, <1>4 DEF Range, Surjection
<1>6. {e.peer : e \in entries} = DOMAIN peers
  <2>1. \A p \in DOMAIN peers : Entry(p) \in entries /\ Entry(p).peer = p
    BY DEF entries
  <2>2. \A p \in DOMAIN peers : p \in {e.peer : e \in entries}
    <3>. HIDE DEF Entry
    <3>. QED BY <2>1
  <2>3. \A e \in entries : e.peer \in DOMAIN peers
    BY <1>3
  <2>. QED BY <2>2, <2>3
<1>7. Len(order) = n
  BY <1>1, <1>2
<1>8. ASSUME NEW i \in 1..n, NEW j \in 1..n, i < j
      PROVE  /\ order[i].score >= order[j].score
             /\ peers[order[i].peer] \in {"none", "relay"} => peers[order[j].peer] \in {"none", "relay"}
  <2>1. order[i] \in entries /\ order[j] \in entries /\ ~(order[j].score > order[i].score)
    BY <1>2, <1>8 DEF ByScore
  <2>2. order[i].score \in Nat /\ order[j].score \in Nat
    BY <1>3, <2>1
  <2>3. (order[i].score = 0 <=> peers[order[i].peer] \in {"none", "relay"})
        /\ (order[j].score = 0 <=> peers[order[j].peer] \in {"none", "relay"})
    BY <1>3, <2>1
  <2>. QED BY <2>1, <2>2, <2>3
<1>. QED BY <1>2, <1>5, <1>6, <1>7, <1>8 DEF RankedIn, n

LEMMA RankStep == ASSUME RankInv, [RankNext]_rankVars PROVE RankInv'
<1>1. CASE StartRanking
  BY <1>1 DEF StartRanking, RankInv, Nothing, NoRanking
<1>2. CASE TableArrives
  BY <1>2 DEF TableArrives, RankInv
<1>3. CASE BeginUpdate
  <2>1. PICK order \in Orders({[peer |-> p, score |-> CalculateScore(cached[p])] : p \in DOMAIN cached}) :
            ranking' = [at |-> "scored", peers |-> cached, order |-> order]
    BY <1>3 DEF BeginUpdate
  <2>2. \A text : CalculateScore(text) \in Nat /\ (CalculateScore(text) = 0 <=> text \in {"none", "relay"})
    BY DEF CalculateScore, DefaultGB
  <2>. DEFINE score == [p \in DOMAIN cached |-> CalculateScore(cached[p])]
  <2>3. /\ score \in [DOMAIN cached -> Nat]
        /\ \A p \in DOMAIN cached : score[p] = 0 <=> cached[p] \in {"none", "relay"}
        /\ {[peer |-> p, score |-> CalculateScore(cached[p])] : p \in DOMAIN cached}
             = {[peer |-> p, score |-> score[p]] : p \in DOMAIN cached}
    BY <2>2
  <2>. HIDE DEF score
  <2>4. RankedIn(order, cached)
    BY <2>1, <2>3, OrdersRank DEF RankInv
  <2>. QED BY <1>3, <2>1, <2>4 DEF BeginUpdate, RankInv
<1>4. CASE TruncateTmp
  BY <1>4 DEF TruncateTmp, RankInv
<1>5. CASE WriteTmp
  BY <1>5 DEF WriteTmp, RankInv
<1>6. CASE PublishTop
  BY <1>6 DEF PublishTop, RankInv, Nothing
<1>7. CASE UpdateFails
  BY <1>7 DEF UpdateFails, RankInv, Nothing
<1>8. CASE Ends
  BY <1>8 DEF Ends, RankInv, Nothing
<1>9. ASSUME NEW p \in Ranked, CacheChanges(p) PROVE RankInv'
  <2>1. DOMAIN cached' \in {DOMAIN cached \cup {p}, DOMAIN cached \ {p}}
    BY <1>9 DEF CacheChanges
  <2>2. IsFiniteSet(DOMAIN cached')
    BY <2>1, FS_AddElement, FS_RemoveElement DEF RankInv
  <2>. QED BY <1>9, <2>2 DEF CacheChanges, RankInv
<1>10. CASE UNCHANGED rankVars
  BY <1>10 DEF rankVars, RankInv
<1>. QED BY <1>1, <1>2, <1>3, <1>4, <1>5, <1>6, <1>7, <1>8, <1>9, <1>10 DEF RankNext

LEMMA RankStart == RankInit => RankInv
<1>1. ASSUME cached = <<>> PROVE IsFiniteSet(DOMAIN cached)
  BY <1>1, FS_EmptySet
<1>. QED BY <1>1 DEF RankInit, RankInv, Nothing, NoRanking

(* Nobody ever reads half a ranking or a wrong one, for any number of      *)
(* peers, whatever they report and wherever the hub ends                   *)
(* (server_rank.go:376).                                                   *)
THEOREM TopAlwaysSound == RankSpec => []TopSound
<1>1. RankInit => RankInv
  BY RankStart
<1>2. RankInv /\ [RankNext]_rankVars => RankInv'
  BY RankStep
<1>3. RankInv => TopSound
  BY DEF RankInv, RankedIn, TopSound
<1>. QED BY <1>1, <1>2, <1>3, PTL DEF RankSpec
=============================================================================
