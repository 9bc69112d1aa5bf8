------------------------------- MODULE Runner -------------------------------
(***************************************************************************)
(* The inference engine and the process that owns it (runner.go,           *)
(* process_unix.go, process_windows.go, main.go, App.Stop): what Start     *)
(* launches in each of its three modes, what Stop kills, and the ways the  *)
(* program ends with or without Stop.                                      *)
(*                                                                         *)
(* Processes are "ray" and "vllm" and the workers each forks.  In          *)
(* container mode all of them live in one container whose entry point is   *)
(* Ray.  Left out: command lines, log pumps, and on Windows the instant    *)
(* between a process's start and its assignment to the Job Object.         *)
(* Bubble Tea is external: it ends its run without an error on SIGTERM and *)
(* with one on SIGINT, and it cannot start without a terminal.             *)
(***************************************************************************)
EXTENDS Integers

CONSTANTS MaxReboots    \* bound: restarts of the program

ASSUME LivesAssumption == MaxReboots \in Nat

VARIABLES
    mode,      \* isDirectExecution and GOOS: "direct", "container" or "windows"
    sound,     \* the files and programs Start needs are there
    terminal,  \* Bubble Tea can draw; otherwise tui.Run blocks for ever
    program,   \* "running", "stopping", "closing", "cancelled" or "over"
    leaving,   \* tui.Run has returned: main may return any time
    launch,    \* where Runner.Start is
    engine,    \* processes of this life that run
    known,     \* processes Stop can kill: rayCmd, vllmCmd with a Process
    orphans,   \* processes of earlier lives that still run
    saga       \* history, see RunnerInit

runnerVars == <<mode, sound, terminal, program, leaving, launch, engine, known, orphans, saga>>

Ray == {"ray", "rayWorkers"}
Vllm == {"vllm", "vllmWorkers"}

(* saga.stopped  Runner.Stop has run           saga.quit  the Q key was hit *)
(* saga.raced    it ran before Start was done                               *)
(* saga.died     vLLM's main process ended by itself                        *)
(* saga.mishap   docker or a program could not be started, or Ray ended     *)
NewSaga(lives) ==
    [stopped |-> FALSE, quit |-> FALSE, raced |-> FALSE, died |-> FALSE, mishap |-> FALSE,
     lives |-> lives]

RunnerInit ==
    /\ mode \in {"direct", "container", "windows"}
    /\ sound \in BOOLEAN /\ terminal \in BOOLEAN
    /\ program = "running" /\ leaving = FALSE /\ launch = "new"
    /\ engine = {} /\ known = {} /\ orphans = {} /\ saga = NewSaga(0)

RunnerTypeOK ==
    /\ mode \in {"direct", "container", "windows"} /\ sound \in BOOLEAN /\ terminal \in BOOLEAN
    /\ program \in {"running", "stopping", "closing", "cancelled", "over"} /\ leaving \in BOOLEAN
    /\ launch \in {"new", "cleared", "waiting", "ready", "done", "failed"}
    /\ engine \subseteq Ray \cup Vllm /\ known \subseteq {"ray", "vllm"}
    /\ orphans \subseteq Ray \cup Vllm
    /\ saga \in [stopped : BOOLEAN, quit : BOOLEAN, raced : BOOLEAN, died : BOOLEAN,
                 mishap : BOOLEAN, lives : 0..MaxReboots]

Alive == program # "over"

(* exec.CommandContext starts nothing once the context is cancelled. *)
Cancelled == program = "cancelled"

Launching(from, to) == Alive /\ launch = from /\ launch' = to

programVars == <<mode, sound, terminal, program, leaving, saga>>

-----------------------------------------------------------------------------
(* Start *)

(* Seeded fault: a container of that name is left alone. *)
RemoveOldNever == UNCHANGED orphans

(* docker rm -f, before the new container. *)
RemoveOld == orphans' = {}

(* Container: the paths are checked, the old container goes. *)
ContainerClears ==
    /\ mode = "container" /\ sound /\ Launching("new", "cleared") /\ RemoveOld
    /\ UNCHANGED <<programVars, engine, known>>

(* docker run -d.  A container of that name makes it fail. *)
ContainerRuns ==
    /\ ~Cancelled /\ orphans = {} /\ Launching("cleared", "waiting")
    /\ engine' = engine \cup Ray
    /\ UNCHANGED <<programVars, known, orphans>>

(* Direct: Ray as a child with a process group of its own.  It ends at     *)
(* once when a Ray of an earlier life has its port, which nobody notices.  *)
DirectRunsRay ==
    /\ mode = "direct" /\ sound /\ ~Cancelled /\ Launching("new", "waiting")
    /\ engine' = IF orphans \cap Ray = {} THEN engine \cup Ray ELSE engine
    /\ known' = {"ray"}
    /\ UNCHANGED <<programVars, orphans>>

(* Windows runs vLLM at once. *)
WindowsPrepares ==
    /\ mode = "windows" /\ sound /\ Launching("new", "ready")
    /\ UNCHANGED <<programVars, engine, known, orphans>>

(* 3 s, or 5 s for the container; a cancelled context ends the wait. *)
WaitOver ==
    /\ ~Cancelled /\ Launching("waiting", "ready")
    /\ UNCHANGED <<programVars, engine, known, orphans>>

(* vLLM, a child like Ray.  It ends at once, for want of GPU memory or of  *)
(* its port, beside a vLLM of an earlier life (runner.go:62).              *)
RunVllm ==
    /\ mode # "container" /\ ~Cancelled /\ Launching("ready", "done")
    /\ engine' = IF orphans \cap Vllm = {} THEN engine \cup Vllm ELSE engine
    /\ known' = known \cup {"vllm"}
    /\ UNCHANGED <<programVars, orphans>>

(* Or inside the container, which leaves no command for Stop. *)
ExecVllm ==
    /\ mode = "container" /\ ~Cancelled /\ "ray" \in engine /\ Launching("ready", "done")
    /\ engine' = engine \cup Vllm
    /\ UNCHANGED <<programVars, known, orphans>>

(* What is missing, taken or cancelled ends the launch with a log line. *)
LaunchFails ==
    /\ \/ ~sound /\ Launching("new", "failed")
       \/ mode # "windows" /\ Cancelled
             /\ \E at \in {"new", "cleared", "waiting"} : Launching(at, "failed")
       \/ orphans # {} /\ Launching("cleared", "failed")
       \/ (Cancelled \/ (mode = "container" /\ "ray" \notin engine)) /\ Launching("ready", "failed")
    /\ UNCHANGED <<programVars, engine, known, orphans>>

(* docker run, or the start of Ray or of vLLM, returns an error. *)
StartFails ==
    /\ \/ Launching("cleared", "failed")
       \/ mode = "direct" /\ Launching("new", "failed")
       \/ Launching("ready", "failed")
    /\ saga' = [saga EXCEPT !.mishap = TRUE]
    /\ UNCHANGED <<mode, sound, terminal, program, leaving, engine, known, orphans>>

(* Ray's main process ends by itself, and with it the container.  As a     *)
(* child it leaves its workers; nobody waits for it.                       *)
RayDies ==
    /\ Alive /\ "ray" \in engine
    /\ engine' = IF mode = "container" THEN {} ELSE engine \ {"ray"}
    /\ saga' = [saga EXCEPT !.mishap = TRUE]
    /\ UNCHANGED <<mode, sound, terminal, program, leaving, launch, known, orphans>>

(* vLLM's main process ends by itself and is reaped by Wait, its workers   *)
(* stay.  Nothing starts it again.                                         *)
VllmDies ==
    /\ Alive /\ "vllm" \in engine /\ engine' = engine \ {"vllm"}
    /\ saga' = [saga EXCEPT !.died = TRUE]
    /\ UNCHANGED <<mode, sound, terminal, program, leaving, launch, known, orphans>>

-----------------------------------------------------------------------------
(* Stop *)

(* Seeded fault: only the direct child is killed. *)
KillChildOnly(main) == {main}

(* killProcessTree: a process group (or taskkill /T) reaches the workers   *)
(* while the main process exists.  Ray is never reaped, so its group can   *)
(* always be found; a vLLM that ended cannot.                              *)
KillTree(main) ==
    IF main = "ray" THEN Ray ELSE IF "vllm" \in engine THEN Vllm ELSE {"vllm"}

(* SIGTERM or SIGINT: main's goroutine runs App.Stop, and Bubble Tea, if   *)
(* it runs, ends too: without an error, or with one that sends tui.Run     *)
(* into its endless select.  Further signals are ignored.                  *)
Signal ==
    /\ program = "running" /\ program' = "stopping"
    /\ \/ terminal /\ leaving' = TRUE
       \/ leaving' = FALSE
    /\ UNCHANGED <<mode, sound, terminal, launch, engine, known, orphans, saga>>

RunnerStops ==
    /\ program = "stopping" /\ program' = "closing"
    /\ engine' = IF mode = "container" THEN {} ELSE engine \ UNION {KillTree(main) : main \in known}
    /\ saga' = [saga EXCEPT !.stopped = TRUE, !.raced = launch \notin {"done", "failed"}]
    /\ UNCHANGED <<mode, sound, terminal, leaving, launch, known, orphans>>

(* The rest of App.Stop, then cancel(): CommandContext kills the children. *)
Cancel ==
    /\ program = "closing" /\ program' = "cancelled" /\ engine' = engine \ known
    /\ UNCHANGED <<mode, sound, terminal, leaving, launch, known, orphans, saga>>

-----------------------------------------------------------------------------
(* The end of the program.  Windows closes the Job Object with it. *)

Over ==
    /\ program' = "over"
    /\ engine' = IF mode = "windows" THEN {} ELSE engine
    /\ UNCHANGED <<mode, sound, terminal, leaving, launch, known, orphans>>

(* main returns when tui.Run has, wherever App.Stop is by then. *)
MainReturns == Alive /\ leaving /\ Over /\ UNCHANGED saga

(* The Q key: the statistics are saved and Bubble Tea quits. *)
QuitKey ==
    /\ program = "running" /\ terminal /\ Over
    /\ saga' = [saga EXCEPT !.quit = TRUE]

Killed == Alive /\ Over /\ UNCHANGED saga

StartAgain ==
    /\ program = "over" /\ saga.lives < MaxReboots
    /\ program' = "running" /\ leaving' = FALSE /\ launch' = "new"
    /\ orphans' = orphans \cup engine /\ engine' = {} /\ known' = {}
    /\ saga' = NewSaga(saga.lives + 1)
    /\ UNCHANGED <<mode, sound, terminal>>

RunnerNext ==
    \/ ContainerClears \/ ContainerRuns \/ DirectRunsRay \/ WindowsPrepares
    \/ WaitOver \/ RunVllm \/ ExecVllm \/ LaunchFails \/ StartFails
    \/ RayDies \/ VllmDies
    \/ Signal \/ RunnerStops \/ Cancel \/ MainReturns \/ QuitKey \/ Killed \/ StartAgain

RunnerSpec == RunnerInit /\ [][RunnerNext]_runnerVars

-----------------------------------------------------------------------------
(* Properties *)

(* Once Runner.Stop has run nothing of the engine holds GPU memory, now or *)
(* later (runner.go:62), unless it ran before Start was done (runner.go:61 *)
(* finds no vLLM to kill) or vLLM's main process had ended by itself and   *)
(* left its workers (process_unix.go:47).                                  *)
StopLeavesNothing == saga.stopped /\ ~saga.raced /\ ~saga.died => engine = {}

(* A program that goes on running with its files in place comes to have a  *)
(* vLLM, whatever end an earlier life had and whatever container it left   *)
(* (runner.go:132), as long as nothing fails to start and neither Ray nor  *)
(* vLLM ends by itself.  Without a container only if no process of an      *)
(* earlier life is left: such a one keeps the GPU memory (runner.go:62).   *)
Unhurt == ~saga.mishap /\ ~saga.died /\ (mode = "direct" => orphans = {})

EngineComesBack ==
    [](sound /\ <>[](program = "running" /\ Unhurt) => <>[](Vllm \subseteq engine))

-----------------------------------------------------------------------------
(* Claims of the code's comments that its behaviour does not bear out. *)

(* Runner.Stop ends the whole process trees so as not to leave "orphans    *)
(* that hold GPU memory" (runner.go:62, process_unix.go:5).                *)
StopEndsEngine == saga.stopped /\ program = "over" => engine = {}

(* "when the user presses Q or a shutdown signal arrives, terminates the   *)
(* child processes or deletes the container" (runner.go:60).               *)
QuitStopsEngine == saga.quit => engine = {}
=============================================================================
