----------------------------- MODULE DesktopRunner -----------------------------
(***************************************************************************)
(* The collection runner of the desktop app: start_collection_run in Rust, *)
(* whose runs share one cancel flag, and the runner panel of the webview,  *)
(* which follows them by events that do not say which run they are from.   *)
(* The panel's component handles events only while its view is shown; its  *)
(* store lives on.                                                         *)
(*                                                                         *)
(* Requests are the positions 1..N of a run's list.  A response is whether *)
(* it ends the run and where it goes on.  The webview never sends data     *)
(* rows, so a run is one iteration; the delay between requests and the run *)
(* history are left out.  An unused definition is the form a plausible     *)
(* mistake would give the one after it.                                    *)
(***************************************************************************)
EXTENDS Naturals, Sequences

CONSTANTS Runs,             \* calls of start_collection_run
          N,                \* number of requests in a run
          Unsupported,      \* requests that are not HTTP: runner_skip_reason
          StepsPerRequest,  \* 10 in the code
          MaxEvents         \* bound: events on their way to the panel

Requests == 1 .. N
MaxSteps == StepsPerRequest * N

ASSUME ConstantsAssumption ==
    /\ N \in Nat \ {0}
    /\ StepsPerRequest \in Nat \ {0}
    /\ Unsupported \subseteq Requests
    /\ MaxEvents \in Nat \ {0}

VARIABLES
    flag,        \* RunnerRegistry
    cancelling,  \* a cancel_collection_run is on its way
    run,         \* the locals of every start_collection_run
    events,      \* emitted and not yet handled
    mounted,     \* the runner view is shown
    status,      \* runnerState.status
    rows,        \* the runs with results in runnerState.results
    latest,      \* history: the run last started
    told,        \* history: runs for which the flag was set, until it is cleared
    mixed,       \* history: a run was started beside another or its events
    lost         \* history: a run's end will not reach the panel

panel == <<mounted, status, rows>>
vars == <<flag, cancelling, run, events, panel, latest, told, mixed, lost>>

Phases == {"new", "asked", "loading", "loop", "waiting", "finish", "done"}
RunState == [phase: Phases, cursor: 1 .. N + 1, steps: 0 .. MaxSteps, results: 0 .. N]
NewRun == [phase |-> "new", cursor |-> 1, steps |-> 0, results |-> 0]
Over == [NewRun EXCEPT !.phase = "done"]
Event == [kind: {"result", "cancelled", "complete"}, run: Runs]

Init ==
    /\ flag = FALSE /\ cancelling = FALSE
    /\ run = [r \in Runs |-> NewRun]
    /\ events = <<>>
    /\ mounted = FALSE /\ status = "idle" /\ rows = {}
    /\ latest \in Runs
    /\ told = {} /\ mixed = FALSE /\ lost = FALSE

At(r, phase) == run[r].phase = phase
Active(r) == run[r].phase \in {"loading", "loop", "waiting", "finish"}
Underway == events # <<>> \/ \E r \in Runs : ~At(r, "new") /\ ~At(r, "done")
Emit(kind, r) ==
    /\ Len(events) < MaxEvents
    /\ events' = Append(events, [kind |-> kind, run |-> r])

----------------------------------------------------------------------------
(* The panel *)

\* "Run All" in the sidebar: initRunner, and the runner view is shown.
RunAll ==
    /\ mounted' = TRUE /\ status' = "idle" /\ rows' = {}
    /\ UNCHANGED <<flag, cancelling, run, events, latest, told, mixed, lost>>

RunAgain ==
    /\ mounted /\ status \in {"completed", "cancelled"}
    /\ status' = "idle" /\ rows' = {}
    /\ UNCHANGED <<flag, cancelling, run, events, mounted, latest, told, mixed, lost>>

SwitchView ==
    /\ mounted' = ~mounted
    /\ UNCHANGED <<flag, cancelling, run, events, status, rows, latest, told, mixed, lost>>

KeepsRows == rows
ClearsRows == {}

\* Run, or Retry Failed after a run: setRunning, and the command is invoked.
RunClicked(r) ==
    /\ mounted /\ status # "running"
    /\ At(r, "new")
    /\ status' = "running" /\ rows' = ClearsRows
    /\ run' = [run EXCEPT ![r].phase = "asked"]
    /\ latest' = r
    /\ mixed' = (mixed \/ Underway)
    /\ lost' = FALSE
    /\ UNCHANGED <<flag, cancelling, events, mounted, told>>

CancelClicked ==
    /\ mounted /\ status = "running"
    /\ cancelling' = TRUE
    /\ UNCHANGED <<flag, run, events, panel, latest, told, mixed, lost>>

CancelArrives ==
    /\ cancelling
    /\ cancelling' = FALSE
    /\ flag' = TRUE
    /\ told' = told \cup {r \in Runs : Active(r)}
    /\ UNCHANGED <<run, events, panel, latest, mixed, lost>>

\* The panel's handler; a view that is not shown has none.
Handle ==
    LET ev == Head(events) IN
    /\ events # <<>>
    /\ events' = Tail(events)
    /\ IF ~mounted
       THEN /\ lost' = (lost \/ ev.kind # "result")
            /\ UNCHANGED <<status, rows>>
       ELSE /\ rows' = IF ev.kind = "result" THEN rows \cup {ev.run} ELSE rows
            /\ status' = CASE ev.kind = "result" -> status
                           [] ev.kind = "complete" -> "completed"
                           [] ev.kind = "cancelled" -> "cancelled"
            /\ UNCHANGED lost
    /\ UNCHANGED <<flag, cancelling, run, mounted, latest, told, mixed>>

----------------------------------------------------------------------------
(* start_collection_run *)

\* The command begins: it clears the flag that all runs look at.
Begin(r) ==
    /\ At(r, "asked")
    /\ flag' = FALSE
    /\ told' = {}
    /\ run' = [run EXCEPT ![r].phase = "loading"]
    /\ UNCHANGED <<cancelling, events, panel, latest, mixed, lost>>

Loaded(r) ==
    /\ At(r, "loading")
    /\ run' = [run EXCEPT ![r].phase = "loop"]
    /\ UNCHANGED <<flag, cancelling, events, panel, latest, told, mixed, lost>>

\* The collection is not on disk, or cannot be read: only an error is shown.
StartFails(r) ==
    /\ At(r, "loading")
    /\ run' = [run EXCEPT ![r] = Over]
    /\ lost' = TRUE
    /\ UNCHANGED <<flag, cancelling, events, panel, latest, told, mixed>>

\* No HTTP client: the run is complete with every request failed.
NoClient(r) ==
    /\ At(r, "loop") /\ run[r].steps = 0
    /\ Emit("complete", r)
    /\ run' = [run EXCEPT ![r] = Over]
    /\ UNCHANGED <<flag, cancelling, panel, latest, told, mixed, lost>>

LateGuard(r) == run[r].steps > MaxSteps
LoopGuard(r) == run[r].steps = MaxSteps
LooksAway(r) == FALSE
SeesFlag(r) == flag

LeavesLoop(r) ==
    /\ At(r, "loop")
    /\ run[r].cursor > N \/ LoopGuard(r) \/ SeesFlag(r)
    /\ run' = [run EXCEPT ![r].phase = "finish"]
    /\ UNCHANGED <<flag, cancelling, events, panel, latest, told, mixed, lost>>

GoesOn(r) ==
    /\ At(r, "loop")
    /\ run[r].cursor \in Requests /\ ~LoopGuard(r) /\ ~SeesFlag(r)

\* Results are counted up to N: all that is asked of them is whether there are fewer.
OneMore(r) == IF run[r].results = N THEN N ELSE run[r].results + 1

Skips(r) ==
    /\ GoesOn(r) /\ run[r].cursor \in Unsupported
    /\ Emit("result", r)
    /\ run' = [run EXCEPT ![r].steps = run[r].steps + 1, ![r].results = OneMore(r),
                          ![r].cursor = @ + 1]
    /\ UNCHANGED <<flag, cancelling, panel, latest, told, mixed, lost>>

Sends(r) ==
    /\ GoesOn(r) /\ run[r].cursor \notin Unsupported
    /\ run' = [run EXCEPT ![r].steps = run[r].steps + 1, ![r].phase = "waiting"]
    /\ UNCHANGED <<flag, cancelling, events, panel, latest, told, mixed, lost>>

StepsReset(r) == 0
StepsKept(r) == run[r].steps

\* The answer, or its error.  A failure may end the run (stop_on_failure), as may a
\* script; otherwise next is where a script jumps to, or the request that follows.
Answered(r, ends, next) ==
    /\ At(r, "waiting")
    /\ Emit("result", r)
    /\ run' = [run EXCEPT ![r].phase = IF ends THEN "finish" ELSE "loop",
                          ![r].cursor = next, ![r].steps = StepsKept(r),
                          ![r].results = OneMore(r)]
    /\ UNCHANGED <<flag, cancelling, panel, latest, told, mixed, lost>>

CancelsSilently(r) ==
    IF flag /\ run[r].results < N THEN UNCHANGED events ELSE Emit("complete", r)
TellsEnd(r) == Emit(IF flag /\ run[r].results < N THEN "cancelled" ELSE "complete", r)

Finish(r) ==
    /\ At(r, "finish")
    /\ TellsEnd(r)
    /\ run' = [run EXCEPT ![r] = Over]
    /\ UNCHANGED <<flag, cancelling, panel, latest, told, mixed, lost>>

RunStep(r) ==
    \/ Begin(r) \/ Loaded(r) \/ StartFails(r) \/ NoClient(r)
    \/ LeavesLoop(r) \/ Skips(r) \/ Sends(r)
    \/ \E ends \in BOOLEAN, next \in 1 .. N + 1 : Answered(r, ends, next)
    \/ Finish(r)

Next ==
    \/ RunAll \/ RunAgain \/ SwitchView
    \/ \E r \in Runs : RunClicked(r)
    \/ CancelClicked \/ CancelArrives
    \/ Handle
    \/ \E r \in Runs : RunStep(r)

\* Commands run, requests have a timeout, and the webview handles its events.
Fairness ==
    /\ \A r \in Runs : WF_vars(RunStep(r))
    /\ WF_vars(Handle)
    /\ WF_vars(CancelArrives)

Spec == Init /\ [][Next]_vars /\ Fairness

----------------------------------------------------------------------------
(* Properties *)

TypeOK ==
    /\ flag \in BOOLEAN /\ cancelling \in BOOLEAN
    /\ run \in [Runs -> RunState]
    /\ events \in Seq(Event)
    /\ mounted \in BOOLEAN
    /\ status \in {"idle", "running", "completed", "cancelled"}
    /\ rows \in SUBSET Runs /\ latest \in Runs /\ told \in SUBSET Runs
    /\ mixed \in BOOLEAN /\ lost \in BOOLEAN

\* Whatever jumps the scripts ask for, every run comes to its end.
RunsEnd == \A r \in Runs : At(r, "asked") ~> At(r, "done")

\* A run that was cancelled sends nothing more, but for the request that is out,
\* unless the start of another run takes the cancel back.
SoloCancelStops ==
    [][\A r \in told : At(r, "waiting") \/ run'[r].phase # "waiting"]_vars

\* The results that the panel shows are those of the run started last, unless that
\* one was started while another was not over or had not been shown to its end.
OneRunShown == ~mixed => rows \subseteq {latest}

\* The panel does not stay at "running" for a run that is over, unless the start
\* failed or the run ended while another view was shown.
PanelLeavesRunning == (status = "running" /\ ~lost) ~> (status # "running" \/ lost)
=============================================================================
