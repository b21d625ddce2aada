--------------------------- MODULE CollectionRunner ---------------------------
(***************************************************************************)
(* CollectionRunnerService: the one instance that the VS Code extension    *)
(* gives to every runner panel.  A run goes through its iterations; in an  *)
(* iteration it either visits its requests in order, with the jumps that   *)
(* scripts ask for, or sends them all at once.  The service keeps one      *)
(* abort controller and one set of collection variables for all its runs,  *)
(* and other code runs when a run awaits a script, a response or the delay *)
(* between two requests, and only then: a run in phase "next" has the      *)
(* event loop to itself.                                                   *)
(*                                                                         *)
(* Requests are the positions 1..N of the run's list.  A response is what  *)
(* the runner makes of it (passed, failed, or an exception), a script is   *)
(* the jump it asks for and whether it set a variable; a variable is the   *)
(* run and iteration that set it.  An unused definition is the form a      *)
(* plausible mistake would give the one after it.                          *)
(***************************************************************************)
EXTENDS Integers, FiniteSets

CONSTANTS Runs,         \* calls of runCollection, from any panel
          N,            \* number of requests in a run
          Iterations,   \* rows of the data file, or config.iterations
          Unsupported,  \* requests that are not HTTP: runnerSkipReason
          Configs,      \* the configurations a run may be started with
          NoController  \* null

Requests == 1 .. N

ASSUME ConstantsAssumption ==
    /\ N \in Nat \ {0}
    /\ Iterations \in Nat \ {0}
    /\ Unsupported \subseteq Requests
    /\ Configs \subseteq [parallel: BOOLEAN, stopOnFailure: BOOLEAN,
                         rows: BOOLEAN, delay: BOOLEAN]   \* dataRows, delayMs > 0
    /\ NoController \notin Runs

VARIABLES
    run,         \* the local variables of every runCollection call
    controller,  \* this.abortController, named by the run that made it
    aborted,     \* the controllers whose signal is aborted
    scoped,      \* the run whose collection variables are in _collectionVariables
    live,        \* variables set in the live environments of the extension
    cancelled    \* runs whose panel sent cancelCollectionRun or was closed

vars == <<run, controller, aborted, scoped, live, cancelled>>

Phases == {"idle", "next", "scripts", "waiting", "delay", "parallel", "ended"}
Controllers == Runs \cup {NoController}
Writes == Runs \X (1 .. Iterations)
MaxVisits == 3 * N      \* MAX_ITERATIONS

RunState == [phase: Phases,
             parallel: BOOLEAN, stopOnFailure: BOOLEAN,     \* config
             rows: BOOLEAN, delay: BOOLEAN,
             iter: 1 .. Iterations, index: 1 .. N + 1,
             visits: [Requests -> 0 .. 3], count: 0 .. MaxVisits,
             inflight: SUBSET Requests, signal: Controllers,
             env: SUBSET Writes,            \* the clone of a data-driven iteration
             done: Nat, skipped: Nat,       \* results, and the skipped among them
             failed: BOOLEAN, stopped: BOOLEAN]

NeverVisited == [i \in Requests |-> 0]
Idle == [phase |-> "idle", parallel |-> FALSE, stopOnFailure |-> FALSE,
         rows |-> FALSE, delay |-> FALSE, iter |-> 1, index |-> 1, visits |-> NeverVisited, count |-> 0,
         inflight |-> {}, signal |-> NoController, env |-> {},
         done |-> 0, skipped |-> 0, failed |-> FALSE, stopped |-> FALSE]

TypeOK ==
    /\ run \in [Runs -> RunState]
    /\ controller \in Controllers
    /\ aborted \in SUBSET Runs
    /\ scoped \in Controllers
    /\ live \in SUBSET Writes
    /\ cancelled \in SUBSET Runs

Init ==
    /\ run = [r \in Runs |-> Idle]
    /\ controller = NoController
    /\ aborted = {}
    /\ scoped = NoController
    /\ live = {}
    /\ cancelled = {}

Active(r) == run[r].phase \notin {"idle", "ended"}

\* this.abortController?.signal.aborted
SignalAborted == controller \in aborted

\* No run is between two of its awaits: the event loop takes the next callback.
AtAwait == \A q \in Runs : run[q].phase # "next"

-----------------------------------------------------------------------------
(* Iterations.                                                             *)

\* An iteration of a data-driven run works on a clone of the environments.  A
\* parallel one skips what it cannot send and sends the rest at once.
NewIteration(c, current) ==
    IF c.parallel
    THEN [c EXCEPT !.phase = "parallel", !.env = live,
                   !.inflight = Requests \ Unsupported, !.signal = current,
                   !.done = @ + Cardinality(Unsupported),
                   !.skipped = @ + Cardinality(Unsupported)]
    ELSE [c EXCEPT !.phase = "next", !.index = 1, !.visits = NeverVisited,
                   !.count = 0, !.env = live]

Configured(config) == [Idle EXCEPT !.parallel = config.parallel,
                                   !.stopOnFailure = config.stopOnFailure,
                                   !.rows = config.rows,
                                   !.delay = config.delay]

\* runCollection: the new run's controller and variables replace those in place.
\* RunnerPanelHandler.ts:53 starts no run of an empty list.
StartRun(r) ==
    /\ AtAwait
    /\ run[r].phase = "idle"
    /\ \E config \in Configs :
          run' = [run EXCEPT ![r] = NewIteration(Configured(config), r)]
    /\ controller' = r
    /\ scoped' = r
    /\ UNCHANGED <<aborted, live, cancelled>>

StopsOneShort(c) == c.stopped \/ SignalAborted \/ c.iter + 1 >= Iterations
ForgetsStop(c) == SignalAborted \/ c.iter = Iterations
LastIteration(c) == c.stopped \/ SignalAborted \/ c.iter = Iterations

\* The iteration is over: the next one starts, or the run ends and clears the
\* controller, whosever it is.
AfterIteration(r, c) ==
    IF LastIteration(c)
    THEN /\ run' = [run EXCEPT ![r] = [c EXCEPT !.phase = "ended",
                                   !.stopped = @ \/ (SignalAborted /\ c.iter < Iterations)]]
         /\ controller' = NoController
    ELSE /\ run' = [run EXCEPT ![r] = NewIteration([c EXCEPT !.iter = @ + 1], controller)]
         /\ UNCHANGED controller

-----------------------------------------------------------------------------
(* The sequential loop.                                                    *)

InLoop(c) == c.phase = "next" /\ c.index <= N /\ c.count < MaxVisits

NeverLoops(c) == FALSE
ForgivingLoops(c) == c.visits[c.index] + 1 > 3
Loops(c) == c.visits[c.index] + 1 >= 3

Visited(c) == [c EXCEPT !.count = @ + 1, !.visits[c.index] = @ + 1]

\* A request comes up for the third time, or the run was aborted.
BreaksOff(r) ==
    /\ InLoop(run[r])
    /\ Loops(run[r]) \/ SignalAborted
    /\ AfterIteration(r, [Visited(run[r]) EXCEPT !.stopped = TRUE])
    /\ UNCHANGED <<aborted, scoped, live, cancelled>>

SkipRequest(r) ==
    /\ InLoop(run[r])
    /\ ~Loops(run[r]) /\ ~SignalAborted
    /\ run[r].index \in Unsupported
    /\ run' = [run EXCEPT ![r] = [Visited(run[r]) EXCEPT !.done = @ + 1,
                                     !.skipped = @ + 1, !.index = @ + 1]]
    /\ UNCHANGED <<controller, aborted, scoped, live, cancelled>>

\* The request's pre-request scripts run.
RunScripts(r) ==
    /\ InLoop(run[r])
    /\ ~Loops(run[r]) /\ ~SignalAborted
    /\ run[r].index \notin Unsupported
    /\ run' = [run EXCEPT ![r] = [Visited(run[r]) EXCEPT !.phase = "scripts"]]
    /\ UNCHANGED <<controller, aborted, scoped, live, cancelled>>

\* Scripts and assertions set variables in the iteration's environments: in the
\* clone, or in the live ones, of which a run without rows has a shallow copy.
Wrote(r, c, sets) ==
    IF sets /\ c.rows THEN [c EXCEPT !.env = @ \cup {<<r, c.iter>>}] ELSE c
AliasesLive(r, sets) ==
    live' = IF sets THEN live \cup {<<r, run[r].iter>>} ELSE live
SetsLive(r, sets) ==
    live' = IF sets /\ ~run[r].rows THEN live \cup {<<r, run[r].iter>>} ELSE live

\* executeSingleRequest, with the signal of whatever controller is in place.
Send(r) ==
    /\ AtAwait
    /\ run[r].phase = "scripts"
    /\ \E sets \in BOOLEAN :
          /\ run' = [run EXCEPT ![r] =
                        [Wrote(r, @, sets) EXCEPT !.phase = "waiting",
                             !.signal = controller, !.inflight = {run[r].index}]]
          /\ SetsLive(r, sets)
    /\ UNCHANGED <<controller, aborted, scoped, cancelled>>

Outcomes == {"passed", "failed", "error"}

\* The result of a request is added to the results.
Counted(c, i, outcome) ==
    [c EXCEPT !.done = @ + 1, !.inflight = @ \ {i},
              !.failed = @ \/ outcome # "passed"]

StopsRun(c, outcome) == c.stopOnFailure /\ outcome # "passed"

\* The request at next is up, after the delay if the run has one.
GoesOn(c, next) ==
    [c EXCEPT !.phase = IF c.delay /\ next <= N /\ ~SignalAborted THEN "delay" ELSE "next",
              !.index = next, !.signal = NoController]

\* The response, its assertions and post-response scripts, and where to go next:
\* a jump needs a response, an exception goes on in order.
Respond(r) ==
    /\ AtAwait
    /\ run[r].phase = "waiting"
    /\ \E outcome \in Outcomes, sets \in BOOLEAN :
          LET c == Wrote(r, Counted(run[r], run[r].index, outcome), sets)
          IN  /\ SetsLive(r, sets)
              /\ IF outcome = "error" /\ SignalAborted
                 THEN AfterIteration(r, [run[r] EXCEPT !.stopped = TRUE])
                 ELSE IF StopsRun(c, outcome)
                 THEN AfterIteration(r, [c EXCEPT !.stopped = TRUE])
                 ELSE \E next \in {c.index + 1} \cup
                                  (IF outcome = "error" THEN {} ELSE Requests) :
                         /\ run' = [run EXCEPT ![r] = GoesOn(c, next)]
                         /\ UNCHANGED controller
    /\ UNCHANGED <<aborted, scoped, cancelled>>

\* The delay between two requests is over.
Wakes(r) ==
    /\ AtAwait
    /\ run[r].phase = "delay"
    /\ run' = [run EXCEPT ![r].phase = "next"]
    /\ UNCHANGED <<controller, aborted, scoped, live, cancelled>>

\* The end of the list, or the limit on the number of visits.
LeavesLoop(r) ==
    /\ run[r].phase = "next"
    /\ ~InLoop(run[r])
    /\ AfterIteration(r, [run[r] EXCEPT !.stopped = @ \/ run[r].count >= MaxVisits])
    /\ UNCHANGED <<aborted, scoped, live, cancelled>>

-----------------------------------------------------------------------------
(* The parallel branch, and Cancel.                                        *)

ParallelResult(r) ==
    /\ AtAwait
    /\ run[r].phase = "parallel"
    /\ \E i \in run[r].inflight, outcome \in Outcomes, sets \in BOOLEAN :
          /\ run' = [run EXCEPT ![r] = Wrote(r, Counted(@, i, outcome), sets)]
          /\ SetsLive(r, sets)
    /\ UNCHANGED <<controller, aborted, scoped, cancelled>>

AllFulfilled(c) == c.inflight = {} /\ ~c.failed
Settled(c) == c.inflight = {}

\* Promise.allSettled resolves.
AllSettled(r) ==
    /\ AtAwait
    /\ run[r].phase = "parallel"
    /\ Settled(run[r])
    /\ AfterIteration(r, run[r])
    /\ UNCHANGED <<aborted, scoped, live, cancelled>>

ForgetController == controller' = NoController /\ UNCHANGED aborted
AbortController == /\ aborted' = aborted \cup ({controller} \ {NoController})
                   /\ controller' = NoController

\* cancelCollectionRun from the panel of r, or that panel is closed, be it after
\* its run: the service aborts the controller it has and forgets it.
Cancel(r) ==
    /\ AtAwait
    /\ run[r].phase # "idle"
    /\ r \notin cancelled
    /\ cancelled' = cancelled \cup {r}
    /\ AbortController
    /\ UNCHANGED <<run, scoped, live>>

-----------------------------------------------------------------------------
Step(r) == \/ BreaksOff(r) \/ SkipRequest(r) \/ RunScripts(r) \/ Send(r)
           \/ Respond(r) \/ Wakes(r) \/ LeavesLoop(r)
           \/ ParallelResult(r) \/ AllSettled(r)

Next == \E r \in Runs : StartRun(r) \/ Step(r) \/ Cancel(r)

Spec == Init /\ [][Next]_vars

\* Scripts have a time limit, requests a timeout, and the delay is a timer.
Fairness == \A r \in Runs : WF_vars(Step(r))

FairSpec == Spec /\ Fairness

-----------------------------------------------------------------------------
(* Properties.                                                             *)

Ended(r) == run[r].phase = "ended"
Total == Iterations * N

\* Whatever jumps the scripts ask for, no request is sent a third time in one
\* iteration ...
NoThirdVisit ==
    \A r \in Runs :
        run[r].phase \in {"scripts", "waiting"} => run[r].visits[run[r].index] <= 2

\* ... and a sequential iteration breaks off before MAX_ITERATIONS could end it:
\* the limit is never what stops a run of more than one request.
VisitsBounded == NoThirdVisit /\ \A r \in Runs : run[r].count <= 2 * N + 1

\* Stop on first failure ends the whole run, remaining iterations included: the
\* failed request is the last one, and no other run or jump brings it back.
FailureIsLast ==
    \A r \in Runs :
        run[r].stopOnFailure /\ ~run[r].parallel /\ run[r].failed
            => Ended(r) /\ run[r].stopped

\* A parallel run that its own panel does not cancel sends every request of every
\* iteration exactly once, however responses, other runs and their cancels interleave.
ParallelCoversAll ==
    \A r \in Runs :
        run[r].parallel /\ Ended(r) /\ r \notin cancelled => run[r].done = Total

\* The clone of a data-driven iteration holds no variable that another iteration
\* or another data-driven run set, and the live environments hold none of theirs.
RowsIsolated ==
    /\ \A r \in Runs, w \in Writes :
          run[r].rows /\ w \in run[r].env => w = <<r, run[r].iter>> \/ ~run[w[1]].rows
    /\ \A w \in live : ~run[w[1]].rows

\* A run the user started comes to an end, whatever its scripts, its requests,
\* other runs and their cancels do.
RunsEnd == \A r \in Runs : Active(r) ~> Ended(r)

\* A run that was the only one so far has its waiting request aborted by Cancel.
SoloCancelAborts ==
    [][\A r \in Runs :
          /\ Cancel(r)
          /\ \A q \in Runs \ {r} : run[q].phase = "idle"
          /\ run[r].phase = "waiting"
          => run[r].signal \in aborted']_vars

\* collection-runner.md:31, "Click Cancel to stop the run": a run whose panel was
\* told to cancel does not go on to another request.
CancelStopsRun == [][\A r \in Runs : r \in cancelled => ~RunScripts(r)]_vars

\* RunnerPanelHandler.ts:94, "Clone to avoid mutating the live in-memory state":
\* no run changes the live environments.
LiveStateUntouched == live = {}

\* variable-substitution.md:49: collection variables apply only to requests saved
\* in that collection.
OwnCollectionVariables == [][\A r \in Runs : Send(r) => scoped = r]_vars
=============================================================================
