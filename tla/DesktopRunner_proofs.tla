------------------------- MODULE DesktopRunner_proofs -------------------------
(***************************************************************************)
(* Proofs about DesktopRunner for any number of runs, requests and steps.  *)
(* FlagInv is why a cancel that nothing takes back is seen: the flag stays *)
(* up as long as a run is told.  MixInv says what the panel relies on: of  *)
(* the runs but the last started, none is under way and no event is left.  *)
(***************************************************************************)
EXTENDS DesktopRunner, SequenceTheorems, TLAPS

FlagInv == told # {} => flag

MixInv ==
    ~mixed =>
        /\ rows \subseteq {latest}
        /\ \A i \in 1 .. Len(events) : events[i].run = latest
        /\ \A r \in Runs \ {latest} : At(r, "new") \/ At(r, "done")

-----------------------------------------------------------------------------
\* The bound of the step guard is a number of steps.
LEMMA MaxStepsIsNat == MaxSteps \in Nat
  BY ConstantsAssumption DEF MaxSteps

\* What the steps make of the record of a run.
LEMMA RunStates ==
    /\ NewRun \in RunState /\ Over \in RunState
    /\ \A s \in RunState, p \in Phases : [s EXCEPT !.phase = p] \in RunState
    /\ \A s \in RunState : s.steps < MaxSteps =>
          /\ [s EXCEPT !.steps = s.steps + 1, !.phase = "waiting"] \in RunState
          /\ \A n \in 0 .. N : s.cursor \in Requests =>
                [s EXCEPT !.steps = s.steps + 1, !.results = n,
                          !.cursor = s.cursor + 1] \in RunState
    /\ \A s \in RunState, p \in Phases, c \in 1 .. N + 1, n \in 0 .. N :
          [s EXCEPT !.phase = p, !.cursor = c, !.steps = s.steps, !.results = n] \in RunState
<1> USE ConstantsAssumption, MaxStepsIsNat
<1>1. NewRun \in RunState /\ Over \in RunState
  BY DEF RunState, NewRun, Over, Phases
<1>2. \A s \in RunState, p \in Phases : [s EXCEPT !.phase = p] \in RunState
  BY DEF RunState
<1>3. ASSUME NEW s \in RunState, s.steps < MaxSteps
      PROVE  [s EXCEPT !.steps = s.steps + 1, !.phase = "waiting"] \in RunState
  <2>1. s.steps + 1 \in 0 .. MaxSteps /\ "waiting" \in Phases
    BY <1>3 DEF RunState, Phases
  <2> QED
    BY <2>1 DEF RunState
<1>4. ASSUME NEW s \in RunState, s.steps < MaxSteps, NEW n \in 0 .. N, s.cursor \in Requests
      PROVE  [s EXCEPT !.steps = s.steps + 1, !.results = n,
                       !.cursor = s.cursor + 1] \in RunState
  <2>1. s.steps + 1 \in 0 .. MaxSteps /\ s.cursor + 1 \in 1 .. N + 1
    BY <1>4 DEF RunState, Requests
  <2> QED
    BY <2>1 DEF RunState
<1>5. \A s \in RunState, p \in Phases, c \in 1 .. N + 1, n \in 0 .. N :
          [s EXCEPT !.phase = p, !.cursor = c, !.steps = s.steps, !.results = n] \in RunState
  BY DEF RunState
<1> QED
  BY <1>1, <1>2, <1>3, <1>4, <1>5

\* An event that is emitted is appended; one that is handled is the first.
LEMMA Queued ==
  ASSUME NEW r \in Runs, NEW kind \in {"result", "cancelled", "complete"},
         events \in Seq(Event), Emit(kind, r)
  PROVE  /\ events' \in Seq(Event)
         /\ \A i \in 1 .. Len(events') :
               events'[i].run = r \/ (i \in 1 .. Len(events) /\ events'[i] = events[i])
<1>1. [kind |-> kind, run |-> r] \in Event
  BY DEF Event
<1>2. /\ Len(events') = Len(events) + 1
      /\ \A i \in 1 .. Len(events) : events'[i] = events[i]
      /\ events'[Len(events) + 1] = [kind |-> kind, run |-> r]
      /\ events' \in Seq(Event)
  BY <1>1 DEF Emit
<1> QED
  BY <1>2

\* The types of all variables.
LEMMA TypeInductive == TypeOK /\ [Next]_vars => TypeOK'
<1> SUFFICES ASSUME TypeOK, [Next]_vars PROVE TypeOK'
  OBVIOUS
<1> USE ConstantsAssumption DEF TypeOK, panel
<1>1. CASE UNCHANGED vars
  BY <1>1 DEF vars
<1>2. CASE RunAll \/ RunAgain \/ SwitchView
  BY <1>2 DEF RunAll, RunAgain, SwitchView
<1>3. ASSUME NEW r \in Runs, RunClicked(r) PROVE TypeOK'
  <2>1. run' = [run EXCEPT ![r] = [run[r] EXCEPT !.phase = "asked"]]
    BY <1>3 DEF RunClicked
  <2>2. run' \in [Runs -> RunState]
    BY <2>1, RunStates DEF Phases
  <2> QED
    BY <1>3, <2>2 DEF RunClicked, ClearsRows
<1>4. CASE CancelClicked \/ CancelArrives
  BY <1>4 DEF CancelClicked, CancelArrives
<1>5. CASE Handle
  <2>1. Head(events) \in Event /\ Tail(events) \in Seq(Event)
    BY <1>5 DEF Handle
  <2> QED
    BY <1>5, <2>1 DEF Handle, Event
<1>6. ASSUME NEW r \in Runs, RunStep(r) PROVE TypeOK'
  <2> run[r] \in RunState
    OBVIOUS
  <2>1. CASE Begin(r)
    <3>1. run' = [run EXCEPT ![r] = [run[r] EXCEPT !.phase = "loading"]]
      BY <2>1 DEF Begin
    <3>2. run' \in [Runs -> RunState]
      BY <3>1, RunStates DEF Phases
    <3> QED
      BY <2>1, <3>2 DEF Begin
  <2>2. CASE Loaded(r)
    <3>1. run' = [run EXCEPT ![r] = [run[r] EXCEPT !.phase = "loop"]]
      BY <2>2 DEF Loaded
    <3>2. run' \in [Runs -> RunState]
      BY <3>1, RunStates DEF Phases
    <3> QED
      BY <2>2, <3>2 DEF Loaded
  <2>3. CASE StartFails(r)
    BY <2>3, RunStates DEF StartFails
  <2>4. CASE NoClient(r)
    BY <2>4, RunStates, Queued DEF NoClient
  <2>5. CASE LeavesLoop(r)
    <3>1. run' = [run EXCEPT ![r] = [run[r] EXCEPT !.phase = "finish"]]
      BY <2>5 DEF LeavesLoop
    <3>2. run' \in [Runs -> RunState]
      BY <3>1, RunStates DEF Phases
    <3> QED
      BY <2>5, <3>2 DEF LeavesLoop
  <2>6. ASSUME GoesOn(r) PROVE run[r].steps < MaxSteps
    BY <2>6, MaxStepsIsNat DEF GoesOn, LoopGuard, RunState
  <2>7. OneMore(r) \in 0 .. N
    BY DEF OneMore, RunState
  <2>8. CASE Skips(r)
    <3>1. run' = [run EXCEPT ![r] = [run[r] EXCEPT !.steps = run[r].steps + 1,
                     !.results = OneMore(r), !.cursor = run[r].cursor + 1]]
      BY <2>8 DEF Skips
    <3>2. GoesOn(r) /\ run[r].cursor \in Requests
      BY <2>8 DEF Skips, GoesOn
    <3>3. [run[r] EXCEPT !.steps = run[r].steps + 1, !.results = OneMore(r),
                         !.cursor = run[r].cursor + 1] \in RunState
      BY <2>6, <2>7, <3>2, RunStates
    <3>4. run' \in [Runs -> RunState]
      BY <3>1, <3>3
    <3> QED
      BY <2>8, <3>4, Queued DEF Skips
  <2>9. CASE Sends(r)
    <3>1. run' = [run EXCEPT ![r] = [run[r] EXCEPT !.steps = run[r].steps + 1,
                                                   !.phase = "waiting"]]
      BY <2>9 DEF Sends
    <3>2. run' \in [Runs -> RunState]
      BY <2>6, <2>9, <3>1, RunStates DEF Sends
    <3> QED
      BY <2>9, <3>2 DEF Sends
  <2>10. ASSUME NEW ends \in BOOLEAN, NEW next \in 1 .. N + 1, Answered(r, ends, next)
         PROVE  TypeOK'
    <3> DEFINE p == IF ends THEN "finish" ELSE "loop"
    <3>1. run' = [run EXCEPT ![r] = [run[r] EXCEPT !.phase = p, !.cursor = next,
                     !.steps = run[r].steps, !.results = OneMore(r)]]
      BY <2>10 DEF Answered, StepsKept
    <3>2. run' \in [Runs -> RunState]
      BY <2>7, <3>1, RunStates DEF Phases
    <3> QED
      BY <2>10, <3>2, Queued DEF Answered
  <2>11. CASE Finish(r)
    BY <2>11, RunStates, Queued DEF Finish, TellsEnd
  <2> QED
    BY <1>6, <2>1, <2>2, <2>3, <2>4, <2>5, <2>8, <2>9, <2>10, <2>11 DEF RunStep
<1> QED
  BY <1>1, <1>2, <1>3, <1>4, <1>5, <1>6 DEF Next

\* The initial states have the types.
LEMMA TypeInit == Init => TypeOK
<1> SUFFICES ASSUME Init PROVE TypeOK
  OBVIOUS
<1>1. run \in [Runs -> RunState]
  BY RunStates DEF Init
<1>2. events \in Seq(Event)
  BY DEF Init
<1> QED
  BY <1>1, <1>2 DEF Init, TypeOK

\* Type correctness of the runner and its panel.
THEOREM TypeCorrect == Spec => []TypeOK
<1>1. Init => TypeOK
  BY TypeInit
<1>2. TypeOK /\ [Next]_vars => TypeOK'
  BY TypeInductive
<1> QED
  BY <1>1, <1>2, PTL DEF Spec
-----------------------------------------------------------------------------
\* While a run is told to stop, the flag it looks at stays up.
LEMMA FlagInductive == FlagInv /\ [Next]_vars => FlagInv'
<1> SUFFICES ASSUME FlagInv, [Next]_vars PROVE FlagInv'
  OBVIOUS
<1> USE DEF FlagInv
<1>1. CASE UNCHANGED vars
  BY <1>1 DEF vars
<1>2. CASE RunAll \/ RunAgain \/ SwitchView \/ CancelClicked \/ CancelArrives \/ Handle
  BY <1>2 DEF RunAll, RunAgain, SwitchView, CancelClicked, CancelArrives, Handle
<1>3. ASSUME NEW r \in Runs, RunClicked(r) PROVE FlagInv'
  BY <1>3 DEF RunClicked
<1>4. ASSUME NEW r \in Runs, RunStep(r) PROVE FlagInv'
  BY <1>4 DEF RunStep, Begin, Loaded, StartFails, NoClient, LeavesLoop, Skips, Sends,
              Answered, Finish
<1> QED
  BY <1>1, <1>2, <1>3, <1>4 DEF Next

\* A step from a state with the flag invariant sends nothing for a run told to stop.
LEMMA ToldSendsNothing ==
  ASSUME FlagInv, TypeOK, [Next]_vars, NEW k \in told
  PROVE  At(k, "waiting") \/ run'[k].phase # "waiting"
<1> USE DEF At
<1> flag /\ k \in Runs /\ run \in [Runs -> RunState]
  BY DEF FlagInv, TypeOK
<1> SUFFICES ASSUME run[k].phase # "waiting" PROVE run'[k].phase # "waiting"
  OBVIOUS
<1>1. CASE UNCHANGED vars
  BY <1>1 DEF vars
<1>2. CASE RunAll \/ RunAgain \/ SwitchView \/ CancelClicked \/ CancelArrives \/ Handle
  BY <1>2 DEF RunAll, RunAgain, SwitchView, CancelClicked, CancelArrives, Handle
<1>3. ASSUME NEW r \in Runs, RunClicked(r) PROVE run'[k].phase # "waiting"
  BY <1>3 DEF RunClicked
<1>4. ASSUME NEW r \in Runs, RunStep(r) PROVE run'[k].phase # "waiting"
  <2>1. ~GoesOn(r)
    BY DEF GoesOn, SeesFlag
  <2>2. CASE Begin(r) \/ Loaded(r) \/ LeavesLoop(r)
    <3>1. PICK p \in {"loading", "loop", "finish"} :
             run' = [run EXCEPT ![r] = [run[r] EXCEPT !.phase = p]]
      BY <2>2 DEF Begin, Loaded, LeavesLoop
    <3>2. k = r => run'[k].phase = p
      BY <3>1 DEF RunState
    <3> QED
      BY <3>1, <3>2
  <2>3. CASE StartFails(r) \/ NoClient(r) \/ Finish(r)
    <3>1. run' = [run EXCEPT ![r] = Over]
      BY <2>3 DEF StartFails, NoClient, Finish
    <3>2. Over.phase = "done"
      BY DEF Over, NewRun
    <3> QED
      BY <3>1, <3>2
  <2>4. ASSUME NEW ends \in BOOLEAN, NEW next \in 1 .. N + 1, Answered(r, ends, next)
        PROVE  run'[k].phase # "waiting"
    BY <2>4 DEF Answered
  <2> QED
    BY <1>4, <2>1, <2>2, <2>3, <2>4 DEF RunStep, Skips, Sends
<1> QED
  BY <1>1, <1>2, <1>3, <1>4 DEF Next

\* A cancel that no later start takes back stops the run: nothing more is sent, for
\* any number of runs and requests.
THEOREM CancelStops == Spec => SoloCancelStops
<1>1. Init => TypeOK /\ FlagInv
  BY TypeInit DEF Init, FlagInv
<1>2. TypeOK /\ FlagInv /\ [Next]_vars => (TypeOK /\ FlagInv)'
  BY TypeInductive, FlagInductive
<1>3. TypeOK /\ FlagInv /\ [Next]_vars
         => [\A r \in told : At(r, "waiting") \/ run'[r].phase # "waiting"]_vars
  BY ToldSendsNothing
<1> QED
  BY <1>1, <1>2, <1>3, PTL DEF Spec, SoloCancelStops
-----------------------------------------------------------------------------
\* Events of other runs are gone before a run is started that is not mixed.
LEMMA MixInductive == TypeOK /\ MixInv /\ [Next]_vars => MixInv'
<1> SUFFICES ASSUME TypeOK, MixInv, [Next]_vars, ~mixed' PROVE MixInv'
  BY DEF MixInv
<1> USE DEF At
<1> run \in [Runs -> RunState] /\ events \in Seq(Event)
  BY DEF TypeOK
<1>1. CASE UNCHANGED vars
  BY <1>1 DEF vars, panel, MixInv
<1>2. CASE RunAll \/ RunAgain \/ SwitchView \/ CancelClicked \/ CancelArrives
  BY <1>2 DEF RunAll, RunAgain, SwitchView, CancelClicked, CancelArrives, MixInv, panel
<1>3. ASSUME NEW r \in Runs, RunClicked(r) PROVE MixInv'
  <2>1. ~mixed /\ ~Underway
    BY <1>3 DEF RunClicked
  <2>2. events = <<>> /\ \A k \in Runs : run[k].phase \in {"new", "done"}
    BY <2>1 DEF Underway
  <2> QED
    BY <1>3, <2>2 DEF RunClicked, ClearsRows, MixInv
<1>4. CASE Handle
  <2>1. /\ Len(Tail(events)) = Len(events) - 1
        /\ \A i \in 1 .. Len(Tail(events)) : Tail(events)[i] = events[i + 1]
        /\ Len(events) \in Nat /\ Len(events) # 0
        /\ Head(events) = events[1]
    BY <1>4 DEF Handle
  <2>2. ~mixed /\ latest' = latest /\ run' = run /\ events' = Tail(events)
    BY <1>4 DEF Handle
  <2>3. \A i \in 1 .. Len(events') : events'[i].run = latest'
    BY <2>1, <2>2 DEF MixInv
  <2>4. Head(events).run = latest
    BY <2>1, <2>2 DEF MixInv
  <2>5. rows' \subseteq {latest}
    BY <1>4, <2>2, <2>4 DEF Handle, MixInv
  <2> QED
    BY <2>2, <2>3, <2>5 DEF MixInv
<1>5. ASSUME NEW r \in Runs, RunStep(r) PROVE MixInv'
  <2>1. ~mixed /\ UNCHANGED <<rows, latest>>
    <3>1. UNCHANGED <<mixed, latest>> /\ UNCHANGED panel
      BY <1>5 DEF RunStep, Begin, Loaded, StartFails, NoClient, LeavesLoop, Skips, Sends,
                  Answered, Finish
    <3> QED
      BY <3>1 DEF panel
  <2>2. run[r].phase \notin {"new", "done"}
    BY <1>5 DEF RunStep, Begin, Loaded, StartFails, NoClient, LeavesLoop, Skips, Sends,
                Answered, Finish, GoesOn
  <2>3. r = latest
    BY <2>1, <2>2 DEF MixInv
  <2>4. \A k \in Runs \ {r} : run'[k] = run[k]
    BY <1>5 DEF RunStep, Begin, Loaded, StartFails, NoClient, LeavesLoop, Skips, Sends,
                Answered, Finish
  <2>5. \/ UNCHANGED events
        \/ \E kind \in {"result", "cancelled", "complete"} : Emit(kind, r)
    BY <1>5 DEF RunStep, Begin, Loaded, StartFails, NoClient, LeavesLoop, Skips, Sends,
                Answered, Finish, TellsEnd
  <2>6. \A i \in 1 .. Len(events') : events'[i].run = latest
    BY <2>1, <2>3, <2>5, Queued DEF MixInv
  <2> QED
    BY <2>1, <2>3, <2>4, <2>6 DEF MixInv
<1> QED
  BY <1>1, <1>2, <1>3, <1>4, <1>5 DEF Next

\* The results shown are all of the run started last, unless runs were mixed.
THEOREM ShowsOneRun == Spec => []OneRunShown
<1>1. Init => TypeOK /\ MixInv
  BY TypeInit DEF Init, MixInv, At, NewRun
<1>2. TypeOK /\ MixInv /\ [Next]_vars => (TypeOK /\ MixInv)'
  BY TypeInductive, MixInductive
<1>3. MixInv => OneRunShown
  BY DEF MixInv, OneRunShown
<1> QED
  BY <1>1, <1>2, <1>3, PTL DEF Spec
-----------------------------------------------------------------------------
(* A run takes finitely many steps.                                        *)

\* The steps a run has left: a visit takes two (send, answer), and LoopGuard is what
\* bounds the visits, wherever the scripts jump.
Left(c) ==
    CASE c.phase = "new" -> 2 * MaxSteps + 5
      [] c.phase = "asked" -> 2 * MaxSteps + 4
      [] c.phase = "loading" -> 2 * MaxSteps + 3
      [] c.phase = "loop" -> 2 * (MaxSteps - c.steps) + 2
      [] c.phase = "waiting" -> 2 * (MaxSteps - c.steps) + 3
      [] c.phase = "finish" -> 1
      [] c.phase = "done" -> 0

LEMMA LeftIsNat ==
  ASSUME NEW c \in RunState
  PROVE  Left(c) \in Nat
<1>1. c.steps \in 0 .. MaxSteps /\ MaxSteps \in Nat /\ c.phase \in Phases
  BY MaxStepsIsNat DEF RunState
<1> QED
  BY <1>1 DEF Left, Phases

\* Every step of a run lowers what it has left.
LEMMA StepLeft ==
  ASSUME TypeOK, NEW r \in Runs, RunClicked(r) \/ RunStep(r)
  PROVE  Left(run'[r]) < Left(run[r])
<1> DEFINE c == run[r]
           d == run'[r]
<1>0. run \in [Runs -> RunState] /\ c \in RunState
  BY DEF TypeOK
<1>1. c.steps \in Nat /\ c.steps <= MaxSteps /\ MaxSteps \in Nat
  BY <1>0, MaxStepsIsNat DEF RunState
<1>2. CASE RunClicked(r) \/ Begin(r) \/ Loaded(r)
  <2>1. \/ c.phase = "new" /\ d = [c EXCEPT !.phase = "asked"]
        \/ c.phase = "asked" /\ d = [c EXCEPT !.phase = "loading"]
        \/ c.phase = "loading" /\ d = [c EXCEPT !.phase = "loop"]
    BY <1>0, <1>2 DEF RunClicked, Begin, Loaded, At
  <2>2. /\ d.steps = c.steps
        /\ \/ c.phase = "new" /\ d.phase = "asked"
           \/ c.phase = "asked" /\ d.phase = "loading"
           \/ c.phase = "loading" /\ d.phase = "loop"
    BY <1>0, <2>1 DEF RunState
  <2> HIDE DEF d
  <2>3. Left(d) < Left(c)
    BY <1>1, <2>2 DEF Left
  <2> QED
    BY <2>3 DEF d
<1>3. CASE StartFails(r) \/ NoClient(r) \/ Finish(r)
  <2>1. c.phase \in {"loading", "loop", "finish"} /\ d = Over
    BY <1>0, <1>3 DEF StartFails, NoClient, Finish, At
  <2>2. Over.phase = "done"
    BY DEF Over, NewRun
  <2> HIDE DEF d
  <2>3. Left(d) = 0
    BY <2>1, <2>2 DEF Left
  <2>4. Left(c) > 0
    BY <1>1, <2>1 DEF Left
  <2> QED
    BY <2>3, <2>4 DEF d
<1>4. CASE LeavesLoop(r)
  <2>1. c.phase = "loop" /\ d = [c EXCEPT !.phase = "finish"]
    BY <1>0, <1>4 DEF LeavesLoop, At
  <2>2. d.phase = "finish"
    BY <1>0, <2>1 DEF RunState
  <2> HIDE DEF d
  <2>3. Left(d) < Left(c)
    BY <1>1, <2>1, <2>2 DEF Left
  <2> QED
    BY <2>3 DEF d
<1>5. CASE Skips(r) \/ Sends(r)
  <2>1. c.phase = "loop" /\ c.steps # MaxSteps
    BY <1>5 DEF Skips, Sends, GoesOn, LoopGuard, At
  <2> DEFINE s == c.steps + 1
             n == OneMore(r)
             i == c.cursor + 1
  <2>2. \/ d = [c EXCEPT !.steps = s, !.results = n, !.cursor = i]
        \/ d = [c EXCEPT !.steps = s, !.phase = "waiting"]
    BY <1>0, <1>5 DEF Skips, Sends
  <2> HIDE DEF s, n, i
  <2>3. d.steps = s /\ d.phase \in {"loop", "waiting"}
    BY <1>0, <2>1, <2>2 DEF RunState
  <2> HIDE DEF d
  <2>4. Left(d) < Left(c)
    BY <1>1, <2>1, <2>3 DEF Left, s
  <2> QED
    BY <2>4 DEF d
<1>6. ASSUME NEW ends \in BOOLEAN, NEW next \in 1 .. N + 1, Answered(r, ends, next)
      PROVE  Left(d) < Left(c)
  <2> DEFINE p == IF ends THEN "finish" ELSE "loop"
             n == OneMore(r)
  <2>1. /\ c.phase = "waiting"
        /\ d = [c EXCEPT !.phase = p, !.cursor = next, !.steps = c.steps, !.results = n]
    BY <1>0, <1>6 DEF Answered, StepsKept, At
  <2> HIDE DEF n
  <2>2. d.phase \in {"finish", "loop"} /\ d.steps = c.steps
    BY <1>0, <2>1 DEF RunState
  <2> HIDE DEF d
  <2> QED
    BY <1>1, <2>1, <2>2 DEF Left
<1> QED
  BY <1>2, <1>3, <1>4, <1>5, <1>6 DEF RunStep

\* Only its own steps change a run.
LEMMA OtherRuns ==
  ASSUME TypeOK, Next, NEW r \in Runs, ~(RunClicked(r) \/ RunStep(r))
  PROVE  run'[r] = run[r]
<1>1. CASE RunAll \/ RunAgain \/ SwitchView \/ CancelClicked \/ CancelArrives \/ Handle
  BY <1>1 DEF RunAll, RunAgain, SwitchView, CancelClicked, CancelArrives, Handle
<1>2. ASSUME NEW q \in Runs, RunClicked(q) \/ RunStep(q) PROVE run'[r] = run[r]
  <2>1. q # r
    BY <1>2
  <2> QED
    BY <1>2, <2>1 DEF TypeOK, RunClicked, RunStep, Begin, Loaded, StartFails, NoClient,
       LeavesLoop, Skips, Sends, Answered, Finish
<1> QED
  BY <1>1, <1>2 DEF Next

\* What a run has left is a number that its click and its steps lower, and that
\* nothing else changes.
RunsShrink ==
    [][\A r \in Runs :
          /\ RunClicked(r) \/ RunStep(r) => Left(run'[r]) < Left(run[r])
          /\ ~(RunClicked(r) \/ RunStep(r)) => run'[r] = run[r]]_vars

\* A run takes at most 2 * StepsPerRequest * N + 4 steps once it was asked for,
\* whatever jumps its scripts ask for and whatever the panel and other runs do: the
\* half of RunsEnd that needs no fairness.
THEOREM RunsAlwaysShrink == Spec => [](\A r \in Runs : Left(run[r]) \in Nat) /\ RunsShrink
<1> DEFINE A == \A r \in Runs :
                  /\ RunClicked(r) \/ RunStep(r) => Left(run'[r]) < Left(run[r])
                  /\ ~(RunClicked(r) \/ RunStep(r)) => run'[r] = run[r]
           B == \A r \in Runs : Left(run[r]) \in Nat
<1>1. TypeOK => B
  BY LeftIsNat DEF TypeOK
<1>2. TypeOK /\ [Next]_vars => [A]_vars
  BY StepLeft, OtherRuns
<1> HIDE DEF B
<1>3. Spec => []B /\ [][A]_vars
  BY <1>1, <1>2, TypeCorrect, PTL DEF Spec
<1> QED
  BY <1>3 DEF B, RunsShrink
-----------------------------------------------------------------------------
(* What a panel that shows a run as running waits for.                     *)

Awaited(r) == At(r, "asked") \/ Active(r)
EndQueued == \E i \in 1 .. Len(events) : events[i].kind # "result"

\* A panel at "running" that was not cut off has a run under way or the event of a
\* run's end on its way: the half of PanelLeavesRunning that needs no fairness.
RunningIsBacked ==
    status = "running" /\ ~lost => EndQueued \/ \E r \in Runs : Awaited(r)

\* Events that were queued stay so when another is emitted.
LEMMA EmitKeepsEnd ==
  ASSUME NEW r \in Runs, NEW kind \in {"result", "cancelled", "complete"},
         events \in Seq(Event), Emit(kind, r)
  PROVE  EndQueued' <=> EndQueued \/ kind # "result"
<1> DEFINE e == [kind |-> kind, run |-> r]
<1>1. /\ Len(events') = Len(events) + 1 /\ Len(events) \in Nat
      /\ \A i \in 1 .. Len(events) : events'[i] = events[i]
      /\ events'[Len(events) + 1] = e /\ e.kind = kind
  <2>1. e \in Event
    BY DEF Event
  <2> QED
    BY <2>1 DEF Emit
<1> HIDE DEF e
<1> QED
  BY <1>1 DEF EndQueued

LEMMA BackedInductive == TypeOK /\ RunningIsBacked /\ [Next]_vars => RunningIsBacked'
<1> SUFFICES ASSUME TypeOK, RunningIsBacked, [Next]_vars, status' = "running", ~lost'
             PROVE  EndQueued' \/ \E r \in Runs : Awaited(r)'
  BY DEF RunningIsBacked
<1> USE DEF At
<1>0. run \in [Runs -> RunState] /\ events \in Seq(Event)
  BY DEF TypeOK
<1>1. CASE UNCHANGED <<run, events, status, lost>>
  BY <1>1 DEF RunningIsBacked, EndQueued, Awaited, Active
<1>2. CASE RunAll \/ RunAgain \/ SwitchView \/ CancelClicked \/ CancelArrives
  BY <1>1, <1>2 DEF RunAll, RunAgain, SwitchView, CancelClicked, CancelArrives, panel
<1>3. ASSUME NEW r \in Runs, RunClicked(r) PROVE \E q \in Runs : Awaited(q)'
  <2>1. run' = [run EXCEPT ![r] = [run[r] EXCEPT !.phase = "asked"]]
    BY <1>3 DEF RunClicked
  <2>2. run'[r].phase = "asked"
    BY <1>0, <2>1 DEF RunState
  <2> QED
    BY <2>2 DEF Awaited
<1>4. CASE Handle
  <2>1. /\ Len(Tail(events)) = Len(events) - 1 /\ Head(events) = events[1]
        /\ \A i \in 1 .. Len(Tail(events)) : Tail(events)[i] = events[i + 1]
        /\ Len(events) \in Nat /\ Len(events) # 0 /\ Head(events) \in Event
    BY <1>0, <1>4 DEF Handle
  <2>2. events' = Tail(events) /\ run' = run /\ status = "running" /\ ~lost
        /\ Head(events).kind = "result"
    <3>1. CASE mounted
      BY <1>4, <2>1, <3>1 DEF Handle, Event
    <3>2. CASE ~mounted
      BY <1>4, <3>2 DEF Handle
    <3> QED
      BY <3>1, <3>2
  <2>3. CASE EndQueued
    <3>1. PICK i \in 1 .. Len(events) : events[i].kind # "result"
      BY <2>3 DEF EndQueued
    <3>2. i - 1 \in 1 .. Len(events') /\ events'[i - 1] = events[i]
      BY <2>1, <2>2, <3>1
    <3> QED
      BY <3>1, <3>2 DEF EndQueued
  <2>4. CASE \E r \in Runs : Awaited(r)
    BY <2>2, <2>4 DEF Awaited, Active
  <2> QED
    BY <2>2, <2>3, <2>4 DEF RunningIsBacked
<1>5. ASSUME NEW r \in Runs, RunStep(r)
      PROVE  EndQueued' \/ \E q \in Runs : Awaited(q)'
  <2>1. CASE Begin(r) \/ Loaded(r) \/ LeavesLoop(r)
    <3>1. PICK p \in {"loading", "loop", "finish"} :
            run' = [run EXCEPT ![r] = [run[r] EXCEPT !.phase = p]]
      BY <2>1 DEF Begin, Loaded, LeavesLoop
    <3>2. run'[r].phase = p
      BY <1>0, <3>1 DEF RunState
    <3> QED
      BY <3>2 DEF Awaited, Active
  <2>2. CASE StartFails(r)
    BY <2>2 DEF StartFails
  <2>3. CASE NoClient(r) \/ Finish(r)
    <3>1. PICK kind \in {"cancelled", "complete"} : Emit(kind, r)
      BY <2>3 DEF NoClient, Finish, TellsEnd
    <3> QED
      BY <1>0, <3>1, EmitKeepsEnd
  <2>4. CASE Skips(r) \/ Sends(r)
    <3> DEFINE s == run[r].steps + 1
               n == OneMore(r)
               i == run[r].cursor + 1
    <3>1. \/ run' = [run EXCEPT ![r] = [run[r] EXCEPT !.steps = s, !.results = n,
                                                      !.cursor = i]]
          \/ run' = [run EXCEPT ![r] = [run[r] EXCEPT !.steps = s, !.phase = "waiting"]]
      BY <2>4 DEF Skips, Sends
    <3>2. run[r].phase = "loop"
      BY <2>4 DEF Skips, Sends, GoesOn
    <3> HIDE DEF s, n, i
    <3>3. run'[r].phase \in {"loop", "waiting"}
      BY <1>0, <3>1, <3>2 DEF RunState
    <3> QED
      BY <3>3 DEF Awaited, Active
  <2>5. ASSUME NEW ends \in BOOLEAN, NEW next \in 1 .. N + 1, Answered(r, ends, next)
        PROVE  \E q \in Runs : Awaited(q)'
    <3> DEFINE p == IF ends THEN "finish" ELSE "loop"
               n == OneMore(r)
    <3>1. run' = [run EXCEPT ![r] = [run[r] EXCEPT !.phase = p, !.cursor = next,
                     !.steps = run[r].steps, !.results = n]]
      BY <2>5 DEF Answered, StepsKept
    <3> HIDE DEF n
    <3>2. run'[r].phase \in {"finish", "loop"}
      BY <1>0, <3>1 DEF RunState
    <3> QED
      BY <3>2 DEF Awaited, Active
  <2> QED
    BY <1>5, <2>1, <2>2, <2>3, <2>4, <2>5 DEF RunStep
<1>6. CASE UNCHANGED vars
  BY <1>1, <1>6 DEF vars, panel
<1> QED
  BY <1>2, <1>3, <1>4, <1>5, <1>6 DEF Next

\* A panel that says "running" and was not cut off has a run asked for or under way, or
\* the event of an end on its way, for any number of runs, requests and events: what is
\* left to fairness is that runs move and events are handled.
THEOREM RunningAlwaysBacked == Spec => []RunningIsBacked
<1>1. Init => RunningIsBacked
  BY DEF Init, RunningIsBacked
<1> QED
  BY <1>1, BackedInductive, TypeCorrect, PTL DEF Spec
=============================================================================
