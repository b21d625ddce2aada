----------------------- MODULE CollectionRunner_bounds -----------------------
(***************************************************************************)
(* What a run of CollectionRunner can amount to, for any number of runs,   *)
(* requests and iterations: the steps it takes, the results it produces,   *)
(* what it does to the environments, and what cancelling it can do.  The   *)
(* theorems rest on the invariants of CollectionRunner_proofs.             *)
(***************************************************************************)
EXTENDS CollectionRunner_proofs

\* The steps an iteration has left.  A visit takes four at most (scripts, send,
\* response, delay), and VisitsBounded is what bounds the visits.
MostVisits == 2 * N + 1
PerIteration == 4 * MostVisits + 1

InIteration(c) ==
    CASE c.phase = "next" -> 4 * (MostVisits - c.count) + 1
      [] c.phase = "scripts" -> 4 * (MostVisits - c.count) + 4
      [] c.phase = "waiting" -> 4 * (MostVisits - c.count) + 3
      [] c.phase = "delay" -> 4 * (MostVisits - c.count) + 2
      [] OTHER -> Cardinality(c.inflight) + 1

\* The steps a run has left.
Left(c) ==
    CASE c.phase = "idle" -> Iterations * PerIteration + 1
      [] c.phase = "ended" -> 0
      [] OTHER -> (Iterations - c.iter) * PerIteration + InIteration(c)

Running(c) == c.phase \notin {"idle", "ended"}

-----------------------------------------------------------------------------
(* What the steps of a sequential run do to its counters.                  *)

\* A visit skips the request or runs its scripts.
LEMMA VisitShape ==
  ASSUME AllRunsInv, NEW r \in Runs, SkipRequest(r) \/ RunScripts(r)
  PROVE  LET b == run[r]
             d == run'[r]
         IN  /\ d.iter = b.iter /\ d.count = b.count + 1
             /\ \/ d.phase = "next" /\ d.done = b.done + 1
                \/ d.phase = "scripts" /\ d.done = b.done
  <1> DEFINE c == run[r]
             v == Visited(c)
  <1>1. RunInv(c) /\ InLoop(c) /\ c \in RunState
    BY DEF AllRunsInv, SkipRequest, RunScripts, RunInv
  <1>2. /\ v \in RunState /\ v.iter = c.iter /\ v.count = c.count + 1
        /\ v.phase = "next"
    BY <1>1, VisitedInv DEF InLoop
  <1>3. v.done = c.done
    BY <1>1 DEF Visited, RunState
  <1> HIDE DEF v
  <1>4. CASE SkipRequest(r)
    <2> DEFINE d == [v EXCEPT !.done = @ + 1, !.skipped = @ + 1, !.index = @ + 1]
    <2>1. run'[r] = d
      BY <1>4 DEF SkipRequest, AllRunsInv, TypeOK, v
    <2>2. /\ d.phase = "next" /\ d.iter = v.iter /\ d.count = v.count
          /\ d.done = v.done + 1
      BY <1>2 DEF RunState
    <2> HIDE DEF d
    <2> QED
      BY <1>2, <1>3, <2>1, <2>2
  <1>5. CASE RunScripts(r)
    <2> DEFINE d == [v EXCEPT !.phase = "scripts"]
    <2>1. run'[r] = d
      BY <1>5 DEF RunScripts, AllRunsInv, TypeOK, v
    <2>2. d.phase = "scripts" /\ d.iter = v.iter /\ d.count = v.count /\ d.done = v.done
      BY <1>2 DEF RunState
    <2> HIDE DEF d
    <2> QED
      BY <1>2, <1>3, <2>1, <2>2
  <1> QED
    BY <1>4, <1>5

\* Sending the request counts nothing.
LEMMA SendShape ==
  ASSUME AllRunsInv, NEW r \in Runs, Send(r)
  PROVE  LET b == run[r]
             d == run'[r]
         IN  /\ d.phase = "waiting" /\ d.iter = b.iter
             /\ d.count = b.count /\ d.done = b.done
  <1> DEFINE c == run[r]
  <1>1. PICK sets \in BOOLEAN :
          run' = [run EXCEPT ![r] =
                    [Wrote(r, c, sets) EXCEPT !.phase = "waiting",
                         !.signal = controller, !.inflight = {c.index}]]
    BY DEF Send, AllRunsInv, TypeOK
  <1> DEFINE w == Wrote(r, c, sets)
             d == [w EXCEPT !.phase = "waiting", !.signal = controller,
                            !.inflight = {c.index}]
  <1>2. /\ w \in RunState /\ w.iter = c.iter /\ w.count = c.count
        /\ w.done = c.done
    BY WroteInv DEF AllRunsInv, TypeOK
  <1>3. run'[r] = d
    BY <1>1 DEF AllRunsInv, TypeOK
  <1> HIDE DEF w
  <1>4. d.phase = "waiting" /\ d.iter = w.iter /\ d.count = w.count /\ d.done = w.done
    BY <1>2 DEF RunState
  <1> HIDE DEF d
  <1> QED
    BY <1>2, <1>3, <1>4

\* A response is one more result; the run goes on in the iteration or ends it.
LEMMA RespondShape ==
  ASSUME AllRunsInv, ~SignalAborted, NEW r \in Runs, Respond(r)
  PROVE  LET b == run[r]
             d == run'[r]
         IN  \/ /\ d.phase \in {"next", "delay"} /\ d.iter = b.iter
                /\ d.count = b.count /\ d.done = b.done + 1
             \/ \E e \in RunState :
                   /\ AfterIteration(r, e) /\ e.parallel = b.parallel
                   /\ e.iter = b.iter /\ e.done = b.done + 1
  <1> DEFINE b == run[r]
  <1>1. RunInv(b) /\ b \in RunState /\ b.phase = "waiting" /\ b.index \in Requests
    BY DEF AllRunsInv, Respond, RunInv
  <1>2. PICK outcome \in Outcomes, sets \in BOOLEAN :
          LET c == Wrote(r, Counted(b, b.index, outcome), sets)
          IN  IF StopsRun(c, outcome)
              THEN AfterIteration(r, [c EXCEPT !.stopped = TRUE])
              ELSE \E next \in {c.index + 1} \cup
                               (IF outcome = "error" THEN {} ELSE Requests) :
                      run' = [run EXCEPT ![r] = GoesOn(c, next)]
    BY DEF Respond
  <1> DEFINE k == Counted(b, b.index, outcome)
             c == Wrote(r, k, sets)
  <1>3. /\ k \in RunState /\ k.iter = b.iter /\ k.count = b.count
        /\ k.parallel = b.parallel /\ k.done = b.done + 1 /\ k.index = b.index
    <2>1. outcome \in Outcomes
      OBVIOUS
    <2> QED
      BY <1>1, <2>1, CountedInv
  <1>4. \/ AfterIteration(r, [c EXCEPT !.stopped = TRUE])
        \/ \E next \in {c.index + 1} \cup Requests : run' = [run EXCEPT ![r] = GoesOn(c, next)]
    BY <1>2
  <1> HIDE DEF k
  <1>5. /\ c \in RunState /\ c.iter = b.iter /\ c.count = b.count
        /\ c.parallel = b.parallel /\ c.done = b.done + 1 /\ c.index = b.index
    BY <1>3, WroteInv
  <1> HIDE DEF c
  <1>6. CASE AfterIteration(r, [c EXCEPT !.stopped = TRUE])
    <2> DEFINE e == [c EXCEPT !.stopped = TRUE]
    <2>1. e \in RunState /\ e.iter = c.iter /\ e.parallel = c.parallel /\ e.done = c.done
      BY <1>5 DEF RunState
    <2>2. AfterIteration(r, e)
      BY <1>6
    <2> HIDE DEF e
    <2> QED
      BY <1>5, <2>1, <2>2
  <1>7. ASSUME NEW next \in {c.index + 1} \cup Requests,
               run' = [run EXCEPT ![r] = GoesOn(c, next)]
        PROVE  /\ run'[r].phase \in {"next", "delay"} /\ run'[r].iter = b.iter
               /\ run'[r].count = b.count /\ run'[r].done = b.done + 1
    <2> DEFINE d == GoesOn(c, next)
    <2>1. run'[r] = d
      BY <1>7 DEF AllRunsInv, TypeOK
    <2>2. next \in 1 .. N + 1
      BY <1>1, <1>5, ConstantsAssumption DEF Requests
    <2>3. /\ d.phase \in {"next", "delay"} /\ d.iter = c.iter
          /\ d.count = c.count /\ d.done = c.done
      BY <1>5, <2>2, GoesOnInv
    <2> HIDE DEF d
    <2> QED
      BY <1>5, <2>1, <2>3
  <1> QED
    BY <1>4, <1>6, <1>7

\* Nor does the end of the delay.
LEMMA WakesShape ==
  ASSUME AllRunsInv, NEW r \in Runs, Wakes(r)
  PROVE  LET b == run[r]
             d == run'[r]
         IN  /\ b.phase = "delay" /\ d.phase = "next" /\ d.iter = b.iter
             /\ d.count = b.count /\ d.done = b.done
  <1>1. run[r] \in RunState /\ run[r].phase = "delay"
    BY DEF AllRunsInv, TypeOK, Wakes
  <1>2. run'[r] = [run[r] EXCEPT !.phase = "next"]
    BY DEF AllRunsInv, TypeOK, Wakes
  <1> QED
    BY <1>1, <1>2 DEF RunState

\* The other steps that end an iteration count nothing more.
LEMMA EndingShape ==
  ASSUME AllRunsInv, NEW r \in Runs, BreaksOff(r) \/ LeavesLoop(r) \/ AllSettled(r)
  PROVE  \E e \in RunState :
            /\ AfterIteration(r, e) /\ e.parallel = run[r].parallel
            /\ e.iter = run[r].iter /\ e.done = run[r].done
  <1> DEFINE b == run[r]
  <1>1. RunInv(b) /\ b \in RunState
    BY DEF AllRunsInv, RunInv
  <1>2. CASE BreaksOff(r)
    <2> DEFINE v == Visited(b)
               e == [v EXCEPT !.stopped = TRUE]
    <2>1. v \in RunState /\ v.iter = b.iter /\ v.parallel = b.parallel
      BY <1>1, <1>2, VisitedInv DEF BreaksOff
    <2>2. v.done = b.done
      BY <1>1 DEF Visited, RunState
    <2>3. AfterIteration(r, e)
      BY <1>2 DEF BreaksOff
    <2> HIDE DEF v
    <2>4. e \in RunState /\ e.iter = b.iter /\ e.parallel = b.parallel /\ e.done = b.done
      BY <2>1, <2>2 DEF RunState
    <2> QED
      BY <2>3, <2>4
  <1>3. CASE LeavesLoop(r)
    <2> DEFINE stopped == b.stopped \/ b.count >= MaxVisits
               e == [b EXCEPT !.stopped = stopped]
    <2>1. AfterIteration(r, e)
      BY <1>3 DEF LeavesLoop
    <2>2. stopped \in BOOLEAN
      BY <1>1 DEF RunState
    <2> HIDE DEF stopped
    <2>3. e \in RunState /\ e.iter = b.iter /\ e.parallel = b.parallel /\ e.done = b.done
      BY <1>1, <2>2 DEF RunState
    <2> QED
      BY <2>1, <2>3
  <1>4. CASE AllSettled(r)
    BY <1>1, <1>4 DEF AllSettled
  <1> QED
    BY <1>2, <1>3, <1>4

-----------------------------------------------------------------------------
(* A run takes finitely many steps.                                        *)

LEMMA OneIterationLess ==
  ASSUME NEW k \in Nat, NEW a \in Nat
  PROVE  a * k \in Nat /\ (a + 1) * k = a * k + k
  OBVIOUS

LEMMA PerIterationIsNat == MostVisits \in Nat /\ PerIteration \in Nat
  BY ConstantsAssumption DEF MostVisits, PerIteration

\* Requests can be counted.
LEMMA SomeRequests ==
  ASSUME NEW S \in SUBSET Requests
  PROVE  IsFiniteSet(S) /\ Cardinality(S) \in Nat /\ Cardinality(S) <= N
  <1>1. IsFiniteSet(Requests) /\ Cardinality(Requests) = N
    BY FS_Interval, ConstantsAssumption DEF Requests
  <1>2. IsFiniteSet(S) /\ Cardinality(S) <= N
    BY <1>1, FS_Subset
  <1> QED
    BY <1>2, FS_CardinalityType

\* An iteration that goes on has a step left at least.
LEMMA InIterationPositive ==
  ASSUME NEW c, RunInv(c), CountInv(c), Running(c)
  PROVE  InIteration(c) \in Nat /\ InIteration(c) >= 1
  <1>1. c \in RunState /\ c.count \in 0 .. MaxVisits /\ MaxVisits \in Nat
    BY ConstantsAssumption DEF RunInv, RunState, MaxVisits
  <1>2. c.count <= MostVisits
    BY CountBound DEF MostVisits
  <1>3. Cardinality(c.inflight) \in Nat
    <2>1. c.inflight \in SUBSET Requests
      BY <1>1 DEF RunState
    <2> QED
      BY <2>1, SomeRequests
  <1> QED
    BY <1>1, <1>2, <1>3, PerIterationIsNat DEF InIteration, Running

\* A new iteration has at most PerIteration steps.
LEMMA NewIterationLeft ==
  ASSUME NEW c \in RunState, NEW current
  PROVE  LET d == NewIteration(c, current)
         IN  /\ d.iter = c.iter /\ d.phase \in {"next", "parallel"}
             /\ InIteration(d) \in Nat /\ InIteration(d) <= PerIteration
  <1> DEFINE d == NewIteration(c, current)
  <1>1. CASE c.parallel
    <2>1. d.iter = c.iter /\ d.phase = "parallel" /\ d.inflight = Requests \ Unsupported
      BY <1>1 DEF NewIteration, RunState
    <2>2. Cardinality(d.inflight) \in Nat /\ Cardinality(d.inflight) <= N
      BY <2>1, SomeRequests
    <2> HIDE DEF d
    <2>3. InIteration(d) = Cardinality(d.inflight) + 1
      BY <2>1 DEF InIteration
    <2>4. InIteration(d) \in Nat /\ InIteration(d) <= PerIteration
      BY <2>2, <2>3, ConstantsAssumption DEF PerIteration, MostVisits
    <2> QED
      BY <2>1, <2>4 DEF d
  <1>2. CASE ~c.parallel
    <2>1. d.iter = c.iter /\ d.phase = "next" /\ d.count = 0
      BY <1>2 DEF NewIteration, RunState
    <2> HIDE DEF d
    <2>2. InIteration(d) = PerIteration
      BY <2>1, PerIterationIsNat DEF InIteration, PerIteration
    <2> QED
      BY <2>1, <2>2, PerIterationIsNat DEF d
  <1> QED
    BY <1>1, <1>2

\* Ending an iteration leaves no more than the iterations after it.
LEMMA AfterIterationLeft ==
  ASSUME TypeOK, NEW r \in Runs, NEW c \in RunState, AfterIteration(r, c)
  PROVE  Left(run'[r]) \in Nat /\ Left(run'[r]) <= (Iterations - c.iter) * PerIteration
  <1> DEFINE P == PerIteration
  <1>0. c.iter \in 1 .. Iterations /\ Iterations \in Nat /\ P \in Nat
    BY PerIterationIsNat, ConstantsAssumption DEF RunState
  <1> HIDE DEF P
  <1>1. CASE LastIteration(c)
    <2> DEFINE stopped == c.stopped \/ (SignalAborted /\ c.iter < Iterations)
               d == [c EXCEPT !.phase = "ended", !.stopped = stopped]
    <2>0. run'[r] = d
      BY <1>1 DEF AfterIteration, TypeOK
    <2> HIDE DEF stopped
    <2>1. run'[r].phase = "ended"
      BY <2>0 DEF RunState
    <2> HIDE DEF d
    <2>2. (Iterations - c.iter) * P \in Nat
      <3>1. Iterations - c.iter \in Nat
        BY <1>0
      <3> QED
        BY <1>0, <3>1, OneIterationLess
    <2> QED
      BY <2>1, <2>2 DEF Left, P
  <1>2. CASE ~LastIteration(c)
    <2> DEFINE b == [c EXCEPT !.iter = @ + 1]
               d == NewIteration(b, controller)
    <2>1. c.iter + 1 \in 1 .. Iterations
      BY <1>0, <1>2 DEF LastIteration
    <2>2. b \in RunState /\ b.iter = c.iter + 1
      BY <2>1 DEF RunState
    <2>3. run'[r] = d
      BY <1>2 DEF AfterIteration, TypeOK
    <2>4. /\ d.iter = c.iter + 1 /\ d.phase \in {"next", "parallel"}
          /\ InIteration(d) \in Nat /\ InIteration(d) <= P
      BY <2>2, NewIterationLeft DEF P
    <2> HIDE DEF d
    <2> DEFINE a == Iterations - (c.iter + 1)
    <2>5. a \in Nat /\ a + 1 = Iterations - c.iter
      BY <1>0, <2>1
    <2>6. Left(d) = a * P + InIteration(d)
      BY <2>4 DEF Left, P
    <2> HIDE DEF a
    <2>7. a * P \in Nat /\ (Iterations - c.iter) * P = a * P + P
      BY <1>0, <2>5, OneIterationLess
    <2>8. Left(d) \in Nat /\ Left(d) <= (Iterations - c.iter) * P
      BY <1>0, <2>4, <2>6, <2>7
    <2> QED
      BY <2>3, <2>8 DEF P
  <1> QED
    BY <1>1, <1>2

\* A step that stays in its iteration lowers what the iteration has left.
LEMMA StaysLeft ==
  ASSUME NEW c \in RunState, NEW d, d.iter = c.iter, Running(c), Running(d),
         InIteration(c) \in Nat, InIteration(d) \in Nat,
         InIteration(d) < InIteration(c)
  PROVE  Left(d) \in Nat /\ Left(d) < Left(c)
  <1> DEFINE a == (Iterations - c.iter) * PerIteration
  <1>1. a \in Nat
    <2>1. Iterations - c.iter \in Nat
      BY ConstantsAssumption DEF RunState
    <2> QED
      BY <2>1, OneIterationLess, PerIterationIsNat
  <1>2. Left(c) = a + InIteration(c) /\ Left(d) = a + InIteration(d)
    BY DEF Left, Running
  <1> QED
    BY <1>1, <1>2

\* A step that ends its iteration lowers what the run has left.
LEMMA LeavesLeft ==
  ASSUME TypeOK, NEW r \in Runs, NEW c \in RunState, AfterIteration(r, c),
         c.iter = run[r].iter, Running(run[r]),
         InIteration(run[r]) \in Nat, InIteration(run[r]) >= 1
  PROVE  Left(run'[r]) < Left(run[r])
  <1> DEFINE a == (Iterations - c.iter) * PerIteration
  <1>1. a \in Nat
    <2>1. Iterations - c.iter \in Nat
      BY ConstantsAssumption DEF RunState
    <2> QED
      BY <2>1, OneIterationLess, PerIterationIsNat
  <1>2. Left(run[r]) = a + InIteration(run[r])
    BY DEF Left, Running
  <1>3. Left(run'[r]) \in Nat /\ Left(run'[r]) <= a
    BY AfterIterationLeft
  <1> HIDE DEF a
  <1> QED
    BY <1>1, <1>2, <1>3

\* What a step leaves of a run's visits still bounds their number.
LEMMA StepVisits ==
  ASSUME AllRunsInv, NEW r \in Runs, CountInv(run[r]), Step(r)
  PROVE  RunInv(run'[r]) /\ CountInv(run'[r])
  <1>1. PICK d : RunInv(d) /\ run' = [run EXCEPT ![r] = d] /\ Follows(run[r], d)
    BY StepEffect DEF Effect
  <1>2. run'[r] = d /\ RunInv(run[r])
    BY <1>1 DEF AllRunsInv, TypeOK
  <1> QED
    BY <1>1, <1>2, CountFollows

\* A visit uses up one of those the iteration can have.
LEMMA VisitLeft ==
  ASSUME AllRunsInv, AllCounts, NEW r \in Runs, SkipRequest(r) \/ RunScripts(r)
  PROVE  Left(run'[r]) < Left(run[r])
  <1> DEFINE c == run[r]
             d == run'[r]
  <1>1. /\ RunInv(c) /\ CountInv(c) /\ c \in RunState
        /\ Running(c) /\ c.phase = "next"
    BY DEF AllRunsInv, AllCounts, SkipRequest, RunScripts, InLoop, RunInv, Running
  <1>2. d.phase \in {"next", "scripts"} /\ d.iter = c.iter /\ d.count = c.count + 1
    BY VisitShape
  <1>3. c.count \in Nat /\ c.count + 1 <= MostVisits
    <2>1. RunInv(d) /\ CountInv(d)
      BY <1>1, StepVisits DEF Step
    <2> QED
      BY <1>1, <1>2, <2>1, CountBound DEF MostVisits, RunState
  <1> HIDE DEF d
  <1>4. /\ Running(d) /\ InIteration(d) \in Nat /\ InIteration(c) \in Nat
        /\ InIteration(d) < InIteration(c)
    BY <1>1, <1>2, <1>3, PerIterationIsNat DEF InIteration, Running
  <1> QED
    BY <1>1, <1>2, <1>4, StaysLeft DEF d

\* So do sending it and the response it gets.
LEMMA SendLeft ==
  ASSUME AllRunsInv, AllCounts, NEW r \in Runs, Send(r)
  PROVE  Left(run'[r]) < Left(run[r])
  <1> DEFINE c == run[r]
             d == run'[r]
  <1>1. /\ RunInv(c) /\ CountInv(c) /\ c \in RunState
        /\ Running(c) /\ c.phase = "scripts"
    BY DEF AllRunsInv, AllCounts, Send, RunInv, Running
  <1>2. d.phase = "waiting" /\ d.iter = c.iter /\ d.count = c.count
    BY SendShape
  <1>3. c.count \in Nat /\ c.count <= MostVisits
    BY <1>1, CountBound DEF MostVisits, RunState
  <1> HIDE DEF d
  <1>4. /\ Running(d) /\ InIteration(d) \in Nat /\ InIteration(c) \in Nat
        /\ InIteration(d) < InIteration(c)
    BY <1>1, <1>2, <1>3, PerIterationIsNat DEF InIteration, Running
  <1> QED
    BY <1>1, <1>2, <1>4, StaysLeft DEF d

LEMMA WakesLeft ==
  ASSUME AllRunsInv, AllCounts, NEW r \in Runs, Wakes(r)
  PROVE  Left(run'[r]) < Left(run[r])
  <1> DEFINE c == run[r]
             d == run'[r]
  <1>1. /\ RunInv(c) /\ CountInv(c) /\ c \in RunState
        /\ Running(c) /\ c.phase = "delay"
    BY DEF AllRunsInv, AllCounts, Wakes, RunInv, Running
  <1>2. d.phase = "next" /\ d.iter = c.iter /\ d.count = c.count
    BY WakesShape
  <1>3. c.count \in Nat /\ c.count <= MostVisits
    BY <1>1, CountBound DEF MostVisits, RunState
  <1> HIDE DEF d
  <1>4. /\ Running(d) /\ InIteration(d) \in Nat /\ InIteration(c) \in Nat
        /\ InIteration(d) < InIteration(c)
    BY <1>1, <1>2, <1>3, PerIterationIsNat DEF InIteration, Running
  <1> QED
    BY <1>1, <1>2, <1>4, StaysLeft DEF d

LEMMA RespondLeft ==
  ASSUME AllRunsInv, AllCounts, ~SignalAborted, NEW r \in Runs, Respond(r)
  PROVE  Left(run'[r]) < Left(run[r])
  <1> DEFINE b == run[r]
             d == run'[r]
  <1>1. /\ RunInv(b) /\ CountInv(b) /\ b \in RunState /\ b.phase = "waiting"
        /\ Running(b) /\ TypeOK
    BY DEF AllRunsInv, AllCounts, Respond, RunInv, Running
  <1>2. CASE d.phase \in {"next", "delay"} /\ d.iter = b.iter /\ d.count = b.count
    <2>1. b.count \in Nat /\ b.count <= MostVisits
      BY <1>1, CountBound DEF MostVisits, RunState
    <2> HIDE DEF d
    <2>2. /\ Running(d) /\ InIteration(d) \in Nat /\ InIteration(b) \in Nat
          /\ InIteration(d) < InIteration(b)
      BY <1>1, <1>2, <2>1, PerIterationIsNat DEF InIteration, Running
    <2> QED
      BY <1>1, <1>2, <2>2, StaysLeft DEF d
  <1>3. CASE \E e \in RunState : AfterIteration(r, e) /\ e.iter = b.iter
    BY <1>1, <1>3, InIterationPositive, LeavesLeft
  <1> QED
    BY <1>2, <1>3, RespondShape

\* The other steps that end an iteration.
LEMMA EndingLeft ==
  ASSUME AllRunsInv, AllCounts, NEW r \in Runs,
         BreaksOff(r) \/ LeavesLoop(r) \/ AllSettled(r)
  PROVE  Left(run'[r]) < Left(run[r])
  <1>1. RunInv(run[r]) /\ CountInv(run[r]) /\ Running(run[r]) /\ TypeOK
    BY DEF AllRunsInv, AllCounts, BreaksOff, LeavesLoop, AllSettled, InLoop, Running
  <1> QED
    BY <1>1, EndingShape, InIterationPositive, LeavesLeft

\* A result of a parallel iteration leaves one request less in flight.
LEMMA ParallelResultLeft ==
  ASSUME AllRunsInv, NEW r \in Runs, ParallelResult(r)
  PROVE  Left(run'[r]) < Left(run[r])
  <1> DEFINE c == run[r]
  <1>1. PICK i \in c.inflight, outcome \in Outcomes, sets \in BOOLEAN :
          run' = [run EXCEPT ![r] = Wrote(r, Counted(c, i, outcome), sets)]
    BY DEF ParallelResult, AllRunsInv, TypeOK
  <1>2. c \in RunState /\ Running(c) /\ c.phase = "parallel"
    BY DEF AllRunsInv, ParallelResult, RunInv, Running
  <1>3. c.inflight \in SUBSET Requests /\ i \in Requests
    BY <1>2 DEF RunState
  <1> DEFINE k == Counted(c, i, outcome)
             d == Wrote(r, k, sets)
  <1>o. outcome \in Outcomes
    OBVIOUS
  <1>4. /\ k \in RunState /\ k.phase = c.phase /\ k.iter = c.iter
        /\ k.inflight = c.inflight \ {i}
    BY <1>2, <1>3, <1>o, CountedInv
  <1> HIDE DEF k
  <1>5. d.phase = c.phase /\ d.iter = c.iter /\ d.inflight = c.inflight \ {i}
    BY <1>4, WroteInv
  <1>6. run'[r] = d
    BY <1>1 DEF AllRunsInv, TypeOK, k
  <1> HIDE DEF d
  <1>7. /\ Cardinality(c.inflight) \in Nat /\ Cardinality(d.inflight) \in Nat
        /\ Cardinality(d.inflight) < Cardinality(c.inflight)
    <2>1. IsFiniteSet(c.inflight) /\ Cardinality(c.inflight) \in Nat
      BY <1>3, SomeRequests
    <2>2. Cardinality(d.inflight) = Cardinality(c.inflight) - 1
      <3>1. i \in c.inflight
        OBVIOUS
      <3>2. Cardinality(c.inflight \ {i}) = Cardinality(c.inflight) - 1
        BY <2>1, <3>1, FS_RemoveElement
      <3> QED
        BY <1>5, <3>2
    <2>3. Cardinality(d.inflight) \in Nat
      <3>1. d.inflight \in SUBSET Requests
        BY <1>3, <1>5
      <3> QED
        BY <3>1, SomeRequests
    <2> QED
      BY <2>1, <2>2, <2>3
  <1>8. /\ Running(d) /\ InIteration(d) \in Nat /\ InIteration(c) \in Nat
        /\ InIteration(d) < InIteration(c)
    BY <1>2, <1>5, <1>7 DEF InIteration, Running
  <1> QED
    BY <1>2, <1>5, <1>6, <1>8, StaysLeft

\* Every step of a run lowers what it has left.
LEMMA StepLeft ==
  ASSUME AllRunsInv, AllCounts, ~SignalAborted, NEW r \in Runs, Step(r)
  PROVE  Left(run'[r]) < Left(run[r])
  BY VisitLeft, SendLeft, ParallelResultLeft, RespondLeft, WakesLeft, EndingLeft DEF Step

\* So does starting it.
LEMMA StartLeft ==
  ASSUME AllRunsInv, NEW r \in Runs, StartRun(r)
  PROVE  Left(run'[r]) < Left(run[r])
  <1>1. PICK config \in Configs :
          run' = [run EXCEPT ![r] = NewIteration(Configured(config), r)]
    BY DEF StartRun
  <1> DEFINE c == Configured(config)
             d == NewIteration(c, r)
             P == PerIteration
  <1>2. run'[r] = d /\ run[r].phase = "idle"
    BY <1>1 DEF StartRun, AllRunsInv, TypeOK
  <1>3. c \in RunState /\ c.iter = 1
    <2>1. NeverVisited \in [Requests -> 0 .. 3]
      BY DEF NeverVisited
    <2>2. 1 \in 1 .. N + 1 /\ 0 \in 0 .. MaxVisits /\ 1 \in 1 .. Iterations
      BY ConstantsAssumption DEF MaxVisits
    <2>3. Idle \in RunState /\ Idle.iter = 1
      BY <2>1, <2>2 DEF Idle, RunState, Phases, Controllers
    <2>4. /\ config.parallel \in BOOLEAN /\ config.stopOnFailure \in BOOLEAN
          /\ config.rows \in BOOLEAN /\ config.delay \in BOOLEAN
      BY ConstantsAssumption
    <2> QED
      BY <2>3, <2>4 DEF Configured, RunState
  <1> HIDE DEF c
  <1>4. /\ d.iter = 1 /\ d.phase \in {"next", "parallel"}
        /\ InIteration(d) \in Nat /\ InIteration(d) <= P
    BY <1>3, NewIterationLeft
  <1> HIDE DEF d
  <1>5. Left(d) = (Iterations - 1) * P + InIteration(d)
    BY <1>4 DEF Left
  <1>6. Left(run[r]) = Iterations * P + 1
    BY <1>2 DEF Left
  <1> HIDE DEF P
  <1>7. P \in Nat /\ Iterations - 1 \in Nat /\ (Iterations - 1) + 1 = Iterations
    BY PerIterationIsNat, ConstantsAssumption DEF P
  <1> DEFINE a == Iterations - 1
  <1>8. a * P \in Nat /\ (a + 1) * P = a * P + P
    BY <1>7, OneIterationLess
  <1> QED
    BY <1>2, <1>4, <1>5, <1>6, <1>7, <1>8

\* What a run has left is a number, whatever its state.
LEMMA LeftIsNat ==
  ASSUME NEW c, RunInv(c), CountInv(c)
  PROVE  Left(c) \in Nat
  <1>1. Iterations - c.iter \in Nat /\ PerIteration \in Nat /\ Iterations \in Nat
    BY PerIterationIsNat, ConstantsAssumption DEF RunInv, RunState
  <1>2. (Iterations - c.iter) * PerIteration \in Nat /\ Iterations * PerIteration \in Nat
    BY <1>1, OneIterationLess
  <1>3. CASE Running(c)
    BY <1>2, <1>3, InIterationPositive DEF Left, Running
  <1>4. CASE ~Running(c)
    BY <1>2, <1>4 DEF Left, Running
  <1> QED
    BY <1>3, <1>4

\* Only its own steps change a run.
LEMMA OtherRuns ==
  ASSUME AllRunsInv, NEW r \in Runs, NEW q \in Runs, StartRun(q) \/ Step(q), r # q
  PROVE  run'[r] = run[r]
  <1>1. \E d : run' = [run EXCEPT ![q] = d]
    <2>1. CASE StartRun(q)
      BY <2>1 DEF StartRun
    <2>2. CASE Step(q)
      BY <2>2, StepEffect DEF Effect
    <2> QED
      BY <2>1, <2>2
  <1> QED
    BY <1>1 DEF AllRunsInv, TypeOK

-----------------------------------------------------------------------------
(* A run has a bounded number of results.                                  *)

Twice == 2 * N

\* The results of a sequential run: one for every visit at most, and the request
\* whose scripts run or whose response is awaited has none yet.
ResultInv(c) ==
    ~c.parallel =>
        /\ c.phase = "idle" => c.done = 0
        /\ c.phase \in {"next", "delay"} => c.done <= (c.iter - 1) * Twice + c.count
        /\ c.phase \in {"scripts", "waiting"} =>
              c.done + 1 <= (c.iter - 1) * Twice + c.count
        /\ c.phase = "ended" => c.done <= c.iter * Twice

AllResults == \A r \in Runs : ResultInv(run[r])

\* The results of the iterations up to a given one.
LEMMA TwiceIsNat ==
  ASSUME NEW c \in RunState
  PROVE  /\ Twice \in Nat /\ c.done \in Nat /\ c.count \in Nat
         /\ (c.iter - 1) * Twice \in Nat
         /\ c.iter * Twice = (c.iter - 1) * Twice + Twice
  <1> DEFINE a == c.iter - 1
             T == Twice
  <1>1. a \in Nat /\ a + 1 = c.iter /\ T \in Nat /\ c.done \in Nat /\ c.count \in Nat
    BY ConstantsAssumption DEF RunState, Twice
  <1> HIDE DEF T, a
  <1>2. a * T \in Nat /\ (a + 1) * T = a * T + T
    BY <1>1, OneIterationLess
  <1> QED
    BY <1>1, <1>2 DEF T, a

\* Without a third visit of any, the visits are two of every request.
LEMMA CountTwice ==
  ASSUME NEW c, RunInv(c), CountInv(c), \A i \in Requests : c.visits[i] <= 2
  PROVE  c.count <= Twice
  <1> DEFINE two == Requests \X (1 .. 2)
  <1>1. Ordinals(c.visits) \subseteq two
    <2> SUFFICES ASSUME NEW v \in Ordinals(c.visits) PROVE v \in two
      OBVIOUS
    <2>1. PICK j \in Requests, k \in 1 .. 3 : v = <<j, k>> /\ k <= c.visits[j]
      BY DEF Ordinals
    <2>2. c.visits[j] \in 0 .. 3 /\ c.visits[j] <= 2
      BY DEF RunInv, RunState
    <2>3. k \in 1 .. 2
      BY <2>1, <2>2
    <2> QED
      BY <2>1, <2>3
  <1>2. IsFiniteSet(Requests) /\ Cardinality(Requests) = N
    BY FS_Interval, ConstantsAssumption DEF Requests
  <1>3. IsFiniteSet(1 .. 2) /\ Cardinality(1 .. 2) = 2
    <2>1. 1 \in Int /\ 2 \in Int
      OBVIOUS
    <2>2. IsFiniteSet(1 .. 2) /\ Cardinality(1 .. 2) = IF 1 > 2 THEN 0 ELSE 2 - 1 + 1
      BY <2>1, FS_Interval
    <2> QED
      BY <2>2
  <1>4. IsFiniteSet(two) /\ Cardinality(two) = N * 2
    BY <1>2, <1>3, FS_Product
  <1> HIDE DEF two
  <1>5. Cardinality(Ordinals(c.visits)) <= Cardinality(two)
    BY <1>1, <1>4, FS_Subset
  <1> QED
    BY <1>4, <1>5, ConstantsAssumption DEF CountInv, Twice

\* An iteration ends with two results of every request at most, and the next one
\* begins with them.
LEMMA AfterIterationResults ==
  ASSUME TypeOK, NEW r \in Runs, NEW c \in RunState, AfterIteration(r, c),
         ~c.parallel, c.done <= c.iter * Twice
  PROVE  ResultInv(run'[r])
  <1>1. CASE LastIteration(c)
    <2> DEFINE d == [c EXCEPT !.phase = "ended",
                         !.stopped = @ \/ (SignalAborted /\ c.iter < Iterations)]
    <2>1. run'[r] = d
      BY <1>1 DEF AfterIteration, TypeOK
    <2>2. d.phase = "ended" /\ d.done = c.done /\ d.iter = c.iter
      BY DEF RunState
    <2> HIDE DEF d
    <2> QED
      BY <2>1, <2>2 DEF ResultInv
  <1>2. CASE ~LastIteration(c)
    <2> DEFINE b == [c EXCEPT !.iter = @ + 1]
               d == NewIteration(b, controller)
    <2>1. run'[r] = d
      BY <1>2 DEF AfterIteration, TypeOK
    <2>2. /\ d.phase = "next" /\ d.done = c.done /\ d.iter = c.iter + 1
          /\ d.count = 0
      BY DEF NewIteration, RunState
    <2> HIDE DEF d
    <2>3. (c.iter + 1) - 1 = c.iter
      BY DEF RunState
    <2>4. d.done <= (d.iter - 1) * Twice + d.count
      BY <2>2, <2>3, TwiceIsNat
    <2> QED
      BY <2>1, <2>2, <2>4 DEF ResultInv
  <1> QED
    BY <1>1, <1>2

\* A sequential run's steps keep its results below its visits.
LEMMA SequentialResults ==
  ASSUME AllRunsInv, AllCounts, ~SignalAborted, NEW r \in Runs, ResultInv(run[r]),
         ~run[r].parallel, Step(r)
  PROVE  ResultInv(run'[r])
  <1> DEFINE b == run[r]
             d == run'[r]
             T == Twice
             before == (b.iter - 1) * T
  <1>1. RunInv(b) /\ CountInv(b) /\ b \in RunState /\ TypeOK
    BY DEF AllRunsInv, AllCounts, RunInv
  <1>2. /\ T \in Nat /\ b.done \in Nat /\ b.count \in Nat /\ before \in Nat
        /\ b.iter * T = before + T
    BY <1>1, TwiceIsNat
  <1>3. b.phase \in InSequence => b.count <= T
    BY <1>1, CountTwice DEF RunInv
  <1>4. /\ b.phase \in {"next", "delay"} => b.done <= before + b.count
        /\ b.phase \in {"scripts", "waiting"} => b.done + 1 <= before + b.count
    BY DEF ResultInv
  <1> HIDE DEF T, before
  <1>5. CASE SkipRequest(r) \/ RunScripts(r)
    <2>1. b.phase = "next"
      BY <1>5 DEF SkipRequest, RunScripts, InLoop
    <2>2. /\ d.iter = b.iter /\ d.count = b.count + 1
          /\ \/ d.phase = "next" /\ d.done = b.done + 1
             \/ d.phase = "scripts" /\ d.done = b.done
      BY <1>5, VisitShape
    <2>3. \/ d.phase = "next" /\ d.done <= before + d.count
          \/ d.phase = "scripts" /\ d.done + 1 <= before + d.count
      BY <1>2, <1>4, <2>1, <2>2
    <2> QED
      BY <2>2, <2>3 DEF ResultInv, before, T
  <1>6. CASE Send(r)
    <2>1. b.phase = "scripts"
      BY <1>6 DEF Send
    <2>2. d.phase = "waiting" /\ d.iter = b.iter /\ d.count = b.count /\ d.done = b.done
      BY <1>6, SendShape
    <2> QED
      BY <1>4, <2>1, <2>2 DEF ResultInv, before, T
  <1>7. CASE Respond(r)
    <2>1. b.phase = "waiting" /\ b.phase \in InSequence
      BY <1>7 DEF Respond, InSequence
    <2>2. CASE d.phase \in {"next", "delay"} /\ d.iter = b.iter /\ d.count = b.count
               /\ d.done = b.done + 1
      BY <1>4, <2>1, <2>2 DEF ResultInv, before, T
    <2>3. ASSUME NEW e \in RunState, AfterIteration(r, e), e.parallel = b.parallel,
                 e.iter = b.iter, e.done = b.done + 1
          PROVE  ResultInv(d)
      <3>1. e.done <= b.iter * T
        BY <1>2, <1>3, <1>4, <2>1, <2>3
      <3> QED
        BY <1>1, <2>3, <3>1, AfterIterationResults DEF T
    <2> QED
      BY <1>7, <2>2, <2>3, RespondShape
  <1>8. CASE BreaksOff(r) \/ LeavesLoop(r) \/ AllSettled(r)
    <2>1. b.phase = "next" /\ b.phase \in InSequence
      BY <1>1, <1>8 DEF BreaksOff, LeavesLoop, AllSettled, InLoop, RunInv, InSequence
    <2>2. PICK e \in RunState :
            /\ AfterIteration(r, e) /\ e.parallel = b.parallel
            /\ e.iter = b.iter /\ e.done = b.done
      BY <1>8, EndingShape
    <2>3. e.done <= b.iter * T
      BY <1>2, <1>3, <1>4, <2>1, <2>2
    <2> QED
      BY <1>1, <2>2, <2>3, AfterIterationResults DEF T
  <1>9. CASE ParallelResult(r)
    BY <1>1, <1>9 DEF ParallelResult, RunInv
  <1>10. CASE Wakes(r)
    BY <1>4, <1>10, WakesShape DEF ResultInv, before, T
  <1> QED
    BY <1>5, <1>6, <1>7, <1>8, <1>9, <1>10 DEF Step

\* A run starts without results.
LEMMA StartResults ==
  ASSUME AllRunsInv, NEW r \in Runs, StartRun(r)
  PROVE  ResultInv(run'[r])
  <1>1. PICK config \in Configs :
          run' = [run EXCEPT ![r] = NewIteration(Configured(config), r)]
    BY DEF StartRun
  <1> DEFINE c == Configured(config)
             d == NewIteration(c, r)
  <1>2. run'[r] = d
    BY <1>1 DEF AllRunsInv, TypeOK
  <1>3. c.done = 0 /\ c.iter = 1 /\ c.parallel = config.parallel
    BY DEF Configured, Idle
  <1>4. CASE c.parallel
    <2>1. d.parallel
      BY <1>3, <1>4 DEF NewIteration, Configured, Idle
    <2> HIDE DEF d
    <2> QED
      BY <1>2, <2>1 DEF ResultInv
  <1>5. CASE ~c.parallel
    <2>1. d.phase = "next" /\ d.done = 0 /\ d.iter = 1 /\ d.count = 0
      BY <1>5 DEF NewIteration, Configured, Idle
    <2> HIDE DEF d
    <2>2. (1 - 1) * Twice = 0
      BY ConstantsAssumption DEF Twice
    <2> QED
      BY <1>2, <2>1, <2>2 DEF ResultInv
  <1> QED
    BY <1>4, <1>5

LEMMA ResultsInductive ==
  AllRunsInv /\ AllCounts /\ ~SignalAborted /\ AllResults /\ [Next]_vars => AllResults'
  <1> SUFFICES ASSUME AllRunsInv, AllCounts, ~SignalAborted, AllResults, [Next]_vars,
                      NEW r \in Runs
               PROVE  ResultInv(run'[r])
    BY DEF AllResults
  <1>0. ResultInv(run[r])
    BY DEF AllResults
  <1>1. CASE StartRun(r)
    BY <1>1, StartResults
  <1>2. CASE Step(r)
    <2>1. CASE run[r].parallel
      <3>1. run'[r].parallel
        <4>1. PICK d : run' = [run EXCEPT ![r] = d] /\ d.parallel = run[r].parallel
          BY <1>2, StepEffect DEF Effect, Follows
        <4> QED
          BY <2>1, <4>1 DEF AllRunsInv, TypeOK
      <3> QED
        BY <3>1 DEF ResultInv
    <2>2. CASE ~run[r].parallel
      BY <1>0, <1>2, <2>2, SequentialResults
    <2> QED
      BY <2>1, <2>2
  <1>3. CASE run'[r] = run[r]
    BY <1>0, <1>3 DEF ResultInv
  <1>4. ASSUME NEW q \in Runs, q # r, StartRun(q) \/ Step(q) PROVE run'[r] = run[r]
    BY <1>4, OtherRuns
  <1>5. ASSUME NEW q \in Runs, Cancel(q) PROVE run'[r] = run[r]
    BY <1>5 DEF Cancel
  <1>6. CASE UNCHANGED vars
    BY <1>3, <1>6 DEF vars
  <1> QED
    BY <1>1, <1>2, <1>3, <1>4, <1>5, <1>6 DEF Next

\* The iterations a run has done are among those it was given.
LEMMA ResultsAtMost ==
  ASSUME NEW c, RunInv(c), CountInv(c), SentInv(c), ResultInv(c)
  PROVE  c.done <= IF c.parallel THEN Total ELSE 2 * Total
  <1> DEFINE T == Twice
             a == Iterations - c.iter
  <1>1. /\ c \in RunState /\ c.iter \in 1 .. Iterations /\ c.done \in Nat
        /\ Iterations \in Nat /\ N \in Nat
    BY ConstantsAssumption DEF RunInv, RunState
  <1>2. a \in Nat /\ Iterations = c.iter + a /\ T \in Nat /\ T = 2 * N /\ c.iter \in Nat
    BY <1>1 DEF Twice
  <1> HIDE DEF T, a
  <1>3. /\ a * T \in Nat /\ a * N \in Nat
        /\ c.iter * T + a * T = Iterations * T /\ c.iter * N + a * N = Iterations * N
        /\ Iterations * T = 2 * (Iterations * N)
    BY <1>1, <1>2
  <1>4. CASE c.parallel
    <2>1. c.phase \in {"parallel", "ended"}
      BY <1>1, <1>4 DEF RunInv, SentInv, RunState, Phases, InSequence
    <2>2. Cardinality(c.inflight) \in Nat
      <3>1. c.inflight \in SUBSET Requests
        BY <1>1 DEF RunState
      <3> QED
        BY <3>1, SomeRequests
    <2>3. c.iter * N \in Nat /\ Iterations * N \in Nat
      BY <1>1, OneIterationLess
    <2> QED
      BY <1>1, <1>3, <1>4, <2>1, <2>2, <2>3 DEF SentInv, Total
  <1>5. CASE ~c.parallel
    <2>1. c.done <= c.iter * T
      <3>1. /\ c.iter * T = (c.iter - 1) * T + T /\ (c.iter - 1) * T \in Nat
            /\ c.count \in Nat
        BY <1>1, TwiceIsNat DEF T
      <3>2. c.phase \in InSequence => c.count <= T
        BY CountTwice DEF RunInv, T
      <3>3. c.phase \in {"idle", "ended"} \cup InSequence
        BY <1>1, <1>5 DEF RunInv, RunState, Phases, InSequence
      <3> QED
        BY <1>1, <1>2, <1>5, <3>1, <3>2, <3>3 DEF ResultInv, InSequence, T
    <2>2. c.iter * T \in Nat
      BY <1>2, OneIterationLess
    <2> QED
      BY <1>1, <1>2, <1>3, <1>5, <2>1, <2>2 DEF Total
  <1> QED
    BY <1>4, <1>5

-----------------------------------------------------------------------------
(* What runs share, when they do not have to.                              *)

AllRows == \A config \in Configs : config.rows

\* Every run that has started is driven by rows, and nothing set a live variable.
RowsOnlyInv == live = {} /\ \A r \in Runs : Started(r) => run[r].rows

\* The collection variables in place are the lonely run's own.
ScopeInv == \A r \in Runs : Alone(r) /\ Started(r) => scoped = r

\* A run keeps the configuration it was started with.
LEMMA StartRows ==
  ASSUME AllRunsInv, NEW r \in Runs, StartRun(r)
  PROVE  \E config \in Configs : run'[r].rows = config.rows
  <1>1. PICK config \in Configs :
          run' = [run EXCEPT ![r] = NewIteration(Configured(config), r)]
    BY DEF StartRun
  <1>2. NewIteration(Configured(config), r).rows = config.rows
    BY DEF NewIteration, Configured, Idle
  <1> QED
    BY <1>1, <1>2 DEF AllRunsInv, TypeOK

LEMMA RowsOnlyInductive ==
  ASSUME AllRows, AllRunsInv, RowsOnlyInv, [Next]_vars
  PROVE  RowsOnlyInv'
  <1>1. ASSUME NEW q \in Runs, StartRun(q) PROVE RowsOnlyInv'
    <2>1. run'[q].rows /\ live' = live
      BY <1>1, StartRows DEF AllRows, StartRun
    <2>2. \A r \in Runs \ {q} : run'[r] = run[r]
      BY <1>1, OtherRuns
    <2> QED
      BY <2>1, <2>2 DEF RowsOnlyInv, Started
  <1>2. ASSUME NEW q \in Runs, Step(q) PROVE RowsOnlyInv'
    <2>1. PICK d : run' = [run EXCEPT ![q] = d] /\ d.rows = run[q].rows
      BY <1>2, StepEffect DEF Effect
    <2>2. run[q].rows
      BY <1>2, StepEffect DEF RowsOnlyInv, Started
    <2>3. live' = live
      BY <1>2, <2>2, StepEffect DEF Effect
    <2> QED
      BY <2>1, <2>2, <2>3 DEF RowsOnlyInv, Started, AllRunsInv, TypeOK
  <1>3. ASSUME NEW q \in Runs, Cancel(q) PROVE RowsOnlyInv'
    BY <1>3 DEF Cancel, RowsOnlyInv, Started
  <1>4. CASE UNCHANGED vars
    BY <1>4 DEF vars, RowsOnlyInv, Started
  <1> QED
    BY <1>1, <1>2, <1>3, <1>4 DEF Next

LEMMA ScopeInductive == AllRunsInv /\ ScopeInv /\ [Next]_vars => ScopeInv'
  <1> SUFFICES ASSUME AllRunsInv, ScopeInv, [Next]_vars,
                      NEW r \in Runs, Alone(r)', Started(r)'
               PROVE  scoped' = r
    BY DEF ScopeInv
  <1>0. run \in [Runs -> RunState]
    BY DEF AllRunsInv, TypeOK
  <1>1. ASSUME NEW q \in Runs, StartRun(q) PROVE scoped' = r
    <2>1. PICK d : run' = [run EXCEPT ![q] = d] /\ d.phase # "idle"
      BY <1>1, StartEffect
    <2>2. q = r
      BY <1>0, <2>1 DEF Alone
    <2> QED
      BY <1>1, <2>2 DEF StartRun
  <1>2. ASSUME NEW q \in Runs, Step(q) PROVE scoped' = r
    <2>1. PICK d : run' = [run EXCEPT ![q] = d] /\ d.phase # "idle"
      BY <1>2, StepEffect DEF Effect
    <2>2. q = r /\ scoped' = scoped /\ run[q].phase # "idle"
      BY <1>0, <1>2, <2>1, StepEffect DEF Effect, Alone
    <2>3. Alone(r)
      BY <1>0, <2>1, <2>2 DEF Alone
    <2> QED
      BY <2>2, <2>3 DEF ScopeInv, Started
  <1>3. CASE UNCHANGED <<run, scoped>>
    BY <1>3 DEF ScopeInv, Started, Alone
  <1>4. ASSUME NEW q \in Runs, Cancel(q) PROVE UNCHANGED <<run, scoped>>
    BY <1>4 DEF Cancel
  <1> QED
    BY <1>1, <1>2, <1>3, <1>4 DEF Next, vars

-----------------------------------------------------------------------------
(* How runs end.                                                           *)

\* A run that ends before its last iteration says that it stopped early: no
\* iteration is left out in silence.
EarlyEndIsTold == \A r \in Runs : Ended(r) => run[r].stopped \/ run[r].iter = Iterations

\* An iteration that is not the last is followed by another, unless the run stops.
LEMMA AfterIterationEnds ==
  ASSUME TypeOK, ~SignalAborted, NEW r \in Runs, NEW c \in RunState,
         AfterIteration(r, c), run'[r].phase = "ended"
  PROVE  run'[r].stopped \/ run'[r].iter = Iterations
  <1>1. LastIteration(c)
    <2> SUFFICES ASSUME ~LastIteration(c) PROVE FALSE
      OBVIOUS
    <2> DEFINE b == [c EXCEPT !.iter = @ + 1]
    <2>1. run'[r] = NewIteration(b, controller)
      BY DEF AfterIteration, TypeOK
    <2>2. NewIteration(b, controller).phase \in {"next", "parallel"}
      BY DEF NewIteration, RunState
    <2> QED
      BY <2>1, <2>2
  <1> DEFINE stopped == c.stopped \/ (SignalAborted /\ c.iter < Iterations)
             d == [c EXCEPT !.phase = "ended", !.stopped = stopped]
  <1>2. run'[r] = d
    BY <1>1 DEF AfterIteration, TypeOK
  <1>3. d.iter = c.iter /\ (c.stopped => d.stopped)
    BY DEF RunState
  <1> QED
    BY <1>1, <1>2, <1>3 DEF LastIteration

LEMMA EndInductive ==
  AllRunsInv /\ ~SignalAborted /\ EarlyEndIsTold /\ [Next]_vars => EarlyEndIsTold'
  <1> SUFFICES ASSUME AllRunsInv, ~SignalAborted, EarlyEndIsTold, [Next]_vars,
                      NEW r \in Runs, run'[r].phase = "ended"
               PROVE  run'[r].stopped \/ run'[r].iter = Iterations
    BY DEF EarlyEndIsTold, Ended
  <1>0. TypeOK
    BY DEF AllRunsInv
  <1>1. CASE Step(r)
    <2>1. CASE SkipRequest(r) \/ RunScripts(r)
      BY <2>1, VisitShape
    <2>2. CASE Send(r)
      BY <2>2, SendShape
    <2>3. CASE Respond(r)
      BY <1>0, <2>3, RespondShape, AfterIterationEnds
    <2>4. CASE BreaksOff(r) \/ LeavesLoop(r) \/ AllSettled(r)
      BY <1>0, <2>4, EndingShape, AfterIterationEnds
    <2>5. ASSUME ParallelResult(r) PROVE FALSE
      <3>1. PICK i \in run[r].inflight, outcome \in Outcomes, sets \in BOOLEAN :
              run' = [run EXCEPT ![r] = Wrote(r, Counted(run[r], i, outcome), sets)]
        BY <2>5 DEF ParallelResult, AllRunsInv, TypeOK
      <3> DEFINE k == Counted(run[r], i, outcome)
      <3>2. run[r] \in RunState /\ run[r].phase = "parallel" /\ i \in Requests
            /\ outcome \in Outcomes
        BY <1>0, <2>5 DEF ParallelResult, TypeOK, RunState
      <3>3. k \in RunState /\ k.phase = "parallel"
        BY <3>2, CountedInv
      <3> HIDE DEF k
      <3>4. Wrote(r, k, sets).phase = "parallel"
        BY <3>3, WroteInv
      <3> QED
        BY <1>0, <3>1, <3>4 DEF TypeOK, k
    <2>6. CASE Wakes(r)
      BY <2>6, WakesShape
    <2> QED
      BY <1>1, <2>1, <2>2, <2>3, <2>4, <2>5, <2>6 DEF Step
  <1>2. CASE StartRun(r)
    <2>1. PICK config \in Configs :
            run' = [run EXCEPT ![r] = NewIteration(Configured(config), r)]
      BY <1>2 DEF StartRun
    <2>2. NewIteration(Configured(config), r).phase \in {"next", "parallel"}
      BY DEF NewIteration, Configured, Idle
    <2> QED
      BY <1>0, <2>1, <2>2 DEF TypeOK
  <1>3. CASE run'[r] = run[r]
    BY <1>3 DEF EarlyEndIsTold, Ended
  <1>4. ASSUME NEW q \in Runs, q # r, StartRun(q) \/ Step(q) PROVE run'[r] = run[r]
    BY <1>4, OtherRuns
  <1>5. ASSUME NEW q \in Runs, Cancel(q) PROVE run'[r] = run[r]
    BY <1>5 DEF Cancel
  <1>6. CASE UNCHANGED vars
    BY <1>3, <1>6 DEF vars
  <1> QED
    BY <1>1, <1>2, <1>3, <1>4, <1>5, <1>6 DEF Next

-----------------------------------------------------------------------------
(* Theorems.                                                               *)

\* What a run has left is a number that starting it and every step of its own
\* lower, and that nothing else changes.
LeftIsNumber == \A r \in Runs : Left(run[r]) \in Nat
RunsShrink ==
    [][\A r \in Runs :
          /\ StartRun(r) \/ Step(r) => Left(run'[r]) < Left(run[r])
          /\ ~(StartRun(r) \/ Step(r)) => run'[r] = run[r]]_vars

\* A run takes at most Iterations * (8 * N + 5) steps after its start, whatever
\* jumps its scripts ask for and whatever other runs and cancels do: the half of
\* RunsEnd that does not need fairness, for any number of requests and iterations.
THEOREM RunsAlwaysShrink == Spec => []LeftIsNumber /\ RunsShrink
  <1> DEFINE A == \A r \in Runs :
                    /\ StartRun(r) \/ Step(r) => Left(run'[r]) < Left(run[r])
                    /\ ~(StartRun(r) \/ Step(r)) => run'[r] = run[r]
  <1>1. AllRunsInv /\ AllCounts /\ ~SignalAborted /\ [Next]_vars => [A]_vars
    <2> SUFFICES ASSUME AllRunsInv, AllCounts, ~SignalAborted, Next, NEW r \in Runs
                 PROVE  /\ StartRun(r) \/ Step(r) => Left(run'[r]) < Left(run[r])
                        /\ ~(StartRun(r) \/ Step(r)) => run'[r] = run[r]
      OBVIOUS
    <2>1. StartRun(r) \/ Step(r) => Left(run'[r]) < Left(run[r])
      BY StartLeft, StepLeft
    <2>2. ASSUME ~(StartRun(r) \/ Step(r)) PROVE run'[r] = run[r]
      <3>1. PICK q \in Runs : StartRun(q) \/ Step(q) \/ Cancel(q)
        BY DEF Next
      <3>2. CASE Cancel(q)
        BY <3>2 DEF Cancel
      <3>3. CASE StartRun(q) \/ Step(q)
        BY <2>2, <3>3, OtherRuns
      <3> QED
        BY <3>1, <3>2, <3>3
    <2> QED
      BY <2>1, <2>2
  <1>2. AllRunsInv /\ AllCounts => LeftIsNumber
    BY LeftIsNat DEF AllRunsInv, AllCounts, LeftIsNumber
  <1> QED
    BY <1>1, <1>2, RunsAlwaysInv, CountsAlways, AbortNeverSeen, PTL
       DEF Spec, RunsShrink

\* A run produces at most one result for every request of an iteration when it is
\* parallel, and at most two when it is sequential, however its scripts jump.
ResultsBounded ==
    \A r \in Runs : run[r].done <= IF run[r].parallel THEN Total ELSE 2 * Total

\* The list of results of a run, which the service keeps until the run ends, does not
\* grow beyond two results for each request of each iteration, with any number of runs.
THEOREM ResultsAlwaysBounded == Spec => []ResultsBounded
  <1>1. Init => AllResults
    BY DEF Init, AllResults, ResultInv, Idle
  <1>2. AllRunsInv /\ AllCounts /\ AllResults => ResultsBounded
    BY ResultsAtMost DEF AllRunsInv, AllCounts, AllResults, ResultsBounded
  <1> QED
    BY <1>1, <1>2, ResultsInductive, RunsAlwaysInv, CountsAlways, AbortNeverSeen, PTL
       DEF Spec

\* A run that ends before its last iteration has reported that it was stopped, with
\* any number of runs and iterations.
THEOREM EarlyEndAlwaysTold == Spec => []EarlyEndIsTold
  <1>1. Init => EarlyEndIsTold
    BY DEF Init, EarlyEndIsTold, Ended, Idle
  <1> QED
    BY <1>1, EndInductive, RunsAlwaysInv, AbortNeverSeen, PTL DEF Spec

\* Cancel never gets a run out of its list: the loop breaks off for a request that
\* comes up a third time and for nothing else, with any number of runs.  This is why
\* CancelStopsRun fails.
OnlyLoopsBreakOff == [][\A r \in Runs : BreaksOff(r) => Loops(run[r])]_vars

\* runCollection leaves an iteration before its end, without a failure, only for its
\* protection against loops, never because the run was cancelled.
THEOREM OnlyLoopsEverBreakOff == Spec => OnlyLoopsBreakOff
  <1> DEFINE A == \A r \in Runs : BreaksOff(r) => Loops(run[r])
  <1>1. ~SignalAborted => A
    BY DEF BreaksOff
  <1> QED
    BY <1>1, AbortNeverSeen, PTL DEF OnlyLoopsBreakOff

\* A service that only gets data-driven runs never writes into the live environments:
\* the clone of each row keeps them apart, and only the other runs lack it.
THEOREM RowsLeaveLiveStateUntouched ==
  ASSUME AllRows
  PROVE  Spec => []LiveStateUntouched
  <1>1. Init => RowsOnlyInv
    BY DEF Init, RowsOnlyInv, Started, Idle
  <1>2. RowsOnlyInv => LiveStateUntouched
    BY DEF RowsOnlyInv, LiveStateUntouched
  <1>3. AllRunsInv /\ RowsOnlyInv /\ [Next]_vars => RowsOnlyInv'
    BY RowsOnlyInductive
  <1> QED
    BY <1>1, <1>2, <1>3, RunsAlwaysInv, PTL DEF Spec

\* A run that no other has followed sends its requests with the variables of its
\* own collection; a second run on the service is what breaks this.
OwnVariablesAlone == [][\A r \in Runs : Alone(r) /\ Send(r) => scoped = r]_vars

\* As long as no other run has been started after it, a run finds the collection
\* variables it has set in the service at every request it sends.
THEOREM OwnVariablesAlwaysAlone == Spec => OwnVariablesAlone
  <1> DEFINE A == \A r \in Runs : Alone(r) /\ Send(r) => scoped = r
  <1>1. Init => ScopeInv
    BY DEF Init, ScopeInv, Started, Idle
  <1>2. ScopeInv => A
    BY DEF ScopeInv, Started, Send
  <1> QED
    BY <1>1, <1>2, ScopeInductive, RunsAlwaysInv, PTL DEF Spec, OwnVariablesAlone
=============================================================================
