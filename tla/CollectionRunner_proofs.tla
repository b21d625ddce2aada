----------------------- MODULE CollectionRunner_proofs -----------------------
(***************************************************************************)
(* Theorems of CollectionRunner, for any number of runs, requests and      *)
(* iterations.  RunInv says what holds of the local variables of one run   *)
(* at every step; it is inductive by itself, because a run's variables are *)
(* its own.  CountInv and SentInv count its visits and its results.        *)
(* AbortInv, RowInv and SoloInv relate the runs to what they share.        *)
(***************************************************************************)
EXTENDS CollectionRunner, FiniteSetTheorems, TLAPS

InSequence == {"next", "scripts", "waiting", "delay"}

\* What holds when an iteration is over and before the next begins.
BetweenInv(c) ==
    /\ c \in RunState
    /\ c.stopOnFailure /\ ~c.parallel /\ c.failed => c.stopped

RunInv(c) ==
    /\ c \in RunState
    /\ c.phase \in InSequence => ~c.parallel /\ \A i \in Requests : c.visits[i] <= 2
    /\ c.phase = "parallel" => c.parallel
    /\ c.phase \in {"scripts", "waiting"} => c.index \in Requests
    /\ c.stopOnFailure /\ ~c.parallel /\ c.failed => c.phase = "ended" /\ c.stopped

AllRunsInv == TypeOK /\ \A r \in Runs : RunInv(run[r])

\* The service never keeps a controller that it aborted.
AbortInv ==
    /\ controller \notin aborted
    /\ \A q \in aborted \cup ({controller} \ {NoController}) : run[q].phase # "idle"

Started(q) == run[q].phase # "idle"
Unrowed(q) == Started(q) /\ ~run[q].rows

RowInv ==
    /\ \A w \in live : Unrowed(w[1])
    /\ \A r \in Runs : run[r].rows =>
          \A w \in run[r].env : w = <<r, run[r].iter>> \/ Unrowed(w[1])

\* The visits of an iteration, each by its request and its ordinal.
Ordinals(visits) == {v \in Requests \X (1 .. 3) : v[2] <= visits[v[1]]}

\* The count is the number of visits, and one request at most has three of them.
CountInv(c) ==
    /\ c.count = Cardinality(Ordinals(c.visits))
    /\ \E e \in Requests : \A i \in Requests \ {e} : c.visits[i] <= 2

\* The requests of a parallel run are answered or in flight, up to the iteration.
SentInv(c) ==
    /\ c.phase = "idle" => ~c.parallel
    /\ c.parallel /\ c.phase = "parallel" =>
          ~c.stopped /\ c.done + Cardinality(c.inflight) = c.iter * N
    /\ c.parallel /\ c.phase = "ended" => c.done = Iterations * N

AllCounts == \A r \in Runs : CountInv(run[r]) /\ SentInv(run[r])

\* No other run has started.
Alone(r) == \A q \in Runs \ {r} : run[q].phase = "idle"

\* The controller is the lonely run's own, and so is its request's signal.
SoloInv ==
    \A r \in Runs :
        Alone(r) /\ Active(r) /\ r \notin cancelled
            => controller = r /\ (run[r].phase = "waiting" => run[r].signal = r)

\* The visits a step leaves of those it finds: all, none, or one more.
Follows(b, c) ==
    /\ c.parallel = b.parallel
    /\ \/ c.visits = b.visits /\ c.count = b.count
       \/ c.visits = NeverVisited /\ c.count = 0
       \/ InLoop(b) /\ c.visits = Visited(b).visits /\ c.count = b.count + 1

-----------------------------------------------------------------------------
(* One run.                                                                *)

\* The number of skipped requests is a number.
LEMMA SkippedIsNat == Cardinality(Unsupported) \in Nat
  <1>1. IsFiniteSet(Requests)
    BY FS_Interval, ConstantsAssumption DEF Requests
  <1>2. IsFiniteSet(Unsupported)
    BY <1>1, FS_Subset, ConstantsAssumption
  <1> QED
    BY <1>2, FS_CardinalityType

\* A new iteration, of any run that has not failed for good, keeps to RunInv.
LEMMA NewIterationInv ==
  ASSUME NEW c \in RunState, NEW current \in Controllers, live \in SUBSET Writes,
         c.stopOnFailure /\ ~c.parallel => ~c.failed
  PROVE  RunInv(NewIteration(c, current))
  <1>1. CASE c.parallel
    <2> DEFINE sent == Requests \ Unsupported
               done == c.done + Cardinality(Unsupported)
               skipped == c.skipped + Cardinality(Unsupported)
    <2>a. sent \in SUBSET Requests /\ done \in Nat /\ skipped \in Nat
      BY SkippedIsNat DEF RunState
    <2>b. NewIteration(c, current) =
            [c EXCEPT !.phase = "parallel", !.env = live, !.inflight = sent,
                      !.signal = current, !.done = done, !.skipped = skipped]
      BY <1>1 DEF NewIteration
    <2> HIDE DEF sent, done, skipped
    <2>1. NewIteration(c, current) \in RunState
      BY <2>a, <2>b DEF RunState, Phases
    <2> QED
      BY <1>1, <2>1 DEF NewIteration, RunState, RunInv, InSequence
  <1>2. CASE ~c.parallel
    <2>1. NeverVisited \in [Requests -> 0 .. 3]
      BY DEF NeverVisited
    <2>a. 1 \in 1 .. N + 1 /\ 0 \in 0 .. MaxVisits
      BY ConstantsAssumption DEF MaxVisits
    <2>b. NewIteration(c, current) =
            [c EXCEPT !.phase = "next", !.index = 1, !.visits = NeverVisited,
                      !.count = 0, !.env = live]
      BY <1>2 DEF NewIteration
    <2>2. NewIteration(c, current) \in RunState
      BY <2>1, <2>a, <2>b DEF RunState, Phases
    <2> QED
      BY <1>2, <2>2 DEF NewIteration, RunState, RunInv, InSequence, NeverVisited
  <1> QED
    BY <1>1, <1>2 DEF RunState

\* Where the end of an iteration leads.
LEMMA AfterIterationInv ==
  ASSUME TypeOK, NEW r \in Runs, NEW c, BetweenInv(c), AfterIteration(r, c)
  PROVE  \E d : /\ RunInv(d)
                /\ run' = [run EXCEPT ![r] = d]
                /\ d.rows = c.rows /\ d.phase # "idle"
                /\ (d.env = c.env /\ d.iter = c.iter) \/ d.env = live
                /\ d.parallel = c.parallel
                /\ \/ d.visits = c.visits /\ d.count = c.count
                   \/ d.visits = NeverVisited /\ d.count = 0
                /\ controller' \in {controller, NoController}
                /\ d.phase # "waiting"
                /\ controller' = controller \/ d.phase = "ended"
  <1>1. CASE LastIteration(c)
    <2> DEFINE d == [c EXCEPT !.phase = "ended",
                         !.stopped = @ \/ (SignalAborted /\ c.iter < Iterations)]
    <2>1. d \in RunState
      BY DEF BetweenInv, RunState, Phases
    <2>2. RunInv(d)
      BY <2>1 DEF BetweenInv, RunInv, RunState, InSequence
    <2>3. /\ d.rows = c.rows /\ d.phase # "idle" /\ d.env = c.env /\ d.iter = c.iter
          /\ d.parallel = c.parallel /\ d.visits = c.visits /\ d.count = c.count
          /\ d.phase = "ended"
      BY DEF BetweenInv, RunState
    <2>4. run' = [run EXCEPT ![r] = d] /\ controller' = NoController
      BY <1>1 DEF AfterIteration
    <2> QED
      BY <2>2, <2>3, <2>4
  <1>2. CASE ~LastIteration(c)
    <2> DEFINE b == [c EXCEPT !.iter = @ + 1]
               d == NewIteration(b, controller)
    <2>1. b \in RunState
      BY <1>2, ConstantsAssumption DEF BetweenInv, RunState, LastIteration
    <2>2. b.stopOnFailure /\ ~b.parallel => ~b.failed
      BY <1>2 DEF BetweenInv, RunState, LastIteration
    <2>3. RunInv(d)
      BY <2>1, <2>2, NewIterationInv DEF TypeOK
    <2>4. /\ d.rows = c.rows /\ d.phase # "idle" /\ d.env = live
          /\ d.parallel = c.parallel /\ d.phase # "waiting"
          /\ \/ d.visits = c.visits /\ d.count = c.count
             \/ d.visits = NeverVisited /\ d.count = 0
      BY <2>1 DEF NewIteration, BetweenInv, RunState
    <2>5. run' = [run EXCEPT ![r] = d] /\ controller' = controller
      BY <1>2 DEF AfterIteration
    <2> QED
      BY <2>3, <2>4, <2>5
  <1> QED
    BY <1>1, <1>2

\* What every step of a running run does, as far as the invariants can tell.
Effect(r) ==
    /\ \E d : /\ RunInv(d)
              /\ run' = [run EXCEPT ![r] = d]
              /\ d.phase # "idle" /\ d.rows = run[r].rows
              /\ Follows(run[r], d)
              /\ d.phase = "waiting" => d.signal = controller
              /\ controller' = controller \/ d.phase = "ended"
              /\ \/ d.env = live
                 \/ /\ d.iter = run[r].iter
                    /\ d.env \subseteq run[r].env \cup {<<r, run[r].iter>>}
    /\ live' = live \/ (~run[r].rows /\ live' = live \cup {<<r, run[r].iter>>})
    /\ controller' \in {controller, NoController}
    /\ UNCHANGED <<aborted, scoped, cancelled>>

\* A visit is counted before the runner decides what to do with the request.
LEMMA VisitedInv ==
  ASSUME NEW c, RunInv(c), InLoop(c)
  PROVE  /\ Visited(c) \in RunState
         /\ c.index \in Requests
         /\ c.visits \in [Requests -> 0 .. 3]
         /\ c.visits[c.index] \in 0 .. 2
         /\ Visited(c).visits = [c.visits EXCEPT ![c.index] = c.visits[c.index] + 1]
         /\ Visited(c).count = c.count + 1
         /\ Visited(c).phase = c.phase /\ Visited(c).index = c.index
         /\ Visited(c).rows = c.rows /\ Visited(c).iter = c.iter
         /\ Visited(c).env = c.env /\ Visited(c).failed = c.failed
         /\ Visited(c).parallel = c.parallel
         /\ Visited(c).stopOnFailure = c.stopOnFailure
  <1>1. c.index \in Requests
    BY ConstantsAssumption DEF RunInv, RunState, InLoop, Requests
  <1>0. c \in RunState /\ c.visits \in [Requests -> 0 .. 3]
    BY DEF RunInv, RunState
  <1>a. c.visits[c.index] <= 2
    BY <1>1 DEF RunInv, InLoop, InSequence
  <1>2. c.visits[c.index] \in 0 .. 2
    BY <1>0, <1>1, <1>a
  <1> DEFINE count == c.count + 1
             visits == [c.visits EXCEPT ![c.index] = c.visits[c.index] + 1]
  <1>3. count \in 0 .. MaxVisits
    BY ConstantsAssumption DEF RunInv, RunState, InLoop, MaxVisits
  <1>4. visits \in [Requests -> 0 .. 3]
    BY <1>1, <1>2 DEF RunInv, RunState
  <1>5. Visited(c) = [c EXCEPT !.count = count, !.visits = visits]
    BY DEF Visited
  <1> HIDE DEF count, visits
  <1>6. Visited(c) \in RunState
    BY <1>0, <1>3, <1>4, <1>5 DEF RunState
  <1>7. /\ Visited(c).visits = visits /\ Visited(c).count = count
        /\ Visited(c).phase = c.phase /\ Visited(c).index = c.index
        /\ Visited(c).rows = c.rows /\ Visited(c).iter = c.iter
        /\ Visited(c).env = c.env /\ Visited(c).failed = c.failed
        /\ Visited(c).parallel = c.parallel
        /\ Visited(c).stopOnFailure = c.stopOnFailure
    BY <1>0, <1>5 DEF RunState
  <1> QED
    BY <1>0, <1>1, <1>2, <1>6, <1>7 DEF visits, count

\* A request that does not close a loop is visited, then skipped or started.
LEMMA NotLooping ==
  ASSUME NEW c, RunInv(c), InLoop(c), ~Loops(c)
  PROVE  \A i \in Requests : Visited(c).visits[i] <= 2
  <1>0. /\ c.index \in Requests
        /\ c.visits \in [Requests -> 0 .. 3]
        /\ c.visits[c.index] \in 0 .. 2
        /\ Visited(c).visits = [c.visits EXCEPT ![c.index] = c.visits[c.index] + 1]
    BY VisitedInv
  <1> DEFINE visits == c.visits
  <1>1. visits[c.index] + 1 <= 2
    BY <1>0 DEF Loops
  <1>2. \A i \in Requests : c.visits[i] <= 2
    BY DEF RunInv, InLoop, InSequence
  <1> QED
    BY <1>0, <1>1, <1>2

\* Ending an iteration is all a step does to the run.
LEMMA AfterIterationEffect ==
  ASSUME AllRunsInv, NEW r \in Runs, NEW c, BetweenInv(c), AfterIteration(r, c),
         c.rows = run[r].rows, c.iter = run[r].iter, Follows(run[r], c),
         c.env \subseteq run[r].env \cup {<<r, run[r].iter>>},
         live' = live \/ (~run[r].rows /\ live' = live \cup {<<r, run[r].iter>>}),
         UNCHANGED <<aborted, scoped, cancelled>>
  PROVE  Effect(r)
  BY AfterIterationInv DEF AllRunsInv, Effect, Follows

\* A visit that breaks off ends the iteration.
LEMMA BreaksOffEffect ==
  ASSUME AllRunsInv, NEW r \in Runs, BreaksOff(r)
  PROVE  Effect(r)
  <1> DEFINE c == run[r]
             d == [Visited(c) EXCEPT !.stopped = TRUE]
  <1>1. RunInv(c) /\ InLoop(c)
    BY DEF AllRunsInv, BreaksOff
  <1> DEFINE v == Visited(c)
  <1>2. /\ v \in RunState /\ v.rows = c.rows /\ v.iter = c.iter /\ v.env = c.env
        /\ v.parallel = c.parallel /\ v.visits = Visited(c).visits
        /\ v.count = c.count + 1
    BY <1>1, VisitedInv
  <1> HIDE DEF v
  <1>3. BetweenInv([v EXCEPT !.stopped = TRUE])
    BY <1>2 DEF BetweenInv, RunState
  <1>4. LET e == [v EXCEPT !.stopped = TRUE]
        IN  e.rows = c.rows /\ e.iter = c.iter /\ e.env = c.env /\ Follows(c, e)
    BY <1>1, <1>2 DEF RunState, Follows
  <1>d. d = [v EXCEPT !.stopped = TRUE]
    BY DEF v
  <1>5. AfterIteration(r, d) /\ UNCHANGED <<aborted, scoped, live, cancelled>>
    BY DEF BreaksOff
  <1> HIDE DEF d
  <1> QED
    BY <1>d, <1>3, <1>4, <1>5, AfterIterationEffect

\* A skipped request is counted, and the next one is up.
LEMMA SkipRequestEffect ==
  ASSUME AllRunsInv, NEW r \in Runs, SkipRequest(r)
  PROVE  Effect(r)
  <1> DEFINE c == run[r]
             v == Visited(c)
             d == [v EXCEPT !.done = @ + 1, !.skipped = @ + 1, !.index = @ + 1]
  <1>1. RunInv(c) /\ InLoop(c) /\ ~Loops(c) /\ c.phase = "next"
    BY DEF AllRunsInv, SkipRequest, InLoop
  <1>2. v \in RunState /\ c.index \in Requests
    BY <1>1, VisitedInv
  <1>3. /\ v.phase = "next" /\ v.index = c.index /\ v.rows = c.rows
        /\ v.iter = c.iter /\ v.env = c.env /\ v.failed = c.failed
        /\ v.parallel = c.parallel /\ v.stopOnFailure = c.stopOnFailure
        /\ v.visits = Visited(c).visits /\ v.count = c.count + 1
    BY <1>1, VisitedInv
  <1>4. \A i \in Requests : v.visits[i] <= 2
    BY <1>1, NotLooping
  <1>5. v.index + 1 \in 1 .. N + 1
    BY <1>2, <1>3, ConstantsAssumption DEF Requests
  <1> HIDE DEF v
  <1>6. d \in RunState
    <2> DEFINE done == v.done + 1
               skipped == v.skipped + 1
               index == v.index + 1
    <2>1. done \in Nat /\ skipped \in Nat /\ index \in 1 .. N + 1
      BY <1>2, <1>5 DEF RunState
    <2>2. d = [v EXCEPT !.done = done, !.skipped = skipped, !.index = index]
      OBVIOUS
    <2> HIDE DEF done, skipped, index, d
    <2> QED
      BY <1>2, <2>1, <2>2 DEF RunState
  <1>7. RunInv(d)
    BY <1>1, <1>2, <1>3, <1>4, <1>6 DEF RunInv, RunState, InSequence
  <1>8. /\ d.phase \notin {"idle", "waiting"} /\ Follows(c, d)
        /\ d.rows = c.rows /\ d.iter = c.iter /\ d.env = c.env
    BY <1>1, <1>2, <1>3 DEF RunState, Follows
  <1>9. run' = [run EXCEPT ![r] = d]
    BY DEF SkipRequest, v
  <1> HIDE DEF d
  <1> QED
    BY <1>7, <1>8, <1>9 DEF SkipRequest, Effect

\* Scripts start only for a request visited at most twice.
LEMMA RunScriptsEffect ==
  ASSUME AllRunsInv, NEW r \in Runs, RunScripts(r)
  PROVE  Effect(r)
  <1> DEFINE c == run[r]
             v == Visited(c)
             d == [v EXCEPT !.phase = "scripts"]
  <1>1. RunInv(c) /\ InLoop(c) /\ ~Loops(c) /\ c.phase = "next"
    BY DEF AllRunsInv, RunScripts, InLoop
  <1>2. v \in RunState /\ c.index \in Requests
    BY <1>1, VisitedInv
  <1>3. /\ v.index = c.index /\ v.rows = c.rows
        /\ v.iter = c.iter /\ v.env = c.env /\ v.failed = c.failed
        /\ v.parallel = c.parallel /\ v.stopOnFailure = c.stopOnFailure
        /\ v.visits = Visited(c).visits /\ v.count = c.count + 1
    BY <1>1, VisitedInv
  <1>4. \A i \in Requests : v.visits[i] <= 2
    BY <1>1, NotLooping
  <1> HIDE DEF v
  <1>6. d \in RunState
    BY <1>2 DEF RunState, Phases
  <1>7. RunInv(d)
    BY <1>1, <1>2, <1>3, <1>4, <1>6 DEF RunInv, RunState, InSequence
  <1>8. /\ d.phase \notin {"idle", "waiting"} /\ Follows(c, d)
        /\ d.rows = c.rows /\ d.iter = c.iter /\ d.env = c.env
    BY <1>1, <1>2, <1>3 DEF RunState, Follows
  <1>9. run' = [run EXCEPT ![r] = d]
    BY DEF RunScripts, v
  <1> HIDE DEF d
  <1> QED
    BY <1>7, <1>8, <1>9 DEF RunScripts, Effect

-----------------------------------------------------------------------------
(* Results.                                                                *)

\* A variable that a script sets goes to the clone of its own row.
LEMMA WroteInv ==
  ASSUME NEW r \in Runs, NEW c \in RunState, NEW sets \in BOOLEAN
  PROVE  LET w == Wrote(r, c, sets)
         IN  /\ w \in RunState
             /\ w.env \subseteq c.env \cup {<<r, c.iter>>}
             /\ w.phase = c.phase /\ w.index = c.index /\ w.visits = c.visits
             /\ w.parallel = c.parallel /\ w.stopOnFailure = c.stopOnFailure
             /\ w.failed = c.failed /\ w.rows = c.rows /\ w.iter = c.iter
             /\ w.count = c.count /\ w.stopped = c.stopped
             /\ w.done = c.done /\ w.inflight = c.inflight
  <1> DEFINE env == c.env \cup {<<r, c.iter>>}
  <1>1. env \in SUBSET Writes
    BY DEF RunState, Writes
  <1>2. Wrote(r, c, sets) \in {c, [c EXCEPT !.env = env]}
    BY DEF Wrote
  <1>3. c.env \subseteq env
    OBVIOUS
  <1> HIDE DEF env
  <1>4. [c EXCEPT !.env = env] \in RunState
    BY <1>1 DEF RunState
  <1> QED
    BY <1>2, <1>3, <1>4 DEF RunState, env

\* One more result; a failed one is remembered.
LEMMA CountedInv ==
  ASSUME NEW c \in RunState, NEW i \in Requests, NEW outcome \in Outcomes
  PROVE  LET w == Counted(c, i, outcome)
         IN  /\ w \in RunState
             /\ w.env = c.env /\ w.phase = c.phase /\ w.index = c.index
             /\ w.visits = c.visits
             /\ w.parallel = c.parallel /\ w.stopOnFailure = c.stopOnFailure
             /\ w.failed <=> c.failed \/ outcome # "passed"
             /\ w.rows = c.rows /\ w.iter = c.iter
             /\ w.count = c.count /\ w.stopped = c.stopped
             /\ w.done = c.done + 1 /\ w.inflight = c.inflight \ {i}
  <1> DEFINE done == c.done + 1
             inflight == c.inflight \ {i}
             failed == c.failed \/ outcome # "passed"
  <1>1. done \in Nat /\ inflight \in SUBSET Requests /\ failed \in BOOLEAN
    BY DEF RunState
  <1>2. Counted(c, i, outcome) =
          [c EXCEPT !.done = done, !.inflight = inflight, !.failed = failed]
    BY DEF Counted
  <1>3. failed = (c.failed \/ outcome # "passed")
    OBVIOUS
  <1> HIDE DEF done, inflight, failed
  <1> QED
    BY <1>1, <1>2, <1>3 DEF RunState, done, inflight

\* A request that is sent is the one its scripts ran for.
LEMMA SendEffect ==
  ASSUME AllRunsInv, NEW r \in Runs, Send(r)
  PROVE  Effect(r)
  <1> DEFINE c == run[r]
  <1>1. PICK sets \in BOOLEAN :
          /\ run' = [run EXCEPT ![r] =
                       [Wrote(r, c, sets) EXCEPT !.phase = "waiting",
                            !.signal = controller, !.inflight = {c.index}]]
          /\ SetsLive(r, sets)
    BY DEF Send, AllRunsInv, TypeOK
  <1>2. RunInv(c) /\ c \in RunState /\ c.phase = "scripts" /\ c.index \in Requests
    BY DEF AllRunsInv, Send, RunInv
  <1> DEFINE w == Wrote(r, c, sets)
             d == [w EXCEPT !.phase = "waiting", !.signal = controller,
                            !.inflight = {c.index}]
  <1>3. /\ w \in RunState
        /\ w.env \subseteq c.env \cup {<<r, c.iter>>}
        /\ w.index = c.index /\ w.visits = c.visits
        /\ w.parallel = c.parallel /\ w.stopOnFailure = c.stopOnFailure
        /\ w.failed = c.failed /\ w.rows = c.rows /\ w.iter = c.iter
        /\ w.count = c.count
    BY <1>2, WroteInv
  <1>4. run' = [run EXCEPT ![r] = d]
    BY <1>1
  <1> HIDE DEF w
  <1>5. {c.index} \in SUBSET Requests /\ controller \in Controllers
    BY <1>2 DEF AllRunsInv, TypeOK
  <1>6. d \in RunState
    BY <1>3, <1>5 DEF RunState, Phases
  <1>7. RunInv(d)
    BY <1>2, <1>3, <1>6 DEF RunInv, RunState, InSequence
  <1>8. /\ d.phase # "idle" /\ d.rows = c.rows /\ d.iter = c.iter
        /\ d.env \subseteq c.env \cup {<<r, c.iter>>} /\ Follows(c, d)
        /\ d.signal = controller
    BY <1>3 DEF RunState, Follows
  <1>9. live' = live \/ (~c.rows /\ live' = live \cup {<<r, c.iter>>})
    BY <1>1 DEF SetsLive
  <1> HIDE DEF d
  <1> QED
    BY <1>4, <1>7, <1>8, <1>9 DEF Send, Effect

\* One request of a parallel iteration is answered.
LEMMA ParallelResultEffect ==
  ASSUME AllRunsInv, NEW r \in Runs, ParallelResult(r)
  PROVE  Effect(r)
  <1> DEFINE c == run[r]
  <1>1. PICK i \in c.inflight, outcome \in Outcomes, sets \in BOOLEAN :
          /\ run' = [run EXCEPT ![r] = Wrote(r, Counted(c, i, outcome), sets)]
          /\ SetsLive(r, sets)
    BY DEF ParallelResult, AllRunsInv, TypeOK
  <1>2. RunInv(c) /\ c \in RunState /\ c.phase = "parallel" /\ c.parallel
    BY DEF AllRunsInv, ParallelResult, RunInv
  <1>3. i \in Requests
    BY <1>1, <1>2 DEF RunState
  <1>o. outcome \in Outcomes
    OBVIOUS
  <1> DEFINE k == Counted(c, i, outcome)
             d == Wrote(r, k, sets)
  <1>4. /\ k \in RunState /\ k.env = c.env /\ k.phase = c.phase
        /\ k.parallel = c.parallel /\ k.rows = c.rows /\ k.iter = c.iter
        /\ k.visits = c.visits /\ k.count = c.count
    <2>1. c \in RunState
      BY <1>2
    <2> QED
      BY <2>1, <1>3, <1>o, CountedInv
  <1>5. run' = [run EXCEPT ![r] = d]
    BY <1>1
  <1>6. live' = live \/ (~c.rows /\ live' = live \cup {<<r, c.iter>>})
    BY <1>1 DEF SetsLive
  <1> HIDE DEF k
  <1>7. /\ d \in RunState /\ d.env \subseteq k.env \cup {<<r, k.iter>>}
        /\ d.phase = k.phase /\ d.parallel = k.parallel
        /\ d.rows = k.rows /\ d.iter = k.iter
        /\ d.visits = k.visits /\ d.count = k.count
    BY <1>4, WroteInv
  <1> HIDE DEF d
  <1>8. RunInv(d) /\ d.phase # "idle" /\ Follows(c, d)
    BY <1>2, <1>4, <1>7 DEF RunInv, InSequence, Follows
  <1> QED
    BY <1>4, <1>5, <1>6, <1>7, <1>8 DEF ParallelResult, Effect

\* Leaving the loop, or settling a parallel iteration, ends the iteration.
LEMMA LeavesEffect ==
  ASSUME AllRunsInv, NEW r \in Runs, LeavesLoop(r) \/ AllSettled(r)
  PROVE  Effect(r)
  <1> DEFINE c == run[r]
             stopped == c.stopped \/ c.count >= MaxVisits
             e == [c EXCEPT !.stopped = stopped]
  <1>1. RunInv(c) /\ c \in RunState /\ c.phase # "ended"
    BY DEF AllRunsInv, LeavesLoop, AllSettled, RunInv
  <1>2. UNCHANGED <<aborted, scoped, live, cancelled>>
    BY DEF LeavesLoop, AllSettled
  <1>3. CASE AllSettled(r)
    <2>1. BetweenInv(c) /\ AfterIteration(r, c) /\ Follows(c, c)
      BY <1>1, <1>3 DEF BetweenInv, RunInv, AllSettled, Follows
    <2> QED
      BY <1>2, <2>1, AfterIterationEffect
  <1>4. CASE LeavesLoop(r)
    <2>1. AfterIteration(r, e)
      BY <1>4 DEF LeavesLoop
    <2>2. stopped \in BOOLEAN
      OBVIOUS
    <2> HIDE DEF stopped
    <2>3. BetweenInv(e)
      BY <1>1, <2>2 DEF BetweenInv, RunInv, RunState
    <2>4. e.rows = c.rows /\ e.iter = c.iter /\ e.env = c.env /\ Follows(c, e)
      BY <1>1 DEF RunState, Follows
    <2> HIDE DEF e
    <2> QED
      BY <1>2, <2>1, <2>3, <2>4, AfterIterationEffect
  <1> QED
    BY <1>3, <1>4

\* The next request of the iteration is up, at once or after the delay.
LEMMA GoesOnInv ==
  ASSUME NEW c \in RunState, NEW next \in 1 .. N + 1
  PROVE  LET d == GoesOn(c, next)
         IN  /\ d \in RunState /\ d.phase \in {"next", "delay"}
             /\ d.visits = c.visits /\ d.count = c.count /\ d.done = c.done
             /\ d.parallel = c.parallel /\ d.stopOnFailure = c.stopOnFailure
             /\ d.failed = c.failed /\ d.rows = c.rows
             /\ d.iter = c.iter /\ d.env = c.env
  <1> DEFINE phase == IF c.delay /\ next <= N /\ ~SignalAborted THEN "delay" ELSE "next"
  <1>1. phase \in {"next", "delay"}
    OBVIOUS
  <1>2. GoesOn(c, next) = [c EXCEPT !.phase = phase, !.index = next,
                                    !.signal = NoController]
    BY DEF GoesOn
  <1> HIDE DEF phase
  <1> QED
    BY <1>1, <1>2 DEF RunState, Phases, Controllers

\* The end of a delay changes nothing but the phase.
LEMMA WakesEffect ==
  ASSUME AllRunsInv, NEW r \in Runs, Wakes(r)
  PROVE  Effect(r)
  <1> DEFINE c == run[r]
             d == [c EXCEPT !.phase = "next"]
  <1>1. RunInv(c) /\ c \in RunState /\ c.phase = "delay"
    BY DEF AllRunsInv, RunInv, Wakes
  <1>2. run' = [run EXCEPT ![r] = d] /\ UNCHANGED <<controller, aborted, scoped, live, cancelled>>
    BY DEF Wakes
  <1>3. /\ d \in RunState /\ d.phase = "next" /\ d.visits = c.visits
        /\ d.count = c.count /\ d.parallel = c.parallel
        /\ d.stopOnFailure = c.stopOnFailure /\ d.failed = c.failed
        /\ d.rows = c.rows /\ d.iter = c.iter /\ d.env = c.env
    BY <1>1 DEF RunState, Phases
  <1> HIDE DEF d
  <1>4. RunInv(d) /\ Follows(c, d)
    BY <1>1, <1>3 DEF RunInv, InSequence, Follows
  <1> QED
    BY <1>2, <1>3, <1>4 DEF Effect

\* An answer ends the run, ends the iteration, or jumps within the list.
LEMMA RespondEffect ==
  ASSUME AllRunsInv, NEW r \in Runs, Respond(r)
  PROVE  Effect(r)
  <1> DEFINE b == run[r]
  <1>1. PICK outcome \in Outcomes, sets \in BOOLEAN :
          LET c == Wrote(r, Counted(b, b.index, outcome), sets)
          IN  /\ SetsLive(r, sets)
              /\ IF outcome = "error" /\ SignalAborted
                 THEN AfterIteration(r, [b EXCEPT !.stopped = TRUE])
                 ELSE IF StopsRun(c, outcome)
                 THEN AfterIteration(r, [c EXCEPT !.stopped = TRUE])
                 ELSE \E next \in {c.index + 1} \cup
                                  (IF outcome = "error" THEN {} ELSE Requests) :
                         /\ run' = [run EXCEPT ![r] = GoesOn(c, next)]
                         /\ UNCHANGED controller
    BY DEF Respond
  <1>2. RunInv(b) /\ b \in RunState /\ b.phase = "waiting" /\ b.index \in Requests
    BY DEF AllRunsInv, Respond, RunInv
  <1>o. outcome \in Outcomes
    OBVIOUS
  <1> DEFINE k == Counted(b, b.index, outcome)
             c == Wrote(r, k, sets)
  <1>3. /\ k \in RunState /\ k.env = b.env /\ k.index = b.index
        /\ k.visits = b.visits
        /\ k.parallel = b.parallel /\ k.stopOnFailure = b.stopOnFailure
        /\ k.failed <=> b.failed \/ outcome # "passed"
        /\ k.rows = b.rows /\ k.iter = b.iter /\ k.count = b.count
    BY <1>2, <1>o, CountedInv
  <1>4. /\ SetsLive(r, sets)
        /\ IF outcome = "error" /\ SignalAborted
           THEN AfterIteration(r, [b EXCEPT !.stopped = TRUE])
           ELSE IF StopsRun(c, outcome)
           THEN AfterIteration(r, [c EXCEPT !.stopped = TRUE])
           ELSE \E next \in {c.index + 1} \cup
                            (IF outcome = "error" THEN {} ELSE Requests) :
                   /\ run' = [run EXCEPT ![r] = GoesOn(c, next)]
                   /\ UNCHANGED controller
    BY <1>1
  <1> HIDE DEF k
  <1>5. /\ c \in RunState /\ c.env \subseteq k.env \cup {<<r, k.iter>>}
        /\ c.index = k.index /\ c.visits = k.visits
        /\ c.parallel = k.parallel /\ c.stopOnFailure = k.stopOnFailure
        /\ c.failed = k.failed /\ c.rows = k.rows /\ c.iter = k.iter
        /\ c.count = k.count
    BY <1>3, WroteInv
  <1> HIDE DEF c
  <1>6. live' = live \/ (~b.rows /\ live' = live \cup {<<r, b.iter>>})
    BY <1>4 DEF SetsLive
  <1>7. UNCHANGED <<aborted, scoped, cancelled>>
    BY DEF Respond
  <1>8. CASE outcome = "error" /\ SignalAborted
    <2>1. AfterIteration(r, [b EXCEPT !.stopped = TRUE])
      BY <1>4, <1>8
    <2>2. BetweenInv([b EXCEPT !.stopped = TRUE])
      BY <1>2 DEF BetweenInv, RunState
    <2>3. LET e == [b EXCEPT !.stopped = TRUE]
          IN  e.rows = b.rows /\ e.iter = b.iter /\ e.env = b.env /\ Follows(b, e)
      BY <1>2 DEF RunState, Follows
    <2> QED
      BY <1>6, <1>7, <2>1, <2>2, <2>3, AfterIterationEffect
  <1>9. CASE ~(outcome = "error" /\ SignalAborted) /\ StopsRun(c, outcome)
    <2>1. AfterIteration(r, [c EXCEPT !.stopped = TRUE])
      BY <1>4, <1>9
    <2>2. BetweenInv([c EXCEPT !.stopped = TRUE])
      BY <1>5 DEF BetweenInv, RunState
    <2>3. LET e == [c EXCEPT !.stopped = TRUE]
          IN  e.rows = c.rows /\ e.iter = c.iter /\ e.env = c.env /\ Follows(b, e)
      BY <1>3, <1>5 DEF RunState, Follows
    <2> QED
      BY <1>3, <1>5, <1>6, <1>7, <2>1, <2>2, <2>3, AfterIterationEffect
  <1>10. CASE ~(outcome = "error" /\ SignalAborted) /\ ~StopsRun(c, outcome)
    <2>1. PICK next \in {c.index + 1} \cup
                        (IF outcome = "error" THEN {} ELSE Requests) :
            /\ run' = [run EXCEPT ![r] = GoesOn(c, next)]
            /\ UNCHANGED controller
      BY <1>4, <1>10
    <2>2. next \in 1 .. N + 1
      BY <1>2, <1>3, <1>5, <2>1, ConstantsAssumption DEF Requests
    <2> DEFINE d == GoesOn(c, next)
    <2>5. run' = [run EXCEPT ![r] = d]
      BY <2>1
    <2>3. /\ d \in RunState /\ d.phase \in {"next", "delay"}
          /\ d.visits = c.visits /\ d.count = c.count /\ d.parallel = c.parallel
          /\ d.stopOnFailure = c.stopOnFailure /\ d.failed = c.failed
          /\ d.rows = c.rows /\ d.iter = c.iter /\ d.env = c.env
      BY <1>5, <2>2, GoesOnInv
    <2> HIDE DEF d
    <2>4. Follows(b, d)
      BY <1>3, <1>5, <2>3 DEF Follows
    <2>6. ~b.parallel /\ \A i \in Requests : b.visits[i] <= 2
      BY <1>2 DEF RunInv, InSequence
    <2>7. ~(c.stopOnFailure /\ c.failed)
      BY <1>2, <1>3, <1>5, <1>10, <2>6 DEF RunInv, StopsRun
    <2>8. RunInv(d)
      BY <1>3, <1>5, <2>3, <2>6, <2>7 DEF RunInv
    <2>9. d.env \subseteq b.env \cup {<<r, b.iter>>}
      BY <1>3, <1>5, <2>3
    <2> QED
      BY <1>3, <1>5, <1>6, <1>7, <2>1, <2>3, <2>4, <2>5, <2>8, <2>9 DEF Effect
  <1> QED
    BY <1>8, <1>9, <1>10

\* Every step of a run keeps its own invariant and leaves the other runs alone.
LEMMA StepEffect ==
  ASSUME AllRunsInv, NEW r \in Runs, Step(r)
  PROVE  Effect(r) /\ run[r].phase # "idle"
  <1>1. Effect(r)
    BY BreaksOffEffect, SkipRequestEffect, RunScriptsEffect, SendEffect,
       RespondEffect, WakesEffect, LeavesEffect, ParallelResultEffect DEF Step
  <1>2. run[r].phase # "idle"
    BY DEF Step, BreaksOff, SkipRequest, RunScripts, InLoop, Send, Respond,
           Wakes, LeavesLoop, ParallelResult, AllSettled
  <1> QED
    BY <1>1, <1>2

\* A run starts in its first iteration with a controller of its own.
LEMMA StartEffect ==
  ASSUME AllRunsInv, NEW r \in Runs, StartRun(r)
  PROVE  \E d : /\ RunInv(d)
                /\ run' = [run EXCEPT ![r] = d]
                /\ d.phase # "idle" /\ d.env = live
  <1>1. PICK config \in Configs :
          run' = [run EXCEPT ![r] = NewIteration(Configured(config), r)]
    BY DEF StartRun
  <1>2. /\ config.parallel \in BOOLEAN /\ config.stopOnFailure \in BOOLEAN
        /\ config.rows \in BOOLEAN /\ config.delay \in BOOLEAN
    BY ConstantsAssumption
  <1>3. Idle \in RunState /\ ~Idle.failed
    <2>1. NeverVisited \in [Requests -> 0 .. 3]
      BY DEF NeverVisited
    <2>2. 1 \in 1 .. N + 1 /\ 0 \in 0 .. MaxVisits /\ 1 \in 1 .. Iterations
      BY ConstantsAssumption DEF MaxVisits
    <2> QED
      BY <2>1, <2>2 DEF Idle, RunState, Phases, Controllers
  <1> DEFINE c == Configured(config)
             d == NewIteration(c, r)
  <1>4. c \in RunState /\ ~c.failed
    BY <1>2, <1>3 DEF Configured, RunState
  <1>5. r \in Controllers /\ live \in SUBSET Writes
    BY DEF Controllers, AllRunsInv, TypeOK
  <1>6. RunInv(d)
    BY <1>4, <1>5, NewIterationInv
  <1> HIDE DEF c
  <1>7. d.phase # "idle" /\ d.env = live
    BY <1>4 DEF NewIteration, RunState
  <1> QED
    BY <1>1, <1>6, <1>7 DEF c

-----------------------------------------------------------------------------
(* Counting visits.                                                        *)

\* There are finitely many visits to count.
LEMMA OrdinalsFinite ==
  ASSUME NEW visits
  PROVE  IsFiniteSet(Ordinals(visits))
  <1>1. IsFiniteSet(Requests) /\ IsFiniteSet(1 .. 3)
    <2>1. 1 \in Int /\ 3 \in Int /\ N \in Int
      BY ConstantsAssumption
    <2>2. IsFiniteSet(1 .. N)
      BY <2>1, FS_Interval
    <2>3. IsFiniteSet(1 .. 3)
      BY <2>1, FS_Interval
    <2> QED
      BY <2>2, <2>3 DEF Requests
  <1>2. IsFiniteSet(Requests \X (1 .. 3))
    BY <1>1, FS_Product
  <1>3. Ordinals(visits) \in SUBSET (Requests \X (1 .. 3))
    BY DEF Ordinals
  <1> QED
    BY <1>2, <1>3, FS_Subset

\* One more visit is one more ordinal.
LEMMA OneMoreVisit ==
  ASSUME NEW visits \in [Requests -> 0 .. 3], NEW i \in Requests, visits[i] \in 0 .. 2
  PROVE  Cardinality(Ordinals([visits EXCEPT ![i] = visits[i] + 1]))
            = Cardinality(Ordinals(visits)) + 1
  <1> DEFINE more == [visits EXCEPT ![i] = visits[i] + 1]
             new == <<i, visits[i] + 1>>
  <1>1. ASSUME NEW v \in Requests \X (1 .. 3)
        PROVE  v \in Ordinals(more) <=> v \in Ordinals(visits) \cup {new}
    <2>1. PICK j \in Requests, k \in 1 .. 3 : v = <<j, k>>
      OBVIOUS
    <2>2. more[j] = IF j = i THEN visits[i] + 1 ELSE visits[j]
      OBVIOUS
    <2>3. v = new <=> j = i /\ k = visits[i] + 1
      BY <2>1
    <2>4. k <= more[j] <=> k <= visits[j] \/ (j = i /\ k = visits[i] + 1)
      <3>1. visits[i] \in 0 .. 2 /\ visits[j] \in 0 .. 3 /\ k \in 1 .. 3
        OBVIOUS
      <3>2. CASE j = i
        BY <2>2, <3>1, <3>2
      <3>3. CASE j # i
        BY <2>2, <3>3
      <3> QED
        BY <3>2, <3>3
    <2>5. v[1] = j /\ v[2] = k
      BY <2>1
    <2> HIDE DEF more, new
    <2> QED
      BY <2>3, <2>4, <2>5 DEF Ordinals
  <1>2. new \in Requests \X (1 .. 3) /\ new \notin Ordinals(visits)
    BY DEF Ordinals
  <1>3. Ordinals(more) = Ordinals(visits) \cup {new}
    <2> HIDE DEF more, new
    <2>1. /\ Ordinals(more) \subseteq Requests \X (1 .. 3)
          /\ Ordinals(visits) \subseteq Requests \X (1 .. 3)
      BY DEF Ordinals
    <2> QED
      BY <1>1, <1>2, <2>1
  <1> HIDE DEF more, new
  <1>4. Cardinality(Ordinals(more)) = Cardinality(Ordinals(visits)) + 1
    BY <1>2, <1>3, OrdinalsFinite, FS_AddElement
  <1> QED
    BY <1>4 DEF more

\* No visits at all.
LEMMA NoVisits ==
  ASSUME NEW c, c.visits = NeverVisited, c.count = 0
  PROVE  CountInv(c)
  <1>1. Ordinals(NeverVisited) = {}
    BY DEF Ordinals, NeverVisited
  <1>2. 1 \in Requests
    BY ConstantsAssumption DEF Requests
  <1> QED
    BY <1>1, <1>2, FS_EmptySet DEF CountInv, NeverVisited

\* Whatever a step does to the visits, the count follows.
LEMMA CountFollows ==
  ASSUME NEW b, RunInv(b), CountInv(b), NEW d, Follows(b, d)
  PROVE  CountInv(d)
  <1>1. CASE d.visits = b.visits /\ d.count = b.count
    BY <1>1 DEF CountInv
  <1>2. CASE d.visits = NeverVisited /\ d.count = 0
    BY <1>2, NoVisits
  <1>3. CASE InLoop(b) /\ d.visits = Visited(b).visits /\ d.count = b.count + 1
    <2>1. /\ b.index \in Requests
          /\ b.visits \in [Requests -> 0 .. 3]
          /\ b.visits[b.index] \in 0 .. 2
          /\ d.visits = [b.visits EXCEPT ![b.index] = b.visits[b.index] + 1]
      BY <1>3, VisitedInv
    <2>2. Cardinality(Ordinals(d.visits)) = Cardinality(Ordinals(b.visits)) + 1
      BY <2>1, OneMoreVisit
    <2>3. \A i \in Requests : b.visits[i] <= 2
      BY <1>3 DEF RunInv, InLoop, InSequence
    <2>4. \A i \in Requests \ {b.index} : d.visits[i] <= 2
      BY <2>1, <2>3
    <2> QED
      BY <1>3, <2>1, <2>2, <2>4 DEF CountInv
  <1> QED
    BY <1>1, <1>2, <1>3 DEF Follows

\* Two visits of every request, and a third of one.
LEMMA CountBound ==
  ASSUME NEW c, RunInv(c), CountInv(c)
  PROVE  c.count <= 2 * N + 1
  <1>1. PICK e \in Requests : \A i \in Requests \ {e} : c.visits[i] <= 2
    BY DEF CountInv
  <1> DEFINE two == Requests \X (1 .. 2)
             all == two \cup {<<e, 3>>}
  <1>2. Ordinals(c.visits) \subseteq all
    <2> SUFFICES ASSUME NEW v \in Ordinals(c.visits) PROVE v \in all
      OBVIOUS
    <2>1. PICK j \in Requests, k \in 1 .. 3 : v = <<j, k>> /\ k <= c.visits[j]
      BY DEF Ordinals
    <2>2. CASE k \in 1 .. 2
      BY <2>1, <2>2
    <2>3. CASE k = 3
      <3>1. c.visits[j] \in 0 .. 3
        BY DEF RunInv, RunState
      <3>2. j = e
        BY <1>1, <2>1, <2>3, <3>1
      <3> QED
        BY <2>1, <2>3, <3>2
    <2> QED
      BY <2>2, <2>3
  <1>3. IsFiniteSet(Requests) /\ Cardinality(Requests) = N
    BY FS_Interval, ConstantsAssumption DEF Requests
  <1>4. IsFiniteSet(1 .. 2) /\ Cardinality(1 .. 2) = 2
    <2>1. 1 \in Int /\ 2 \in Int
      OBVIOUS
    <2>2. IsFiniteSet(1 .. 2) /\ Cardinality(1 .. 2) = IF 1 > 2 THEN 0 ELSE 2 - 1 + 1
      BY <2>1, FS_Interval
    <2> QED
      BY <2>2
  <1>5. IsFiniteSet(two) /\ Cardinality(two) = N * 2
    BY <1>3, <1>4, FS_Product
  <1> HIDE DEF two
  <1>6. IsFiniteSet(all) /\ Cardinality(all) <= N * 2 + 1
    <2>1. /\ IsFiniteSet(all)
          /\ Cardinality(all) = IF <<e, 3>> \in two THEN Cardinality(two)
                                ELSE Cardinality(two) + 1
      BY <1>5, FS_AddElement
    <2> QED
      BY <1>5, <2>1, ConstantsAssumption
  <1> HIDE DEF all
  <1>7. Cardinality(Ordinals(c.visits)) <= Cardinality(all)
    BY <1>2, <1>6, FS_Subset
  <1>8. Cardinality(Ordinals(c.visits)) \in Nat /\ Cardinality(all) \in Nat
    BY <1>6, OrdinalsFinite, FS_CardinalityType
  <1> QED
    BY <1>6, <1>7, <1>8, ConstantsAssumption DEF CountInv

-----------------------------------------------------------------------------
(* Counting the results of parallel runs.                                  *)

\* The requests of an iteration are skipped or sent.
LEMMA SplitRequests ==
  /\ Cardinality(Unsupported) \in Nat
  /\ Cardinality(Requests \ Unsupported) = N - Cardinality(Unsupported)
  <1>1. IsFiniteSet(Requests) /\ Cardinality(Requests) = N
    BY FS_Interval, ConstantsAssumption DEF Requests
  <1>2. Cardinality(Requests \ Unsupported)
          = Cardinality(Requests) - Cardinality(Requests \cap Unsupported)
    BY <1>1, FS_Difference
  <1>3. Requests \cap Unsupported = Unsupported
    BY ConstantsAssumption
  <1> QED
    BY <1>1, <1>2, <1>3, SkippedIsNat

\* An iteration starts with everything before it answered.
LEMMA NewIterationSent ==
  ASSUME NEW c \in RunState, NEW current,
         c.parallel => ~c.stopped /\ c.done + N = c.iter * N
  PROVE  SentInv(NewIteration(c, current))
  <1>1. CASE c.parallel
    <2> DEFINE sent == Requests \ Unsupported
               done == c.done + Cardinality(Unsupported)
               d == NewIteration(c, current)
    <2>1. /\ d.phase = "parallel" /\ d.stopped = c.stopped
          /\ d.done = done /\ d.inflight = sent /\ d.iter = c.iter
      BY <1>1 DEF NewIteration, RunState
    <2>2. done + Cardinality(sent) = c.done + N
      BY SplitRequests, ConstantsAssumption DEF RunState
    <2> HIDE DEF d, done, sent
    <2> QED
      BY <1>1, <2>1, <2>2 DEF SentInv, d
  <1>2. CASE ~c.parallel
    <2>1. ~NewIteration(c, current).parallel
      BY <1>2 DEF NewIteration, RunState
    <2> QED
      BY <2>1 DEF SentInv
  <1> QED
    BY <1>1, <1>2 DEF RunState

\* A result takes a request out of those in flight.
LEMMA ParallelResultSent ==
  ASSUME AllRunsInv, NEW r \in Runs, SentInv(run[r]), ParallelResult(r)
  PROVE  SentInv(run'[r])
  <1> DEFINE c == run[r]
  <1>1. PICK i \in c.inflight, outcome \in Outcomes, sets \in BOOLEAN :
          run' = [run EXCEPT ![r] = Wrote(r, Counted(c, i, outcome), sets)]
    BY DEF ParallelResult, AllRunsInv, TypeOK
  <1>2. c \in RunState /\ c.phase = "parallel" /\ c.parallel /\ run \in [Runs -> RunState]
    BY DEF AllRunsInv, ParallelResult, RunInv, TypeOK
  <1>3. i \in Requests
    BY <1>1, <1>2 DEF RunState
  <1>o. outcome \in Outcomes
    OBVIOUS
  <1> DEFINE k == Counted(c, i, outcome)
             d == Wrote(r, k, sets)
  <1>4. /\ k \in RunState /\ k.phase = c.phase /\ k.parallel = c.parallel
        /\ k.iter = c.iter /\ k.stopped = c.stopped
        /\ k.done = c.done + 1 /\ k.inflight = c.inflight \ {i}
    <2>1. c \in RunState
      BY <1>2
    <2> QED
      BY <2>1, <1>3, <1>o, CountedInv
  <1>5. run'[r] = d
    BY <1>1, <1>2
  <1> HIDE DEF k
  <1>6. /\ d.phase = k.phase /\ d.parallel = k.parallel /\ d.iter = k.iter
        /\ d.stopped = k.stopped /\ d.done = k.done /\ d.inflight = k.inflight
    BY <1>4, WroteInv
  <1> HIDE DEF d
  <1>7. IsFiniteSet(c.inflight)
    <2>1. IsFiniteSet(Requests)
      BY FS_Interval, ConstantsAssumption DEF Requests
    <2>2. c.inflight \in SUBSET Requests
      BY <1>2 DEF RunState
    <2> QED
      BY <2>1, <2>2, FS_Subset
  <1>8. /\ Cardinality(c.inflight) \in Nat
        /\ Cardinality(c.inflight \ {i}) = Cardinality(c.inflight) - 1
    BY <1>1, <1>7, FS_CardinalityType, FS_RemoveElement
  <1>9. d.done + Cardinality(d.inflight) = c.done + Cardinality(c.inflight)
    BY <1>2, <1>4, <1>6, <1>8 DEF RunState
  <1> QED
    BY <1>2, <1>4, <1>5, <1>6, <1>9 DEF SentInv

\* An iteration is over when all its requests are answered, and the run with its
\* last iteration: no cancel ever shows in the signal.
LEMMA AllSettledSent ==
  ASSUME AllRunsInv, ~SignalAborted, NEW r \in Runs, SentInv(run[r]), AllSettled(r)
  PROVE  SentInv(run'[r])
  <1> DEFINE c == run[r]
  <1>1. /\ c \in RunState /\ c.phase = "parallel" /\ c.parallel
        /\ run \in [Runs -> RunState] /\ AfterIteration(r, c) /\ c.inflight = {}
    BY DEF AllRunsInv, AllSettled, RunInv, TypeOK, Settled
  <1>2. ~c.stopped /\ c.done = c.iter * N
    <2>1. c.done \in Nat /\ c.done + 0 = c.iter * N /\ ~c.stopped
      BY <1>1, FS_EmptySet DEF SentInv, RunState
    <2> QED
      BY <2>1
  <1>3. CASE LastIteration(c)
    <2>1. c.iter = Iterations
      BY <1>2, <1>3 DEF LastIteration
    <2> DEFINE d == [c EXCEPT !.phase = "ended",
                         !.stopped = @ \/ (SignalAborted /\ c.iter < Iterations)]
    <2>2. run' = [run EXCEPT ![r] = d]
      BY <1>1, <1>3 DEF AfterIteration
    <2>3. d.phase = "ended" /\ d.done = c.done
      BY <1>1 DEF RunState
    <2> HIDE DEF d
    <2>4. run'[r] = d
      BY <1>1, <2>2
    <2> QED
      BY <1>2, <2>1, <2>3, <2>4 DEF SentInv
  <1>4. CASE ~LastIteration(c)
    <2> DEFINE b == [c EXCEPT !.iter = @ + 1]
    <2>1. c.iter \in 1 .. Iterations /\ c.iter # Iterations /\ c.done \in Nat
      BY <1>1, <1>4 DEF RunState, LastIteration
    <2>2. b \in RunState
      BY <1>1, <2>1, ConstantsAssumption DEF RunState
    <2>3. b.iter = c.iter + 1 /\ b.done = c.done /\ b.stopped = c.stopped
      BY <1>1 DEF RunState
    <2>4. c.iter * N + N = (c.iter + 1) * N
      BY <2>1, ConstantsAssumption
    <2>5. run' = [run EXCEPT ![r] = NewIteration(b, controller)]
      BY <1>1, <1>4 DEF AfterIteration
    <2> HIDE DEF b
    <2>6. SentInv(NewIteration(b, controller))
      BY <1>2, <2>2, <2>3, <2>4, NewIterationSent
    <2>7. run'[r] = NewIteration(b, controller)
      BY <1>1, <2>5
    <2> QED
      BY <2>6, <2>7
  <1> QED
    BY <1>3, <1>4

\* Every step of a run keeps its counts.
LEMMA StepCounts ==
  ASSUME AllRunsInv, ~SignalAborted, NEW r \in Runs, Step(r),
         CountInv(run[r]), SentInv(run[r])
  PROVE  /\ CountInv(run'[r]) /\ SentInv(run'[r])
         /\ \A q \in Runs \ {r} : run'[q] = run[q]
  <1>1. PICK d : run' = [run EXCEPT ![r] = d] /\ Follows(run[r], d) /\ d.phase # "idle"
    BY StepEffect DEF Effect
  <1>2. run'[r] = d /\ \A q \in Runs \ {r} : run'[q] = run[q]
    BY <1>1 DEF AllRunsInv, TypeOK
  <1>3. CountInv(run'[r])
    BY <1>1, <1>2, CountFollows DEF AllRunsInv
  <1>4. CASE run[r].parallel
    <2>1. run[r].phase \notin InSequence
      BY <1>4 DEF AllRunsInv, RunInv
    <2>2. ParallelResult(r) \/ AllSettled(r)
      BY <2>1 DEF Step, BreaksOff, SkipRequest, RunScripts, InLoop, Send, Respond,
                  Wakes, LeavesLoop, InSequence
    <2> QED
      BY <1>2, <1>3, <2>2, ParallelResultSent, AllSettledSent
  <1>5. CASE ~run[r].parallel
    <2>1. ~d.parallel
      BY <1>1, <1>5 DEF Follows
    <2> QED
      BY <1>2, <1>3, <2>1 DEF SentInv
  <1> QED
    BY <1>4, <1>5

\* A run starts with nothing visited and nothing sent before.
LEMMA StartCounts ==
  ASSUME AllRunsInv, NEW r \in Runs, StartRun(r)
  PROVE  /\ CountInv(run'[r]) /\ SentInv(run'[r])
         /\ \A q \in Runs \ {r} : run'[q] = run[q]
  <1>1. PICK config \in Configs :
          run' = [run EXCEPT ![r] = NewIteration(Configured(config), r)]
    BY DEF StartRun
  <1> DEFINE c == Configured(config)
             d == NewIteration(c, r)
  <1>2. run'[r] = d /\ \A q \in Runs \ {r} : run'[q] = run[q]
    BY <1>1 DEF AllRunsInv, TypeOK
  <1>3. /\ config.parallel \in BOOLEAN /\ config.stopOnFailure \in BOOLEAN
        /\ config.rows \in BOOLEAN /\ config.delay \in BOOLEAN
    BY ConstantsAssumption
  <1>4. Idle \in RunState
    <2>1. NeverVisited \in [Requests -> 0 .. 3]
      BY DEF NeverVisited
    <2>2. 1 \in 1 .. N + 1 /\ 0 \in 0 .. MaxVisits /\ 1 \in 1 .. Iterations
      BY ConstantsAssumption DEF MaxVisits
    <2> QED
      BY <2>1, <2>2 DEF Idle, RunState, Phases, Controllers
  <1>5. /\ c \in RunState /\ ~c.stopped /\ c.done = 0 /\ c.iter = 1
        /\ c.visits = NeverVisited /\ c.count = 0
    BY <1>3, <1>4 DEF Configured, Idle, RunState
  <1> HIDE DEF c
  <1>6. d.visits = NeverVisited /\ d.count = 0
    BY <1>5 DEF NewIteration, RunState
  <1>7. c.done + N = c.iter * N
    BY <1>5, ConstantsAssumption
  <1>8. SentInv(d)
    BY <1>5, <1>7, NewIterationSent
  <1> HIDE DEF d
  <1> QED
    BY <1>2, <1>6, <1>8, NoVisits

-----------------------------------------------------------------------------
(* All runs together.                                                      *)

\* Before anything started, all runs are idle.
LEMMA RunsInit == Init => AllRunsInv
  <1> SUFFICES ASSUME Init PROVE AllRunsInv
    OBVIOUS
  <1>1. NeverVisited \in [Requests -> 0 .. 3]
    BY DEF NeverVisited
  <1>2. 1 \in 1 .. N + 1 /\ 0 \in 0 .. MaxVisits /\ 1 \in 1 .. Iterations
    BY ConstantsAssumption DEF MaxVisits
  <1>3. Idle \in RunState
    BY <1>1, <1>2 DEF Idle, RunState, Phases, Controllers
  <1>4. RunInv(Idle)
    BY <1>3 DEF RunInv, Idle, InSequence
  <1> QED
    BY <1>3, <1>4 DEF Init, AllRunsInv, TypeOK, Controllers

\* A step of one run, or a cancel, keeps the invariants of all runs.
LEMMA RunsInductive == AllRunsInv /\ [Next]_vars => AllRunsInv'
  <1> SUFFICES ASSUME AllRunsInv, [Next]_vars PROVE AllRunsInv'
    OBVIOUS
  <1>1. ASSUME NEW r \in Runs, NEW d, RunInv(d), run' = [run EXCEPT ![r] = d]
        PROVE  run' \in [Runs -> RunState] /\ \A q \in Runs : RunInv(run'[q])
    BY <1>1 DEF AllRunsInv, TypeOK, RunInv
  <1>2. ASSUME NEW r \in Runs, StartRun(r) PROVE AllRunsInv'
    <2>1. run' \in [Runs -> RunState] /\ \A q \in Runs : RunInv(run'[q])
      BY <1>1, <1>2, StartEffect
    <2>2. controller' \in Controllers /\ scoped' \in Controllers
      BY <1>2 DEF StartRun, Controllers
    <2> QED
      BY <1>2, <2>1, <2>2 DEF StartRun, AllRunsInv, TypeOK
  <1>3. ASSUME NEW r \in Runs, Step(r) PROVE AllRunsInv'
    <2>0. Effect(r)
      BY <1>3, StepEffect
    <2>1. run' \in [Runs -> RunState] /\ \A q \in Runs : RunInv(run'[q])
      BY <1>1, <2>0 DEF Effect
    <2>2. <<r, run[r].iter>> \in Writes
      <3>1. run[r] \in RunState
        BY DEF AllRunsInv, TypeOK
      <3> QED
        BY <3>1 DEF RunState, Writes
    <2>3. live' \in SUBSET Writes
      BY <2>0, <2>2 DEF Effect, AllRunsInv, TypeOK
    <2>4. controller' \in Controllers
      BY <2>0 DEF Effect, AllRunsInv, TypeOK, Controllers
    <2> QED
      BY <2>0, <2>1, <2>3, <2>4 DEF Effect, AllRunsInv, TypeOK
  <1>4. ASSUME NEW r \in Runs, Cancel(r) PROVE AllRunsInv'
    BY <1>4 DEF Cancel, AbortController, AllRunsInv, TypeOK, Controllers
  <1>5. CASE UNCHANGED vars
    BY <1>5 DEF vars, AllRunsInv, TypeOK
  <1> QED
    BY <1>2, <1>3, <1>4, <1>5 DEF Next

\* A controller is aborted and forgotten in one step, and no run ever makes the
\* same one again.
LEMMA AbortInductive == AllRunsInv /\ AbortInv /\ [Next]_vars => AbortInv'
  <1> SUFFICES ASSUME AllRunsInv, AbortInv, [Next]_vars PROVE AbortInv'
    OBVIOUS
  <1>0. aborted \in SUBSET Runs /\ run \in [Runs -> RunState] /\ NoController \notin Runs
        /\ controller \in Controllers
    BY ConstantsAssumption DEF AllRunsInv, TypeOK
  <1>1. ASSUME NEW r \in Runs, StartRun(r) PROVE AbortInv'
    <2>1. PICK d : run' = [run EXCEPT ![r] = d] /\ d.phase # "idle"
      BY <1>1, StartEffect
    <2>2. controller' = r /\ aborted' = aborted /\ run[r].phase = "idle"
      BY <1>1 DEF StartRun
    <2>3. r \notin aborted
      BY <2>2 DEF AbortInv
    <2> QED
      BY <1>0, <2>1, <2>2, <2>3 DEF AbortInv, Controllers
  <1>2. ASSUME NEW r \in Runs, Step(r) PROVE AbortInv'
    <2>0. Effect(r)
      BY <1>2, StepEffect
    <2>1. PICK d : run' = [run EXCEPT ![r] = d] /\ d.phase # "idle"
      BY <2>0 DEF Effect
    <2>2. controller' \in {controller, NoController} /\ aborted' = aborted
      BY <2>0 DEF Effect
    <2> QED
      BY <1>0, <2>1, <2>2 DEF AbortInv, Controllers
  <1>3. ASSUME NEW r \in Runs, Cancel(r) PROVE AbortInv'
    BY <1>0, <1>3 DEF Cancel, AbortController, AbortInv
  <1>4. CASE UNCHANGED vars
    BY <1>4 DEF vars, AbortInv
  <1> QED
    BY <1>1, <1>2, <1>3, <1>4 DEF Next

\* A row's clone takes in nothing but its own variables and what is live.
LEMMA RowInductive == AllRunsInv /\ RowInv /\ [Next]_vars => RowInv'
  <1> SUFFICES ASSUME AllRunsInv, RowInv, [Next]_vars PROVE RowInv'
    OBVIOUS
  <1>0. /\ run \in [Runs -> RunState] /\ live \in SUBSET Writes
        /\ \A q \in Runs : run[q].env \in SUBSET Writes
        /\ \A w \in Writes : w[1] \in Runs
    BY DEF AllRunsInv, TypeOK, RunState, Writes
  \* What was set without rows stays so: a run keeps its configuration.
  <1>a. ASSUME NEW r \in Runs, NEW d, run' = [run EXCEPT ![r] = d],
               d.phase # "idle", Started(r) => d.rows = run[r].rows
        PROVE  \A q \in Runs : Unrowed(q) => Unrowed(q)'
    BY <1>0, <1>a DEF Unrowed, Started
  <1>1. ASSUME NEW r \in Runs, StartRun(r) PROVE RowInv'
    <2>1. PICK d : run' = [run EXCEPT ![r] = d] /\ d.phase # "idle" /\ d.env = live
      BY <1>1, StartEffect
    <2>2. ~Started(r) /\ live' = live
      BY <1>1 DEF StartRun, Started
    <2>3. \A q \in Runs : Unrowed(q) => Unrowed(q)'
      BY <1>a, <2>1, <2>2
    <2>4. \A w \in live' : Unrowed(w[1])'
      BY <1>0, <2>2, <2>3 DEF RowInv
    <2>5. ASSUME NEW q \in Runs, run'[q].rows, NEW w \in run'[q].env
          PROVE  w = <<q, run'[q].iter>> \/ Unrowed(w[1])'
      <3>1. CASE q = r
        BY <1>0, <2>1, <2>2, <2>4, <2>5, <3>1
      <3>2. CASE q # r
        <4>1. run'[q] = run[q]
          BY <1>0, <2>1, <3>2
        <4> QED
          BY <1>0, <2>3, <2>5, <4>1 DEF RowInv, Started
      <3> QED
        BY <3>1, <3>2
    <2> QED
      BY <2>4, <2>5 DEF RowInv
  <1>2. ASSUME NEW r \in Runs, Step(r) PROVE RowInv'
    <2>0. Effect(r) /\ Started(r)
      BY <1>2, StepEffect DEF Started
    <2>1. PICK d : /\ run' = [run EXCEPT ![r] = d]
                   /\ d.phase # "idle" /\ d.rows = run[r].rows
                   /\ \/ d.env = live
                      \/ /\ d.iter = run[r].iter
                         /\ d.env \subseteq run[r].env \cup {<<r, run[r].iter>>}
      BY <2>0 DEF Effect
    <2>2. live' = live \/ (~run[r].rows /\ live' = live \cup {<<r, run[r].iter>>})
      BY <2>0 DEF Effect
    <2>3. \A q \in Runs : Unrowed(q) => Unrowed(q)'
      BY <1>a, <2>1
    <2>4. \A w \in live' : Unrowed(w[1])'
      BY <1>0, <2>0, <2>2, <2>3 DEF RowInv, Unrowed
    <2>5. ASSUME NEW q \in Runs, run'[q].rows, NEW w \in run'[q].env
          PROVE  w = <<q, run'[q].iter>> \/ Unrowed(w[1])'
      <3>1. CASE q = r
        <4>1. run'[r] = d /\ d.rows /\ w \in d.env
          BY <1>0, <2>1, <2>5, <3>1
        <4>2. CASE d.env = live
          BY <1>0, <2>3, <4>1, <4>2 DEF RowInv
        <4>3. CASE /\ d.iter = run[r].iter
                   /\ d.env \subseteq run[r].env \cup {<<r, run[r].iter>>}
          BY <1>0, <2>0, <2>1, <2>3, <3>1, <4>1, <4>3 DEF RowInv
        <4> QED
          BY <2>1, <4>2, <4>3
      <3>2. CASE q # r
        <4>1. run'[q] = run[q]
          BY <1>0, <2>1, <3>2
        <4> QED
          BY <1>0, <2>3, <2>5, <4>1 DEF RowInv, Started
      <3> QED
        BY <3>1, <3>2
    <2> QED
      BY <2>4, <2>5 DEF RowInv
  <1>3. CASE UNCHANGED <<run, live>>
    BY <1>3 DEF RowInv, Unrowed, Started
  <1> QED
    BY <1>1, <1>2, <1>3 DEF Next, Cancel, vars

\* Every run keeps its counts, whatever the others do.
LEMMA CountsInductive ==
  AllRunsInv /\ AbortInv /\ AllCounts /\ [Next]_vars => AllCounts'
  <1> SUFFICES ASSUME AllRunsInv, AbortInv, AllCounts, [Next]_vars PROVE AllCounts'
    OBVIOUS
  <1>0. ~SignalAborted
    BY DEF AbortInv, SignalAborted
  <1>1. ASSUME NEW r \in Runs, StartRun(r) PROVE AllCounts'
    BY <1>1, StartCounts DEF AllCounts
  <1>2. ASSUME NEW r \in Runs, Step(r) PROVE AllCounts'
    BY <1>0, <1>2, StepCounts DEF AllCounts
  <1>3. CASE UNCHANGED run
    BY <1>3 DEF AllCounts
  <1> QED
    BY <1>1, <1>2, <1>3 DEF Next, Cancel, vars

\* A run that is alone keeps its controller until it is over or cancelled.
LEMMA SoloInductive == AllRunsInv /\ SoloInv /\ [Next]_vars => SoloInv'
  <1> SUFFICES ASSUME AllRunsInv, SoloInv, [Next]_vars,
                      NEW r \in Runs, Alone(r)', Active(r)', r \notin cancelled'
               PROVE  /\ controller' = r
                      /\ run'[r].phase = "waiting" => run'[r].signal = r
    BY DEF SoloInv
  <1>0. run \in [Runs -> RunState]
    BY DEF AllRunsInv, TypeOK
  <1>1. ASSUME NEW q \in Runs, NEW d, run' = [run EXCEPT ![q] = d], d.phase # "idle"
        PROVE  q = r /\ run'[r] = d /\ Alone(r)
    BY <1>0, <1>1 DEF Alone
  <1>2. ASSUME NEW q \in Runs, StartRun(q)
        PROVE  controller' = r /\ run'[r].phase # "waiting"
    <2>1. PICK config \in Configs :
            run' = [run EXCEPT ![q] = NewIteration(Configured(config), q)]
      BY <1>2 DEF StartRun
    <2> DEFINE d == NewIteration(Configured(config), q)
    <2>2. d.phase \notin {"idle", "waiting"}
      BY DEF NewIteration, Configured, Idle
    <2> HIDE DEF d
    <2>3. run' = [run EXCEPT ![q] = d]
      BY <2>1 DEF d
    <2> QED
      BY <1>1, <1>2, <2>2, <2>3 DEF StartRun
  <1>3. ASSUME NEW q \in Runs, Step(q)
        PROVE  controller' = r /\ (run'[r].phase = "waiting" => run'[r].signal = r)
    <2>1. PICK d : /\ run' = [run EXCEPT ![q] = d] /\ d.phase # "idle"
                   /\ d.phase = "waiting" => d.signal = controller
                   /\ controller' = controller \/ d.phase = "ended"
      BY <1>3, StepEffect DEF Effect
    <2>2. q = r /\ run'[r] = d /\ Alone(r)
      BY <1>1, <2>1
    <2>3. Active(r) /\ r \notin cancelled
      <3>1. run[r].phase # "idle" /\ cancelled' = cancelled
        BY <1>3, <2>2, StepEffect DEF Effect
      <3>2. run[r].phase # "ended"
        BY <1>3, <2>2 DEF Step, BreaksOff, SkipRequest, RunScripts, InLoop, Send,
                          Respond, Wakes, LeavesLoop, ParallelResult, AllSettled
      <3> QED
        BY <3>1, <3>2 DEF Active
    <2>4. controller = r
      BY <2>2, <2>3 DEF SoloInv
    <2>5. controller' = controller
      BY <2>1, <2>2 DEF Active
    <2> QED
      BY <2>1, <2>2, <2>4, <2>5
  <1>4. ASSUME NEW q \in Runs, Cancel(q) PROVE FALSE
    <2>1. run[q].phase # "idle" /\ cancelled' = cancelled \cup {q} /\ run' = run
      BY <1>4 DEF Cancel
    <2> QED
      BY <2>1 DEF Alone
  <1>5. CASE UNCHANGED vars
    BY <1>5 DEF vars, SoloInv, Alone, Active
  <1> QED
    BY <1>2, <1>3, <1>4, <1>5 DEF Next

-----------------------------------------------------------------------------
(* Theorems.                                                               *)

\* Every run keeps to RunInv, whatever the other runs and their cancels do.
THEOREM RunsAlwaysInv == Spec => []AllRunsInv
  BY RunsInit, RunsInductive, PTL DEF Spec

\* TypeOK, for any number of runs of any length: in particular an index, a visit
\* count and the number of visits stay within the bounds the loop relies on.
THEOREM TypeCorrect == Spec => []TypeOK
  <1>1. AllRunsInv => TypeOK
    BY DEF AllRunsInv
  <1> QED
    BY <1>1, RunsAlwaysInv, PTL

\* FailureIsLast: Stop on first failure ends every run at its first failure, with
\* any jumps, iterations and other runs.
THEOREM FailureAlwaysLast == Spec => []FailureIsLast
  <1>1. AllRunsInv => FailureIsLast
    BY DEF AllRunsInv, RunInv, FailureIsLast, Ended
  <1> QED
    BY <1>1, RunsAlwaysInv, PTL

\* NoThirdVisit, the half of VisitsBounded that the loop detector answers for: no
\* request is sent a third time within an iteration, whatever the scripts ask for.
THEOREM NeverThirdVisit == Spec => []NoThirdVisit
  <1>1. AllRunsInv => NoThirdVisit
    BY DEF AllRunsInv, RunInv, NoThirdVisit, InSequence
  <1> QED
    BY <1>1, RunsAlwaysInv, PTL

\* No check of the abort signal in runCollection is ever true: cancel forgets the
\* controller it aborts, and every later run makes its own.  This is why Cancel
\* stops at most the requests in flight.
THEOREM AbortNeverSeen == Spec => []~SignalAborted
  <1>1. Init => AbortInv
    BY ConstantsAssumption DEF Init, AbortInv
  <1>2. AbortInv => ~SignalAborted
    BY DEF AbortInv, SignalAborted
  <1> QED
    BY <1>1, <1>2, AbortInductive, RunsAlwaysInv, PTL DEF Spec

\* The counts of every run, whatever the other runs and their cancels do.
THEOREM CountsAlways == Spec => []AllCounts
  <1>1. Init => AbortInv
    BY ConstantsAssumption DEF Init, AbortInv
  <1>2. Init => AllCounts
    <2> SUFFICES ASSUME Init, NEW r \in Runs PROVE CountInv(run[r]) /\ SentInv(run[r])
      BY DEF AllCounts
    <2>1. run[r] = Idle
      BY DEF Init
    <2>2. Idle.visits = NeverVisited /\ Idle.count = 0 /\ ~Idle.parallel
      BY DEF Idle
    <2> QED
      BY <2>1, <2>2, NoVisits DEF SentInv
  <1> QED
    BY <1>1, <1>2, AbortInductive, CountsInductive, RunsAlwaysInv, PTL DEF Spec

\* VisitsBounded: an iteration breaks off after at most two visits of every request
\* and one more, for lists of any length, so the limit of three times their number
\* never decides.
THEOREM VisitsAlwaysBounded == Spec => []VisitsBounded
  <1>1. AllRunsInv /\ AllCounts => \A r \in Runs : run[r].count <= 2 * N + 1
    BY CountBound DEF AllRunsInv, AllCounts
  <1> QED
    BY <1>1, RunsAlwaysInv, NeverThirdVisit, CountsAlways, PTL DEF VisitsBounded

\* ParallelCoversAll: a parallel run that its panel does not cancel ends with a result
\* for every request of every iteration, with any number of other runs and of their
\* cancels on the one service.
THEOREM ParallelAlwaysCoversAll == Spec => []ParallelCoversAll
  <1>1. AllCounts => ParallelCoversAll
    BY DEF AllCounts, SentInv, ParallelCoversAll, Ended, Total
  <1> QED
    BY <1>1, CountsAlways, PTL

\* SoloCancelAborts: while no second run has started, Cancel aborts the request
\* that is waiting; what breaks this is sharing the service.
THEOREM SoloCancelAlwaysAborts == Spec => SoloCancelAborts
  <1> DEFINE A == \A r \in Runs :
                     /\ Cancel(r)
                     /\ \A q \in Runs \ {r} : run[q].phase = "idle"
                     /\ run[r].phase = "waiting"
                     => run[r].signal \in aborted'
  <1>1. Init => SoloInv
    BY DEF Init, SoloInv, Active, Idle
  <1>2. AllRunsInv /\ SoloInv => A
    <2> SUFFICES ASSUME SoloInv, NEW r \in Runs, Cancel(r), Alone(r),
                        run[r].phase = "waiting"
                 PROVE  run[r].signal \in aborted'
      BY DEF Alone
    <2>1. Active(r) /\ r \notin cancelled
      BY DEF Cancel, Active
    <2>2. controller = r /\ run[r].signal = r
      BY <2>1 DEF SoloInv
    <2>3. aborted' = aborted \cup ({controller} \ {NoController})
      BY DEF Cancel, AbortController
    <2> QED
      BY <2>2, <2>3, ConstantsAssumption
  <1> QED
    BY <1>1, <1>2, SoloInductive, RunsAlwaysInv, PTL DEF Spec, SoloCancelAborts

\* RowsIsolated: the iterations of data-driven runs never see each other's
\* variables, with any number of runs sharing the service.
THEOREM RowsAlwaysIsolated == Spec => []RowsIsolated
  <1>1. Init => RowInv
    BY DEF Init, RowInv, Idle
  <1>2. AllRunsInv /\ RowInv => RowsIsolated
    <2> SUFFICES ASSUME AllRunsInv, RowInv PROVE RowsIsolated
      OBVIOUS
    <2>1. ASSUME NEW r \in Runs, NEW w \in Writes, run[r].rows, w \in run[r].env
          PROVE  w = <<r, run[r].iter>> \/ ~run[w[1]].rows
      BY <2>1 DEF RowInv, Unrowed
    <2> QED
      BY <2>1 DEF RowsIsolated, RowInv, Unrowed
  <1> QED
    BY <1>1, <1>2, RowInductive, RunsAlwaysInv, PTL DEF Spec
=============================================================================
