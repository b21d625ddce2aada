------------------------- MODULE ProjectSession_proofs -------------------------
(***************************************************************************)
(* Proofs about ProjectSession, for any projects, commands and edits.      *)
(*                                                                         *)
(* Frame holds always.  Calm holds until actions cross that the code does  *)
(* not keep apart: one command at most is on the way to show another tree, *)
(* saves that are under way aim at different places, and what is under way *)
(* has at least the tree of the place it is for.                           *)
(***************************************************************************)
EXTENDS ProjectSession, TLAPS

Shape(k) ==
    LET op == task[k].op  phase == task[k].phase IN
    /\ op = "none" => task[k] = Idle
    /\ op = "save" <=> phase \in {"invoked", "writing"}
    /\ phase = "idle" => op = "none"
    /\ phase = "clear" => op = "create" /\ task[k].at \in Projects
    /\ phase = "reopen" => op = "load"
Shapes == \A k \in Tasks : Shape(k)
Down == ~up => /\ dir = App /\ memOf = App /\ mem = {} /\ ~pending.on /\ events = <<>>
               /\ \A p \in Projects : thread[p] = "none"
               /\ \A k \in Tasks : Free(k)
Frame == TypeOK /\ Shapes /\ Down

Travels(k) == task[k].op \notin {"none", "save"}
Saves(k) == task[k].op = "save"
\* The place a save writes to: the open one, until it has read which that is.
Aim(k) == IF At(k, "invoked") THEN dir ELSE task[k].at
Alien(p) == \A k \in Tasks : Saves(k) => Aim(k) # p
From(p, tree) == \A e \in tree : home[e] = p

\* Every tree holds only edits of its place.
Homes == /\ \A p \in Places : From(p, disk[p])
         /\ From(memOf, mem)
         /\ \A i \in 1..Len(events) : events[i].kind = "initial" => From(events[i].place, events[i].data)
\* Nothing is to be saved while another tree is on its way, and else what is shown is.
Waits == /\ ~Settled => ~pending.on /\ \A k \in Tasks : ~At(k, "invoked")
         /\ pending.on => pending.data = mem
SaveSound(k) ==
    /\ From(Aim(k), task[k].data)
    /\ disk[Aim(k)] \subseteq task[k].data
    /\ Settled /\ Aim(k) = dir => task[k].data \subseteq mem
    /\ \A l \in Tasks : Saves(l) /\ l # k => Aim(l) # Aim(k)
TravelSound(k) ==
    /\ \A l \in Tasks : Travels(l) => l = k
    /\ task[k].phase \in {"clear", "set"} => Alien(task[k].at)
    /\ At(k, "clear") => disk[task[k].at] = {}
    /\ At(k, "reopen") => \A l \in Tasks : ~Saves(l)
    /\ task[k].phase \notin {"clear", "set", "reopen"} => Alien(dir)
    /\ task[k].phase \in {"watch", "announce", "content", "show"} => task[k].at = dir
    /\ At(k, "show") => disk[dir] \subseteq task[k].data /\ From(dir, task[k].data)
\* The load has answered: its tree is the last that the webview will be told of.
Answered ==
    /\ Alien(dir)
    /\ \E i \in 1..Len(events) :
          /\ events[i].kind = "initial" /\ events[i].place = dir
          /\ disk[dir] \subseteq events[i].data
          /\ \A j \in 1..Len(events) : j > i => events[j].kind = "changed"

Shown == up /\ Settled => path = dir /\ memOf = dir /\ disk[dir] \subseteq mem
Calm == /\ Homes /\ Waits /\ Shown
        /\ \A k \in Tasks : Saves(k) => SaveSound(k)
        /\ \A k \in Tasks : Travels(k) => TravelSound(k)
        /\ ~Settled /\ (\A k \in Tasks : ~Travels(k)) => Answered
Inv == Frame /\ (~crossed => Calm)

-----------------------------------------------------------------------------
(* What the ways of moving a command on do to it *)

Starts(k, op, phase, p, tree) == task' = [task EXCEPT ![k] = Task(op, phase, p, tree)]
Aims(k, phase, p) == task' = [task EXCEPT ![k].phase = phase, ![k].at = p]
Reads(k, tree) == task' = [task EXCEPT ![k].phase = "show", ![k].data = tree]
Ends(k) == task' = [task EXCEPT ![k] = Idle]

\* Idle is a command that does nothing.
LEMMA Basics == /\ Idle \in TaskState /\ Idle.op = "none" /\ Idle.phase = "idle"
                /\ NotPending \in Pending /\ ~NotPending.on
                /\ App \in Places /\ None \notin Places
                /\ \A p \in Projects : p \in Places /\ p # App
BY ConstantsAssumption DEF Idle, TaskState, Ops, Phases, Places, Trees, NotPending, Pending

\* A started command has its operation, step, place and tree.
LEMMA StartTask ==
    ASSUME TypeOK, NEW k \in Tasks, NEW op \in Ops, NEW phase \in Phases, NEW p \in Places,
           NEW tree \in Trees, Starts(k, op, phase, p, tree)
    PROVE  /\ task' \in [Tasks -> TaskState]
           /\ \A l \in Tasks : l # k => task'[l] = task[l]
           /\ task'[k].op = op /\ task'[k].phase = phase
           /\ task'[k].at = p /\ task'[k].data = tree
<1> DEFINE s == Task(op, phase, p, tree)
<1>1. s \in TaskState /\ s.op = op /\ s.phase = phase /\ s.at = p /\ s.data = tree
  BY DEF Task, TaskState
<1> HIDE DEF s
<1> QED
  BY <1>1 DEF TypeOK, Starts, s

\* Going on changes the step only.
LEMMA GotoTask ==
    ASSUME TypeOK, NEW k \in Tasks, NEW phase \in Phases, Goto(k, phase)
    PROVE  /\ task' \in [Tasks -> TaskState]
           /\ \A l \in Tasks : l # k => task'[l] = task[l]
           /\ task'[k].op = task[k].op /\ task'[k].phase = phase
           /\ task'[k].at = task[k].at /\ task'[k].data = task[k].data
<1> DEFINE s == [task[k] EXCEPT !.phase = phase]
<1>1. task[k] \in TaskState
  BY DEF TypeOK
<1>2. /\ s \in TaskState /\ s.op = task[k].op /\ s.phase = phase
      /\ s.at = task[k].at /\ s.data = task[k].data
  BY <1>1 DEF TaskState
<1>3. task' = [task EXCEPT ![k] = s]
  BY DEF Goto
<1> HIDE DEF s
<1> QED
  BY <1>2, <1>3 DEF TypeOK

\* A command that reads which directory is open goes on with that place.
LEMMA AimTask ==
    ASSUME TypeOK, NEW k \in Tasks, NEW phase \in Phases, NEW p \in Places, Aims(k, phase, p)
    PROVE  /\ task' \in [Tasks -> TaskState]
           /\ \A l \in Tasks : l # k => task'[l] = task[l]
           /\ task'[k].op = task[k].op /\ task'[k].phase = phase
           /\ task'[k].at = p /\ task'[k].data = task[k].data
<1> DEFINE s == [task[k] EXCEPT !.phase = phase, !.at = p]
<1>1. task[k] \in TaskState
  BY DEF TypeOK
<1>2. /\ s \in TaskState /\ s.op = task[k].op /\ s.phase = phase
      /\ s.at = p /\ s.data = task[k].data
  BY <1>1 DEF TaskState
<1>3. task' = [task EXCEPT ![k] = s]
  BY DEF Aims, TypeOK
<1> HIDE DEF s
<1> QED
  BY <1>2, <1>3 DEF TypeOK

\* A load that has read the files goes on with their tree.
LEMMA ReadTask ==
    ASSUME TypeOK, NEW k \in Tasks, NEW tree \in Trees, Reads(k, tree)
    PROVE  /\ task' \in [Tasks -> TaskState]
           /\ \A l \in Tasks : l # k => task'[l] = task[l]
           /\ task'[k].op = task[k].op /\ task'[k].phase = "show"
           /\ task'[k].at = task[k].at /\ task'[k].data = tree
<1> DEFINE s == [task[k] EXCEPT !.phase = "show", !.data = tree]
<1>1. task[k] \in TaskState
  BY DEF TypeOK
<1>2. /\ s \in TaskState /\ s.op = task[k].op /\ s.phase = "show"
      /\ s.at = task[k].at /\ s.data = tree
  BY <1>1 DEF TaskState, Phases
<1>3. task' = [task EXCEPT ![k] = s]
  BY DEF Reads, TypeOK
<1> HIDE DEF s
<1> QED
  BY <1>2, <1>3 DEF TypeOK

\* A command that returns leaves its task idle.
LEMMA EndTask ==
    ASSUME TypeOK, NEW k \in Tasks, Ends(k)
    PROVE  /\ task' \in [Tasks -> TaskState]
           /\ \A l \in Tasks : l # k => task'[l] = task[l]
           /\ task'[k] = Idle /\ task'[k].op = "none" /\ task'[k].phase = "idle"
BY Basics DEF TypeOK, Ends

\* An event is added at the end of those that wait.
LEMMA EmitEvent ==
    ASSUME TypeOK, NEW kind \in {"opened", "closed", "initial", "changed"}, NEW p \in Places,
           NEW tree \in Trees, events' = Emitted(kind, p, tree)
    PROVE  /\ events' \in Seq(Event) /\ Len(events) \in Nat /\ Len(events') = Len(events) + 1
           /\ \A i \in 1..Len(events) : events'[i] = events[i]
           /\ events'[Len(events) + 1].kind = kind
           /\ events'[Len(events) + 1].place = p /\ events'[Len(events) + 1].data = tree
<1> DEFINE ev == [kind |-> kind, place |-> p, data |-> tree]
<1>1. ev \in Event /\ ev.kind = kind /\ ev.place = p /\ ev.data = tree
  BY DEF Event
<1>2. events' = Append(events, ev) /\ events \in Seq(Event)
  BY DEF Emitted, TypeOK
<1> HIDE DEF ev
<1> QED
  BY <1>1, <1>2

\* The webview takes the first of them.
LEMMA HandleEvent ==
    ASSUME TypeOK, NEW kind, Handles(kind)
    PROVE  /\ events' \in Seq(Event) /\ Len(events) \in Nat /\ Len(events') = Len(events) - 1
           /\ Len(events') \in Nat /\ 1 \in 1..Len(events)
           /\ \A i \in 1..Len(events') : events'[i] = events[i + 1]
           /\ events[1].kind = kind /\ Head(events) = events[1] /\ events[1] \in Event
<1>1. events # <<>> /\ events \in Seq(Event) /\ events' = Tail(events) /\ Head(events).kind = kind
  BY DEF Handles, TypeOK
<1> QED
  BY <1>1

-----------------------------------------------------------------------------
(* The frame *)

LEMMA FrameInit == Init => Frame
<1> SUFFICES ASSUME Init PROVE Frame
  OBVIOUS
<1>1. \A k \in Tasks : task[k] = Idle
  BY DEF Init
<1>2. TypeOK
  <2>1. task \in [Tasks -> TaskState] /\ pending \in Pending /\ events \in Seq(Event)
    BY Basics DEF Init
  <2>2. disk \in [Places -> Trees] /\ mem \in Trees /\ home \in [Edits -> Places \cup {None}]
    BY DEF Init, Trees
  <2>3. thread \in [Projects -> {"none", "checking", "waiting"}] /\ nouto \in SUBSET Projects
    BY DEF Init
  <2> QED
    BY <2>1, <2>2, <2>3, Basics DEF Init, TypeOK
<1>3. Shapes
  BY <1>1, Basics DEF Shapes, Shape
<1> QED
  BY <1>1, <1>2, <1>3, Basics DEF Frame, Down, Free, Init

\* A step of one command keeps the shapes of all, if it gives its own a shape.
LEMMA OtherShapes ==
    ASSUME Shapes, NEW k \in Tasks, \A l \in Tasks : l # k => task'[l] = task[l], Shape(k)'
    PROVE  Shapes'
BY DEF Shapes, Shape

\* A command at a step beyond idle is not free, so the app is up.
LEMMA BusyMeansUp ==
    ASSUME Frame, NEW k \in Tasks, task[k].phase # "idle" PROVE up
BY Basics DEF Frame, Down, Free

\* The user edits.
LEMMA EditFrame == ASSUME Frame, NEW e \in Edits, Edit(e) PROVE Frame'
<1>1. TypeOK'
  BY DEF Frame, Edit, TypeOK, rust, Trees, Pending
<1>2. Shapes' /\ up'
  BY DEF Frame, Edit, rust, Shapes, Shape
<1> QED
  BY <1>1, <1>2 DEF Frame, Down

\* The user opens, creates, closes or deletes a project, or the timer of a save fires.
LEMMA ClickFrame ==
    ASSUME Frame, NEW k \in Tasks,
           \/ \E p \in Places : SwitchClicked(k, p) \/ CreateClicked(k, p)
           \/ DeleteMetaClicked(k)
           \/ TimerFires(k)
    PROVE  Frame'
<1> USE DEF Frame
<1>1. ASSUME NEW op \in Ops, NEW phase \in Phases, NEW p \in Places, NEW tree \in Trees,
             Starts(k, op, phase, p, tree), op # "none",
             op = "save" <=> phase \in {"invoked", "writing"},
             phase \notin {"idle", "reopen"},
             phase = "clear" => op = "create" /\ p \in Projects
      PROVE  Shapes' /\ task' \in [Tasks -> TaskState]
  <2>1. /\ task' \in [Tasks -> TaskState]
        /\ \A l \in Tasks : l # k => task'[l] = task[l]
        /\ task'[k].op = op /\ task'[k].phase = phase /\ task'[k].at = p
    BY <1>1, StartTask
  <2>2. Shape(k)'
    BY <1>1, <2>1 DEF Shape
  <2> QED
    BY <2>1, <2>2, OtherShapes
<1>2. /\ {"switch", "create", "save"} \subseteq Ops /\ {} \in Trees /\ App \in Places
      /\ {"set", "clear", "invoked"} \subseteq Phases
  BY DEF Ops, Phases, Trees, Places
<1>3. ASSUME NEW p \in Places, SwitchClicked(k, p) PROVE Frame'
  <2>1. Starts(k, "switch", "set", p, {}) /\ up /\ UNCHANGED <<up, home>>
    BY <1>3 DEF SwitchClicked, Clicked, Starts
  <2>2. Shapes' /\ task' \in [Tasks -> TaskState]
    BY <1>1, <1>2, <2>1
  <2> QED
    BY <1>3, <2>1, <2>2, Basics DEF SwitchClicked, Clicked, DropsPending, TypeOK, Down
<1>4. ASSUME NEW p \in Places, CreateClicked(k, p) PROVE Frame'
  <2>1. Starts(k, "create", "clear", p, {}) /\ up /\ UNCHANGED <<up, home>> /\ p \in Projects
    BY <1>4 DEF CreateClicked, Clicked, Starts, Places
  <2>2. Shapes' /\ task' \in [Tasks -> TaskState]
    BY <1>1, <1>2, <2>1
  <2> QED
    BY <1>4, <2>1, <2>2, Basics DEF CreateClicked, Clicked, DropsPending, TypeOK, Down
<1>5. CASE DeleteMetaClicked(k)
  <2>1. Starts(k, "switch", "set", App, {}) /\ up /\ UNCHANGED <<up, home>>
    BY <1>5 DEF DeleteMetaClicked, Clicked, Starts
  <2>2. Shapes' /\ task' \in [Tasks -> TaskState]
    BY <1>1, <1>2, <2>1
  <2> QED
    BY <1>5, <2>1, <2>2 DEF DeleteMetaClicked, Clicked, TypeOK, Down
<1>6. CASE TimerFires(k)
  <2>1. Starts(k, "save", "invoked", App, pending.data) /\ pending.on /\ pending.data \in Trees
    BY <1>6 DEF TimerFires, Starts, TypeOK, Pending
  <2>2. Shapes' /\ task' \in [Tasks -> TaskState]
    BY <1>1, <1>2, <2>1
  <2> QED
    BY <1>6, <2>1, <2>2, Basics DEF TimerFires, TypeOK, Down
<1> QED
  BY <1>3, <1>4, <1>5, <1>6

\* What a step of a command has to do to keep the frame, when the app is up.
LEMMA TaskFrame ==
    ASSUME Frame, NEW k \in Tasks, task[k].phase # "idle", UNCHANGED up,
           task' \in [Tasks -> TaskState],
           \A l \in Tasks : l # k => task'[l] = task[l], Shape(k)',
           dir' \in Places, recent' \in Projects \cup {None}, disk' \in [Places -> Trees],
           nouto' \in SUBSET Projects, handle' \in Projects \cup {None},
           thread' \in [Projects -> {"none", "checking", "waiting"}],
           events' \in Seq(Event), crossed' \in BOOLEAN, UNCHANGED <<webview, home>>
    PROVE  Frame'
<1>1. up /\ Shapes'
  BY BusyMeansUp, OtherShapes DEF Frame
<1> QED
  BY <1>1 DEF Frame, TypeOK, Down, webview

\* The steps of a save.
LEMMA SaveFrame ==
    ASSUME Frame, NEW k \in Tasks, SaveStep(k) PROVE Frame'
<1>1. TypeOK /\ Shape(k) /\ task[k].phase \in {"invoked", "writing"}
  BY DEF Frame, Shapes, SaveStep, SaveReadsDir, SaveWrites, SaveFails, At
<1>2. task[k].op = "save" /\ task[k].at \in Places /\ task[k].data \in Trees
  BY <1>1 DEF Shape, TypeOK, TaskState
<1>3. CASE SaveReadsDir(k)
  <2>1. Aims(k, "writing", dir) /\ "writing" \in Phases /\ dir \in Places
    BY <1>1, <1>3 DEF SaveReadsDir, Aims, Phases, TypeOK
  <2>2. /\ task' \in [Tasks -> TaskState] /\ \A l \in Tasks : l # k => task'[l] = task[l]
        /\ task'[k].op = "save" /\ task'[k].phase = "writing"
    BY <1>1, <1>2, <2>1, AimTask
  <2>3. Shape(k)'
    BY <2>2 DEF Shape
  <2> QED
    BY <1>1, <1>3, <2>2, <2>3, TaskFrame DEF SaveReadsDir, TypeOK
<1>4. CASE SaveWrites(k) \/ SaveFails(k)
  <2>1. Ends(k)
    BY <1>4 DEF SaveWrites, SaveFails, Ends
  <2>2. /\ task' \in [Tasks -> TaskState] /\ \A l \in Tasks : l # k => task'[l] = task[l]
        /\ task'[k] = Idle
    BY <1>1, <2>1, EndTask
  <2>3. Shape(k)'
    BY <2>2, Basics DEF Shape
  <2>4. disk' \in [Places -> Trees] /\ nouto' \in SUBSET Projects
    BY <1>1, <1>2, <1>4 DEF SaveWrites, SaveFails, TypeOK
  <2> QED
    BY <1>1, <1>4, <2>2, <2>3, <2>4, TaskFrame DEF SaveWrites, SaveFails, TypeOK
<1> QED
  BY <1>3, <1>4 DEF SaveStep

\* The steps of a switch.
LEMMA SwitchFrame ==
    ASSUME Frame, NEW k \in Tasks, SwitchStep(k) PROVE Frame'
<1>1. /\ TypeOK /\ Shape(k) /\ task[k].phase \in {"clear", "set", "watch", "announce"}
  BY DEF Frame, Shapes, SwitchStep, CreateClears, SetDir, Watch, Announce, AnnounceFails, At
<1>2. task[k].op \notin {"none", "save"} /\ task[k].at \in Places
  BY <1>1, Basics DEF Shape, TypeOK, TaskState
<1>3. ASSUME NEW phase \in {"set", "watch", "announce", "dir"}, Goto(k, phase)
      PROVE  /\ task' \in [Tasks -> TaskState] /\ \A l \in Tasks : l # k => task'[l] = task[l]
             /\ Shape(k)'
  <2>1. phase \in Phases
    BY DEF Phases
  <2>2. /\ task' \in [Tasks -> TaskState] /\ \A l \in Tasks : l # k => task'[l] = task[l]
        /\ task'[k].op = task[k].op /\ task'[k].phase = phase
    BY <1>1, <1>3, <2>1, GotoTask
  <2>3. Shape(k)'
    BY <1>2, <2>2 DEF Shape
  <2> QED
    BY <2>2, <2>3
<1>4. CASE CreateClears(k)
  <2>1. task[k].at \in Projects
    BY <1>1, <1>4 DEF CreateClears, At, Shape
  <2>2. disk' \in [Places -> Trees] /\ nouto' \in SUBSET Projects
    BY <1>1, <1>4, <2>1 DEF CreateClears, TypeOK, Trees
  <2> QED
    BY <1>1, <1>3, <1>4, <2>2, TaskFrame DEF CreateClears, TypeOK
<1>5. CASE SetDir(k)
  BY <1>1, <1>2, <1>3, <1>5, TaskFrame DEF SetDir, TypeOK
<1>6. CASE Watch(k)
  <2>1. /\ handle' \in Projects \cup {None}
        /\ thread' \in [Projects -> {"none", "checking", "waiting"}]
    BY <1>1, <1>6 DEF Watch, TypeOK
  <2> QED
    BY <1>1, <1>3, <1>6, <2>1, TaskFrame DEF Watch, TypeOK
<1>7. CASE Announce(k)
  <2>1. events' \in Seq(Event)
    <3>1. {} \in Trees
      BY DEF Trees
    <3>2. PICK p \in Places : p = task[k].at
      BY <1>2
    <3>3. \/ events' = Emitted("closed", p, {}) \/ events' = Emitted("opened", p, {})
      BY <1>7, <3>2 DEF Announce
    <3> QED
      BY <1>1, <3>1, <3>3, EmitEvent
  <2>2. recent' \in Projects \cup {None}
    BY <1>1, <1>2, <1>7 DEF Announce, Remembered, TypeOK, Places
  <2> QED
    BY <1>1, <1>3, <1>7, <2>1, <2>2, TaskFrame DEF Announce, LoadFollows, TypeOK
<1>8. CASE AnnounceFails(k)
  <2>1. /\ task' \in [Tasks -> TaskState] /\ \A l \in Tasks : l # k => task'[l] = task[l]
        /\ task'[k] = Idle
    BY <1>1, <1>8, EndTask DEF AnnounceFails, Ends
  <2>2. Shape(k)'
    BY <2>1, Basics DEF Shape
  <2> QED
    BY <1>1, <1>8, <2>1, <2>2, TaskFrame DEF AnnounceFails, TypeOK
<1> QED
  BY <1>4, <1>5, <1>6, <1>7, <1>8 DEF SwitchStep

\* The steps of a load.
LEMMA LoadFrame ==
    ASSUME Frame, NEW k \in Tasks, LoadStep(k) PROVE Frame'
<1>1. /\ TypeOK /\ Shape(k) /\ task[k].phase \in {"reopen", "dir", "content", "show"}
  BY DEF Frame, Shapes, LoadStep, Reopen, LoadReadsDir, LoadReads, LoadShows, LoadFails, At
<1>2. /\ task[k].op \notin {"none", "save"} /\ task[k].at \in Places /\ task[k].data \in Trees
  BY <1>1, Basics DEF Shape, TypeOK, TaskState
<1>3. ASSUME task'[k].op = task[k].op, task'[k].phase \in {"watch", "dir", "content", "show"}
      PROVE  Shape(k)'
  BY <1>2, <1>3 DEF Shape
<1>4. {"watch", "dir", "content", "show"} \subseteq Phases
  BY DEF Phases
<1>5. CASE Reopen(k)
  <2>1. CASE Goto(k, "dir") /\ UNCHANGED dir
    <3>1. /\ task' \in [Tasks -> TaskState] /\ \A l \in Tasks : l # k => task'[l] = task[l]
          /\ task'[k].op = task[k].op /\ task'[k].phase = "dir"
      BY <1>1, <1>4, <2>1, GotoTask
    <3> QED
      BY <1>1, <1>3, <1>5, <2>1, <3>1, TaskFrame DEF Reopen, TypeOK
  <2>2. CASE dir' = recent /\ recent # None /\ Aims(k, "watch", recent)
    <3>1. recent \in Places
      BY <1>1, <2>2 DEF TypeOK, Places
    <3>2. PICK p \in Places : p = recent
      BY <3>1
    <3>3. /\ task' \in [Tasks -> TaskState] /\ \A l \in Tasks : l # k => task'[l] = task[l]
          /\ task'[k].op = task[k].op /\ task'[k].phase = "watch"
      BY <1>1, <1>4, <2>2, <3>2, AimTask
    <3> QED
      BY <1>1, <1>3, <1>5, <2>2, <3>1, <3>3, TaskFrame DEF Reopen, TypeOK
  <2> QED
    BY <1>5, <2>1, <2>2 DEF Reopen, Aims
<1>6. CASE LoadReadsDir(k)
  <2>1. Aims(k, "content", dir) /\ dir \in Places
    BY <1>1, <1>6 DEF LoadReadsDir, Aims, TypeOK
  <2>2. /\ task' \in [Tasks -> TaskState] /\ \A l \in Tasks : l # k => task'[l] = task[l]
        /\ task'[k].op = task[k].op /\ task'[k].phase = "content"
    BY <1>1, <1>4, <2>1, AimTask
  <2> QED
    BY <1>1, <1>3, <1>6, <2>2, TaskFrame DEF LoadReadsDir, TypeOK
<1>7. CASE LoadReads(k)
  <2>1. Reads(k, disk[task[k].at]) /\ disk[task[k].at] \in Trees
    BY <1>1, <1>2, <1>7 DEF LoadReads, Reads, TypeOK
  <2>2. /\ task' \in [Tasks -> TaskState] /\ \A l \in Tasks : l # k => task'[l] = task[l]
        /\ task'[k].op = task[k].op /\ task'[k].phase = "show"
    BY <1>1, <2>1, ReadTask
  <2> QED
    BY <1>1, <1>3, <1>7, <2>2, TaskFrame DEF LoadReads, TypeOK
<1>8. ASSUME Ends(k)
      PROVE  /\ task' \in [Tasks -> TaskState] /\ \A l \in Tasks : l # k => task'[l] = task[l]
             /\ Shape(k)'
  <2>1. /\ task' \in [Tasks -> TaskState] /\ \A l \in Tasks : l # k => task'[l] = task[l]
        /\ task'[k] = Idle
    BY <1>1, <1>8, EndTask
  <2> QED
    BY <2>1, Basics DEF Shape
<1>9. CASE LoadShows(k)
  <2>1. Ends(k) /\ events' \in Seq(Event)
    BY <1>1, <1>2, <1>9, EmitEvent DEF LoadShows, Ends
  <2> QED
    BY <1>1, <1>8, <1>9, <2>1, TaskFrame DEF LoadShows, TypeOK
<1>10. CASE LoadFails(k)
  <2>1. CASE Ends(k)
    BY <1>1, <1>8, <1>10, <2>1, TaskFrame DEF LoadFails, TypeOK
  <2>2. CASE Goto(k, "show")
    <3>1. /\ task' \in [Tasks -> TaskState] /\ \A l \in Tasks : l # k => task'[l] = task[l]
          /\ task'[k].op = task[k].op /\ task'[k].phase = "show"
      BY <1>1, <1>4, <2>2, GotoTask
    <3> QED
      BY <1>1, <1>3, <1>10, <3>1, TaskFrame DEF LoadFails, TypeOK
  <2> QED
    BY <1>10, <2>1, <2>2 DEF LoadFails, Ends, Goto
<1> QED
  BY <1>5, <1>6, <1>7, <1>9, <1>10 DEF LoadStep

\* Starting the app, and its end.
LEMMA LifeFrame ==
    ASSUME Frame, Crash \/ \E k \in Tasks : Launch(k) PROVE Frame'
<1>1. ASSUME NEW k \in Tasks, Launch(k) PROVE Frame'
  <2>1. Starts(k, "load", "reopen", App, {}) /\ up'
    BY <1>1 DEF Launch, Starts
  <2>2. "load" \in Ops /\ "reopen" \in Phases /\ {} \in Trees /\ App \in Places
    BY DEF Ops, Phases, Trees, Places
  <2>3. /\ task' \in [Tasks -> TaskState]
        /\ \A l \in Tasks : l # k => task'[l] = task[l]
        /\ task'[k].op = "load" /\ task'[k].phase = "reopen"
    BY <2>1, <2>2, StartTask DEF Frame
  <2>4. Shapes'
    BY <2>3, OtherShapes DEF Frame, Shape
  <2> QED
    BY <1>1, <2>1, <2>3, <2>4 DEF Launch, webview, Frame, TypeOK, Down
<1>2. CASE Crash
  <2>1. \A k \in Tasks : task'[k] = Idle
    BY <1>2 DEF Crash
  <2>2. Shapes'
    BY <2>1, Basics DEF Shapes, Shape
  <2>3. <<>> \in Seq(Event) /\ {} \in Trees
    BY DEF Trees
  <2>4. TypeOK'
    BY <1>2, <2>3, Basics DEF Crash, Frame, TypeOK
  <2>5. Down'
    BY <1>2, <2>1, Basics DEF Crash, Down, Free
  <2> QED
    BY <2>2, <2>4, <2>5 DEF Frame
<1> QED
  BY <1>1, <1>2

\* The webview handles an event.
LEMMA HandledFrame ==
    ASSUME Frame, Handled PROVE Frame'
<1> USE DEF Frame
<1>1. up /\ events' \in Seq(Event) /\ Head(events) \in Event
  BY HandleEvent DEF Handled, OpenedHandled, ClosedHandled, InitialHandled, ChangedHandled, Handles
<1>2. CASE OpenedHandled
  BY <1>1, <1>2 DEF OpenedHandled, Handles, TypeOK, Event, rust, Shapes, Shape, Down
<1>3. CASE ClosedHandled
  BY <1>1, <1>3, Basics DEF ClosedHandled, ClosedSavesNothing, Handles, TypeOK, Trees, rust,
     Shapes, Shape, Down
<1>4. CASE InitialHandled
  BY <1>1, <1>4 DEF InitialHandled, Handles, TypeOK, Event, rust, Shapes, Shape, Down
<1>5. ASSUME NEW k \in Tasks, ChangedHandled(k) PROVE Frame'
  <2>1. Shapes' /\ task' \in [Tasks -> TaskState]
    <3>1. CASE UNCHANGED task
      BY <3>1 DEF TypeOK, Shapes, Shape
    <3>2. CASE ~UNCHANGED task
      <4>1. Starts(k, "load", "dir", App, {})
        BY <1>5, <3>2 DEF ChangedHandled, Starts
      <4>2. "load" \in Ops /\ "dir" \in Phases /\ {} \in Trees /\ App \in Places
        BY DEF Ops, Phases, Trees, Places
      <4>3. /\ task' \in [Tasks -> TaskState]
            /\ \A l \in Tasks : l # k => task'[l] = task[l]
            /\ task'[k].op = "load" /\ task'[k].phase = "dir"
        BY <4>1, <4>2, StartTask
      <4> QED
        BY <4>3, OtherShapes DEF Shape
    <3> QED
      BY <3>1, <3>2
  <2>2. up' /\ crossed' \in BOOLEAN
    BY <1>1, <1>5 DEF ChangedHandled, Handles, TypeOK
  <2> QED
    BY <1>1, <1>5, <2>1, <2>2 DEF ChangedHandled, TypeOK, webview, Down
<1> QED
  BY <1>2, <1>3, <1>4, <1>5 DEF Handled

\* A watcher thread checks, waits or reports.
LEMMA WatcherFrame ==
    ASSUME Frame, NEW p \in Projects, Watcher(p) PROVE Frame'
<1> USE DEF Frame
<1>1. up
  BY DEF Watcher, WatcherChecks, WatcherTimesOut, WatcherReports, Down
<1>2. thread' \in [Projects -> {"none", "checking", "waiting"}]
  BY DEF Watcher, WatcherChecks, AsksForStop, WatcherTimesOut, WatcherReports, TypeOK
<1>3. events' \in Seq(Event)
  <2>1. CASE WatcherReports(p)
    <3>1. p \in Places /\ {} \in Trees /\ events' = Emitted("changed", p, {})
      BY <2>1 DEF WatcherReports, Places, Trees
    <3> QED
      BY <3>1, EmitEvent
  <2>2. CASE UNCHANGED events
    BY <2>2 DEF TypeOK
  <2> QED
    BY <2>1, <2>2 DEF Watcher, WatcherChecks, WatcherTimesOut
<1> QED
  BY <1>1, <1>2, <1>3 DEF Watcher, WatcherChecks, WatcherTimesOut, WatcherReports, TypeOK,
     webview, Shapes, Shape, Down

\* The frame always holds.
LEMMA FrameStep == Frame /\ [Next]_vars => Frame'
<1> SUFFICES ASSUME Frame, [Next]_vars PROVE Frame'
  OBVIOUS
<1>1. CASE UNCHANGED vars
  BY <1>1 DEF Frame, TypeOK, Shapes, Shape, Down, Free, vars, rust, webview
<1>2. CASE Next
  BY <1>2, EditFrame, ClickFrame, SaveFrame, SwitchFrame, LoadFrame, LifeFrame,
     HandledFrame, WatcherFrame DEF Next
<1> QED
  BY <1>1, <1>2

\* Types and what goes with them hold in every reachable state.
LEMMA FrameAlways == Spec => []Frame
BY FrameInit, FrameStep, PTL DEF Spec

\* TypeOK always holds: no command, event or crash leaves a directory, tree or task of
\* another kind.
THEOREM TypeCorrect == Spec => []TypeOK
<1>1. Frame => TypeOK
  BY DEF Frame
<1> QED
  BY <1>1, FrameAlways, PTL

-----------------------------------------------------------------------------
(* Calm: one switch at a time, and saves that do not meet it *)

\* Settled is about commands on the way and about the events that wait.
LEMMA SettledMeans ==
    /\ Settled <=> /\ \A k \in Tasks : ~Travels(k)
                   /\ \A i \in 1..Len(events) : events[i].kind = "changed"
    /\ Settled' <=> /\ \A k \in Tasks : ~Travels(k)'
                    /\ \A i \in 1..Len(events') : events'[i].kind = "changed"
BY DEF Settled, Travels

\* A save aims at a place, whose tree it has; a command on the way is no save.
LEMMA TaskFacts ==
    ASSUME Frame, NEW k \in Tasks
    PROVE  /\ Saves(k) => ~Travels(k) /\ Aim(k) \in Places /\ task[k].data \in Trees
           /\ Saves(k) /\ ~At(k, "invoked") => At(k, "writing") /\ Aim(k) = task[k].at
           /\ At(k, "invoked") \/ At(k, "writing") => Saves(k)
           /\ Free(k) => ~Saves(k) /\ ~Travels(k)
           /\ task[k].at \in Places /\ dir \in Places
<1>1. task[k] \in TaskState /\ Shape(k) /\ dir \in Places
  BY DEF Frame, TypeOK, Shapes
<1> QED
  BY <1>1, Basics DEF Saves, Travels, Aim, At, TaskState, Shape, Free

\* Initially all is calm.
LEMMA CalmInit == Init => Calm
<1> SUFFICES ASSUME Init PROVE Calm
  OBVIOUS
<1>1. Len(events) = 0 /\ \A k \in Tasks : task[k].op = "none"
  BY Basics DEF Init
<1>2. Settled
  BY <1>1 DEF Settled
<1>3. Homes /\ Waits /\ Shown
  BY <1>1, <1>2, Basics DEF Init, Homes, Waits, Shown, From
<1> QED
  BY <1>1, <1>2, <1>3 DEF Calm, Saves, Travels

\* The user edits a tree that is settled.
LEMMA EditCalm ==
    ASSUME Frame, Calm, NEW e \in Edits, Edit(e), ~crossed' PROVE Calm'
<1>1. /\ up /\ home[e] = None /\ Settled /\ Settled'
      /\ UNCHANGED <<up, dir, disk, task, events, path, memOf>>
      /\ mem' = mem \cup {e} /\ pending' = [on |-> TRUE, data |-> mem']
      /\ home' = [home EXCEPT ![e] = memOf] /\ home \in [Edits -> Places \cup {None}]
  BY DEF Edit, rust, Settled, Frame, TypeOK
<1>2. /\ \A tree \in Trees : tree \subseteq Edits
      /\ mem \in Trees /\ memOf \in Places /\ \A p \in Places : disk[p] \in Trees
  BY DEF Frame, TypeOK, Trees
<1>3. ASSUME NEW p \in Places, NEW tree \in Trees, From(p, tree)
      PROVE  \A x \in tree : home'[x] = p
  BY <1>1, <1>2, <1>3, Basics DEF From
<1>4. Shown' /\ memOf = dir
  BY <1>1 DEF Calm, Shown
<1>5. Homes'
  <2>1. \A p \in Places : From(p, disk[p])'
    BY <1>1, <1>2, <1>3 DEF Calm, Homes, From
  <2>2. From(memOf, mem)'
    <3>1. \A x \in mem : home'[x] = memOf
      BY <1>2, <1>3 DEF Calm, Homes
    <3> QED
      BY <1>1, <3>1 DEF From
  <2>3. \A i \in 1..Len(events') : events'[i].kind # "initial"
    BY <1>1, SettledMeans
  <2> QED
    BY <2>1, <2>2, <2>3 DEF Homes
<1>6. Waits'
  BY <1>1 DEF Waits
<1>7. ASSUME NEW k \in Tasks, Saves(k)' PROVE SaveSound(k)'
  <2>1. Saves(k) /\ SaveSound(k) /\ Aim(k) \in Places /\ task[k].data \in Trees
    BY <1>1, <1>7, TaskFacts DEF Calm, Saves
  <2>2. \A x \in task[k].data : home'[x] = Aim(k)
    BY <1>3, <2>1 DEF SaveSound
  <2> QED
    BY <1>1, <2>1, <2>2 DEF SaveSound, From, Aim, At, Saves
<1> QED
  BY <1>1, <1>4, <1>5, <1>6, <1>7, SettledMeans DEF Calm

\* A command sets out for a place that no save meets.
LEMMA TravelBegins ==
    ASSUME Frame, Calm, NEW k \in Tasks, Free(k), Settled,
           \A l \in Tasks : ~At(l, "invoked"), ~pending'.on,
           UNCHANGED <<dir, disk, mem, memOf, home>>,
           \A l \in Tasks : l # k => task'[l] = task[l],
           Travels(k)', ~At(k, "invoked")', ~At(k, "show")',
           \A i \in 1..Len(events') : events'[i].kind # "initial",
           task'[k].phase \in {"clear", "set"} =>
               \A l \in Tasks : Saves(l) => Aim(l) # task'[k].at,
           At(k, "clear")' => disk[task'[k].at] = {},
           At(k, "reopen")' => \A l \in Tasks : ~Saves(l),
           task'[k].phase \notin {"clear", "set", "reopen"} => Alien(dir),
           task'[k].phase \in {"watch", "announce", "content", "show"} => task'[k].at = dir
    PROVE  Calm'
<1>1. ~Saves(k) /\ ~Saves(k)' /\ ~Settled'
  BY TaskFacts, SettledMeans DEF Saves, Travels
<1>2. \A l \in Tasks : l # k => /\ Saves(l)' <=> Saves(l)
                                /\ Travels(l)' <=> Travels(l)
                                /\ At(l, "invoked")' <=> At(l, "invoked")
                                /\ Aim(l)' = Aim(l)
  BY DEF Saves, Travels, At, Aim
<1>3. \A l \in Tasks : Travels(l)' => l = k
  BY <1>2, SettledMeans
<1>4. Homes' /\ Waits' /\ Shown'
  BY <1>1, <1>2 DEF Calm, Homes, Waits, Shown, From
<1>5. ASSUME NEW l \in Tasks, Saves(l)' PROVE SaveSound(l)'
  <2>1. l # k /\ SaveSound(l) /\ task'[l] = task[l] /\ Aim(l)' = Aim(l)
    BY <1>1, <1>2, <1>5 DEF Calm
  <2> QED
    BY <1>1, <1>2, <2>1 DEF SaveSound, From
<1>6. TravelSound(k)'
  BY <1>1, <1>2, <1>3 DEF TravelSound, Alien, At
<1> QED
  BY <1>3, <1>4, <1>5, <1>6 DEF Calm

\* The user switches, or creates a project, or deletes one.
LEMMA ClickCalm ==
    ASSUME Frame, Calm, NEW k \in Tasks, ~crossed',
           \/ \E p \in Places : SwitchClicked(k, p) \/ CreateClicked(k, p)
           \/ DeleteMetaClicked(k)
    PROVE  Calm'
<1>1. PICK p \in Places, op \in {"switch", "create"}, phase \in {"set", "clear"} :
         /\ Clicked(k, op, phase, p) /\ Settled /\ ~SaveMeets(p) /\ ~pending'.on
         /\ phase = "clear" => disk[p] = {}
  BY Basics DEF SwitchClicked, CreateClicked, DeleteMetaClicked, DropsPending
<1>2. Starts(k, op, phase, p, {}) /\ Free(k) /\ UNCHANGED <<dir, disk, events, mem, memOf, home>>
  BY <1>1 DEF Clicked, Starts
<1>3. op \in Ops /\ phase \in Phases /\ {} \in Trees
  BY DEF Ops, Phases, Trees
<1>4. /\ \A l \in Tasks : l # k => task'[l] = task[l]
      /\ task'[k].op = op /\ task'[k].phase = phase /\ task'[k].at = p
  BY <1>2, <1>3, StartTask DEF Frame
<1>5. \A l \in Tasks : ~At(l, "invoked") /\ (Saves(l) => Aim(l) # p)
  BY <1>1, TaskFacts DEF SaveMeets
<1>6. \A i \in 1..Len(events') : events'[i].kind # "initial"
  BY <1>1, <1>2, SettledMeans
<1> QED
  BY <1>1, <1>2, <1>4, <1>5, <1>6, TravelBegins DEF Travels, At

\* The timer of a save fires: what it takes is what is shown, of the open place.
LEMMA TimerCalm ==
    ASSUME Frame, Calm, NEW k \in Tasks, TimerFires(k), ~crossed' PROVE Calm'
<1>1. /\ pending.on /\ Free(k) /\ ~SaveMeets(dir) /\ pending' = NotPending
      /\ Starts(k, "save", "invoked", App, pending.data)
      /\ UNCHANGED <<up, dir, disk, events, mem, path, memOf, home>>
  BY DEF TimerFires, Starts
<1>2. /\ Settled /\ pending.data = mem /\ up /\ pending.data \in Trees
  BY <1>1 DEF Calm, Waits, Frame, Down, TypeOK, Pending
<1>3. memOf = dir /\ disk[dir] \subseteq mem /\ From(dir, mem) /\ path = dir
  BY <1>2 DEF Calm, Shown, Homes
<1>4. "save" \in Ops /\ "invoked" \in Phases
  BY DEF Ops, Phases
<1>5. /\ \A l \in Tasks : l # k => task'[l] = task[l]
      /\ task'[k].op = "save" /\ task'[k].phase = "invoked" /\ task'[k].data = mem
  BY <1>1, <1>2, <1>4, StartTask, Basics DEF Frame
<1>6. /\ Saves(k)' /\ ~Travels(k)' /\ Aim(k)' = dir
      /\ \A l \in Tasks : l # k => /\ Saves(l)' <=> Saves(l)
                                   /\ Travels(l)' <=> Travels(l)
                                   /\ Aim(l)' = Aim(l)
  BY <1>1, <1>5 DEF Saves, Travels, Aim, At
<1>7. \A l \in Tasks : Saves(l) => Aim(l) # dir
  BY <1>1, TaskFacts DEF SaveMeets
<1>8. Settled' /\ ~pending'.on
  BY <1>1, <1>2, <1>6, SettledMeans, Basics
<1>9. Homes' /\ Waits' /\ Shown'
  BY <1>1, <1>8 DEF Calm, Homes, Waits, Shown, From, Settled
<1>10. SaveSound(k)'
  BY <1>1, <1>3, <1>5, <1>6, <1>7 DEF SaveSound, From
<1>11. ASSUME NEW l \in Tasks, l # k, Saves(l)' PROVE SaveSound(l)'
  <2>1. SaveSound(l) /\ task'[l] = task[l] /\ Saves(l)
    BY <1>5, <1>6, <1>11 DEF Calm
  <2>2. Aim(l)' = Aim(l) /\ Aim(l) # dir
    BY <1>6, <1>7, <1>11, <2>1
  <2>3. \A m \in Tasks : Saves(m)' /\ m # l => Aim(m)' # Aim(l)'
    BY <1>6, <2>1, <2>2 DEF SaveSound
  <2>4. /\ From(Aim(l), task[l].data)' /\ disk'[Aim(l)'] \subseteq task'[l].data
    BY <1>1, <2>1, <2>2 DEF SaveSound, From
  <2> QED
    BY <1>1, <2>2, <2>3, <2>4 DEF SaveSound
<1> QED
  BY <1>8, <1>9, <1>10, <1>11, SettledMeans DEF Calm

\* A save reads which directory is open: the one it aims at.
LEMMA SaveReadsCalm ==
    ASSUME Frame, Calm, NEW k \in Tasks, SaveReadsDir(k) PROVE Calm'
<1>1. /\ At(k, "invoked") /\ Aims(k, "writing", dir)
      /\ UNCHANGED <<up, dir, disk, events, mem, path, pending, memOf, home>>
  BY DEF SaveReadsDir, Aims, webview
<1>2. "writing" \in Phases /\ dir \in Places /\ Saves(k) /\ ~Travels(k)
  BY <1>1, TaskFacts DEF Phases
<1>3. /\ \A l \in Tasks : l # k => task'[l] = task[l]
      /\ task'[k].op = task[k].op /\ task'[k].phase = "writing"
      /\ task'[k].at = dir /\ task'[k].data = task[k].data
  BY <1>1, <1>2, AimTask DEF Frame
<1>4. \A l \in Tasks : /\ Saves(l)' <=> Saves(l)
                       /\ Travels(l)' <=> Travels(l)
                       /\ Aim(l)' = Aim(l)
                       /\ task'[l].data = task[l].data
                       /\ At(l, "invoked")' => At(l, "invoked")
  BY <1>1, <1>3 DEF Saves, Travels, Aim, At
<1>5. Settled /\ Settled'
  <2>1. Settled
    BY <1>1 DEF Calm, Waits
  <2> QED
    BY <1>1, <1>4, <2>1, SettledMeans
<1>6. Homes' /\ Waits' /\ Shown'
  BY <1>1, <1>5 DEF Calm, Homes, Waits, Shown, From
<1>7. ASSUME NEW l \in Tasks, Saves(l)' PROVE SaveSound(l)'
  <2>1. SaveSound(l)
    BY <1>4, <1>7 DEF Calm
  <2> QED
    BY <1>1, <1>4, <1>5, <2>1 DEF SaveSound, From
<1> QED
  BY <1>5, <1>6, <1>7, SettledMeans DEF Calm

\* A save that ends, having written or not, leaves the tree of its place no smaller.
LEMMA SaveEndsCalm ==
    ASSUME Frame, Calm, NEW k \in Tasks, SaveWrites(k) \/ SaveFails(k)
    PROVE  Calm' /\ \A p \in Places : disk[p] \subseteq disk'[p]
<1> DEFINE q == task[k].at
<1>1. /\ At(k, "writing") /\ Ends(k)
      /\ UNCHANGED <<up, dir, events, mem, path, pending, memOf, home>>
      /\ disk' = disk \/ disk' = [disk EXCEPT ![q] = task[k].data]
  BY DEF SaveWrites, SaveFails, Ends, webview
<1>2. Saves(k) /\ ~Travels(k) /\ Aim(k) = q /\ q \in Places /\ SaveSound(k)
  BY <1>1, TaskFacts DEF At, Aim, Calm
<1>3. disk[q] \subseteq task[k].data /\ From(q, task[k].data) /\ disk \in [Places -> Trees]
  BY <1>2 DEF SaveSound, Frame, TypeOK
<1>4. /\ \A l \in Tasks : l # k => task'[l] = task[l]
      /\ task'[k].op = "none" /\ task'[k].phase = "idle"
  BY <1>1, EndTask DEF Frame
<1>5. /\ ~Saves(k)' /\ ~Travels(k)' /\ ~At(k, "invoked")'
      /\ \A l \in Tasks : l # k => /\ Saves(l)' <=> Saves(l)
                                   /\ Travels(l)' <=> Travels(l)
                                   /\ Aim(l)' = Aim(l)
                                   /\ At(l, "invoked")' <=> At(l, "invoked")
  BY <1>1, <1>4 DEF Saves, Travels, Aim, At
<1>6. Settled' <=> Settled
  BY <1>1, <1>2, <1>5, SettledMeans
<1>7. \A p \in Places : /\ disk[p] \subseteq disk'[p]
                        /\ p # q => disk'[p] = disk[p]
                        /\ disk'[p] # disk[p] => disk'[p] = task[k].data
  BY <1>1, <1>3
<1> HIDE DEF q
<1>8. Homes'
  <2>1. \A p \in Places : From(p, disk[p])'
    BY <1>1, <1>3, <1>7 DEF Calm, Homes, From
  <2> QED
    BY <1>1, <2>1 DEF Calm, Homes, From
<1>9. Waits'
  BY <1>1, <1>5, <1>6 DEF Calm, Waits
<1>10. Shown'
  <2>1. Settled /\ q = dir => task[k].data \subseteq mem
    BY <1>2 DEF SaveSound
  <2>2. dir \in Places
    BY DEF Frame, TypeOK
  <2> QED
    BY <1>1, <1>6, <1>7, <2>1, <2>2 DEF Calm, Shown
<1>11. ASSUME NEW l \in Tasks, Saves(l)' PROVE SaveSound(l)'
  <2>1. l # k /\ Saves(l) /\ task'[l] = task[l] /\ Aim(l)' = Aim(l)
    BY <1>4, <1>5, <1>11
  <2>2. SaveSound(l) /\ Aim(l) \in Places /\ Aim(l) # q
    BY <1>2, <2>1, TaskFacts DEF Calm, SaveSound
  <2>3. disk'[Aim(l)] = disk[Aim(l)]
    BY <1>7, <2>2
  <2> QED
    BY <1>1, <1>5, <1>6, <2>1, <2>2, <2>3 DEF SaveSound, From
<1>12. \A p \in Places : Alien(p) => p # q /\ \A l \in Tasks : Saves(l)' => Aim(l)' # p
  BY <1>2, <1>5 DEF Alien
<1>13. ASSUME NEW l \in Tasks, Travels(l)' PROVE TravelSound(l)'
  <2>1. l # k /\ Travels(l) /\ task'[l] = task[l] /\ TravelSound(l)
    BY <1>4, <1>5, <1>13 DEF Calm
  <2>2. task[l].at \in Places /\ dir \in Places
    BY TaskFacts
  <2>3. ~At(l, "reopen")
    BY <1>2, <2>1 DEF TravelSound
  <2>4. /\ Alien(task[l].at) => Alien(task[l].at)' /\ disk'[task[l].at] = disk[task[l].at]
        /\ Alien(dir) => Alien(dir)' /\ disk'[dir] = disk[dir]
    BY <1>1, <1>7, <1>12, <2>1, <2>2 DEF Alien
  <2>5. \A m \in Tasks : Travels(m)' => m = l
    BY <1>5, <2>1 DEF TravelSound
  <2>6. From(dir, task[l].data) => From(dir, task[l].data)'
    BY <1>1, <2>1 DEF From
  <2> QED
    BY <1>1, <2>1, <2>3, <2>4, <2>5, <2>6 DEF TravelSound, At
<1>14. ASSUME ~Settled', \A l \in Tasks : ~Travels(l)' PROVE Answered'
  <2>1. Answered /\ dir \in Places
    BY <1>2, <1>5, <1>6, <1>14 DEF Calm, Frame, TypeOK
  <2>2. Alien(dir)' /\ disk'[dir] = disk[dir]
    BY <1>1, <1>7, <1>12, <2>1 DEF Answered, Alien
  <2> QED
    BY <1>1, <2>1, <2>2 DEF Answered
<1> QED
  BY <1>7, <1>8, <1>9, <1>10, <1>11, <1>13, <1>14 DEF Calm

\* A command on the way goes on; nothing is invoked, so no save changes its aim.
LEMMA TravelGoesOn ==
    ASSUME Frame, Calm, NEW k \in Tasks, Travels(k), Travels(k)',
           \A l \in Tasks : l # k => task'[l] = task[l],
           ~At(k, "invoked")',
           UNCHANGED <<disk, mem, pending, memOf, home>>,
           Homes',
           task'[k].phase \in {"clear", "set"} =>
               \A l \in Tasks : Saves(l) => Aim(l) # task'[k].at,
           At(k, "clear")' => disk[task'[k].at] = {},
           At(k, "reopen")' => \A l \in Tasks : ~Saves(l),
           task'[k].phase \notin {"clear", "set", "reopen"} =>
               \A l \in Tasks : Saves(l) => Aim(l) # dir',
           task'[k].phase \in {"watch", "announce", "content", "show"} => task'[k].at = dir',
           At(k, "show")' => disk[dir'] \subseteq task'[k].data /\ \A e \in task'[k].data : home[e] = dir'
    PROVE  Calm'
<1>1. ~Settled /\ ~Settled' /\ \A l \in Tasks : Travels(l) => l = k
  BY SettledMeans DEF Calm, TravelSound
<1>2. ~pending.on /\ \A l \in Tasks : ~At(l, "invoked")
  BY <1>1 DEF Calm, Waits
<1>3. /\ ~Saves(k) /\ ~Saves(k)'
      /\ \A l \in Tasks : l # k => /\ Saves(l)' <=> Saves(l)
                                   /\ ~Travels(l)'
                                   /\ ~At(l, "invoked")'
                                   /\ Aim(l)' = Aim(l)
  BY <1>1, <1>2 DEF Saves, Travels, At, Aim
<1>4. Waits' /\ Shown'
  BY <1>1, <1>2, <1>3 DEF Waits, Shown
<1>5. ASSUME NEW l \in Tasks, Saves(l)' PROVE SaveSound(l)'
  <2>1. l # k /\ Saves(l) /\ task'[l] = task[l] /\ Aim(l)' = Aim(l) /\ SaveSound(l)
    BY <1>3, <1>5 DEF Calm
  <2> QED
    BY <1>1, <1>3, <2>1 DEF SaveSound, From
<1>6. TravelSound(k)'
  BY <1>3 DEF TravelSound, Alien, At, From
<1> QED
  BY <1>3, <1>4, <1>5, <1>6 DEF Calm

\* Events that say nothing of a tree add no tree.
LEMMA EmitHomes ==
    ASSUME Frame, Calm, UNCHANGED <<disk, mem, memOf, home>>,
           NEW kind \in {"opened", "closed", "changed"}, NEW p \in Places,
           events' = Emitted(kind, p, {}) \/ UNCHANGED events
    PROVE  Homes'
<1>1. Homes
  BY DEF Calm
<1>2. CASE UNCHANGED events
  BY <1>1, <1>2 DEF Homes, From
<1>3. CASE events' = Emitted(kind, p, {})
  <2>1. {} \in Trees
    BY DEF Trees
  <2>2. /\ Len(events) \in Nat /\ Len(events') = Len(events) + 1
        /\ \A i \in 1..Len(events) : events'[i] = events[i]
        /\ events'[Len(events) + 1].kind = kind
    BY <1>3, <2>1, EmitEvent DEF Frame
  <2>3. \A i \in 1..Len(events') :
           events'[i].kind = "initial" => i \in 1..Len(events) /\ events'[i] = events[i]
    BY <2>2
  <2> QED
    BY <1>1, <2>3 DEF Homes, From
<1> QED
  BY <1>2, <1>3

\* The steps of a switch, but its failure.
LEMMA SwitchCalm ==
    ASSUME Frame, Calm, NEW k \in Tasks, SwitchStep(k), ~crossed' PROVE Calm'
<1>1. /\ Shape(k) /\ task[k].phase \in {"clear", "set", "watch", "announce"}
      /\ UNCHANGED <<mem, pending, memOf, home>> /\ ~AnnounceFails(k)
  BY DEF Frame, Shapes, SwitchStep, CreateClears, SetDir, Watch, Announce, AnnounceFails, At, webview
<1>2. Travels(k) /\ TravelSound(k) /\ task[k].at \in Places /\ dir \in Places
  BY <1>1, TaskFacts, Basics DEF Shape, Travels, Calm
<1>3. ASSUME NEW phase \in {"set", "watch", "announce", "dir"}, Goto(k, phase)
      PROVE  /\ \A l \in Tasks : l # k => task'[l] = task[l]
             /\ task'[k].op = task[k].op /\ task'[k].phase = phase /\ task'[k].at = task[k].at
             /\ Travels(k)' /\ ~At(k, "invoked")' /\ ~At(k, "show")'
  <2>1. phase \in Phases
    BY DEF Phases
  <2> QED
    BY <1>2, <1>3, <2>1, GotoTask DEF Frame, Travels, At
<1>4. CASE CreateClears(k)
  <2>1. UNCHANGED <<dir, events>> /\ Goto(k, "set") /\ task[k].phase = "clear"
    BY <1>4 DEF CreateClears, At
  <2>2. disk' = disk
    <3>1. disk' = [disk EXCEPT ![task[k].at] = {}] /\ disk[task[k].at] = {}
      BY <1>2, <1>4 DEF CreateClears, TravelSound, At
    <3> QED
      BY <3>1 DEF Frame, TypeOK
  <2>3. Homes'
    BY <1>1, <1>2, <2>1, <2>2, EmitHomes
  <2> QED
    BY <1>1, <1>2, <1>3, <2>1, <2>2, <2>3, TravelGoesOn DEF TravelSound, Alien, At
<1>5. CASE SetDir(k)
  <2>1. /\ UNCHANGED <<disk, events>> /\ Goto(k, "watch") /\ dir' = task[k].at
        /\ task[k].phase = "set"
    BY <1>5 DEF SetDir, At
  <2>2. Homes'
    BY <1>1, <1>2, <2>1, EmitHomes
  <2> QED
    BY <1>1, <1>2, <1>3, <2>1, <2>2, TravelGoesOn DEF TravelSound, Alien, At
<1>6. CASE Watch(k)
  <2>1. /\ UNCHANGED <<disk, events, dir>> /\ Goto(k, "announce") /\ task[k].phase = "watch"
    BY <1>6 DEF Watch, At
  <2>2. Homes'
    BY <1>1, <1>2, <2>1, EmitHomes
  <2> QED
    BY <1>1, <1>2, <1>3, <2>1, <2>2, TravelGoesOn DEF TravelSound, Alien, At
<1>7. CASE Announce(k)
  <2>1. /\ UNCHANGED <<disk, dir>> /\ Goto(k, "dir") /\ task[k].phase = "announce"
    BY <1>7 DEF Announce, LoadFollows, At
  <2>2. Homes'
    <3>1. PICK p \in Places : p = task[k].at
      BY <1>2
    <3>2. events' = Emitted("closed", p, {}) \/ events' = Emitted("opened", p, {})
      BY <1>7, <3>1 DEF Announce
    <3> QED
      BY <1>1, <2>1, <3>2, EmitHomes
  <2> QED
    BY <1>1, <1>2, <1>3, <2>1, <2>2, TravelGoesOn DEF TravelSound, Alien, At
<1> QED
  BY <1>1, <1>4, <1>5, <1>6, <1>7 DEF SwitchStep

\* The steps of a load, but its failures.
LEMMA LoadCalm ==
    ASSUME Frame, Calm, NEW k \in Tasks, LoadStep(k), ~crossed' PROVE Calm'
<1>1. /\ Shape(k) /\ task[k].phase \in {"reopen", "dir", "content", "show"}
      /\ UNCHANGED <<disk, mem, pending, memOf, home>> /\ ~LoadFails(k)
  BY DEF Frame, Shapes, LoadStep, Reopen, LoadReadsDir, LoadReads, LoadShows, LoadFails, At, webview
<1>2. /\ Travels(k) /\ TravelSound(k) /\ task[k].at \in Places /\ dir \in Places
      /\ TypeOK /\ task[k].data \in Trees /\ ~Saves(k)
  BY <1>1, TaskFacts, Basics DEF Shape, Travels, Calm, Frame, TypeOK, TaskState
<1>3. {"watch", "dir", "content"} \subseteq Phases
  BY DEF Phases
<1>4. CASE Reopen(k)
  <2>1. task[k].phase = "reopen" /\ UNCHANGED events /\ \A l \in Tasks : ~Saves(l)
    BY <1>2, <1>4 DEF Reopen, At, TravelSound
  <2>2. Homes'
    BY <1>1, <1>2, <2>1, EmitHomes
  <2>3. CASE Goto(k, "dir") /\ UNCHANGED dir
    <3>1. /\ \A l \in Tasks : l # k => task'[l] = task[l]
          /\ task'[k].op = task[k].op /\ task'[k].phase = "dir"
      BY <1>2, <1>3, <2>3, GotoTask
    <3> QED
      BY <1>1, <1>2, <2>1, <2>2, <3>1, TravelGoesOn DEF Travels, At
  <2>4. CASE dir' = recent /\ recent # None /\ Aims(k, "watch", recent)
    <3>1. PICK p \in Places : p = recent
      BY <1>2, <2>4 DEF TypeOK, Places
    <3>2. /\ \A l \in Tasks : l # k => task'[l] = task[l]
          /\ task'[k].op = task[k].op /\ task'[k].phase = "watch" /\ task'[k].at = p
      BY <1>2, <1>3, <2>4, <3>1, AimTask
    <3> QED
      BY <1>1, <1>2, <2>1, <2>2, <2>4, <3>1, <3>2, TravelGoesOn DEF Travels, At
  <2> QED
    BY <1>4, <2>3, <2>4 DEF Reopen, Aims
<1>5. CASE LoadReadsDir(k)
  <2>1. Aims(k, "content", dir) /\ UNCHANGED <<dir, events>> /\ task[k].phase = "dir"
    BY <1>5 DEF LoadReadsDir, Aims, At
  <2>2. Homes'
    BY <1>1, <1>2, <2>1, EmitHomes
  <2>3. /\ \A l \in Tasks : l # k => task'[l] = task[l]
        /\ task'[k].op = task[k].op /\ task'[k].phase = "content" /\ task'[k].at = dir
    BY <1>2, <1>3, <2>1, AimTask
  <2> QED
    BY <1>1, <1>2, <2>1, <2>2, <2>3, TravelGoesOn DEF TravelSound, Alien, Travels, At
<1>6. CASE LoadReads(k)
  <2>1. /\ Reads(k, disk[dir]) /\ UNCHANGED <<dir, events>> /\ task[k].phase = "content"
        /\ task[k].at = dir /\ disk[dir] \in Trees
    BY <1>2, <1>6 DEF LoadReads, Reads, At, TravelSound, TypeOK
  <2>2. Homes'
    BY <1>1, <1>2, <2>1, EmitHomes
  <2>3. /\ \A l \in Tasks : l # k => task'[l] = task[l]
        /\ task'[k].op = task[k].op /\ task'[k].phase = "show" /\ task'[k].at = dir
        /\ task'[k].data = disk[dir]
    BY <1>2, <2>1, ReadTask
  <2>4. \A e \in disk[dir] : home[e] = dir
    BY <1>2 DEF Calm, Homes, From
  <2> QED
    BY <1>1, <1>2, <2>1, <2>2, <2>3, <2>4, TravelGoesOn DEF TravelSound, Alien, Travels, At
<1>7. CASE LoadShows(k)
  <2>0. PICK n \in Nat : n = Len(events) + 1
    BY <1>2 DEF TypeOK
  <2>1. /\ Ends(k) /\ UNCHANGED <<up, dir, path>> /\ task[k].at = dir
        /\ events' = Emitted("initial", dir, task[k].data)
        /\ disk[dir] \subseteq task[k].data /\ From(dir, task[k].data) /\ Alien(dir)
    BY <1>2, <1>7 DEF LoadShows, Ends, At, TravelSound, webview
  <2>2. /\ Len(events) \in Nat /\ Len(events') = n
        /\ \A i \in 1..Len(events) : events'[i] = events[i]
        /\ events'[n].kind = "initial" /\ events'[n].place = dir /\ events'[n].data = task[k].data
    BY <1>2, <2>0, <2>1, EmitEvent
  <2>3. n \in 1..Len(events') /\ \A i \in 1..Len(events') : i = n \/ i \in 1..Len(events)
    BY <2>0, <2>2
  <2>4. /\ \A l \in Tasks : l # k => task'[l] = task[l]
        /\ task'[k].op = "none" /\ task'[k].phase = "idle"
    BY <1>2, <2>1, EndTask
  <2>5. ~Settled /\ ~Settled'
    BY <1>2, <2>2, <2>3, SettledMeans
  <2>6. /\ ~pending.on /\ \A l \in Tasks : ~At(l, "invoked")
        /\ \A l \in Tasks : Travels(l) => l = k
    BY <1>2, <2>5 DEF Calm, Waits, TravelSound
  <2>7. /\ ~Saves(k)'
        /\ \A l \in Tasks : ~Travels(l)' /\ ~At(l, "invoked")'
        /\ \A l \in Tasks : l # k => (Saves(l)' <=> Saves(l)) /\ Aim(l)' = Aim(l)
    BY <2>1, <2>4, <2>6 DEF Saves, Travels, At, Aim
  <2>8. Homes'
    <3>1. Homes
      BY DEF Calm
    <3>2. \A i \in 1..Len(events') : i = n \/ (events'[i] = events[i] /\ i \in 1..Len(events))
      BY <2>2, <2>3
    <3>3. (\A p \in Places : From(p, disk[p])') /\ From(memOf, mem)'
      <4>1. From(memOf, mem)'
        BY <1>1, <3>1 DEF Homes, From
      <4>2. \A p \in Places : From(p, disk[p])'
        BY <1>1, <3>1 DEF Homes, From
      <4> QED
        BY <4>1, <4>2
    <3>4. From(events[n].place, events[n].data)'
      BY <1>1, <2>1, <2>2 DEF From
    <3>5. ASSUME NEW i \in 1..Len(events'), events'[i].kind = "initial", i # n
          PROVE  From(events[i].place, events[i].data)'
      <4>1. events'[i] = events[i] /\ From(events[i].place, events[i].data)
        BY <3>1, <3>2, <3>5 DEF Homes
      <4> QED
        BY <1>1, <4>1 DEF From
    <3> QED
      BY <3>3, <3>4, <3>5 DEF Homes
  <2>9. Waits' /\ Shown'
    BY <1>1, <2>5, <2>6, <2>7 DEF Waits, Shown
  <2>10. ASSUME NEW l \in Tasks, Saves(l)' PROVE SaveSound(l)'
    <3>1. l # k /\ Saves(l) /\ task'[l] = task[l] /\ Aim(l)' = Aim(l) /\ SaveSound(l)
      BY <2>4, <2>7, <2>10 DEF Calm
    <3> QED
      BY <1>1, <2>5, <2>7, <3>1 DEF SaveSound, From
  <2>11. Answered'
    <3>1. Alien(dir)'
      BY <1>2, <2>1, <2>7 DEF Alien
    <3>2. \A j \in 1..Len(events') : ~(j > n)
      BY <2>0, <2>2
    <3>3. /\ events'[n].kind = "initial" /\ events'[n].place = dir'
          /\ disk'[dir'] \subseteq events'[n].data
      BY <1>1, <2>1, <2>2
    <3> QED
      BY <2>3, <3>1, <3>2, <3>3 DEF Answered
  <2> QED
    BY <2>7, <2>8, <2>9, <2>10, <2>11 DEF Calm
<1> QED
  BY <1>1, <1>4, <1>5, <1>6, <1>7 DEF LoadStep

\* A watcher's report, at the end of what waits, settles and unsettles nothing.
LEMMA WatcherCalm ==
    ASSUME Frame, Calm, NEW p \in Projects, Watcher(p) PROVE Calm'
<1>1. UNCHANGED <<up, dir, disk, task, mem, path, pending, memOf, home>>
  BY DEF Watcher, WatcherChecks, WatcherTimesOut, WatcherReports, webview
<1>2. /\ Len(events) \in Nat /\ 1..Len(events) \subseteq 1..Len(events')
      /\ \A i \in 1..Len(events) : events'[i] = events[i]
      /\ \A i \in 1..Len(events') : i \in 1..Len(events) \/ events'[i].kind = "changed"
  <2>1. CASE WatcherReports(p)
    <3>1. p \in Places /\ {} \in Trees /\ events' = Emitted("changed", p, {})
      BY <2>1 DEF WatcherReports, Places, Trees
    <3>2. /\ Len(events) \in Nat /\ Len(events') = Len(events) + 1
          /\ \A i \in 1..Len(events) : events'[i] = events[i]
          /\ events'[Len(events) + 1].kind = "changed"
      BY <3>1, EmitEvent DEF Frame
    <3> QED
      BY <3>2
  <2>2. CASE UNCHANGED events
    BY <2>2 DEF Frame, TypeOK
  <2> QED
    BY <2>1, <2>2 DEF Watcher, WatcherChecks, WatcherTimesOut
<1>3. \A l \in Tasks : /\ Saves(l)' <=> Saves(l)
                       /\ Travels(l)' <=> Travels(l)
                       /\ Aim(l)' = Aim(l)
                       /\ At(l, "invoked")' <=> At(l, "invoked")
  BY <1>1 DEF Saves, Travels, Aim, At
<1>4. Settled' <=> Settled
  BY <1>2, <1>3, SettledMeans
<1>5. Homes'
  <2>1. \A i \in 1..Len(events') :
           events'[i].kind = "initial" => i \in 1..Len(events) /\ events'[i] = events[i]
    BY <1>2
  <2> QED
    BY <1>1, <2>1 DEF Calm, Homes, From
<1>6. Waits' /\ Shown'
  BY <1>1, <1>3, <1>4 DEF Calm, Waits, Shown
<1>7. ASSUME NEW l \in Tasks, Saves(l)' PROVE SaveSound(l)'
  <2>1. SaveSound(l)
    BY <1>3, <1>7 DEF Calm
  <2> QED
    BY <1>1, <1>3, <1>4, <2>1 DEF SaveSound, From
<1>8. ASSUME NEW l \in Tasks, Travels(l)' PROVE TravelSound(l)'
  <2>1. TravelSound(l)
    BY <1>3, <1>8 DEF Calm
  <2> QED
    BY <1>1, <1>3, <2>1 DEF TravelSound, Alien, At, From
<1>9. ASSUME ~Settled', \A l \in Tasks : ~Travels(l)' PROVE Answered'
  <2>1. Answered
    BY <1>3, <1>4, <1>9 DEF Calm
  <2>2. PICK i \in 1..Len(events) :
           /\ events[i].kind = "initial" /\ events[i].place = dir
           /\ disk[dir] \subseteq events[i].data
           /\ \A j \in 1..Len(events) : j > i => events[j].kind = "changed"
    BY <2>1 DEF Answered
  <2>3. \A j \in 1..Len(events') : j > i => events'[j].kind = "changed"
    BY <1>2, <2>2
  <2>4. Alien(dir)'
    BY <1>1, <1>3, <2>1 DEF Answered, Alien
  <2> QED
    BY <1>1, <1>2, <2>2, <2>3, <2>4 DEF Answered
<1> QED
  BY <1>5, <1>6, <1>7, <1>8, <1>9 DEF Calm

\* The webview takes an event: what is left says whether it has been told.
LEMMA HandleFacts ==
    ASSUME Frame, Calm, NEW kind, Handles(kind), UNCHANGED <<task, dir, disk, home>>
    PROVE  /\ \A l \in Tasks : /\ Saves(l)' <=> Saves(l)
                               /\ Travels(l)' <=> Travels(l)
                               /\ Aim(l)' = Aim(l)
                               /\ At(l, "invoked")' <=> At(l, "invoked")
           /\ \A i \in 1..Len(events') :
                 events'[i].kind = "initial" => From(events[i].place, events[i].data)'
           /\ Settled => Settled' /\ kind = "changed"
           /\ Settled' /\ ~Settled => /\ kind = "initial" /\ Alien(dir)
                                      /\ events[1].place = dir /\ disk[dir] \subseteq events[1].data
           /\ ~Settled' /\ (\A l \in Tasks : ~Travels(l)) => Answered'
<1>1. /\ Len(events) \in Nat /\ Len(events') = Len(events) - 1 /\ Len(events') \in Nat
      /\ 1 \in 1..Len(events)
      /\ \A i \in 1..Len(events') : events'[i] = events[i + 1]
      /\ events[1].kind = kind
  BY HandleEvent DEF Frame
<1>2. /\ \A i \in 1..Len(events') : i + 1 \in 1..Len(events)
      /\ \A i \in 1..Len(events) : i # 1 => i - 1 \in 1..Len(events') /\ events'[i - 1] = events[i]
  BY <1>1
<1>3. \A l \in Tasks : /\ Saves(l)' <=> Saves(l)
                       /\ Travels(l)' <=> Travels(l)
                       /\ Aim(l)' = Aim(l)
                       /\ At(l, "invoked")' <=> At(l, "invoked")
  BY DEF Saves, Travels, Aim, At
<1>4. Settled => Settled' /\ kind = "changed"
  BY <1>1, <1>2, <1>3, SettledMeans
<1>5. ASSUME NEW i \in 1..Len(events'), events'[i].kind = "initial"
      PROVE  From(events[i].place, events[i].data)'
  <2>1. PICK j \in 1..Len(events) : events'[i] = events[j] /\ events[j].kind = "initial"
    BY <1>1, <1>2, <1>5
  <2>2. From(events[j].place, events[j].data)
    BY <2>1 DEF Calm, Homes
  <2> QED
    BY <2>1, <2>2 DEF From
<1>6. ASSUME ~Settled, \A l \in Tasks : ~Travels(l)
      PROVE  /\ Settled' => /\ kind = "initial" /\ Alien(dir)
                            /\ events[1].place = dir /\ disk[dir] \subseteq events[1].data
             /\ ~Settled' => Answered'
  <2>1. PICK i \in 1..Len(events) :
           /\ events[i].kind = "initial" /\ events[i].place = dir
           /\ disk[dir] \subseteq events[i].data
           /\ \A j \in 1..Len(events) : j > i => events[j].kind = "changed"
    BY <1>6 DEF Calm, Answered
  <2>2. Alien(dir) /\ Alien(dir)'
    BY <1>3, <1>6 DEF Calm, Answered, Alien
  <2>3. CASE i = 1
    <3>1. \A j \in 1..Len(events') : events'[j].kind = "changed"
      BY <1>1, <1>2, <2>1, <2>3
    <3>2. Settled'
      BY <1>3, <1>6, <3>1, SettledMeans
    <3> QED
      BY <1>1, <2>1, <2>2, <2>3, <3>2
  <2>4. CASE i # 1
    <3>1. i - 1 \in 1..Len(events') /\ events'[i - 1] = events[i]
      BY <1>2, <2>4
    <3>2. PICK m \in 1..Len(events') : m = i - 1
      BY <3>1
    <3>3. ~Settled'
      BY <2>1, <3>1, SettledMeans
    <3>4. \A j \in 1..Len(events') : j > m => events'[j].kind = "changed"
      BY <1>1, <1>2, <2>1, <3>2
    <3>5. Answered'
      BY <2>1, <2>2, <3>1, <3>2, <3>4 DEF Answered
    <3> QED
      BY <3>3, <3>5
  <2> QED
    BY <2>3, <2>4
<1>7. ASSUME ~Settled, ~ \A l \in Tasks : ~Travels(l) PROVE ~Settled'
  BY <1>3, <1>7, SettledMeans
<1> QED
  BY <1>3, <1>4, <1>5, <1>6, <1>7, SettledMeans

\* Handling an event keeps the calm, if it leaves the tree that is shown in order.
LEMMA HandleKeeps ==
    ASSUME Frame, Calm, NEW kind, Handles(kind), UNCHANGED <<task, dir, disk, home, pending>>,
           From(memOf, mem)',
           Settled => UNCHANGED <<mem, memOf, path>>,
           Settled' /\ ~Settled => path' = dir /\ memOf' = dir /\ disk[dir] \subseteq mem'
    PROVE  Calm'
<1>1. /\ \A l \in Tasks : /\ Saves(l)' <=> Saves(l)
                          /\ Travels(l)' <=> Travels(l)
                          /\ Aim(l)' = Aim(l)
                          /\ At(l, "invoked")' <=> At(l, "invoked")
      /\ \A i \in 1..Len(events') :
            events'[i].kind = "initial" => From(events[i].place, events[i].data)'
      /\ Settled => Settled'
      /\ Settled' /\ ~Settled => Alien(dir)
      /\ ~Settled' /\ (\A l \in Tasks : ~Travels(l)) => Answered'
  BY HandleFacts
<1>2. Homes'
  <2>1. \A p \in Places : From(p, disk[p])'
    BY DEF Calm, Homes, From
  <2> QED
    BY <1>1, <2>1 DEF Homes
<1>3. Waits' /\ Shown'
  BY <1>1 DEF Calm, Waits, Shown, Handles
<1>4. ASSUME NEW l \in Tasks, Saves(l)' PROVE SaveSound(l)'
  <2>1. SaveSound(l) /\ Saves(l) /\ task'[l] = task[l]
    BY <1>1, <1>4 DEF Calm
  <2>2. Settled' /\ Aim(l) = dir => task[l].data \subseteq mem'
    BY <1>1, <2>1 DEF SaveSound, Alien
  <2>3. From(Aim(l), task[l].data)'
    BY <1>1, <2>1 DEF SaveSound, From
  <2> QED
    BY <1>1, <2>1, <2>2, <2>3 DEF SaveSound
<1>5. ASSUME NEW l \in Tasks, Travels(l)' PROVE TravelSound(l)'
  <2>1. TravelSound(l)
    BY <1>1, <1>5 DEF Calm
  <2> QED
    BY <1>1, <2>1 DEF TravelSound, Alien, At, From
<1> QED
  BY <1>1, <1>2, <1>3, <1>4, <1>5 DEF Calm

\* The webview handles an event.
LEMMA HandledCalm ==
    ASSUME Frame, Calm, Handled, ~crossed' PROVE Calm'
<1>0. From(memOf, mem) /\ App \in Places
  BY Basics DEF Calm, Homes
<1>1. CASE OpenedHandled
  <2>1. Handles("opened") /\ UNCHANGED <<task, dir, disk, home, pending, mem, memOf>>
    BY <1>1 DEF OpenedHandled, rust
  <2>2. ~Settled /\ ~Settled'
    BY <2>1, HandleFacts
  <2> QED
    BY <1>0, <2>1, <2>2, HandleKeeps DEF From
<1>2. CASE ClosedHandled
  <2>1. Handles("closed") /\ UNCHANGED <<task, dir, disk, home, pending>> /\ mem' = {}
    BY <1>2 DEF ClosedHandled, ClosedSavesNothing, rust
  <2>2. ~Settled /\ ~Settled'
    BY <2>1, HandleFacts
  <2> QED
    BY <2>1, <2>2, HandleKeeps DEF From
<1>3. CASE InitialHandled
  <2>1. /\ Handles("initial") /\ UNCHANGED <<task, dir, disk, home, pending>>
        /\ mem' = Head(events).data /\ memOf' = Head(events).place /\ path' = Head(events).place
    BY <1>3 DEF InitialHandled, rust
  <2>2. /\ Head(events) = events[1] /\ 1 \in 1..Len(events) /\ events[1].kind = "initial"
    BY <2>1, HandleEvent DEF Frame
  <2>3. ~Settled /\ (Settled' => events[1].place = dir /\ disk[dir] \subseteq events[1].data)
    BY <2>1, HandleFacts
  <2>4. From(memOf, mem)'
    <3>1. From(events[1].place, events[1].data)
      BY <2>2 DEF Calm, Homes
    <3> QED
      BY <2>1, <2>2, <3>1 DEF From
  <2> QED
    BY <2>1, <2>2, <2>3, <2>4, HandleKeeps
<1>4. ASSUME NEW k \in Tasks, ChangedHandled(k) PROVE Calm'
  <2>1. Handles("changed") /\ UNCHANGED <<dir, disk, home, pending, mem, memOf, path>>
    BY <1>4 DEF ChangedHandled, webview
  <2>2. CASE UNCHANGED task
    <3>1. Settled' => Settled
      BY <2>1, <2>2, HandleFacts
    <3> QED
      BY <1>0, <2>1, <2>2, <3>1, HandleKeeps DEF From
  <2>3. CASE ~UNCHANGED task
    <3>1. /\ Free(k) /\ Starts(k, "load", "dir", App, {})
          /\ Settled /\ ~SaveMeets(dir) /\ ~pending.on
      BY <1>4, <2>3 DEF ChangedHandled, Starts
    <3>2. "load" \in Ops /\ "dir" \in Phases /\ {} \in Trees
      BY DEF Ops, Phases, Trees
    <3>3. /\ \A l \in Tasks : l # k => task'[l] = task[l]
          /\ task'[k].op = "load" /\ task'[k].phase = "dir"
      BY <1>0, <3>1, <3>2, StartTask DEF Frame
    <3>4. (\A l \in Tasks : ~At(l, "invoked")) /\ Alien(dir)
      BY <3>1, TaskFacts DEF SaveMeets, Alien
    <3>5. \A i \in 1..Len(events') : events'[i].kind # "initial"
      <4>1. /\ \A i \in 1..Len(events') : events'[i] = events[i + 1] /\ i + 1 \in 1..Len(events)
        BY <2>1, HandleEvent DEF Frame
      <4> QED
        BY <3>1, <4>1, SettledMeans
    <3> QED
      BY <2>1, <3>1, <3>3, <3>4, <3>5, TravelBegins DEF Travels, At
  <2> QED
    BY <2>2, <2>3
<1> QED
  BY <1>1, <1>2, <1>3, <1>4 DEF Handled

\* The app starts with nothing under way.
LEMMA LaunchCalm ==
    ASSUME Frame, Calm, NEW k \in Tasks, Launch(k) PROVE Calm'
<1>1. /\ \A l \in Tasks : Free(l) /\ ~Saves(l) /\ ~Travels(l)
      /\ ~pending.on /\ Len(events) = 0
      /\ UNCHANGED <<dir, disk, events, mem, pending, memOf, home>>
  BY TaskFacts DEF Launch, Frame, Down, webview
<1>2. \A l \in Tasks : ~At(l, "invoked")
  BY <1>1, TaskFacts
<1>3. /\ \A l \in Tasks : l # k => task'[l] = task[l]
      /\ task'[k].op = "load" /\ task'[k].phase = "reopen"
  <2>1. Starts(k, "load", "reopen", App, {})
    BY DEF Launch, Starts
  <2>2. "load" \in Ops /\ "reopen" \in Phases /\ {} \in Trees
    BY DEF Ops, Phases, Trees
  <2> QED
    BY <2>1, <2>2, StartTask, Basics DEF Frame
<1>4. Settled
  BY <1>1, SettledMeans
<1> QED
  BY <1>1, <1>2, <1>3, <1>4, TravelBegins DEF Travels, At

\* Its end leaves what is on disk.
LEMMA CrashCalm ==
    ASSUME Frame, Calm, Crash PROVE Calm'
<1>1. /\ ~up' /\ mem' = {} /\ memOf' = App /\ pending' = NotPending /\ events' = <<>>
      /\ UNCHANGED <<disk, home>>
      /\ \A l \in Tasks : task'[l] = Idle
  BY DEF Crash
<1>2. Len(events') = 0 /\ \A l \in Tasks : ~Travels(l)' /\ ~Saves(l)'
  BY <1>1, Basics DEF Travels, Saves
<1>3. Settled'
  BY <1>2, SettledMeans
<1>4. Homes' /\ Waits' /\ Shown'
  BY <1>1, <1>2, <1>3, Basics DEF Calm, Homes, Waits, Shown, From
<1> QED
  BY <1>2, <1>3, <1>4 DEF Calm

-----------------------------------------------------------------------------
(* The invariant and what it says *)

\* What has crossed stays crossed.
LEMMA CrossedStays == ASSUME [Next]_vars, ~crossed' PROVE ~crossed \/ UNCHANGED vars
BY DEF Next, Edit, SwitchClicked, CreateClicked, DeleteMetaClicked, TimerFires, SaveStep,
   SaveReadsDir, SaveWrites, SaveFails, SwitchStep, CreateClears, SetDir, Watch, Announce,
   AnnounceFails, LoadStep, Reopen, LoadReadsDir, LoadReads, LoadShows, LoadFails, Launch,
   Handled, OpenedHandled, ClosedHandled, InitialHandled, ChangedHandled, Watcher,
   WatcherChecks, WatcherTimesOut, WatcherReports, Crash

\* What does not cross keeps the calm.
LEMMA CalmStep ==
    ASSUME Frame, ~crossed => Calm, [Next]_vars, ~crossed' PROVE Calm'
<1>1. CASE UNCHANGED vars
  <2>1. Calm
    BY <1>1 DEF vars
  <2> QED
    BY <1>1, <2>1 DEF vars, rust, webview, Calm, Homes, Waits, Shown, Settled, SaveSound,
       TravelSound, Answered, Saves, Travels, Aim, At, Alien, From
<1>2. CASE Next /\ ~UNCHANGED vars
  <2>1. Calm
    BY <1>2, CrossedStays
  <2>2. ASSUME NEW k \in Tasks,
               \/ \E p \in Places : SwitchClicked(k, p) \/ CreateClicked(k, p)
               \/ DeleteMetaClicked(k)
               \/ TimerFires(k)
        PROVE  Calm'
    BY <2>1, <2>2, ClickCalm, TimerCalm
  <2>3. ASSUME NEW k \in Tasks, SaveStep(k) \/ SwitchStep(k) \/ LoadStep(k) \/ Launch(k)
        PROVE  Calm'
    BY <2>1, <2>3, SaveReadsCalm, SaveEndsCalm, SwitchCalm, LoadCalm, LaunchCalm DEF SaveStep
  <2> QED
    BY <1>2, <2>1, <2>2, <2>3, EditCalm, HandledCalm, WatcherCalm, CrashCalm DEF Next
<1> QED
  BY <1>1, <1>2

\* The invariant always holds.
LEMMA Invariance == Spec => []Inv
<1>1. Init => Inv
  BY FrameInit, CalmInit DEF Inv
<1>2. Inv /\ [Next]_vars => Inv'
  BY FrameStep, CalmStep DEF Inv
<1> QED
  BY <1>1, <1>2, PTL DEF Spec

\* TreesStayHome always holds: no switch carries an edit of one project into the files
\* of another, unless the user acts before a switch is shown, or a save or a failure
\* crosses it.
THEOREM TreesAreHome == Spec => []TreesStayHome
<1>1. Inv => TreesStayHome
  BY DEF Inv, Calm, Homes, From, TreesStayHome
<1> QED
  BY <1>1, Invariance, PTL

\* ShownIsOpen always holds: once a switch has settled, the webview shows the place that
\* saves will go to, with all that is on its disk.
THEOREM OpenIsShown == Spec => []ShownIsOpen
<1>1. Inv => ShownIsOpen
  BY DEF Inv, Calm, Shown, ShownIsOpen
<1> QED
  BY <1>1, Invariance, PTL

\* DiskNeverShrinks always holds: no save, switch, creation or crash takes from a place
\* what its files had.
THEOREM NothingIsLost == Spec => DiskNeverShrinks
<1>1. Inv /\ [Next]_vars => [~crossed' => \A p \in Places : disk[p] \subseteq disk'[p]]_vars
  <2> SUFFICES ASSUME Inv, [Next]_vars, ~UNCHANGED vars, ~crossed', NEW p \in Places
               PROVE  disk[p] \subseteq disk'[p]
    OBVIOUS
  <2>1. Frame /\ Calm /\ Next
    BY CrossedStays DEF Inv
  <2>2. CASE UNCHANGED disk
    BY <2>2
  <2>3. ASSUME NEW k \in Tasks, SaveWrites(k) PROVE disk[p] \subseteq disk'[p]
    BY <2>1, <2>3, SaveEndsCalm
  <2>4. ASSUME NEW k \in Tasks, CreateClears(k) PROVE disk[p] \subseteq disk'[p]
    <3>1. Shape(k) /\ At(k, "clear")
      BY <2>1, <2>4 DEF Frame, Shapes, CreateClears
    <3>2. TravelSound(k)
      BY <2>1, <3>1 DEF Calm, Travels, Shape, At
    <3>3. disk[task[k].at] = {} /\ disk' = [disk EXCEPT ![task[k].at] = {}]
      BY <2>4, <3>1, <3>2 DEF TravelSound, CreateClears
    <3> QED
      BY <2>1, <3>3 DEF Frame, TypeOK
  <2>5. \/ UNCHANGED disk
        \/ \E k \in Tasks : SaveWrites(k) \/ CreateClears(k)
    BY <2>1 DEF Next, Edit, SwitchClicked, CreateClicked, DeleteMetaClicked, Clicked, TimerFires,
       SaveStep, SaveReadsDir, SaveFails, SwitchStep, SetDir, Watch, Announce, AnnounceFails,
       LoadStep, Reopen, LoadReadsDir, LoadReads, LoadShows, LoadFails, Launch, Handled,
       OpenedHandled, ClosedHandled, InitialHandled, ChangedHandled, Watcher, WatcherChecks,
       WatcherTimesOut, WatcherReports, Crash, rust
  <2> QED
    BY <2>2, <2>3, <2>4, <2>5
<1> QED
  BY <1>1, Invariance, PTL DEF Spec, DiskNeverShrinks
-----------------------------------------------------------------------------
(* The watcher threads, and what a restart and a watcher are for           *)

\* A thread that runs goes on running as long as the app does.
WatcherKeepsRunning ==
    \A p \in Projects : thread[p] # "none" /\ up' => thread'[p] # "none"

\* The project whose handle is held has a thread and a .nouto directory.
WatchedHasThread == handle # None => thread[handle] # "none" /\ handle \in nouto

\* No step but the end of the app ends a thread: closing a project or opening another
\* drops the handle and leaves the thread, for any projects and any number of switches,
\* which is why WatcherStops fails.
THEOREM WatchersNeverStop == Spec => [][WatcherKeepsRunning]_vars /\ []WatchedHasThread
<1>1. Init => WatchedHasThread
  BY DEF Init, WatchedHasThread
<1>a. ASSUME TypeOK, Next
      PROVE  \/ UNCHANGED <<thread, handle>> /\ nouto \subseteq nouto'
             \/ \E k \in Tasks : Watch(k)
             \/ \E p \in Projects : Watcher(p)
             \/ Crash
  <2>1. ASSUME NEW k \in Tasks, SaveWrites(k) \/ CreateClears(k)
        PROVE  UNCHANGED <<thread, handle>> /\ nouto \subseteq nouto'
    BY <2>1 DEF SaveWrites, CreateClears
  <2>2. ASSUME NEW k \in Tasks,
               \/ SaveReadsDir(k) \/ SaveFails(k) \/ SetDir(k) \/ Announce(k)
               \/ AnnounceFails(k) \/ LoadStep(k) \/ Launch(k) \/ TimerFires(k)
               \/ DeleteMetaClicked(k)
               \/ \E p \in Places : SwitchClicked(k, p) \/ CreateClicked(k, p)
        PROVE  UNCHANGED <<thread, handle, nouto>>
    BY <2>2 DEF SwitchClicked, CreateClicked, DeleteMetaClicked, Clicked, TimerFires,
       SaveReadsDir, SaveFails, SetDir, Announce, AnnounceFails, LoadStep, Reopen,
       LoadReadsDir, LoadReads, LoadShows, LoadFails, Launch
  <2>3. ASSUME Handled \/ \E e \in Edits : Edit(e) PROVE UNCHANGED <<thread, handle, nouto>>
    BY <2>3 DEF Edit, Handled, OpenedHandled, ClosedHandled, InitialHandled, ChangedHandled, rust
  <2> QED
    BY <1>a, <2>1, <2>2, <2>3 DEF Next, SaveStep, SwitchStep
<1>b. ASSUME TypeOK, NEW k \in Tasks, Watch(k)
      PROVE  /\ \A p \in Projects : thread[p] # "none" => thread'[p] = thread[p]
             /\ nouto' = nouto
             /\ \/ handle' = None
                \/ handle' \in nouto /\ thread'[handle'] # "none"
  BY <1>b DEF Watch, TypeOK
<1>c. ASSUME TypeOK, NEW p \in Projects, Watcher(p)
      PROVE  /\ UNCHANGED <<handle, nouto>> /\ thread'[p] # "none"
             /\ \A q \in Projects \ {p} : thread'[q] = thread[q]
  BY <1>c DEF Watcher, WatcherChecks, WatcherTimesOut, WatcherReports, AsksForStop, TypeOK
<1>2. TypeOK /\ WatchedHasThread /\ [Next]_vars => WatchedHasThread'
  <2> SUFFICES ASSUME TypeOK, WatchedHasThread, [Next]_vars PROVE WatchedHasThread'
    OBVIOUS
  <2>0. handle \in Projects \cup {None} /\ None \notin Projects
    BY ConstantsAssumption DEF TypeOK, Places
  <2>1. CASE Next
    <3>1. CASE \E k \in Tasks : Watch(k)
      BY <1>b, <3>1 DEF WatchedHasThread
    <3>2. CASE \E p \in Projects : Watcher(p)
      BY <1>c, <2>0, <3>2 DEF WatchedHasThread
    <3>3. CASE Crash
      BY <3>3 DEF Crash, WatchedHasThread
    <3> QED
      BY <1>a, <2>1, <3>1, <3>2, <3>3 DEF WatchedHasThread
  <2>2. CASE UNCHANGED vars
    BY <2>2 DEF vars, rust, WatchedHasThread
  <2> QED
    BY <2>1, <2>2
<1>3. TypeOK /\ [Next]_vars => [WatcherKeepsRunning]_vars
  <2> SUFFICES ASSUME TypeOK, Next, NEW p \in Projects, thread[p] # "none", up'
               PROVE  thread'[p] # "none"
    BY DEF WatcherKeepsRunning
  <2>1. ~Crash
    BY DEF Crash
  <2>2. ASSUME NEW q \in Projects, Watcher(q) PROVE thread'[p] # "none"
    BY <1>c, <2>2
  <2>3. ASSUME NEW k \in Tasks, Watch(k) PROVE thread'[p] # "none"
    BY <1>b, <2>3
  <2> QED
    BY <1>a, <2>1, <2>2, <2>3
<1> QED
  BY <1>1, <1>2, <1>3, TypeCorrect, PTL DEF Spec

\* Unless actions crossed: the project that is open is the one a restart reopens, once its
\* switch has told so, and no project is watched but the one that is open, once the switch
\* has come to its watcher.
OpenIsRemembered ==
    ~crossed =>
        /\ dir # App /\ (\A k \in Tasks : task[k].phase \notin {"watch", "announce"}) =>
              recent = dir
        /\ (\A k \in Tasks : task[k].phase # "watch") => handle \in {None, dir}

\* What does not touch the directory, the recent projects, the watcher or a command that
\* is about to.
LEMMA OthersRemember ==
    ASSUME OpenIsRemembered, UNCHANGED <<dir, recent, handle>>, ~crossed' => ~crossed,
           \A k \in Tasks : task[k].phase \in {"watch", "announce"} => task'[k] = task[k]
    PROVE  OpenIsRemembered'
BY DEF OpenIsRemembered

\* A command that is about to watch or to announce is the only one to show a tree, and is
\* about the open directory.
LEMMA RememberStep == Inv /\ OpenIsRemembered /\ [Next]_vars => OpenIsRemembered'
<1> SUFFICES ASSUME Inv, OpenIsRemembered, [Next]_vars PROVE OpenIsRemembered'
  OBVIOUS
<1> SUFFICES ASSUME ~crossed', ~UNCHANGED vars PROVE OpenIsRemembered'
  BY DEF OpenIsRemembered, vars, rust
<1>0. /\ Next /\ ~crossed /\ Calm /\ Frame
      /\ task \in [Tasks -> TaskState] /\ Idle.phase = "idle"
  BY CrossedStays, Basics DEF Inv, Frame, TypeOK
<1>1. ASSUME NEW k \in Tasks, task[k].phase \in {"watch", "announce"}
      PROVE  task[k].at = dir
  <2>1. Travels(k)
    BY <1>0, <1>1, Basics DEF Frame, Shapes, Shape, Travels
  <2> QED
    BY <1>0, <1>1, <2>1 DEF Calm, TravelSound
<1>a. ASSUME NEW k \in Tasks, task[k].phase \notin {"watch", "announce"},
             \A l \in Tasks : l # k => task'[l] = task[l],
             UNCHANGED <<dir, recent, handle>>
      PROVE  OpenIsRemembered'
  BY <1>0, <1>a, OthersRemember
<1>2. ASSUME NEW k \in Tasks,
             \/ \E p \in Places : SwitchClicked(k, p) \/ CreateClicked(k, p)
             \/ DeleteMetaClicked(k) \/ TimerFires(k) \/ Launch(k)
      PROVE  OpenIsRemembered'
  <2>1. /\ \E s : task' = [task EXCEPT ![k] = s]
        /\ UNCHANGED <<dir, recent, handle>>
    BY <1>2 DEF SwitchClicked, CreateClicked, DeleteMetaClicked, Clicked, TimerFires, Launch
  <2>2. task[k].phase = "idle"
    <3>1. Free(k)
      BY <1>0, <1>2 DEF SwitchClicked, CreateClicked, DeleteMetaClicked, Clicked, TimerFires,
         Launch, Frame, Down
    <3> QED
      BY <1>0, <3>1 DEF Free
  <2> QED
    BY <1>0, <1>a, <2>1, <2>2
<1>3. ASSUME NEW k \in Tasks,
             SaveStep(k) \/ CreateClears(k) \/ LoadReadsDir(k) \/ LoadReads(k) \/ LoadShows(k)
                \/ LoadFails(k)
      PROVE  OpenIsRemembered'
  <2>1. task[k].phase \notin {"watch", "announce"} /\ UNCHANGED <<dir, recent, handle>>
    BY <1>3 DEF SaveStep, SaveReadsDir, SaveWrites, SaveFails, CreateClears, LoadReadsDir,
       LoadReads, LoadShows, LoadFails, At
  <2>2. \E s : task' = [task EXCEPT ![k] = s]
    BY <1>3 DEF SaveStep, SaveReadsDir, SaveWrites, SaveFails, CreateClears, LoadReadsDir,
       LoadReads, LoadShows, LoadFails, Goto
  <2> QED
    BY <1>0, <1>a, <2>1, <2>2
<1>4. ASSUME NEW k \in Tasks, SetDir(k) \/ Reopen(k) PROVE OpenIsRemembered'
  <2>1. CASE task'[k].phase = "watch"
    BY <2>1 DEF OpenIsRemembered
  <2>2. CASE task'[k].phase # "watch"
    <3>1. task[k].phase \in {"set", "reopen"} /\ UNCHANGED <<recent, handle>>
      BY <1>4 DEF SetDir, Reopen, At
    <3>2. ~SetDir(k)
      BY <1>0, <2>2 DEF SetDir, Goto, TaskState
    <3>3. Goto(k, "dir") /\ UNCHANGED dir
      BY <1>0, <1>4, <2>2, <3>2 DEF Reopen, TaskState
    <3> QED
      BY <1>0, <1>a, <3>1, <3>3 DEF Goto
  <2> QED
    BY <2>1, <2>2
<1>5. ASSUME NEW k \in Tasks, Watch(k) PROVE OpenIsRemembered'
  <2>1. task[k].at = dir /\ dir' = dir
    BY <1>1, <1>5 DEF Watch, At
  <2>2. task'[k].phase = "announce" /\ handle' \in {None, dir}
    BY <1>0, <1>5, <2>1 DEF Watch, Goto, TaskState
  <2> QED
    BY <2>1, <2>2 DEF OpenIsRemembered
<1>6. ASSUME NEW k \in Tasks, Announce(k) PROVE OpenIsRemembered'
  <2>1. task[k].at = dir /\ UNCHANGED <<dir, handle>> /\ task[k].phase = "announce"
    BY <1>1, <1>6 DEF Announce, At
  <2>2. recent' = IF dir = App THEN recent ELSE dir
    BY <1>6, <2>1 DEF Announce, Remembered
  <2>3. \A l \in Tasks : l # k => task'[l] = task[l]
    BY <1>0, <1>6 DEF Announce, LoadFollows, Goto
  <2>4. (\A l \in Tasks : task'[l].phase # "watch") => \A l \in Tasks : task[l].phase # "watch"
    BY <2>1, <2>3
  <2> QED
    BY <1>0, <2>1, <2>2, <2>4 DEF OpenIsRemembered
<1>7. ASSUME NEW k \in Tasks, AnnounceFails(k) PROVE FALSE
  BY <1>7 DEF AnnounceFails
<1>8. ASSUME \/ \E e \in Edits : Edit(e)
             \/ \E p \in Projects : Watcher(p)
             \/ OpenedHandled \/ ClosedHandled \/ InitialHandled
      PROVE  OpenIsRemembered'
  <2>1. UNCHANGED <<dir, recent, handle, task>>
    BY <1>8 DEF Edit, Watcher, WatcherChecks, WatcherTimesOut, WatcherReports, OpenedHandled,
       ClosedHandled, InitialHandled, rust
  <2> QED
    BY <1>0, <2>1, OthersRemember
<1>9. ASSUME NEW k \in Tasks, ChangedHandled(k) PROVE OpenIsRemembered'
  <2>1. UNCHANGED <<dir, recent, handle>>
    BY <1>9 DEF ChangedHandled
  <2>2. CASE UNCHANGED task
    BY <1>0, <2>1, <2>2, OthersRemember
  <2>3. CASE Free(k) /\ \E s : task' = [task EXCEPT ![k] = s]
    <3>1. task[k].phase = "idle"
      BY <1>0, <2>3 DEF Free
    <3> QED
      BY <1>0, <1>a, <2>1, <2>3, <3>1
  <2> QED
    BY <1>9, <2>2, <2>3 DEF ChangedHandled
<1>10. CASE Crash
  BY <1>10 DEF Crash, OpenIsRemembered
<1> QED
  BY <1>0, <1>2, <1>3, <1>4, <1>5, <1>6, <1>7, <1>8, <1>9, <1>10
     DEF Next, SwitchStep, LoadStep, Handled

\* However projects are opened, closed, created and reopened, the app comes back to the
\* project it was left in and watches no other, unless the user acts before a switch is
\* shown, or a save or a failure crosses it.
THEOREM OpenAlwaysRemembered == Spec => []OpenIsRemembered
<1>1. Init => OpenIsRemembered
  BY DEF Init, OpenIsRemembered
<1> QED
  BY <1>1, RememberStep, Invariance, PTL DEF Spec
=============================================================================
