---------------------------- MODULE ProjectSession ----------------------------
(***************************************************************************)
(* Which project is open in the desktop app, and whose collections the     *)
(* webview shows and the save command writes.  The Rust side keeps the     *)
(* open directory in ProjectDirState; the webview follows it by events.    *)
(* Commands run concurrently: open, close, create, reload and save share   *)
(* nothing but that directory, and each reads it at a moment of its own.   *)
(*                                                                         *)
(* A tree of collections is the set of the edits that made it; deleting an *)
(* item is left out.  How a tree gets to disk is the business of           *)
(* DesktopSave and ProjectStorage: here a save writes in one step.  The    *)
(* settling of secrets after a load and the sample collection of the first *)
(* run are modelled in DesktopSave.  Watcher threads on one folder count   *)
(* as one.  An unused definition is the form a plausible mistake would     *)
(* give the one after it.                                                  *)
(***************************************************************************)
EXTENDS Naturals, Sequences

CONSTANTS Projects,   \* project directories
          App,        \* the app-data storage, used while no project is open
          Tasks,      \* the commands that may be under way
          Edits,      \* what the user may add to a tree
          None,       \* nothing
          MaxChanged  \* bound: reports of changed files that may be waiting

Places == Projects \cup {App}

ASSUME ConstantsAssumption ==
    /\ App \notin Projects
    /\ None \notin Places

VARIABLES
    up,       \* the app runs
    dir,      \* ProjectDirState; App stands for None
    recent,   \* the first of the recent projects
    disk,     \* per place: the tree on disk
    nouto,    \* the projects with a .nouto directory
    handle,   \* the project whose watcher's stop sender is held
    thread,   \* per project: what its watcher thread does
    task,     \* per task: the command under way
    events,   \* emitted and not yet handled by the webview
    mem,      \* the tree the webview shows
    path,     \* projectPath
    pending,  \* _pendingSavePayload
    memOf,    \* history: the place mem was loaded from
    home,     \* history: per edit, the place that was shown when it was made
    crossed   \* history: actions overlapped that the code does not keep apart

rust == <<dir, recent, disk, nouto, handle, thread, task>>
webview == <<mem, path, pending, memOf>>
vars == <<up, rust, events, webview, home, crossed>>

Trees == SUBSET Edits
Ops == {"none", "save", "switch", "create", "load"}
Phases == {"idle", "invoked", "writing",              \* save
           "clear", "set", "watch", "announce",       \* switch and create
           "reopen", "dir", "content", "show"}        \* load, and the end of a switch
TaskState == [op: Ops, phase: Phases, at: Places, data: Trees]
Event == [kind: {"opened", "closed", "initial", "changed"}, place: Places, data: Trees]
Pending == [on: BOOLEAN, data: Trees]

Idle == [op |-> "none", phase |-> "idle", at |-> App, data |-> {}]
NotPending == [on |-> FALSE, data |-> {}]
Task(op, phase, at, data) == [op |-> op, phase |-> phase, at |-> at, data |-> data]
Emitted(kind, p, data) == Append(events, [kind |-> kind, place |-> p, data |-> data])

Init ==
    /\ up = FALSE
    /\ dir = App /\ recent = None
    /\ disk = [p \in Places |-> {}]
    /\ nouto = {}
    /\ handle = None /\ thread = [p \in Projects |-> "none"]
    /\ task = [k \in Tasks |-> Idle]
    /\ events = <<>>
    /\ mem = {} /\ path = App /\ pending = NotPending
    /\ memOf = App
    /\ home = [e \in Edits |-> None]
    /\ crossed = FALSE

Free(k) == task[k] = Idle
At(k, phase) == task[k].phase = phase
Goto(k, phase) == task' = [task EXCEPT ![k].phase = phase]

\* Nobody is on the way to show another tree.
Settled ==
    /\ \A k \in Tasks : task[k].op \in {"none", "save"}
    /\ \A i \in 1..Len(events) : events[i].kind = "changed"

\* A save that a change to p, or its reload, could meet.
SaveMeets(p) ==
    \E k \in Tasks : At(k, "invoked") \/ (At(k, "writing") /\ task[k].at = p)

----------------------------------------------------------------------------
(* The user *)

Edit(e) ==
    /\ up /\ home[e] = None
    /\ mem' = mem \cup {e}
    /\ pending' = [on |-> TRUE, data |-> mem']
    /\ home' = [home EXCEPT ![e] = memOf]
    /\ crossed' = (crossed \/ ~Settled)
    /\ UNCHANGED <<up, rust, events, path, memOf>>

KeepsPending == UNCHANGED pending
\* TauriMessageBus.send drops the debounced save of the project that is left.
DropsPending == pending' = NotPending

Clicked(k, op, phase, p) ==
    /\ up /\ Free(k)
    /\ task' = [task EXCEPT ![k] = Task(op, phase, p, {})]
    /\ UNCHANGED <<up, dir, recent, disk, nouto, handle, thread, events, mem, path, memOf, home>>

\* openProjectDir, openRecentProject and, for App, closeProject.
SwitchClicked(k, p) ==
    /\ Clicked(k, "switch", "set", p)
    /\ DropsPending
    /\ crossed' = (crossed \/ ~Settled \/ SaveMeets(p))

\* A project made where there is one already is emptied.
CreateClicked(k, p) ==
    /\ p # App
    /\ Clicked(k, "create", "clear", p)
    /\ DropsPending
    /\ crossed' = (crossed \/ ~Settled \/ SaveMeets(p) \/ disk[p] # {})

\* deleteWorkspaceMeta closes the project too, and leaves the pending save alone.
DeleteMetaClicked(k) ==
    /\ dir # App
    /\ Clicked(k, "switch", "set", App)
    /\ UNCHANGED pending
    /\ crossed' = (crossed \/ ~Settled \/ SaveMeets(App) \/ pending.on)

----------------------------------------------------------------------------
(* save_collections *)

TimerFires(k) ==
    /\ pending.on /\ Free(k)
    /\ task' = [task EXCEPT ![k] = Task("save", "invoked", App, pending.data)]
    /\ pending' = NotPending
    /\ crossed' = (crossed \/ SaveMeets(dir))
    /\ UNCHANGED <<up, dir, recent, disk, nouto, handle, thread, events, mem, path, memOf, home>>

SaveReadsDir(k) ==
    /\ At(k, "invoked")
    /\ task' = [task EXCEPT ![k].phase = "writing", ![k].at = dir]
    /\ UNCHANGED <<up, dir, recent, disk, nouto, handle, thread, events, webview, home, crossed>>

SaveWrites(k) ==
    /\ At(k, "writing")
    /\ disk' = [disk EXCEPT ![task[k].at] = task[k].data]
    /\ nouto' = nouto \cup ({task[k].at} \cap Projects)
    /\ task' = [task EXCEPT ![k] = Idle]
    /\ UNCHANGED <<up, dir, recent, handle, thread, events, webview, home, crossed>>

SaveFails(k) ==
    /\ At(k, "writing")
    /\ task' = [task EXCEPT ![k] = Idle]
    /\ UNCHANGED <<up, dir, recent, disk, nouto, handle, thread, events, webview, home, crossed>>

----------------------------------------------------------------------------
(* open_project_dir, open_recent_project, create_project, close_project *)

CreateClears(k) ==
    /\ At(k, "clear")
    /\ disk' = [disk EXCEPT ![task[k].at] = {}]
    /\ nouto' = nouto \cup {task[k].at}
    /\ Goto(k, "set")
    /\ UNCHANGED <<up, dir, recent, handle, thread, events, webview, home, crossed>>

SetDir(k) ==
    /\ At(k, "set")
    /\ dir' = task[k].at
    /\ Goto(k, "watch")
    /\ UNCHANGED <<up, recent, disk, nouto, handle, thread, events, webview, home, crossed>>

\* stop_watching drops the sender; start_watching goes on to spawn a thread.
Watch(k) ==
    /\ At(k, "watch")
    /\ IF task[k].at \in nouto
       THEN /\ handle' = task[k].at
            /\ thread' = [thread EXCEPT ![handle'] = IF @ = "none" THEN "checking" ELSE @]
       ELSE handle' = None /\ UNCHANGED thread
    /\ Goto(k, "announce")
    /\ UNCHANGED <<up, dir, recent, disk, nouto, events, webview, home, crossed>>

LoadSkipped(k) == task' = [task EXCEPT ![k] = Idle]
LoadFollows(k) == Goto(k, "dir")

RemembersAny(p) == p
Remembered(p) == IF p = App THEN recent ELSE p

Announce(k) ==
    LET p == task[k].at IN
    /\ At(k, "announce")
    /\ events' = Emitted(IF p = App THEN "closed" ELSE "opened", p, {})
    /\ recent' = Remembered(p)
    /\ LoadFollows(k)
    /\ UNCHANGED <<up, dir, disk, nouto, handle, thread, webview, home, crossed>>

\* The recent projects cannot be written: the command returns its error with the
\* directory switched and the webview not told.
AnnounceFails(k) ==
    /\ At(k, "announce")
    /\ task[k].op \in {"switch", "create"} /\ task[k].at # App
    /\ task' = [task EXCEPT ![k] = Idle]
    /\ crossed' = TRUE
    /\ UNCHANGED <<up, dir, recent, disk, nouto, handle, thread, events, webview, home>>

----------------------------------------------------------------------------
(* load_data *)

\* The first load of a run reopens the last project, if it is still there.
Reopen(k) ==
    /\ At(k, "reopen")
    /\ \/ /\ dir = App /\ recent # None
          /\ dir' = recent
          /\ task' = [task EXCEPT ![k].phase = "watch", ![k].at = recent]
       \/ Goto(k, "dir") /\ UNCHANGED dir
    /\ UNCHANGED <<up, recent, disk, nouto, handle, thread, events, webview, home, crossed>>

LoadReadsDir(k) ==
    /\ At(k, "dir")
    /\ task' = [task EXCEPT ![k].phase = "content", ![k].at = dir]
    /\ UNCHANGED <<up, dir, recent, disk, nouto, handle, thread, events, webview, home, crossed>>

LoadReads(k) ==
    /\ At(k, "content")
    /\ task' = [task EXCEPT ![k].phase = "show", ![k].data = disk[task[k].at]]
    /\ UNCHANGED <<up, dir, recent, disk, nouto, handle, thread, events, webview, home, crossed>>

LoadShows(k) ==
    /\ At(k, "show")
    /\ events' = Emitted("initial", task[k].at, task[k].data)
    /\ task' = [task EXCEPT ![k] = Idle]
    /\ UNCHANGED <<up, dir, recent, disk, nouto, handle, thread, webview, home, crossed>>

\* Environments or settings cannot be read: no initialData; collections that cannot
\* be read are taken for none.
LoadFails(k) ==
    /\ At(k, "content")
    /\ task' \in {[task EXCEPT ![k] = Idle], [task EXCEPT ![k].phase = "show"]}
    /\ crossed' = TRUE
    /\ UNCHANGED <<up, dir, recent, disk, nouto, handle, thread, events, webview, home>>

----------------------------------------------------------------------------
(* The watcher threads *)

EndsWhenClosed(p) == thread' = [thread EXCEPT ![p] = IF handle = p THEN "waiting" ELSE "none"]
\* Nothing is ever sent to a thread.  Dropping the sender makes try_recv return
\* Err(Disconnected), and is_ok() is not true of that either.
AsksForStop(p) == thread' = [thread EXCEPT ![p] = "waiting"]

WatcherChecks(p) ==
    /\ thread[p] = "checking"
    /\ AsksForStop(p)
    /\ UNCHANGED <<up, dir, recent, disk, nouto, handle, task, events, webview, home, crossed>>

\* Nothing happened, or it was within two seconds of a save of the app's own.
WatcherTimesOut(p) ==
    /\ thread[p] = "waiting"
    /\ thread' = [thread EXCEPT ![p] = "checking"]
    /\ UNCHANGED <<up, dir, recent, disk, nouto, handle, task, events, webview, home, crossed>>

WatcherReports(p) ==
    /\ thread[p] = "waiting"
    /\ Len(SelectSeq(events, LAMBDA ev : ev.kind = "changed")) < MaxChanged
    /\ events' = Emitted("changed", p, {})
    /\ thread' = [thread EXCEPT ![p] = "checking"]
    /\ UNCHANGED <<up, dir, recent, disk, nouto, handle, task, webview, home, crossed>>

----------------------------------------------------------------------------
(* The webview handles an event *)

Handles(kind) == up /\ events # <<>> /\ Head(events).kind = kind /\ events' = Tail(events)

OpenedHandled ==
    /\ Handles("opened")
    /\ path' = Head(events).place
    /\ UNCHANGED <<up, rust, mem, pending, memOf, home, crossed>>

ClosedSaves == pending' = [on |-> TRUE, data |-> {}]
ClosedSavesNothing == UNCHANGED pending

\* The tree is emptied until the load that follows.
ClosedHandled ==
    /\ Handles("closed")
    /\ path' = App
    /\ mem' = {} /\ memOf' = App
    /\ ClosedSavesNothing
    /\ UNCHANGED <<up, rust, home, crossed>>

InitialHandled ==
    /\ Handles("initial")
    /\ mem' = Head(events).data
    /\ memOf' = Head(events).place
    /\ path' = Head(events).place
    /\ UNCHANGED <<up, rust, pending, home, crossed>>

\* With a dirty tab only a banner appears.
ChangedHandled(k) ==
    /\ Handles("changed")
    /\ \/ UNCHANGED <<task, crossed>>
       \/ /\ Free(k)
          /\ task' = [task EXCEPT ![k] = Task("load", "dir", App, {})]
          /\ crossed' = (crossed \/ ~Settled \/ SaveMeets(dir) \/ pending.on)
    /\ UNCHANGED <<up, dir, recent, disk, nouto, handle, thread, webview, home>>

----------------------------------------------------------------------------

Launch(k) ==
    /\ ~up
    /\ up' = TRUE
    /\ task' = [task EXCEPT ![k] = Task("load", "reopen", App, {})]
    /\ UNCHANGED <<dir, recent, disk, nouto, handle, thread, events, webview, home, crossed>>

\* The process ends, at any step.
Crash ==
    /\ up
    /\ up' = FALSE
    /\ dir' = App
    /\ handle' = None /\ thread' = [p \in Projects |-> "none"]
    /\ task' = [k \in Tasks |-> Idle]
    /\ events' = <<>>
    /\ mem' = {} /\ path' = App /\ pending' = NotPending /\ memOf' = App
    /\ UNCHANGED <<recent, disk, nouto, home, crossed>>

SaveStep(k) == SaveReadsDir(k) \/ SaveWrites(k) \/ SaveFails(k)
SwitchStep(k) ==
    CreateClears(k) \/ SetDir(k) \/ Watch(k) \/ Announce(k) \/ AnnounceFails(k)
LoadStep(k) ==
    Reopen(k) \/ LoadReadsDir(k) \/ LoadReads(k) \/ LoadShows(k) \/ LoadFails(k)
Handled ==
    OpenedHandled \/ ClosedHandled \/ InitialHandled \/ \E k \in Tasks : ChangedHandled(k)
Watcher(p) == WatcherChecks(p) \/ WatcherTimesOut(p) \/ WatcherReports(p)

Next ==
    \/ \E e \in Edits : Edit(e)
    \/ \E k \in Tasks :
          \/ \E p \in Places : SwitchClicked(k, p) \/ CreateClicked(k, p)
          \/ DeleteMetaClicked(k)
          \/ TimerFires(k)
          \/ SaveStep(k) \/ SwitchStep(k) \/ LoadStep(k)
          \/ Launch(k)
    \/ Handled
    \/ \E p \in Projects : Watcher(p)
    \/ Crash

\* Commands run to their end, the threads loop, and the webview handles events.
Fairness ==
    /\ \A k \in Tasks : WF_vars(SaveStep(k) \/ SwitchStep(k) \/ LoadStep(k))
    /\ \A p \in Projects : WF_vars(Watcher(p))
    /\ WF_vars(Handled)

Spec == Init /\ [][Next]_vars /\ Fairness

----------------------------------------------------------------------------
(* Properties *)

TypeOK ==
    /\ up \in BOOLEAN /\ crossed \in BOOLEAN
    /\ dir \in Places /\ path \in Places /\ memOf \in Places
    /\ recent \in Projects \cup {None} /\ handle \in Projects \cup {None}
    /\ disk \in [Places -> Trees]
    /\ nouto \in SUBSET Projects
    /\ thread \in [Projects -> {"none", "checking", "waiting"}]
    /\ task \in [Tasks -> TaskState]
    /\ events \in Seq(Event)
    /\ mem \in Trees /\ pending \in Pending
    /\ home \in [Edits -> Places \cup {None}]

\* No switch carries an edit of one project into the files of another, unless the
\* user acts before a switch is shown, or a save or a failure crosses it.
TreesStayHome ==
    ~crossed => \A p \in Places : \A e \in disk[p] : home[e] = p

\* Nor does a save remove from a project what it held: what the webview shows has
\* all that is on disk, however often projects were switched and reloaded.
DiskNeverShrinks ==
    [][~crossed' => \A p \in Places : disk[p] \subseteq disk'[p]]_vars

\* Once a switch has settled, the webview shows the place that saves will go to.
ShownIsOpen ==
    up /\ ~crossed /\ Settled =>
        path = dir /\ memOf = dir /\ disk[dir] \subseteq mem

\* file_watcher.rs:140, "Dropping the handle will send the stop signal": the thread
\* of a project whose handle was dropped comes to its end.
WatcherStops ==
    \A p \in Projects :
        (thread[p] # "none" /\ handle # p) ~> (thread[p] = "none" \/ handle = p)
=============================================================================
