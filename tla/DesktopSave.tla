----------------------------- MODULE DesktopSave -----------------------------
(***************************************************************************)
(* How the desktop app keeps collections.json, with no project open: the   *)
(* debounced save of the message bus (tauri.ts), the save_collections      *)
(* command and its temp-file-then-rename write (commands/mod.rs,           *)
(* storage.rs), loading and corrupt-file recovery, the late answer of the  *)
(* secret resolver, and the two ways out of the program (App.svelte,       *)
(* lifecycle.ts, lib.rs).  A collection tree is abstracted to the set of   *)
(* edits it contains; a file is a name for an inode, as the writers of a   *)
(* shared temp file see it.                                                *)
(*                                                                         *)
(* A definition that no action uses (KeepTimer, WakeNobody, ...) is the    *)
(* form a plausible mistake would give the definition after it; PROJECT    *)
(* .json pairs them, and the property each must break.                     *)
(***************************************************************************)
EXTENDS Naturals

CONSTANTS Edits,      \* what the user can add to the collections
          Sample,     \* the sample collection of the first run
          Slots,      \* save_collections commands that can run at one time
          Inodes,     \* the files the file system can hold
          Torn,       \* content of a file that is not a whole payload
          None,       \* null
          SavesFail,  \* BOOLEAN: a step of a save may return an error
          ReadsFail,  \* BOOLEAN: reading collections.json may return an error
          Secrets     \* BOOLEAN: the saved collections refer to secrets

Items == Edits \cup {Sample}
Flows == {"close", "tray"}      \* the window's close handshake, the tray's Quit

ASSUME ConstantsAssumption ==
    /\ \A c \in SUBSET Items : c # None /\ c # Torn
    /\ None \notin Inodes
    /\ None \notin Slots
    /\ SavesFail \in BOOLEAN
    /\ ReadsFail \in BOOLEAN
    /\ Secrets \in BOOLEAN

VARIABLES
    app,           \* "down", "loading" (loadData sent) or "running"
    mem,           \* the collections store of the webview
    pending,       \* _pendingSavePayload
    timer,         \* _saveTimer is armed
    saves,         \* per slot: a running save_collections command
    tmp,           \* the inode that collections.tmp names
    target,        \* the inode that collections.json names
    data,          \* content of every inode
    flow,          \* per way out: how far it is, what it awaits and owes
    closing,       \* App.svelte's re-entry flag of the close handshake
    sampleLoaded,  \* the onboarding flag in localStorage
    resolving,     \* the snapshot the secret resolver of this load works on
    saveFailed,    \* the last save that ended, failed, and the user was told
    damaged        \* collections.json was corrupted from outside

webview == <<mem, pending, timer, sampleLoaded>>
files   == <<tmp, target, data, damaged>>
vars == <<app, webview, saves, files, flow, closing, resolving, saveFailed>>

SaveStages == {"free", "invoked", "opened", "written"}
FlowStages == {"idle", "asking", "awaiting", "leaving"}
SaveCommand == [stage: SaveStages, payload: SUBSET Items, fd: Inodes \cup {None}]
LeavingFlow == [stage: FlowStages, slot: Slots \cup {None},
                owed: SUBSET Items, flushed: SUBSET Items]
FreeSlot == [stage |-> "free", payload |-> {}, fd |-> None]
IdleFlow == [stage |-> "idle", slot |-> None, owed |-> {}, flushed |-> {}]

TypeOK ==
    /\ app \in {"down", "loading", "running"}
    /\ mem \in SUBSET Items
    /\ pending \in {None} \cup SUBSET Items
    /\ timer \in BOOLEAN
    /\ saves \in [Slots -> SaveCommand]
    /\ tmp \in Inodes \cup {None}
    /\ target \in Inodes \cup {None}
    /\ data \in [Inodes -> {Torn} \cup SUBSET Items]
    /\ flow \in [Flows -> LeavingFlow]
    /\ closing \in BOOLEAN
    /\ sampleLoaded \in BOOLEAN
    /\ resolving \in {None} \cup SUBSET Items
    /\ saveFailed \in BOOLEAN
    /\ damaged \in BOOLEAN

Init ==
    /\ app = "down"
    /\ mem = {}
    /\ pending = None
    /\ timer = FALSE
    /\ saves = [s \in Slots |-> FreeSlot]
    /\ tmp = None
    /\ target = None
    /\ data = [i \in Inodes |-> {}]
    /\ flow = [f \in Flows |-> IdleFlow]
    /\ closing = FALSE
    /\ sampleLoaded = FALSE
    /\ resolving = None
    /\ saveFailed = FALSE
    /\ damaged = FALSE

-----------------------------------------------------------------------------
(* The message bus: a saveCollections message replaces the pending payload *)
(* and restarts the 300 ms timer; the timer hands the payload to Rust.     *)

DebounceMessage(payload) == pending' = {payload} /\ timer' = TRUE
DebounceKeepsFirst(payload) ==
    pending' = (IF timer THEN pending ELSE payload) /\ timer' = TRUE

\* saveCollections: the payload replaces the pending one, the timer restarts.
Debounce(payload) == pending' = payload /\ timer' = TRUE

KeepTimer == UNCHANGED timer
ClearTimer == timer' = FALSE

Edit(e) ==
    /\ app = "running"
    /\ e \notin mem
    /\ mem' = mem \cup {e}
    /\ Debounce(mem')
    /\ UNCHANGED <<app, sampleLoaded, saves, files, flow, closing, resolving,
                   saveFailed>>

HasPayload == pending # None

\* invoke('save_collections', { data }) with the payload taken from the bus.
Invoke(s) ==
    /\ HasPayload
    /\ saves[s].stage = "free"
    /\ saves' = [saves EXCEPT ![s] =
                     [stage |-> "invoked", payload |-> pending, fd |-> None]]
    /\ pending' = None

TimerFires(s) ==
    /\ app = "running"
    /\ timer
    /\ ClearTimer
    /\ Invoke(s)
    /\ UNCHANGED <<app, mem, sampleLoaded, files, flow, closing, resolving,
                   saveFailed>>

-----------------------------------------------------------------------------
(* save_collections and atomic_write.  fs::write opens (and so truncates)  *)
(* the temp file, then writes it; fs::rename moves the name over.  Every   *)
(* save of the same file uses the same temp name.                          *)

FreeInode(i) == /\ i # tmp
                /\ i # target
                /\ \A s \in Slots : saves[s].fd # i

\* What is on disk as a load would see it.
DiskItems == IF target = None \/ data[target] = Torn THEN {} ELSE data[target]

TempFile(i) == IF tmp = None THEN FreeInode(i) ELSE i = tmp

SaveOpens(s) ==
    /\ saves[s].stage = "invoked"
    /\ \E i \in Inodes :
          /\ TempFile(i)
          /\ tmp' = i
          /\ data' = [data EXCEPT ![i] = Torn]
          /\ saves' = [saves EXCEPT ![s].stage = "opened", ![s].fd = i]
    /\ UNCHANGED <<app, webview, target, damaged, flow, closing, resolving,
                   saveFailed>>

\* Another writer of the same inode may leave a mixture of both payloads.
Shared(s) == \/ saves[s].fd = target
             \/ \E t \in Slots \ {s} : saves[t].fd = saves[s].fd

SaveWrites(s) ==
    /\ saves[s].stage = "opened"
    /\ saves' = [saves EXCEPT ![s].stage = "written"]
    /\ \E content \in {saves[s].payload} \cup (IF Shared(s) THEN {Torn} ELSE {}) :
          data' = [data EXCEPT ![saves[s].fd] = content]
    /\ UNCHANGED <<app, webview, tmp, target, damaged, flow, closing, resolving,
                   saveFailed>>

\* The command answers: the slot is free, and whoever awaited it goes on.
WakeNobody(s) == UNCHANGED flow
WakeWaiter(s) == flow' = [f \in Flows |->
                            IF flow[f].slot = s
                            THEN [flow[f] EXCEPT !.stage = "leaving", !.slot = None]
                            ELSE flow[f]]

SaveEnds(s) ==
    /\ saves' = [saves EXCEPT ![s] = FreeSlot]
    /\ WakeWaiter(s)

AnyOpened(s) == saves[s].stage \in {"opened", "written"}
WriteDone(s) == saves[s].stage = "written"

SaveRenames(s) ==
    /\ WriteDone(s)
    /\ tmp # None
    /\ target' = tmp
    /\ tmp' = None
    /\ SaveEnds(s)
    /\ saveFailed' = FALSE
    /\ UNCHANGED <<app, webview, data, damaged, closing, resolving>>

Swallow == UNCHANGED saveFailed
ShowError == saveFailed' = TRUE

\* Any step may return an error; the rename must when the temp name is gone.
SaveFails(s) ==
    /\ saves[s].stage # "free"
    /\ SavesFail \/ (saves[s].stage = "written" /\ tmp = None)
    /\ SaveEnds(s)
    /\ ShowError
    /\ UNCHANGED <<app, webview, files, closing, resolving>>

-----------------------------------------------------------------------------
(* The ways out: prompt, flush, then hide the window or end the process.   *)

\* Rust prevents the close and emits app:close-requested; a second one while
\* a handshake runs returns at once.
CloseRequested ==
    /\ app = "running"
    /\ ~closing
    /\ closing' = TRUE
    /\ flow' = [flow EXCEPT !["close"].stage = "asking"]
    /\ UNCHANGED <<app, webview, saves, files, resolving, saveFailed>>

\* tray:quit-requested runs requestQuit, which the closing flag does not stop.
TrayQuitRequested ==
    /\ app = "running"
    /\ flow["tray"].stage = "idle"
    /\ flow' = [flow EXCEPT !["tray"].stage = "asking"]
    /\ UNCHANGED <<app, webview, saves, files, closing, resolving, saveFailed>>

KeepClosing(f) == UNCHANGED closing
FreeClosing(f) == closing' = (closing /\ f # "close")

\* The handshake is over and the program stays: the finally block.
FlowEnds(f) ==
    /\ flow' = [flow EXCEPT ![f] = IdleFlow]
    /\ FreeClosing(f)

\* The user answers No to the unsaved-changes prompt.
StayOpen(f) ==
    /\ flow[f].stage = "asking"
    /\ FlowEnds(f)
    /\ UNCHANGED <<app, webview, saves, files, resolving, saveFailed>>

Flushed(payload) == [stage |-> "leaving", slot |-> None, owed |-> mem,
                     flushed |-> payload]
AwaitNothing(s, payload) == Flushed(payload)
Await(s, payload) == [Flushed(payload) EXCEPT !.stage = "awaiting", !.slot = s]

\* Nothing is dirty, or the user agreed: flushPendingSaves clears the timer
\* and awaits the save of the pending payload, when there is one.
Flush(f) ==
    /\ flow[f].stage = "asking"
    /\ ClearTimer
    /\ \/ /\ pending = None
          /\ flow' = [flow EXCEPT ![f] = Flushed({})]
          /\ UNCHANGED <<pending, saves>>
       \/ \E s \in Slots : /\ Invoke(s)
                           /\ flow' = [flow EXCEPT ![f] = Await(s, pending)]
    /\ UNCHANGED <<app, mem, sampleLoaded, files, closing, resolving, saveFailed>>

\* macOS, or the close-to-tray setting: the window hides, the program lives on.
Hide ==
    /\ flow["close"].stage = "leaving"
    /\ FlowEnds("close")
    /\ UNCHANGED <<app, webview, saves, files, resolving, saveFailed>>

\* The process ends with everything it had in memory; running commands die
\* where they are.
ProcessEnds ==
    /\ app' = "down"
    /\ mem' = {}
    /\ pending' = None
    /\ timer' = FALSE
    /\ saves' = [s \in Slots |-> FreeSlot]
    /\ flow' = [f \in Flows |-> IdleFlow]
    /\ closing' = FALSE
    /\ resolving' = None
    /\ UNCHANGED <<sampleLoaded, files, saveFailed>>

\* quit_app sets force_close, so the handshake does not run again, and exits.
QuitApp(f) ==
    /\ flow[f].stage = "leaving"
    /\ ProcessEnds

Crash ==
    /\ app # "down"
    /\ ProcessEnds

-----------------------------------------------------------------------------
(* Start, load and recovery.                                               *)

Launch ==
    /\ app = "down"
    /\ app' = "loading"
    /\ saveFailed' = FALSE
    /\ UNCHANGED <<webview, saves, files, flow, closing, resolving>>

\* load_data, then the initialData handler, on what load_collections read.  The
\* first run without any collection adds the sample and saves it.
ShowLoaded(read) ==
    /\ app' = "running"
    /\ IF read = {} /\ ~sampleLoaded
       THEN /\ mem' = {Sample}
            /\ Debounce(mem')
            /\ sampleLoaded' = TRUE
       ELSE /\ mem' = read
            /\ UNCHANGED <<pending, timer, sampleLoaded>>
    /\ resolving' = IF Secrets /\ read # {} THEN read ELSE None
    /\ UNCHANGED <<saves, tmp, data, flow, closing, saveFailed>>

LoadDataFresh ==
    /\ app = "loading"
    /\ ShowLoaded({})
    /\ UNCHANGED <<target, damaged>>

LoadData ==
    /\ app = "loading"
    /\ target # None => data[target] # Torn
    /\ ShowLoaded(DiskItems)
    /\ UNCHANGED <<target, damaged>>

\* A file that does not parse is renamed to a backup and counts as empty.
LoadRecovers ==
    /\ app = "loading"
    /\ target # None
    /\ data[target] = Torn
    /\ target' = None
    /\ damaged' = FALSE
    /\ ShowLoaded({})

\* Any other read error is logged, and the collections start empty too.
LoadFails ==
    /\ app = "loading"
    /\ ReadsFail
    /\ target # None
    /\ ShowLoaded({})
    /\ UNCHANGED <<target, damaged>>

\* secretsResolved of this load: the snapshot it was loaded with, secrets
\* filled in, replaces the store.
SecretsResolved ==
    /\ app = "running"
    /\ resolving # None
    /\ mem' = resolving
    /\ resolving' = None
    /\ UNCHANGED <<app, pending, timer, sampleLoaded, saves, files, flow, closing,
                   saveFailed>>

\* Another program, or the disk, destroys the file between two sessions.
FileDamaged ==
    /\ app = "down"
    /\ target # None
    /\ data' = [data EXCEPT ![target] = Torn]
    /\ damaged' = TRUE
    /\ UNCHANGED <<app, webview, saves, tmp, target, flow, closing, resolving,
                   saveFailed>>

-----------------------------------------------------------------------------
SaveStep(s) == SaveOpens(s) \/ SaveWrites(s) \/ SaveRenames(s) \/ SaveFails(s)

Next ==
    \/ \E e \in Edits : Edit(e)
    \/ \E s \in Slots : TimerFires(s)
    \/ \E s \in Slots : SaveStep(s)
    \/ CloseRequested
    \/ TrayQuitRequested
    \/ \E f \in Flows : StayOpen(f)
    \/ \E f \in Flows : Flush(f)
    \/ Hide
    \/ \E f \in Flows : QuitApp(f)
    \/ Crash
    \/ Launch
    \/ LoadData
    \/ LoadRecovers
    \/ LoadFails
    \/ SecretsResolved
    \/ FileDamaged

Spec == Init /\ [][Next]_vars

\* A timer that is armed fires, and a command that runs gets on; the user, the
\* crash and the keychain owe nothing.
Fairness ==
    /\ WF_vars(\E s \in Slots : TimerFires(s))
    /\ \A s \in Slots : WF_vars(SaveStep(s))
    /\ \A f \in Flows : WF_vars(QuitApp(f) \/ (f = "close" /\ Hide))

FairSpec == Spec /\ Fairness

-----------------------------------------------------------------------------
(* Properties.                                                             *)

Running == app = "running"
NoSaveRuns == \A s \in Slots : saves[s].stage = "free"

\* collections.json is whole in every state, the ones a crash leaves behind
\* included, unless somebody else damaged it: atomic_write's rename is the only
\* step that touches it.
DiskComplete == target # None /\ data[target] = Torn => damaged

\* When nothing is pending and no save runs, either the file holds exactly what
\* the webview shows, or the last save failed and the user was told so.
QuiescentMeansSaved ==
    Running /\ pending = None /\ NoSaveRuns /\ ~saveFailed => DiskItems = mem

\* The debounce never forgets a payload and never fires without one.
TimerIffPending == timer <=> pending # None

\* The program does not leave before the save its own flush started has ended,
\* and a flush whose save did not fail is on disk when it leaves.
FlushedBeforeLeaving ==
    \A f \in Flows :
        flow[f].stage = "leaving" => flow[f].flushed \subseteq DiskItems \/ saveFailed

\* The re-entry flag is set exactly while a handshake runs, so the window can
\* always be closed again after a No or a hide.
ClosingMatchesHandshake == closing <=> flow["close"].stage # "idle"

\* Whole-system promise: see DurableStore.
Store == INSTANCE DurableStore WITH up <- Running, disk <- DiskItems
ImplementsDurableStore == Store!StoreSpec

\* An edit reaches the disk unless a save fails or the session ends.
EditsReachDisk ==
    \A e \in Items :
        (Running /\ e \in mem) ~> (e \in DiskItems \/ saveFailed \/ ~Running)

\* A close or Quit the user agreed to comes to an end, failing saves or not.
LeavingEnds ==
    \A f \in Flows : (flow[f].stage \in {"awaiting", "leaving"}) ~> (flow[f] = IdleFlow)

\* lifecycle.ts:11 and tauri.ts:600-603: what was in memory when the close
\* handshake or Quit flushed the stores is on disk when the process ends.
QuitLosesNothing ==
    [][\A f \in Flows :
          QuitApp(f) => flow[f].owed \subseteq DiskItems \/ saveFailed]_vars

\* commands/mod.rs, load_data: a late answer of the secret resolver does not
\* overwrite newer state.
MemoryNeverGoesBack == [][Running /\ app' = "running" => mem \subseteq mem']_vars
=============================================================================
