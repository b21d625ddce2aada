# Nouto: TLA+ models of its storage, sessions, runners and connections

Nouto is an API client with three front ends over shared code: a VS Code
extension, a desktop app (Svelte webview, Rust backend through Tauri) and a
command line. This directory holds TLA+ specifications of the parts where
asynchronous steps, failures and restarts decide whether the user's work
survives and whether a run or a connection does what was asked; TLC
configurations that check them on small instances; and TLAPS proofs for every
instance.

`PROJECT.json` is the machine-readable side: components, runs, the source lines
each definition stands for, hazards, findings, theorems, and for every checked
property a mutant, that is, a plausible mistake in the code (`Loops` as
`ForgivingLoops`, ...) that must make the property fail. The mutants stand in
the modules directly before or near the definition they damage.

## The system

| Part | State | Operations | Hard behaviour | Module |
|---|---|---|---|---|
| Message bus (`desktop/src/lib/tauri.ts`) | pending payload, debounce timer | `saveCollections`, timer, flush | a flush while a save is out, failing saves | `DesktopSave` |
| Save command (`commands/mod.rs`, `services/storage.rs`) | temp file and target | atomic write, load, recovery | overlapping commands, crash at any step | `DesktopSave` |
| Exit paths (`App.svelte`, `lifecycle.ts`, `lib.rs`) | re-entry flag, what is awaited | close handshake, tray quit, hide, quit | two exits at once, an exit that never ends | `DesktopSave` |
| Project storage (`services/storage.rs`) | `.nouto` tree, backups | save in place, cleanup, load, recovery | crash in a save, load during a save | `ProjectStorage` |
| Project session (`commands/project.rs`, `file_watcher.rs`, `App.svelte`) | open directory, watcher threads, shown tree | open, create, close, delete metadata, reopen, reload | a switch during a pending or running save | `ProjectSession` |
| Runner of the extension (`CollectionRunnerService.ts`) | abort controller, collection variables, environments | run, cancel, jumps, data rows, parallel | runs of several panels interleave at every await | `CollectionRunner` |
| Runner of the desktop (`commands/runner.rs`, `collectionRunner.svelte.ts`) | shared cancel flag, events, runner panel | start, cancel, run again, switch view | a run takes the flag back; events name no run | `DesktopRunner` |
| Connections (`WebSocketService.ts`, `SSEService.ts`, `GraphQLSubscriptionService.ts`, `ProtocolHandlers.ts`) | socket, reconnect and acknowledgement timers | connect, disconnect, callbacks | late callbacks of a service that was replaced, an end that nobody reports | `StreamConnections` |
| History of the extension (`HistoryStorageService.ts`) | JSONL file, index in memory and on disk, append queue | append, delete, file in a collection, clear, load | calls beside the queue, crash between two files or in the middle of a line | `HistoryStorage` |
| Drafts, benchmark, everything else | | | | see *Not modelled* |

The webview talks to Rust by messages (`invoke` one way, events the other);
panels of the extension talk to services that are created once and shared, or,
for connections, created by each Connect and left to themselves. What makes each
part correct: an edit reaches the disk of its own project or the user is told;
what is on disk never tears or loses what it was to keep; what history has
acknowledged is found again and what was deleted is not; a run visits, stops,
isolates and ends as its documentation says; a connection the user has left does
not come back.

## Modules

**DurableStore** is what saving promises with no timers or files: memory grows
while the program is up, the disk follows to a later state of memory, a stop
forgets memory, a start keeps all of the disk.

**DesktopSave** is `collections.json` with no project open. `pending` and `timer`
are the fields of the bus; `saves` holds the running `save_collections`
commands, each going through *invoked*, *opened* (the temp file exists and is
truncated), *written*, and the rename. Files are modelled as the file system has
them: `tmp` and `target` are names, `data` the content per inode, so two writers
of one temp name really share a file. `flow` is each way out (asking, awaiting a
save, leaving), `closing` the flag of the handshake. `FlowEnds` is the `finally`
block. A tray quit waits for an earlier one (`App.svelte` has no such guard; a second
one would await the same save). `LoadData`, `LoadRecovers` and `LoadFails` are the outcomes of `load_data`
together with the `initialData` handler, first-run sample included; a load
that ends without `initialData`, because environments or settings cannot be read, is
left out. The collections are the set of edits they contain. The user only adds edits: removals
would give no new interleaving of the save path, and with sets that grow the
order of two payloads can be read off them. `owed` and `flushed` of a flow are
history, what was in memory and what was handed over at its flush.

**ProjectStorage** is the `.nouto` directory. An item is a collection or folder
(its file is the metadata) or a request; `file` is absent, torn or whole. A save
enters a directory, writes its contents and then its metadata, cleans up what is
not in the payload, and goes back up, as the code recurses. A load is read by
read, so it sees a save at any point, and `ReadTorn` renames a file that the save
has only just truncated. `aside` are the `.corrupt-` backups. `save.base` and
`trusted` are history. The debounce timer is not separate here (`pending` implies
it, see `TimerIffPending`), nor are the order files, name collisions and the
watcher's own-write filter (`Reload` may come any time). Setting a torn file aside is
one step with its read and does not fail; drafts and the first-run sample are not part
of what is shown. There is one save and one
load at a time, and a removed directory goes in one step. `Crash` stands for every
end of the process; the ways out are `DesktopSave`'s subject.

**ProjectSession** is what lies between those two: which directory is open, and
whose collections the webview shows and the save command writes. `dir` is
`ProjectDirState`, `App` standing for no project; `mem`, `path` and `pending` are
the webview's. A command in `task` goes through the phases at which it touches
shared state: a save reads the directory when it runs, not when it is invoked;
opening and creating set the directory, replace the watcher, announce it; a load
reads directory and content in two steps and shows them by an event. `events`
are in order. A watcher thread looks at its channel and then waits for a change,
in two steps, and the project whose stop sender is held is `handle`. A tree is
the set of edits that made it, and a save writes it in one step. `memOf` and
`home` are history (where the shown tree was loaded from, where an edit was made).
`crossed` is history too: it becomes true, and stays so, when the user acts before
a switch is shown, when a save meets a switch, a reload or another save of the same
place, when a load or the announcement of a switch fails, or when a project is
created over one. The code has no protection there, and what goes wrong is written
down under the hazards; the properties say that nothing goes wrong otherwise. Left out
are a picker the user cancels, a recent project that has vanished and a new project that
cannot be saved (the pending payload has been dropped by then), a watcher that cannot be
started, and an external program that changes a project while the app runs: reports come
without a change.

**CollectionRunner** is the one service that all panels of the extension share.
`run[r]` holds the local variables of a `runCollection` call, with the `phase`
naming the await it is at; `controller` and `scoped` are the fields the calls
share. A response is one of *passed*, *failed*, *error*; a script is the jump it
asks for and whether it sets a variable, and a variable is identified by who set
it. A run gives way to other callbacks only where the code awaits: the scripts and the
response of a request, the delay after it, the requests of a parallel iteration.
Between those it is in phase *next*, and `AtAwait` keeps starts, cancels and the other
runs out until it has got to its next await: from the start of a run or an iteration to
the scripts of its first request there is none. Post-response scripts are part of
`Respond`. Iterations from `config.iterations` and from
data rows differ in `rows`: only the latter clone the environments.

**DesktopRunner** is `start_collection_run` and `cancel_collection_run` in Rust,
which share the one `flag` of the registry, and the runner panel. `run[r]` has
cursor and steps of the loop and the number of results; `events` is what is
emitted and not yet handled. The panel handles an event only while `mounted`,
though `status` and `rows` live on in its store. `RunClicked` is the panel's
request to start, `Begin` the command's first step, which clears the flag.
`told`, `mixed` and `lost` are history: the runs for which the flag is up, a run
started beside another, an end the panel will not hear of. The webview never
sends data rows, so a run has one iteration.

**StreamConnections** is a request panel with one of the three connection modes.
Every Connect makes a new service; `svc` has all of them, because the earlier ones
keep sockets, callbacks and timers and report to the same webview. `Disconnect`
and `Connect` are the methods of the three classes, which differ by `kind`: a
WebSocket takes off its listeners before it is ended, the others do not; an open
subscription goes through the closing handshake. A connect that is broken off is
reported as an error in the same turn of the event loop (`echo`); `AtRest` keeps
everything else out of that turn. `CookiesCome` is the continuation of a Connect,
which looks neither at the panel nor at a later click; `raced` (history) says that
something came between. Messages are left out, except the two that change the
status of a subscription. The libraries `ws` and Node's `http` are modelled by the
callbacks they make. A server can end an event stream in two ways: with its last chunk,
which the response reports as its end (`Ended`), or by breaking it off (`CutOff`), which
only events of the response tell that the service does not listen to. The socket is then
*cut* while the status stays connected, until the user disconnects. A headers list with a
cookie of its own does not wait for the jar, which is a `CookiesCome` right after
`ConnectClicked`. The error that `ws` throws when a socket that still connects is
terminated has no listener and changes no state of the service.

**HistoryStorage** is the JSONL file, the index in memory and the index file. A
call is a job with the step it is at; `Appender` is the one append the promise
queue lets run, `Slots` are the calls that do not queue. `writeFile` empties the
file when it opens it and writes in a second step; the index is turned into text
when `_saveIndex` is called and written later; two writers of one file leave
`Mixed`. `clear` unlinks, so a writer that has the file open writes to no name
(`linked`); it drops the error of an unlink that is refused and goes on. `appendFile`
may break off in the middle of its line, with the host or without it: `tail` is the
entry whose torn line then ends the file, and what is appended next runs on in that
line (`RunsOn`), so that neither parses (`glued`, history) and the next rewrite drops
both. `fate` is history, from *queued* to *kept* (acknowledged), *gone* (a removal
that has returned) or *dropped* (the host ended before its append was tried).
`refused` is history, that a clear was refused an unlink. `disturbed` is history: it becomes true when a call
other than an append has company or fails, or a crash cuts off a removal, a filing
or a clear. The code serialises appends only, and with company an acknowledged
entry is lost (see the findings). `AckedSurvives`, `ListedCanBeOpened` and
`DeletedStaysGone` hold until `disturbed` or `refused`, with failing appends and with
crashes at every step of an append or a load; the first two except the entries in
`glued`, which the code does lose.

**MC** modules give TLC the constants that a `.cfg` cannot. The theorems are in the seven
modules ending in **_proofs** and in **CollectionRunner_bounds**, which builds on the
invariants of `CollectionRunner_proofs`.

## What the runs check

| Run | Question | Bounds |
|---|---|---|
| `save_serial` | Is the file always whole, does it follow memory, does a quiet app have it saved, does an edit get there, does all this refine `DurableStore`? | 2 edits and the sample, 1 command slot, failing saves, crashes, damage |
| `save_overlap` | Is the window always closable again, does every agreed exit end? | 1 edit, 2 slots, read errors and late secrets too |
| `project_files` | What does a project save lose, show half done, or leave behind? | collection, folder, request, nested |
| `session` | Does a tree get into another project, does a save take away what was there, is what is shown what is open? | 2 projects and the app storage, 2 commands, 2 edits, 1 report waiting |
| `runner_jumps` | With any jumps: visits bounded, stop on failure final, every run ends? | 1 run, 3 requests (one unsupported), 2 iterations, all configurations |
| `runner_two` | Do runs sharing the service stay isolated, does a parallel run that is not cancelled send all, does Cancel reach the request? | 2 runs, 1 request, 2 iterations |
| `desktop_runner` | Does every run end, does a cancel stop what it was meant for, does the panel show one run and leave *running*? | 2 runs, 2 requests (one unsupported), `StepsPerRequest` 1, 2 events on their way |
| `streams` | Does a service that was left come back, does the panel show a connection whose end was reported, does a reported close by the server lead to a reconnect? | all three modes, 2 services |
| `history` | Is what was acknowledged kept, what is listed there, what was deleted gone, and is every append tried? | 2 entries, the append queue and 1 other call |

Two edits are enough to tell an older payload from a newer one, and a third item
comes with the sample. Two slots give the first overlap of two commands. An inode
per open file and one more lets the shared temp name matter. Three requests allow
a jump back, forward, and past a skipped one, and reach the third visit and the
visit limit; two iterations make a leak from one row to the next visible. The
counters `visits` and `count` are bounded by the code's own limits, not by the
model. Three nested items have every kind of file and directory, and cleanup at two
depths. Two projects and two commands give a save on its way while a switch is, and
a second switch after the first; `MaxChanged` bounds the reports of the watchers.
With `StepsPerRequest` 1 (10 in the code) two requests still reach the step limit
by a jump; a result counter stops at `N`, since only "fewer than all" is looked at;
`MaxEvents` bounds the events on their way by making the run wait. Two services are
the one that was left and the one that took its place. Two entries are one in the
queue behind another, or one removed beside one kept; one call beside the queue is
all the history properties allow, and a second makes `disturbed` true.

`session` has the constraint `Uncrossed`: states after `crossed` are not explored.
`crossed` is never reset, and every property but `TypeOK` is claimed only without
it, so nothing is hidden; `TypeCorrect` is proved without the constraint.

Deadlock is checked except where the system may stop: runs of the extension end,
and a closed panel has nothing left to do, so those configurations switch it off.

### Violations

Three runs expect TLC to refute one sentence of the documentation or of a comment:

* `save_quit`: the flush at exit does not wait for a save that has already left
  the debounce; the process ends under it. `QuitLosesOnlyRunningSaves` says that
  this is the only way an exit loses anything: once no save runs, what a way out
  owed is on disk, or a save has failed.
* `runner_cancel`: Cancel does not stop a run of the extension. It aborts the request
  in flight, whose failure is recorded, and the next request is sent. The theorem
  `AbortNeverSeen` says why: no abort check of the loop can ever be true;
  `OnlyLoopsEverBreakOff` says what follows for the loop.
* `session_watchers`: the thread of a watcher that was stopped never ends. It polls
  its channel for a message, and stopping sends none. One project, no edits and no
  reports are enough; `WatchersNeverStop` proves it of any number of projects, so
  threads pile up with every project opened until the app ends.

Further findings met while modelling are listed in `PROJECT.json` without a run.
Seven of them can be seen in a model as it stands, by checking a property that the
module states although it does not hold: `MemoryNeverGoesBack` (late secrets replace
newer edits, `Secrets = TRUE`), `LiveStateUntouched` (a run without rows writes into
the live environments), `OwnCollectionVariables` (a second panel's run replaces the
first one's variables), `BackupsSurvive` (a collection with damaged metadata is
deleted by the next save, backups included), `EveryEntryKept` (an append that breaks
off in the middle of its line takes the next entry with it, which is acknowledged and
listed and cannot be read; `AckedSurvives` holds of every entry but these two),
`ClearedIsGone` (Clear answers though an unlink was refused, and the next start lists the
cleared entries) and `StreamEndReconnects` (an event stream that the server breaks off is
never connected again, and the panel goes on showing it as connected). The last three
fail with the constants of `History.cfg` and `Streams.cfg`. `DiskComplete` fails with
two slots (two saves share one temp file). For two of these the cause is proved to be
the only one: `MemoryOnlyGrows` (without secrets memory never goes back, with any number of
saves) and `RowsLeaveLiveStateUntouched` (data-driven runs alone never write there).
Others are the exceptions that a property makes:
history calls beside the queue (`disturbed`), a Connect that awaits its cookies
(`raced`), the reconnect of an event stream after Disconnect (`LiveIsWanted` leaves
`sse` out), a start that takes a cancel back (`told`). The last three are about the
desktop runner and need no model: the panel ignores the data file, and two ways of
counting skipped requests differ from the documentation.

These bound what can be promised. `save_serial` has one slot and no late secrets,
and neither it nor the theorems with `Orderly` claim anything beyond that. Read
errors are left out there too (`ReadsFail`), because the app deliberately starts
empty and the next save then replaces the unreadable file.

## Fairness

All fairness is weak, and none of it is about the user, crashes or servers.

* `DesktopSave`: an armed timer fires, a running command makes progress (it ends or
  fails), and a flow that is leaving quits or hides. These are the runtime's timer,
  the file system and the webview's own continuation. Nothing is assumed of the
  keychain or of the prompt.
* `CollectionRunner` (`FairSpec`): each run keeps taking steps, because scripts have
  a time limit, requests a timeout and the delay is a timer.
* `DesktopRunner`: the steps of a run (requests have a timeout), the webview's
  handling of events, and the arrival of a cancel that was invoked.
* `ProjectSession`: a command that was invoked goes on or fails, watcher threads
  loop (their wait has a timeout), the webview handles events.
* `StreamConnections`: the cookies arrive (a file read), the errors of this turn of
  the event loop are delivered, and reconnect timers fire. Nothing is assumed of
  the network.
* `HistoryStorage`: the queue goes on to its next promise, and the append under way
  makes progress or fails.
* `ProjectStorage` has no liveness property and no fairness.

## What is proved

All theorems hold for every number of edits, slots, inodes, items, projects,
commands, runs, requests, iterations, services and entries. The named assumptions on
constants (`ConstantsAssumption`) are only that special values differ from data and
that flags are Booleans; for `ProjectStorage` also that items form a forest in which
no chain of homes is without an end, for the runners that limits are positive.

*DesktopSave.* `TypeCorrect`, `ClosingAlwaysMatches` and `TimerAlwaysPending` need
nothing more. `DiskAlwaysComplete` assumes `Serial` (one slot), `MemoryOnlyGrows` that
there are no secrets. `QuiescentAlwaysSaved`, `AlwaysFlushedBeforeLeaving`,
`QuitLosesOnlyRunningSaves` and `SavesImplementDurableStore` assume `Orderly`: one slot,
no read errors, no secrets. Few of these are inductive. The invariant behind them, `IInv`, adds that the temp file is the one
the open command holds (`FileInv`), that disk, payload of the save, pending payload
and memory form a chain of growing sets, so that a rename can only move the disk
forward (`ChainInv`), and that what a leaving flow flushed is contained in every
save still to come (`FlowInv`). The refinement then follows action by action. `OwedInv`
says the same of the saves that run, without what the flush does not await.

The half of `LeavingEnds` that is about the code is `AwaitedSavesEnd`, for any number of
slots: a way out that awaits a save awaits one that runs (`AwaitInv`), and until the
process ends it either leaves or waits for the same save, which stands still or is a
step nearer to its end.

*CollectionRunner.* Every safety property of its runs: `TypeCorrect`,
`FailureAlwaysLast`, `VisitsAlwaysBounded`, `RowsAlwaysIsolated`,
`ParallelAlwaysCoversAll`, `SoloCancelAlwaysAborts`, and `AbortNeverSeen`. `RunInv` is
about one run; an *effect* lemma per action says that a step keeps the run's own
invariant and leaves the other runs' states alone, so one lemma covers all
interleavings. `CountInv` makes the count of visits the cardinality of a set of
ordinals, which a visit extends by one element, and `SentInv` says that what is
answered and what is in flight add up to the iterations so far. The rest relates
runs to what they share: an aborted controller is never the current one
(`AbortInv`), a lone
run keeps its controller (`SoloInv`), the clone of a data row holds its own
variables and what was live (`RowInv`).

`CollectionRunner_bounds` says how much a run can amount to. `Left` is the number of
steps a run has left, at most `Iterations * (8 * N + 5)`; `RunsAlwaysShrink` proves
that the steps of the run lower it and that no other step changes the run.
`ResultsAlwaysBounded` counts results, `EarlyEndAlwaysTold` says that no iteration is
left out in silence, `OwnVariablesAlwaysAlone` that a run no other has followed sends
with its own collection variables. `VisitsBounded` is the fact these counts rest on.

*ProjectStorage.* All five checked properties. The invariant `Inv` says that what a
save has still to write is a tree at every moment, because a directory's metadata
is written after everything inside (`Position`); what it has written is whole or set
aside (`Written`), and what it has cleaned up is gone (`Cleaned`); that a load, if
nothing disturbs it, has found or will find all that can be loaded (`LoadSound`); and
that in a session without reloads disk, payload and memory follow each other
(`Followed`). The lemmas about trees rest on the well-foundedness of `Home`.

*HistoryStorage, ProjectSession.* The invariants are of the form `Frame /\ (~disturbed
=> Calm)` and `Frame /\ (~crossed => Calm)`. `Frame` holds always: the types, and
which step belongs to which call. `Calm` holds until the calls get in each other's
way: for history, one call is alone, and its step says how memory, file and index
file differ; for sessions, at most one command is on its way to show another tree,
saves that run aim at different places, and whatever is on its way has at least the
tree of the place it is for. All safety properties of both runs follow,
`DiskNeverShrinks` among them, which is about steps. In the history a refused unlink
ends `Calm` as company does; entries in `glued` are left out of what it says of the file. `OpenAlwaysRemembered` has the same
condition: the open project is the one the next start reopens, and only it is watched.

The append queue of the history needs no condition. `OnceInv` says that an entry is
queued exactly while its append waits or is at hand, in one place only; from it follow
`QueuedAlwaysWaits` and `AppendsHappenOnce`: no line is written twice, and one that
failed, or broke off, is not written later behind its caller's back. `NothingIsEarly` is why it can be shown
beside rewrites, rebuilds and crashes: what was not tried is in no file, index or copy.

*StreamConnections.* `Sound` is kept by each service by itself, whatever the order of
its callbacks; the invariant adds that a service which is alive is the current one.
`FitInv` relates the state of each socket to its status and its timer:
`ShownConnected` (the panel shows connected only over a socket that is open or was cut
off), `EndedAlwaysRetried` (a connection whose end the service was told of has its
reconnect armed), and, for WebSockets, to the panel: `ShownAlwaysCurrents`. The latter is about WebSockets only
because the other two kinds report the late callbacks of a service that was left.

*DesktopRunner.* `FlagInv` (the flag is up while a run is told) and `MixInv` (of
runs other than the last started nothing is under way or in the queue).
`RunsAlwaysShrink` is the bound on the steps of a run, as for the extension.
`RunningAlwaysBacked` says that a panel at *running* has something to wait for.

Only model-checked: all liveness properties, which the prover does not reach. For all
but one of them the part that is about the code, and not about fairness, is a theorem:

| Liveness (TLC) | What is proved of it |
|---|---|
| `LeavingEnds` | `AwaitedSavesEnd` |
| `RunsEnd`, extension and desktop | `RunsAlwaysShrink` in each |
| `PanelLeavesRunning` | `RunningAlwaysBacked` and the desktop's `RunsAlwaysShrink` |
| `ServerEndReconnects` | `EndedAlwaysRetried` |
| `EveryAppendTried` | `QueuedAlwaysWaits`, `AppendsHappenOnce` |

`EditsReachDisk` has no such half but `TimerAlwaysPending` and `QuiescentAlwaysSaved`:
the user may go on editing, and each edit restarts the debounce. Every other property
of a passing run is a theorem.

## Not modelled

* The draft store of the desktop and the benchmark service: one timer or one loop
  each, with nothing beside it but the hazards listed for them; the benchmark's
  shared controller is the pattern that `CollectionRunner` shows.
* Within the modelled parts: order files, environments and name collisions of a
  project, two project saves at once, the two-second filter of the watcher, renaming
  and the other workspace settings, run history and exports of the runners, the
  messages of connections and their Rust counterparts, search and statistics of the
  history. `PROJECT.json` names them at each component.
* The other storage of the extension (modes, drafts, env files): sequential calls,
  each awaited by its caller.
* HTTP, gRPC, scripts, assertions, authentication, cookies, mock server: in these
  models a request is an outcome, a script a jump and a variable. What they do
  beyond that is formatting, cryptography and evaluation around libraries.
* Importers, exporters, code generation, OpenAPI tooling: pure functions over large
  documents, which tests reach.
* UI components and stores, panels, transport, CLI, website: rendering, data
  structures with a single caller, glue.

Most of the repository's lines are of the last three kinds, so the modelled share
of lines is small: the models cover the code where the order of steps matters.
