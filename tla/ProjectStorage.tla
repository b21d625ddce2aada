---------------------------- MODULE ProjectStorage ----------------------------
(***************************************************************************)
(* ProjectStorageService: the collections of an open project, one file per *)
(* request and one metadata file per collection or folder, under .nouto.   *)
(* A save writes every file in place, deepest first, and then removes what *)
(* it did not write; a load reads the tree and sets the files aside that   *)
(* do not parse.  Both are asynchronous, so a reload of the running app    *)
(* may interleave with a save, and a crash may stop either anywhere.       *)
(*                                                                         *)
(* An item is the name of its file, so a rename is a removal and an        *)
(* addition.  _order.json decides nothing but the order and is left out.   *)
(* An unused definition is the form a plausible mistake would give the one *)
(* after it.                                                               *)
(***************************************************************************)
EXTENDS FiniteSets

CONSTANTS Dirs,      \* collections and folders; the file is their metadata
          Requests,  \* requests
          Root,      \* the collections directory
          None,      \* null
          Home,      \* the directory each item lives in
          Above      \* all the directories around each item, but Root

Items == Dirs \cup Requests

ASSUME ConstantsAssumption ==
    /\ Dirs \cap Requests = {}
    /\ Root \notin Items
    /\ None \notin Items \cup {Root}
    /\ \A t \in SUBSET Items : t # None
    /\ Home \in [Items -> Dirs \cup {Root}]
    /\ \A q \in Requests : Home[q] # Root
    /\ \A s \in SUBSET Items : s # {} => \E i \in s : Home[i] \notin s   \* a tree
    /\ Above \in [Items -> SUBSET Dirs]
    /\ \A i \in Items :
          Above[i] = IF Home[i] = Root THEN {} ELSE {Home[i]} \cup Above[Home[i]]

VARIABLES
    app,         \* "down", "loading" (nothing shown yet) or "running"
    mem,         \* the items the webview shows
    pending,     \* _pendingSavePayload
    save,        \* the running save_collections
    load,        \* the running load_data
    file,        \* per item: its file
    dirs,        \* the directories that exist
    aside,       \* items with a .corrupt- file next to where theirs was
    trusted,     \* mem comes from the load at the start, and no read failed
    saveFailed   \* the last save that ended failed

disk == <<file, dirs, aside>>
vars == <<app, mem, pending, save, load, disk, trusted, saveFailed>>

\* A collection tree has the directories around everything it has.
Trees == {t \in SUBSET Items : \A i \in t : Above[i] \subseteq t}

SaveState == [on: BOOLEAN, payload: SUBSET Items, todo: SUBSET Items,
              at: Dirs \cup {Root}, writing: Items \cup {None},
              base: SUBSET Items]            \* history: what a load saw before it
LoadState == [on: BOOLEAN, todo: SUBSET Items, got: SUBSET Items]
NoSave == [on |-> FALSE, payload |-> {}, todo |-> {}, at |-> Root,
           writing |-> None, base |-> {}]
NoLoad == [on |-> FALSE, todo |-> {}, got |-> {}]

TypeOK ==
    /\ app \in {"down", "loading", "running"}
    /\ mem \in Trees
    /\ pending \in {None} \cup Trees
    /\ save \in SaveState
    /\ load \in LoadState
    /\ file \in [Items -> {"absent", "torn", "whole"}]
    /\ dirs \in SUBSET Dirs
    /\ aside \in SUBSET Items
    /\ trusted \in BOOLEAN
    /\ saveFailed \in BOOLEAN

Init ==
    /\ app = "down"
    /\ mem = {}
    /\ pending = None
    /\ save = NoSave
    /\ load = NoLoad
    /\ file = [i \in Items |-> "absent"]
    /\ dirs = {}
    /\ aside = {}
    /\ trusted = FALSE
    /\ saveFailed = FALSE

\* What a load that nothing disturbs would return.
Loadable == {i \in Items : \A j \in {i} \cup Above[i] : file[j] = "whole"}

-----------------------------------------------------------------------------
(* The webview: any edit of the tree sends saveCollections, whose payload  *)
(* is the tree at that moment; a debounce timer runs while one is pending. *)

Edit ==
    /\ app = "running"
    /\ mem' \in Trees \ {mem}
    /\ pending' = mem'
    /\ UNCHANGED <<app, save, load, disk, trusted, saveFailed>>

-----------------------------------------------------------------------------
(* save_collections.  The save is in one directory at a time, its at; todo *)
(* holds what of the payload is not written yet.                           *)

Waiting(d) == {i \in save.todo : Home[i] = d}
Writing == save.writing # None

\* The debounce timer fires.
StartSave ==
    /\ app = "running"
    /\ pending # None
    /\ ~save.on
    /\ save' = [NoSave EXCEPT !.on = TRUE, !.payload = pending, !.todo = pending,
                              !.base = Loadable]
    /\ pending' = None
    /\ UNCHANGED <<app, mem, load, disk, trusted, saveFailed>>

RewriteDir(d) == file' = [i \in Items |->
                            IF i = d \/ d \in Above[i] THEN "absent" ELSE file[i]]
KeepDir(d) == UNCHANGED file

\* save_collection_to_dir and save_folder_to_dir begin with create_dir_all.
EnterDir(d) ==
    /\ save.on /\ ~Writing
    /\ d \in Waiting(save.at)
    /\ save' = [save EXCEPT !.at = d]
    /\ dirs' = dirs \cup {d}
    /\ KeepDir(d)
    /\ UNCHANGED <<app, mem, pending, load, aside, trusted, saveFailed>>

MetaFirst(i) == i \in Requests \cap Waiting(save.at) \/ i = save.at
NextFile(i) == \/ i \in Requests \cap Waiting(save.at)
               \/ i = save.at /\ Waiting(save.at) = {}

\* fs::write of a request, or of the metadata once everything inside is written,
\* truncates the file ...
OpenFile(i) ==
    /\ save.on /\ ~Writing
    /\ i \in save.todo
    /\ NextFile(i)
    /\ save' = [save EXCEPT !.writing = i]
    /\ file' = [file EXCEPT ![i] = "torn"]
    /\ UNCHANGED <<app, mem, pending, load, dirs, aside, trusted, saveFailed>>

\* ... and then writes it.  A load that meanwhile set the file aside took the
\* name away, and the content goes to the backup.
WriteFile ==
    /\ save.on /\ Writing
    /\ file' = [file EXCEPT ![save.writing] = IF @ = "torn" THEN "whole" ELSE @]
    /\ save' = [save EXCEPT !.writing = None, !.todo = @ \ {save.writing}]
    /\ UNCHANGED <<app, mem, pending, load, dirs, aside, trusted, saveFailed>>

\* Everything of this directory is written: the cleanup of clean_orphans, or the
\* one of save_collections for directories only, begins.
Cleaning == save.on /\ save.at \notin save.todo /\ Waiting(save.at) = {}

Within(i) == {j \in Items : j = i \/ i \in Above[j]}
Exists(i) == file[i] # "absent" \/ i \in dirs
Orphans == {i \in Items : Home[i] = save.at /\ i \notin save.payload /\ Exists(i)}

\* A backup lies in the directory its item's file was in.
BackupDir(i) == IF i \in Dirs THEN i ELSE Home[i]
AllSwept(i) == {j \in aside : BackupDir(j) \in Within(i) \cup {save.at}}
Swept(i) == {j \in aside : BackupDir(j) \in Within(i)}

\* remove_file, or remove_dir_all with all that is inside; a .corrupt- entry of
\* the directory itself is passed over.
RemoveOrphan ==
    /\ Cleaning
    /\ \E i \in Orphans :
          /\ file' = [j \in Items |-> IF j \in Within(i) THEN "absent" ELSE file[j]]
          /\ dirs' = dirs \ Within(i)
          /\ aside' = aside \ Swept(i)
    /\ UNCHANGED <<app, mem, pending, save, load, trusted, saveFailed>>

OnlyDirsGone == Orphans \cap Dirs = {}
Clean == Orphans = {}

LeaveDir ==
    /\ Cleaning
    /\ save.at # Root
    /\ Clean
    /\ save' = [save EXCEPT !.at = Home[save.at]]
    /\ UNCHANGED <<app, mem, pending, load, disk, trusted, saveFailed>>

SaveEnds ==
    /\ Cleaning
    /\ save.at = Root
    /\ Clean
    /\ save' = NoSave
    /\ saveFailed' = FALSE
    /\ UNCHANGED <<app, mem, pending, load, disk, trusted>>

\* Any step may return an error: the save stops where it is.
SaveFails ==
    /\ save.on
    /\ save' = NoSave
    /\ saveFailed' = TRUE
    /\ UNCHANGED <<app, mem, pending, load, disk, trusted>>

-----------------------------------------------------------------------------
(* load_data and what surrounds it.                                        *)

EveryDir == dirs
TopDirs == {d \in dirs : Home[d] = Root}

Launch ==
    /\ app = "down"
    /\ app' = "loading"
    /\ load' = [on |-> TRUE, todo |-> TopDirs, got |-> {}]
    /\ trusted' = TRUE
    /\ UNCHANGED <<mem, pending, save, disk, saveFailed>>

\* projectFileChanged while the active tab is clean sends loadData.
Reload ==
    /\ app = "running"
    /\ ~load.on
    /\ load' = [on |-> TRUE, todo |-> TopDirs, got |-> {}]
    /\ trusted' = FALSE
    /\ UNCHANGED <<app, mem, pending, save, disk, saveFailed>>

\* The entries of a directory whose metadata is read.
Listed(i) == {j \in Items : Home[j] = i /\ (j \in dirs \/ file[j] # "absent")}

\* The metadata of a directory, which is then listed, or a request.
ReadWhole(i) ==
    /\ file[i] = "whole"
    /\ load' = [load EXCEPT !.todo = (@ \ {i}) \cup Listed(i), !.got = @ \cup {i}]
    /\ UNCHANGED <<file, aside, trusted>>

\* read_json_or_recover renames a file that does not parse; the item is skipped.
ReadTorn(i) ==
    /\ file[i] = "torn"
    /\ load' = [load EXCEPT !.todo = @ \ {i}]
    /\ file' = [file EXCEPT ![i] = "absent"]
    /\ aside' = aside \cup {i}
    /\ UNCHANGED trusted

\* A file that is not there, or not any more, is skipped.
ReadAbsent(i) ==
    /\ file[i] = "absent"
    /\ load' = [load EXCEPT !.todo = @ \ {i}]
    /\ UNCHANGED <<file, aside, trusted>>

\* Any other read error is logged, and the item is skipped as well.
ReadError(i) ==
    /\ load' = [load EXCEPT !.todo = @ \ {i}]
    /\ trusted' = FALSE
    /\ UNCHANGED <<file, aside>>

Read(i) ==
    /\ load.on
    /\ i \in load.todo
    /\ ReadWhole(i) \/ ReadTorn(i) \/ ReadAbsent(i) \/ ReadError(i)
    /\ UNCHANGED <<app, mem, pending, save, dirs, saveFailed>>

\* A directory that cannot be listed takes its collection out of the load, and the
\* collections directory everything.
ListError ==
    /\ load.on
    /\ \E lost \in {Items} \cup {Within(c) : c \in {d \in load.got : Home[d] = Root}} :
          load' = [load EXCEPT !.todo = @ \ lost, !.got = @ \ lost]
    /\ trusted' = FALSE
    /\ UNCHANGED <<app, mem, pending, save, disk, saveFailed>>

\* The environments cannot be read: load_data returns before initialData.
LoadAborts ==
    /\ load.on
    /\ load.todo = {}
    /\ load' = NoLoad
    /\ UNCHANGED <<app, mem, pending, save, disk, trusted, saveFailed>>

\* initialData replaces the store, whatever it held and whatever is pending.
ShowLoaded ==
    /\ load.on
    /\ load.todo = {}
    /\ app' = "running"
    /\ mem' = load.got
    /\ load' = NoLoad
    /\ UNCHANGED <<pending, save, disk, trusted, saveFailed>>

Crash ==
    /\ app # "down"
    /\ app' = "down"
    /\ mem' = {}
    /\ pending' = None
    /\ save' = NoSave
    /\ load' = NoLoad
    /\ trusted' = FALSE
    /\ saveFailed' = FALSE
    /\ UNCHANGED disk

\* Another program damages a file between two sessions.
Damage(i) ==
    /\ app = "down"
    /\ file[i] = "whole"
    /\ file' = [file EXCEPT ![i] = "torn"]
    /\ UNCHANGED <<app, mem, pending, save, load, dirs, aside, trusted, saveFailed>>

-----------------------------------------------------------------------------
SaveStep == \/ \E d \in Dirs : EnterDir(d)
            \/ \E i \in Items : OpenFile(i)
            \/ WriteFile \/ RemoveOrphan \/ LeaveDir \/ SaveEnds \/ SaveFails

LoadStep == (\E i \in Items : Read(i)) \/ ListError \/ LoadAborts \/ ShowLoaded

Next == \/ Edit \/ StartSave \/ SaveStep
        \/ Launch \/ Reload \/ LoadStep
        \/ Crash
        \/ \E i \in Items : Damage(i)

Spec == Init /\ [][Next]_vars

-----------------------------------------------------------------------------
(* Properties.                                                             *)

\* At any point of a save, where a crash, an error or a load may find it, what
\* could be loaded before the save and is in its payload is there: whole, or the
\* one file being written, or set aside.  Cleanup never takes it.
KeptSurvives ==
    save.on => \A i \in save.base \cap save.payload :
                  file[i] = "whole" \/ save.writing = i \/ i \in aside

\* A collection or folder that a save adds does not show before all of it is on
\* disk: its metadata comes after everything inside.
AddedDirsComplete ==
    save.on => \A d \in (Loadable \ save.base) \cap save.payload \cap Dirs :
                  \A i \in save.payload :
                      d \in Above[i] => file[i] = "whole" \/ i \in aside

\* When nothing is pending and nothing runs, the project directory holds exactly
\* what the webview shows, unless a reload or a failed read or save came between.
QuiescentMeansSaved ==
    /\ app = "running"
    /\ pending = None /\ ~save.on /\ ~load.on
    /\ trusted /\ ~saveFailed
    => Loadable = mem

\* test_project_storage_corrupt_request_survives_save: the backup of a corrupt
\* file outlives every save that keeps its directory.
KeptDirsKeepBackups ==
    [][save.on =>
          \A i \in aside :
              {BackupDir(i)} \cup Above[i] \subseteq save.payload \cup {Root}
                  => i \in aside']_vars

\* storage.rs:14, "a backup survives the next save".
BackupsSurvive == [][aside \subseteq aside']_vars
=============================================================================
