---------------------------- MODULE HistoryStorage ----------------------------
(***************************************************************************)
(* HistoryStorageService of the extension: one line per sent request in a  *)
(* JSONL file, and an index of the lines, in memory and as a JSON file.    *)
(* Appends wait for each other in a queue of promises; deleting, filing in *)
(* a collection, clearing and reloading do not: they may run beside an     *)
(* append and beside each other, awaiting the file system between steps.   *)
(*                                                                         *)
(* A line or index entry is "plain" or "filed" (it got a collection id).   *)
(* writeFile empties the file when it opens it and writes later; a write   *)
(* over what another writer left overwrites as many bytes as it has.       *)
(* appendFile may write a part of its line and then be refused, or die     *)
(* with the host: the next line runs on in the torn one, and neither       *)
(* parses.                                                                 *)
(* prune() has no caller and is left out.  An unused definition is the     *)
(* form a plausible mistake would give the one after it.                   *)
(***************************************************************************)
EXTENDS Sequences

CONSTANTS Entries,   \* history entries, each with its own id
          Appender,  \* the one append that the queue lets run
          Slots,     \* the other calls that may be under way
          NoEntry,   \* undefined
          NoIndex,   \* the index file is missing or empty
          Mixed      \* the index file has the bytes of two writers

Jobs == Slots \cup {Appender}
Content == [Entries -> {"none", "plain", "filed"}]
Nothing == [e \in Entries |-> "none"]
Ids(c) == {e \in Entries : c[e] # "none"}

ASSUME ConstantsAssumption ==
    /\ Appender \notin Slots
    /\ NoEntry \notin Entries
    /\ NoIndex # Mixed
    /\ {NoIndex, Mixed} \cap Content = {}

VARIABLES
    up,         \* the extension host runs
    index,      \* _index
    file,       \* nouto-history.jsonl: the lines that parse
    tail,       \* the entry whose torn line ends the file, without a newline
    indexFile,  \* nouto-history-index.json
    queue,      \* entries waiting in _appendQueue
    job,        \* per job: the call under way and the step it is at
    fate,       \* history: what has become of each entry
    glued,      \* history: entries whose lines ran together with another
    refused,    \* history: a clear was refused an unlink
    disturbed   \* history: a call other than an append had company or broke off

disk == <<file, tail, indexFile>>
vars == <<up, index, disk, glued, refused, queue, job, fate, disturbed>>

\* An entry is logged, "tried" once its append got to the file, "kept" when the
\* append is acknowledged, "asked" for when the user removes it, and "gone" when
\* that call returns; "dropped" when the host ends before its line is written.
Fates == {"new", "queued", "dropped", "tried", "kept", "asked", "gone"}
Ops == {"none", "append", "delete", "file", "clear", "load"}
Phases == {"idle", "line", "list", "read", "rewrite", "rewriting", "save", "saving",
           "unlinkHistory", "unlinkIndex", "readIndex", "assign", "rebuild"}
JobState == [op: Ops, entry: Entries \cup {NoEntry}, phase: Phases, snap: Content,
             linked: BOOLEAN]   \* the file it has open still has its name
Idle == [op |-> "none", entry |-> NoEntry, phase |-> "idle", snap |-> Nothing,
         linked |-> TRUE]

Init ==
    /\ up = FALSE
    /\ index = Nothing
    /\ file = Nothing /\ tail = NoEntry /\ glued = {}
    /\ indexFile = NoIndex
    /\ queue = <<>>
    /\ job = [j \in Jobs |-> Idle]
    /\ fate = [e \in Entries |-> "new"]
    /\ refused = FALSE /\ disturbed = FALSE

Free(j) == job[j] = Idle
Quiet == queue = <<>> /\ \A j \in Jobs : Free(j)
At(j, phase) == job[j].phase = phase
Goto(j, phase) == job' = [job EXCEPT ![j].phase = phase]
Started(op, e, phase) == [Idle EXCEPT !.op = op, !.entry = e, !.phase = phase]

\* _saveIndex turns the index into text when it is called, and writes it later.
CallSave(j, idx) == job' = [job EXCEPT ![j].phase = "save", ![j].snap = idx,
                                       ![j].linked = TRUE]

\* What the end of a call makes of the fates: an append is acknowledged, what a
\* deletion or clear was asked to remove is gone.
Settled(j) ==
    LET done == job[j] IN
    [e \in Entries |->
        IF done.op = "append" /\ e = done.entry /\ fate[e] = "tried" THEN "kept"
        ELSE IF fate[e] = "asked"
                /\ (done.op = "clear" \/ (done.op = "delete" /\ e = done.entry))
             THEN "gone" ELSE fate[e]]

Return(j) ==
    /\ job' = [job EXCEPT ![j] = Idle]
    /\ fate' = Settled(j)

----------------------------------------------------------------------------
(* Calls *)

\* A request was sent, or an import adds an entry it has not seen.
Log(e) ==
    /\ up /\ fate[e] = "new"
    /\ queue' = Append(queue, e)
    /\ fate' = [fate EXCEPT ![e] = "queued"]
    /\ disturbed' = (disturbed \/ \E j \in Slots : ~Free(j))
    /\ UNCHANGED <<up, index, disk, glued, refused, job>>

\* A call of the others finds company or not.
Joins(j) ==
    /\ up /\ Free(j)
    /\ disturbed' = (disturbed \/ ~Quiet)
    /\ UNCHANGED <<up, disk, glued, refused, queue>>

\* The entry leaves the index at once, and the file after a rewrite.
Delete(j, e) ==
    /\ Joins(j)
    /\ e \in Ids(index)
    /\ index' = [index EXCEPT ![e] = "none"]
    /\ job' = [job EXCEPT ![j] = Started("delete", e, "read")]
    /\ fate' = [fate EXCEPT ![e] = "asked"]

\* updateEntryCollectionId, after the entry was saved in a collection.
File(j, e) ==
    /\ Joins(j)
    /\ e \in Ids(index)
    /\ index' = [index EXCEPT ![e] = "filed"]
    /\ job' = [job EXCEPT ![j] = Started("file", e, "read")]
    /\ UNCHANGED fate

Clear(j) ==
    /\ Joins(j)
    /\ index' = Nothing
    /\ job' = [job EXCEPT ![j] = Started("clear", NoEntry, "unlinkHistory")]
    /\ fate' = [e \in Entries |-> IF fate[e] \in {"tried", "kept"} THEN "asked" ELSE fate[e]]

\* A restored backup makes the service load again.
Reload(j) ==
    /\ Joins(j)
    /\ job' = [job EXCEPT ![j] = Started("load", NoEntry, "readIndex")]
    /\ UNCHANGED <<index, fate>>

Launch(j) ==
    /\ ~up
    /\ up' = TRUE
    /\ job' = [job EXCEPT ![j] = Started("load", NoEntry, "readIndex")]
    /\ UNCHANGED <<index, disk, glued, refused, queue, fate, disturbed>>

----------------------------------------------------------------------------
(* The append queue *)

BeginAppend ==
    /\ Free(Appender) /\ queue # <<>>
    /\ queue' = Tail(queue)
    /\ job' = [job EXCEPT ![Appender] = Started("append", Head(queue), "line")]
    /\ UNCHANGED <<up, index, disk, glued, refused, fate, disturbed>>

Tried(e) == fate' = [fate EXCEPT ![e] = IF @ = "queued" THEN "tried" ELSE @]

\* The end of the file is torn: what is written now runs on in that line.
RunsOn(e) ==
    /\ file' = [file EXCEPT ![tail] = "none"]
    /\ glued' = glued \cup {tail, e}

AppendLine ==
    LET e == job[Appender].entry IN
    /\ At(Appender, "line")
    /\ IF tail = NoEntry
       THEN file' = [file EXCEPT ![e] = "plain"] /\ UNCHANGED glued
       ELSE RunsOn(e)
    /\ tail' = NoEntry
    /\ Goto(Appender, "list")
    /\ Tried(e)
    /\ UNCHANGED <<up, index, indexFile, refused, queue, disturbed>>

\* A part of the line is written, at most all of it but the newline, before the
\* append is refused.  The caller gets the error and the queue goes on.
AppendPart ==
    LET e == job[Appender].entry IN
    /\ At(Appender, "line")
    /\ IF tail = NoEntry
       THEN /\ file' \in {file, [file EXCEPT ![e] = "plain"]}
            /\ tail' = e
            /\ UNCHANGED glued
       ELSE RunsOn(e) /\ UNCHANGED tail
    /\ job' = [job EXCEPT ![Appender] = Idle]
    /\ Tried(e)
    /\ UNCHANGED <<up, index, indexFile, refused, queue, disturbed>>

ListAfterSave ==
    /\ At(Appender, "list")
    /\ index' = [index EXCEPT ![job[Appender].entry] = "plain"]
    /\ CallSave(Appender, index)
    /\ UNCHANGED <<up, disk, glued, refused, queue, fate, disturbed>>
ListEntry ==
    /\ At(Appender, "list")
    /\ index' = [index EXCEPT ![job[Appender].entry] = "plain"]
    /\ CallSave(Appender, index')
    /\ UNCHANGED <<up, disk, glued, refused, queue, fate, disturbed>>

----------------------------------------------------------------------------
(* Steps of the calls *)

RewrittenUnfiled(j) ==
    [file EXCEPT ![job[j].entry] = IF job[j].op = "delete" THEN "none" ELSE @]
RewrittenWithAll(j) ==
    [file EXCEPT ![job[j].entry] = IF job[j].op = "delete" \/ @ = "none" THEN @ ELSE "filed"]

\* What a rewrite will write: all lines read but the deleted one, or with the
\* filed one changed.
Rewritten(j) ==
    [file EXCEPT ![job[j].entry] = IF job[j].op = "delete" \/ @ = "none"
                                   THEN "none" ELSE "filed"]

ReadAll(j) ==
    /\ At(j, "read")
    /\ IF job[j].op = "file" /\ file[job[j].entry] = "none"
       THEN CallSave(j, index)
       ELSE job' = [job EXCEPT ![j].snap = Rewritten(j), ![j].phase = "rewrite"]
    /\ UNCHANGED <<up, index, disk, glued, refused, queue, fate, disturbed>>

CutFile(j) ==
    /\ At(j, "rewrite")
    /\ file' = Nothing /\ tail' = NoEntry
    /\ Goto(j, "rewriting")
    /\ UNCHANGED <<up, index, indexFile, glued, refused, queue, fate, disturbed>>

\* The part of the file that a write leaves behind what it writes.
Rests(c) == {rest \in SUBSET Ids(file) : Ids(c) = {} => rest = Ids(file)}

RewriteFile(j) ==
    /\ At(j, "rewriting")
    /\ IF job[j].linked
       THEN \E rest \in Rests(job[j].snap) :
               /\ file' = [e \in Entries |->
                             IF job[j].snap[e] # "none" THEN job[j].snap[e]
                             ELSE IF e \in rest THEN file[e] ELSE "none"]
               /\ tail' \in IF tail \in rest \/ job[j].snap = Nothing
                            THEN {tail} ELSE {tail, NoEntry}
       ELSE UNCHANGED <<file, tail>>
    /\ CallSave(j, index)
    /\ UNCHANGED <<up, index, indexFile, glued, refused, queue, fate, disturbed>>

SaveOpens(j) ==
    /\ At(j, "save")
    /\ indexFile' = NoIndex
    /\ Goto(j, "saving")
    /\ UNCHANGED <<up, index, file, tail, glued, refused, queue, fate, disturbed>>

SaveWrites(j) ==
    /\ At(j, "saving")
    /\ indexFile' \in IF ~job[j].linked THEN {indexFile}
                      ELSE IF indexFile = NoIndex THEN {job[j].snap}
                      ELSE {job[j].snap, Mixed}
    /\ Return(j)
    /\ UNCHANGED <<up, index, file, tail, glued, refused, queue, disturbed>>

\* Removing a file's name leaves those that have it open writing into nothing.
Unlink(phase) == [k \in Jobs |-> IF At(k, phase) THEN [job[k] EXCEPT !.linked = FALSE]
                                                 ELSE job[k]]

\* clear() goes on when an unlink is refused, and the file is still there.
UnlinkHistory(j) ==
    /\ At(j, "unlinkHistory")
    /\ \/ /\ file' = Nothing /\ tail' = NoEntry
          /\ job' = [Unlink("rewriting") EXCEPT ![j].phase = "unlinkIndex"]
          /\ UNCHANGED refused
       \/ /\ Goto(j, "unlinkIndex")
          /\ refused' = TRUE
          /\ UNCHANGED <<file, tail>>
    /\ UNCHANGED <<up, index, indexFile, glued, queue, fate, disturbed>>

UnlinkIndex(j) ==
    /\ At(j, "unlinkIndex")
    /\ \/ /\ indexFile' = NoIndex
          /\ job' = [Unlink("saving") EXCEPT ![j] = Idle]
          /\ UNCHANGED refused
       \/ /\ job' = [job EXCEPT ![j] = Idle]
          /\ refused' = TRUE
          /\ UNCHANGED indexFile
    /\ fate' = Settled(j)
    /\ UNCHANGED <<up, index, file, tail, glued, queue, disturbed>>

AnyParses == TRUE
Parses == indexFile \notin {NoIndex, Mixed}

\* load: an index that parses is taken as it is, any other is made from the lines.
ReadIndex(j) ==
    /\ At(j, "readIndex")
    /\ IF Parses
       THEN job' = [job EXCEPT ![j].snap = indexFile, ![j].phase = "assign"]
            /\ UNCHANGED index
       ELSE Goto(j, "rebuild") /\ index' = Nothing
    /\ UNCHANGED <<up, disk, glued, refused, queue, fate, disturbed>>

Assign(j) ==
    /\ At(j, "assign")
    /\ index' = job[j].snap
    /\ Return(j)
    /\ UNCHANGED <<up, disk, glued, refused, queue, disturbed>>

\* Without a line there may be a file or none, and with none no index is saved.
Rebuild(j) ==
    /\ At(j, "rebuild")
    /\ index' = [e \in Entries |-> IF file[e] # "none" THEN file[e] ELSE index[e]]
    /\ \/ CallSave(j, index') /\ UNCHANGED fate
       \/ file = Nothing /\ tail = NoEntry /\ Return(j)
    /\ UNCHANGED <<up, disk, glued, refused, queue, disturbed>>

Step(j) ==
    \/ ReadAll(j)       \/ CutFile(j)     \/ RewriteFile(j)
    \/ SaveOpens(j)     \/ SaveWrites(j)
    \/ UnlinkHistory(j) \/ UnlinkIndex(j)
    \/ ReadIndex(j)     \/ Assign(j)      \/ Rebuild(j)

\* The file system refuses.  An append's error goes to its caller and the queue
\* goes on, be its line written (an error of close) or not; a call that breaks off
\* leaves what it has done.
DropsQueue == <<>>
LeavesQueue == queue

Fails(j) ==
    /\ \/ At(j, "line") /\ Tried(job[j].entry)
       \/ job[j].phase \in {"list", "read", "rewrite", "rewriting", "save", "saving"}
          /\ UNCHANGED fate
    /\ job' = [job EXCEPT ![j] = Idle]
    /\ queue' = LeavesQueue
    /\ disturbed' = (disturbed \/ j # Appender)
    /\ UNCHANGED <<up, index, disk, glued, refused>>

\* The host ends.  Ending in the middle of a line is AppendPart first.
Crash ==
    /\ up
    /\ up' = FALSE
    /\ index' = Nothing
    /\ queue' = <<>>
    /\ job' = [j \in Jobs |-> Idle]
    /\ fate' = [e \in Entries |-> IF fate[e] = "queued" THEN "dropped" ELSE fate[e]]
    /\ disturbed' = (disturbed \/ \E j \in Slots : job[j].op \in {"delete", "file", "clear"})
    /\ UNCHANGED <<disk, glued, refused>>

Next ==
    \/ \E e \in Entries : Log(e)
    \/ \E j \in Slots :
          \/ Clear(j) \/ Reload(j) \/ Launch(j)
          \/ \E e \in Entries : Delete(j, e) \/ File(j, e)
    \/ BeginAppend \/ AppendLine \/ AppendPart \/ ListEntry
    \/ \E j \in Jobs : Step(j) \/ Fails(j)
    \/ Crash

\* Promises and the file system go on by themselves.
Fairness ==
    /\ WF_vars(BeginAppend)
    /\ WF_vars(\/ AppendLine \/ AppendPart \/ ListEntry
               \/ Step(Appender) \/ Fails(Appender))

Spec == Init /\ [][Next]_vars /\ Fairness

----------------------------------------------------------------------------
(* Properties *)

TypeOK ==
    /\ up \in BOOLEAN /\ refused \in BOOLEAN /\ disturbed \in BOOLEAN
    /\ index \in Content /\ file \in Content
    /\ tail \in Entries \cup {NoEntry} /\ glued \subseteq Entries
    /\ indexFile \in Content \cup {NoIndex, Mixed}
    /\ queue \in Seq(Entries)
    /\ job \in [Jobs -> JobState]
    /\ fate \in [Entries -> Fates]

\* While a rewrite has emptied the file, the lines are in memory only.
Rewriting == \E j \in Slots : At(j, "rewriting")
IndexLost == indexFile \in {NoIndex, Mixed}
Acked == {e \in Entries : fate[e] = "kept"}

\* No call but the appends had company, broke off or was refused an unlink.
Undisturbed == ~disturbed /\ ~refused

\* Crashes and failures of appends, at any step, cost no acknowledged entry but the
\* one whose line runs on in a torn one: the line of every other is in the file, and
\* the index on disk has it or will be rebuilt.
AckedSurvives ==
    Undisturbed =>
        /\ ~Rewriting => Acked \ glued \subseteq Ids(file)
        /\ IndexLost \/ Acked \ glued \subseteq Ids(indexFile)

\* What the history shows can be opened, and has the collection it was filed in,
\* unless its line ran together with another.
ListedCanBeOpened ==
    Undisturbed /\ (\A j \in Slots : job[j].op \notin {"delete", "file", "clear"}) =>
        \A e \in Ids(index) \ glued : file[e] = index[e]

\* A removal that has returned leaves nothing behind that a later start, a rebuild of
\* the index included, would bring back, as long as no clear was refused an unlink.
DeletedStaysGone ==
    Undisturbed => \A e \in Entries : fate[e] = "gone" =>
        /\ e \notin Ids(index) \cup Ids(file)
        /\ IndexLost \/ e \notin Ids(indexFile)

\* Every logged request gets its own attempt to reach the file, whatever became of
\* the ones before it, unless the host ends first.
EveryAppendTried == \A e \in Entries : fate[e] = "queued" ~> fate[e] # "queued"

\* request-history.md:79, "VS Code keeps every entry until you delete it or clear the
\* history": an acknowledged entry is in the file.
EveryEntryKept == Undisturbed /\ ~Rewriting => Acked \subseteq Ids(file)

\* manual-test-guide.md:1376, "All previous entries are gone": what a clear without
\* company was asked to remove is not listed once it has returned, neither now nor in
\* the index file that the next start takes.
ClearedIsGone ==
    ~disturbed => \A e \in Entries : fate[e] = "gone" =>
        /\ e \notin Ids(index)
        /\ IndexLost \/ e \notin Ids(indexFile)
=============================================================================
