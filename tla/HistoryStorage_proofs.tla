------------------------- MODULE HistoryStorage_proofs -------------------------
(***************************************************************************)
(* Proofs about HistoryStorage, for any number of entries and calls.       *)
(*                                                                         *)
(* Frame holds always: the types, which call may be at which step, and     *)
(* that nothing is in memory while the host is down.  Calm holds as long   *)
(* as nothing has disturbed the calls and no clear was refused an unlink:  *)
(* a call is then alone, and the step it is at says how memory, file and   *)
(* index file differ, lines that ran together excepted.  The append queue  *)
(* needs no such condition, and its theorems at the end have none.         *)
(***************************************************************************)
EXTENDS HistoryStorage, Integers, TLAPS

\* What c lists is in d, in the same form, but for lines that ran together.
Fits(c, d) == \A e \in Entries \ glued : c[e] # "none" => d[e] = c[e]
FitsBut(c, d, x) == \A e \in Entries \ glued : c[e] # "none" /\ e # x => d[e] = c[e]
\* c has no entry that was not yet written or is gone, and every acknowledged one
\* whose line did not run together with another.
Lacks(c) == \A e \in Entries : fate[e] \in {"new", "queued", "gone"} => c[e] = "none"
Holds(c) == \A e \in Entries \ glued : fate[e] = "kept" => c[e] # "none"

Edits == {"delete", "file", "clear"}
Loading == {"readIndex", "assign", "rebuild"}
Saving == {"save", "saving"}

Shape(j) ==
    LET phase == job[j].phase  op == job[j].op IN
    /\ phase = "idle" => job[j] = Idle
    /\ phase \in {"line", "list"} => op = "append"
    /\ phase \in {"read", "rewrite", "rewriting"} => op \in {"delete", "file"}
    /\ phase \in {"unlinkHistory", "unlinkIndex"} => op = "clear"
    /\ phase \in Loading => op = "load"
    /\ phase \in Saving => op \in {"append", "delete", "file", "load"}
    /\ op = "append" => j = Appender
    /\ j = Appender => op \in {"append", "none"}
    /\ op \in {"append", "delete", "file"} => job[j].entry \in Entries

Shapes == \A j \in Jobs : Shape(j)
Down == ~up => index = Nothing /\ queue = <<>> /\ \A j \in Jobs : Free(j)
Frame == TypeOK /\ Shapes /\ Down

Alone == \A j \in Slots : ~Free(j) =>
            queue = <<>> /\ \A k \in Jobs : k # j => Free(k)
Waiting == /\ \A i \in 1..Len(queue) : fate[queue[i]] = "queued"
           /\ \A i, k \in 1..Len(queue) : queue[i] = queue[k] => i = k
OnDisk == /\ indexFile # Mixed
          /\ indexFile # NoIndex => Lacks(indexFile) /\ Holds(indexFile)
          /\ Lacks(file)
          /\ ~Rewriting => Holds(file)
InMemory ==
    /\ Lacks(index)
    /\ up /\ (\A j \in Slots : job[j].phase \notin Loading) => Holds(index)
Agree == (\A j \in Slots : job[j].op \notin Edits) =>
            /\ Fits(index, file)
            /\ indexFile # NoIndex => Fits(indexFile, file)

\* The steps of an append, of a deletion or filing, of a clear, of a load.
AppendSound(j) ==
    LET e == job[j].entry IN
    /\ At(j, "line") => fate[e] = "queued" /\ \A i \in 1..Len(queue) : queue[i] # e
    /\ At(j, "list") => fate[e] = "tried" /\ (file[e] = "plain" \/ e \in glued)
    /\ job[j].phase \in Saving => /\ fate[e] = "tried" /\ index[e] = "plain"
                                  /\ file[e] = "plain" \/ e \in glued
EditSound(j) ==
    LET x == job[j].entry  snap == job[j].snap  del == job[j].op = "delete" IN
    /\ del => index[x] = "none" /\ fate[x] = "asked"
    /\ ~del => index[x] = "filed"
    /\ At(j, "read") => FitsBut(index, file, x) /\ (~del => file[x] # "none" \/ x \in glued)
    /\ job[j].phase \in {"rewrite", "rewriting"} =>
          /\ Lacks(snap) /\ Holds(snap) /\ Fits(index, snap)
          /\ del => snap[x] = "none"
    /\ At(j, "rewriting") => file = Nothing
    /\ job[j].phase \in Saving => Fits(index, file) /\ (del => file[x] = "none")
ClearSound(j) ==
    /\ index = Nothing
    /\ \A e \in Entries : fate[e] \notin {"tried", "kept"}
    /\ At(j, "unlinkIndex") => file = Nothing
LoadSound(j) ==
    /\ At(j, "assign") => Lacks(job[j].snap) /\ Holds(job[j].snap) /\ Fits(job[j].snap, file)
    /\ At(j, "rebuild") => index = Nothing
Sound(j) ==
    /\ job[j].linked
    /\ job[j].phase \in Saving => job[j].snap = index
    /\ At(j, "saving") => indexFile = NoIndex
    /\ job[j].op = "append" => AppendSound(j)
    /\ job[j].op \in {"delete", "file"} => EditSound(j)
    /\ job[j].op = "clear" => ClearSound(j)
    /\ job[j].op = "load" => LoadSound(j)

\* What Calm comes to when no call but appends is under way.
Synced == /\ indexFile # Mixed
          /\ indexFile # NoIndex => Lacks(indexFile) /\ Holds(indexFile) /\ Fits(indexFile, file)
          /\ Lacks(file) /\ Holds(file) /\ Lacks(index) /\ Fits(index, file)
          /\ up => Holds(index)

Calm == /\ Alone /\ Waiting /\ OnDisk /\ InMemory /\ Agree
        /\ \A j \in Jobs : Sound(j)
Inv == Frame /\ (Undisturbed => Calm)
-----------------------------------------------------------------------------
(* What the ways of moving a job on do to it *)

Starts(j, op, e, p) == job' = [job EXCEPT ![j] = Started(op, e, p)]
GoesOnWith(j, c, p) == job' = [job EXCEPT ![j].snap = c, ![j].phase = p]
Ends(j) == job' = [job EXCEPT ![j] = Idle]

\* Idle is a job, and Nothing a content.
LEMMA Basics == Idle \in JobState /\ Nothing \in Content
<1>1. Nothing \in Content
  BY DEF Nothing, Content
<1> QED
  BY <1>1 DEF Idle, JobState, Ops, Phases

\* A started call has its operation, entry and first step.
LEMMA StartJob ==
    ASSUME TypeOK, NEW j \in Jobs, NEW op \in Ops, NEW e \in Entries \cup {NoEntry},
           NEW p \in Phases, Starts(j, op, e, p)
    PROVE  /\ job' \in [Jobs -> JobState]
           /\ \A k \in Jobs : k # j => job'[k] = job[k]
           /\ job'[j].op = op /\ job'[j].entry = e /\ job'[j].phase = p
           /\ job'[j].snap = Nothing /\ job'[j].linked
<1> DEFINE s == Started(op, e, p)
<1>1. /\ s \in JobState
      /\ s.op = op /\ s.entry = e /\ s.phase = p /\ s.snap = Nothing /\ s.linked
  BY Basics DEF Started, Idle, JobState
<1> HIDE DEF s
<1> QED
  BY <1>1 DEF TypeOK, Starts, s

\* Going on changes the step only.
LEMMA GotoJob ==
    ASSUME TypeOK, NEW j \in Jobs, NEW p \in Phases, Goto(j, p)
    PROVE  /\ job' \in [Jobs -> JobState]
           /\ \A k \in Jobs : k # j => job'[k] = job[k]
           /\ job'[j].op = job[j].op /\ job'[j].entry = job[j].entry
           /\ job'[j].phase = p
           /\ job'[j].snap = job[j].snap /\ job'[j].linked = job[j].linked
<1> DEFINE s == [job[j] EXCEPT !.phase = p]
<1>1. job[j] \in JobState
  BY DEF TypeOK
<1>2. /\ s \in JobState
      /\ s.op = job[j].op /\ s.entry = job[j].entry /\ s.phase = p
      /\ s.snap = job[j].snap /\ s.linked = job[j].linked
  BY <1>1 DEF JobState
<1>3. job' = [job EXCEPT ![j] = s]
  BY DEF Goto
<1> HIDE DEF s
<1> QED
  BY <1>2, <1>3 DEF TypeOK

\* A rewrite and the reading of an index go on with what they have read.
LEMMA SnapJob ==
    ASSUME TypeOK, NEW j \in Jobs, NEW p \in Phases, NEW c \in Content,
           GoesOnWith(j, c, p)
    PROVE  /\ job' \in [Jobs -> JobState]
           /\ \A k \in Jobs : k # j => job'[k] = job[k]
           /\ job'[j].op = job[j].op /\ job'[j].entry = job[j].entry
           /\ job'[j].phase = p
           /\ job'[j].snap = c /\ job'[j].linked = job[j].linked
<1> DEFINE s == [job[j] EXCEPT !.snap = c, !.phase = p]
<1>1. job[j] \in JobState
  BY DEF TypeOK
<1>2. /\ s \in JobState
      /\ s.op = job[j].op /\ s.entry = job[j].entry /\ s.phase = p
      /\ s.snap = c /\ s.linked = job[j].linked
  BY <1>1 DEF JobState
<1>3. job' = [job EXCEPT ![j] = s]
  BY DEF TypeOK, GoesOnWith
<1> HIDE DEF s
<1> QED
  BY <1>2, <1>3 DEF TypeOK

\* A save holds the index as it was when it was called.
LEMMA SaveJob ==
    ASSUME TypeOK, NEW j \in Jobs, NEW c \in Content, CallSave(j, c)
    PROVE  /\ job' \in [Jobs -> JobState]
           /\ \A k \in Jobs : k # j => job'[k] = job[k]
           /\ job'[j].op = job[j].op /\ job'[j].entry = job[j].entry
           /\ job'[j].phase = "save"
           /\ job'[j].snap = c /\ job'[j].linked
<1> DEFINE s == [job[j] EXCEPT !.phase = "save", !.snap = c, !.linked = TRUE]
<1>1. job[j] \in JobState
  BY DEF TypeOK
<1>2. /\ s \in JobState
      /\ s.op = job[j].op /\ s.entry = job[j].entry /\ s.phase = "save"
      /\ s.snap = c /\ s.linked
  BY <1>1 DEF JobState, Phases
<1>3. job' = [job EXCEPT ![j] = s]
  BY DEF CallSave, TypeOK
<1> HIDE DEF s
<1> QED
  BY <1>2, <1>3 DEF TypeOK

\* A call that ends leaves its job idle.
LEMMA IdleJob ==
    ASSUME TypeOK, NEW j \in Jobs, Ends(j)
    PROVE  /\ job' \in [Jobs -> JobState]
           /\ \A k \in Jobs : k # j => job'[k] = job[k]
           /\ job'[j] = Idle
BY Basics DEF TypeOK, Ends

\* Unlinking changes only whether the open file still has its name.
LEMMA UnlinkJobs ==
    ASSUME TypeOK, NEW p \in Phases
    PROVE  /\ Unlink(p) \in [Jobs -> JobState]
           /\ \A k \in Jobs :
                 /\ job[k].phase # p => Unlink(p)[k] = job[k]
                 /\ Unlink(p)[k].op = job[k].op
                 /\ Unlink(p)[k].entry = job[k].entry
                 /\ Unlink(p)[k].phase = job[k].phase
<1>1. ASSUME NEW k \in Jobs
      PROVE  /\ Unlink(p)[k] \in JobState
             /\ job[k].phase # p => Unlink(p)[k] = job[k]
             /\ Unlink(p)[k].op = job[k].op
             /\ Unlink(p)[k].entry = job[k].entry
             /\ Unlink(p)[k].phase = job[k].phase
  <2>1. job[k] \in JobState
    BY DEF TypeOK
  <2>2. Unlink(p)[k] = IF job[k].phase = p THEN [job[k] EXCEPT !.linked = FALSE] ELSE job[k]
    BY DEF Unlink, At
  <2> QED
    BY <2>1, <2>2 DEF JobState
<1>2. Unlink(p) = [k \in Jobs |-> Unlink(p)[k]]
  BY DEF Unlink
<1> QED
  BY <1>1, <1>2

-----------------------------------------------------------------------------
(* The frame *)

\* What the end of a call makes of the fates are fates.
LEMMA SettledFates ==
    ASSUME TypeOK, NEW j \in Jobs PROVE Settled(j) \in [Entries -> Fates]
BY DEF TypeOK, Settled, Fates

\* Initially there is nothing.
LEMMA FrameInit == Init => Frame
<1> SUFFICES ASSUME Init PROVE Frame
  OBVIOUS
<1>1. \A j \in Jobs : job[j] = Idle
  BY DEF Init
<1>2. TypeOK
  <2>1. job \in [Jobs -> JobState] /\ index \in Content /\ file \in Content
    BY Basics DEF Init
  <2>2. fate \in [Entries -> Fates] /\ queue \in Seq(Entries)
    BY DEF Init, Fates
  <2> QED
    BY <2>1, <2>2 DEF Init, TypeOK
<1>3. Shapes
  <2>1. Idle.op = "none" /\ Idle.phase = "idle"
    BY DEF Idle
  <2> QED
    BY <1>1, <2>1 DEF Shapes, Shape, Loading, Saving
<1> QED
  BY <1>1, <1>2, <1>3 DEF Frame, Down, Free, Init

\* A step of one job keeps the shapes of all, if it gives its own a shape.
LEMMA OtherShapes ==
    ASSUME Shapes, NEW j \in Jobs, \A k \in Jobs : k # j => job'[k] = job[k], Shape(j)'
    PROVE  Shapes'
BY DEF Shapes, Shape

\* A started call has a shape.
LEMMA StartShape ==
    ASSUME Frame, NEW j \in Jobs, NEW op, NEW e, NEW p,
           Starts(j, op, e, p),
           \/ op = "append" /\ e \in Entries /\ p = "line" /\ j = Appender
           \/ op \in {"delete", "file"} /\ e \in Entries /\ p = "read" /\ j # Appender
           \/ op = "clear" /\ e = NoEntry /\ p = "unlinkHistory" /\ j # Appender
           \/ op = "load" /\ e = NoEntry /\ p = "readIndex" /\ j # Appender
    PROVE  Shapes' /\ job' \in [Jobs -> JobState]
<1>1. op \in Ops /\ e \in Entries \cup {NoEntry} /\ p \in Phases
  BY DEF Ops, Phases
<1>2. /\ job' \in [Jobs -> JobState]
      /\ \A k \in Jobs : k # j => job'[k] = job[k]
      /\ job'[j].op = op /\ job'[j].entry = e /\ job'[j].phase = p
  BY <1>1, StartJob DEF Frame
<1>3. Shape(j)'
  <2>1. CASE op = "append"
    BY <1>2, <2>1 DEF Shape, Loading, Saving
  <2>2. CASE op \in {"delete", "file"}
    BY <1>2, <2>2 DEF Shape, Loading, Saving
  <2>3. CASE op \in {"clear", "load"}
    BY <1>2, <2>3 DEF Shape, Loading, Saving
  <2> QED
    BY <2>1, <2>2, <2>3
<1> QED
  BY <1>2, <1>3, OtherShapes DEF Frame

\* Idle is the shape of a job that does nothing.
LEMMA IdleShape ==
    ASSUME NEW j \in Jobs, job'[j] = Idle PROVE Shape(j)'
<1>1. Idle.op = "none" /\ Idle.phase = "idle"
  BY DEF Idle
<1> QED
  BY <1>1 DEF Shape, Loading, Saving

\* So a call that ends keeps the shapes.
LEMMA EndShape ==
    ASSUME Frame, NEW j \in Jobs, Ends(j)
    PROVE  Shapes' /\ job' \in [Jobs -> JobState]
BY IdleJob, IdleShape, OtherShapes DEF Frame

\* A job at a step beyond idle is not free, so the host is up.
LEMMA BusyMeansUp ==
    ASSUME Frame, NEW j \in Jobs, job[j].phase # "idle" PROVE up
BY DEF Frame, Down, Free, Idle

\* A new request joins the queue.
LEMMA LogFrame == ASSUME Frame, NEW e \in Entries, Log(e) PROVE Frame'
<1>1. TypeOK'
  BY DEF Frame, Log, TypeOK, disk, Fates
<1>2. Shapes'
  BY DEF Frame, Log, Shapes, Shape
<1> QED
  BY <1>1, <1>2 DEF Frame, Log, Down

\* Calls begin while the host is up, or bring it up.
LEMMA CallFrame ==
    ASSUME Frame, NEW j \in Slots,
           \/ Clear(j) \/ Reload(j) \/ Launch(j)
           \/ \E e \in Entries : Delete(j, e) \/ File(j, e)
    PROVE  Frame'
<1> USE DEF Frame
<1>0. j \in Jobs /\ j # Appender
  BY ConstantsAssumption DEF Jobs
<1>1. CASE Clear(j)
  <2>1. Starts(j, "clear", NoEntry, "unlinkHistory")
    BY <1>1 DEF Clear, Starts
  <2>2. Shapes' /\ job' \in [Jobs -> JobState]
    BY <1>0, <2>1, StartShape
  <2>3. up' /\ TypeOK'
    BY <1>1, <2>2, Basics DEF TypeOK, Clear, Joins, disk, Fates
  <2> QED
    BY <2>2, <2>3 DEF Down
<1>2. CASE Reload(j) \/ Launch(j)
  <2>1. Starts(j, "load", NoEntry, "readIndex")
    BY <1>2 DEF Reload, Launch, Starts
  <2>2. Shapes' /\ job' \in [Jobs -> JobState]
    BY <1>0, <2>1, StartShape
  <2>3. up' /\ TypeOK'
    BY <1>2, <2>2 DEF TypeOK, Reload, Launch, Joins, disk
  <2> QED
    BY <2>2, <2>3 DEF Down
<1>3. ASSUME NEW e \in Entries, Delete(j, e) PROVE Frame'
  <2>1. Starts(j, "delete", e, "read")
    BY <1>3 DEF Delete, Starts
  <2>2. Shapes' /\ job' \in [Jobs -> JobState]
    BY <1>0, <2>1, StartShape
  <2>3. up' /\ TypeOK'
    BY <1>3, <2>2 DEF TypeOK, Delete, Joins, disk, Content, Fates
  <2> QED
    BY <2>2, <2>3 DEF Down
<1>4. ASSUME NEW e \in Entries, File(j, e) PROVE Frame'
  <2>1. Starts(j, "file", e, "read")
    BY <1>4 DEF File, Starts
  <2>2. Shapes' /\ job' \in [Jobs -> JobState]
    BY <1>0, <2>1, StartShape
  <2>3. up' /\ TypeOK'
    BY <1>4, <2>2 DEF TypeOK, File, Joins, disk, Content
  <2> QED
    BY <2>2, <2>3 DEF Down
<1> QED
  BY <1>1, <1>2, <1>3, <1>4

\* The append that the queue lets run.
LEMMA AppendFrame ==
    ASSUME Frame, BeginAppend \/ AppendLine \/ AppendPart \/ ListEntry PROVE Frame'
<1> USE DEF Frame
<1>0. Appender \in Jobs /\ (job[Appender].phase # "idle" => up)
  BY BusyMeansUp DEF Jobs
<1>1. CASE BeginAppend
  <2>1. Head(queue) \in Entries /\ Tail(queue) \in Seq(Entries)
    BY <1>1 DEF BeginAppend, TypeOK
  <2>2. PICK e \in Entries : e = Head(queue)
    BY <2>1
  <2>3. Starts(Appender, "append", e, "line")
    BY <1>1, <2>2 DEF BeginAppend, Starts
  <2>4. Shapes' /\ job' \in [Jobs -> JobState]
    BY <1>0, <2>1, <2>3, StartShape
  <2>5. up' /\ TypeOK'
    BY <1>1, <2>1, <2>4 DEF TypeOK, BeginAppend, disk, Down
  <2> QED
    BY <2>4, <2>5 DEF Down
<1>2. CASE AppendLine
  <2>1. Goto(Appender, "list") /\ job[Appender].phase = "line"
    BY <1>2 DEF AppendLine, At
  <2>2. "list" \in Phases /\ Shape(Appender)
    BY <1>0 DEF Phases, Shapes
  <2>3. Shapes' /\ job' \in [Jobs -> JobState]
    BY <1>0, <2>1, <2>2, GotoJob, OtherShapes DEF Shape, Loading, Saving
  <2>4. job[Appender].entry \in Entries
    BY <2>1, <2>2 DEF Shape
  <2>5. file' \in Content /\ glued' \subseteq Entries /\ tail' \in Entries \cup {NoEntry}
    BY <1>2, <2>4 DEF TypeOK, AppendLine, RunsOn, Content
  <2>6. up' /\ TypeOK'
    BY <1>0, <1>2, <2>1, <2>3, <2>5 DEF TypeOK, AppendLine, Tried, Fates
  <2> QED
    BY <2>3, <2>6 DEF Down
<1>3. CASE ListEntry
  <2>1. index' \in Content /\ CallSave(Appender, index') /\ job[Appender].phase = "list"
    BY <1>3 DEF ListEntry, At, TypeOK, Content
  <2>2. Shape(Appender)
    BY <1>0 DEF Shapes
  <2>3. Shapes' /\ job' \in [Jobs -> JobState]
    BY <1>0, <2>1, <2>2, SaveJob, OtherShapes DEF Shape, Loading, Saving
  <2>4. up' /\ TypeOK'
    BY <1>0, <1>3, <2>1, <2>3 DEF TypeOK, ListEntry, disk
  <2> QED
    BY <2>3, <2>4 DEF Down
<1>4. CASE AppendPart
  <2>1. Ends(Appender) /\ job[Appender].phase = "line"
    BY <1>4 DEF AppendPart, At, Ends
  <2>2. job[Appender].entry \in Entries
    BY <1>0, <2>1 DEF Shapes, Shape
  <2>3. Shapes' /\ job' \in [Jobs -> JobState]
    BY <1>0, <2>1, EndShape
  <2>4. file' \in Content /\ glued' \subseteq Entries /\ tail' \in Entries \cup {NoEntry}
    BY <1>4, <2>2 DEF TypeOK, AppendPart, RunsOn, Content
  <2>5. up' /\ TypeOK'
    BY <1>0, <1>4, <2>1, <2>3, <2>4 DEF TypeOK, AppendPart, Tried, Fates
  <2> QED
    BY <2>3, <2>5 DEF Down
<1> QED
  BY <1>1, <1>2, <1>3, <1>4
\* Going on keeps the shapes if the new step belongs to the call.
LEMMA GotoShape ==
    ASSUME Frame, NEW j \in Jobs, NEW p \in Phases,
           Goto(j, p) \/ \E c \in Content : GoesOnWith(j, c, p),
           p # "idle",
           p \in {"line", "list"} => job[j].op = "append",
           p \in {"read", "rewrite", "rewriting"} => job[j].op \in {"delete", "file"},
           p \in {"unlinkHistory", "unlinkIndex"} => job[j].op = "clear",
           p \in Loading => job[j].op = "load",
           p \in Saving => job[j].op \in {"append", "delete", "file", "load"}
    PROVE  Shapes' /\ job' \in [Jobs -> JobState]
<1>1. /\ job' \in [Jobs -> JobState]
      /\ \A k \in Jobs : k # j => job'[k] = job[k]
      /\ job'[j].op = job[j].op /\ job'[j].entry = job[j].entry /\ job'[j].phase = p
  BY GotoJob, SnapJob DEF Frame
<1>2. Shape(j)
  BY DEF Frame, Shapes
<1>3. Shape(j)'
  BY <1>1, <1>2 DEF Shape
<1> QED
  BY <1>1, <1>3, OtherShapes DEF Frame

\* A save is part of every call that changes the index but a clear.
LEMMA SaveShape ==
    ASSUME Frame, NEW j \in Jobs, NEW c \in Content, CallSave(j, c),
           job[j].op \in {"append", "delete", "file", "load"}
    PROVE  Shapes' /\ job' \in [Jobs -> JobState]
<1>1. /\ job' \in [Jobs -> JobState]
      /\ \A k \in Jobs : k # j => job'[k] = job[k]
      /\ job'[j].op = job[j].op /\ job'[j].entry = job[j].entry /\ job'[j].phase = "save"
  BY SaveJob DEF Frame
<1>2. Shape(j)
  BY DEF Frame, Shapes
<1>3. Shape(j)'
  BY <1>1, <1>2 DEF Shape, Loading, Saving
<1> QED
  BY <1>1, <1>3, OtherShapes DEF Frame

\* What a rewrite will write is lines.
LEMMA RewrittenContent ==
    ASSUME TypeOK, NEW j \in Jobs PROVE Rewritten(j) \in Content
BY DEF TypeOK, Rewritten, Content

\* The steps of deletions and filings on the lines.
LEMMA RewriteFrame ==
    ASSUME Frame, NEW j \in Jobs, ReadAll(j) \/ CutFile(j) \/ RewriteFile(j)
    PROVE  Frame'
<1> USE DEF Frame
<1>0. Shape(j) /\ (job[j].phase # "idle" => up)
  BY BusyMeansUp DEF Shapes
<1>1. CASE ReadAll(j)
  <2>1. job[j].op \in {"delete", "file"} /\ up
    BY <1>0, <1>1 DEF ReadAll, At, Shape
  <2>2. Shapes' /\ job' \in [Jobs -> JobState]
    <3>1. CASE CallSave(j, index)
      BY <2>1, <3>1, SaveShape DEF TypeOK
    <3>2. CASE ~CallSave(j, index)
      <4>1. GoesOnWith(j, Rewritten(j), "rewrite")
        BY <1>1, <3>2 DEF ReadAll, GoesOnWith
      <4>2. PICK c \in Content : GoesOnWith(j, c, "rewrite")
        BY <4>1, RewrittenContent
      <4>3. "rewrite" \in Phases
        BY DEF Phases
      <4> QED
        BY <2>1, <4>2, <4>3, GotoShape DEF Loading, Saving
    <3> QED
      BY <3>1, <3>2
  <2> QED
    BY <1>1, <2>1, <2>2 DEF ReadAll, TypeOK, Down, disk
<1>2. CASE CutFile(j)
  <2>1. job[j].op \in {"delete", "file"} /\ up
    BY <1>0, <1>2 DEF CutFile, At, Shape
  <2>2. Goto(j, "rewriting") /\ "rewriting" \in Phases
    BY <1>2 DEF CutFile, Phases
  <2>3. Shapes' /\ job' \in [Jobs -> JobState]
    BY <2>1, <2>2, GotoShape DEF Loading, Saving
  <2> QED
    BY <1>2, <2>1, <2>3, Basics DEF CutFile, TypeOK, Down
<1>3. CASE RewriteFile(j)
  <2>1. job[j].op \in {"delete", "file"} /\ up
    BY <1>0, <1>3 DEF RewriteFile, At, Shape
  <2>2. CallSave(j, index) /\ index \in Content
    BY <1>3 DEF RewriteFile, TypeOK
  <2>3. Shapes' /\ job' \in [Jobs -> JobState]
    BY <2>1, <2>2, SaveShape
  <2>4. file' \in Content
    <3>1. job[j].snap \in Content /\ file \in Content
      BY DEF TypeOK, JobState
    <3>2. CASE file' = file
      BY <3>1, <3>2
    <3>3. CASE file' # file
      <4>1. PICK rest \in Rests(job[j].snap) :
               file' = [e \in Entries |->
                          IF job[j].snap[e] # "none" THEN job[j].snap[e]
                          ELSE IF e \in rest THEN file[e] ELSE "none"]
        BY <1>3, <3>3 DEF RewriteFile
      <4> QED
        BY <3>1, <4>1 DEF Content
    <3> QED
      BY <3>2, <3>3
  <2> QED
    BY <1>3, <2>1, <2>3, <2>4 DEF RewriteFile, TypeOK, Down
<1> QED
  BY <1>1, <1>2, <1>3

\* The saving of the index.
LEMMA SaveFrame ==
    ASSUME Frame, NEW j \in Jobs, SaveOpens(j) \/ SaveWrites(j) PROVE Frame'
<1> USE DEF Frame
<1>0. Shape(j) /\ (job[j].phase # "idle" => up)
  BY BusyMeansUp DEF Shapes
<1>1. CASE SaveOpens(j)
  <2>1. job[j].op \in {"append", "delete", "file", "load"} /\ up
    BY <1>0, <1>1 DEF SaveOpens, At, Shape, Saving
  <2>2. Goto(j, "saving") /\ "saving" \in Phases
    BY <1>1 DEF SaveOpens, Phases
  <2>3. Shapes' /\ job' \in [Jobs -> JobState]
    BY <2>1, <2>2, GotoShape DEF Loading
  <2> QED
    BY <1>1, <2>1, <2>3 DEF SaveOpens, TypeOK, Down
<1>2. CASE SaveWrites(j)
  <2>1. up
    BY <1>0, <1>2 DEF SaveWrites, At
  <2>2. Ends(j) /\ fate' \in [Entries -> Fates]
    BY <1>2, SettledFates DEF SaveWrites, Return, Ends
  <2>3. Shapes' /\ job' \in [Jobs -> JobState]
    BY <2>2, EndShape
  <2>4. indexFile' \in Content \cup {NoIndex, Mixed}
    <3>1. job[j] \in JobState
      BY DEF TypeOK
    <3> QED
      BY <1>2, <3>1 DEF SaveWrites, TypeOK, JobState
  <2> QED
    BY <1>2, <2>1, <2>2, <2>3, <2>4 DEF SaveWrites, TypeOK, Down
<1> QED
  BY <1>1, <1>2
\* Taking the names from the files.
LEMMA ClearFrame ==
    ASSUME Frame, NEW j \in Jobs, UnlinkHistory(j) \/ UnlinkIndex(j) PROVE Frame'
<1> USE DEF Frame
<1>0. Shape(j) /\ (job[j].phase # "idle" => up)
  BY BusyMeansUp DEF Shapes
<1>a. /\ Idle.op = "none" /\ Idle.phase = "idle" /\ "idle" \notin {"rewriting", "saving"}
      /\ {"rewriting", "saving", "unlinkIndex"} \subseteq Phases
  BY DEF Idle, Phases
<1>1. CASE UnlinkHistory(j) /\ ~Goto(j, "unlinkIndex")
  <2>1. job[j].op = "clear" /\ up /\ job[j].phase = "unlinkHistory"
    BY <1>0, <1>1 DEF UnlinkHistory, At, Shape
  <2> DEFINE jobs == Unlink("rewriting")
  <2>2. /\ jobs \in [Jobs -> JobState]
        /\ \A k \in Jobs :
              /\ job[k].phase # "rewriting" => jobs[k] = job[k]
              /\ jobs[k].op = job[k].op /\ jobs[k].entry = job[k].entry
              /\ jobs[k].phase = job[k].phase
    BY <1>a, UnlinkJobs
  <2>3. job' = [jobs EXCEPT ![j].phase = "unlinkIndex"]
    BY <1>1 DEF UnlinkHistory
  <2> HIDE DEF jobs
  <2> DEFINE s == [jobs[j] EXCEPT !.phase = "unlinkIndex"]
  <2>4. /\ s \in JobState /\ s.op = "clear" /\ s.phase = "unlinkIndex"
    BY <1>a, <2>1, <2>2 DEF JobState
  <2>5. job' = [jobs EXCEPT ![j] = s]
    BY <2>3
  <2> HIDE DEF s
  <2>6. /\ job' \in [Jobs -> JobState] /\ job'[j] = s
        /\ \A k \in Jobs : k # j => job'[k] = jobs[k]
    BY <2>2, <2>4, <2>5
  <2>7. Shape(j)'
    BY <1>0, <2>1, <2>4, <2>6 DEF Shape, Loading, Saving
  <2>8. ASSUME NEW k \in Jobs, k # j PROVE Shape(k)'
    <3>1. Shape(k)
      BY DEF Shapes
    <3>2. job[k].phase = "idle" => jobs[k] = job[k]
      BY <2>2
    <3> QED
      BY <2>2, <2>6, <2>8, <3>1, <3>2 DEF Shape
  <2> QED
    BY <1>1, <2>1, <2>6, <2>7, <2>8, Basics DEF UnlinkHistory, TypeOK, Down, Shapes
<1>2. CASE UnlinkIndex(j) /\ ~Ends(j)
  <2>1. up
    BY <1>0, <1>2 DEF UnlinkIndex, At
  <2> DEFINE jobs == Unlink("saving")
  <2>2. /\ jobs \in [Jobs -> JobState]
        /\ \A k \in Jobs :
              /\ job[k].phase # "saving" => jobs[k] = job[k]
              /\ jobs[k].op = job[k].op /\ jobs[k].entry = job[k].entry
              /\ jobs[k].phase = job[k].phase
    BY <1>a, UnlinkJobs
  <2>3. job' = [jobs EXCEPT ![j] = Idle] /\ fate' \in [Entries -> Fates]
    BY <1>2, SettledFates DEF UnlinkIndex, Ends
  <2> HIDE DEF jobs
  <2>4. /\ job' \in [Jobs -> JobState] /\ job'[j] = Idle
        /\ \A k \in Jobs : k # j => job'[k] = jobs[k]
    BY <2>2, <2>3, Basics
  <2>5. ASSUME NEW k \in Jobs, k # j PROVE Shape(k)'
    <3>1. Shape(k)
      BY DEF Shapes
    <3>2. job[k].phase = "idle" => jobs[k] = job[k]
      BY <2>2
    <3> QED
      BY <2>2, <2>4, <2>5, <3>1, <3>2 DEF Shape
  <2>6. Shape(j)'
    BY <2>4, IdleShape
  <2> QED
    BY <1>2, <2>1, <2>3, <2>4, <2>5, <2>6 DEF UnlinkIndex, TypeOK, Down, Shapes
<1>3. CASE UnlinkHistory(j) /\ Goto(j, "unlinkIndex")
  <2>1. job[j].op = "clear" /\ up
    BY <1>0, <1>3 DEF UnlinkHistory, At, Shape
  <2>2. Shapes' /\ job' \in [Jobs -> JobState]
    BY <1>a, <1>3, <2>1, GotoShape DEF Loading, Saving
  <2> QED
    BY <1>3, <2>1, <2>2, Basics DEF UnlinkHistory, TypeOK, Down
<1>4. CASE UnlinkIndex(j) /\ Ends(j)
  <2>1. up /\ fate' \in [Entries -> Fates]
    BY <1>0, <1>4, SettledFates DEF UnlinkIndex, At
  <2>2. Shapes' /\ job' \in [Jobs -> JobState]
    BY <1>4, EndShape
  <2> QED
    BY <1>4, <2>1, <2>2 DEF UnlinkIndex, TypeOK, Down
<1> QED
  BY <1>1, <1>2, <1>3, <1>4 DEF UnlinkHistory

\* Loading.
LEMMA LoadFrame ==
    ASSUME Frame, NEW j \in Jobs, ReadIndex(j) \/ Assign(j) \/ Rebuild(j) PROVE Frame'
<1> USE DEF Frame
<1>0. Shape(j) /\ (job[j].phase # "idle" => up)
  BY BusyMeansUp DEF Shapes
<1>a. {"assign", "rebuild"} \subseteq Phases
  BY DEF Phases
<1>1. CASE ReadIndex(j)
  <2>1. job[j].op = "load" /\ up
    BY <1>0, <1>1 DEF ReadIndex, At, Shape, Loading
  <2>2. CASE Parses
    <3>1. GoesOnWith(j, indexFile, "assign") /\ indexFile \in Content /\ UNCHANGED index
      BY <1>1, <2>2 DEF ReadIndex, Parses, TypeOK, GoesOnWith
    <3>2. PICK c \in Content : GoesOnWith(j, c, "assign")
      BY <3>1
    <3>3. Shapes' /\ job' \in [Jobs -> JobState]
      BY <1>a, <2>1, <3>2, GotoShape DEF Loading, Saving
    <3> QED
      BY <1>1, <2>1, <3>1, <3>3 DEF ReadIndex, TypeOK, Down, disk
  <2>3. CASE ~Parses
    <3>1. Goto(j, "rebuild") /\ index' = Nothing
      BY <1>1, <2>3 DEF ReadIndex
    <3>2. Shapes' /\ job' \in [Jobs -> JobState]
      BY <1>a, <2>1, <3>1, GotoShape DEF Loading, Saving
    <3> QED
      BY <1>1, <2>1, <3>1, <3>2, Basics DEF ReadIndex, TypeOK, Down, disk
  <2> QED
    BY <2>2, <2>3
<1>2. CASE Assign(j)
  <2>1. up /\ Ends(j) /\ fate' \in [Entries -> Fates]
    BY <1>0, <1>2, SettledFates DEF Assign, At, Return, Ends
  <2>2. index' \in Content
    BY <1>2 DEF Assign, TypeOK, JobState
  <2>3. Shapes' /\ job' \in [Jobs -> JobState]
    BY <2>1, EndShape
  <2> QED
    BY <1>2, <2>1, <2>2, <2>3 DEF Assign, TypeOK, Down, disk
<1>3. CASE Rebuild(j)
  <2>1. job[j].op = "load" /\ up
    BY <1>0, <1>3 DEF Rebuild, At, Shape, Loading
  <2>2. index' \in Content
    BY <1>3 DEF Rebuild, TypeOK, Content
  <2>3. \/ Ends(j) /\ fate' \in [Entries -> Fates]
        \/ CallSave(j, index') /\ UNCHANGED fate
    BY <1>3, SettledFates DEF Rebuild, Return, Ends
  <2>4. Shapes' /\ job' \in [Jobs -> JobState] /\ fate' \in [Entries -> Fates]
    BY <2>1, <2>2, <2>3, EndShape, SaveShape DEF TypeOK
  <2> QED
    BY <1>3, <2>1, <2>2, <2>4 DEF Rebuild, TypeOK, Down, disk
<1> QED
  BY <1>1, <1>2, <1>3

\* Failures and crashes.
LEMMA BreakFrame ==
    ASSUME Frame, Crash \/ \E j \in Jobs : Fails(j) PROVE Frame'
<1> USE DEF Frame
<1>1. ASSUME NEW j \in Jobs, Fails(j) PROVE Frame'
  <2>1. Ends(j) /\ job[j].phase # "idle"
    BY <1>1 DEF Fails, Ends, At
  <2>2. up /\ Shapes' /\ job' \in [Jobs -> JobState]
    BY <2>1, BusyMeansUp, EndShape
  <2>3. fate' \in [Entries -> Fates]
    BY <1>1 DEF Fails, Tried, TypeOK, Fates
  <2> QED
    BY <1>1, <2>2, <2>3 DEF Fails, LeavesQueue, TypeOK, Down, disk
<1>2. CASE Crash
  <2>1. \A j \in Jobs : job'[j] = Idle
    BY <1>2 DEF Crash
  <2>2. Shapes'
    BY <2>1, IdleShape DEF Shapes
  <2>3. fate' \in [Entries -> Fates] /\ job' \in [Jobs -> JobState]
    BY <1>2, Basics DEF Crash, TypeOK, Fates
  <2>4. <<>> \in Seq(Entries) /\ disturbed' \in BOOLEAN
    BY <1>2 DEF Crash, TypeOK
  <2>5. TypeOK'
    BY <1>2, <2>3, <2>4, Basics DEF Crash, TypeOK, disk
  <2> QED
    BY <1>2, <2>1, <2>2, <2>5 DEF Crash, Down, Free
<1> QED
  BY <1>1, <1>2

\* The frame always holds.
LEMMA FrameStep == Frame /\ [Next]_vars => Frame'
<1> SUFFICES ASSUME Frame, [Next]_vars PROVE Frame'
  OBVIOUS
<1>1. CASE UNCHANGED vars
  BY <1>1 DEF Frame, TypeOK, Shapes, Shape, Down, Free, vars, disk
<1>2. CASE \E j \in Jobs : Step(j)
  BY <1>2, RewriteFrame, SaveFrame, ClearFrame, LoadFrame DEF Step
<1>3. CASE Next /\ ~ \E j \in Jobs : Step(j)
  BY <1>3, LogFrame, CallFrame, AppendFrame, BreakFrame DEF Next
<1> QED
  BY <1>1, <1>2, <1>3 DEF Next

\* Types and what goes with them hold in every reachable state.
LEMMA FrameAlways == Spec => []Frame
BY FrameInit, FrameStep, PTL DEF Spec

\* TypeOK always holds: a call never leaves a job, an index or a file of another kind.
THEOREM TypeCorrect == Spec => []TypeOK
<1>1. Frame => TypeOK
  BY DEF Frame
<1> QED
  BY <1>1, FrameAlways, PTL
-----------------------------------------------------------------------------
(* Calm: what one call alone does to memory, file and index file *)

\* A job that does nothing is sound, now and after a step.
LEMMA FreeSound ==
    ASSUME NEW j \in Jobs
    PROVE  /\ Free(j) => Sound(j) /\ job[j].op = "none" /\ job[j].phase = "idle"
           /\ Free(j)' => Sound(j)' /\ job'[j].op = "none" /\ job'[j].phase = "idle"
<1>1. Idle.op = "none" /\ Idle.phase = "idle" /\ Idle.linked
  BY DEF Idle
<1> QED
  BY <1>1 DEF Free, Sound, At, Saving

\* A call at a step is alone; when the append is, no other call is under way.
LEMMA Company ==
    ASSUME Alone, NEW j \in Jobs, job[j].phase # "idle"
    PROVE  /\ j \in Slots => queue = <<>>
           /\ \A k \in Slots : k # j => Free(k)
           /\ j \in Slots => Free(Appender)
<1>1. ~Free(j)
  BY FreeSound
<1> QED
  BY <1>1, ConstantsAssumption DEF Alone, Jobs

\* What is to be shown when one call j is left and all others are free.
LEMMA CalmWithOne ==
    ASSUME NEW j \in Slots, \A k \in Jobs : k # j => Free(k)', queue' = <<>>,
           indexFile' # Mixed,
           indexFile' # NoIndex => Lacks(indexFile)' /\ Holds(indexFile)',
           Lacks(file)',
           job'[j].phase # "rewriting" => Holds(file)',
           Lacks(index)',
           job'[j].phase \notin Loading => Holds(index)',
           job'[j].op \notin Edits =>
               Fits(index, file)' /\ (indexFile' # NoIndex => Fits(indexFile, file)'),
           Sound(j)'
    PROVE  Calm'
<1>1. j \in Jobs /\ \A k \in Slots : k \in Jobs
  BY DEF Jobs
<1>2. Alone' /\ Waiting'
  BY <1>1 DEF Alone, Waiting
<1>3. OnDisk' /\ InMemory' /\ Agree'
  BY <1>1 DEF OnDisk, InMemory, Agree, Rewriting, At
<1>4. \A k \in Jobs : Sound(k)'
  BY FreeSound
<1> QED
  BY <1>2, <1>3, <1>4 DEF Calm

\* What is to be shown when no call but appends is left.
LEMMA CalmAppending ==
    ASSUME \A k \in Slots : Free(k)', Waiting', Synced', Sound(Appender)'
    PROVE  Calm'
<1>1. \A k \in Slots : k \in Jobs
  BY DEF Jobs
<1>2. \A k \in Slots : job'[k].phase = "idle" /\ job'[k].op = "none"
  BY <1>1, FreeSound
<1>3. Alone'
  BY DEF Alone
<1>4. OnDisk' /\ InMemory' /\ Agree'
  BY <1>2 DEF OnDisk, InMemory, Agree, Rewriting, At, Synced
<1>5. \A k \in Jobs : Sound(k)'
  BY <1>1, FreeSound DEF Jobs
<1> QED
  BY <1>3, <1>4, <1>5 DEF Calm

\* What holds when no call is at a step, or only appends are.
LEMMA CalmFacts ==
    ASSUME Frame, Calm, \A k \in Slots : Free(k)
    PROVE  Synced
<1>1. \A k \in Slots : job[k].phase = "idle" /\ job[k].op = "none"
  BY FreeSound DEF Jobs
<1> QED
  BY <1>1 DEF Calm, OnDisk, InMemory, Agree, Rewriting, At, Loading, Edits, Synced

\* Initially all is calm.
LEMMA CalmInit == Init => Calm
<1> SUFFICES ASSUME Init PROVE Calm
  OBVIOUS
<1>1. \A j \in Jobs : Free(j)
  BY DEF Init, Free
<1>2. \A j \in Jobs : Sound(j) /\ job[j].op = "none" /\ job[j].phase = "idle"
  BY <1>1, FreeSound
<1>3. Alone /\ Waiting
  BY <1>1 DEF Init, Alone, Waiting, Jobs
<1>4. OnDisk
  BY ConstantsAssumption DEF Init, OnDisk, Lacks, Holds, Nothing
<1>5. InMemory /\ Agree
  BY DEF Init, InMemory, Agree, Lacks, Holds, Fits, Nothing
<1> QED
  BY <1>2, <1>3, <1>4, <1>5 DEF Calm
\* A new request waits; it is not in the file or the index.
LEMMA LogCalm ==
    ASSUME Frame, Calm, NEW e \in Entries, Log(e), ~disturbed' PROVE Calm'
<1>1. \A k \in Slots : Free(k) /\ k \in Jobs
  BY DEF Log, Jobs
<1>2. /\ UNCHANGED <<up, index, file, indexFile, job, glued>>
      /\ queue' = Append(queue, e) /\ fate[e] = "new" /\ fate \in [Entries -> Fates]
      /\ fate' = [fate EXCEPT ![e] = "queued"] /\ queue \in Seq(Entries)
  BY DEF Log, disk, Frame, TypeOK
<1>3. /\ Len(queue') = Len(queue) + 1 /\ queue'[Len(queue) + 1] = e
      /\ \A i \in 1..Len(queue) : queue'[i] = queue[i] /\ queue[i] \in Entries
      /\ Len(queue) \in Nat
  BY <1>2
<1>4. \A x \in Entries : fate'[x] = IF x = e THEN "queued" ELSE fate[x]
  BY <1>2
<1>5. Waiting'
  <2>1. Waiting
    BY DEF Calm
  <2>2. ASSUME NEW i \in 1..Len(queue')
        PROVE  \/ i \in 1..Len(queue) /\ queue'[i] = queue[i] /\ queue[i] # e
               \/ i = Len(queue) + 1 /\ queue'[i] = e
    BY <1>2, <1>3, <2>1 DEF Waiting
  <2> QED
    BY <1>3, <1>4, <2>1, <2>2 DEF Waiting
<1>6. Sound(Appender)'
  <2>1. Sound(Appender) /\ Shape(Appender)
    BY DEF Calm, Frame, Shapes, Jobs
  <2>2. CASE Free(Appender)
    BY <1>2, <2>2, FreeSound DEF Jobs, Free
  <2>3. CASE ~Free(Appender)
    <3>1. job[Appender].op = "append" /\ job[Appender].entry \in Entries
      BY <2>1, <2>3, ConstantsAssumption DEF Shape, Free, Loading, Saving, Frame, TypeOK, Jobs, JobState, Phases
    <3>2. /\ job[Appender].linked
          /\ job[Appender].phase \in Saving => job[Appender].snap = index
          /\ At(Appender, "saving") => indexFile = NoIndex
          /\ AppendSound(Appender)
      BY <2>1, <3>1 DEF Sound
    <3>3. AppendSound(Appender)'
      BY <1>2, <1>3, <1>4, <3>1, <3>2 DEF AppendSound, At
    <3> QED
      BY <1>2, <3>1, <3>2, <3>3 DEF Sound, At
  <2> QED
    BY <2>2, <2>3
<1>7. \A k \in Slots : Free(k)'
  BY <1>1, <1>2 DEF Free
<1>8. Synced
  BY <1>1, CalmFacts
<1>9. Synced'
  BY <1>2, <1>4, <1>8 DEF Synced, Lacks, Holds, Fits
<1> QED
  BY <1>5, <1>6, <1>7, <1>9, CalmAppending

\* The append takes the first of the queue.
LEMMA BeginCalm ==
    ASSUME Frame, Calm, BeginAppend PROVE Calm'
<1>1. /\ UNCHANGED <<up, index, file, indexFile, fate, glued>>
      /\ Free(Appender) /\ queue # <<>> /\ queue' = Tail(queue) /\ queue \in Seq(Entries)
  BY DEF BeginAppend, disk, Frame, TypeOK
<1>2. PICK e \in Entries : e = Head(queue)
  BY <1>1
<1>3. /\ \A k \in Jobs : k # Appender => job'[k] = job[k]
      /\ job'[Appender].op = "append" /\ job'[Appender].entry = e
      /\ job'[Appender].phase = "line" /\ job'[Appender].linked
  <2>1. Starts(Appender, "append", e, "line")
    BY <1>2 DEF BeginAppend, Starts
  <2>2. "append" \in Ops /\ "line" \in Phases /\ Appender \in Jobs
    BY DEF Ops, Phases, Jobs
  <2> QED
    BY <2>1, <2>2, StartJob DEF Frame
<1>4. \A k \in Slots : Free(k) /\ k \in Jobs /\ k # Appender
  BY <1>1, ConstantsAssumption DEF Calm, Alone, Jobs
<1>5. /\ Len(queue') = Len(queue) - 1 /\ Len(queue) \in Nat /\ Len(queue) > 0
      /\ queue[1] = e
      /\ \A i \in 1..Len(queue') : queue'[i] = queue[i + 1] /\ i + 1 \in 1..Len(queue)
  BY <1>1, <1>2
<1>6. Waiting /\ 1 \in 1..Len(queue)
  BY <1>5 DEF Calm
<1>7. Waiting'
  BY <1>1, <1>5, <1>6 DEF Waiting
<1>8. Sound(Appender)'
  <2>1. fate[e] = "queued" /\ \A i \in 1..Len(queue') : queue'[i] # e
    BY <1>5, <1>6 DEF Waiting
  <2> QED
    BY <1>1, <1>3, <2>1 DEF Sound, AppendSound, At, Saving
<1>9. \A k \in Slots : Free(k)'
  BY <1>3, <1>4 DEF Free
<1>10. Synced
  BY <1>4, CalmFacts
<1>11. Synced'
  BY <1>1, <1>10 DEF Synced, Lacks, Holds, Fits
<1> QED
  BY <1>7, <1>8, <1>9, <1>11, CalmAppending
\* The facts about the append under way, whose entry is in neither the queue nor
\* another job.
LEMMA AppendFacts ==
    ASSUME Frame, Calm, job[Appender].phase # "idle"
    PROVE  /\ job[Appender].op = "append" /\ job[Appender].entry \in Entries
           /\ Appender \in Jobs
           /\ job[Appender].linked
           /\ job[Appender].phase \in Saving => job[Appender].snap = index
           /\ At(Appender, "saving") => indexFile = NoIndex
           /\ AppendSound(Appender)
           /\ \A k \in Slots : Free(k) /\ k \in Jobs /\ k # Appender
           /\ Waiting /\ Synced
           /\ up
<1>1. Sound(Appender) /\ Shape(Appender) /\ Appender \in Jobs
  BY DEF Calm, Frame, Shapes, Jobs
<1>2. job[Appender].phase \in Phases
  BY <1>1 DEF Frame, TypeOK, JobState
<1>3. job[Appender].op = "append" /\ job[Appender].entry \in Entries
  BY <1>1, <1>2 DEF Shape, Loading, Saving, Phases
<1>4. \A k \in Slots : Free(k) /\ k \in Jobs /\ k # Appender
  BY <1>1, Company, ConstantsAssumption DEF Calm, Jobs
<1> QED
  BY <1>1, <1>3, <1>4, CalmFacts, BusyMeansUp DEF Sound, Calm

\* Lines that run on in a torn one, or are added at the end, disturb no other.
LEMMA Added ==
    ASSUME Frame, Synced, NEW e \in Entries, fate[e] = "queued",
           UNCHANGED <<up, index, indexFile>>,
           fate' = [fate EXCEPT ![e] = "tried"],
           \/ file' \in {file, [file EXCEPT ![e] = "plain"]} /\ glued' = glued
           \/ RunsOn(e)
    PROVE  Synced'
<1>1. \A x \in Entries : fate'[x] = IF x = e THEN "tried" ELSE fate[x]
  BY DEF Frame, TypeOK
<1>2. /\ glued \subseteq glued'
      /\ \A x \in Entries : /\ x # e /\ x \notin glued' => file'[x] = file[x]
                            /\ x # e => file'[x] \in {file[x], "none"}
  BY DEF Frame, TypeOK, Content, RunsOn
<1>3. file[e] = "none" /\ index[e] = "none" /\ (indexFile # NoIndex => indexFile[e] = "none")
  BY DEF Synced, Lacks
<1>4. Lacks(file)'
  BY <1>1, <1>2 DEF Synced, Lacks
<1>5. Holds(file)' /\ Fits(index, file)' /\ (indexFile' # NoIndex => Fits(indexFile, file)')
  BY <1>1, <1>2, <1>3 DEF Synced, Holds, Fits
<1>6. /\ Lacks(index)' /\ (up' => Holds(index)')
      /\ indexFile' # NoIndex => Lacks(indexFile)' /\ Holds(indexFile)'
  BY <1>1, <1>2 DEF Synced, Lacks, Holds
<1> QED
  BY <1>4, <1>5, <1>6 DEF Synced

\* The line is written: the entry is tried now, and on disk or run together with a
\* torn line.
LEMMA AppendLineCalm ==
    ASSUME Frame, Calm, AppendLine PROVE Calm'
<1> DEFINE e == job[Appender].entry
<1>1. At(Appender, "line") /\ job[Appender].phase = "line"
  BY DEF AppendLine, At
<1>2. /\ job[Appender].op = "append" /\ e \in Entries /\ Appender \in Jobs
      /\ fate[e] = "queued" /\ (\A i \in 1..Len(queue) : queue[i] # e)
      /\ job[Appender].linked
      /\ \A k \in Slots : Free(k) /\ k \in Jobs /\ k # Appender
      /\ Waiting /\ Synced
  BY <1>1, AppendFacts DEF AppendSound
<1>3. /\ UNCHANGED <<up, index, indexFile, queue>>
      /\ fate' = [fate EXCEPT ![e] = "tried"]
      /\ \A x \in Entries : fate'[x] = IF x = e THEN "tried" ELSE fate[x]
      /\ \/ file' = [file EXCEPT ![e] = "plain"] /\ glued' = glued
         \/ RunsOn(e)
  BY <1>2 DEF AppendLine, Tried, Frame, TypeOK
<1>4. /\ \A k \in Jobs : k # Appender => job'[k] = job[k]
      /\ job'[Appender].op = "append" /\ job'[Appender].entry = e
      /\ job'[Appender].phase = "list" /\ job'[Appender].linked
  BY <1>2, GotoJob DEF AppendLine, Frame, Phases
<1> HIDE DEF e
<1>5. Waiting'
  BY <1>2, <1>3 DEF Waiting, Frame, TypeOK
<1>6. Sound(Appender)'
  <2>1. file'[e] = "plain" \/ e \in glued'
    BY <1>2, <1>3 DEF RunsOn, Frame, TypeOK, Content
  <2> QED
    BY <1>2, <1>3, <1>4, <2>1 DEF Sound, AppendSound, At, Saving
<1>7. Synced'
  BY <1>2, <1>3, Added
<1>8. \A k \in Slots : Free(k)'
  BY <1>2, <1>4 DEF Free
<1> QED
  BY <1>5, <1>6, <1>7, <1>8, CalmAppending

\* A part of it is written before the append is refused.
LEMMA AppendPartCalm ==
    ASSUME Frame, Calm, AppendPart PROVE Calm'
<1> DEFINE e == job[Appender].entry
<1>1. At(Appender, "line") /\ job[Appender].phase = "line"
  BY DEF AppendPart, At
<1>2. /\ e \in Entries /\ Appender \in Jobs
      /\ fate[e] = "queued" /\ (\A i \in 1..Len(queue) : queue[i] # e)
      /\ \A k \in Slots : Free(k) /\ k \in Jobs /\ k # Appender
      /\ Waiting /\ Synced
  BY <1>1, AppendFacts DEF AppendSound
<1>3. /\ UNCHANGED <<up, index, indexFile, queue>>
      /\ fate' = [fate EXCEPT ![e] = "tried"]
      /\ \A x \in Entries : fate'[x] = IF x = e THEN "tried" ELSE fate[x]
      /\ \/ file' \in {file, [file EXCEPT ![e] = "plain"]} /\ glued' = glued
         \/ RunsOn(e)
  BY <1>2 DEF AppendPart, Tried, Frame, TypeOK
<1>4. job'[Appender] = Idle /\ \A k \in Jobs : k # Appender => job'[k] = job[k]
  BY <1>2, IdleJob DEF AppendPart, Ends, Frame
<1> HIDE DEF e
<1>5. Waiting'
  BY <1>2, <1>3 DEF Waiting, Frame, TypeOK
<1>6. Sound(Appender)' /\ \A k \in Slots : Free(k)'
  BY <1>2, <1>4, FreeSound DEF Free
<1>7. Synced'
  BY <1>2, <1>3, Added
<1> QED
  BY <1>5, <1>6, <1>7, CalmAppending

\* The entry is listed and the index is about to be saved.
LEMMA ListEntryCalm ==
    ASSUME Frame, Calm, ListEntry PROVE Calm'
<1> DEFINE e == job[Appender].entry
<1>1. At(Appender, "list") /\ job[Appender].phase = "list"
  BY DEF ListEntry, At
<1>2. /\ job[Appender].op = "append" /\ e \in Entries /\ Appender \in Jobs
      /\ fate[e] = "tried" /\ (file[e] = "plain" \/ e \in glued)
      /\ \A k \in Slots : Free(k) /\ k \in Jobs /\ k # Appender
      /\ Waiting /\ Synced
  BY <1>1, AppendFacts DEF AppendSound
<1>3. /\ UNCHANGED <<up, file, indexFile, queue, fate, glued>>
      /\ index' \in Content /\ CallSave(Appender, index')
      /\ \A x \in Entries : index'[x] = IF x = e THEN "plain" ELSE index[x]
  BY <1>2 DEF ListEntry, Frame, TypeOK, Content, disk
<1>4. /\ \A k \in Jobs : k # Appender => job'[k] = job[k]
      /\ job'[Appender].op = "append" /\ job'[Appender].entry = e
      /\ job'[Appender].phase = "save" /\ job'[Appender].linked
      /\ job'[Appender].snap = index'
  BY <1>2, <1>3, SaveJob DEF Frame
<1> HIDE DEF e
<1>5. Waiting'
  BY <1>2, <1>3 DEF Waiting
<1>6. Sound(Appender)'
  BY <1>2, <1>3, <1>4 DEF Sound, AppendSound, At, Saving
<1>7. Synced'
  BY <1>2, <1>3 DEF Synced, Lacks, Holds, Fits
<1>8. \A k \in Slots : Free(k)'
  BY <1>2, <1>4 DEF Free
<1> QED
  BY <1>5, <1>6, <1>7, <1>8, CalmAppending

\* The append saves the index and is acknowledged.
LEMMA AppendSaveCalm ==
    ASSUME Frame, Calm, SaveOpens(Appender) \/ SaveWrites(Appender) PROVE Calm'
<1> DEFINE e == job[Appender].entry
<1>1. job[Appender].phase \in Saving /\ job[Appender].phase # "idle"
  BY DEF SaveOpens, SaveWrites, At, Saving
<1>2. /\ job[Appender].op = "append" /\ e \in Entries /\ Appender \in Jobs
      /\ fate[e] = "tried" /\ (file[e] = "plain" \/ e \in glued) /\ index[e] = "plain"
      /\ job[Appender].linked /\ job[Appender].snap = index
      /\ At(Appender, "saving") => indexFile = NoIndex
      /\ \A k \in Slots : Free(k) /\ k \in Jobs /\ k # Appender
      /\ Waiting /\ Synced /\ up
  BY <1>1, AppendFacts DEF AppendSound
<1>3. CASE SaveOpens(Appender)
  <2>1. /\ UNCHANGED <<up, index, file, queue, fate, glued>> /\ indexFile' = NoIndex
        /\ Goto(Appender, "saving") /\ "saving" \in Phases
    BY <1>3 DEF SaveOpens, Phases
  <2>2. /\ \A k \in Jobs : k # Appender => job'[k] = job[k]
        /\ job'[Appender].op = "append" /\ job'[Appender].entry = e
        /\ job'[Appender].phase = "saving" /\ job'[Appender].linked
        /\ job'[Appender].snap = index'
    BY <1>2, <2>1, GotoJob DEF Frame
  <2> HIDE DEF e
  <2>3. Waiting' /\ Synced'
    BY <1>2, <2>1, ConstantsAssumption DEF Waiting, Synced, Lacks, Holds, Fits
  <2>4. Sound(Appender)' /\ \A k \in Slots : Free(k)'
    BY <1>2, <2>1, <2>2 DEF Sound, AppendSound, At, Saving, Free
  <2> QED
    BY <2>3, <2>4, CalmAppending
<1>4. CASE SaveWrites(Appender)
  <2>1. /\ UNCHANGED <<up, index, file, queue, glued>> /\ indexFile' = index
        /\ Ends(Appender) /\ fate' = Settled(Appender)
    BY <1>2, <1>4 DEF SaveWrites, Return, Ends
  <2>2. \A x \in Entries : fate'[x] = IF x = e THEN "kept" ELSE fate[x]
    BY <1>2, <2>1 DEF Settled
  <2>3. job'[Appender] = Idle /\ \A k \in Jobs : k # Appender => job'[k] = job[k]
    BY <1>2, <2>1, IdleJob DEF Frame
  <2>4. Sound(Appender)' /\ \A k \in Slots : Free(k)'
    BY <1>2, <2>3, FreeSound DEF Free
  <2>5. index' \in Content
    BY <2>1 DEF Frame, TypeOK
  <2> HIDE DEF e
  <2>6. Waiting'
    BY <1>2, <2>1, <2>2 DEF Waiting, Frame, TypeOK
  <2>7. Synced'
    BY <1>2, <2>1, <2>2, <2>5, ConstantsAssumption DEF Synced, Lacks, Holds, Fits
  <2> QED
    BY <2>4, <2>6, <2>7, CalmAppending
<1> QED
  BY <1>3, <1>4
\* An append that fails leaves its line out, or its entry unsaved, and the queue on.
LEMMA FailCalm ==
    ASSUME Frame, Calm, NEW j \in Jobs, Fails(j), ~disturbed' PROVE Calm'
<1>1. j = Appender /\ Ends(Appender) /\ queue' = queue
  BY DEF Fails, LeavesQueue, Ends
<1>2. job[Appender].phase # "idle"
  BY <1>1 DEF Fails, At
<1> DEFINE e == job[Appender].entry
<1>3. /\ Appender \in Jobs /\ e \in Entries
      /\ At(Appender, "line") => \A i \in 1..Len(queue) : queue[i] # e
      /\ \A k \in Slots : Free(k) /\ k \in Jobs /\ k # Appender
      /\ Waiting /\ Synced
  BY <1>2, AppendFacts DEF AppendSound
<1>4. /\ UNCHANGED <<up, index, file, indexFile, glued>>
      /\ \/ UNCHANGED fate
         \/ /\ At(Appender, "line")
            /\ \A x \in Entries : fate'[x] = IF x = e /\ fate[x] = "queued" THEN "tried" ELSE fate[x]
  BY <1>1, <1>3 DEF Fails, Tried, Frame, TypeOK, disk
<1>5. job'[Appender] = Idle /\ \A k \in Jobs : k # Appender => job'[k] = job[k]
  BY <1>1, <1>3, IdleJob DEF Frame
<1>6. Sound(Appender)' /\ \A k \in Slots : Free(k)'
  BY <1>3, <1>5, FreeSound DEF Free
<1> HIDE DEF e
<1>7. Waiting'
  BY <1>1, <1>3, <1>4 DEF Waiting, Frame, TypeOK
<1>8. Synced'
  BY <1>3, <1>4 DEF Synced, Lacks, Holds, Fits
<1> QED
  BY <1>6, <1>7, <1>8, CalmAppending

\* A crash between two steps of an append or a load costs memory only.
LEMMA CrashCalm ==
    ASSUME Frame, Calm, Crash, ~disturbed' PROVE Calm'
<1>1. /\ up' = FALSE /\ index' = Nothing /\ queue' = <<>>
      /\ UNCHANGED <<file, indexFile, glued>>
      /\ \A k \in Jobs : job'[k] = Idle
      /\ \A x \in Entries : fate'[x] = IF fate[x] = "queued" THEN "dropped" ELSE fate[x]
      /\ \A k \in Slots : job[k].op \notin Edits /\ k \in Jobs
  BY DEF Crash, disk, Edits, Jobs
<1>2. OnDisk /\ Agree
  BY DEF Calm
<1>3. ~Rewriting
  BY <1>1 DEF Rewriting, At, Frame, Shapes, Shape, Edits
<1>4. Waiting'
  BY <1>1 DEF Waiting
<1>5. Synced'
  BY <1>1, <1>2, <1>3 DEF Synced, OnDisk, Agree, Lacks, Holds, Fits, Nothing
<1>6. Appender \in Jobs /\ Sound(Appender)' /\ \A k \in Slots : Free(k)'
  BY <1>1, FreeSound DEF Free, Jobs
<1> QED
  BY <1>4, <1>5, <1>6, CalmAppending

\* A call that begins undisturbed finds memory, file and index file in step.
LEMMA CallFacts ==
    ASSUME Frame, Calm, NEW j \in Slots, Joins(j), ~disturbed'
    PROVE  /\ Synced /\ up /\ queue = <<>> /\ j \in Jobs
           /\ \A k \in Jobs : Free(k)
           /\ UNCHANGED <<up, file, indexFile, queue, glued>>
<1>1. \A k \in Jobs : Free(k)
  BY DEF Joins, Quiet
<1>2. Synced
  BY <1>1, CalmFacts DEF Jobs
<1> QED
  BY <1>1, <1>2 DEF Joins, Quiet, Jobs, disk

\* A deletion begins.
LEMMA DeleteCalm ==
    ASSUME Frame, Calm, NEW j \in Slots, NEW e \in Entries, Delete(j, e), ~disturbed'
    PROVE  Calm'
<1>1. /\ Synced /\ up /\ queue = <<>> /\ j \in Jobs
      /\ \A k \in Jobs : Free(k)
      /\ UNCHANGED <<up, file, indexFile, queue, glued>>
  BY CallFacts DEF Delete
<1>2. /\ \A k \in Jobs : k # j => job'[k] = job[k]
      /\ job'[j].op = "delete" /\ job'[j].entry = e /\ job'[j].phase = "read"
      /\ job'[j].linked
  <2>1. Starts(j, "delete", e, "read") /\ "delete" \in Ops /\ "read" \in Phases
    BY DEF Delete, Starts, Ops, Phases
  <2> QED
    BY <1>1, <2>1, StartJob DEF Frame
<1>3. /\ \A x \in Entries : index'[x] = IF x = e THEN "none" ELSE index[x]
      /\ \A x \in Entries : fate'[x] = IF x = e THEN "asked" ELSE fate[x]
  BY DEF Delete, Frame, TypeOK, Content
<1>4. Sound(j)'
  BY <1>1, <1>2, <1>3 DEF Sound, EditSound, At, Saving, FitsBut, Synced, Fits
<1>5. /\ Lacks(file)' /\ Holds(file)' /\ Lacks(index)' /\ Holds(index)'
      /\ indexFile' # Mixed
      /\ indexFile' # NoIndex => Lacks(indexFile)' /\ Holds(indexFile)'
  BY <1>1, <1>3 DEF Synced, Lacks, Holds
<1>6. \A k \in Jobs : k # j => Free(k)'
  BY <1>1, <1>2 DEF Free
<1> QED
  BY <1>1, <1>2, <1>4, <1>5, <1>6, CalmWithOne DEF Edits

\* A filing begins.
LEMMA FileCalm ==
    ASSUME Frame, Calm, NEW j \in Slots, NEW e \in Entries, File(j, e), ~disturbed'
    PROVE  Calm'
<1>1. /\ Synced /\ up /\ queue = <<>> /\ j \in Jobs
      /\ \A k \in Jobs : Free(k)
      /\ UNCHANGED <<up, file, indexFile, queue, fate, glued>>
  BY CallFacts DEF File
<1>2. /\ \A k \in Jobs : k # j => job'[k] = job[k]
      /\ job'[j].op = "file" /\ job'[j].entry = e /\ job'[j].phase = "read"
      /\ job'[j].linked
  <2>1. Starts(j, "file", e, "read") /\ "file" \in Ops /\ "read" \in Phases
    BY DEF File, Starts, Ops, Phases
  <2> QED
    BY <1>1, <2>1, StartJob DEF Frame
<1>3. /\ \A x \in Entries : index'[x] = IF x = e THEN "filed" ELSE index[x]
      /\ index[e] # "none"
  BY DEF File, Frame, TypeOK, Content, Ids
<1>4. Sound(j)'
  BY <1>1, <1>2, <1>3 DEF Sound, EditSound, At, Saving, FitsBut, Synced, Fits
<1>5. /\ Lacks(file)' /\ Holds(file)' /\ Lacks(index)' /\ Holds(index)'
      /\ indexFile' # Mixed
      /\ indexFile' # NoIndex => Lacks(indexFile)' /\ Holds(indexFile)'
  BY <1>1, <1>3 DEF Synced, Lacks, Holds
<1>6. \A k \in Jobs : k # j => Free(k)'
  BY <1>1, <1>2 DEF Free
<1> QED
  BY <1>1, <1>2, <1>4, <1>5, <1>6, CalmWithOne DEF Edits

\* A clear begins, with the index emptied at once.
LEMMA ClearCalm ==
    ASSUME Frame, Calm, NEW j \in Slots, Clear(j), ~disturbed' PROVE Calm'
<1>1. /\ Synced /\ up /\ queue = <<>> /\ j \in Jobs
      /\ \A k \in Jobs : Free(k)
      /\ UNCHANGED <<up, file, indexFile, queue, glued>>
  BY CallFacts DEF Clear
<1>2. /\ \A k \in Jobs : k # j => job'[k] = job[k]
      /\ job'[j].op = "clear" /\ job'[j].phase = "unlinkHistory" /\ job'[j].linked
  <2>1. Starts(j, "clear", NoEntry, "unlinkHistory")
    BY DEF Clear, Starts
  <2>2. "clear" \in Ops /\ "unlinkHistory" \in Phases /\ NoEntry \in Entries \cup {NoEntry}
    BY DEF Ops, Phases
  <2> QED
    BY <1>1, <2>1, <2>2, StartJob DEF Frame
<1>3. /\ index' = Nothing
      /\ \A x \in Entries : fate'[x] = IF fate[x] \in {"tried", "kept"} THEN "asked" ELSE fate[x]
  BY DEF Clear
<1>4. Sound(j)'
  BY <1>1, <1>2, <1>3 DEF Sound, ClearSound, At, Saving
<1>5. /\ Lacks(file)' /\ Holds(file)' /\ Lacks(index)' /\ Holds(index)'
      /\ indexFile' # Mixed
      /\ indexFile' # NoIndex => Lacks(indexFile)' /\ Holds(indexFile)'
  BY <1>1, <1>3 DEF Synced, Lacks, Holds, Nothing
<1>6. \A k \in Jobs : k # j => Free(k)'
  BY <1>1, <1>2 DEF Free
<1> QED
  BY <1>1, <1>2, <1>4, <1>5, <1>6, CalmWithOne DEF Edits

\* A load begins, at the start of the host or later.
LEMMA BeginLoadCalm ==
    ASSUME Frame, Calm, NEW j \in Slots, Reload(j) \/ Launch(j), ~disturbed' PROVE Calm'
<1>1. /\ Synced /\ queue = <<>> /\ j \in Jobs
      /\ \A k \in Jobs : Free(k)
      /\ UNCHANGED <<file, indexFile, queue, index, fate, glued>>
  <2>1. CASE Reload(j)
    BY <2>1, CallFacts DEF Reload
  <2>2. CASE Launch(j)
    <3>1. queue = <<>> /\ \A k \in Jobs : Free(k)
      BY <2>2 DEF Launch, Frame, Down
    <3> QED
      BY <2>2, <3>1, CalmFacts DEF Launch, Jobs, disk
  <2> QED
    BY <2>1, <2>2
<1>2. /\ \A k \in Jobs : k # j => job'[k] = job[k]
      /\ job'[j].op = "load" /\ job'[j].phase = "readIndex" /\ job'[j].linked
  <2>1. Starts(j, "load", NoEntry, "readIndex")
    BY DEF Reload, Launch, Starts
  <2>2. "load" \in Ops /\ "readIndex" \in Phases /\ NoEntry \in Entries \cup {NoEntry}
    BY DEF Ops, Phases
  <2> QED
    BY <1>1, <2>1, <2>2, StartJob DEF Frame
<1>3. Sound(j)'
  BY <1>1, <1>2 DEF Sound, LoadSound, At, Saving
<1>4. /\ Lacks(file)' /\ Holds(file)' /\ Lacks(index)' /\ Fits(index, file)'
      /\ indexFile' # Mixed
      /\ indexFile' # NoIndex => Lacks(indexFile)' /\ Holds(indexFile)' /\ Fits(indexFile, file)'
  BY <1>1 DEF Synced, Lacks, Holds, Fits
<1>5. \A k \in Jobs : k # j => Free(k)'
  BY <1>1, <1>2 DEF Free
<1>6. job'[j].phase \in Loading
  BY <1>2 DEF Loading
<1> QED
  BY <1>1, <1>2, <1>3, <1>4, <1>5, <1>6, CalmWithOne
\* The facts about a call under way, which is alone.
LEMMA SlotFacts ==
    ASSUME Frame, Calm, NEW j \in Slots, job[j].phase # "idle"
    PROVE  /\ queue = <<>> /\ up /\ j \in Jobs
           /\ \A k \in Jobs : k # j => Free(k)
           /\ Sound(j) /\ Shape(j)
           /\ indexFile # Mixed
           /\ indexFile # NoIndex => Lacks(indexFile) /\ Holds(indexFile)
           /\ Lacks(file) /\ Lacks(index)
           /\ job[j].phase # "rewriting" => Holds(file)
           /\ job[j].phase \notin Loading => Holds(index)
           /\ job[j].op \notin Edits =>
                 Fits(index, file) /\ (indexFile # NoIndex => Fits(indexFile, file))
<1>1. j \in Jobs /\ \A k \in Slots : k \in Jobs
  BY DEF Jobs
<1>2. ~Free(j) /\ up
  BY <1>1, FreeSound, BusyMeansUp
<1>3. queue = <<>> /\ \A k \in Jobs : k # j => Free(k)
  BY <1>2 DEF Calm, Alone
<1>4. \A k \in Slots : k # j => job[k].phase = "idle" /\ job[k].op = "none"
  BY <1>1, <1>3, FreeSound
<1>5. /\ Rewriting => job[j].phase = "rewriting"
      /\ job[j].phase \notin Loading => \A k \in Slots : job[k].phase \notin Loading
      /\ job[j].op \notin Edits => \A k \in Slots : job[k].op \notin Edits
  BY <1>4 DEF Rewriting, At, Loading, Edits
<1> QED
  BY <1>1, <1>2, <1>3, <1>5 DEF Calm, OnDisk, InMemory, Agree, Frame, Shapes

\* A deletion or filing reads all lines.
LEMMA ReadAllCalm ==
    ASSUME Frame, Calm, NEW j \in Slots, ReadAll(j) PROVE Calm'
<1> DEFINE x == job[j].entry
           c == Rewritten(j)
<1>1. job[j].phase = "read"
  BY DEF ReadAll, At
<1>2. /\ queue = <<>> /\ up /\ j \in Jobs
      /\ \A k \in Jobs : k # j => Free(k)
      /\ Sound(j) /\ Shape(j)
      /\ indexFile # Mixed
      /\ indexFile # NoIndex => Lacks(indexFile) /\ Holds(indexFile)
      /\ Lacks(file) /\ Lacks(index) /\ Holds(file) /\ Holds(index)
  BY <1>1, SlotFacts DEF Loading
<1>3. /\ job[j].op \in {"delete", "file"} /\ x \in Entries /\ job[j].linked
      /\ EditSound(j)
  BY <1>1, <1>2 DEF Sound, Shape
<1>4. /\ job[j].op = "delete" => index[x] = "none" /\ fate[x] = "asked"
      /\ job[j].op # "delete" => index[x] = "filed" /\ (file[x] # "none" \/ x \in glued)
      /\ FitsBut(index, file, x)
  BY <1>1, <1>3 DEF EditSound, At
<1>a. CASE job[j].op = "file" /\ file[x] = "none"
  <2>1. /\ UNCHANGED <<up, index, file, indexFile, queue, fate, glued>> /\ index \in Content
        /\ CallSave(j, index)
    BY <1>a DEF ReadAll, disk, Frame, TypeOK
  <2>2. job[j].op = "file" /\ x \in glued
    BY <1>4, <1>a
  <2>3. /\ \A k \in Jobs : k # j => job'[k] = job[k]
        /\ job'[j].op = "file" /\ job'[j].entry = x
        /\ job'[j].phase = "save" /\ job'[j].snap = index /\ job'[j].linked
    BY <1>2, <2>1, <2>2, SaveJob DEF Frame
  <2> HIDE DEF x, c
  <2>4. /\ Lacks(file)' /\ Holds(file)' /\ Lacks(index)' /\ Holds(index)' /\ Fits(index, file)'
        /\ indexFile' # NoIndex => Lacks(indexFile)' /\ Holds(indexFile)'
    BY <1>2, <1>4, <2>1, <2>2 DEF Lacks, Holds, Fits, FitsBut
  <2>5. Sound(j)'
    BY <1>4, <2>1, <2>2, <2>3, <2>4 DEF Sound, EditSound, At, Saving
  <2>6. job'[j].op \in Edits /\ \A k \in Jobs : k # j => Free(k)'
    BY <1>2, <2>3 DEF Edits, Free
  <2> QED
    BY <1>2, <2>1, <2>4, <2>5, <2>6, CalmWithOne
<1> SUFFICES ASSUME ~(job[j].op = "file" /\ file[x] = "none") PROVE Calm'
  BY <1>a
<1>5. GoesOnWith(j, c, "rewrite") /\ UNCHANGED <<up, index, file, indexFile, queue, fate, glued>>
  BY <1>3, <1>4 DEF ReadAll, GoesOnWith, disk
<1>6. /\ \A k \in Jobs : k # j => job'[k] = job[k]
      /\ job'[j].op = job[j].op /\ job'[j].entry = x /\ job'[j].phase = "rewrite"
      /\ job'[j].snap = c /\ job'[j].linked
  <2>1. PICK d \in Content : d = c
    BY <1>2, RewrittenContent DEF Frame
  <2>2. GoesOnWith(j, d, "rewrite") /\ "rewrite" \in Phases
    BY <1>5, <2>1 DEF Phases
  <2> QED
    BY <1>2, <1>3, <2>1, <2>2, SnapJob DEF Frame
<1>7. \A e \in Entries :
         c[e] = IF e # x THEN file[e]
                ELSE IF job[j].op = "delete" \/ file[x] = "none" THEN "none" ELSE "filed"
  BY <1>3, <1>4 DEF Rewritten, Frame, TypeOK, Content
<1> HIDE DEF x, c
<1>8. /\ Lacks(c) /\ Holds(c) /\ Fits(index, c) /\ (job[j].op = "delete" => c[x] = "none")
  <2>1. Lacks(c)
    <3>1. job[j].op # "delete" => fate[x] \notin {"new", "queued", "gone"}
      BY <1>2, <1>3, <1>4 DEF Lacks
    <3> QED
      BY <1>2, <1>7, <3>1 DEF Lacks
  <2>2. Holds(c)
    BY <1>2, <1>3, <1>4, <1>7 DEF Holds
  <2>3. Fits(index, c)
    BY <1>3, <1>4, <1>7 DEF Fits, FitsBut
  <2> QED
    BY <1>3, <1>7, <2>1, <2>2, <2>3
<1>9. Sound(j)'
  <2>1. /\ Lacks(job[j].snap)' /\ Holds(job[j].snap)' /\ Fits(index, job[j].snap)'
        /\ job'[j].op = "delete" => job'[j].snap[x] = "none"
    BY <1>5, <1>6, <1>8 DEF Lacks, Holds, Fits
  <2> QED
    BY <1>3, <1>4, <1>5, <1>6, <2>1 DEF Sound, EditSound, At, Saving
<1>10. /\ Lacks(file)' /\ Holds(file)' /\ Lacks(index)' /\ Holds(index)'
       /\ indexFile' # NoIndex => Lacks(indexFile)' /\ Holds(indexFile)'
  BY <1>2, <1>5 DEF Lacks, Holds
<1>11. job'[j].op \in Edits /\ \A k \in Jobs : k # j => Free(k)'
  BY <1>2, <1>3, <1>6 DEF Edits, Free
<1> QED
  BY <1>2, <1>5, <1>9, <1>10, <1>11, CalmWithOne

\* It empties the file.
LEMMA CutFileCalm ==
    ASSUME Frame, Calm, NEW j \in Slots, CutFile(j) PROVE Calm'
<1>1. job[j].phase = "rewrite"
  BY DEF CutFile, At
<1>2. /\ queue = <<>> /\ up /\ j \in Jobs
      /\ \A k \in Jobs : k # j => Free(k)
      /\ Sound(j) /\ Shape(j)
      /\ indexFile # Mixed
      /\ indexFile # NoIndex => Lacks(indexFile) /\ Holds(indexFile)
      /\ Lacks(index) /\ Holds(index)
  BY <1>1, SlotFacts DEF Loading
<1>3. job[j].op \in {"delete", "file"} /\ job[j].linked /\ EditSound(j)
  BY <1>1, <1>2 DEF Sound, Shape
<1>4. /\ UNCHANGED <<up, index, indexFile, queue, fate, glued>> /\ file' = Nothing
      /\ Goto(j, "rewriting") /\ "rewriting" \in Phases
  BY DEF CutFile, Phases
<1>5. /\ \A k \in Jobs : k # j => job'[k] = job[k]
      /\ job'[j].op = job[j].op /\ job'[j].entry = job[j].entry
      /\ job'[j].phase = "rewriting" /\ job'[j].snap = job[j].snap /\ job'[j].linked
  BY <1>2, <1>3, <1>4, GotoJob DEF Frame
<1>6. Sound(j)'
  <2>1. /\ Lacks(job[j].snap)' /\ Holds(job[j].snap)' /\ Fits(index, job[j].snap)'
        /\ job[j].op = "delete" => job[j].snap[job[j].entry] = "none"
    BY <1>1, <1>3, <1>4, <1>5 DEF EditSound, Lacks, Holds, Fits
  <2>2. /\ job[j].op = "delete" => index[job[j].entry] = "none" /\ fate[job[j].entry] = "asked"
        /\ job[j].op # "delete" => index[job[j].entry] = "filed"
    BY <1>3 DEF EditSound
  <2> QED
    BY <1>3, <1>4, <1>5, <2>1, <2>2 DEF Sound, EditSound, At, Saving
<1>7. /\ Lacks(file)' /\ Lacks(index)' /\ Holds(index)'
      /\ indexFile' # NoIndex => Lacks(indexFile)' /\ Holds(indexFile)'
  BY <1>2, <1>4 DEF Lacks, Holds, Nothing
<1>8. job'[j].op \in Edits /\ \A k \in Jobs : k # j => Free(k)'
  BY <1>2, <1>3, <1>5 DEF Edits, Free
<1> QED
  BY <1>2, <1>4, <1>5, <1>6, <1>7, <1>8, CalmWithOne

\* It writes the lines back and calls the save of the index.
LEMMA RewriteCalm ==
    ASSUME Frame, Calm, NEW j \in Slots, RewriteFile(j) PROVE Calm'
<1> DEFINE c == job[j].snap
           x == job[j].entry
<1>1. job[j].phase = "rewriting"
  BY DEF RewriteFile, At
<1>2. /\ queue = <<>> /\ up /\ j \in Jobs
      /\ \A k \in Jobs : k # j => Free(k)
      /\ Sound(j) /\ Shape(j)
      /\ indexFile # Mixed
      /\ indexFile # NoIndex => Lacks(indexFile) /\ Holds(indexFile)
      /\ Lacks(index) /\ Holds(index)
  BY <1>1, SlotFacts DEF Loading
<1>3. /\ job[j].op \in {"delete", "file"} /\ job[j].linked /\ EditSound(j)
  BY <1>1, <1>2 DEF Sound, Shape
<1>4. /\ file = Nothing /\ Lacks(c) /\ Holds(c) /\ Fits(index, c) /\ c \in Content
      /\ job[j].op = "delete" => c[x] = "none" /\ index[x] = "none" /\ fate[x] = "asked"
      /\ job[j].op # "delete" => index[x] = "filed"
  BY <1>1, <1>2, <1>3 DEF EditSound, At, Frame, TypeOK, JobState
<1>5. file' = c
  <2>1. PICK rest \in Rests(c) :
           file' = [e \in Entries |-> IF c[e] # "none" THEN c[e]
                                      ELSE IF e \in rest THEN file[e] ELSE "none"]
    BY <1>3 DEF RewriteFile
  <2> HIDE DEF c
  <2>2. \A e \in Entries : file'[e] = c[e]
    BY <1>4, <2>1 DEF Nothing
  <2>3. c = [e \in Entries |-> c[e]] /\ file' = [e \in Entries |-> file'[e]]
    BY <1>4, <2>1 DEF Content
  <2> QED
    BY <2>2, <2>3
<1>6. UNCHANGED <<up, index, indexFile, queue, fate, glued>> /\ CallSave(j, index) /\ index \in Content
  BY DEF RewriteFile, Frame, TypeOK
<1>7. /\ \A k \in Jobs : k # j => job'[k] = job[k]
      /\ job'[j].op = job[j].op /\ job'[j].entry = x
      /\ job'[j].phase = "save" /\ job'[j].snap = index /\ job'[j].linked
  BY <1>2, <1>6, SaveJob DEF Frame
<1> HIDE DEF c, x
<1>8. /\ Lacks(file)' /\ Holds(file)' /\ Lacks(index)' /\ Holds(index)' /\ Fits(index, file)'
      /\ indexFile' # NoIndex => Lacks(indexFile)' /\ Holds(indexFile)'
  BY <1>2, <1>4, <1>5, <1>6 DEF Lacks, Holds, Fits
<1>9. Sound(j)'
  BY <1>3, <1>4, <1>5, <1>6, <1>7, <1>8 DEF Sound, EditSound, At, Saving
<1>10. job'[j].op \in Edits /\ \A k \in Jobs : k # j => Free(k)'
  BY <1>2, <1>3, <1>7 DEF Edits, Free
<1> QED
  BY <1>2, <1>6, <1>8, <1>9, <1>10, CalmWithOne
\* The facts about a call that saves the index.
LEMMA SlotSaves ==
    ASSUME Frame, Calm, NEW j \in Slots, job[j].phase \in Saving
    PROVE  /\ job[j].op \in {"delete", "file", "load"}
           /\ job[j].linked /\ job[j].snap = index
           /\ At(j, "saving") => indexFile = NoIndex
           /\ job[j].op = "delete" =>
                 /\ job[j].entry \in Entries
                 /\ index[job[j].entry] = "none" /\ file[job[j].entry] = "none"
           /\ Lacks(file) /\ Lacks(index) /\ Holds(file) /\ Holds(index) /\ Fits(index, file)
<1>1. job[j].phase \notin {"idle", "rewriting"} \cup Loading
  BY DEF Saving, Loading
<1>2. /\ Sound(j) /\ Shape(j) /\ j # Appender /\ j \in Jobs
      /\ Lacks(file) /\ Lacks(index) /\ Holds(file) /\ Holds(index)
      /\ job[j].op \notin Edits => Fits(index, file)
  BY <1>1, SlotFacts, ConstantsAssumption
<1>3. job[j].op \in {"delete", "file", "load"}
  BY <1>2 DEF Shape
<1>4. job[j].op \in {"delete", "file"} => EditSound(j) /\ job[j].entry \in Entries
  BY <1>2 DEF Sound, Shape
<1>5. Fits(index, file)
  BY <1>2, <1>3, <1>4 DEF EditSound, Edits
<1> QED
  BY <1>2, <1>3, <1>4, <1>5 DEF Sound, EditSound

\* The save empties the index file, which leaves the lines.
LEMMA SaveOpensCalm ==
    ASSUME Frame, Calm, NEW j \in Slots, SaveOpens(j) PROVE Calm'
<1>1. job[j].phase = "save" /\ job[j].phase \in Saving
  BY DEF SaveOpens, At, Saving
<1>2. /\ job[j].op \in {"delete", "file", "load"}
      /\ job[j].linked /\ job[j].snap = index
      /\ Lacks(file) /\ Lacks(index) /\ Holds(file) /\ Holds(index) /\ Fits(index, file)
  BY <1>1, SlotSaves
<1>3. /\ queue = <<>> /\ j \in Jobs /\ \A k \in Jobs : k # j => Free(k)
      /\ job[j].op \in {"delete", "file"} => EditSound(j)
  BY <1>1, SlotFacts DEF Sound
<1>4. /\ UNCHANGED <<up, index, file, queue, fate, glued>> /\ indexFile' = NoIndex
      /\ Goto(j, "saving") /\ "saving" \in Phases
  BY DEF SaveOpens, Phases
<1>5. /\ \A k \in Jobs : k # j => job'[k] = job[k]
      /\ job'[j].op = job[j].op /\ job'[j].entry = job[j].entry
      /\ job'[j].phase = "saving" /\ job'[j].snap = job[j].snap /\ job'[j].linked
  BY <1>2, <1>3, <1>4, GotoJob DEF Frame
<1>6. /\ Lacks(file)' /\ Lacks(index)' /\ Holds(file)' /\ Holds(index)' /\ Fits(index, file)'
      /\ indexFile' # Mixed
  BY <1>2, <1>4, ConstantsAssumption DEF Lacks, Holds, Fits
<1>7. Sound(j)'
  <2>1. job[j].op \in {"delete", "file"} => EditSound(j)'
    BY <1>1, <1>3, <1>4, <1>5, <1>6 DEF EditSound, At, Saving
  <2> QED
    BY <1>2, <1>4, <1>5, <2>1 DEF Sound, LoadSound, At, Saving
<1>8. \A k \in Jobs : k # j => Free(k)'
  BY <1>3, <1>5 DEF Free
<1> QED
  BY <1>3, <1>4, <1>6, <1>7, <1>8, CalmWithOne

\* The save is written and the call returns; a deleted entry is gone.
LEMMA SaveWritesCalm ==
    ASSUME Frame, Calm, NEW j \in Slots, SaveWrites(j) PROVE Calm'
<1> DEFINE x == job[j].entry
<1>1. job[j].phase = "saving" /\ job[j].phase \in Saving
  BY DEF SaveWrites, At, Saving
<1>2. /\ job[j].op \in {"delete", "file", "load"}
      /\ job[j].linked /\ job[j].snap = index /\ indexFile = NoIndex
      /\ job[j].op = "delete" => x \in Entries /\ index[x] = "none" /\ file[x] = "none"
      /\ Lacks(file) /\ Lacks(index) /\ Holds(file) /\ Holds(index) /\ Fits(index, file)
  BY <1>1, SlotSaves DEF At
<1>3. queue = <<>> /\ j \in Jobs /\ \A k \in Jobs : k # j => Free(k)
  BY <1>1, SlotFacts
<1>4. /\ UNCHANGED <<up, index, file, queue, glued>> /\ indexFile' = index
      /\ Ends(j) /\ fate' = Settled(j) /\ index \in Content
  BY <1>2 DEF SaveWrites, Return, Ends, Frame, TypeOK
<1>5. \A e \in Entries :
         \/ fate'[e] = fate[e]
         \/ job[j].op = "delete" /\ e = x /\ fate'[e] = "gone"
  BY <1>2, <1>4 DEF Settled
<1>6. \A k \in Jobs : Free(k)'
  BY <1>3, <1>4, IdleJob DEF Frame, Free
<1> HIDE DEF x
<1>7. Waiting'
  BY <1>3, <1>4 DEF Waiting
<1>8. Synced'
  <2>1. Lacks(file)' /\ Lacks(index)' /\ Holds(file)' /\ Holds(index)' /\ Fits(index, file)'
    BY <1>2, <1>4, <1>5 DEF Lacks, Holds, Fits
  <2>2. index' # Mixed /\ indexFile' = index'
    BY <1>4, ConstantsAssumption
  <2> QED
    BY <2>1, <2>2 DEF Synced, Lacks, Holds, Fits
<1>9. Appender \in Jobs /\ \A k \in Slots : k \in Jobs
  BY DEF Jobs
<1> QED
  BY <1>6, <1>7, <1>8, <1>9, FreeSound, CalmAppending

\* A clear takes the name from the file of lines, if it is not refused.
LEMMA UnlinkHistoryCalm ==
    ASSUME Frame, Calm, NEW j \in Slots, UnlinkHistory(j), ~refused' PROVE Calm'
<1>1. job[j].phase = "unlinkHistory"
  BY DEF UnlinkHistory, At
<1>2. /\ queue = <<>> /\ j \in Jobs /\ \A k \in Jobs : k # j => Free(k)
      /\ Sound(j) /\ Shape(j) /\ Lacks(index) /\ indexFile # Mixed
      /\ indexFile # NoIndex => Lacks(indexFile) /\ Holds(indexFile)
  BY <1>1, SlotFacts
<1>3. job[j].op = "clear" /\ job[j].linked /\ ClearSound(j)
  BY <1>1, <1>2 DEF Shape, Sound
<1>4. /\ UNCHANGED <<up, index, indexFile, queue, fate, glued>> /\ file' = Nothing
      /\ job' = [Unlink("rewriting") EXCEPT ![j].phase = "unlinkIndex"]
  BY DEF UnlinkHistory
<1>5. /\ \A k \in Jobs : k # j => job'[k] = job[k]
      /\ job'[j] = [job[j] EXCEPT !.phase = "unlinkIndex"]
  <2>1. "rewriting" \in Phases /\ "rewriting" # "idle" /\ job[j].phase # "rewriting"
    BY <1>1 DEF Phases
  <2>2. \A k \in Jobs : job[k].phase # "rewriting"
    BY <1>2, <2>1, FreeSound
  <2>3. Unlink("rewriting") \in [Jobs -> JobState] /\ \A k \in Jobs : Unlink("rewriting")[k] = job[k]
    BY <2>1, <2>2, UnlinkJobs DEF Frame
  <2> QED
    BY <1>2, <1>4, <2>3
<1>6. job'[j].op = "clear" /\ job'[j].phase = "unlinkIndex" /\ job'[j].linked
  BY <1>2, <1>3, <1>5 DEF Frame, TypeOK, JobState
<1>7. Sound(j)'
  BY <1>3, <1>4, <1>6 DEF Sound, ClearSound, At, Saving
<1>8. /\ Lacks(file)' /\ Holds(file)' /\ Lacks(index)' /\ Holds(index)' /\ indexFile' # Mixed
      /\ indexFile' # NoIndex => Lacks(indexFile)' /\ Holds(indexFile)'
  BY <1>2, <1>3, <1>4 DEF ClearSound, Lacks, Holds, Nothing
<1>9. \A k \in Jobs : k # j => Free(k)'
  BY <1>2, <1>5 DEF Free
<1> QED
  BY <1>2, <1>4, <1>6, <1>7, <1>8, <1>9, CalmWithOne DEF Edits

\* And then from the index file: all that was there is gone.
LEMMA UnlinkIndexCalm ==
    ASSUME Frame, Calm, NEW j \in Slots, UnlinkIndex(j), ~refused' PROVE Calm'
<1>1. job[j].phase = "unlinkIndex"
  BY DEF UnlinkIndex, At
<1>2. /\ queue = <<>> /\ j \in Jobs /\ \A k \in Jobs : k # j => Free(k)
      /\ Sound(j) /\ Shape(j)
  BY <1>1, SlotFacts
<1>3. job[j].op = "clear" /\ ClearSound(j)
  BY <1>1, <1>2 DEF Shape, Sound
<1>4. /\ UNCHANGED <<up, index, file, queue, glued>> /\ indexFile' = NoIndex
      /\ job' = [Unlink("saving") EXCEPT ![j] = Idle] /\ fate' = Settled(j)
  BY DEF UnlinkIndex
<1>5. \A k \in Jobs : Free(k)'
  <2>1. "saving" \in Phases /\ "saving" # "idle" /\ job[j].phase # "saving"
    BY <1>1 DEF Phases
  <2>2. \A k \in Jobs : job[k].phase # "saving"
    BY <1>2, <2>1, FreeSound
  <2>3. Unlink("saving") \in [Jobs -> JobState] /\ \A k \in Jobs : Unlink("saving")[k] = job[k]
    BY <2>1, <2>2, UnlinkJobs DEF Frame
  <2> QED
    BY <1>2, <1>4, <2>3 DEF Free
<1>6. index = Nothing /\ file = Nothing /\ \A e \in Entries : fate'[e] # "kept"
  BY <1>1, <1>3, <1>4 DEF ClearSound, At, Settled
<1>7. Waiting'
  BY <1>2, <1>4 DEF Waiting
<1>8. Synced'
  BY <1>4, <1>6, ConstantsAssumption DEF Synced, Lacks, Holds, Fits, Nothing
<1>9. Appender \in Jobs /\ \A k \in Slots : k \in Jobs
  BY DEF Jobs
<1> QED
  BY <1>5, <1>7, <1>8, <1>9, FreeSound, CalmAppending
\* A load reads the index file, or finds that it has to go by the lines.
LEMMA ReadIndexCalm ==
    ASSUME Frame, Calm, NEW j \in Slots, ReadIndex(j) PROVE Calm'
<1>1. job[j].phase = "readIndex"
  BY DEF ReadIndex, At
<1>2. /\ queue = <<>> /\ j \in Jobs /\ \A k \in Jobs : k # j => Free(k)
      /\ Sound(j) /\ Shape(j) /\ Lacks(file) /\ Holds(file) /\ Lacks(index)
      /\ indexFile # Mixed
      /\ indexFile # NoIndex => Lacks(indexFile) /\ Holds(indexFile)
      /\ job[j].op \notin Edits =>
            Fits(index, file) /\ (indexFile # NoIndex => Fits(indexFile, file))
  BY <1>1, SlotFacts
<1>3. job[j].op = "load" /\ job[j].linked /\ Fits(index, file)
      /\ (indexFile # NoIndex => Fits(indexFile, file))
  BY <1>1, <1>2 DEF Shape, Sound, Loading, Edits
<1>4. UNCHANGED <<up, file, indexFile, queue, fate, glued>>
  BY DEF ReadIndex, disk
<1>5. /\ \A k \in Jobs : k # j => job'[k] = job[k]
      /\ job'[j].op = "load" /\ job'[j].phase \in {"assign", "rebuild"} /\ job'[j].linked
      /\ job'[j].phase = "assign" =>
            index' = index /\ indexFile # NoIndex /\ job'[j].snap = indexFile
      /\ job'[j].phase = "rebuild" => index' = Nothing
  <2>1. CASE Parses
    <3>1. indexFile \in Content /\ indexFile # NoIndex
      BY <2>1 DEF Parses, Frame, TypeOK
    <3>2. PICK c \in Content : c = indexFile
      BY <3>1
    <3>3. GoesOnWith(j, c, "assign") /\ index' = index /\ "assign" \in Phases
      BY <2>1, <3>2 DEF ReadIndex, GoesOnWith, Phases
    <3> QED
      BY <1>2, <1>3, <3>1, <3>2, <3>3, SnapJob DEF Frame
  <2>2. CASE ~Parses
    <3>1. Goto(j, "rebuild") /\ index' = Nothing /\ "rebuild" \in Phases
      BY <2>2 DEF ReadIndex, Phases
    <3> QED
      BY <1>2, <1>3, <3>1, GotoJob DEF Frame
  <2> QED
    BY <2>1, <2>2
<1>6. /\ Lacks(file)' /\ Holds(file)' /\ Lacks(index)' /\ Fits(index, file)'
      /\ indexFile' # NoIndex => Lacks(indexFile)' /\ Holds(indexFile)' /\ Fits(indexFile, file)'
  BY <1>2, <1>3, <1>4, <1>5 DEF Lacks, Holds, Fits, Nothing
<1>7. Sound(j)'
  BY <1>4, <1>5, <1>6 DEF Sound, LoadSound, At, Saving, Lacks, Holds, Fits
<1>8. job'[j].phase \in Loading /\ \A k \in Jobs : k # j => Free(k)'
  BY <1>2, <1>5 DEF Loading, Free
<1> QED
  BY <1>2, <1>4, <1>5, <1>6, <1>7, <1>8, CalmWithOne

\* The index that was read becomes the one in memory.
LEMMA AssignCalm ==
    ASSUME Frame, Calm, NEW j \in Slots, Assign(j) PROVE Calm'
<1>1. job[j].phase = "assign"
  BY DEF Assign, At
<1>2. /\ queue = <<>> /\ j \in Jobs /\ \A k \in Jobs : k # j => Free(k)
      /\ Sound(j) /\ Shape(j) /\ Lacks(file) /\ Holds(file)
      /\ indexFile # Mixed
      /\ indexFile # NoIndex => Lacks(indexFile) /\ Holds(indexFile)
      /\ job[j].op \notin Edits => (indexFile # NoIndex => Fits(indexFile, file))
  BY <1>1, SlotFacts
<1>3. job[j].op = "load" /\ LoadSound(j) /\ (indexFile # NoIndex => Fits(indexFile, file))
  BY <1>1, <1>2 DEF Shape, Sound, Loading, Edits
<1>4. Lacks(job[j].snap) /\ Holds(job[j].snap) /\ Fits(job[j].snap, file)
  BY <1>1, <1>3 DEF LoadSound, At
<1>5. /\ UNCHANGED <<up, file, indexFile, queue, glued>> /\ index' = job[j].snap
      /\ Ends(j) /\ fate' = Settled(j)
  BY DEF Assign, Return, Ends, disk
<1>6. \A e \in Entries : fate'[e] = fate[e]
  BY <1>3, <1>5 DEF Settled
<1>7. \A k \in Jobs : Free(k)'
  BY <1>2, <1>5, IdleJob DEF Frame, Free
<1>8. Waiting'
  BY <1>2, <1>5 DEF Waiting
<1>9. Synced'
  BY <1>2, <1>3, <1>4, <1>5, <1>6 DEF Synced, Lacks, Holds, Fits
<1>10. Appender \in Jobs /\ \A k \in Slots : k \in Jobs
  BY DEF Jobs
<1> QED
  BY <1>7, <1>8, <1>9, <1>10, FreeSound, CalmAppending

\* Or the lines make it.
LEMMA RebuildCalm ==
    ASSUME Frame, Calm, NEW j \in Slots, Rebuild(j) PROVE Calm'
<1>1. job[j].phase = "rebuild"
  BY DEF Rebuild, At
<1>2. /\ queue = <<>> /\ j \in Jobs /\ \A k \in Jobs : k # j => Free(k)
      /\ Sound(j) /\ Shape(j) /\ Lacks(file) /\ Holds(file)
      /\ indexFile # Mixed
      /\ indexFile # NoIndex => Lacks(indexFile) /\ Holds(indexFile)
      /\ job[j].op \notin Edits => (indexFile # NoIndex => Fits(indexFile, file))
  BY <1>1, SlotFacts
<1>3. job[j].op = "load" /\ LoadSound(j) /\ (indexFile # NoIndex => Fits(indexFile, file))
  BY <1>1, <1>2 DEF Shape, Sound, Loading, Edits
<1>4. index = Nothing
  BY <1>1, <1>3 DEF LoadSound, At
<1>5. UNCHANGED <<up, file, indexFile, queue, glued>> /\ \A e \in Entries : index'[e] = file[e]
  BY <1>4 DEF Rebuild, disk, Nothing
<1>6. index' \in Content
  BY DEF Rebuild, Frame, TypeOK, Content
<1>7. Appender \in Jobs /\ \A k \in Slots : k \in Jobs
  BY DEF Jobs
<1>8. CASE Return(j)
  <2>1. Ends(j) /\ fate' = Settled(j)
    BY <1>8 DEF Return, Ends
  <2>2. \A e \in Entries : fate'[e] = fate[e]
    BY <1>3, <2>1 DEF Settled
  <2>3. \A k \in Jobs : Free(k)'
    BY <1>2, <2>1, IdleJob DEF Frame, Free
  <2>4. Waiting' /\ Synced'
    BY <1>2, <1>3, <1>5, <2>2 DEF Waiting, Synced, Lacks, Holds, Fits
  <2> QED
    BY <1>7, <2>3, <2>4, FreeSound, CalmAppending
<1>9. CASE CallSave(j, index') /\ UNCHANGED fate
  <2>1. CallSave(j, index') /\ UNCHANGED fate
    BY <1>9
  <2>2. /\ \A k \in Jobs : k # j => job'[k] = job[k]
        /\ job'[j].op = "load" /\ job'[j].phase = "save"
        /\ job'[j].snap = index' /\ job'[j].linked
    <3>1. PICK c \in Content : c = index'
      BY <1>6
    <3> QED
      BY <1>2, <1>3, <2>1, <3>1, SaveJob DEF Frame
  <2>3. Sound(j)'
    BY <2>2 DEF Sound, LoadSound, At, Saving
  <2>4. /\ Lacks(file)' /\ Holds(file)' /\ Lacks(index)' /\ Holds(index)' /\ Fits(index, file)'
        /\ indexFile' # NoIndex => Lacks(indexFile)' /\ Holds(indexFile)' /\ Fits(indexFile, file)'
    BY <1>2, <1>3, <1>5, <2>1 DEF Lacks, Holds, Fits
  <2>5. \A k \in Jobs : k # j => Free(k)'
    BY <1>2, <2>2 DEF Free
  <2> QED
    BY <1>2, <1>5, <2>3, <2>4, <2>5, CalmWithOne
<1> QED
  BY <1>8, <1>9 DEF Rebuild

-----------------------------------------------------------------------------
(* The invariant and what it says *)

\* The only steps of an append are its own and the save.
LEMMA AppenderSteps ==
    ASSUME Frame, Step(Appender) PROVE SaveOpens(Appender) \/ SaveWrites(Appender)
<1>1. Shape(Appender)
  BY DEF Frame, Shapes, Jobs
<1> QED
  BY <1>1 DEF Shape, Step, ReadAll, CutFile, RewriteFile, UnlinkHistory, UnlinkIndex,
     ReadIndex, Assign, Rebuild, At, Loading

\* Undisturbed calls keep the calm.
LEMMA CalmStep ==
    ASSUME Frame, Undisturbed => Calm, [Next]_vars, Undisturbed' PROVE Calm'
<1>0. ~disturbed' /\ ~refused'
  BY DEF Undisturbed
<1>1. Calm
  BY <1>0 DEF Undisturbed, Next, vars, Log, Clear, Reload, Launch, Delete, File, Joins,
     BeginAppend, AppendLine, AppendPart, ListEntry, Step, ReadAll, CutFile, RewriteFile, SaveOpens, SaveWrites,
     UnlinkHistory, UnlinkIndex, ReadIndex, Assign, Rebuild, Fails, Crash
<1>2. CASE UNCHANGED vars
  BY <1>1, <1>2 DEF vars, disk, Calm, Alone, Free, Waiting, OnDisk, InMemory, Agree, Rewriting,
     At, Lacks, Holds, Fits, Sound, AppendSound, EditSound, ClearSound, LoadSound, FitsBut
<1>3. ASSUME NEW j \in Jobs, Step(j) PROVE Calm'
  <2>1. CASE j \in Slots
    BY <1>0, <1>1, <1>3, <2>1, ReadAllCalm, CutFileCalm, RewriteCalm, SaveOpensCalm,
       SaveWritesCalm, UnlinkHistoryCalm, UnlinkIndexCalm, ReadIndexCalm, AssignCalm,
       RebuildCalm DEF Step
  <2>2. CASE j = Appender
    BY <1>1, <1>3, <2>2, AppenderSteps, AppendSaveCalm
  <2> QED
    BY <2>1, <2>2 DEF Jobs
<1>4. ASSUME NEW j \in Slots,
             \/ Clear(j) \/ Reload(j) \/ Launch(j)
             \/ \E e \in Entries : Delete(j, e) \/ File(j, e)
      PROVE  Calm'
  BY <1>0, <1>1, <1>4, ClearCalm, BeginLoadCalm, DeleteCalm, FileCalm
<1>5. CASE BeginAppend \/ AppendLine \/ AppendPart \/ ListEntry \/ Crash \/ \E e \in Entries : Log(e)
  BY <1>0, <1>1, <1>5, BeginCalm, AppendLineCalm, AppendPartCalm, ListEntryCalm, CrashCalm,
     LogCalm
<1>6. ASSUME NEW j \in Jobs, Fails(j) PROVE Calm'
  BY <1>0, <1>1, <1>6, FailCalm
<1> QED
  BY <1>2, <1>3, <1>4, <1>5, <1>6 DEF Next

\* The invariant always holds.
LEMMA Invariance == Spec => []Inv
<1>1. Init => Inv
  BY FrameInit, CalmInit DEF Inv
<1>2. Inv /\ [Next]_vars => Inv'
  BY FrameStep, CalmStep DEF Inv
<1> QED
  BY <1>1, <1>2, PTL DEF Spec

\* AckedSurvives always holds: as long as no other call has had company, broke off or
\* was refused an unlink, crashes and failures of appends, a part of a line written
\* included, leave the line of every acknowledged entry in the file, and the index file
\* with it or to be rebuilt.  The exception is an entry whose line ran together with
\* another: EveryEntryKept has none, and the code breaks it.
THEOREM AcknowledgedIsKept == Spec => []AckedSurvives
<1>1. Inv => AckedSurvives
  BY DEF Inv, Undisturbed, Calm, OnDisk, AckedSurvives, Acked, Ids, Holds, IndexLost
<1> QED
  BY <1>1, Invariance, PTL

\* ListedCanBeOpened always holds, under the same premise: between the other calls, the
\* history lists nothing whose line is missing or says another collection, but for lines
\* that ran together.
THEOREM ListIsTrue == Spec => []ListedCanBeOpened
<1>1. Inv => ListedCanBeOpened
  BY DEF Inv, Undisturbed, Calm, Agree, Edits, ListedCanBeOpened, Ids, Fits
<1> QED
  BY <1>1, Invariance, PTL

\* DeletedStaysGone always holds, under the same premise: what a deletion or clear has
\* removed is in none of memory, file and index file, so no later start brings it back.
\* A clear that is refused an unlink breaks it: ClearedIsGone.
THEOREM RemovalIsFinal == Spec => []DeletedStaysGone
<1>1. Inv => DeletedStaysGone
  BY DEF Inv, Undisturbed, Calm, OnDisk, InMemory, DeletedStaysGone, Ids, Lacks, IndexLost
<1> QED
  BY <1>1, Invariance, PTL
-----------------------------------------------------------------------------
(* What is queued is tried, and tried once.  Nothing here asks for calls to *)
(* be alone.                                                               *)

Untried == {"new", "queued", "dropped"}
Blank(c) == \A e \in Entries : fate[e] \in Untried => c[e] = "none"
InQueue(e) == \E i \in 1 .. Len(queue) : queue[i] = e
AtHand(e) == At(Appender, "line") /\ job[Appender].entry = e

\* An entry that was not tried yet is nowhere: in no file, in no index, and in
\* nothing that a call under way has read or is about to write.
NothingEarly ==
    /\ Blank(index) /\ Blank(file)
    /\ Parses => Blank(indexFile)
    /\ \A j \in Jobs : Blank(job[j].snap)

\* A queued entry waits in the queue or is at the append that runs, and no entry is
\* in both or twice in the queue.
QueuedIsWaiting ==
    \A e \in Entries : fate[e] = "queued" <=> InQueue(e) \/ AtHand(e)

OnceInv ==
    /\ QueuedIsWaiting
    /\ \A e \in Entries : ~(InQueue(e) /\ AtHand(e))
    /\ \A i, k \in 1 .. Len(queue) : queue[i] = queue[k] => i = k
    /\ At(Appender, "list") => fate[job[Appender].entry] \notin Untried

\* What a step of a call makes of what was not tried: nothing.
KeepsUntried ==
    \A e \in Entries : /\ fate'[e] \in Untried <=> fate[e] \in Untried
                       /\ fate'[e] = "queued" <=> fate[e] = "queued"

LEMMA SettledKeeps ==
    ASSUME TypeOK, NEW j \in Jobs, fate' = Settled(j) PROVE KeepsUntried
BY DEF TypeOK, Settled, KeepsUntried, Untried

\* Steps of calls, and the calls themselves, leave the untried alone.
LEMMA CallKeeps ==
    ASSUME TypeOK, NothingEarly,
           \/ \E j \in Jobs : Step(j)
           \/ \E j \in Slots : \/ Clear(j) \/ Reload(j) \/ Launch(j)
                               \/ \E e \in Entries : Delete(j, e) \/ File(j, e)
    PROVE  KeepsUntried
<1>0. CASE UNCHANGED fate
  BY <1>0 DEF KeepsUntried
<1>1. ASSUME NEW j \in Jobs, Step(j) PROVE KeepsUntried
  <2>1. fate' = Settled(j) \/ UNCHANGED fate
    BY <1>1 DEF Step, ReadAll, CutFile, RewriteFile, SaveOpens, SaveWrites, UnlinkHistory,
                UnlinkIndex, ReadIndex, Assign, Rebuild, Return
  <2> QED
    BY <1>0, <2>1, SettledKeeps
<1>2. ASSUME NEW j \in Slots, Clear(j) PROVE KeepsUntried
  BY <1>2 DEF Clear, KeepsUntried, Untried, TypeOK
<1>3. ASSUME NEW j \in Slots, NEW e \in Entries, Delete(j, e) PROVE KeepsUntried
  <2>1. fate[e] \notin Untried
    BY <1>3 DEF Delete, Ids, NothingEarly, Blank
  <2> QED
    BY <1>3, <2>1 DEF Delete, KeepsUntried, Untried, TypeOK
<1>4. ASSUME NEW j \in Slots, Reload(j) \/ Launch(j) \/ \E e \in Entries : File(j, e)
      PROVE  KeepsUntried
  BY <1>0, <1>4 DEF Reload, Launch, File
<1> QED
  BY <1>1, <1>2, <1>3, <1>4

\* What jobs other than the one that moves have, they keep.
LEMMA OthersKeep ==
    ASSUME TypeOK, NEW j \in Jobs, Step(j)
    PROVE  /\ \A k \in Jobs \ {j} : /\ job'[k].phase = job[k].phase
                                    /\ job'[k].entry = job[k].entry
                                    /\ job'[k].snap = job[k].snap
           /\ job'[j].phase \notin {"line", "list"}
<1>0. job \in [Jobs -> JobState] /\ Idle \in JobState /\ Idle.phase = "idle"
  BY Basics DEF TypeOK, Idle
<1>1. CASE UnlinkHistory(j) \/ UnlinkIndex(j)
  <2>1. ASSUME NEW p, NEW k \in Jobs
        PROVE  /\ Unlink(p) \in [Jobs -> JobState]
               /\ Unlink(p)[k].phase = job[k].phase
               /\ Unlink(p)[k].entry = job[k].entry /\ Unlink(p)[k].snap = job[k].snap
    BY <1>0 DEF Unlink, JobState
  <2>2. \A k \in Jobs \ {j} :
          \/ job'[k] = Unlink("rewriting")[k]
          \/ job'[k] = Unlink("saving")[k]
          \/ job'[k] = job[k]
    BY <1>0, <1>1, <2>1 DEF UnlinkHistory, UnlinkIndex, Goto
  <2>3. job'[j].phase \in {"unlinkIndex", "idle"}
    BY <1>0, <1>1, <2>1 DEF UnlinkHistory, UnlinkIndex, JobState, Goto
  <2> QED
    BY <2>1, <2>2, <2>3
<1>2. CASE ~(UnlinkHistory(j) \/ UnlinkIndex(j))
  <2>1. \E s : job' = [job EXCEPT ![j] = s] /\ s.phase \notin {"line", "list"}
    <3>1. ASSUME NEW c, CallSave(j, c)
          PROVE  \E s : job' = [job EXCEPT ![j] = s] /\ s.phase \notin {"line", "list"}
      <4> DEFINE s == [job[j] EXCEPT !.phase = "save", !.snap = c, !.linked = TRUE]
      <4>1. job' = [job EXCEPT ![j] = s]
        BY <1>0, <3>1 DEF CallSave
      <4>2. s.phase = "save"
        BY <1>0 DEF JobState
      <4> HIDE DEF s
      <4> QED
        BY <4>1, <4>2
    <3>2. ASSUME NEW p \in {"rewriting", "saving", "rebuild"}, Goto(j, p)
          PROVE  \E s : job' = [job EXCEPT ![j] = s] /\ s.phase \notin {"line", "list"}
      <4> DEFINE s == [job[j] EXCEPT !.phase = p]
      <4>1. job' = [job EXCEPT ![j] = s]
        BY <1>0, <3>2 DEF Goto
      <4>2. s.phase = p
        BY <1>0 DEF JobState
      <4> HIDE DEF s
      <4> QED
        BY <4>1, <4>2
    <3>3. ASSUME NEW c, NEW p \in {"rewrite", "assign"}, GoesOnWith(j, c, p)
          PROVE  \E s : job' = [job EXCEPT ![j] = s] /\ s.phase \notin {"line", "list"}
      <4> DEFINE s == [job[j] EXCEPT !.snap = c, !.phase = p]
      <4>1. job' = [job EXCEPT ![j] = s]
        BY <1>0, <3>3 DEF GoesOnWith
      <4>2. s.phase = p
        BY <1>0 DEF JobState
      <4> HIDE DEF s
      <4> QED
        BY <4>1, <4>2
    <3>4. CASE job' = [job EXCEPT ![j] = Idle]
      BY <1>0, <3>4
    <3>5. CASE ReadAll(j) \/ RewriteFile(j) \/ Rebuild(j)
      <4>1. \/ \E c : CallSave(j, c)
            \/ GoesOnWith(j, Rewritten(j), "rewrite")
            \/ job' = [job EXCEPT ![j] = Idle]
        BY <3>5 DEF ReadAll, RewriteFile, Rebuild, Return, GoesOnWith
      <4> QED
        BY <3>1, <3>3, <3>4, <4>1
    <3>6. CASE CutFile(j) \/ SaveOpens(j) \/ ReadIndex(j)
      <4>1. \/ Goto(j, "rewriting") \/ Goto(j, "saving") \/ Goto(j, "rebuild")
            \/ GoesOnWith(j, indexFile, "assign")
        BY <3>6 DEF CutFile, SaveOpens, ReadIndex, GoesOnWith
      <4> QED
        BY <3>2, <3>3, <4>1
    <3>7. CASE SaveWrites(j) \/ Assign(j)
      BY <3>4, <3>7 DEF SaveWrites, Assign, Return
    <3> QED
      BY <1>2, <3>5, <3>6, <3>7 DEF Step
  <2> QED
    BY <1>0, <2>1
<1> QED
  BY <1>1, <1>2

\* The steps of calls move about what is there.
LEMMA StepBlank ==
    ASSUME Frame, NothingEarly, NEW j \in Jobs, Step(j) PROVE NothingEarly'
<1>0. /\ TypeOK /\ job \in [Jobs -> JobState] /\ Idle \in JobState /\ Idle.snap = Nothing
      /\ file \in Content /\ index \in Content
  BY Basics DEF Frame, TypeOK, Idle
<1>1. \A e \in Entries : fate'[e] \in Untried => fate[e] \in Untried
  BY <1>0, CallKeeps DEF KeepsUntried
<1> SUFFICES ASSUME NEW e \in Entries, fate[e] \in Untried
             PROVE  /\ index'[e] = "none" /\ file'[e] = "none"
                    /\ Parses' => indexFile'[e] = "none"
                    /\ \A k \in Jobs : job'[k].snap[e] = "none"
  BY <1>1 DEF NothingEarly, Blank
<1>2. /\ index[e] = "none" /\ file[e] = "none" /\ (Parses => indexFile[e] = "none")
      /\ \A k \in Jobs : job[k].snap[e] = "none"
      /\ Nothing[e] = "none"
  BY DEF NothingEarly, Blank, Nothing
<1>3. \A k \in Jobs \ {j} : job'[k].snap[e] = "none"
  BY <1>0, <1>2, OthersKeep
<1>4. ASSUME NEW c \in Content, CallSave(j, c), c[e] = "none" PROVE job'[j].snap[e] = "none"
  BY <1>0, <1>4, SaveJob
<1>5. ASSUME NEW p \in Phases, Goto(j, p) PROVE job'[j].snap[e] = "none"
  BY <1>0, <1>2, <1>5, GotoJob
<1>6. ASSUME job' = [job EXCEPT ![j] = Idle] PROVE job'[j].snap[e] = "none"
  BY <1>0, <1>2, <1>6
<1>7. CASE ReadAll(j)
  <2>1. CASE CallSave(j, index)
    BY <1>0, <1>2, <1>3, <1>4, <1>7, <2>1 DEF ReadAll, disk, Parses
  <2>2. CASE ~CallSave(j, index)
    <3>1. GoesOnWith(j, Rewritten(j), "rewrite") /\ UNCHANGED <<index, disk>>
      BY <1>7, <2>2 DEF ReadAll, GoesOnWith
    <3>2. Rewritten(j) \in Content /\ "rewrite" \in Phases
      BY <1>0, RewrittenContent DEF Phases
    <3>3. job'[j].snap = Rewritten(j)
      BY <1>0, <3>1, <3>2, SnapJob
    <3>4. Rewritten(j)[e] = "none"
      BY <1>0, <1>2 DEF Rewritten, Content
    <3> QED
      BY <1>2, <1>3, <3>1, <3>3, <3>4 DEF disk, Parses
  <2> QED
    BY <2>1, <2>2
<1>8. CASE CutFile(j) \/ SaveOpens(j)
  <2>1. job'[j].snap[e] = "none"
    BY <1>5, <1>8 DEF CutFile, SaveOpens, Phases
  <2> QED
    BY <1>2, <1>3, <1>8, <2>1 DEF CutFile, SaveOpens, Parses
<1>9. CASE RewriteFile(j)
  <2>1. job'[j].snap[e] = "none"
    BY <1>0, <1>2, <1>4, <1>9 DEF RewriteFile
  <2>2. file'[e] = "none"
    BY <1>2, <1>9 DEF RewriteFile
  <2> QED
    BY <1>2, <1>3, <1>9, <2>1, <2>2 DEF RewriteFile, Parses
<1>10. CASE SaveWrites(j)
  <2>1. job'[j].snap[e] = "none"
    BY <1>6, <1>10 DEF SaveWrites, Return
  <2>2. indexFile' \in {indexFile, job[j].snap, Mixed}
    BY <1>10 DEF SaveWrites
  <2>3. Parses' => indexFile'[e] = "none"
    BY <1>2, <2>2 DEF Parses
  <2> QED
    BY <1>2, <1>3, <1>10, <2>1, <2>3 DEF SaveWrites
<1>11. CASE UnlinkHistory(j) \/ UnlinkIndex(j)
  <2>1. job'[j].snap[e] = "none"
    <3>1. ASSUME NEW p PROVE Unlink(p) \in [Jobs -> JobState] /\ Unlink(p)[j].snap = job[j].snap
      BY <1>0 DEF Unlink, JobState
    <3>2. CASE UnlinkHistory(j) /\ ~Goto(j, "unlinkIndex")
      <4> DEFINE jobs == Unlink("rewriting")
      <4>1. jobs \in [Jobs -> JobState] /\ jobs[j].snap = job[j].snap
        BY <3>1
      <4>2. job' = [jobs EXCEPT ![j].phase = "unlinkIndex"]
        BY <3>2 DEF UnlinkHistory
      <4> HIDE DEF jobs
      <4>3. job'[j].snap = jobs[j].snap
        BY <4>1, <4>2 DEF JobState
      <4> QED
        BY <1>2, <4>1, <4>3
    <3>3. CASE UnlinkIndex(j)
      BY <1>0, <1>2, <3>1, <3>3 DEF UnlinkIndex
    <3>4. CASE Goto(j, "unlinkIndex")
      BY <1>5, <3>4 DEF Phases
    <3> QED
      BY <1>11, <3>2, <3>3, <3>4
  <2> QED
    BY <1>2, <1>3, <1>11, <2>1 DEF UnlinkHistory, UnlinkIndex, Parses
<1>12. CASE ReadIndex(j)
  <2>1. CASE Parses
    <3>1. GoesOnWith(j, indexFile, "assign") /\ indexFile \in Content /\ UNCHANGED <<index, disk>>
      BY <1>12, <2>1 DEF ReadIndex, Parses, Frame, TypeOK, GoesOnWith
    <3>2. job'[j].snap = indexFile
      BY <1>0, <3>1, SnapJob DEF Phases
    <3> QED
      BY <1>2, <1>3, <2>1, <3>1, <3>2 DEF disk, Parses
  <2>2. CASE ~Parses
    <3>1. Goto(j, "rebuild") /\ index' = Nothing /\ UNCHANGED disk
      BY <1>12, <2>2 DEF ReadIndex
    <3>2. job'[j].snap[e] = "none"
      BY <1>5, <3>1 DEF Phases
    <3> QED
      BY <1>2, <1>3, <2>2, <3>1, <3>2 DEF disk, Parses
  <2> QED
    BY <2>1, <2>2
<1>13. CASE Assign(j)
  <2>1. job'[j].snap[e] = "none"
    BY <1>6, <1>13 DEF Assign, Return
  <2> QED
    BY <1>2, <1>3, <1>13, <2>1 DEF Assign, disk, Parses
<1>14. CASE Rebuild(j)
  <2>1. index' \in Content /\ index'[e] = "none"
    BY <1>0, <1>2, <1>14 DEF Rebuild, Content
  <2>2. job'[j].snap[e] = "none"
    BY <1>4, <1>6, <1>14, <2>1 DEF Rebuild, Return
  <2> QED
    BY <1>2, <1>3, <1>14, <2>1, <2>2 DEF Rebuild, disk, Parses
<1> QED
  BY <1>7, <1>8, <1>9, <1>10, <1>11, <1>12, <1>13, <1>14 DEF Step

\* So do the calls, the appends and what breaks off.
LEMMA BlankInductive ==
    ASSUME Frame, NothingEarly, OnceInv, [Next]_vars PROVE NothingEarly'
<1>0. /\ TypeOK /\ job \in [Jobs -> JobState] /\ Idle \in JobState /\ Idle.snap = Nothing
      /\ file \in Content /\ index \in Content /\ fate \in [Entries -> Fates]
      /\ Appender \in Jobs
  BY Basics DEF Frame, TypeOK, Idle, Jobs
<1>1. CASE UNCHANGED vars
  BY <1>1 DEF vars, disk, NothingEarly, Blank, Parses
<1>2. ASSUME NEW j \in Jobs, Step(j) PROVE NothingEarly'
  BY <1>2, StepBlank
<1>3. ASSUME \A e \in Entries : fate'[e] \in Untried => fate[e] \in Untried,
             UNCHANGED disk,
             \A e \in Entries : index'[e] # "none" => index[e] # "none",
             \A k \in Jobs : job'[k].snap = job[k].snap \/ job'[k].snap = Nothing
      PROVE  NothingEarly'
  <2>1. Blank(Nothing)
    BY DEF Blank, Nothing
  <2> QED
    BY <1>3, <2>1 DEF NothingEarly, Blank, disk, Parses
<1>4. ASSUME NEW e \in Entries, Log(e) PROVE NothingEarly'
  <2>1. \A x \in Entries : fate'[x] \in Untried => fate[x] \in Untried
    BY <1>0, <1>4 DEF Log, Untried
  <2> QED
    BY <1>3, <1>4, <2>1 DEF Log
<1>5. ASSUME NEW j \in Slots,
             \/ Clear(j) \/ Reload(j) \/ Launch(j)
             \/ \E e \in Entries : Delete(j, e) \/ File(j, e)
      PROVE  NothingEarly'
  <2>1. KeepsUntried
    BY <1>0, <1>5, CallKeeps
  <2>2. \E op, e, p : job' = [job EXCEPT ![j] = Started(op, e, p)]
    BY <1>5 DEF Clear, Reload, Launch, Delete, File
  <2>3. \A op, e, p : Started(op, e, p).snap = Nothing
    BY DEF Started, Idle
  <2>4. \A k \in Jobs : job'[k].snap = job[k].snap \/ job'[k].snap = Nothing
    BY <1>0, <2>2, <2>3
  <2>5. \A e \in Entries : index'[e] # "none" => index[e] # "none"
    BY <1>0, <1>5 DEF Clear, Reload, Launch, Delete, File, Ids, Content, Nothing
  <2>6. UNCHANGED disk
    BY <1>5 DEF Clear, Reload, Launch, Delete, File, Joins
  <2> QED
    BY <1>3, <2>1, <2>4, <2>5, <2>6 DEF KeepsUntried
<1>6. CASE BeginAppend
  <2>1. Started("append", Head(queue), "line").snap = Nothing
    BY DEF Started, Idle
  <2>2. \A k \in Jobs : job'[k].snap = job[k].snap \/ job'[k].snap = Nothing
    BY <1>0, <1>6, <2>1 DEF BeginAppend
  <2> QED
    BY <1>3, <1>6, <2>2 DEF BeginAppend
<1>7. CASE AppendLine
  <2>1. Goto(Appender, "list")
    BY <1>7 DEF AppendLine
  <2>2. \A k \in Jobs : job'[k].snap = job[k].snap
    BY <1>0, <2>1, GotoJob DEF Phases
  <2>3. \A x \in Entries : fate'[x] \in Untried =>
           fate[x] \in Untried /\ x # job[Appender].entry
    <3>1. job[Appender].entry \in Entries => fate[job[Appender].entry] = "queued"
      BY <1>7 DEF AppendLine, OnceInv, QueuedIsWaiting, AtHand
    <3> QED
      BY <1>0, <1>7, <3>1 DEF AppendLine, Tried, Untried
  <2>4. \A x \in Entries : x # job[Appender].entry => file'[x] \in {file[x], "none"}
    BY <1>0, <1>7 DEF AppendLine, RunsOn, Content
  <2> QED
    BY <1>7, <2>2, <2>3, <2>4 DEF AppendLine, NothingEarly, Blank, Parses
<1>11. CASE AppendPart
  <2>1. Ends(Appender)
    BY <1>11 DEF AppendPart, Ends
  <2>2. \A k \in Jobs : job'[k].snap = job[k].snap \/ job'[k].snap = Nothing
    BY <1>0, <2>1, IdleJob
  <2>3. \A x \in Entries : fate'[x] \in Untried =>
           fate[x] \in Untried /\ x # job[Appender].entry
    <3>1. job[Appender].entry \in Entries => fate[job[Appender].entry] = "queued"
      BY <1>11 DEF AppendPart, OnceInv, QueuedIsWaiting, AtHand
    <3> QED
      BY <1>0, <1>11, <3>1 DEF AppendPart, Tried, Untried
  <2>4. \A x \in Entries : x # job[Appender].entry => file'[x] \in {file[x], "none"}
    BY <1>0, <1>11 DEF AppendPart, RunsOn, Content
  <2>5. Blank(Nothing)
    BY DEF Blank, Nothing
  <2> QED
    BY <1>11, <2>2, <2>3, <2>4, <2>5 DEF AppendPart, NothingEarly, Blank, Parses
<1>8. CASE ListEntry
  <2>1. CallSave(Appender, index') /\ fate' = fate /\ UNCHANGED disk
    BY <1>8 DEF ListEntry
  <2>2. index' = [index EXCEPT ![job[Appender].entry] = "plain"]
    BY <1>8 DEF ListEntry
  <2>3. fate[job[Appender].entry] \notin Untried
    BY <1>8 DEF ListEntry, OnceInv
  <2>4. Blank(index')
    BY <2>2, <2>3 DEF NothingEarly, Blank
  <2>5. index' \in Content
    BY <1>0, <2>2 DEF Content
  <2>6. job'[Appender].snap = index' /\ \A k \in Jobs : k # Appender => job'[k] = job[k]
    BY <1>0, <2>1, <2>5, SaveJob
  <2> QED
    BY <2>1, <2>4, <2>6 DEF NothingEarly, Blank, disk, Parses
<1>9. ASSUME NEW j \in Jobs, Fails(j) PROVE NothingEarly'
  <2>1. \A x \in Entries : fate'[x] \in Untried => fate[x] \in Untried
    BY <1>0, <1>9 DEF Fails, Tried, Untried
  <2>2. \A k \in Jobs : job'[k].snap = job[k].snap \/ job'[k].snap = Nothing
    BY <1>0, <1>9 DEF Fails
  <2> QED
    BY <1>3, <1>9, <2>1, <2>2 DEF Fails
<1>10. CASE Crash
  <2>1. \A x \in Entries : fate'[x] \in Untried => fate[x] \in Untried
    BY <1>0, <1>10 DEF Crash, Untried
  <2>2. \A k \in Jobs : job'[k].snap = Nothing
    BY <1>0, <1>10 DEF Crash
  <2> QED
    BY <1>3, <1>10, <2>1, <2>2 DEF Crash, Nothing
<1> QED
  BY <1>1, <1>2, <1>4, <1>5, <1>6, <1>7, <1>8, <1>9, <1>10, <1>11 DEF Next

\* The queue and the append that runs, when a step touches neither.
LEMMA OnceKept ==
    ASSUME OnceInv, KeepsUntried, UNCHANGED queue, job[Appender].entry' = job[Appender].entry,
           At(Appender, "line")' <=> At(Appender, "line"),
           At(Appender, "list")' => At(Appender, "list"),
           At(Appender, "list") => job[Appender].entry \in Entries
    PROVE  OnceInv'
BY DEF OnceInv, KeepsUntried, QueuedIsWaiting, InQueue, AtHand

\* A queue that gets one more, and one that loses its first.
LEMMA Longer ==
    ASSUME queue \in Seq(Entries), NEW e \in Entries, queue' = Append(queue, e)
    PROVE  /\ \A x : InQueue(x)' <=> InQueue(x) \/ x = e
           /\ ~InQueue(e) /\ (\A i, k \in 1 .. Len(queue) : queue[i] = queue[k] => i = k) =>
                 \A i, k \in 1 .. Len(queue') : queue'[i] = queue'[k] => i = k
<1>1. /\ Len(queue) \in Nat /\ Len(queue') = Len(queue) + 1
      /\ \A i \in 1 .. Len(queue) : queue'[i] = queue[i]
      /\ queue'[Len(queue) + 1] = e
  OBVIOUS
<1>2. \A i \in 1 .. Len(queue') : i \in 1 .. Len(queue) \/ i = Len(queue) + 1
  BY <1>1
<1>3. \A x : InQueue(x)' <=> InQueue(x) \/ x = e
  <2> SUFFICES ASSUME NEW x PROVE InQueue(x)' <=> InQueue(x) \/ x = e
    OBVIOUS
  <2>1. ASSUME InQueue(x)' PROVE InQueue(x) \/ x = e
    BY <1>1, <1>2, <2>1 DEF InQueue
  <2>2. ASSUME InQueue(x) PROVE InQueue(x)'
    <3>1. PICK i \in 1 .. Len(queue) : queue[i] = x
      BY <2>2 DEF InQueue
    <3>2. i \in 1 .. Len(queue') /\ queue'[i] = x
      BY <1>1, <3>1
    <3> QED
      BY <3>2 DEF InQueue
  <2>3. ASSUME x = e PROVE InQueue(x)'
    <3>1. Len(queue) + 1 \in 1 .. Len(queue') /\ queue'[Len(queue) + 1] = x
      BY <1>1, <2>3
    <3> QED
      BY <3>1 DEF InQueue
  <2> QED
    BY <2>1, <2>2, <2>3
<1>4. ASSUME ~InQueue(e), \A i, k \in 1 .. Len(queue) : queue[i] = queue[k] => i = k,
             NEW i \in 1 .. Len(queue'), NEW k \in 1 .. Len(queue'), queue'[i] = queue'[k]
      PROVE  i = k
  BY <1>1, <1>2, <1>4 DEF InQueue
<1> QED
  BY <1>3, <1>4

LEMMA Shorter ==
    ASSUME queue \in Seq(Entries), queue # <<>>, queue' = Tail(queue), NEW e, e = Head(queue),
           \A i, k \in 1 .. Len(queue) : queue[i] = queue[k] => i = k
    PROVE  /\ e \in Entries /\ ~InQueue(e)'
           /\ \A x : InQueue(x) <=> InQueue(x)' \/ x = e
           /\ \A i, k \in 1 .. Len(queue') : queue'[i] = queue'[k] => i = k
<1>1. /\ Len(queue) \in Nat /\ Len(queue) # 0 /\ Len(queue') = Len(queue) - 1
      /\ \A i \in 1 .. Len(queue') : queue'[i] = queue[i + 1] /\ i + 1 \in 1 .. Len(queue)
      /\ e = queue[1] /\ e \in Entries
  OBVIOUS
<1>2. \A i \in 1 .. Len(queue) : i = 1 \/ (i - 1 \in 1 .. Len(queue') /\ queue'[i - 1] = queue[i])
  BY <1>1
<1>3. ~InQueue(e)'
  <2> SUFFICES ASSUME NEW i \in 1 .. Len(queue'), queue'[i] = e PROVE FALSE
    BY DEF InQueue
  <2>1. queue[i + 1] = queue[1] /\ 1 \in 1 .. Len(queue) /\ i + 1 \in 1 .. Len(queue)
    BY <1>1
  <2>2. i + 1 = 1
    BY <2>1
  <2> QED
    BY <2>2
<1>4. \A x : InQueue(x) <=> InQueue(x)' \/ x = e
  <2> SUFFICES ASSUME NEW x PROVE InQueue(x) <=> InQueue(x)' \/ x = e
    OBVIOUS
  <2>1. ASSUME InQueue(x) PROVE InQueue(x)' \/ x = e
    BY <1>1, <1>2, <2>1 DEF InQueue
  <2>2. ASSUME InQueue(x)' PROVE InQueue(x)
    BY <1>1, <2>2 DEF InQueue
  <2>3. ASSUME x = e PROVE InQueue(x)
    BY <1>1, <2>3 DEF InQueue
  <2> QED
    BY <2>1, <2>2, <2>3
<1>5. ASSUME NEW i \in 1 .. Len(queue'), NEW k \in 1 .. Len(queue'), queue'[i] = queue'[k]
      PROVE  i = k
  <2>1. queue[i + 1] = queue[k + 1] /\ i + 1 \in 1 .. Len(queue) /\ k + 1 \in 1 .. Len(queue)
    BY <1>1, <1>5
  <2>2. i + 1 = k + 1
    BY <2>1
  <2> QED
    BY <1>1, <2>2
<1> QED
  BY <1>1, <1>3, <1>4, <1>5

\* Logging adds what was not there, the append that begins takes the first, and the
\* line that is written or refused was the one at hand.
LEMMA OnceInductive ==
    ASSUME Frame, NothingEarly, OnceInv, [Next]_vars PROVE OnceInv'
<1>0. /\ TypeOK /\ job \in [Jobs -> JobState] /\ Idle \in JobState /\ Idle.phase = "idle"
      /\ fate \in [Entries -> Fates] /\ queue \in Seq(Entries)
      /\ Appender \in Jobs /\ Appender \notin Slots /\ Slots \subseteq Jobs
  BY Basics, ConstantsAssumption DEF Frame, TypeOK, Idle, Jobs
<1>a. job[Appender].phase \in {"line", "list"} => job[Appender].entry \in Entries
  BY <1>0 DEF Frame, Shapes, Shape
<1>b. job[Appender].phase \in {"idle", "line", "list", "save", "saving"}
  BY <1>0 DEF Frame, Shapes, Shape, TypeOK, JobState, Phases, Loading, Saving
<1>1. CASE UNCHANGED vars
  BY <1>1 DEF vars, OnceInv, QueuedIsWaiting, InQueue, AtHand, At
<1>2. ASSUME NEW j \in Jobs, Step(j) PROVE OnceInv'
  <2>1. KeepsUntried /\ UNCHANGED queue
    BY <1>0, <1>2, CallKeeps DEF Step, ReadAll, CutFile, RewriteFile, SaveOpens, SaveWrites,
       UnlinkHistory, UnlinkIndex, ReadIndex, Assign, Rebuild
  <2>2. CASE j # Appender
    <3>1. /\ job'[Appender].phase = job[Appender].phase
          /\ job'[Appender].entry = job[Appender].entry
      BY <1>0, <1>2, <2>2, OthersKeep
    <3> QED
      BY <1>a, <2>1, <3>1, OnceKept DEF At
  <2>3. CASE j = Appender
    <3>1. job[Appender].phase \in {"save", "saving"}
      BY <1>2, <1>b, <2>3 DEF Step, ReadAll, CutFile, RewriteFile, SaveOpens, SaveWrites,
         UnlinkHistory, UnlinkIndex, ReadIndex, Assign, Rebuild, At
    <3>2. job'[Appender].phase \notin {"line", "list"}
      BY <1>0, <1>2, <2>3, OthersKeep
    <3> QED
      BY <2>1, <3>1, <3>2 DEF OnceInv, KeepsUntried, QueuedIsWaiting, InQueue, AtHand, At
  <2> QED
    BY <2>2, <2>3
<1>3. ASSUME NEW e \in Entries, Log(e) PROVE OnceInv'
  <2>1. /\ queue' = Append(queue, e) /\ fate' = [fate EXCEPT ![e] = "queued"] /\ job' = job
        /\ fate[e] = "new"
    BY <1>3 DEF Log
  <2>2. ~InQueue(e) /\ ~AtHand(e)
    BY <2>1 DEF OnceInv, QueuedIsWaiting
  <2>3. /\ \A x : InQueue(x)' <=> InQueue(x) \/ x = e
        /\ \A i, k \in 1 .. Len(queue') : queue'[i] = queue'[k] => i = k
    BY <1>0, <2>1, <2>2, Longer DEF OnceInv
  <2>4. \A x : AtHand(x)' <=> AtHand(x)
    BY <2>1 DEF AtHand, At
  <2>5. At(Appender, "list") => job[Appender].entry # e
    BY <2>1 DEF OnceInv, Untried
  <2>6. At(Appender, "list")' => fate'[job'[Appender].entry] \notin Untried
    BY <1>0, <1>a, <2>1, <2>5 DEF OnceInv, At
  <2>7. QueuedIsWaiting'
    BY <1>0, <2>1, <2>3, <2>4 DEF OnceInv, QueuedIsWaiting
  <2>8. \A x \in Entries : ~(InQueue(x)' /\ AtHand(x)')
    BY <2>2, <2>3, <2>4 DEF OnceInv
  <2> QED
    BY <2>3, <2>6, <2>7, <2>8 DEF OnceInv
<1>4. ASSUME NEW j \in Slots,
             \/ Clear(j) \/ Reload(j) \/ Launch(j)
             \/ \E e \in Entries : Delete(j, e) \/ File(j, e)
      PROVE  OnceInv'
  <2>1. KeepsUntried /\ UNCHANGED queue
    BY <1>0, <1>4, CallKeeps DEF Clear, Reload, Launch, Delete, File, Joins
  <2>2. \E s : job' = [job EXCEPT ![j] = s]
    BY <1>4 DEF Clear, Reload, Launch, Delete, File
  <2>3. job'[Appender] = job[Appender]
    BY <1>0, <2>2
  <2> QED
    BY <1>a, <2>1, <2>3, OnceKept DEF At
<1>5. CASE BeginAppend
  <2> PICK e : e = Head(queue)
    OBVIOUS
  <2> DEFINE s == Started("append", e, "line")
  <2>1. /\ queue' = Tail(queue) /\ queue # <<>> /\ job[Appender].phase = "idle"
        /\ job'[Appender] = s /\ fate' = fate
    BY <1>0, <1>5 DEF BeginAppend, Free
  <2>2. s.phase = "line" /\ s.entry = e
    BY DEF Started, Idle
  <2>3. /\ e \in Entries /\ ~InQueue(e)'
        /\ \A x : InQueue(x) <=> InQueue(x)' \/ x = e
        /\ \A i, k \in 1 .. Len(queue') : queue'[i] = queue'[k] => i = k
    BY <1>0, <2>1, Shorter DEF OnceInv
  <2> HIDE DEF s
  <2>4. \A x : AtHand(x)' <=> x = e
    BY <2>1, <2>2 DEF AtHand, At
  <2>5. \A x : ~AtHand(x)
    BY <2>1 DEF AtHand, At
  <2> QED
    BY <2>1, <2>2, <2>3, <2>4, <2>5 DEF OnceInv, QueuedIsWaiting, At
<1>6. ASSUME job[Appender].phase = "line", UNCHANGED queue, Tried(job[Appender].entry),
             job'[Appender].phase \in {"list", "idle"},
             job'[Appender].entry = job[Appender].entry \/ job'[Appender].phase = "idle"
      PROVE  OnceInv'
  <2> DEFINE e == job[Appender].entry
  <2>1. e \in Entries /\ AtHand(e) /\ fate[e] = "queued" /\ \A x : AtHand(x) <=> x = e
    BY <1>6, <1>a DEF OnceInv, QueuedIsWaiting, AtHand, At
  <2>2. fate' = [fate EXCEPT ![e] = "tried"]
    BY <1>0, <1>6, <2>1 DEF Tried
  <2>3. \A x \in Entries : ~AtHand(x)'
    BY <1>6 DEF AtHand, At
  <2>4. \A x \in Entries : InQueue(x)' <=> InQueue(x)
    BY <1>6 DEF InQueue
  <2>5. QueuedIsWaiting'
    BY <1>0, <2>1, <2>2, <2>3, <2>4 DEF OnceInv, QueuedIsWaiting
  <2>6. At(Appender, "list")' => fate'[job'[Appender].entry] \notin Untried
    BY <1>0, <1>6, <2>1, <2>2 DEF At, Untried
  <2> QED
    BY <1>6, <2>3, <2>5, <2>6 DEF OnceInv
<1>7. CASE AppendLine
  <2>1. Goto(Appender, "list")
    BY <1>7 DEF AppendLine
  <2>2. job'[Appender].phase = "list" /\ job'[Appender].entry = job[Appender].entry
    BY <1>0, <2>1, GotoJob DEF Phases
  <2> QED
    BY <1>6, <1>7, <2>2 DEF AppendLine, At
<1>11. CASE AppendPart
  <2>1. job[Appender].phase = "line" /\ job'[Appender].phase = "idle"
    BY <1>0, <1>11 DEF AppendPart, At
  <2> QED
    BY <1>6, <1>11, <2>1 DEF AppendPart
<1>8. CASE ListEntry
  <2>1. \E c : CallSave(Appender, c)
    BY <1>8 DEF ListEntry
  <2>2. job'[Appender].phase = "save"
    BY <1>0, <2>1 DEF CallSave, JobState
  <2> QED
    BY <1>8, <2>2 DEF ListEntry, OnceInv, QueuedIsWaiting, InQueue, AtHand, At, disk
<1>9. ASSUME NEW j \in Jobs, Fails(j) PROVE OnceInv'
  <2>1. job' = [job EXCEPT ![j] = Idle] /\ UNCHANGED queue
    BY <1>9 DEF Fails, LeavesQueue
  <2>2. CASE job[j].phase = "line"
    <3>1. j = Appender
      BY <2>2 DEF Frame, Shapes, Shape
    <3>2. Tried(job[Appender].entry)
      BY <1>9, <2>2, <3>1 DEF Fails, At
    <3> QED
      BY <1>0, <1>6, <2>1, <2>2, <3>1, <3>2
  <2>3. CASE job[j].phase # "line"
    <3>1. fate' = fate /\ job[j].phase # "line"
      BY <1>9, <2>3 DEF Fails, At
    <3>2. job'[Appender] = job[Appender] \/ (job'[Appender] = Idle /\ j = Appender)
      BY <1>0, <2>1
    <3> QED
      BY <1>0, <2>1, <3>1, <3>2 DEF OnceInv, QueuedIsWaiting, InQueue, AtHand, At
  <2> QED
    BY <2>2, <2>3
<1>10. CASE Crash
  <2>1. queue' = <<>> /\ job'[Appender].phase = "idle"
    BY <1>0, <1>10 DEF Crash
  <2>2. \A e \in Entries : fate'[e] # "queued"
    BY <1>0, <1>10 DEF Crash
  <2>3. \A x : ~InQueue(x)' /\ ~AtHand(x)'
    BY <2>1 DEF InQueue, AtHand, At
  <2> QED
    BY <2>1, <2>2, <2>3 DEF OnceInv, QueuedIsWaiting, At
<1> QED
  BY <1>1, <1>2, <1>3, <1>4, <1>5, <1>7, <1>8, <1>9, <1>10, <1>11 DEF Next

\* Both hold in every reachable state.
LEMMA OnceAlways == Spec => [](Frame /\ NothingEarly /\ OnceInv)
<1>1. Init => NothingEarly /\ OnceInv
  <2> SUFFICES ASSUME Init PROVE NothingEarly /\ OnceInv
    OBVIOUS
  <2>1. /\ \A j \in Jobs : job[j] = Idle
        /\ Idle.phase = "idle" /\ Idle.snap = Nothing /\ Appender \in Jobs
    BY DEF Init, Idle, Jobs
  <2>2. NothingEarly
    BY <2>1 DEF Init, NothingEarly, Blank, Nothing, Parses
  <2>3. OnceInv
    BY <2>1 DEF Init, OnceInv, QueuedIsWaiting, InQueue, AtHand, At
  <2> QED
    BY <2>2, <2>3
<1>2. Frame /\ NothingEarly /\ OnceInv /\ [Next]_vars => (NothingEarly /\ OnceInv)'
  BY BlankInductive, OnceInductive
<1> QED
  BY <1>1, <1>2, FrameInit, FrameStep, PTL DEF Spec

\* Whatever calls run beside each other, break off or crash: an entry that was not
\* appended yet is in no file and no index, and no call can bring it there.
THEOREM NothingIsEarly == Spec => []NothingEarly
BY OnceAlways, PTL

\* No call, failure or company loses an entry that was logged before its append had its
\* turn: it waits in the queue or is at hand, once.  The half of EveryAppendTried that
\* needs no fairness.
THEOREM QueuedAlwaysWaits == Spec => []QueuedIsWaiting
<1>1. OnceInv => QueuedIsWaiting
  BY DEF OnceInv
<1> QED
  BY <1>1, OnceAlways, PTL

\* An entry's line is appended at most once, in whole or in part: the append is of a
\* queued entry, and what was tried never comes back to the queue.
AppendedOnce ==
    [][/\ AppendLine \/ AppendPart =>
                        /\ fate[job[Appender].entry] = "queued"
                        /\ fate'[job[Appender].entry] = "tried"
       /\ \A e \in Entries : fate[e] \notin Untried => fate'[e] \notin Untried]_vars

\* The queue of promises runs each append once, whatever fails on the way: no line is
\* written twice, and a failed one is not written later behind its caller's back.
THEOREM AppendsHappenOnce == Spec => AppendedOnce
<1> DEFINE A == /\ AppendLine \/ AppendPart =>
                                 /\ fate[job[Appender].entry] = "queued"
                                 /\ fate'[job[Appender].entry] = "tried"
                /\ \A e \in Entries : fate[e] \notin Untried => fate'[e] \notin Untried
<1>1. Frame /\ NothingEarly /\ OnceInv /\ [Next]_vars => [A]_vars
  <2> SUFFICES ASSUME Frame, NothingEarly, OnceInv, Next PROVE A
    OBVIOUS
  <2>0. TypeOK /\ fate \in [Entries -> Fates] /\ Appender \in Jobs
    BY DEF Frame, TypeOK, Jobs
  <2>1. ASSUME AppendLine \/ AppendPart PROVE /\ fate[job[Appender].entry] = "queued"
                                /\ fate'[job[Appender].entry] = "tried"
    <3>1. job[Appender].entry \in Entries
      BY <2>0, <2>1 DEF AppendLine, AppendPart, At, Frame, Shapes, Shape
    <3>2. fate[job[Appender].entry] = "queued"
      BY <2>1, <3>1 DEF AppendLine, AppendPart, OnceInv, QueuedIsWaiting, AtHand
    <3> QED
      BY <2>0, <2>1, <3>1, <3>2 DEF AppendLine, AppendPart, Tried
  <2>2. \A e \in Entries : fate'[e] \in Untried => fate[e] \in Untried
    <3>1. CASE KeepsUntried
      BY <3>1 DEF KeepsUntried
    <3>2. CASE UNCHANGED fate
      BY <3>2
    <3>3. ASSUME NEW e \in Entries, Log(e)
          PROVE  \A x \in Entries : fate'[x] \in Untried => fate[x] \in Untried
      BY <2>0, <3>3 DEF Log, Untried
    <3>4. CASE AppendLine \/ AppendPart \/ Crash \/ \E j \in Jobs : Fails(j)
      BY <2>0, <3>4 DEF AppendLine, AppendPart, Crash, Fails, Tried, Untried
    <3>5. CASE BeginAppend \/ ListEntry
      BY <3>2, <3>5 DEF BeginAppend, ListEntry
    <3> QED
      BY <2>0, <3>1, <3>3, <3>4, <3>5, CallKeeps DEF Next
  <2> QED
    BY <2>1, <2>2
<1> QED
  BY <1>1, OnceAlways, PTL DEF Spec, AppendedOnce
=============================================================================
