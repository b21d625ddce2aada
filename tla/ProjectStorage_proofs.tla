------------------------- MODULE ProjectStorage_proofs -------------------------
(***************************************************************************)
(* Proofs about ProjectStorage, for any tree of collections, folders and   *)
(* requests.                                                               *)
(*                                                                         *)
(* A save writes a directory's metadata after everything inside, so what   *)
(* it has still to write is a tree at every moment: a directory that is    *)
(* written has nothing below it left to write.  Everything else hangs on   *)
(* this, and on files lying in directories that exist.                     *)
(***************************************************************************)
EXTENDS ProjectStorage, TLAPS

Kin(i) == {i} \cup Above[i]

\* Only the running app saves, and it is down with nothing under way.
Modes == /\ app # "running" => pending = None /\ ~save.on
         /\ app = "down" => ~load.on
         /\ save.payload \in Trees /\ save.todo \in Trees /\ load.got \in Trees
Placed == /\ \A d \in dirs : Above[d] \subseteq dirs
          /\ \A i \in Items : file[i] # "absent" =>
                Above[i] \subseteq dirs /\ (i \in Dirs => i \in dirs)

\* Where the save is, and what it has open.
Position ==
    /\ save.todo \subseteq save.payload
    /\ save.at # Root => /\ save.at \in save.payload /\ Kin(save.at) \subseteq dirs
                         /\ Above[save.at] \subseteq save.todo
    /\ Writing => /\ save.writing \in save.todo
                  /\ \/ save.writing \in Requests /\ Home[save.writing] = save.at
                     \/ save.writing = save.at /\ Waiting(save.at) = {}
                  /\ file[save.writing] = "torn" \/ save.writing \in aside
\* What it has written, what it has left as it was, and what it has cleaned up.
Written == \A i \in save.payload \ save.todo : file[i] = "whole" \/ i \in aside
Unwritten == save.todo \cap Loadable \subseteq save.base
Cleaned ==
    \A d \in Dirs : d \in save.payload \ save.todo /\ d # save.at =>
        \A i \in Items : Home[i] = d /\ i \notin save.payload => ~Exists(i)
Kept == \A i \in save.base \cap save.payload :
            file[i] = "whole" \/ save.writing = i \/ i \in aside
SaveSound == save.on => Position /\ Written /\ Unwritten /\ Cleaned /\ Kept

\* A load finds what can be loaded, unless something disturbs it.
LoadSound == load.on =>
    /\ \A i \in load.todo : Above[i] \subseteq load.got
    /\ app = "loading" /\ trusted =>
          /\ load.got \subseteq Loadable
          /\ \A i \in Loadable \ load.got : \E j \in Kin(i) : j \in load.todo

\* In a session without reloads, the disk follows what is shown.
Followed == app = "running" /\ trusted =>
    /\ ~load.on
    /\ pending # None => pending = mem
    /\ save.on => /\ \A i \in save.payload \ save.todo : file[i] = "whole"
                  /\ Writing => file[save.writing] = "torn"
                  /\ pending = None => save.payload = mem
    /\ pending = None /\ ~save.on /\ ~saveFailed => Loadable = mem

Inv == TypeOK /\ Modes /\ Placed /\ SaveSound /\ LoadSound /\ Followed

-----------------------------------------------------------------------------
(* The tree of directories *)

\* What is around an item: nothing, or its directory and what is around that.
LEMMA Around ==
    ASSUME NEW i \in Items
    PROVE  /\ i # Root /\ i # None
           /\ Home[i] = Root => Above[i] = {}
           /\ Home[i] # Root => /\ Home[i] \in Dirs /\ Home[i] \in Items
                                /\ Above[i] = {Home[i]} \cup Above[Home[i]]
           /\ Above[i] \subseteq Dirs /\ Above[i] \subseteq Items
BY ConstantsAssumption DEF Items

\* A set of items that has, with an item, the directory it is in, is empty.
LEMMA NoChain ==
    ASSUME NEW s \in SUBSET Items, \A i \in s : Home[i] \in s
    PROVE  s = {}
BY ConstantsAssumption

\* The directories around a directory around i are around i.
LEMMA AboveAbove ==
    \A i \in Items : \A j \in Above[i] : Above[j] \subseteq Above[i]
<1> DEFINE s == {i \in Items : \E j \in Above[i] : ~(Above[j] \subseteq Above[i])}
<1>1. ASSUME NEW i \in s
      PROVE  Home[i] \in s
  <2>1. PICK j \in Above[i] : ~(Above[j] \subseteq Above[i])
    OBVIOUS
  <2>2. Home[i] # Root /\ Home[i] \in Items /\ Above[i] = {Home[i]} \cup Above[Home[i]]
    BY <2>1, Around
  <2>3. j # Home[i]
    BY <2>1, <2>2
  <2> QED
    BY <2>1, <2>2, <2>3
<1>2. s = {}
  BY <1>1, NoChain
<1> QED
  BY <1>2

\* From any item a path leads up to each directory around it, and to the root.
LEMMA PathUp ==
    \A i \in Items : \A j \in Above[i] \cup {Root} : \E c \in Kin(i) : Home[c] = j
<1> SUFFICES ASSUME NEW j
             PROVE  \A i \in Items : j \in Above[i] \cup {Root} =>
                        \E c \in Kin(i) : Home[c] = j
  OBVIOUS
<1> DEFINE s == {i \in Items : j \in Above[i] \cup {Root} /\ \A c \in Kin(i) : Home[c] # j}
<1>1. ASSUME NEW i \in s
      PROVE  Home[i] \in s
  <2>1. i \in Kin(i) /\ Home[i] # j
    BY DEF Kin
  <2>2. Home[i] # Root
    BY <2>1, Around
  <2>3. Home[i] \in Items /\ Above[i] = {Home[i]} \cup Above[Home[i]]
    BY <2>2, Around
  <2>4. j \in Above[Home[i]] \cup {Root} /\ Kin(Home[i]) \subseteq Kin(i)
    BY <2>1, <2>3 DEF Kin
  <2> QED
    BY <2>3, <2>4
<1>2. s = {}
  BY <1>1, NoChain
<1> QED
  BY <1>2

\* What is not in a tree has, on the way up, something that just is not in it.
LEMMA Edge ==
    ASSUME NEW t \in Trees, NEW i \in Items, i \notin t
    PROVE  \E c \in Kin(i) : c \notin t /\ Home[c] \in t \cup {Root}
<1> DEFINE s == {c \in Kin(i) : c \notin t}
<1>1. s \subseteq Items /\ i \in s
  BY Around DEF Kin
<1>2. PICK c \in s : Home[c] \notin s
  BY <1>1, ConstantsAssumption
<1>3. Home[c] = Root \/ Home[c] \in Kin(i)
  BY <1>1, <1>2, Around, AboveAbove DEF Kin
<1> QED
  BY <1>2, <1>3

\* Nothing is around itself.
LEMMA NotAboveSelf == \A i \in Items : i \notin Above[i]
<1> DEFINE s == {i \in Items : i \in Above[i]}
<1>1. ASSUME NEW i \in s
      PROVE  Home[i] \in s
  BY Around, AboveAbove
<1> QED
  BY <1>1, NoChain

-----------------------------------------------------------------------------
(* Types *)

\* The fields of the save and the load have their types.
LEMMA Fields ==
    ASSUME TypeOK
    PROVE  /\ save.on \in BOOLEAN /\ save.payload \in SUBSET Items /\ save.todo \in SUBSET Items
           /\ save.at \in Dirs \cup {Root} /\ save.writing \in Items \cup {None}
           /\ save.base \in SUBSET Items
           /\ load.on \in BOOLEAN /\ load.todo \in SUBSET Items /\ load.got \in SUBSET Items
           /\ NoSave \in SaveState /\ NoLoad \in LoadState
           /\ ~NoSave.on /\ NoSave.payload = {} /\ NoSave.todo = {} /\ ~NoLoad.on
           /\ NoSave.at = Root /\ NoSave.writing = None /\ NoLoad.got = {} /\ NoLoad.todo = {}
BY DEF TypeOK, SaveState, LoadState, NoSave, NoLoad

\* With the contents of a directory all written, nothing below it is left.
LEMMA NoneBelow ==
    ASSUME save.todo \in Trees, NEW d \in Dirs \cup {Root}, Waiting(d) = {}
    PROVE  /\ \A i \in save.todo : d \notin Above[i]
           /\ d = Root => save.todo = {}
<1>1. ASSUME NEW i \in save.todo, d \in Above[i] \cup {Root}
      PROVE  FALSE
  <2>1. i \in Items
    BY DEF Trees
  <2>2. PICK c \in Kin(i) : Home[c] = d
    BY <1>1, <2>1, PathUp
  <2>3. c \in save.todo
    BY <2>2 DEF Kin, Trees
  <2> QED
    BY <2>2, <2>3 DEF Waiting
<1> QED
  BY <1>1

\* What a write leaves to be written is a tree.
LEMMA TodoTree ==
    ASSUME TypeOK, save.todo \in Trees, Position, Writing
    PROVE  save.todo \ {save.writing} \in Trees
<1>1. ASSUME NEW i \in save.todo
      PROVE  save.writing \notin Above[i]
  <2>1. i \in Items
    BY DEF Trees
  <2>2. CASE save.writing \in Requests
    BY <2>1, <2>2, Around, ConstantsAssumption
  <2>3. CASE save.writing = save.at /\ Waiting(save.at) = {}
    BY <2>3, NoneBelow, Fields
  <2> QED
    BY <2>2, <2>3 DEF Position
<1> QED
  BY <1>1 DEF Trees

\* A tree without all that is in or at some item is a tree.
LEMMA Cut ==
    ASSUME NEW t \in Trees, NEW i \in Items
    PROVE  t \ Within(i) \in Trees
<1>1. ASSUME NEW j \in t \ Within(i), NEW k \in Above[j]
      PROVE  k \in t \ Within(i)
  <2>1. j \in Items /\ k \in t /\ k \in Items
    BY Around DEF Trees
  <2> QED
    BY <2>1, AboveAbove DEF Within
<1> QED
  BY <1>1 DEF Trees

\* What a read adds to a load leaves it a tree.
LEMMA Grow ==
    ASSUME NEW t \in Trees, NEW i \in Items, Above[i] \subseteq t
    PROVE  t \cup {i} \in Trees
BY DEF Trees

\* Every step keeps the types, and the payload, what is to do and what is loaded trees.
LEMMA TypeStep == ASSUME Inv, Next PROVE TypeOK' /\ Modes'
<1> USE Fields DEF Inv
<1>0. {} \in Trees
  BY DEF Trees
<1>1. CASE Edit
  BY <1>1 DEF Edit, disk, TypeOK, Modes
<1>2. CASE StartSave
  <2>1. save' = [on |-> TRUE, payload |-> pending, todo |-> pending, at |-> Root,
                 writing |-> None, base |-> Loadable]
    BY <1>2 DEF StartSave, NoSave
  <2>2. pending \in Trees /\ Loadable \subseteq Items
    BY <1>2 DEF StartSave, TypeOK, Loadable
  <2>3. save' \in SaveState
    BY <2>1, <2>2 DEF SaveState, Trees
  <2> QED
    BY <1>2, <2>1, <2>2, <2>3 DEF StartSave, disk, TypeOK, Modes
<1>3. ASSUME NEW d \in Dirs, EnterDir(d)
      PROVE  TypeOK' /\ Modes'
  BY <1>3 DEF EnterDir, KeepDir, TypeOK, Modes, SaveState
<1>4. ASSUME NEW i \in Items, OpenFile(i)
      PROVE  TypeOK' /\ Modes'
  BY <1>4 DEF OpenFile, TypeOK, Modes, SaveState
<1>5. CASE WriteFile
  <2>1. save.todo \ {save.writing} \in Trees
    BY <1>5, TodoTree DEF WriteFile, SaveSound, Modes
  <2>2. save' \in SaveState /\ save'.payload = save.payload
        /\ save'.todo = save.todo \ {save.writing} /\ save'.on = save.on
    BY <1>5 DEF WriteFile, TypeOK, SaveState
  <2>3. file' \in [Items -> {"absent", "torn", "whole"}]
    BY <1>5 DEF WriteFile, TypeOK
  <2> QED
    BY <1>5, <2>1, <2>2, <2>3 DEF WriteFile, TypeOK, Modes
<1>6. CASE RemoveOrphan
  BY <1>6 DEF RemoveOrphan, TypeOK, Modes
<1>7. CASE LeaveDir
  <2>1. Home[save.at] \in Dirs \cup {Root}
    BY <1>7, ConstantsAssumption DEF LeaveDir, Items
  <2> QED
    BY <1>7, <2>1 DEF LeaveDir, disk, TypeOK, Modes, SaveState
<1>8. CASE SaveEnds \/ SaveFails
  BY <1>0, <1>8 DEF SaveEnds, SaveFails, disk, TypeOK, Modes
<1>9. CASE Launch \/ Reload
  <2>1. load' = [on |-> TRUE, todo |-> TopDirs, got |-> {}]
    BY <1>9 DEF Launch, Reload
  <2>2. TopDirs \in SUBSET Items
    BY DEF TopDirs, TypeOK, Items
  <2>3. load' \in LoadState /\ load'.got = {}
    BY <2>1, <2>2 DEF LoadState
  <2> QED
    BY <1>0, <1>9, <2>3 DEF Launch, Reload, disk, TypeOK, Modes
<1>10. ASSUME NEW i \in Items, Read(i)
       PROVE  TypeOK' /\ Modes'
  <2>1. load.got \cup {i} \in Trees
    BY <1>10, Grow DEF Read, LoadSound, Modes
  <2>2. Listed(i) \subseteq Items
    BY DEF Listed
  <2>3. load' \in LoadState /\ load'.on = load.on /\ load'.got \in {load.got, load.got \cup {i}}
    <3>1. \/ load' = [load EXCEPT !.todo = (@ \ {i}) \cup Listed(i), !.got = @ \cup {i}]
          \/ load' = [load EXCEPT !.todo = @ \ {i}]
      BY <1>10 DEF Read, ReadWhole, ReadTorn, ReadAbsent, ReadError
    <3>2. load \in LoadState /\ load.todo \in SUBSET Items /\ load.got \in SUBSET Items
      BY DEF TypeOK
    <3>3. CASE load' = [load EXCEPT !.todo = @ \ {i}]
      BY <3>2, <3>3 DEF LoadState
    <3>4. CASE load' = [load EXCEPT !.todo = (@ \ {i}) \cup Listed(i), !.got = @ \cup {i}]
      <4>1. /\ (load.todo \ {i}) \cup Listed(i) \in SUBSET Items
            /\ load.got \cup {i} \in SUBSET Items
        BY <2>2, <3>2
      <4> QED
        BY <3>2, <3>4, <4>1 DEF LoadState
    <3> QED
      BY <3>1, <3>3, <3>4
  <2>4. /\ file' \in [Items -> {"absent", "torn", "whole"}] /\ aside' \in SUBSET Items
        /\ trusted' \in BOOLEAN
    BY <1>10 DEF Read, ReadWhole, ReadTorn, ReadAbsent, ReadError, TypeOK
  <2> QED
    BY <1>10, <2>1, <2>3, <2>4 DEF Read, TypeOK, Modes
<1>11. CASE ListError
  <2>1. PICK lost \in {Items} \cup {Within(c) : c \in {d \in load.got : Home[d] = Root}} :
              load' = [load EXCEPT !.todo = @ \ lost, !.got = @ \ lost]
    BY <1>11 DEF ListError
  <2>2. load' \in LoadState /\ load'.on = load.on /\ load'.got = load.got \ lost
    BY <2>1 DEF TypeOK, LoadState
  <2>3. load.got \ lost \in Trees
    BY <1>0, <2>1, Cut DEF Modes, Trees
  <2> QED
    BY <1>11, <2>2, <2>3 DEF ListError, disk, TypeOK, Modes
<1>12. CASE LoadAborts \/ ShowLoaded \/ Crash
  BY <1>0, <1>12 DEF LoadAborts, ShowLoaded, Crash, disk, TypeOK, Modes
<1>13. ASSUME NEW i \in Items, Damage(i)
       PROVE  TypeOK' /\ Modes'
  BY <1>13 DEF Damage, TypeOK, Modes
<1> QED
  BY <1>1, <1>2, <1>3, <1>4, <1>5, <1>6, <1>7, <1>8, <1>9, <1>10, <1>11, <1>12, <1>13
     DEF Next, SaveStep, LoadStep

-----------------------------------------------------------------------------
(* Files lie in directories that exist *)

\* Cleanup takes nothing that the payload has, nor a directory around it.
LEMMA OrphansOutside ==
    ASSUME TypeOK, save.payload \in Trees, NEW o \in Orphans, NEW i \in save.payload
    PROVE  i \notin Within(o) /\ (i \in Items => \A j \in Above[i] : j \notin Within(o))
<1>1. i \in Items /\ Above[i] \subseteq save.payload /\ o \in Items /\ o \notin save.payload
  BY DEF Trees, Orphans
<1> QED
  BY <1>1, AboveAbove DEF Within

\* Every step leaves files in directories that exist.
LEMMA PlacedStep == ASSUME Inv, Next PROVE Placed'
<1> USE Fields DEF Inv
<1>1. CASE UNCHANGED <<file, dirs>>
  BY <1>1 DEF Placed
<1>2. ASSUME NEW d \in Dirs, EnterDir(d)
      PROVE  Placed'
  <2>1. d \in Items /\ Home[d] = save.at /\ dirs' = dirs \cup {d} /\ UNCHANGED file
    BY <1>2 DEF EnterDir, KeepDir, Waiting, Items
  <2>2. Above[d] \subseteq dirs
    BY <1>2, <2>1, Around DEF EnterDir, SaveSound, Position, Kin
  <2> QED
    BY <2>1, <2>2 DEF Placed
<1>3. ASSUME NEW i \in Items, OpenFile(i)
      PROVE  Placed'
  <2>1. save.on /\ dirs' = dirs /\ file' = [file EXCEPT ![i] = "torn"]
    BY <1>3 DEF OpenFile
  <2>2. \/ i \in Requests /\ i \notin Dirs /\ Home[i] = save.at
        \/ i = save.at
    BY <1>3, ConstantsAssumption DEF OpenFile, NextFile, Waiting
  <2>3. Above[i] \subseteq dirs /\ (i \in Dirs => i \in dirs)
    BY <2>1, <2>2, Around DEF SaveSound, Position, Kin
  <2> QED
    BY <2>1, <2>3 DEF Placed, TypeOK
<1>4. CASE WriteFile
  BY <1>4 DEF WriteFile, Placed, TypeOK
<1>5. CASE RemoveOrphan
  <2>1. PICK o \in Orphans :
              /\ file' = [j \in Items |-> IF j \in Within(o) THEN "absent" ELSE file[j]]
              /\ dirs' = dirs \ Within(o)
    BY <1>5 DEF RemoveOrphan
  <2>2. o \in Items
    BY DEF Orphans
  <2>3. \A i \in Items : i \notin Within(o) => Above[i] \cap Within(o) = {}
    BY <2>2, AboveAbove DEF Within
  <2>4. ASSUME NEW d \in dirs'
        PROVE  Above[d] \subseteq dirs'
    BY <2>1, <2>3 DEF Placed, TypeOK, Items
  <2>5. ASSUME NEW i \in Items, file'[i] # "absent"
        PROVE  Above[i] \subseteq dirs' /\ (i \in Dirs => i \in dirs')
    <3>1. i \notin Within(o) /\ file[i] # "absent"
      BY <2>1, <2>5
    <3> QED
      BY <2>1, <2>3, <3>1 DEF Placed
  <2> QED
    BY <2>4, <2>5 DEF Placed
<1>6. ASSUME NEW i \in Items, Read(i)
      PROVE  Placed'
  <2>1. dirs' = dirs /\ (file' = file \/ file' = [file EXCEPT ![i] = "absent"])
    BY <1>6 DEF Read, ReadWhole, ReadTorn, ReadAbsent, ReadError
  <2> QED
    BY <2>1 DEF Placed, TypeOK
<1>7. ASSUME NEW i \in Items, Damage(i)
      PROVE  Placed'
  BY <1>7 DEF Damage, Placed, TypeOK
<1> QED
  BY <1>1, <1>2, <1>3, <1>4, <1>5, <1>6, <1>7
     DEF Next, SaveStep, LoadStep, Edit, StartSave, LeaveDir, SaveEnds, SaveFails, Launch, Reload,
         ListError, LoadAborts, ShowLoaded, Crash, disk

-----------------------------------------------------------------------------
(* The save *)

\* When a directory is being cleaned up, no file is open.
LEMMA CleaningIdle ==
    ASSUME TypeOK, Position, Cleaning
    PROVE  ~Writing
BY Fields DEF Position, Cleaning, Waiting

\* Nor are the backups of what the payload has in what cleanup takes.
LEMMA BackupsOutside ==
    ASSUME TypeOK, save.payload \in Trees, NEW o \in Orphans, NEW i \in save.payload
    PROVE  i \notin Swept(o)
<1>1. i \in Items
  BY DEF Trees
<1>2. BackupDir(i) \in Kin(i)
  BY <1>1, Around, ConstantsAssumption DEF BackupDir, Kin, Items
<1> QED
  BY <1>1, <1>2, OrphansOutside DEF Swept, Kin

\* With no more files, no more can be loaded.
LEMMA FewerLoadable ==
    ASSUME \A i \in Items : file'[i] = "whole" => file[i] = "whole"
    PROVE  Loadable' \subseteq Loadable
BY Around DEF Loadable

\* A new save has all to do.
LEMMA StartSound == ASSUME Inv, StartSave PROVE SaveSound'
<1>1. save' = [on |-> TRUE, payload |-> pending, todo |-> pending, at |-> Root,
               writing |-> None, base |-> Loadable]
  BY Fields DEF StartSave, NoSave, Inv
<1>2. /\ save'.payload = save'.todo /\ save'.at = Root /\ save'.writing = None
      /\ save'.base = Loadable
  BY <1>1
<1>3. UNCHANGED <<file, aside>> /\ Loadable' = Loadable
  BY DEF StartSave, disk, Loadable
<1>4. Position'
  BY <1>2 DEF Position, Writing
<1>5. Written' /\ Cleaned'
  BY <1>2 DEF Written, Cleaned
<1>6. Unwritten' /\ Kept'
  BY <1>2, <1>3, Fields DEF Unwritten, Kept, Loadable
<1> QED
  BY <1>4, <1>5, <1>6 DEF SaveSound

\* Entering a directory: what is around it is still to be written.
LEMMA EnterSound == ASSUME Inv, NEW d \in Dirs, EnterDir(d) PROVE SaveSound'
<1>1. /\ save.on /\ ~Writing /\ d \in save.todo /\ Home[d] = save.at
      /\ UNCHANGED <<file, aside>> /\ dirs' = dirs \cup {d}
  BY DEF EnterDir, KeepDir, Waiting
<1>2. /\ save'.at = d /\ save'.payload = save.payload /\ save'.todo = save.todo
      /\ save'.base = save.base /\ save'.writing = save.writing
  BY DEF EnterDir, Inv, TypeOK, SaveState
<1>3. /\ Position /\ Written /\ Unwritten /\ Cleaned /\ Kept
      /\ d \in Items /\ d # Root /\ Above[d] \subseteq save.todo
  BY <1>1, Around DEF Inv, SaveSound, Modes, Trees, Items
<1>4. Kin(d) \subseteq dirs'
  BY <1>1, <1>3, Around DEF Position, Kin
<1>5. Position'
  BY <1>1, <1>2, <1>3, <1>4 DEF Position, Writing
<1>6. Written' /\ Unwritten' /\ Kept'
  BY <1>1, <1>2, <1>3 DEF Written, Unwritten, Kept, Loadable
<1>7. Cleaned'
  <2>1. ASSUME NEW x \in Dirs, x \in save.payload \ save.todo, x # d,
               NEW i \in Items, Home[i] = x, i \notin save.payload
        PROVE  file[i] = "absent" /\ i \notin dirs \cup {d}
    <3>1. x # save.at
      BY <1>1, <1>3, <2>1, Around, ConstantsAssumption DEF Items
    <3>2. d # i
      BY <1>1, <1>3, <2>1 DEF Position
    <3> QED
      BY <1>3, <2>1, <3>1, <3>2 DEF Cleaned, Exists
  <2> QED
    BY <1>1, <1>2, <2>1 DEF Cleaned, Exists
<1> QED
  BY <1>5, <1>6, <1>7 DEF SaveSound

\* Opening a file: it was to be written, and nothing more can be loaded.
LEMMA OpenSound == ASSUME Inv, NEW i \in Items, OpenFile(i) PROVE SaveSound'
<1>1. /\ save.on /\ ~Writing /\ i \in save.todo /\ NextFile(i)
      /\ UNCHANGED <<dirs, aside>> /\ file' = [file EXCEPT ![i] = "torn"]
  BY DEF OpenFile
<1>2. /\ save'.at = save.at /\ save'.payload = save.payload /\ save'.todo = save.todo
      /\ save'.base = save.base /\ save'.writing = i
  BY DEF OpenFile, Inv, TypeOK, SaveState
<1>3. Position /\ Written /\ Unwritten /\ Cleaned /\ Kept
  BY <1>1 DEF Inv, SaveSound
<1>4. /\ file'[i] = "torn" /\ \A j \in Items : j # i => file'[j] = file[j]
      /\ save.payload \subseteq Items /\ save.base \subseteq Items
  BY <1>1, Fields DEF Inv, TypeOK
<1>5. \/ i \in Requests /\ Home[i] = save.at
      \/ i = save.at /\ Waiting(save.at) = {}
  BY <1>1 DEF NextFile, Waiting
<1>6. Position'
  BY <1>1, <1>2, <1>3, <1>4, <1>5 DEF Position, Waiting, Writing
<1>7. Written' /\ Cleaned'
  BY <1>1, <1>2, <1>3, <1>4 DEF Written, Cleaned, Exists, Position
<1>8. Unwritten'
  BY <1>2, <1>3, <1>4, FewerLoadable DEF Unwritten
<1>9. Kept'
  BY <1>1, <1>2, <1>3, <1>4, Around DEF Kept, Writing
<1> QED
  BY <1>6, <1>7, <1>8, <1>9 DEF SaveSound

\* Writing a file makes something loadable only when nothing below is left to write.
LEMMA WriteSound == ASSUME Inv, WriteFile PROVE SaveSound'
<1> DEFINE w == save.writing
<1>1. /\ save.on /\ Writing /\ UNCHANGED <<dirs, aside>>
      /\ file' = [file EXCEPT ![w] = IF @ = "torn" THEN "whole" ELSE @]
  BY DEF WriteFile
<1>2. /\ save'.at = save.at /\ save'.payload = save.payload /\ save'.todo = save.todo \ {w}
      /\ save'.base = save.base /\ save'.writing = None
  BY DEF WriteFile, Inv, TypeOK, SaveState
<1>3. Position /\ Written /\ Unwritten /\ Cleaned /\ Kept
  BY <1>1 DEF Inv, SaveSound
<1>4. /\ w \in Items /\ w \in save.todo
      /\ w \in Requests \/ w = save.at
  BY <1>1, <1>3, Fields DEF Inv, Position, Writing
<1>5. /\ file'[w] = IF file[w] = "torn" THEN "whole" ELSE file[w]
      /\ \A j \in Items : j # w => file'[j] = file[j]
      /\ save.payload \subseteq Items /\ save.base \subseteq Items
  BY <1>1, <1>4, Fields DEF Inv, TypeOK
<1>6. file'[w] = "whole" \/ w \in aside
  BY <1>1, <1>3, <1>5 DEF Position
<1>7. save.todo \ {w} \in Trees
  BY <1>1, <1>3, TodoTree DEF Inv, Modes
<1>8. save.at # Root => w \notin Above[save.at]
  BY <1>3, <1>4, <1>5, Around, NotAboveSelf, ConstantsAssumption DEF Position
<1>9. Position'
  BY <1>1, <1>2, <1>3, <1>8 DEF Position, Writing
<1>10. Written'
  BY <1>1, <1>2, <1>3, <1>5, <1>6 DEF Written
<1>11. Unwritten'
  <2>1. ASSUME NEW d \in save.todo \ {w}, d \in Loadable'
        PROVE  d \in Loadable
    <3>1. d \in Items /\ w \notin {d} \cup Above[d] /\ Above[d] \subseteq Items
      BY <1>7, <2>1, Around DEF Trees
    <3> QED
      BY <1>5, <2>1, <3>1 DEF Loadable
  <2> QED
    BY <1>2, <1>3, <2>1 DEF Unwritten
<1>12. Cleaned'
  <2>1. \A i \in Items : Exists(i)' => Exists(i)
    BY <1>1, <1>5 DEF Exists
  <2>2. \A x \in Dirs : x # save.at => x # w
    BY <1>4, ConstantsAssumption
  <2> QED
    BY <1>2, <1>3, <2>1, <2>2 DEF Cleaned
<1>13. Kept'
  BY <1>1, <1>2, <1>3, <1>5, <1>6 DEF Kept
<1> QED
  BY <1>9, <1>10, <1>11, <1>12, <1>13 DEF SaveSound

\* Cleanup takes nothing that the payload has.
LEMMA RemoveSound == ASSUME Inv, RemoveOrphan PROVE SaveSound'
<1>1. PICK o \in Orphans :
            /\ file' = [j \in Items |-> IF j \in Within(o) THEN "absent" ELSE file[j]]
            /\ dirs' = dirs \ Within(o)
            /\ aside' = aside \ Swept(o)
  BY DEF RemoveOrphan
<1>2. save.on /\ Cleaning /\ save' = save
  BY DEF RemoveOrphan, Cleaning
<1>3. Position /\ Written /\ Unwritten /\ Cleaned /\ Kept
  BY <1>2 DEF Inv, SaveSound
<1>4. ~Writing
  BY <1>2, <1>3, CleaningIdle DEF Inv
<1>5. ASSUME NEW i \in save.payload
      PROVE  /\ i \in Items /\ file'[i] = file[i] /\ (i \in aside => i \in aside')
             /\ Kin(i) \cap Within(o) = {}
  <2>1. i \in Items
    BY Fields DEF Inv
  <2> QED
    BY <1>1, <2>1, OrphansOutside, BackupsOutside DEF Inv, Modes, Kin
<1>6. Position'
  BY <1>1, <1>2, <1>3, <1>4, <1>5 DEF Position, Writing
<1>7. Written' /\ Kept'
  BY <1>2, <1>3, <1>5 DEF Written, Kept
<1>8. Unwritten'
  BY <1>1, <1>2, <1>3, FewerLoadable DEF Unwritten
<1>9. Cleaned'
  BY <1>1, <1>2, <1>3 DEF Cleaned, Exists
<1> QED
  BY <1>6, <1>7, <1>8, <1>9 DEF SaveSound

\* Leaving a directory: it has no orphans any more.
LEMMA LeaveSound == ASSUME Inv, LeaveDir PROVE SaveSound'
<1>1. /\ save.on /\ Cleaning /\ save.at # Root /\ Orphans = {}
      /\ UNCHANGED <<file, dirs, aside>>
  BY DEF LeaveDir, Cleaning, Clean, disk
<1>2. /\ save'.at = Home[save.at] /\ save'.payload = save.payload /\ save'.todo = save.todo
      /\ save'.base = save.base /\ save'.writing = save.writing
  BY DEF LeaveDir, Inv, TypeOK, SaveState
<1>3. /\ Position /\ Written /\ Unwritten /\ Cleaned /\ Kept
      /\ save.payload \in Trees /\ save.at \in save.payload /\ save.at \in Items
  BY <1>1, Fields DEF Inv, SaveSound, Modes, Position
<1>4. ~Writing
  BY <1>1, <1>3, CleaningIdle DEF Inv
<1>5. Home[save.at] # Root =>
        /\ Home[save.at] \in save.payload
        /\ Kin(Home[save.at]) \subseteq dirs
        /\ Above[Home[save.at]] \subseteq save.todo
  BY <1>1, <1>3, Around DEF Position, Kin, Trees
<1>6. Position'
  BY <1>1, <1>2, <1>3, <1>4, <1>5 DEF Position, Writing
<1>7. Written' /\ Unwritten' /\ Kept'
  BY <1>1, <1>2, <1>3 DEF Written, Unwritten, Kept, Loadable
<1>8. \A i \in Items : Home[i] = save.at /\ i \notin save.payload => ~Exists(i)
  BY <1>1 DEF Orphans
<1>9. Cleaned'
  BY <1>1, <1>2, <1>3, <1>8 DEF Cleaned, Exists
<1> QED
  BY <1>6, <1>7, <1>9 DEF SaveSound

\* A reload may set a file aside, also the one the save has open.
LEMMA ReadKeepsSave == ASSUME Inv, NEW i \in Items, Read(i) PROVE SaveSound'
<1>1. /\ UNCHANGED <<save, dirs>>
      /\ \/ UNCHANGED <<file, aside>>
         \/ file[i] = "torn" /\ file' = [file EXCEPT ![i] = "absent"] /\ aside' = aside \cup {i}
  BY DEF Read, ReadWhole, ReadTorn, ReadAbsent, ReadError
<1>2. CASE UNCHANGED <<file, aside>>
  BY <1>1, <1>2 DEF Inv, SaveSound, Position, Written, Unwritten, Cleaned, Kept, Loadable,
                    Exists, Waiting, Writing
<1>3. CASE file[i] = "torn" /\ file' = [file EXCEPT ![i] = "absent"] /\ aside' = aside \cup {i}
  <2>1. \A j \in Items : /\ file[j] = "whole" <=> file'[j] = "whole"
                         /\ file[j] = "absent" => file'[j] = "absent"
                         /\ file[j] = "torn" => file'[j] = "torn" \/ j \in aside'
    BY <1>3 DEF Inv, TypeOK
  <2> SUFFICES ASSUME save.on
               PROVE  Position' /\ Written' /\ Unwritten' /\ Cleaned' /\ Kept'
    BY <1>1 DEF SaveSound
  <2>2. Position /\ Written /\ Unwritten /\ Cleaned /\ Kept
    BY DEF Inv, SaveSound
  <2>3. /\ save.payload \subseteq Items /\ save.todo \subseteq Items
        /\ save.writing \in Items \cup {None}
    BY Fields DEF Inv
  <2>4. Position'
    BY <1>1, <1>3, <2>1, <2>2, <2>3 DEF Position, Writing, Waiting
  <2>5. Written' /\ Kept'
    BY <1>1, <1>3, <2>1, <2>2, <2>3 DEF Written, Kept
  <2>6. Unwritten'
    BY <1>1, <2>1, <2>2, FewerLoadable DEF Unwritten
  <2>7. Cleaned'
    BY <1>1, <2>1, <2>2 DEF Cleaned, Exists
  <2> QED
    BY <2>4, <2>5, <2>6, <2>7
<1> QED
  BY <1>1, <1>2, <1>3

\* Every step keeps the invariant of the save.
LEMMA SaveStepSound == ASSUME Inv, Next PROVE SaveSound'
<1>1. CASE UNCHANGED <<save, disk>>
  BY <1>1 DEF Inv, SaveSound, Position, Written, Unwritten, Cleaned, Kept, Loadable, Exists,
              Waiting, Writing, disk
<1>2. CASE SaveEnds \/ SaveFails \/ Crash
  BY <1>2, Fields DEF SaveEnds, SaveFails, Crash, SaveSound, Inv
<1>3. ASSUME NEW i \in Items, Damage(i)
      PROVE  SaveSound'
  BY <1>3 DEF Damage, Inv, Modes, SaveSound
<1> QED
  BY <1>1, <1>2, <1>3, StartSound, EnterSound, OpenSound, WriteSound, RemoveSound, LeaveSound,
     ReadKeepsSave
     DEF Next, SaveStep, LoadStep, Edit, Launch, Reload, ListError, LoadAborts, ShowLoaded

-----------------------------------------------------------------------------
(* The load *)

\* A load at the start has before it a way to all that can be loaded.
LEMMA LaunchSound == ASSUME Inv, Launch PROVE LoadSound'
<1>1. /\ load' = [on |-> TRUE, todo |-> TopDirs, got |-> {}] /\ UNCHANGED <<file, dirs>>
      /\ Loadable' = Loadable
  BY DEF Launch, disk, Loadable
<1>2. load'.todo = TopDirs /\ load'.got = {}
  BY <1>1
<1>3. ASSUME NEW i \in TopDirs
      PROVE  Above[i] = {}
  BY Around DEF TopDirs, Inv, TypeOK, Items
<1>4. ASSUME NEW i \in Loadable
      PROVE  \E j \in Kin(i) : j \in TopDirs
  <2>1. i \in Items
    BY DEF Loadable
  <2>2. PICK c \in Kin(i) : Home[c] = Root
    BY <2>1, PathUp
  <2>3. c \in Items /\ file[c] = "whole"
    BY <2>1, <2>2, Around DEF Loadable, Kin
  <2>4. c \in Dirs
    BY <2>2, <2>3, ConstantsAssumption DEF Items
  <2>5. c \in dirs
    BY <2>3, <2>4 DEF Inv, Placed
  <2> QED
    BY <2>2, <2>5 DEF TopDirs
<1> QED
  BY <1>1, <1>2, <1>3, <1>4 DEF LoadSound

\* A read goes one step down every way that leads through it.
LEMMA ReadSound == ASSUME Inv, NEW i \in Items, Read(i) PROVE LoadSound'
<1>1. load.on /\ i \in load.todo /\ UNCHANGED <<app, dirs>> /\ Above[i] \subseteq load.got
  BY DEF Read, Inv, LoadSound
<1>2. CASE ReadWhole(i)
  <2>1. /\ load'.on = load.on /\ load'.todo = (load.todo \ {i}) \cup Listed(i)
        /\ load'.got = load.got \cup {i} /\ UNCHANGED <<file, aside, trusted>>
        /\ file[i] = "whole"
    BY <1>2 DEF ReadWhole, Inv, TypeOK, LoadState
  <2>2. ASSUME NEW j \in load'.todo
        PROVE  Above[j] \subseteq load'.got
    <3>1. CASE j \in load.todo
      BY <1>1, <2>1, <3>1 DEF Inv, LoadSound
    <3>2. CASE j \in Listed(i)
      BY <1>1, <2>1, <3>2, Around DEF Listed
    <3> QED
      BY <2>1, <2>2, <3>1, <3>2
  <2>3. Loadable' = Loadable
    BY <2>1 DEF Loadable
  <2>4. ASSUME app = "loading", trusted
        PROVE  /\ load'.got \subseteq Loadable
               /\ \A k \in Loadable \ load'.got : \E j \in Kin(k) : j \in load'.todo
    <3>1. /\ load.got \subseteq Loadable
          /\ \A k \in Loadable \ load.got : \E j \in Kin(k) : j \in load.todo
      BY <1>1, <2>4 DEF Inv, LoadSound
    <3>2. i \in Loadable
      BY <1>1, <2>1, <3>1 DEF Loadable
    <3>3. ASSUME NEW k \in Loadable \ load'.got
          PROVE  \E j \in Kin(k) : j \in load'.todo
      <4>1. PICK j \in Kin(k) : j \in load.todo
        BY <2>1, <3>1, <3>3
      <4>2. CASE j = i
        <5>1. k \in Items /\ i \in Above[k]
          BY <2>1, <3>3, <4>1, <4>2 DEF Kin, Loadable
        <5>2. PICK c \in Kin(k) : Home[c] = i
          BY <5>1, PathUp
        <5>3. c \in Items /\ file[c] = "whole"
          BY <3>3, <5>1, <5>2, Around DEF Loadable, Kin
        <5> QED
          BY <2>1, <5>2, <5>3 DEF Listed
      <4> QED
        BY <2>1, <4>1, <4>2
    <3> QED
      BY <2>1, <3>1, <3>2, <3>3
  <2> QED
    BY <1>1, <2>1, <2>2, <2>3, <2>4 DEF LoadSound
<1>3. CASE ReadTorn(i) \/ ReadAbsent(i) \/ ReadError(i)
  <2>1. /\ load'.on = load.on /\ load'.todo = load.todo \ {i} /\ load'.got = load.got
    BY <1>3 DEF ReadTorn, ReadAbsent, ReadError, Inv, TypeOK, LoadState
  <2>2. ASSUME trusted'
        PROVE  trusted /\ file[i] # "whole" /\ Loadable' = Loadable
    <3>1. CASE ReadTorn(i)
      <4>1. trusted /\ file[i] = "torn" /\ file' = [file EXCEPT ![i] = "absent"]
        BY <2>2, <3>1 DEF ReadTorn
      <4>2. \A j \in Items : file'[j] = "whole" <=> file[j] = "whole"
        BY <4>1 DEF Inv, TypeOK
      <4> QED
        BY <4>1, <4>2, Around DEF Loadable
    <3>2. CASE ReadAbsent(i)
      BY <2>2, <3>2 DEF ReadAbsent, Loadable
    <3> QED
      BY <1>3, <2>2, <3>1, <3>2 DEF ReadError
  <2>3. ASSUME app = "loading", trusted'
        PROVE  /\ load'.got \subseteq Loadable
               /\ \A k \in Loadable \ load'.got : \E j \in Kin(k) : j \in load'.todo
    <3>1. /\ load.got \subseteq Loadable
          /\ \A k \in Loadable \ load.got : \E j \in Kin(k) : j \in load.todo
      BY <1>1, <2>2, <2>3 DEF Inv, LoadSound
    <3>2. \A k \in Loadable : i \notin Kin(k)
      BY <2>2, <2>3 DEF Loadable, Kin
    <3> QED
      BY <2>1, <3>1, <3>2
  <2>4. \A j \in load'.todo : Above[j] \subseteq load'.got
    BY <1>1, <2>1 DEF Inv, LoadSound
  <2> QED
    BY <1>1, <2>1, <2>2, <2>3, <2>4 DEF LoadSound
<1> QED
  BY <1>2, <1>3 DEF Read

\* A directory that cannot be listed takes all below it out of the load.
LEMMA ListErrorSound == ASSUME Inv, ListError PROVE LoadSound'
<1>1. PICK lost \in {Items} \cup {Within(c) : c \in {d \in load.got : Home[d] = Root}} :
            load' = [load EXCEPT !.todo = @ \ lost, !.got = @ \ lost]
  BY DEF ListError
<1>2. /\ load.on /\ ~trusted'
      /\ load'.todo = load.todo \ lost /\ load'.got = load.got \ lost
  BY <1>1 DEF ListError, Inv, TypeOK, LoadState
<1>3. load.todo \subseteq Items /\ load.got \subseteq Items
  BY Fields DEF Inv
<1>4. ASSUME NEW j \in load.todo \ lost
      PROVE  Above[j] \subseteq load.got \ lost
  <2>1. Above[j] \subseteq load.got
    BY <1>2, <1>4 DEF Inv, LoadSound
  <2>2. PICK c \in Items : lost = Within(c)
    BY <1>1, <1>3, <1>4
  <2> QED
    BY <1>3, <1>4, <2>1, <2>2, AboveAbove DEF Within
<1> QED
  BY <1>2, <1>4 DEF LoadSound

\* Every step keeps the invariant of the load.
LEMMA LoadStepSound == ASSUME Inv, Next PROVE LoadSound'
<1>1. CASE save.on /\ UNCHANGED <<app, load>>
  BY <1>1 DEF Inv, LoadSound, Modes, TypeOK
<1>2. CASE UNCHANGED <<app, load, trusted, disk>>
  BY <1>2 DEF Inv, LoadSound, Loadable, disk
<1>3. CASE LoadAborts \/ ShowLoaded \/ Crash
  BY <1>3, Fields DEF Inv, LoadAborts, ShowLoaded, Crash, LoadSound
<1>4. CASE Reload
  <2>1. load' = [on |-> TRUE, todo |-> TopDirs, got |-> {}] /\ ~trusted'
    BY <1>4 DEF Reload
  <2>2. \A i \in TopDirs : Above[i] = {}
    BY Around DEF TopDirs, Inv, TypeOK, Items
  <2> QED
    BY <2>1, <2>2 DEF LoadSound
<1>5. ASSUME NEW i \in Items, Damage(i)
      PROVE  LoadSound'
  BY <1>5 DEF Damage, Inv, Modes, LoadSound
<1> QED
  BY <1>1, <1>2, <1>3, <1>4, <1>5, LaunchSound, ReadSound, ListErrorSound
     DEF Next, SaveStep, LoadStep, Edit, StartSave, EnterDir, OpenFile, WriteFile, RemoveOrphan,
         LeaveDir, SaveEnds, SaveFails, Cleaning

-----------------------------------------------------------------------------
(* What is on disk follows what is shown *)

\* A save at its end has written all of its payload and nothing else is left.
LEMMA SavedAll ==
    ASSUME Inv, SaveEnds, \A i \in save.payload \ save.todo : file[i] = "whole"
    PROVE  Loadable = save.payload
<1>1. /\ save.on /\ save.at = Root /\ Waiting(Root) = {} /\ Orphans = {}
  BY DEF SaveEnds, Cleaning, Clean
<1>2. save.payload \in Trees /\ save.todo \in Trees /\ save.payload \subseteq Items /\ Cleaned
  BY <1>1, Fields DEF Inv, Modes, SaveSound
<1>3. save.todo = {}
  BY <1>1, <1>2, NoneBelow
<1>4. save.payload \subseteq Loadable
  BY <1>2, <1>3 DEF Loadable, Trees
<1>5. ASSUME NEW i \in Loadable, i \notin save.payload
      PROVE  FALSE
  <2>1. i \in Items
    BY DEF Loadable
  <2>2. PICK c \in Kin(i) : c \notin save.payload /\ Home[c] \in save.payload \cup {Root}
    BY <1>2, <1>5, <2>1, Edge
  <2>3. c \in Items /\ Exists(c)
    BY <1>5, <2>1, <2>2, Around DEF Kin, Loadable, Exists
  <2>4. Home[c] # Root
    BY <1>1, <2>2, <2>3 DEF Orphans
  <2>5. Home[c] \in Dirs /\ Home[c] \in save.payload \ save.todo
    BY <1>3, <2>2, <2>3, <2>4, Around
  <2> QED
    BY <1>1, <1>2, <2>2, <2>3, <2>4, <2>5 DEF Cleaned
<1> QED
  BY <1>4, <1>5

\* In sessions without reloads, every step keeps the disk following what is shown.
LEMMA FollowStep == ASSUME Inv, Next PROVE Followed'
<1> DEFINE Goal == /\ ~load'.on
                   /\ pending' # None => pending' = mem'
                   /\ save'.on =>
                         /\ \A i \in save'.payload \ save'.todo : file'[i] = "whole"
                         /\ Writing' => file'[save'.writing] = "torn"
                         /\ pending' = None => save'.payload = mem'
                   /\ pending' = None /\ ~save'.on /\ ~saveFailed' => Loadable' = mem'
<1> SUFFICES ASSUME app' = "running", trusted'
             PROVE  Goal
  BY DEF Followed
<1>0. ASSUME app = "running", trusted
      PROVE  /\ ~load.on
             /\ pending # None => pending = mem
             /\ save.on => /\ \A i \in save.payload \ save.todo : file[i] = "whole"
                           /\ Writing => file[save.writing] = "torn"
                           /\ pending = None => save.payload = mem
             /\ pending = None /\ ~save.on /\ ~saveFailed => Loadable = mem
  BY <1>0 DEF Inv, Followed
<1>1. CASE Edit
  <2>1. /\ app = "running" /\ trusted /\ pending' = mem' /\ mem' \in SUBSET Items
        /\ UNCHANGED <<save, load, file>>
    BY <1>1 DEF Edit, disk, Trees
  <2>2. pending' # None
    BY <2>1, ConstantsAssumption
  <2> QED
    BY <1>0, <2>1, <2>2 DEF Writing
<1>2. CASE StartSave
  <2>1. save' = [on |-> TRUE, payload |-> pending, todo |-> pending, at |-> Root,
                 writing |-> None, base |-> Loadable]
    BY <1>2, Fields DEF StartSave, NoSave, Inv
  <2>2. save'.on /\ save'.payload = pending /\ save'.todo = pending /\ save'.writing = None
    BY <2>1
  <2>3. app = "running" /\ trusted /\ pending # None /\ pending' = None /\ UNCHANGED <<mem, load>>
    BY <1>2 DEF StartSave
  <2> QED
    BY <1>0, <2>2, <2>3 DEF Writing
<1>3. ASSUME NEW d \in Dirs, EnterDir(d)
      PROVE  Goal
  <2>1. /\ save'.on = save.on /\ save'.payload = save.payload /\ save'.todo = save.todo
        /\ save'.writing = save.writing /\ save.on
        /\ UNCHANGED <<app, mem, pending, load, file, trusted>>
    BY <1>3 DEF EnterDir, KeepDir, Inv, TypeOK, SaveState
  <2> QED
    BY <1>0, <2>1 DEF Writing
<1>4. ASSUME NEW i \in Items, OpenFile(i)
      PROVE  Goal
  <2>1. /\ save'.on = save.on /\ save'.payload = save.payload /\ save'.todo = save.todo
        /\ save'.writing = i /\ save.on /\ i \in save.todo
        /\ UNCHANGED <<app, mem, pending, load, trusted>>
        /\ file' = [file EXCEPT ![i] = "torn"]
    BY <1>4 DEF OpenFile, Inv, TypeOK, SaveState
  <2>2. file'[i] = "torn" /\ \A j \in Items : j # i => file'[j] = file[j]
    BY <2>1 DEF Inv, TypeOK
  <2> QED
    BY <1>0, <2>1, <2>2, Fields DEF Writing, Inv
<1>5. CASE WriteFile
  <2>1. /\ save'.on = save.on /\ save'.payload = save.payload /\ save.on
        /\ save'.todo = save.todo \ {save.writing} /\ save'.writing = None /\ Writing
        /\ UNCHANGED <<app, mem, pending, load, trusted>>
        /\ file' = [file EXCEPT ![save.writing] = IF @ = "torn" THEN "whole" ELSE @]
    BY <1>5 DEF WriteFile, Inv, TypeOK, SaveState
  <2>2. /\ save.writing \in Items /\ save.payload \subseteq Items
        /\ file[save.writing] = "torn"
    BY <1>0, <2>1, Fields DEF Inv, Writing
  <2>3. file'[save.writing] = "whole" /\ \A j \in Items : j # save.writing => file'[j] = file[j]
    BY <2>1, <2>2 DEF Inv, TypeOK
  <2> QED
    BY <1>0, <2>1, <2>2, <2>3 DEF Writing
<1>6. CASE RemoveOrphan
  <2>1. PICK o \in Orphans :
              file' = [j \in Items |-> IF j \in Within(o) THEN "absent" ELSE file[j]]
    BY <1>6 DEF RemoveOrphan
  <2>2. Cleaning /\ save.on /\ UNCHANGED <<app, mem, pending, save, load, trusted>>
    BY <1>6 DEF RemoveOrphan, Cleaning
  <2>3. ~Writing
    BY <2>2, CleaningIdle DEF Inv, SaveSound
  <2>4. \A i \in save.payload : file'[i] = file[i]
    BY <2>1, OrphansOutside, Fields DEF Inv, Modes
  <2> QED
    BY <1>0, <2>2, <2>3, <2>4 DEF Writing
<1>7. CASE LeaveDir
  <2>1. /\ save'.on = save.on /\ save'.payload = save.payload /\ save'.todo = save.todo
        /\ save'.writing = save.writing /\ save.on
        /\ UNCHANGED <<app, mem, pending, load, file, trusted>>
    BY <1>7 DEF LeaveDir, Cleaning, disk, Inv, TypeOK, SaveState
  <2> QED
    BY <1>0, <2>1 DEF Writing
<1>8. CASE SaveEnds
  <2>1. /\ save.on /\ ~save'.on /\ UNCHANGED <<app, mem, pending, load, file, trusted>>
    BY <1>8, Fields DEF SaveEnds, Cleaning, disk, Inv
  <2>2. Loadable = save.payload
    BY <1>0, <1>8, <2>1, SavedAll
  <2>3. Loadable' = Loadable
    BY <2>1 DEF Loadable
  <2> QED
    BY <1>0, <2>1, <2>2, <2>3
<1>9. CASE SaveFails
  BY <1>0, <1>9, Fields DEF SaveFails, Inv
<1>10. CASE Launch \/ Reload \/ ListError \/ Crash
  BY <1>10 DEF Launch, Reload, ListError, Crash
<1>11. ASSUME NEW i \in Items, Read(i) \/ Damage(i)
       PROVE  Goal
  <2>1. CASE Read(i)
    <3>1. app = "running" /\ trusted /\ load.on
      BY <2>1 DEF Read, ReadWhole, ReadTorn, ReadAbsent, ReadError
    <3> QED
      BY <1>0, <3>1
  <2>2. CASE Damage(i)
    BY <2>2 DEF Damage
  <2> QED
    BY <1>11, <2>1, <2>2
<1>12. CASE LoadAborts
  BY <1>0, <1>12 DEF LoadAborts
<1>13. CASE ShowLoaded
  <2>1. /\ load.on /\ load.todo = {} /\ load' = NoLoad /\ trusted /\ mem' = load.got
        /\ UNCHANGED <<pending, save, file, saveFailed>>
    BY <1>13 DEF ShowLoaded, disk
  <2>2. app = "loading"
    BY <1>0, <2>1 DEF Inv, TypeOK, Modes
  <2>3. pending = None /\ ~save.on
    BY <2>2 DEF Inv, Modes
  <2>4. load.got = Loadable
    BY <2>1, <2>2 DEF Inv, LoadSound
  <2>5. Loadable' = Loadable /\ ~load'.on
    BY <2>1, Fields DEF Loadable, Inv
  <2> QED
    BY <2>1, <2>3, <2>4, <2>5
<1> QED
  BY <1>1, <1>2, <1>3, <1>4, <1>5, <1>6, <1>7, <1>8, <1>9, <1>10, <1>11, <1>12, <1>13
     DEF Next, SaveStep, LoadStep

-----------------------------------------------------------------------------
(* The theorems *)

\* The invariant holds at the start ...
LEMMA InvInit == Init => Inv
<1> SUFFICES ASSUME Init
             PROVE  Inv
  OBVIOUS
<1> USE DEF Init, NoSave, NoLoad
<1>1. {} \in Trees
  BY DEF Trees
<1>2. NoSave \in SaveState /\ NoLoad \in LoadState
  BY DEF SaveState, LoadState
<1>3. TypeOK
  BY <1>1, <1>2 DEF TypeOK
<1>4. Modes /\ Placed /\ SaveSound /\ LoadSound /\ Followed
  BY <1>1 DEF Modes, Placed, SaveSound, LoadSound, Followed
<1> QED
  BY <1>3, <1>4 DEF Inv

\* ... and every step keeps it.
LEMMA InvStep == Inv /\ [Next]_vars => Inv'
<1>1. ASSUME Inv, Next
      PROVE  Inv'
  BY <1>1, TypeStep, PlacedStep, SaveStepSound, LoadStepSound, FollowStep DEF Inv
<1>2. ASSUME Inv, UNCHANGED vars
      PROVE  Inv'
  BY <1>2 DEF Inv, vars, disk, TypeOK, Modes, Placed, SaveSound, Position, Written, Unwritten,
              Cleaned, Kept, LoadSound, Followed, Loadable, Exists, Waiting, Writing
<1> QED
  BY <1>1, <1>2

\* The invariant holds in every reachable state.
LEMMA InvAlways == Spec => []Inv
BY InvInit, InvStep, PTL DEF Spec

\* Every variable keeps its type; what is shown and pending is always a tree.
THEOREM TypeCorrect == Spec => []TypeOK
<1>1. Inv => TypeOK
  BY DEF Inv
<1> QED
  BY <1>1, InvAlways, PTL

\* Wherever a save is stopped, what it keeps is whole, being written, or set aside.
THEOREM KeptAlwaysSurvives == Spec => []KeptSurvives
<1>1. Inv => KeptSurvives
  BY DEF Inv, SaveSound, Kept, KeptSurvives
<1> QED
  BY <1>1, InvAlways, PTL

\* A directory that a save adds is not seen before all in it is written.
THEOREM AddedAlwaysComplete == Spec => []AddedDirsComplete
<1>1. ASSUME Inv, save.on, NEW d \in (Loadable \ save.base) \cap save.payload \cap Dirs,
             NEW i \in save.payload, d \in Above[i]
      PROVE  file[i] = "whole" \/ i \in aside
  <2>1. d \notin save.todo
    BY <1>1 DEF Inv, SaveSound, Unwritten
  <2>2. i \notin save.todo
    BY <1>1, <2>1 DEF Inv, Modes, Trees
  <2> QED
    BY <1>1, <2>2 DEF Inv, SaveSound, Written
<1>2. Inv => AddedDirsComplete
  BY <1>1 DEF AddedDirsComplete
<1> QED
  BY <1>2, InvAlways, PTL

\* A quiet project has on disk exactly what is shown.
THEOREM QuietAlwaysSaved == Spec => []QuiescentMeansSaved
<1>1. Inv => QuiescentMeansSaved
  BY DEF Inv, Followed, QuiescentMeansSaved
<1> QED
  BY <1>1, InvAlways, PTL

\* No step of a save takes a backup whose directory is in its payload.
THEOREM BackupsAlwaysKept == Spec => KeptDirsKeepBackups
<1>1. ASSUME Inv, [Next]_vars, save.on, NEW i \in aside,
             {BackupDir(i)} \cup Above[i] \subseteq save.payload \cup {Root}
      PROVE  i \in aside'
  <2>1. CASE RemoveOrphan
    <3>1. PICK o \in Orphans : aside' = aside \ Swept(o)
      BY <2>1 DEF RemoveOrphan
    <3>2. i \in Items /\ o \in Items /\ o \notin save.payload /\ o # Root
      BY <1>1, ConstantsAssumption DEF Orphans, Inv, TypeOK
    <3>3. ASSUME i \in Swept(o)
          PROVE  FALSE
      <4>1. BackupDir(i) \in Items /\ (BackupDir(i) = o \/ o \in Above[BackupDir(i)])
        BY <3>3 DEF Swept, Within
      <4>2. Home[i] \in Items => Above[Home[i]] \subseteq Above[i]
        BY <3>2, Around, ConstantsAssumption
      <4>3. BackupDir(i) = o \/ o \in Above[i]
        BY <4>1, <4>2 DEF BackupDir
      <4> QED
        BY <1>1, <3>2, <4>3
    <3> QED
      BY <1>1, <3>1, <3>3
  <2>2. CASE \E j \in Items : Read(j)
    BY <2>2 DEF Read, ReadWhole, ReadTorn, ReadAbsent, ReadError
  <2> QED
    BY <1>1, <2>1, <2>2
       DEF Next, SaveStep, LoadStep, Edit, StartSave, EnterDir, OpenFile, WriteFile, LeaveDir,
           SaveEnds, SaveFails, Launch, Reload, ListError, LoadAborts, ShowLoaded, Crash, Damage,
           disk, vars
<1>2. Inv /\ [Next]_vars =>
        [save.on => \A i \in aside :
            {BackupDir(i)} \cup Above[i] \subseteq save.payload \cup {Root}
                => i \in aside']_vars
  BY <1>1
<1> QED
  BY <1>2, InvAlways, PTL DEF Spec, KeptDirsKeepBackups
=============================================================================
