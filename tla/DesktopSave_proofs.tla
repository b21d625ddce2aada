------------------------- MODULE DesktopSave_proofs -------------------------
(***************************************************************************)
(* Proofs about DesktopSave for any set of edits, any file system and any  *)
(* number of sessions.  The invariant behind them has two halves.          *)
(*   FileInv: with one save at a time, only the running save can hold the  *)
(*     temp file, that file is never the target, and once the save has     *)
(*     written, the temp file is its whole payload.                        *)
(*   ChainInv: what is on disk, in the running save, pending and in memory *)
(*     form a chain, and the first link of it that exists equals memory    *)
(*     unless a save failed.                                               *)
(* OwedInv does without the wait for running saves: what a flow owes is    *)
(* then still in one of them.  AwaitInv is about the save a flow awaits.   *)
(***************************************************************************)
EXTENDS DesktopSave, TLAPS

\* One save_collections command ends before the next is invoked.
Serial == \A s, t \in Slots : s = t

HoldsTemp(s) == saves[s].stage \in {"opened", "written"}

FileInv ==
    /\ tmp # None => tmp # target
    /\ \A s \in Slots : HoldsTemp(s) => tmp # None /\ saves[s].fd = tmp
    /\ \A s \in Slots : saves[s].stage = "written" => data[tmp] = saves[s].payload
    /\ DiskComplete

NoFlowRuns == \A f \in Flows : flow[f].stage = "idle"

ChainInv ==
    /\ TimerIffPending
    /\ ~Running => mem = {} /\ pending = None /\ NoSaveRuns /\ NoFlowRuns
    /\ Running => DiskItems \subseteq mem
    /\ pending # None => pending = mem
    /\ \A s \in Slots : saves[s].stage # "free" =>
          /\ DiskItems \subseteq saves[s].payload
          /\ saves[s].payload \subseteq mem
          /\ pending = None => saves[s].payload = mem
    /\ QuiescentMeansSaved
    /\ resolving = None

\* A flow names a slot exactly while it awaits the save in it.
HandshakeInv ==
    /\ ClosingMatchesHandshake
    /\ \A f \in Flows : flow[f].slot # None <=> flow[f].stage = "awaiting"

\* What a flow flushed is in memory and in every save that runs, so the save
\* that ends last leaves it on disk; the save a flow awaits is running.
FlowInv ==
    /\ \A f \in Flows : flow[f].flushed \subseteq mem
    /\ \A f \in Flows, s \in Slots :
          saves[s].stage # "free" => flow[f].flushed \subseteq saves[s].payload
    /\ \A f \in Flows : flow[f].slot # None => saves[flow[f].slot].stage # "free"
    /\ FlushedBeforeLeaving

IInv == TypeOK /\ HandshakeInv /\ FileInv /\ ChainInv /\ FlowInv
-----------------------------------------------------------------------------
\* What the steps make of the records they keep.
LEMMA SaveCommands ==
    /\ FreeSlot \in SaveCommand
    /\ \A p \in SUBSET Items :
          [stage |-> "invoked", payload |-> p, fd |-> None] \in SaveCommand
    /\ \A r \in SaveCommand, i \in Inodes :
          [r EXCEPT !.stage = "opened", !.fd = i] \in SaveCommand
    /\ \A r \in SaveCommand : [r EXCEPT !.stage = "written"] \in SaveCommand
    /\ \A r \in SaveCommand : r.payload \in SUBSET Items
  BY DEF SaveCommand, SaveStages, FreeSlot

\* And of the records that say how far a way out is.
LEMMA LeavingFlows ==
    /\ IdleFlow \in LeavingFlow
    /\ \A r \in LeavingFlow : [r EXCEPT !.stage = "asking"] \in LeavingFlow
    /\ \A r \in LeavingFlow :
          [r EXCEPT !.stage = "leaving", !.slot = None] \in LeavingFlow
    /\ \A p \in SUBSET Items : mem \in SUBSET Items => Flushed(p) \in LeavingFlow
    /\ \A p \in SUBSET Items, s \in Slots :
          mem \in SUBSET Items => Await(s, p) \in LeavingFlow
  BY DEF LeavingFlow, FlowStages, IdleFlow, Flushed, Await

\* The types of all variables, for every value of the constants.
LEMMA TypeInductive == TypeOK /\ [Next]_vars => TypeOK'
<1> SUFFICES ASSUME TypeOK, [Next]_vars PROVE TypeOK'
  OBVIOUS
<1> USE ConstantsAssumption DEF TypeOK, webview, files
<1>1. CASE UNCHANGED vars
  BY <1>1 DEF vars
<1>2. ASSUME NEW e \in Edits, Edit(e) PROVE TypeOK'
  BY <1>2 DEF Edit, Debounce, Items
<1>3. ASSUME NEW s \in Slots, Invoke(s)
      PROVE  saves' \in [Slots -> SaveCommand] /\ pending' \in {None} \cup SUBSET Items
  BY <1>3, SaveCommands DEF Invoke, HasPayload
<1>4. ASSUME NEW s \in Slots, TimerFires(s) PROVE TypeOK'
  BY <1>3, <1>4 DEF TimerFires, ClearTimer
<1>5. ASSUME NEW s \in Slots, SaveEnds(s)
      PROVE  saves' \in [Slots -> SaveCommand] /\ flow' \in [Flows -> LeavingFlow]
  BY <1>5, SaveCommands, LeavingFlows DEF SaveEnds, WakeWaiter
<1>6. ASSUME NEW s \in Slots, SaveStep(s) PROVE TypeOK'
  <2>1. CASE SaveOpens(s)
    <3>1. PICK i \in Inodes : /\ tmp' = i
                              /\ data' = [data EXCEPT ![i] = Torn]
                              /\ saves' = [saves EXCEPT ![s].stage = "opened",
                                                        ![s].fd = i]
      BY <2>1 DEF SaveOpens
    <3>2. saves' = [saves EXCEPT ![s] = [saves[s] EXCEPT !.stage = "opened", !.fd = i]]
      BY <3>1
    <3>3. saves' \in [Slots -> SaveCommand]
      BY <3>2, SaveCommands
    <3> QED
      BY <2>1, <3>1, <3>3 DEF SaveOpens
  <2>2. CASE SaveWrites(s)
    <3>1. saves' = [saves EXCEPT ![s] = [saves[s] EXCEPT !.stage = "written"]]
      BY <2>2 DEF SaveWrites
    <3>2. saves' \in [Slots -> SaveCommand]
      BY <3>1, SaveCommands
    <3>3. PICK content \in {Torn} \cup SUBSET Items :
                data' = [data EXCEPT ![saves[s].fd] = content]
      BY <2>2, SaveCommands DEF SaveWrites
    <3>4. data' \in [Inodes -> {Torn} \cup SUBSET Items]
      BY <3>3
    <3> QED
      BY <2>2, <3>2, <3>4 DEF SaveWrites
  <2>3. CASE SaveRenames(s)
    BY <1>5, <2>3 DEF SaveRenames
  <2>4. CASE SaveFails(s)
    BY <1>5, <2>4 DEF SaveFails, ShowError
  <2> QED
    BY <1>6, <2>1, <2>2, <2>3, <2>4 DEF SaveStep
<1>7. ASSUME NEW f \in Flows, flow' = [flow EXCEPT ![f].stage = "asking"]
      PROVE  flow' \in [Flows -> LeavingFlow]
  <2>1. flow' = [flow EXCEPT ![f] = [flow[f] EXCEPT !.stage = "asking"]]
    BY <1>7
  <2> QED
    BY <2>1, LeavingFlows
<1>8. CASE CloseRequested
  BY <1>7, <1>8 DEF CloseRequested, Flows
<1>9. CASE TrayQuitRequested
  BY <1>7, <1>9 DEF TrayQuitRequested, Flows
<1>10. ASSUME NEW f \in Flows, FlowEnds(f)
       PROVE  flow' \in [Flows -> LeavingFlow] /\ closing' \in BOOLEAN
  BY <1>10, LeavingFlows DEF FlowEnds, FreeClosing
<1>11. ASSUME NEW f \in Flows, StayOpen(f) PROVE TypeOK'
  BY <1>10, <1>11 DEF StayOpen
<1>12. ASSUME NEW f \in Flows, Flush(f) PROVE TypeOK'
  <2>1. CASE flow' = [flow EXCEPT ![f] = Flushed({})] /\ UNCHANGED <<pending, saves>>
    BY <1>12, <2>1, LeavingFlows DEF Flush, ClearTimer
  <2>2. ASSUME NEW s \in Slots, Invoke(s), flow' = [flow EXCEPT ![f] = Await(s, pending)]
        PROVE  TypeOK'
    <3>1. pending \in SUBSET Items
      BY <2>2 DEF Invoke, HasPayload
    <3>2. flow' \in [Flows -> LeavingFlow]
      BY <2>2, <3>1, LeavingFlows
    <3> QED
      BY <1>3, <1>12, <2>2, <3>2 DEF Flush, ClearTimer
  <2> QED
    BY <1>12, <2>1, <2>2 DEF Flush
<1>13. CASE Hide
  BY <1>10, <1>13 DEF Hide, Flows
<1>14. ASSUME ProcessEnds PROVE TypeOK'
  BY <1>14, SaveCommands, LeavingFlows DEF ProcessEnds
<1>15. CASE Launch
  BY <1>15 DEF Launch
<1>16. ASSUME NEW read \in SUBSET Items, ShowLoaded(read),
              target' \in Inodes \cup {None}, damaged' \in BOOLEAN
       PROVE  TypeOK'
  BY <1>16 DEF ShowLoaded, Debounce, Items
<1>17. DiskItems \in SUBSET Items
  BY DEF DiskItems
<1>18. CASE LoadData \/ LoadRecovers \/ LoadFails
  BY <1>16, <1>17, <1>18 DEF LoadData, LoadRecovers, LoadFails
<1>19. CASE SecretsResolved
  BY <1>19 DEF SecretsResolved
<1>20. CASE FileDamaged
  BY <1>20 DEF FileDamaged
<1> QED
  BY <1>1, <1>2, <1>4, <1>6, <1>8, <1>9, <1>11, <1>12, <1>13, <1>14, <1>15,
     <1>18, <1>19, <1>20 DEF Next, QuitApp, Crash

\* The first state is well typed.
LEMMA TypeInit == Init => TypeOK
  BY ConstantsAssumption, SaveCommands, LeavingFlows DEF Init, TypeOK

\* Type correctness of the specification, whatever Slots, Inodes and Edits are.
THEOREM TypeCorrect == Spec => []TypeOK
  BY TypeInit, TypeInductive, PTL DEF Spec

-----------------------------------------------------------------------------
\* No step of a handshake, a save or an exit separates the flag from the flow.
LEMMA HandshakeInductive == TypeOK /\ HandshakeInv /\ [Next]_vars => HandshakeInv'
<1> SUFFICES ASSUME TypeOK, HandshakeInv, [Next]_vars PROVE HandshakeInv'
  OBVIOUS
<1> USE DEF HandshakeInv, ClosingMatchesHandshake
<1>1. CASE UNCHANGED <<flow, closing>>
  BY <1>1
<1>2. ASSUME NEW s \in Slots, SaveEnds(s), UNCHANGED closing PROVE HandshakeInv'
  <2>1. \A f \in Flows :
            IF flow[f].slot = s
            THEN flow'[f].slot = None /\ flow'[f].stage = "leaving"
            ELSE flow'[f] = flow[f]
    BY <1>2 DEF SaveEnds, WakeWaiter, TypeOK, LeavingFlow
  <2>2. s # None
    BY ConstantsAssumption
  <2> QED
    BY <1>2, <2>1, <2>2 DEF Flows
<1>3. CASE CloseRequested
  <2>1. /\ flow'["close"].stage = "asking" /\ flow'["close"].slot = flow["close"].slot
        /\ flow'["tray"] = flow["tray"]
    BY <1>3 DEF CloseRequested, TypeOK, LeavingFlow, Flows
  <2> QED
    BY <1>3, <2>1 DEF CloseRequested, Flows
<1>4. CASE TrayQuitRequested
  <2>1. /\ flow'["tray"].stage = "asking" /\ flow'["tray"].slot = flow["tray"].slot
        /\ flow'["close"] = flow["close"]
    BY <1>4 DEF TrayQuitRequested, TypeOK, LeavingFlow, Flows
  <2> QED
    BY <1>4, <2>1 DEF TrayQuitRequested, Flows
<1>5. ASSUME NEW f \in Flows, FlowEnds(f) PROVE HandshakeInv'
  BY <1>5 DEF FlowEnds, FreeClosing, TypeOK, Flows, IdleFlow
<1>6. ASSUME NEW f \in Flows, Flush(f) PROVE HandshakeInv'
  <2>1. flow[f].stage = "asking" /\ UNCHANGED closing
    BY <1>6 DEF Flush
  <2>2. CASE flow' = [flow EXCEPT ![f] = Flushed({})]
    BY <2>1, <2>2 DEF Flushed, TypeOK, Flows
  <2>3. ASSUME NEW s \in Slots, flow' = [flow EXCEPT ![f] = Await(s, pending)]
        PROVE  HandshakeInv'
    BY <2>1, <2>3, ConstantsAssumption DEF Await, Flushed, TypeOK, Flows
  <2> QED
    BY <1>6, <2>2, <2>3 DEF Flush
<1>7. CASE ProcessEnds
  BY <1>7 DEF ProcessEnds, IdleFlow, Flows
<1> QED
  BY <1>1, <1>2, <1>3, <1>4, <1>5, <1>6, <1>7
     DEF Next, vars, SaveStep, SaveOpens, SaveWrites, SaveRenames, SaveFails,
         Edit, TimerFires, StayOpen, Hide, QuitApp, Crash, Launch, LoadData,
         LoadRecovers, LoadFails, ShowLoaded, SecretsResolved, FileDamaged, Flows

\* However saves end and whoever else is leaving, a close handshake that is over
\* leaves the flag free, so the window can be closed again.
THEOREM ClosingAlwaysMatches == Spec => []ClosingMatchesHandshake
<1>1. Init => HandshakeInv
  BY DEF Init, HandshakeInv, ClosingMatchesHandshake, IdleFlow, Flows
<1>2. HandshakeInv => ClosingMatchesHandshake
  BY DEF HandshakeInv
<1> QED
  BY <1>1, <1>2, TypeCorrect, HandshakeInductive, PTL DEF Spec

-----------------------------------------------------------------------------
\* Actions that no case below needs to look into.
LEMMA NextCases ==
    ASSUME [Next]_vars
    PROVE  \/ \E s \in Slots : SaveStep(s)
           \/ \E s \in Slots : Invoke(s) /\ UNCHANGED files
           \/ LoadRecovers
           \/ FileDamaged
           \/ ProcessEnds
           \/ UNCHANGED <<saves, files>>
  BY DEF Next, vars, webview, files, Edit, TimerFires, CloseRequested,
     TrayQuitRequested, StayOpen, Flush, Hide, QuitApp, Crash, Launch, LoadData,
     LoadFails, ShowLoaded, SecretsResolved

\* The temp file never becomes the target half written.
LEMMA FileInductive == Serial /\ TypeOK /\ FileInv /\ [Next]_vars => FileInv'
<1> SUFFICES ASSUME Serial, TypeOK, FileInv, [Next]_vars PROVE FileInv'
  OBVIOUS
<1> USE ConstantsAssumption DEF FileInv, DiskComplete, HoldsTemp
<1>1. CASE UNCHANGED <<saves, files>>
  BY <1>1 DEF files
<1>2. ASSUME NEW s \in Slots, Invoke(s), UNCHANGED files PROVE FileInv'
  <2>1. \A t \in Slots : saves'[t].stage = "invoked"
    BY <1>2 DEF Invoke, Serial, TypeOK
  <2> QED
    BY <1>2, <2>1 DEF files
<1>3. ASSUME NEW s \in Slots, SaveStep(s) PROVE FileInv'
  <2>1. \A t \in Slots : t = s
    BY DEF Serial
  <2>2. CASE SaveOpens(s)
    <3>1. PICK i \in Inodes :
              /\ TempFile(i)
              /\ tmp' = i
              /\ data' = [data EXCEPT ![i] = Torn]
              /\ saves' = [saves EXCEPT ![s].stage = "opened", ![s].fd = i]
      BY <2>2 DEF SaveOpens
    <3>2. i # target
      BY <3>1 DEF TempFile, FreeInode
    <3>3. saves'[s].stage = "opened" /\ saves'[s].fd = i
      BY <3>1 DEF TypeOK, SaveCommand
    <3>4. target' = target /\ damaged' = damaged
      BY <2>2 DEF SaveOpens
    <3>5. target # None => data'[target] = data[target]
      BY <3>1, <3>2 DEF TypeOK
    <3> QED
      BY <2>1, <3>1, <3>2, <3>3, <3>4, <3>5
  <2>3. CASE SaveWrites(s)
    <3>1. saves[s].fd = tmp /\ tmp \in Inodes /\ tmp # target
      BY <2>3 DEF SaveWrites, TypeOK
    <3>2. ~Shared(s)
      BY <2>1, <3>1 DEF Shared
    <3>3. data' = [data EXCEPT ![tmp] = saves[s].payload]
      BY <2>3, <3>1, <3>2 DEF SaveWrites
    <3>4. saves'[s] = [saves[s] EXCEPT !.stage = "written"]
      BY <2>3 DEF SaveWrites, TypeOK
    <3>5. /\ saves'[s].stage = "written"
          /\ saves'[s].fd = saves[s].fd
          /\ saves'[s].payload = saves[s].payload
      BY <3>4 DEF TypeOK, SaveCommand
    <3>6. tmp' = tmp /\ target' = target /\ damaged' = damaged
      BY <2>3 DEF SaveWrites
    <3>7. data'[tmp] = saves[s].payload /\ (target # None => data'[target] = data[target])
      BY <3>1, <3>3 DEF TypeOK
    <3> QED
      BY <2>1, <3>1, <3>5, <3>6, <3>7
  <2>4. ASSUME SaveEnds(s) PROVE \A t \in Slots : saves'[t].stage = "free"
    BY <2>1, <2>4 DEF SaveEnds, TypeOK, FreeSlot
  <2>5. CASE SaveRenames(s)
    <3>1. data[tmp] \in SUBSET Items
      BY <2>5 DEF SaveRenames, WriteDone, TypeOK, SaveCommand
    <3> QED
      BY <2>4, <2>5, <3>1 DEF SaveRenames
  <2>6. CASE SaveFails(s)
    BY <2>4, <2>6 DEF SaveFails, files
  <2> QED
    BY <1>3, <2>2, <2>3, <2>5, <2>6 DEF SaveStep
<1>4. CASE LoadRecovers
  BY <1>4 DEF LoadRecovers, ShowLoaded
<1>5. CASE FileDamaged
  BY <1>5 DEF FileDamaged, TypeOK
<1>6. CASE ProcessEnds
  BY <1>6 DEF ProcessEnds, files, FreeSlot
<1> QED
  BY <1>1, <1>2, <1>3, <1>4, <1>5, <1>6, NextCases

\* The file the app loads is never half a write of its own, however it crashes,
\* as long as one save of it runs at a time.
THEOREM DiskAlwaysComplete == ASSUME Serial PROVE Spec => []DiskComplete
<1>1. Init => FileInv
  BY DEF Init, FileInv, HoldsTemp, FreeSlot, DiskComplete
<1>2. FileInv => DiskComplete
  BY DEF FileInv
<1>3. TypeOK /\ FileInv /\ [Next]_vars => FileInv'
  BY FileInductive
<1> QED
  BY <1>1, <1>2, <1>3, TypeCorrect, PTL DEF Spec

-----------------------------------------------------------------------------
\* No second save, no error when reading the file, no late secrets: the scope
\* in which what is saved never goes back.
Orderly == Serial /\ ~ReadsFail /\ ~Secrets

\* What a load would see depends on the target name and its inode alone.
LEMMA DiskFrame ==
    ASSUME target' = target, target # None => data'[target] = data[target]
    PROVE  DiskItems' = DiskItems
  BY DEF DiskItems

\* Before its rename a save touches neither the file nor its own payload.
LEMMA SaveProceeds ==
    ASSUME Serial, TypeOK, FileInv, NEW s \in Slots, SaveOpens(s) \/ SaveWrites(s)
    PROVE  /\ DiskItems' = DiskItems
           /\ saves[s].stage # "free"
           /\ saves'[s].stage # "free"
           /\ saves'[s].payload = saves[s].payload
           /\ UNCHANGED <<app, mem, pending, timer, flow, closing, resolving, saveFailed>>
<1>1. CASE SaveOpens(s)
  <2>1. PICK i \in Inodes :
            /\ TempFile(i)
            /\ data' = [data EXCEPT ![i] = Torn]
            /\ saves' = [saves EXCEPT ![s].stage = "opened", ![s].fd = i]
    BY <1>1 DEF SaveOpens
  <2>2. i # target
    BY <2>1 DEF TempFile, FreeInode, FileInv
  <2>3. target' = target /\ (target # None => data'[target] = data[target])
    BY <1>1, <2>1, <2>2 DEF SaveOpens, TypeOK
  <2>4. saves'[s].stage = "opened" /\ saves'[s].payload = saves[s].payload
    BY <2>1 DEF TypeOK, SaveCommand
  <2> QED
    BY <1>1, <2>3, <2>4, DiskFrame DEF SaveOpens, webview
<1>2. CASE SaveWrites(s)
  <2>1. saves[s].fd = tmp /\ tmp \in Inodes /\ tmp # target
    BY <1>2, ConstantsAssumption DEF SaveWrites, TypeOK, FileInv, HoldsTemp
  <2>2. PICK content : data' = [data EXCEPT ![tmp] = content]
    BY <1>2, <2>1 DEF SaveWrites
  <2>3. target' = target /\ (target # None => data'[target] = data[target])
    BY <1>2, <2>1, <2>2 DEF SaveWrites, TypeOK
  <2>4. saves'[s] = [saves[s] EXCEPT !.stage = "written"]
    BY <1>2 DEF SaveWrites, TypeOK
  <2>5. saves'[s].stage = "written" /\ saves'[s].payload = saves[s].payload
    BY <2>4 DEF TypeOK, SaveCommand
  <2> QED
    BY <1>2, <2>3, <2>5, DiskFrame DEF SaveWrites, webview
<1> QED
  BY <1>1, <1>2

\* The rename replaces the file by the payload of the save; a save that fails
\* leaves it as it was and is reported.
LEMMA SaveDone ==
    ASSUME Serial, TypeOK, FileInv, NEW s \in Slots, SaveRenames(s) \/ SaveFails(s)
    PROVE  /\ \/ DiskItems' = saves[s].payload
              \/ DiskItems' = DiskItems /\ saveFailed' = TRUE
           /\ saves[s].stage # "free"
           /\ \A t \in Slots : saves'[t].stage = "free"
           /\ UNCHANGED <<app, mem, pending, timer, closing, resolving>>
           /\ WakeWaiter(s)
<1>1. SaveEnds(s)
  BY DEF SaveRenames, SaveFails
<1>2. (\A t \in Slots : saves'[t].stage = "free") /\ WakeWaiter(s)
  BY <1>1 DEF SaveEnds, Serial, TypeOK, FreeSlot
<1>3. CASE SaveRenames(s)
  <2>1. target' = tmp /\ tmp # None /\ data' = data /\ data[tmp] = saves[s].payload
    BY <1>3 DEF SaveRenames, WriteDone, FileInv
  <2>2. saves[s].payload # Torn
    BY ConstantsAssumption DEF TypeOK, SaveCommand
  <2>3. DiskItems' = saves[s].payload
    BY <2>1, <2>2 DEF DiskItems
  <2> QED
    BY <1>2, <1>3, <2>3 DEF SaveRenames, WriteDone, webview
<1>4. CASE SaveFails(s)
  <2>1. DiskItems' = DiskItems
    BY <1>4 DEF SaveFails, files, DiskItems
  <2> QED
    BY <1>2, <1>4, <2>1 DEF SaveFails, ShowError, webview
<1> QED
  BY <1>3, <1>4

\* A load shows what is on disk; the sample is added to nothing at all.
LEMMA Loads ==
    ASSUME Orderly, TypeOK, LoadData \/ LoadRecovers \/ LoadFails
    PROVE  /\ app = "loading"
           /\ app' = "running"
           /\ DiskItems' = DiskItems
           /\ \/ DiskItems = {} /\ mem' = {Sample} /\ pending' = mem' /\ timer' = TRUE
              \/ mem' = DiskItems /\ UNCHANGED <<pending, timer>>
           /\ resolving' = None
           /\ UNCHANGED <<saves, flow, closing, saveFailed>>
<1>1. CASE LoadData
  <2>1. DiskItems' = DiskItems
    BY <1>1 DEF LoadData, ShowLoaded, DiskItems
  <2> QED
    BY <1>1, <2>1 DEF LoadData, ShowLoaded, Debounce, Orderly
<1>2. CASE LoadRecovers
  <2>1. DiskItems = {} /\ DiskItems' = {}
    BY <1>2 DEF LoadRecovers, DiskItems
  <2> QED
    BY <1>2, <2>1 DEF LoadRecovers, ShowLoaded, Debounce, Orderly
<1> QED
  BY <1>1, <1>2 DEF LoadFails, Orderly

\* Every step keeps disk, save, payload and memory in a chain.
LEMMA ChainInductive ==
    Orderly /\ TypeOK /\ FileInv /\ ChainInv /\ [Next]_vars => ChainInv'
<1> SUFFICES ASSUME Orderly, TypeOK, FileInv, ChainInv, [Next]_vars
             PROVE  ChainInv'
  OBVIOUS
<1>0. Serial
  BY DEF Orderly
<1> USE DEF ChainInv, TimerIffPending, Running, NoSaveRuns, NoFlowRuns,
           QuiescentMeansSaved
<1>1. CASE UNCHANGED vars
  BY <1>1 DEF vars, webview, files, DiskItems
<1>2. ASSUME NEW e \in Edits, Edit(e) PROVE ChainInv'
  <2>1. mem' # None
    BY <1>2, ConstantsAssumption DEF Edit, TypeOK, Items
  <2>2. DiskItems' = DiskItems
    BY <1>2, DiskFrame DEF Edit, files
  <2> QED
    BY <1>2, <2>1, <2>2 DEF Edit, Debounce
<1>3. ASSUME NEW s \in Slots, Invoke(s), Running, ClearTimer,
             UNCHANGED <<app, mem, files, resolving, saveFailed>>
      PROVE  ChainInv'
  <2>1. \A t \in Slots : /\ saves'[t].stage = "invoked"
                         /\ saves'[t].payload = mem
    BY <1>0, <1>3 DEF Serial, Invoke, HasPayload, TypeOK
  <2>2. DiskItems' = DiskItems
    BY <1>3, DiskFrame DEF files
  <2>3. pending' = None
    BY <1>3 DEF Invoke
  <2> QED
    BY <1>3, <2>1, <2>2, <2>3 DEF ClearTimer
<1>4. ASSUME NEW s \in Slots, TimerFires(s) PROVE ChainInv'
  BY <1>3, <1>4 DEF TimerFires
<1>5. ASSUME NEW s \in Slots, SaveStep(s) PROVE ChainInv'
  <2>1. \A t \in Slots : t = s
    BY <1>0 DEF Serial
  <2>2. CASE SaveOpens(s) \/ SaveWrites(s)
    BY <1>0, <2>1, <2>2, SaveProceeds
  <2>3. CASE SaveRenames(s) \/ SaveFails(s)
    <3>1. Running
      BY <1>0, <2>3, SaveDone
    <3> QED
      BY <1>0, <2>1, <2>3, <3>1, SaveDone
  <2> QED
    BY <1>5, <2>2, <2>3 DEF SaveStep
<1>6. ASSUME NEW f \in Flows, Flush(f) PROVE ChainInv'
  <2>1. Running
    BY <1>6 DEF Flush
  <2>2. CASE pending = None /\ UNCHANGED <<pending, saves>>
    <3>1. DiskItems' = DiskItems
      BY <1>6, DiskFrame DEF Flush, files
    <3> QED
      BY <1>6, <2>1, <2>2, <3>1 DEF Flush, ClearTimer
  <2> QED
    BY <1>3, <1>6, <2>1, <2>2 DEF Flush
<1>7. ASSUME \/ CloseRequested \/ TrayQuitRequested \/ Hide
             \/ \E f \in Flows : StayOpen(f)
      PROVE  ChainInv'
  <2>1. UNCHANGED <<app, webview, saves, files, resolving, saveFailed>>
    BY <1>7 DEF CloseRequested, TrayQuitRequested, Hide, StayOpen
  <2>2. Running
    BY <1>7 DEF CloseRequested, TrayQuitRequested, Hide, StayOpen, Flows
  <2> QED
    BY <2>1, <2>2 DEF webview, files, DiskItems
<1>8. CASE ProcessEnds
  BY <1>8 DEF ProcessEnds, FreeSlot, IdleFlow
<1>9. CASE Launch
  BY <1>9 DEF Launch, webview
<1>10. CASE LoadData \/ LoadRecovers \/ LoadFails
  <2>1. {Sample} # None
    BY ConstantsAssumption DEF Items
  <2>2. /\ pending = None
        /\ NoSaveRuns'
        /\ Running'
        /\ DiskItems' = DiskItems
        /\ resolving' = None
    BY <1>10, Loads
  <2>3. CASE DiskItems = {} /\ mem' = {Sample} /\ pending' = mem' /\ timer' = TRUE
    BY <2>1, <2>2, <2>3
  <2>4. CASE mem' = DiskItems /\ UNCHANGED <<pending, timer>>
    BY <2>2, <2>4
  <2> QED
    BY <1>10, <2>3, <2>4, Loads
<1>11. CASE SecretsResolved
  BY <1>11 DEF SecretsResolved
<1>12. CASE FileDamaged
  BY <1>12 DEF FileDamaged, webview
<1> QED
  BY <1>1, <1>2, <1>4, <1>5, <1>6, <1>7, <1>8, <1>9, <1>10, <1>11, <1>12
     DEF Next, QuitApp, Crash

\* Every step keeps what a flow flushed below every save still to come.
LEMMA FlowInductive ==
    Orderly /\ TypeOK /\ HandshakeInv /\ FileInv /\ ChainInv /\ FlowInv /\ [Next]_vars
        => FlowInv'
<1> SUFFICES ASSUME Orderly, TypeOK, HandshakeInv, FileInv, ChainInv, FlowInv,
                    [Next]_vars
             PROVE  FlowInv'
  OBVIOUS
<1>0. Serial
  BY DEF Orderly
<1> USE DEF FlowInv, FlushedBeforeLeaving
<1>1. CASE UNCHANGED vars
  BY <1>1 DEF vars, webview, files, DiskItems
<1>2. ASSUME NEW e \in Edits, Edit(e) PROVE FlowInv'
  BY <1>2, DiskFrame DEF Edit, files
<1>3. ASSUME NEW s \in Slots, TimerFires(s) PROVE FlowInv'
  <2>1. \A t \in Slots : /\ saves[t].stage = "free"
                         /\ saves'[t].stage = "invoked"
                         /\ saves'[t].payload = mem
    BY <1>0, <1>3 DEF TimerFires, Serial, Invoke, HasPayload, TypeOK, ChainInv
  <2>2. DiskItems' = DiskItems /\ UNCHANGED <<flow, mem, saveFailed>>
    BY <1>3, DiskFrame DEF TimerFires, files
  <2> QED
    BY <2>1, <2>2 DEF TypeOK, LeavingFlow
<1>4. ASSUME NEW s \in Slots, SaveStep(s) PROVE FlowInv'
  <2>1. \A t \in Slots : t = s
    BY <1>0 DEF Serial
  <2>2. CASE SaveOpens(s) \/ SaveWrites(s)
    BY <1>0, <2>1, <2>2, SaveProceeds DEF TypeOK, LeavingFlow
  <2>3. CASE SaveRenames(s) \/ SaveFails(s)
    <3>1. WakeWaiter(s)
      BY <1>0, <2>3, SaveDone
    <3>2. \A f \in Flows : flow[f].slot = s \/ flow[f].slot = None
      BY <2>1 DEF TypeOK, LeavingFlow
    <3>3. \A f \in Flows : /\ flow'[f].flushed = flow[f].flushed
                           /\ flow'[f].slot = None
                           /\ flow'[f].stage = "leaving" =>
                                 \/ flow[f].stage = "leaving"
                                 \/ flow[f].slot = s
      BY <3>1, <3>2 DEF WakeWaiter, TypeOK, LeavingFlow
    <3> QED
      BY <1>0, <2>1, <2>3, <3>3, SaveDone
  <2> QED
    BY <1>4, <2>2, <2>3 DEF SaveStep
<1>5. ASSUME NEW f \in Flows, flow' = [flow EXCEPT ![f].stage = "asking"] \/ FlowEnds(f),
             UNCHANGED <<app, webview, saves, files, saveFailed>>
      PROVE  FlowInv'
  <2>1. /\ flow'[f].flushed \in {{}, flow[f].flushed}
        /\ flow'[f].slot \in {None, flow[f].slot}
        /\ flow'[f].stage \in {"asking", "idle"}
        /\ \A g \in Flows \ {f} : flow'[g] = flow[g]
    BY <1>5 DEF FlowEnds, IdleFlow, TypeOK, LeavingFlow
  <2>2. DiskItems' = DiskItems
    BY <1>5, DiskFrame DEF files
  <2> QED
    BY <1>5, <2>1, <2>2 DEF webview
<1>6. CASE CloseRequested
  BY <1>5, <1>6 DEF CloseRequested, Flows
<1>7. CASE TrayQuitRequested
  BY <1>5, <1>7 DEF TrayQuitRequested, Flows
<1>8. ASSUME NEW f \in Flows, StayOpen(f) PROVE FlowInv'
  BY <1>5, <1>8 DEF StayOpen
<1>9. CASE Hide
  BY <1>5, <1>9 DEF Hide, Flows
<1>10. ASSUME NEW f \in Flows, Flush(f) PROVE FlowInv'
  <2>1. DiskItems' = DiskItems /\ UNCHANGED <<mem, saveFailed>>
    BY <1>10, DiskFrame DEF Flush, files
  <2>2. CASE flow' = [flow EXCEPT ![f] = Flushed({})] /\ UNCHANGED saves
    BY <2>1, <2>2 DEF Flushed, TypeOK, LeavingFlow
  <2>3. ASSUME NEW s \in Slots, Invoke(s), flow' = [flow EXCEPT ![f] = Await(s, pending)]
        PROVE  FlowInv'
    <3>1. pending = mem
      BY <2>3 DEF Invoke, HasPayload, ChainInv
    <3>2. \A t \in Slots : /\ t = s
                           /\ saves'[t].stage = "invoked"
                           /\ saves'[t].payload = mem
      BY <1>0, <2>3, <3>1 DEF Serial, Invoke, TypeOK
    <3>3. /\ flow'[f].slot = s /\ flow'[f].stage = "awaiting" /\ flow'[f].flushed = mem
          /\ \A g \in Flows \ {f} : flow'[g] = flow[g]
      BY <2>3, <3>1 DEF Await, Flushed, TypeOK
    <3>4. \A g \in Flows : flow[g].slot # None => flow[g].slot = s
      BY <3>2 DEF TypeOK, LeavingFlow
    <3> QED
      BY <2>1, <3>2, <3>3, <3>4
  <2> QED
    BY <1>10, <2>2, <2>3 DEF Flush
<1>11. CASE ProcessEnds
  BY <1>11 DEF ProcessEnds, IdleFlow
<1>12. CASE Launch
  <2>1. DiskItems' = DiskItems /\ UNCHANGED <<mem, saves, flow>>
    BY <1>12, DiskFrame DEF Launch, webview, files
  <2>2. \A f \in Flows : flow[f].stage = "idle"
    BY <1>12 DEF Launch, ChainInv, Running, NoFlowRuns
  <2> QED
    BY <2>1, <2>2
<1>13. CASE LoadData \/ LoadRecovers \/ LoadFails
  <2>1. app = "loading" /\ UNCHANGED <<saves, flow>>
    BY <1>13, Loads
  <2>2. /\ \A f \in Flows : flow[f].stage = "idle" /\ flow[f].flushed = {}
        /\ \A s \in Slots : saves[s].stage = "free"
    BY <2>1 DEF ChainInv, Running, NoFlowRuns, NoSaveRuns
  <2> QED
    BY <2>1, <2>2
<1>14. CASE SecretsResolved
  BY <1>14 DEF SecretsResolved, ChainInv
<1>15. CASE FileDamaged
  <2>1. \A f \in Flows : flow[f].stage = "idle" /\ flow'[f] = flow[f]
    BY <1>15 DEF FileDamaged, ChainInv, Running, NoFlowRuns
  <2> QED
    BY <1>15, <2>1 DEF FileDamaged, webview
<1> QED
  BY <1>1, <1>2, <1>3, <1>4, <1>6, <1>7, <1>8, <1>9, <1>10, <1>11, <1>12, <1>13,
     <1>14, <1>15 DEF Next, QuitApp, Crash

\* The parts together are an invariant.
LEMMA InvInductive == ASSUME Orderly PROVE Spec => []IInv
<1>1. Init => IInv
  <2>1. Init => TypeOK /\ ClosingMatchesHandshake
    BY TypeInit DEF Init, ClosingMatchesHandshake, IdleFlow, Flows
  <2>2. Init => HandshakeInv /\ FileInv /\ FlowInv
    BY <2>1 DEF Init, HandshakeInv, FileInv, HoldsTemp, FlowInv, DiskComplete,
       FlushedBeforeLeaving, FreeSlot, IdleFlow
  <2>3. Init => ChainInv
    BY DEF Init, ChainInv, TimerIffPending, Running, NoSaveRuns, NoFlowRuns,
       QuiescentMeansSaved, FreeSlot, IdleFlow
  <2> QED
    BY <2>1, <2>2, <2>3 DEF IInv
<1>2. IInv /\ [Next]_vars => IInv'
  BY TypeInductive, HandshakeInductive, FileInductive, ChainInductive, FlowInductive
     DEF IInv, Orderly
<1> QED
  BY <1>1, <1>2, PTL DEF Spec

\* When the app is quiet, the file holds what the user sees or the user was told
\* that it does not; nothing an orderly sequence of edits, saves, exits, crashes
\* and loads does can leave an edit behind in the debounce.
THEOREM QuiescentAlwaysSaved == ASSUME Orderly PROVE Spec => []QuiescentMeansSaved
<1>1. IInv => QuiescentMeansSaved
  BY DEF IInv, ChainInv
<1> QED
  BY <1>1, InvInductive, PTL

\* A close handshake or Quit that is about to end the process has on disk what
\* it flushed, unless a save failed.
THEOREM AlwaysFlushedBeforeLeaving ==
    ASSUME Orderly PROVE Spec => []FlushedBeforeLeaving
<1>1. IInv => FlushedBeforeLeaving
  BY DEF IInv, FlowInv
<1> QED
  BY <1>1, InvInductive, PTL

-----------------------------------------------------------------------------
(* What Quit can lose.                                                     *)

\* A way out past its flush has on disk what was in memory then, unless a save still
\* runs or the last one failed: the edits of a save that the flush found running, and
\* did not await, are all that leaving can lose.
LosesOnlyRunningSaves ==
    \A f \in Flows : flow[f].stage \in {"awaiting", "leaving"} /\ NoSaveRuns =>
        flow[f].owed \subseteq DiskItems \/ saveFailed

OwedInv ==
    /\ \A f \in Flows : flow[f].owed \subseteq mem
    /\ \A f \in Flows, s \in Slots :
          saves[s].stage # "free" => flow[f].owed \subseteq saves[s].payload
    /\ LosesOnlyRunningSaves

\* Every save that runs after a flush carries what was in memory at the flush.
LEMMA OwedInductive ==
    Orderly /\ IInv /\ OwedInv /\ [Next]_vars => OwedInv'
<1> SUFFICES ASSUME Orderly, IInv, OwedInv, [Next]_vars PROVE OwedInv'
  OBVIOUS
<1>0. Serial /\ TypeOK /\ FileInv /\ ChainInv
  BY DEF Orderly, IInv
<1> USE DEF OwedInv, LosesOnlyRunningSaves
<1>1. CASE UNCHANGED vars
  BY <1>1 DEF vars, webview, files, DiskItems, NoSaveRuns
<1>2. ASSUME NEW e \in Edits, Edit(e) PROVE OwedInv'
  BY <1>2, DiskFrame DEF Edit, files, NoSaveRuns
<1>3. ASSUME NEW s \in Slots, TimerFires(s) PROVE OwedInv'
  <2>1. \A t \in Slots : saves'[t].stage = "invoked" /\ saves'[t].payload = mem
    BY <1>0, <1>3 DEF TimerFires, Serial, Invoke, HasPayload, TypeOK, ChainInv
  <2>2. UNCHANGED <<flow, mem>> /\ ~NoSaveRuns'
    BY <1>3, <2>1 DEF TimerFires, NoSaveRuns
  <2> QED
    BY <2>1, <2>2
<1>4. ASSUME NEW s \in Slots, SaveStep(s) PROVE OwedInv'
  <2>1. \A t \in Slots : t = s
    BY <1>0 DEF Serial
  <2>2. CASE SaveOpens(s) \/ SaveWrites(s)
    BY <1>0, <2>1, <2>2, SaveProceeds DEF NoSaveRuns
  <2>3. CASE SaveRenames(s) \/ SaveFails(s)
    <3>1. WakeWaiter(s)
      BY <1>0, <2>3, SaveDone
    <3>2. ASSUME NEW f \in Flows PROVE flow'[f].owed = flow[f].owed
      <4>1. \/ flow'[f] = [flow[f] EXCEPT !.stage = "leaving", !.slot = None]
            \/ flow'[f] = flow[f]
        BY <3>1, Zenon DEF WakeWaiter
      <4> QED
        BY <1>0, <4>1 DEF TypeOK, LeavingFlow
    <3> QED
      BY <1>0, <2>1, <2>3, <3>2, SaveDone
  <2> QED
    BY <1>4, <2>2, <2>3 DEF SaveStep
<1>5. ASSUME NEW f \in Flows, flow' = [flow EXCEPT ![f].stage = "asking"] \/ FlowEnds(f),
             UNCHANGED <<app, webview, saves, files, saveFailed>>
      PROVE  OwedInv'
  <2>1. /\ flow'[f].owed \in {{}, flow[f].owed}
        /\ flow'[f].stage \in {"asking", "idle"}
        /\ \A g \in Flows \ {f} : flow'[g] = flow[g]
    BY <1>0, <1>5 DEF FlowEnds, IdleFlow, TypeOK, LeavingFlow
  <2>2. DiskItems' = DiskItems
    BY <1>5, DiskFrame DEF files
  <2> QED
    BY <1>5, <2>1, <2>2 DEF webview, NoSaveRuns
<1>6. CASE CloseRequested
  BY <1>5, <1>6 DEF CloseRequested, Flows
<1>7. CASE TrayQuitRequested
  BY <1>5, <1>7 DEF TrayQuitRequested, Flows
<1>8. ASSUME NEW f \in Flows, StayOpen(f) PROVE OwedInv'
  BY <1>5, <1>8 DEF StayOpen
<1>9. CASE Hide
  BY <1>5, <1>9 DEF Hide, Flows
<1>10. ASSUME NEW f \in Flows, Flush(f) PROVE OwedInv'
  <2>1. DiskItems' = DiskItems /\ UNCHANGED <<app, mem, saveFailed>>
    BY <1>10, DiskFrame DEF Flush, files
  <2>2. /\ flow'[f].owed = mem /\ \A g \in Flows \ {f} : flow'[g] = flow[g]
        /\ flow \in [Flows -> LeavingFlow]
    <3>1. flow \in [Flows -> LeavingFlow]
      BY <1>0 DEF TypeOK
    <3>2. \E r : flow' = [flow EXCEPT ![f] = r] /\ r.owed = mem
      <4>1. Flushed({}).owed = mem /\ \A t : Await(t, pending).owed = mem
        BY DEF Flushed, Await
      <4> QED
        BY <1>10, <4>1 DEF Flush
    <3> QED
      BY <3>1, <3>2
  <2>3. CASE pending = None /\ UNCHANGED saves
    <3>1. Running /\ \A t \in Slots : saves[t].stage # "free" => saves[t].payload = mem
      BY <1>0, <1>10, <2>3 DEF ChainInv, Flush, Running, NoFlowRuns
    <3>2. NoSaveRuns => mem = DiskItems \/ saveFailed
      BY <1>0, <2>3, <3>1 DEF ChainInv, QuiescentMeansSaved
    <3> QED
      BY <2>1, <2>2, <2>3, <3>1, <3>2 DEF NoSaveRuns
  <2>4. ASSUME NEW s \in Slots, Invoke(s) PROVE OwedInv'
    <3>1. \A t \in Slots : saves'[t].stage = "invoked" /\ saves'[t].payload = mem
      BY <1>0, <2>4 DEF Serial, Invoke, HasPayload, TypeOK, ChainInv
    <3>2. ~NoSaveRuns'
      BY <2>4, <3>1 DEF NoSaveRuns
    <3> QED
      BY <2>1, <2>2, <3>1, <3>2
  <2> QED
    BY <1>10, <2>3, <2>4 DEF Flush
<1>11. CASE ProcessEnds
  BY <1>11 DEF ProcessEnds, IdleFlow, FreeSlot
<1>12. CASE Launch \/ LoadData \/ LoadRecovers \/ LoadFails \/ FileDamaged
  <2>1. ~Running /\ UNCHANGED <<flow, saves>>
    BY <1>12 DEF Launch, LoadData, LoadRecovers, LoadFails, ShowLoaded, FileDamaged, Running
  <2>2. /\ \A f \in Flows : flow[f].stage = "idle" /\ flow[f].owed = {}
        /\ \A s \in Slots : saves[s].stage = "free"
    BY <1>0, <2>1 DEF ChainInv, NoFlowRuns, NoSaveRuns
  <2> QED
    BY <2>1, <2>2
<1>13. CASE SecretsResolved
  BY <1>0, <1>13 DEF SecretsResolved, ChainInv
<1> QED
  BY <1>1, <1>2, <1>3, <1>4, <1>6, <1>7, <1>8, <1>9, <1>10, <1>11, <1>12, <1>13
     DEF Next, QuitApp, Crash

\* QuitLosesNothing fails for one reason only: the flush does not await a save that is
\* already under way.  Once no save runs, what was in memory at the flush is on disk,
\* or the last save failed and said so.
THEOREM QuitLosesOnlyRunningSaves ==
    ASSUME Orderly PROVE Spec => []LosesOnlyRunningSaves
<1>1. Init => OwedInv
  BY DEF Init, OwedInv, LosesOnlyRunningSaves, IdleFlow, FreeSlot
<1>2. IInv /\ OwedInv /\ [Next]_vars => OwedInv'
  BY OwedInductive
<1>3. OwedInv => LosesOnlyRunningSaves
  BY DEF OwedInv
<1> QED
  BY <1>1, <1>2, <1>3, InvInductive, PTL DEF Spec

-----------------------------------------------------------------------------
\* Every step of the app is a step of the abstract store or none of its business.
LEMMA StepRefines ==
    ASSUME Orderly, IInv, IInv', [Next]_vars
    PROVE  [Store!StoreNext]_(Store!storeVars)
<1>0. Serial /\ TypeOK /\ TypeOK' /\ FileInv /\ ChainInv /\ ChainInv'
  BY DEF IInv, Orderly
<1>1. Running => DiskItems \subseteq mem
  BY <1>0 DEF ChainInv
<1>2. ~Running => mem = {}
  BY <1>0 DEF ChainInv
<1> USE DEF Store!StoreNext, Store!storeVars
<1>3. CASE UNCHANGED <<app, mem, target, data>>
  BY <1>3 DEF Running, DiskItems
<1>4. ASSUME NEW e \in Edits, Edit(e) PROVE Store!Change
  BY <1>0, <1>4, DiskFrame DEF Edit, files, Store!Change, Running, TypeOK
<1>5. ASSUME NEW s \in Slots, SaveStep(s) PROVE [Store!StoreNext]_(Store!storeVars)
  <2>1. CASE SaveOpens(s) \/ SaveWrites(s)
    BY <1>0, <2>1, SaveProceeds DEF Running
  <2>2. CASE SaveRenames(s) \/ SaveFails(s)
    <3>1. CASE DiskItems' = DiskItems
      BY <1>0, <2>2, <3>1, SaveDone DEF Running
    <3>2. CASE DiskItems' = saves[s].payload
      <4>1. Running /\ DiskItems \subseteq DiskItems' /\ DiskItems' \in SUBSET mem
        BY <1>0, <2>2, <3>2, SaveDone DEF ChainInv, NoSaveRuns
      <4> QED
        BY <1>0, <2>2, <4>1, SaveDone DEF Running, Store!Persist
    <3> QED
      BY <1>0, <2>2, <3>1, <3>2, SaveDone
  <2> QED
    BY <1>5, <2>1, <2>2 DEF SaveStep
<1>6. ASSUME ProcessEnds PROVE [Store!StoreNext]_(Store!storeVars)
  <2>1. DiskItems' = DiskItems /\ mem' = {} /\ Running' = FALSE
    BY <1>6, DiskFrame DEF ProcessEnds, files, Running
  <2> QED
    BY <1>2, <2>1 DEF Store!Stop, Running
<1>7. CASE Launch
  BY <1>7, DiskFrame DEF Launch, webview, files, Running
<1>8. CASE LoadData \/ LoadRecovers \/ LoadFails
  <2>1. /\ ~Running /\ Running' = TRUE
        /\ DiskItems' = DiskItems
        /\ DiskItems \subseteq mem'
    BY <1>0, <1>8, Loads DEF Running
  <2> QED
    BY <1>0, <2>1 DEF Store!Start, TypeOK
<1>9. CASE SecretsResolved
  BY <1>0, <1>9 DEF SecretsResolved, ChainInv
<1>10. CASE FileDamaged
  <2>1. DiskItems' = {}
    BY <1>0, <1>10 DEF FileDamaged, DiskItems, TypeOK
  <2> QED
    BY <1>10, <2>1 DEF FileDamaged, Store!Damage, Running, webview
<1> QED
  BY <1>3, <1>4, <1>5, <1>6, <1>7, <1>8, <1>9, <1>10
     DEF Next, vars, webview, files, TimerFires, CloseRequested,
         TrayQuitRequested, StayOpen, Flush, Hide, QuitApp, Crash

\* Saving implements the abstract store: what is on disk only moves forward to
\* a later state of memory, and each start continues from it.
THEOREM SavesImplementDurableStore ==
    ASSUME Orderly PROVE Spec => ImplementsDurableStore
<1>1. Init => Store!StoreInit
  BY DEF Init, Store!StoreInit, Running, DiskItems
<1>2. IInv /\ IInv' /\ [Next]_vars => [Store!StoreNext]_(Store!storeVars)
  BY StepRefines
<1> QED
  BY <1>1, <1>2, InvInductive, PTL DEF Spec, ImplementsDurableStore, Store!StoreSpec
-----------------------------------------------------------------------------
(* What holds with any number of saves at a time.                          *)

\* Only an edit, the sample, the timer, a flush and the end of the process touch the
\* pending payload or the timer.
LEMMA TimerInductive == TypeOK /\ TimerIffPending /\ [Next]_vars => TimerIffPending'
<1> SUFFICES ASSUME TypeOK, TimerIffPending, [Next]_vars PROVE TimerIffPending'
  OBVIOUS
<1> USE DEF TimerIffPending
<1>1. CASE UNCHANGED <<pending, timer>>
  BY <1>1
<1>2. ASSUME NEW e \in Edits, Edit(e) PROVE TimerIffPending'
  BY <1>2, ConstantsAssumption DEF Edit, Debounce, TypeOK, Items
<1>3. ASSUME NEW s \in Slots, TimerFires(s) PROVE TimerIffPending'
  BY <1>3 DEF TimerFires, Invoke, ClearTimer
<1>4. ASSUME NEW f \in Flows, Flush(f) PROVE TimerIffPending'
  BY <1>4 DEF Flush, Invoke, ClearTimer
<1>5. CASE ProcessEnds
  BY <1>5 DEF ProcessEnds
<1>6. ASSUME NEW read, ShowLoaded(read) PROVE TimerIffPending'
  BY <1>6, ConstantsAssumption DEF ShowLoaded, Debounce, Items
<1> QED
  BY <1>1, <1>2, <1>3, <1>4, <1>5, <1>6
     DEF Next, vars, webview, SaveStep, SaveOpens, SaveWrites, SaveRenames, SaveFails,
         CloseRequested, TrayQuitRequested, StayOpen, Hide, QuitApp, Crash, Launch,
         LoadData, LoadRecovers, LoadFails, SecretsResolved, FileDamaged

\* The timer is armed exactly while there is a payload to hand over, however many
\* saves run and whatever fails.
THEOREM TimerAlwaysPending == Spec => []TimerIffPending
<1>1. Init => TimerIffPending
  BY DEF Init, TimerIffPending
<1> QED
  BY <1>1, TypeCorrect, TimerInductive, PTL DEF Spec

\* Without secrets no late answer is on its way, and memory only grows while the
\* program runs: the resolver is the only thing that takes it back.
THEOREM MemoryOnlyGrows == ASSUME ~Secrets PROVE Spec => MemoryNeverGoesBack
<1> DEFINE NoAnswer == resolving = None
           Grows == Running /\ app' = "running" => mem \subseteq mem'
<1>1. Init => NoAnswer
  BY DEF Init
<1>2. NoAnswer /\ [Next]_vars => NoAnswer'
  BY DEF Next, vars, webview, Edit, TimerFires, SaveStep, SaveOpens, SaveWrites,
         SaveRenames, SaveFails, CloseRequested, TrayQuitRequested, StayOpen, Flush, Hide,
         QuitApp, Crash, ProcessEnds, Launch, LoadData, LoadRecovers, LoadFails, ShowLoaded,
         SecretsResolved, FileDamaged
<1>3. NoAnswer /\ [Next]_vars => [Grows]_vars
  BY DEF Running, Next, vars, webview, Edit, TimerFires, SaveStep, SaveOpens, SaveWrites,
         SaveRenames, SaveFails, CloseRequested, TrayQuitRequested, StayOpen, Flush, Hide,
         QuitApp, Crash, ProcessEnds, Launch, LoadData, LoadRecovers, LoadFails,
         SecretsResolved, FileDamaged
<1>4. MemoryNeverGoesBack <=> [][Grows]_vars
  BY DEF MemoryNeverGoesBack
<1> HIDE DEF NoAnswer, Grows
<1> QED
  BY <1>1, <1>2, <1>3, <1>4, PTL DEF Spec

\* A way out that awaits a save awaits one that runs.
AwaitedSaveRuns ==
    \A f \in Flows : flow[f].stage = "awaiting" => saves[flow[f].slot].stage # "free"

\* How many steps of its own a save has left at most.
StepsLeft(s) ==
    CASE saves[s].stage = "invoked" -> 3
      [] saves[s].stage = "opened"  -> 2
      [] saves[s].stage = "written" -> 1
      [] OTHER -> 0

\* A way out that awaits leaves next, or goes on awaiting the same save, which is where
\* it was or a step nearer to its end: no other save, no second way out and no edit can
\* hold it up, unless the process ends.
AwaitedSaveAdvances ==
    \A f \in Flows : flow[f].stage = "awaiting" /\ app' = "running" =>
        \/ flow'[f].stage = "leaving"
        \/ /\ flow'[f] = flow[f]
           /\ \/ saves'[flow[f].slot] = saves[flow[f].slot]
              \/ StepsLeft(flow[f].slot)' < StepsLeft(flow[f].slot)

AwaitInv == HandshakeInv /\ AwaitedSaveRuns /\ (~Running => NoFlowRuns)

\* What a step makes of the way out f when it awaits the save in slot t.
LEMMA AwaitStep ==
    ASSUME TypeOK, AwaitInv, [Next]_vars, app' = "running",
           NEW f \in Flows, flow[f].stage = "awaiting", NEW t, t = flow[f].slot
    PROVE  \/ flow'[f].stage = "leaving" /\ flow'[f].slot = None
           \/ /\ flow'[f] = flow[f] /\ saves'[t].stage # "free"
              /\ \/ saves'[t] = saves[t]
                 \/ StepsLeft(t)' < StepsLeft(t)
<1>0. /\ t \in Slots /\ saves[t].stage # "free" /\ saves[t] \in SaveCommand /\ Running
      /\ flow \in [Flows -> LeavingFlow] /\ saves \in [Slots -> SaveCommand]
  BY DEF AwaitInv, HandshakeInv, AwaitedSaveRuns, NoFlowRuns, TypeOK, LeavingFlow
<1>1. CASE UNCHANGED <<saves, flow>>
  BY <1>0, <1>1
<1>2. ASSUME NEW s \in Slots, Invoke(s)
      PROVE  saves'[t] = saves[t]
  BY <1>0, <1>2 DEF Invoke
<1>a. ASSUME NEW s \in Slots, SaveEnds(s)
      PROVE  /\ flow'[f] = IF flow[f].slot = s
                            THEN [flow[f] EXCEPT !.stage = "leaving", !.slot = None]
                            ELSE flow[f]
             /\ saves' = [saves EXCEPT ![s] = FreeSlot]
  BY <1>a, Zenon DEF SaveEnds, WakeWaiter
<1>3. ASSUME NEW s \in Slots, SaveEnds(s), s = t
      PROVE  flow'[f].stage = "leaving" /\ flow'[f].slot = None
  <2>1. flow'[f] = [flow[f] EXCEPT !.stage = "leaving", !.slot = None]
    BY <1>3, <1>a
  <2> QED
    BY <1>0, <2>1 DEF LeavingFlow
<1>4. ASSUME NEW s \in Slots, SaveEnds(s), s # t
      PROVE  flow'[f] = flow[f] /\ saves'[t] = saves[t]
  BY <1>0, <1>4, <1>a
<1>5. ASSUME NEW s \in Slots, SaveOpens(s) \/ SaveWrites(s)
      PROVE  /\ flow'[f] = flow[f] /\ saves'[t].stage # "free"
             /\ saves'[t] = saves[t] \/ StepsLeft(t)' < StepsLeft(t)
  <2>1. CASE SaveOpens(s)
    <3>1. PICK i : saves' = [saves EXCEPT ![s].stage = "opened", ![s].fd = i]
      BY <2>1 DEF SaveOpens
    <3>2. saves[s].stage = "invoked" /\ flow' = flow
      BY <2>1 DEF SaveOpens
    <3>3. s = t => saves'[t].stage = "opened"
      BY <1>0, <3>1 DEF SaveCommand
    <3>4. s # t => saves'[t] = saves[t]
      BY <1>0, <3>1
    <3> QED
      BY <1>0, <3>2, <3>3, <3>4 DEF StepsLeft
  <2>2. CASE SaveWrites(s)
    <3>1. /\ saves' = [saves EXCEPT ![s].stage = "written"]
          /\ saves[s].stage = "opened" /\ flow' = flow
      BY <2>2 DEF SaveWrites
    <3>2. s = t => saves'[t].stage = "written"
      BY <1>0, <3>1 DEF SaveCommand
    <3>3. s # t => saves'[t] = saves[t]
      BY <1>0, <3>1
    <3> QED
      BY <1>0, <3>1, <3>2, <3>3 DEF StepsLeft
  <2> QED
    BY <1>5, <2>1, <2>2
<1>6. ASSUME NEW s \in Slots, SaveStep(s)
      PROVE  \/ flow'[f].stage = "leaving" /\ flow'[f].slot = None
             \/ /\ flow'[f] = flow[f] /\ saves'[t].stage # "free"
                /\ saves'[t] = saves[t] \/ StepsLeft(t)' < StepsLeft(t)
  <2>1. CASE SaveOpens(s) \/ SaveWrites(s)
    BY <1>5, <2>1
  <2>2. CASE SaveEnds(s)
    BY <1>0, <1>3, <1>4, <2>2
  <2> QED
    BY <1>6, <2>1, <2>2 DEF SaveStep, SaveRenames, SaveFails
<1>7. ASSUME NEW s \in Slots, TimerFires(s) PROVE flow'[f] = flow[f] /\ saves'[t] = saves[t]
  BY <1>2, <1>7 DEF TimerFires
<1>8. ASSUME NEW g \in Flows, Flush(g) PROVE flow'[f] = flow[f] /\ saves'[t] = saves[t]
  <2>1. g # f
    BY <1>8 DEF Flush
  <2> QED
    BY <1>0, <1>2, <1>8, <2>1 DEF Flush
<1>9. ASSUME \/ CloseRequested \/ TrayQuitRequested \/ Hide
             \/ \E g \in Flows : StayOpen(g)
      PROVE  flow'[f] = flow[f] /\ saves' = saves
  <2>1. CASE CloseRequested
    <3>1. f # "close"
      BY <2>1 DEF CloseRequested, AwaitInv, HandshakeInv, ClosingMatchesHandshake
    <3> QED
      BY <1>0, <2>1, <3>1 DEF CloseRequested
  <2>2. CASE TrayQuitRequested
    BY <1>0, <2>2 DEF TrayQuitRequested
  <2>3. CASE Hide
    BY <1>0, <2>3 DEF Hide, FlowEnds
  <2>4. ASSUME NEW g \in Flows, StayOpen(g) PROVE flow'[f] = flow[f] /\ saves' = saves
    BY <1>0, <2>4 DEF StayOpen, FlowEnds
  <2> QED
    BY <1>9, <2>1, <2>2, <2>3, <2>4
<1>10. ~ProcessEnds
  BY DEF ProcessEnds
<1>11. ~(Launch \/ LoadData \/ LoadRecovers \/ LoadFails)
  BY <1>0 DEF Launch, LoadData, LoadRecovers, LoadFails, Running
<1>12. ASSUME \/ \E e \in Edits : Edit(e)
              \/ SecretsResolved \/ FileDamaged \/ UNCHANGED vars
       PROVE  UNCHANGED <<saves, flow>>
  BY <1>12 DEF Edit, SecretsResolved, FileDamaged, vars
<1> QED
  BY <1>0, <1>1, <1>6, <1>7, <1>8, <1>9, <1>10, <1>11, <1>12 DEF Next, QuitApp, Crash

\* A flush awaits the save it has just started, and nothing else begins to await.
LEMMA AwaitInductive == TypeOK /\ AwaitInv /\ HandshakeInv' /\ [Next]_vars => AwaitInv'
<1> SUFFICES ASSUME TypeOK, AwaitInv, HandshakeInv', [Next]_vars PROVE AwaitInv'
  OBVIOUS
<1>0. flow \in [Flows -> LeavingFlow] /\ saves \in [Slots -> SaveCommand]
  BY DEF TypeOK
<1>1. ASSUME NEW f \in Flows, flow'[f].stage = "awaiting", flow[f].stage # "awaiting"
      PROVE  saves'[flow'[f].slot].stage = "invoked"
  <2>1. ASSUME NEW g \in Flows, Flush(g) PROVE saves'[flow'[f].slot].stage = "invoked"
    <3>1. f = g
      BY <1>0, <1>1, <2>1 DEF Flush
    <3>2. flow' # [flow EXCEPT ![g] = Flushed({})]
      BY <1>0, <1>1, <3>1 DEF Flushed
    <3>3. PICK s \in Slots : Invoke(s) /\ flow' = [flow EXCEPT ![g] = Await(s, pending)]
      BY <2>1, <3>2 DEF Flush
    <3>4. flow'[f].slot = s /\ saves'[s].stage = "invoked"
      BY <1>0, <3>1, <3>3 DEF Await, Flushed, Invoke
    <3> QED
      BY <3>4
  <2>2. ASSUME NEW s \in Slots, SaveEnds(s) PROVE FALSE
    <3>1. flow'[f] = [flow[f] EXCEPT !.stage = "leaving", !.slot = None] \/ flow'[f] = flow[f]
      BY <2>2, Zenon DEF SaveEnds, WakeWaiter
    <3> QED
      BY <1>0, <1>1, <3>1 DEF LeavingFlow
  <2>3. ASSUME NEW g \in Flows,
               flow' = [flow EXCEPT ![g].stage = "asking"] \/ flow' = [flow EXCEPT ![g] = IdleFlow]
        PROVE  FALSE
    BY <1>0, <1>1, <2>3 DEF IdleFlow, LeavingFlow
  <2>4. ~ProcessEnds /\ ~UNCHANGED flow
    BY <1>1 DEF ProcessEnds, IdleFlow
  <2>5. CASE CloseRequested \/ TrayQuitRequested
    BY <2>3, <2>5 DEF CloseRequested, TrayQuitRequested, Flows
  <2>6. CASE Hide \/ \E g \in Flows : StayOpen(g)
    BY <2>3, <2>6 DEF Hide, StayOpen, FlowEnds, Flows
  <2> QED
    BY <2>1, <2>2, <2>4, <2>5, <2>6
       DEF Next, vars, SaveStep, SaveOpens, SaveWrites, SaveRenames, SaveFails, Edit,
           TimerFires, QuitApp, Crash, Launch, LoadData, LoadRecovers, LoadFails, ShowLoaded,
           SecretsResolved, FileDamaged
<1>2. CASE app' = "running"
  <2>1. ASSUME NEW f \in Flows, flow'[f].stage = "awaiting"
        PROVE  saves'[flow'[f].slot].stage # "free"
    <3>1. CASE flow[f].stage = "awaiting"
      <4>1. PICK t : t = flow[f].slot
        OBVIOUS
      <4>2. flow'[f] = flow[f] /\ saves'[t].stage # "free"
        BY <1>2, <2>1, <3>1, <4>1, AwaitStep
      <4> QED
        BY <4>1, <4>2
    <3>2. CASE flow[f].stage # "awaiting"
      BY <1>1, <2>1, <3>2
    <3> QED
      BY <3>1, <3>2
  <2> QED
    BY <1>2, <2>1 DEF AwaitInv, AwaitedSaveRuns, Running
<1>3. CASE app' # "running"
  <2>1. ASSUME ProcessEnds, NEW f \in Flows PROVE flow'[f].stage = "idle"
    BY <2>1 DEF ProcessEnds, IdleFlow
  <2>2. ASSUME ~ProcessEnds, NEW f \in Flows PROVE flow'[f].stage = "idle"
    <3>1. app # "running"
      BY <1>3, <2>2
         DEF Next, vars, SaveStep, SaveOpens, SaveWrites, SaveRenames, SaveFails, Edit,
             TimerFires, CloseRequested, TrayQuitRequested, StayOpen, Flush, Hide, QuitApp,
             Crash, Launch, LoadData, LoadRecovers, LoadFails, ShowLoaded, SecretsResolved,
             FileDamaged
    <3>2. \A g \in Flows : flow[g].stage = "idle" /\ flow[g].slot = None
      BY <3>1 DEF AwaitInv, NoFlowRuns, Running, HandshakeInv
    <3>3. ASSUME NEW s \in Slots, SaveEnds(s) PROVE flow'[f] = flow[f]
      <4>1. flow[f].slot # s
        BY <3>2, ConstantsAssumption
      <4> QED
        BY <3>3, <4>1, Zenon DEF SaveEnds, WakeWaiter
    <3>4. \A g \in Flows : ~StayOpen(g) /\ ~Flush(g) /\ ~QuitApp(g)
      BY <3>2 DEF StayOpen, Flush, QuitApp
    <3>5. ~Hide
      BY <3>2 DEF Hide, Flows
    <3>6. flow'[f] = flow[f]
      BY <2>2, <3>1, <3>3, <3>4, <3>5
         DEF Next, vars, SaveStep, SaveOpens, SaveWrites, SaveRenames, SaveFails, Edit,
             TimerFires, CloseRequested, TrayQuitRequested, Crash, Launch, LoadData,
             LoadRecovers, LoadFails, ShowLoaded, SecretsResolved, FileDamaged
    <3> QED
      BY <3>2, <3>6
  <2> QED
    BY <2>1, <2>2 DEF AwaitInv, AwaitedSaveRuns, NoFlowRuns
<1> QED
  BY <1>2, <1>3

\* What LeavingEnds needs of the code, fairness apart: a close or Quit never awaits a
\* save that has already ended, and the save it awaits only moves on.
THEOREM AwaitedSavesEnd == Spec => []AwaitedSaveRuns /\ [][AwaitedSaveAdvances]_vars
<1>1. Init => HandshakeInv /\ AwaitInv
  BY DEF Init, HandshakeInv, ClosingMatchesHandshake, IdleFlow, Flows, AwaitInv,
         AwaitedSaveRuns, NoFlowRuns
<1>2. AwaitInv => HandshakeInv /\ AwaitedSaveRuns
  BY DEF AwaitInv
<1>3. TypeOK /\ AwaitInv /\ [Next]_vars => [AwaitedSaveAdvances]_vars
  <2> SUFFICES ASSUME TypeOK, AwaitInv, [Next]_vars PROVE AwaitedSaveAdvances
    OBVIOUS
  <2> SUFFICES ASSUME NEW f \in Flows, flow[f].stage = "awaiting", app' = "running",
                      NEW t, t = flow[f].slot
               PROVE  \/ flow'[f].stage = "leaving"
                      \/ /\ flow'[f] = flow[f]
                         /\ \/ saves'[t] = saves[t]
                            \/ StepsLeft(t)' < StepsLeft(t)
    BY DEF AwaitedSaveAdvances
  <2> QED
    BY AwaitStep
<1> QED
  BY <1>1, <1>2, <1>3, TypeCorrect, HandshakeInductive, AwaitInductive, PTL DEF Spec
=============================================================================
