---------------------------- MODULE DurableStore ----------------------------
(***************************************************************************)
(* What saving promises, without timers, commands or files.  The user's    *)
(* collections are the set of edits they contain.  While the program is up *)
(* the edits in memory only grow, and what is durable moves forward from   *)
(* one past state of memory to a later one.  Stopping forgets memory, and  *)
(* the next start begins from everything that was durable.                 *)
(***************************************************************************)
CONSTANT Items                  \* the edits collections can contain

VARIABLES up,                   \* the program is running
          mem,                  \* the edits in memory
          disk                  \* the edits that survive a stop

storeVars == <<up, mem, disk>>

StoreInit == /\ up = FALSE
             /\ mem = {}
             /\ disk = {}

\* A start keeps everything durable; it may add content of its own (a sample).
Start == /\ ~up
         /\ up' = TRUE
         /\ mem' \in SUBSET Items
         /\ disk \subseteq mem'
         /\ UNCHANGED disk

Change == /\ up
          /\ mem' \in SUBSET Items
          /\ mem \subseteq mem'
          /\ UNCHANGED <<up, disk>>

\* A save never takes back an edit that an earlier save made durable.
Persist == /\ up
           /\ disk' \in SUBSET mem
           /\ disk \subseteq disk'
           /\ UNCHANGED <<up, mem>>

Stop == /\ up
        /\ up' = FALSE
        /\ mem' = {}
        /\ UNCHANGED disk

\* Somebody else destroys the file while the program is not running.
Damage == /\ ~up
          /\ disk' = {}
          /\ UNCHANGED <<up, mem>>

StoreNext == Start \/ Change \/ Persist \/ Stop \/ Damage

StoreSpec == StoreInit /\ [][StoreNext]_storeVars
=============================================================================
