------------------------------- MODULE RWLock -------------------------------
(***************************************************************************)
(* What the locks of mutex.h promise the code between a guard's lock and   *)
(* its unlock: any number of guards read, or one guard writes.  Every lock *)
(* of the process is one of Locks, every guard object one of Guards.       *)
(***************************************************************************)
CONSTANTS Locks, Guards

VARIABLES
  readers,  \* per lock: the guards that hold it for reading
  writers   \* per lock: the guards that hold it exclusively

vars == <<readers, writers>>

Init ==
  /\ readers = [m \in Locks |-> {}]
  /\ writers = [m \in Locks |-> {}]

Read(m, g) ==
  /\ writers[m] = {}
  /\ readers' = [readers EXCEPT ![m] = @ \cup {g}]
  /\ UNCHANGED writers

Write(m, g) ==
  /\ readers[m] = {} /\ writers[m] = {}
  /\ writers' = [writers EXCEPT ![m] = {g}]
  /\ UNCHANGED readers

Release(m, g) ==
  \/ /\ g \in readers[m]
     /\ readers' = [readers EXCEPT ![m] = @ \ {g}]
     /\ UNCHANGED writers
  \/ /\ g \in writers[m]
     /\ writers' = [writers EXCEPT ![m] = {}]
     /\ UNCHANGED readers

Next == \E m \in Locks, g \in Guards : Read(m, g) \/ Write(m, g) \/ Release(m, g)

Spec == Init /\ [][Next]_vars
=============================================================================
