------------------------------ MODULE Coroutine ------------------------------
(***************************************************************************)
(* What Fiber promises a client that keeps its side: coroutines.  Each is  *)
(* on at most one thread, is resumed where it was suspended (on whatever   *)
(* thread), not at all once it has ended, and can be restarted or          *)
(* destroyed only when nothing of it is left on its stack.                 *)
(***************************************************************************)
CONSTANTS Threads, Fibers, NULL

VARIABLES
  st,   \* per fiber: where it stands
  run   \* per thread: the fiber it runs, or NULL

vars == <<st, run>>

Init ==
  /\ st = [f \in Fibers |-> "none"]
  /\ run = [t \in Threads |-> NULL]

Moves(f, from, to) == st[f] \in from /\ st' = [st EXCEPT ![f] = to]

Create(f)  == Moves(f, {"none"}, "fresh") /\ UNCHANGED run
Restart(f) == Moves(f, {"ended"}, "fresh") /\ UNCHANGED run
Destroy(f) == Moves(f, {"fresh", "ended"}, "destroyed") /\ UNCHANGED run

Resume(t, f) ==
  /\ run[t] = NULL
  /\ Moves(f, {"fresh", "suspended"}, "running")
  /\ run' = [run EXCEPT ![t] = f]

Leave(t, f) ==
  /\ run[t] = f
  /\ \E to \in {"suspended", "ended"} : Moves(f, {"running"}, to)
  /\ run' = [run EXCEPT ![t] = NULL]

Next ==
  \E f \in Fibers :
    \/ Create(f) \/ Restart(f) \/ Destroy(f)
    \/ \E t \in Threads : Resume(t, f) \/ Leave(t, f)

Spec == Init /\ [][Next]_vars
=============================================================================
