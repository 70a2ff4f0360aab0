--------------------------- MODULE NotifiedValue ---------------------------
(***************************************************************************)
(* What ConfigVar promises the modules that listen to its variables,       *)
(* without locks, ids and calls: a change is announced, every module of    *)
(* the variable is told, and only then it takes effect.  No module joins   *)
(* while a change is announced, and none leaves while modules are told.    *)
(***************************************************************************)
CONSTANTS Vars, Values, Default, Listeners, NULL

VARIABLES
  value,  \* per variable: its value
  next,   \* per variable: the value that is announced, or NULL
  at,     \* per module: the variable it listens to; NULL before, "gone" after
  knows   \* per module: the value it knows

vars == <<value, next, at, knows>>

Init ==
  /\ value = [v \in Vars |-> Default]
  /\ next = [v \in Vars |-> NULL]
  /\ at = [l \in Listeners |-> NULL]
  /\ knows = [l \in Listeners |-> NULL]

AllKnow(v) == \A l \in Listeners : at[l] = v => knows[l] = next[v]

Announce(v, x) ==
  /\ next[v] = NULL /\ x # value[v]
  /\ next' = [next EXCEPT ![v] = x]
  /\ UNCHANGED <<value, at, knows>>

Tell(l) ==
  /\ at[l] \in Vars /\ next[at[l]] # NULL
  /\ knows' = [knows EXCEPT ![l] = next[at[l]]]
  /\ UNCHANGED <<value, next, at>>

Commit(v) ==
  /\ next[v] # NULL /\ AllKnow(v)
  /\ value' = [value EXCEPT ![v] = next[v]]
  /\ next' = [next EXCEPT ![v] = NULL]
  /\ UNCHANGED <<at, knows>>

Join(l, v) ==
  /\ at[l] = NULL /\ next[v] = NULL
  /\ at' = [at EXCEPT ![l] = v]
  /\ knows' = [knows EXCEPT ![l] = value[v]]
  /\ UNCHANGED <<value, next>>

(* The modules of M leave, all at once.                                    *)
Leave(v, M) ==
  /\ next[v] = NULL \/ AllKnow(v)
  /\ \A l \in M : at[l] = v
  /\ at' = [l \in Listeners |-> IF l \in M THEN "gone" ELSE at[l]]
  /\ UNCHANGED <<value, next, knows>>

Next ==
  \/ \E v \in Vars, x \in Values : Announce(v, x)
  \/ \E l \in Listeners : Tell(l)
  \/ \E v \in Vars : Commit(v)
  \/ \E l \in Listeners, v \in Vars : Join(l, v)
  \/ \E v \in Vars, M \in SUBSET Listeners : Leave(v, M)

Spec == Init /\ [][Next]_vars
=============================================================================
