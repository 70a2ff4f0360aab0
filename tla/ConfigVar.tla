----------------------------- MODULE ConfigVar -----------------------------
(***************************************************************************)
(* ConfigVar<T> of config.h: a value and its change listeners, both under  *)
(* one read-write lock per variable.  SetValue tells the listeners under   *)
(* the read lock, lets it go and stores the value under the write lock.    *)
(* AddListener draws its ids from s_fun_id, a static local that all        *)
(* variables of the type T share and that no common lock protects.         *)
(***************************************************************************)
EXTENDS Naturals, FiniteSets

CONSTANTS
  Threads,
  Vars,       \* the variables of one type T
  Values,     \* the values of T
  Default,    \* the default value of every variable
  Listeners,  \* the callbacks; each is registered at most once
  Profiles,   \* what the code that uses the variables may promise (see AllDuties)
  MaxSets,    \* bound: the number of calls of SetValue that store or notify
  NULL

(*  "one setter"  SetValue is not called on a variable while another call  *)
(*                on it is under way                                       *)
(*  "one adder"   AddListener is not called while another call is          *)
(*  "quiet"       AddListener is not called while SetValue is under way    *)
(*  "no throw"    listeners do not throw                                   *)
(*  "no reentry"  listeners do not change their own variable or its        *)
(*                listeners                                                *)
AllDuties == {"one setter", "one adder", "quiet", "no throw", "no reentry"}

ASSUME ConfigVarAssumption ==
  /\ IsFiniteSet(Listeners)
  /\ Default \in Values /\ MaxSets \in Nat
  /\ NULL \notin Threads \cup Vars \cup Values \cup Listeners
  /\ NULL # "gone" /\ "gone" \notin Vars
  /\ Profiles \subseteq SUBSET AllDuties

VARIABLES
  duties,    \* what the code that uses the variables promises; never changes
  val_,      \* the value of every variable
  cbs_,      \* per variable: the listener registered under each id
  s_fun_id,
  readers,   \* per variable: the threads that hold mutex_ for reading
  writer,    \* per variable: the thread that holds it for writing
  pc,
  op,        \* per thread: the arguments and locals of the call it executes
  home,      \* per listener: the variable it is registered with
  id,        \* per listener: the id that AddListener returned
  told,      \* per listener: the value its module knows
  sets       \* calls of SetValue so far

vars == <<duties, val_, cbs_, s_fun_id, readers, writer, pc, op, home, id, told, sets>>

Ids  == 1..Cardinality(Listeners)
Ops  == [var : Vars \cup {NULL}, new : Values \cup {NULL}, old : Values \cup {NULL},
         todo : SUBSET Ids, cb : Listeners \cup {NULL}, tmp : {0} \cup Ids]
NoOp == [var |-> NULL, new |-> NULL, old |-> NULL, todo |-> {}, cb |-> NULL, tmp |-> 0]

(* The type invariant: ids stay in range though s_fun_id is unprotected.   *)
TypeOK ==
  /\ duties \in Profiles
  /\ val_ \in [Vars -> Values]
  /\ cbs_ \in [Vars -> [Ids -> Listeners \cup {NULL}]]
  /\ s_fun_id \in {0} \cup Ids
  /\ readers \in [Vars -> SUBSET Threads]
  /\ writer \in [Vars -> Threads \cup {NULL}]
  /\ pc \in [Threads -> {"idle", "notify", "reentered", "store", "stored_id", "insert", "return"}]
  /\ op \in [Threads -> Ops]
  /\ home \in [Listeners -> Vars \cup {NULL, "gone"}]
  /\ id \in [Listeners -> {0} \cup Ids]
  /\ told \in [Listeners -> Values \cup {NULL}]
  /\ sets \in 0..MaxSets

Init ==
  /\ duties \in Profiles
  /\ val_ = [v \in Vars |-> Default]
  /\ cbs_ = [v \in Vars |-> [i \in Ids |-> NULL]]
  /\ s_fun_id = 0
  /\ readers = [v \in Vars |-> {}]
  /\ writer = [v \in Vars |-> NULL]
  /\ pc = [t \in Threads |-> "idle"]
  /\ op = [t \in Threads |-> NoOp]
  /\ home = [l \in Listeners |-> NULL]
  /\ id = [l \in Listeners |-> 0]
  /\ told = [l \in Listeners |-> NULL]
  /\ sets = 0

-----------------------------------------------------------------------------
Setting(t, v) == pc[t] \in {"notify", "reentered", "store"} /\ op[t].var = v
Adding(t)     == pc[t] \in {"stored_id", "insert", "return"}

OneSetter(v) == "one setter" \in duties => \A u \in Threads : ~Setting(u, v)
OneAdder     == "one adder" \in duties => \A u \in Threads : ~Adding(u)
Quiet(v)     == "quiet" \in duties => \A u \in Threads : ~Setting(u, v)

NoLock(v)   == TRUE
CanRead(v)  == writer[v] = NULL
CanWrite(v) == writer[v] = NULL /\ readers[v] = {}

Registered(v) == {i \in Ids : cbs_[v][i] # NULL}
First(S)      == CHOOSE i \in S : \A j \in S : i <= j

(* The call returns or is left by an exception; its lock is released.      *)
Done(t) ==
  /\ pc' = [pc EXCEPT ![t] = "idle"]
  /\ op' = [op EXCEPT ![t] = NoOp]

AllButFirst(v) == IF Registered(v) = {} THEN {} ELSE Registered(v) \ {First(Registered(v))}

(* The listeners SetValue goes through, in the order of their ids.         *)
ToNotify(v) == Registered(v)

StoredFirst(v, x) == [val_ EXCEPT ![v] = x]

(* val_ while the listeners are called.                                    *)
ValAtNotify(v, x) == val_

(* SetValue of a value that differs: the read lock is taken and held.      *)
(* (With an equal value, and FromString with a string that does not        *)
(* convert, change nothing.)                                               *)
SetValue(t, v, x) ==
  /\ pc[t] = "idle" /\ sets < MaxSets /\ OneSetter(v)
  /\ CanRead(v) /\ val_[v] # x
  /\ readers' = [readers EXCEPT ![v] = @ \cup {t}]
  /\ pc' = [pc EXCEPT ![t] = "notify"]
  /\ op' = [op EXCEPT ![t] = [var |-> v, new |-> x, old |-> val_[v], todo |-> ToNotify(v),
                              cb |-> NULL, tmp |-> 0]]
  /\ val_' = ValAtNotify(v, x)
  /\ sets' = sets + 1
  /\ UNCHANGED <<duties, cbs_, s_fun_id, writer, home, id, told>>

KeptLock(t) == readers

(* The read lock goes away with its scope.                                 *)
Unlocked(t) == [readers EXCEPT ![op[t].var] = @ \ {t}]

OldValue(t) == op[t].old

(* The first of the two arguments, the new and the old value.              *)
NewValue(t) == op[t].new

(* The next listener is called with the new value, and may throw: SetValue *)
(* is then left and nothing is stored (FromString catches it).             *)
Notify(t) ==
  /\ pc[t] = "notify" /\ op[t].todo # {}
  /\ LET i == First(op[t].todo)
         l == cbs_[op[t].var][i]
     IN \/ /\ told' = [told EXCEPT ![l] = NewValue(t)]
           /\ op' = [op EXCEPT ![t].todo = @ \ {i}]
           /\ UNCHANGED <<readers, pc>>
        \/ /\ "no throw" \notin duties
           /\ readers' = Unlocked(t)
           /\ Done(t)
           /\ UNCHANGED told
  /\ UNCHANGED <<duties, val_, cbs_, s_fun_id, writer, home, id, sets>>

(* A listener changes its own variable, or adds or removes a listener of   *)
(* it: it waits for the write lock while its thread holds the read lock.   *)
(* There is no step from here.                                             *)
CallBack(t) ==
  /\ pc[t] = "notify" /\ op[t].todo # {} /\ "no reentry" \notin duties
  /\ pc' = [pc EXCEPT ![t] = "reentered"]
  /\ UNCHANGED <<duties, val_, cbs_, s_fun_id, readers, writer, op, home, id, told, sets>>

(* All listeners know: the read lock is released, no lock is held.         *)
EndNotify(t) ==
  /\ pc[t] = "notify" /\ op[t].todo = {}
  /\ readers' = Unlocked(t)
  /\ pc' = [pc EXCEPT ![t] = "store"]
  /\ UNCHANGED <<duties, val_, cbs_, s_fun_id, writer, op, home, id, told, sets>>

(* val_ = v under the write lock.                                          *)
Store(t) ==
  /\ pc[t] = "store" /\ CanWrite(op[t].var)
  /\ val_' = [val_ EXCEPT ![op[t].var] = op[t].new]
  /\ Done(t)
  /\ UNCHANGED <<duties, cbs_, s_fun_id, readers, writer, home, id, told, sets>>

-----------------------------------------------------------------------------
(* AddListener takes the write lock and loads s_fun_id.                    *)
AddListener(t, v, l) ==
  /\ pc[t] = "idle" /\ home[l] = NULL /\ OneAdder /\ Quiet(v)
  /\ \A u \in Threads : op[u].cb # l
  /\ CanWrite(v)
  /\ writer' = [writer EXCEPT ![v] = t]
  /\ pc' = [pc EXCEPT ![t] = "stored_id"]
  /\ op' = [op EXCEPT ![t] = [var |-> v, new |-> NULL, old |-> NULL, todo |-> {},
                              cb |-> l, tmp |-> s_fun_id]]
  /\ UNCHANGED <<duties, val_, cbs_, s_fun_id, readers, home, id, told, sets>>

IncrementedTwice(t) == op[t].tmp + 2

(* ++s_fun_id                                                              *)
Incremented(t) == op[t].tmp + 1

StoreId(t) ==
  /\ pc[t] = "stored_id"
  /\ s_fun_id' = Incremented(t)
  /\ pc' = [pc EXCEPT ![t] = "insert"]
  /\ UNCHANGED <<duties, val_, cbs_, readers, writer, op, home, id, told, sets>>

(* What a later use of s_fun_id in the same call gives: the compiler may   *)
(* read the variable again or keep what it stored.                         *)
FunId(t) == {s_fun_id, op[t].tmp + 1}

(* cbs_[s_fun_id] = cb: an entry under the same id is replaced.            *)
Insert(t) ==
  /\ pc[t] = "insert"
  /\ \E i \in FunId(t) : cbs_' = [cbs_ EXCEPT ![op[t].var][i] = op[t].cb]
  /\ home' = [home EXCEPT ![op[t].cb] = op[t].var]
  /\ told' = [told EXCEPT ![op[t].cb] = val_[op[t].var]]
  /\ pc' = [pc EXCEPT ![t] = "return"]
  /\ UNCHANGED <<duties, val_, s_fun_id, readers, writer, op, id, sets>>

IdBefore(t) == {op[t].tmp}

ReturnedId(t) == FunId(t)

(* return s_fun_id, and the write lock is released.                        *)
Return(t) ==
  /\ pc[t] = "return"
  /\ \E i \in ReturnedId(t) : id' = [id EXCEPT ![op[t].cb] = i]
  /\ writer' = [writer EXCEPT ![op[t].var] = NULL]
  /\ Done(t)
  /\ UNCHANGED <<duties, val_, cbs_, s_fun_id, readers, home, told, sets>>

(* DelListener with the id that AddListener returned for l.                *)
DelListener(t, l) ==
  /\ pc[t] = "idle" /\ home[l] \in Vars /\ id[l] # 0 /\ CanWrite(home[l])
  /\ cbs_' = [cbs_ EXCEPT ![home[l]][id[l]] = NULL]
  /\ home' = [home EXCEPT ![l] = "gone"]
  /\ UNCHANGED <<duties, val_, s_fun_id, readers, writer, pc, op, id, told, sets>>

ClearListener(t, v) ==
  /\ pc[t] = "idle" /\ Registered(v) # {} /\ CanWrite(v)
  /\ cbs_' = [cbs_ EXCEPT ![v] = [i \in Ids |-> NULL]]
  /\ home' = [l \in Listeners |-> IF home[l] = v THEN "gone" ELSE home[l]]
  /\ UNCHANGED <<duties, val_, s_fun_id, readers, writer, pc, op, id, told, sets>>

-----------------------------------------------------------------------------
(* The steps of a call that is under way.                                  *)
Step(t) == Notify(t) \/ EndNotify(t) \/ Store(t) \/ StoreId(t) \/ Insert(t) \/ Return(t)

Call(t) ==
  \/ \E v \in Vars, x \in Values : SetValue(t, v, x)
  \/ \E v \in Vars, l \in Listeners : AddListener(t, v, l)
  \/ \E l \in Listeners : DelListener(t, l)
  \/ \E v \in Vars : ClearListener(t, v)

Next == \E t \in Threads : Step(t) \/ CallBack(t) \/ Call(t)

Spec == Init /\ [][Next]_vars

(* Every thread goes on with the call it has begun; a blocked one gets the *)
(* lock when it stays free.                                                *)
FairSpec == Spec /\ \A t \in Threads : WF_vars(Step(t))

-----------------------------------------------------------------------------
(* Between changes, every module that registered a listener and was not    *)
(* removed knows the value that GetValue returns: the configuration        *)
(* notifies the modules of its changes.                                    *)
ModulesNotified ==
  \A l \in Listeners :
    home[l] \in Vars /\ id[l] # 0 /\ (\A t \in Threads : ~Setting(t, home[l]))
      => told[l] = val_[home[l]]

(* That takes every promise but the last.                                  *)
Informed == AllDuties \ {"no reentry"} \subseteq duties => ModulesNotified

(* The change of v that is under way.                                      *)
Coming(v) ==
  LET new == {op[t].new : t \in {u \in Threads : Setting(u, v)}} IN
  IF new = {} THEN NULL ELSE CHOOSE x \in new : TRUE

Seen == INSTANCE NotifiedValue
  WITH value <- val_, next <- [v \in Vars |-> Coming(v)], at <- home, knows <- told

(* Under the same promises a change is announced to every module before it *)
(* takes effect, none joins during a change and none leaves while the      *)
(* modules are told, however the threads' steps interleave.                *)
ChangesAreNotified ==
  Seen!Init /\ [][AllDuties \ {"no reentry"} \subseteq duties => Seen!Next]_(Seen!vars)

(* The id that AddListener returned finds the listener it was returned     *)
(* for, so that DelListener removes that one and no other.                 *)
RegistrationsKept ==
  "one adder" \in duties =>
    \A l \in Listeners : home[l] \in Vars /\ id[l] # 0 => cbs_[home[l]][id[l]] = l

(* The old value that the listeners were given is the one the store is     *)
(* about to replace.                                                       *)
OldIsReplaced ==
  "one setter" \in duties =>
    \A t \in Threads : pc[t] \in {"notify", "store"} => val_[op[t].var] = op[t].old

(* While SetValue iterates over cbs_ no entry ahead of it disappears,      *)
(* whatever the program does; and a listener is not called once            *)
(* DelListener has returned.                                               *)
IterationIsStable ==
  \A t \in Threads : pc[t] = "notify" =>
    \A i \in op[t].todo :
      LET l == cbs_[op[t].var][i] IN
      l # NULL /\ ("one adder" \in duties => home[l] = op[t].var)

(* A call that has begun returns, if no listener calls back.               *)
CallsReturn ==
  \A t \in Threads : "no reentry" \in duties /\ pc[t] # "idle" ~> pc[t] = "idle"
=============================================================================
