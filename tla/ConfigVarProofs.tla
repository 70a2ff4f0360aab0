-------------------------- MODULE ConfigVarProofs --------------------------
(***************************************************************************)
(* Theorems about ConfigVar, for any number of threads, variables, values, *)
(* listeners and calls, and for every set of promises.                     *)
(***************************************************************************)
EXTENDS ConfigVar, FiniteSetTheorems, WellFoundedInduction, TLAPS

Notifying(t) == pc[t] \in {"notify", "reentered"}

(* Who is in which call has which lock, and the read-write lock excludes   *)
(* what changes cbs_ from what goes through it.                            *)
HoldsLock(t) ==
  /\ pc[t] \in {"notify", "reentered", "store"} =>
       op[t].var \in Vars /\ op[t].new \in Values /\ op[t].old \in Values
  /\ Notifying(t) => t \in readers[op[t].var] /\ op[t].todo \subseteq Registered(op[t].var)
  /\ Adding(t) => op[t].var \in Vars /\ op[t].cb \in Listeners /\ writer[op[t].var] = t
  /\ ~Adding(t) => op[t].cb = NULL

LockFacts ==
  /\ \A t \in Threads : HoldsLock(t)
  /\ \A v \in Vars : writer[v] # NULL => readers[v] = {}

(* The listeners whose AddListener has begun: there is an id for each.     *)
Begun == {l \in Listeners : home[l] # NULL \/ \E t \in Threads : op[t].cb = l}

BegunFacts ==
  /\ s_fun_id <= Cardinality(Begun)
  /\ \A t \in Threads : Adding(t) => op[t].tmp < Cardinality(Begun)
  /\ \A t \in Threads : pc[t] = "return" => home[op[t].cb] # NULL

Base == TypeOK /\ LockFacts /\ BegunFacts

-----------------------------------------------------------------------------
(* First is the least element, and there is one.                           *)
LEMMA FirstIsLeast ==
  ASSUME NEW S \in SUBSET Nat, S # {}
  PROVE  First(S) \in S /\ \A j \in S : First(S) <= j
<1> DEFINE Less == OpToRel(<, Nat)
<1>1. \E i \in S : \A j \in S : ~(<<j, i>> \in Less)
  BY NatLessThanWellFounded, WFMin
<1>2. \A i, j \in Nat : j < i => <<j, i>> \in Less
  BY DEF OpToRel
<1> HIDE DEF Less
<1>3. PICK i \in S : \A j \in S : ~(<<j, i>> \in Less)
  BY <1>1
<1>4. ASSUME NEW j \in S PROVE i <= j
  <2>1. ~(j < i)
    BY <1>2, <1>3
  <2> QED
    BY <2>1
<1> QED
  BY <1>3, <1>4 DEF First

(* There are at most as many begun registrations as listeners.             *)
LEMMA BegunBound ==
  /\ IsFiniteSet(Begun) /\ Cardinality(Begun) \in Nat
  /\ Cardinality(Listeners) \in Nat /\ Cardinality(Begun) <= Cardinality(Listeners)
<1>1. Begun \subseteq Listeners
  BY DEF Begun
<1> QED
  BY <1>1, ConfigVarAssumption, FS_Subset, FS_CardinalityType

(* What each step does to the locals of the calls under way.               *)
Fields(t, var, new, old, todo, cb, tmp) ==
  /\ op'[t].var = var /\ op'[t].new = new /\ op'[t].old = old
  /\ op'[t].todo = todo /\ op'[t].cb = cb /\ op'[t].tmp = tmp
  /\ op' \in [Threads -> Ops]
  /\ \A u \in Threads \ {t} : op'[u] = op[u]

(* An assignment to op[t], or to its todo alone, sets these fields.        *)
LEMMA OpFields ==
  ASSUME op \in [Threads -> Ops], NEW t \in Threads
  PROVE  /\ \A r \in Ops : op' = [op EXCEPT ![t] = r] =>
              Fields(t, r.var, r.new, r.old, r.todo, r.cb, r.tmp)
         /\ \A S \in SUBSET Ids : op' = [op EXCEPT ![t].todo = S] =>
              Fields(t, op[t].var, op[t].new, op[t].old, S, op[t].cb, op[t].tmp)
<1>1. op[t] \in Ops
  OBVIOUS
<1>2. ASSUME NEW r \in Ops, op' = [op EXCEPT ![t] = r]
      PROVE  Fields(t, r.var, r.new, r.old, r.todo, r.cb, r.tmp)
  BY <1>2 DEF Fields
<1>3. ASSUME NEW S \in SUBSET Ids, op' = [op EXCEPT ![t].todo = S]
      PROVE  Fields(t, op[t].var, op[t].new, op[t].old, S, op[t].cb, op[t].tmp)
  <2>1. [op[t] EXCEPT !.todo = S]
          = [var |-> op[t].var, new |-> op[t].new, old |-> op[t].old, todo |-> S,
             cb |-> op[t].cb, tmp |-> op[t].tmp]
    BY <1>1 DEF Ops
  <2> QED
    BY <1>1, <1>3, <2>1 DEF Fields, Ops
<1> QED
  BY <1>2, <1>3

(* Replacing one value of a function keeps its type.                       *)
LEMMA EntryUpdate ==
  ASSUME NEW S, NEW V, NEW f \in [S -> V], NEW i, NEW y \in V
  PROVE  [f EXCEPT ![i] = y] \in [S -> V]
OBVIOUS

(* What the steps that change op do to it, in the terms of Fields.         *)
LEMMA StepFields ==
  ASSUME Base, NEW t \in Threads
  PROVE  /\ \A v \in Vars, x \in Values : SetValue(t, v, x) =>
              Fields(t, v, x, val_[v], Registered(v), NULL, 0)
         /\ \A v \in Vars, l \in Listeners : AddListener(t, v, l) =>
              Fields(t, v, NULL, NULL, {}, l, s_fun_id)
         /\ Store(t) \/ Return(t) => Fields(t, NULL, NULL, NULL, {}, NULL, 0)
         /\ Notify(t) =>
              /\ op[t].todo \subseteq Ids /\ First(op[t].todo) \in op[t].todo
              /\ \/ /\ Fields(t, op[t].var, op[t].new, op[t].old,
                             op[t].todo \ {First(op[t].todo)}, op[t].cb, op[t].tmp)
                    /\ UNCHANGED <<readers, pc>>
                    /\ told' = [told EXCEPT ![cbs_[op[t].var][First(op[t].todo)]] = op[t].new]
                 \/ /\ Fields(t, NULL, NULL, NULL, {}, NULL, 0) /\ "no throw" \notin duties
                    /\ pc' = [pc EXCEPT ![t] = "idle"] /\ UNCHANGED told
                    /\ readers' = [readers EXCEPT ![op[t].var] = readers[op[t].var] \ {t}]
<1> USE DEF Base, TypeOK
<1>0. NoOp \in Ops /\ (op' = [op EXCEPT ![t] = NoOp] => Fields(t, NULL, NULL, NULL, {}, NULL, 0))
  BY DEF Ops, NoOp, Fields
<1>i. Ids \subseteq Nat
  BY BegunBound DEF Ids
<1>1. ASSUME NEW v \in Vars, NEW x \in Values, SetValue(t, v, x)
      PROVE  Fields(t, v, x, val_[v], Registered(v), NULL, 0)
  <2> DEFINE r == [var |-> v, new |-> x, old |-> val_[v], todo |-> Registered(v), cb |-> NULL, tmp |-> 0]
  <2>1. r \in Ops
    BY DEF Ops, Registered
  <2>2. op' = [op EXCEPT ![t] = r]
    BY <1>1 DEF SetValue, ToNotify
  <2> QED
    BY <2>1, <2>2 DEF Fields
<1>2. ASSUME NEW v \in Vars, NEW l \in Listeners, AddListener(t, v, l)
      PROVE  Fields(t, v, NULL, NULL, {}, l, s_fun_id)
  <2> DEFINE r == [var |-> v, new |-> NULL, old |-> NULL, todo |-> {}, cb |-> l, tmp |-> s_fun_id]
  <2>1. r \in Ops
    BY DEF Ops
  <2>2. op' = [op EXCEPT ![t] = r]
    BY <1>2 DEF AddListener
  <2> QED
    BY <2>1, <2>2 DEF Fields
<1>3. Store(t) \/ Return(t) => Fields(t, NULL, NULL, NULL, {}, NULL, 0)
  BY <1>0 DEF Store, Return, Done
<1>4. ASSUME Notify(t)
      PROVE  /\ op[t].todo \subseteq Ids /\ First(op[t].todo) \in op[t].todo
             /\ \/ /\ Fields(t, op[t].var, op[t].new, op[t].old,
                            op[t].todo \ {First(op[t].todo)}, op[t].cb, op[t].tmp)
                   /\ UNCHANGED <<readers, pc>>
                   /\ told' = [told EXCEPT ![cbs_[op[t].var][First(op[t].todo)]] = op[t].new]
                \/ /\ Fields(t, NULL, NULL, NULL, {}, NULL, 0) /\ "no throw" \notin duties
                   /\ pc' = [pc EXCEPT ![t] = "idle"] /\ UNCHANGED told
                   /\ readers' = [readers EXCEPT ![op[t].var] = readers[op[t].var] \ {t}]
  <2>1. op[t].todo \in SUBSET Ids /\ op[t].todo # {}
    BY <1>4 DEF Notify, Ops
  <2>2. op[t].todo \in SUBSET Nat
    BY <1>i, <2>1
  <2>3. First(op[t].todo) \in op[t].todo
    BY <2>1, <2>2, FirstIsLeast
  <2>4. op[t].todo \ {First(op[t].todo)} \in SUBSET Ids
    BY <2>1
  <2>5. op' = [op EXCEPT ![t].todo = op[t].todo \ {First(op[t].todo)}] =>
          Fields(t, op[t].var, op[t].new, op[t].old, op[t].todo \ {First(op[t].todo)},
                 op[t].cb, op[t].tmp)
    BY <2>4, OpFields
  <2>6. \/ /\ told' = [told EXCEPT ![cbs_[op[t].var][First(op[t].todo)]] = op[t].new]
           /\ UNCHANGED <<readers, pc>>
           /\ op' = [op EXCEPT ![t].todo = op[t].todo \ {First(op[t].todo)}]
        \/ /\ readers' = [readers EXCEPT ![op[t].var] = readers[op[t].var] \ {t}]
           /\ UNCHANGED told /\ "no throw" \notin duties
           /\ pc' = [pc EXCEPT ![t] = "idle"] /\ op' = [op EXCEPT ![t] = NoOp]
    BY <1>4 DEF Notify, Done, Unlocked, NewValue
  <2> QED
    BY <1>0, <2>1, <2>3, <2>5, <2>6
<1> QED
  BY <1>1, <1>2, <1>3, <1>4

(* Every step keeps the types.                                             *)
LEMMA TypeStep == Base /\ [Next]_vars => TypeOK'
<1> SUFFICES ASSUME Base, [Next]_vars PROVE TypeOK'
  OBVIOUS
<1> USE ConfigVarAssumption DEF Base, TypeOK, LockFacts, HoldsLock
<1>0. NoOp \in Ops
  BY DEF Ops, NoOp
<1>1. CASE UNCHANGED vars
  BY <1>1 DEF vars
<1>2. ASSUME NEW t \in Threads, NEW v \in Vars, NEW x \in Values, SetValue(t, v, x)
      PROVE  TypeOK'
  <2>1. ToNotify(v) \subseteq Ids
    BY DEF ToNotify, Registered
  <2>2. op' \in [Threads -> Ops]
    BY <1>2, <2>1 DEF SetValue, Ops
  <2> QED
    BY <1>2, <2>2 DEF SetValue, ValAtNotify
<1>3. ASSUME NEW t \in Threads, Notify(t) PROVE TypeOK'
  <2> DEFINE l == cbs_[op[t].var][First(op[t].todo)]
  <2>1. /\ op[t].var \in Vars /\ op[t].new \in Values /\ op[t].todo \subseteq Registered(op[t].var)
        /\ First(op[t].todo) \in op[t].todo
    BY <1>3, StepFields DEF Notify, Notifying
  <2>2. l \in Listeners
    BY <2>1 DEF Registered
  <2>3. op' \in [Threads -> Ops]
    BY <1>3, StepFields DEF Fields
  <2>4. \/ /\ UNCHANGED <<readers, pc>> /\ told' = [told EXCEPT ![l] = op[t].new]
        \/ /\ pc' = [pc EXCEPT ![t] = "idle"] /\ UNCHANGED told
           /\ readers' = [readers EXCEPT ![op[t].var] = readers[op[t].var] \ {t}]
    <3> HIDE DEF Base, TypeOK, LockFacts, HoldsLock
    <3> QED
      BY <1>3, StepFields
  <2> HIDE DEF l
  <2>5. readers' \in [Vars -> SUBSET Threads]
    BY <2>1, <2>4, SMTT(20)
  <2>6. told' \in [Listeners -> Values \cup {NULL}]
    BY <2>1, <2>2, <2>4
  <2>7. pc' \in [Threads -> {"idle", "notify", "reentered", "store", "stored_id", "insert", "return"}]
    BY <2>4
  <2> QED
    BY <1>3, <2>3, <2>5, <2>6, <2>7 DEF Notify
<1>4. ASSUME NEW t \in Threads, CallBack(t) PROVE TypeOK'
  BY <1>4 DEF CallBack
<1>5. ASSUME NEW t \in Threads, EndNotify(t) PROVE TypeOK'
  BY <1>5 DEF EndNotify, Unlocked
<1>6. ASSUME NEW t \in Threads, Store(t) PROVE TypeOK'
  BY <1>0, <1>6 DEF Store, Done
<1>7. ASSUME NEW t \in Threads, NEW v \in Vars, NEW l \in Listeners, AddListener(t, v, l)
      PROVE  TypeOK'
  BY <1>7 DEF AddListener, Ops
<1>8. ASSUME NEW t \in Threads, StoreId(t) PROVE TypeOK'
  <2>1. op[t] \in Ops /\ op[t].tmp < Cardinality(Begun)
    BY <1>8 DEF StoreId, Adding, BegunFacts
  <2>2. op[t].tmp + 1 \in Ids
    BY <2>1, BegunBound DEF Ops, Ids
  <2> QED
    BY <1>8, <2>2 DEF StoreId, Incremented
<1>9. ASSUME NEW t \in Threads, Insert(t) PROVE TypeOK'
  <2>1. op[t].var \in Vars /\ op[t].cb \in Listeners
    BY <1>9 DEF Insert, Adding
  <2>2. cbs_' \in [Vars -> [Ids -> Listeners \cup {NULL}]]
    <3>1. PICK i \in FunId(t) : cbs_' = [cbs_ EXCEPT ![op[t].var][i] = op[t].cb]
      BY <1>9 DEF Insert
    <3>2. [cbs_[op[t].var] EXCEPT ![i] = op[t].cb] \in [Ids -> Listeners \cup {NULL}]
      BY <2>1, EntryUpdate
    <3> QED
      BY <2>1, <3>1, <3>2
  <2> QED
    BY <1>9, <2>1, <2>2 DEF Insert
<1>10. ASSUME NEW t \in Threads, Return(t) PROVE TypeOK'
  <2>1. op[t] \in Ops /\ op[t].var \in Vars /\ op[t].tmp < Cardinality(Begun)
    BY <1>10 DEF Return, Adding, BegunFacts
  <2>2. FunId(t) \subseteq {0} \cup Ids
    BY <2>1, BegunBound DEF FunId, Ops, Ids
  <2>3. id' \in [Listeners -> {0} \cup Ids]
    <3>1. PICK i \in FunId(t) : id' = [id EXCEPT ![op[t].cb] = i]
      BY <1>10 DEF Return, ReturnedId
    <3> QED
      BY <2>2, <3>1
  <2> QED
    BY <1>0, <1>10, <2>3 DEF Return, Done
<1>11. ASSUME NEW t \in Threads, NEW l \in Listeners, DelListener(t, l) PROVE TypeOK'
  <2>1. cbs_' \in [Vars -> [Ids -> Listeners \cup {NULL}]]
    BY <1>11 DEF DelListener
  <2> QED
    BY <1>11, <2>1 DEF DelListener
<1>12. ASSUME NEW t \in Threads, NEW v \in Vars, ClearListener(t, v) PROVE TypeOK'
  BY <1>12 DEF ClearListener
<1> HIDE ConfigVarAssumption DEF Base, TypeOK, LockFacts, HoldsLock
<1> QED
  BY <1>1, <1>2, <1>3, <1>4, <1>5, <1>6, <1>7, <1>8, <1>9, <1>10, <1>11, <1>12
     DEF Next, Step, Call

(* A step of one thread does not take the locks of the others, nor what    *)
(* they iterate over.                                                      *)
LEMMA OthersHold ==
  ASSUME Base, NEW t \in Threads,
         \A u \in Threads \ {t} : op'[u] = op[u] /\ pc'[u] = pc[u],
         \A w \in Vars : readers[w] \ {t} \subseteq readers'[w],
         \A w \in Vars : writer[w] \notin {t, NULL} => writer'[w] = writer[w],
         \A w \in Vars : readers[w] # {} => \A i \in Ids : cbs_[w][i] # NULL => cbs_'[w][i] # NULL
  PROVE  \A u \in Threads \ {t} : HoldsLock(u)'
<1> SUFFICES ASSUME NEW u \in Threads \ {t} PROVE HoldsLock(u)'
  OBVIOUS
<1>1. HoldsLock(u) /\ u \in Threads /\ u # t
  BY DEF Base, LockFacts
<1>2. op'[u] = op[u] /\ pc'[u] = pc[u]
  OBVIOUS
<1>3. Notifying(u) => u \in readers'[op[u].var] /\ op[u].todo \subseteq Registered(op[u].var)'
  BY <1>1 DEF HoldsLock, Notifying, Registered
<1>4. Adding(u) => writer'[op[u].var] = u
  BY <1>1, ConfigVarAssumption DEF HoldsLock
<1> QED
  BY <1>1, <1>2, <1>3, <1>4 DEF HoldsLock, Notifying, Adding

(* Every step keeps the locks with the calls that hold them, and the       *)
(* writers apart from the readers.                                         *)
LEMMA LockStep == Base /\ TypeOK' /\ [Next]_vars => LockFacts'
<1> SUFFICES ASSUME Base, TypeOK', [Next]_vars PROVE LockFacts'
  OBVIOUS
<1> DEFINE Excluded == \A v \in Vars : writer[v] # NULL => readers[v] = {}
<1>a. Excluded /\ \A t \in Threads : HoldsLock(t)
  BY DEF Base, LockFacts
<1>b. SUFFICES (\A t \in Threads : HoldsLock(t)') /\ Excluded'
  BY DEF LockFacts
<1>n. NULL \notin Threads \cup Vars \cup Values \cup Listeners
  BY ConfigVarAssumption
<1> USE DEF TypeOK
<1>1. CASE UNCHANGED vars
  BY <1>1, <1>a DEF vars, HoldsLock, Notifying, Adding, Registered
<1>2. ASSUME NEW t \in Threads, NEW v \in Vars, NEW x \in Values, SetValue(t, v, x)
      PROVE  (\A u \in Threads : HoldsLock(u)') /\ Excluded'
  <2>1. /\ readers' = [readers EXCEPT ![v] = readers[v] \cup {t}] /\ writer[v] = NULL
        /\ pc' = [pc EXCEPT ![t] = "notify"] /\ UNCHANGED <<cbs_, writer>>
        /\ val_[v] \in Values
    BY <1>2 DEF SetValue, CanRead, Base
  <2>2. Fields(t, v, x, val_[v], Registered(v), NULL, 0)
    BY <1>2, StepFields
  <2>3. \A w \in Vars : readers'[w] = IF w = v THEN readers[v] \cup {t} ELSE readers[w]
    BY <2>1 DEF Base
  <2>4. pc'[t] = "notify" /\ \A u \in Threads \ {t} : pc'[u] = pc[u] /\ op'[u] = op[u]
    BY <2>1, <2>2 DEF Base, Fields
  <2>5. HoldsLock(t)'
    BY <2>1, <2>2, <2>3, <2>4 DEF HoldsLock, Fields, Notifying, Adding, Registered
  <2>6. \A u \in Threads \ {t} : HoldsLock(u)'
    BY <2>1, <2>3, <2>4, OthersHold
  <2>7. Excluded'
    BY <1>a, <2>1, <2>3
  <2> QED
    BY <2>5, <2>6, <2>7
<1>3. ASSUME NEW t \in Threads, Notify(t)
      PROVE  (\A u \in Threads : HoldsLock(u)') /\ Excluded'
  <2>1. pc[t] = "notify" /\ op[t].var \in Vars /\ HoldsLock(t) /\ UNCHANGED <<cbs_, writer>>
    BY <1>3, <1>a DEF Notify, HoldsLock
  <2>2. CASE /\ Fields(t, op[t].var, op[t].new, op[t].old,
                      op[t].todo \ {First(op[t].todo)}, op[t].cb, op[t].tmp)
             /\ UNCHANGED <<readers, pc>>
    <3>1. HoldsLock(t)'
      BY <2>1, <2>2 DEF HoldsLock, Fields, Notifying, Adding, Registered
    <3>2. \A u \in Threads \ {t} : HoldsLock(u)'
      BY <2>1, <2>2, OthersHold DEF Fields
    <3> QED
      BY <1>a, <2>1, <2>2, <3>1, <3>2
  <2>3. CASE /\ Fields(t, NULL, NULL, NULL, {}, NULL, 0)
             /\ pc' = [pc EXCEPT ![t] = "idle"]
             /\ readers' = [readers EXCEPT ![op[t].var] = readers[op[t].var] \ {t}]
    <3>1. pc'[t] = "idle" /\ \A u \in Threads \ {t} : pc'[u] = pc[u] /\ op'[u] = op[u]
      BY <2>3 DEF Base, Fields
    <3>2. \A w \in Vars : readers[w] \ {t} \subseteq readers'[w] /\ readers'[w] \subseteq readers[w]
      BY <2>3 DEF Base
    <3>3. HoldsLock(t)'
      BY <2>3, <3>1 DEF HoldsLock, Fields, Notifying, Adding
    <3>4. \A u \in Threads \ {t} : HoldsLock(u)'
      BY <2>1, <3>1, <3>2, OthersHold
    <3>5. Excluded'
      BY <1>a, <2>1, <3>2
    <3> QED
      BY <3>3, <3>4, <3>5
  <2>4. Notify(t) =>
          \/ /\ Fields(t, op[t].var, op[t].new, op[t].old,
                      op[t].todo \ {First(op[t].todo)}, op[t].cb, op[t].tmp)
             /\ UNCHANGED <<readers, pc>>
          \/ /\ Fields(t, NULL, NULL, NULL, {}, NULL, 0)
             /\ pc' = [pc EXCEPT ![t] = "idle"]
             /\ readers' = [readers EXCEPT ![op[t].var] = readers[op[t].var] \ {t}]
    BY StepFields
  <2> QED
    BY <1>3, <2>2, <2>3, <2>4
<1>4. ASSUME NEW t \in Threads, CallBack(t)
      PROVE  (\A u \in Threads : HoldsLock(u)') /\ Excluded'
  <2>1. /\ UNCHANGED <<readers, writer, cbs_, op>>
        /\ pc[t] = "notify" /\ pc' = [pc EXCEPT ![t] = "reentered"]
    BY <1>4 DEF CallBack
  <2>2. pc'[t] = "reentered" /\ \A u \in Threads \ {t} : pc'[u] = pc[u]
    BY <2>1 DEF Base
  <2>3. HoldsLock(t)'
    BY <1>a, <2>1, <2>2 DEF HoldsLock, Notifying, Adding, Registered
  <2>4. \A u \in Threads \ {t} : HoldsLock(u)'
    BY <2>1, <2>2, OthersHold
  <2> QED
    BY <1>a, <2>1, <2>3, <2>4
<1>5. ASSUME NEW t \in Threads, EndNotify(t)
      PROVE  (\A u \in Threads : HoldsLock(u)') /\ Excluded'
  <2>1. /\ readers' = [readers EXCEPT ![op[t].var] = readers[op[t].var] \ {t}]
        /\ pc[t] = "notify" /\ pc' = [pc EXCEPT ![t] = "store"] /\ UNCHANGED <<cbs_, writer, op>>
    BY <1>5 DEF EndNotify, Unlocked
  <2>2. \A w \in Vars : readers[w] \ {t} \subseteq readers'[w] /\ readers'[w] \subseteq readers[w]
    BY <2>1 DEF Base
  <2>3. pc'[t] = "store" /\ \A u \in Threads \ {t} : pc'[u] = pc[u]
    BY <2>1 DEF Base
  <2>4. HoldsLock(t)'
    BY <1>a, <2>1, <2>3 DEF HoldsLock, Notifying, Adding
  <2>5. \A u \in Threads \ {t} : HoldsLock(u)'
    BY <2>1, <2>2, <2>3, OthersHold
  <2>6. Excluded'
    BY <1>a, <2>1, <2>2
  <2> QED
    BY <2>4, <2>5, <2>6
<1>6. ASSUME NEW t \in Threads, Store(t)
      PROVE  (\A u \in Threads : HoldsLock(u)') /\ Excluded'
  <2>1. pc' = [pc EXCEPT ![t] = "idle"] /\ UNCHANGED <<cbs_, readers, writer>>
    BY <1>6 DEF Store, Done
  <2>2. Fields(t, NULL, NULL, NULL, {}, NULL, 0)
    BY <1>6, StepFields
  <2>3. pc'[t] = "idle" /\ \A u \in Threads \ {t} : pc'[u] = pc[u] /\ op'[u] = op[u]
    BY <2>1, <2>2 DEF Base, Fields
  <2>4. HoldsLock(t)'
    BY <2>2, <2>3 DEF HoldsLock, Fields, Notifying, Adding
  <2>5. \A u \in Threads \ {t} : HoldsLock(u)'
    BY <2>1, <2>3, OthersHold
  <2> QED
    BY <1>a, <2>1, <2>4, <2>5
<1>7. ASSUME NEW t \in Threads, NEW v \in Vars, NEW l \in Listeners, AddListener(t, v, l)
      PROVE  (\A u \in Threads : HoldsLock(u)') /\ Excluded'
  <2>1. /\ writer' = [writer EXCEPT ![v] = t] /\ writer[v] = NULL /\ readers[v] = {}
        /\ pc' = [pc EXCEPT ![t] = "stored_id"] /\ UNCHANGED <<cbs_, readers>>
    BY <1>7 DEF AddListener, CanWrite
  <2>2. Fields(t, v, NULL, NULL, {}, l, s_fun_id)
    BY <1>7, StepFields
  <2>3. pc'[t] = "stored_id" /\ \A u \in Threads \ {t} : pc'[u] = pc[u] /\ op'[u] = op[u]
    BY <2>1, <2>2 DEF Base, Fields
  <2>4. \A w \in Vars : writer'[w] = IF w = v THEN t ELSE writer[w]
    BY <2>1 DEF Base
  <2>5. HoldsLock(t)'
    BY <2>2, <2>3, <2>4 DEF HoldsLock, Fields, Notifying, Adding
  <2>6. \A u \in Threads \ {t} : HoldsLock(u)'
    BY <2>1, <2>3, <2>4, OthersHold
  <2>7. Excluded'
    BY <1>a, <2>1, <2>4
  <2> QED
    BY <2>5, <2>6, <2>7
<1>8. ASSUME NEW t \in Threads, StoreId(t)
      PROVE  (\A u \in Threads : HoldsLock(u)') /\ Excluded'
  BY <1>8, <1>a DEF StoreId, HoldsLock, Notifying, Adding, Registered, Base
<1>9. ASSUME NEW t \in Threads, Insert(t)
      PROVE  (\A u \in Threads : HoldsLock(u)') /\ Excluded'
  <2>1. /\ pc[t] = "insert" /\ pc' = [pc EXCEPT ![t] = "return"]
        /\ UNCHANGED <<readers, writer, op>>
    BY <1>9 DEF Insert
  <2>2. pc'[t] = "return" /\ \A u \in Threads \ {t} : pc'[u] = pc[u]
    BY <2>1 DEF Base
  <2>3. op[t].var \in Vars /\ writer[op[t].var] = t /\ readers[op[t].var] = {}
    <3>1. op[t].var \in Vars /\ writer[op[t].var] = t
      BY <1>a, <2>1 DEF HoldsLock, Adding
    <3> QED
      BY <1>a, <1>n, <3>1
  <2>4. \A w \in Vars : readers[w] # {} => cbs_'[w] = cbs_[w]
    <3>1. PICK i \in FunId(t) : cbs_' = [cbs_ EXCEPT ![op[t].var][i] = op[t].cb]
      BY <1>9 DEF Insert
    <3> QED
      BY <2>3, <3>1 DEF Base
  <2>5. HoldsLock(t)'
    BY <1>a, <2>1, <2>2 DEF HoldsLock, Notifying, Adding
  <2>6. \A u \in Threads \ {t} : HoldsLock(u)'
    BY <2>1, <2>2, <2>4, OthersHold
  <2> QED
    BY <1>a, <2>1, <2>5, <2>6
<1>10. ASSUME NEW t \in Threads, Return(t)
       PROVE  (\A u \in Threads : HoldsLock(u)') /\ Excluded'
  <2>1. /\ pc[t] = "return" /\ pc' = [pc EXCEPT ![t] = "idle"] /\ UNCHANGED <<cbs_, readers>>
        /\ writer' = [writer EXCEPT ![op[t].var] = NULL]
    BY <1>10 DEF Return, Done
  <2>2. Fields(t, NULL, NULL, NULL, {}, NULL, 0)
    BY <1>10, StepFields
  <2>3. pc'[t] = "idle" /\ \A u \in Threads \ {t} : pc'[u] = pc[u] /\ op'[u] = op[u]
    BY <2>1, <2>2 DEF Base, Fields
  <2>4. op[t].var \in Vars /\ writer[op[t].var] = t
    BY <1>a, <2>1 DEF HoldsLock, Adding
  <2>5. \A w \in Vars : writer'[w] = IF w = op[t].var THEN NULL ELSE writer[w]
    BY <2>1, <2>4 DEF Base
  <2>6. HoldsLock(t)'
    BY <2>2, <2>3 DEF HoldsLock, Fields, Notifying, Adding
  <2>7. \A u \in Threads \ {t} : HoldsLock(u)'
    BY <2>1, <2>3, <2>4, <2>5, OthersHold
  <2>8. Excluded'
    BY <1>a, <2>1, <2>5
  <2> QED
    BY <2>6, <2>7, <2>8
<1>11. ASSUME NEW t \in Threads, NEW l \in Listeners, DelListener(t, l)
       PROVE  (\A u \in Threads : HoldsLock(u)') /\ Excluded'
  <2>1. /\ UNCHANGED <<readers, writer, op, pc>> /\ readers[home[l]] = {}
        /\ cbs_' = [cbs_ EXCEPT ![home[l]][id[l]] = NULL]
    BY <1>11 DEF DelListener, CanWrite
  <2>2. \A w \in Vars : readers[w] # {} => cbs_'[w] = cbs_[w]
    BY <2>1 DEF Base
  <2>3. \A u \in Threads \ {t} : HoldsLock(u)'
    BY <2>1, <2>2, OthersHold
  <2>4. HoldsLock(t)'
    BY <1>a, <1>11, <2>1 DEF HoldsLock, Notifying, Adding, DelListener
  <2> QED
    BY <1>a, <2>1, <2>3, <2>4
<1>12. ASSUME NEW t \in Threads, NEW v \in Vars, ClearListener(t, v)
       PROVE  (\A u \in Threads : HoldsLock(u)') /\ Excluded'
  <2>1. /\ UNCHANGED <<readers, writer, op, pc>> /\ readers[v] = {}
        /\ cbs_' = [cbs_ EXCEPT ![v] = [i \in Ids |-> NULL]]
    BY <1>12 DEF ClearListener, CanWrite
  <2>2. \A w \in Vars : readers[w] # {} => cbs_'[w] = cbs_[w]
    BY <2>1 DEF Base
  <2>3. \A u \in Threads \ {t} : HoldsLock(u)'
    BY <2>1, <2>2, OthersHold
  <2>4. HoldsLock(t)'
    BY <1>a, <1>12, <2>1 DEF HoldsLock, Notifying, Adding, ClearListener
  <2> QED
    BY <1>a, <2>1, <2>3, <2>4
<1> HIDE DEF TypeOK, Excluded
<1> QED
  BY <1>1, <1>2, <1>3, <1>4, <1>5, <1>6, <1>7, <1>8, <1>9, <1>10, <1>11, <1>12
     DEF Next, Step, Call

(* A step that forgets no begun registration and begins none keeps the     *)
(* bound on the ids.                                                       *)
LEMMA KeepsBegun ==
  ASSUME Base, Begun \subseteq Begun', s_fun_id' = s_fun_id,
         op' \in [Threads -> Ops], op \in [Threads -> Ops], s_fun_id \in Nat,
         \A u \in Threads : Adding(u)' => Adding(u) /\ op'[u].tmp = op[u].tmp,
         \A u \in Threads : pc'[u] = "return" => home'[op'[u].cb] # NULL
  PROVE  BegunFacts'
<1>1. Begun' \subseteq Listeners
  BY DEF Begun
<1>2. /\ Cardinality(Begun) \in Nat /\ Cardinality(Begun') \in Nat
      /\ Cardinality(Begun) <= Cardinality(Begun')
  BY <1>1, ConfigVarAssumption, FS_Subset, FS_CardinalityType
<1>3. BegunFacts /\ \A u \in Threads : op[u].tmp \in Nat
  BY BegunBound DEF Base, Ops, Ids
<1>4. s_fun_id' <= Cardinality(Begun')
  BY <1>2, <1>3 DEF BegunFacts
<1>5. \A u \in Threads : Adding(u)' => op'[u].tmp < Cardinality(Begun')
  BY <1>2, <1>3 DEF BegunFacts
<1> QED
  BY <1>4, <1>5 DEF BegunFacts

(* Every step keeps the bound on the ids.                                  *)
LEMMA BegunStep == Base /\ TypeOK' /\ [Next]_vars => BegunFacts'
<1> SUFFICES ASSUME Base, TypeOK', [Next]_vars PROVE BegunFacts'
  OBVIOUS
<1>a. /\ \A u \in Threads : HoldsLock(u)
      /\ \A u \in Threads : pc[u] = "return" => home[op[u].cb] # NULL
  BY DEF Base, LockFacts, BegunFacts
<1>n. NULL \notin Threads \cup Vars \cup Values \cup Listeners /\ NULL # "gone"
  BY ConfigVarAssumption
<1>t. /\ op \in [Threads -> Ops] /\ op' \in [Threads -> Ops] /\ s_fun_id \in Nat
      /\ pc \in [Threads -> {"idle", "notify", "reentered", "store", "stored_id", "insert", "return"}]
      /\ home \in [Listeners -> Vars \cup {NULL, "gone"}]
      /\ \A u \in Threads : op[u].tmp \in Nat
  <2>1. {0} \cup Ids \subseteq Nat
    BY BegunBound DEF Ids
  <2>2. op \in [Threads -> Ops] /\ op' \in [Threads -> Ops] /\ s_fun_id \in Nat
    BY <2>1 DEF Base, TypeOK
  <2>3. \A r \in Ops : r.tmp \in Nat
    <3>1. \A r \in Ops : r.tmp \in {0} \cup Ids
      BY DEF Ops
    <3> HIDE DEF Ops, Ids
    <3>2. \A r \in Ops : \A S \in SUBSET Nat : r.tmp \in S => r.tmp \in Nat
      OBVIOUS
    <3> QED
      BY <2>1, <3>1, <3>2
  <2>4. \A u \in Threads : op[u].tmp \in Nat
    BY <2>2, <2>3
  <2> QED
    BY <2>2, <2>4 DEF Base, TypeOK
<1>1. CASE UNCHANGED vars
  BY <1>1, <1>a DEF vars, Base, BegunFacts, Begun, Adding
<1>2. ASSUME NEW t \in Threads, NEW v \in Vars, NEW x \in Values, SetValue(t, v, x)
      PROVE  BegunFacts'
  <2>1. pc[t] = "idle" /\ pc' = [pc EXCEPT ![t] = "notify"] /\ UNCHANGED <<s_fun_id, home>>
    BY <1>2 DEF SetValue
  <2>2. op[t].cb = NULL /\ op'[t].cb = NULL /\ \A u \in Threads \ {t} : op'[u] = op[u]
    BY <1>2, <1>a, <2>1, StepFields DEF Fields, HoldsLock, Adding
  <2>3. Begun \subseteq Begun'
    BY <1>n, <2>1, <2>2 DEF Begun
  <2>4. \A u \in Threads : Adding(u)' => Adding(u) /\ op'[u].tmp = op[u].tmp
    BY <1>t, <2>1, <2>2 DEF Adding
  <2>5. \A u \in Threads : pc'[u] = "return" => home'[op'[u].cb] # NULL
    BY <1>a, <1>t, <2>1, <2>2
  <2> QED
    BY <1>t, <2>1, <2>3, <2>4, <2>5, KeepsBegun
<1>3. ASSUME NEW t \in Threads, Notify(t) PROVE BegunFacts'
  <2>1. pc[t] = "notify" /\ UNCHANGED <<s_fun_id, home>>
    BY <1>3 DEF Notify
  <2>2. /\ op[t].cb = NULL /\ op'[t].cb = NULL /\ \A u \in Threads \ {t} : op'[u] = op[u]
        /\ pc' = pc \/ pc' = [pc EXCEPT ![t] = "idle"]
    BY <1>3, <1>a, <2>1, StepFields DEF Fields, HoldsLock, Adding
  <2>3. Begun \subseteq Begun'
    BY <1>n, <2>1, <2>2 DEF Begun
  <2>4. \A u \in Threads : Adding(u)' => Adding(u) /\ op'[u].tmp = op[u].tmp
    BY <1>t, <2>1, <2>2 DEF Adding
  <2>5. \A u \in Threads : pc'[u] = "return" => home'[op'[u].cb] # NULL
    BY <1>a, <1>t, <2>1, <2>2
  <2> QED
    BY <1>t, <2>1, <2>3, <2>4, <2>5, KeepsBegun
<1>4. ASSUME NEW t \in Threads, CallBack(t) \/ EndNotify(t) PROVE BegunFacts'
  <2>1. /\ UNCHANGED <<s_fun_id, home, op>>
        /\ pc' = [pc EXCEPT ![t] = "reentered"] \/ pc' = [pc EXCEPT ![t] = "store"]
    BY <1>4 DEF CallBack, EndNotify
  <2>2. Begun \subseteq Begun'
    BY <2>1 DEF Begun
  <2>3. \A u \in Threads : Adding(u)' => Adding(u)
    BY <1>t, <2>1 DEF Adding
  <2>4. \A u \in Threads : pc'[u] = "return" => home'[op'[u].cb] # NULL
    BY <1>a, <1>t, <2>1
  <2> QED
    BY <1>t, <2>1, <2>2, <2>3, <2>4, KeepsBegun
<1>6. ASSUME NEW t \in Threads, Store(t) PROVE BegunFacts'
  <2>1. /\ pc[t] = "store" /\ pc' = [pc EXCEPT ![t] = "idle"]
        /\ UNCHANGED <<s_fun_id, home>>
    BY <1>6 DEF Store, Done
  <2>2. op[t].cb = NULL /\ op'[t].cb = NULL /\ \A u \in Threads \ {t} : op'[u] = op[u]
    BY <1>6, <1>a, <2>1, StepFields DEF Fields, HoldsLock, Adding
  <2>3. Begun \subseteq Begun'
    BY <1>n, <2>1, <2>2 DEF Begun
  <2>4. \A u \in Threads : Adding(u)' => Adding(u) /\ op'[u].tmp = op[u].tmp
    BY <1>t, <2>1, <2>2 DEF Adding
  <2>5. \A u \in Threads : pc'[u] = "return" => home'[op'[u].cb] # NULL
    BY <1>a, <1>t, <2>1, <2>2
  <2> QED
    BY <1>t, <2>1, <2>3, <2>4, <2>5, KeepsBegun
<1>7. ASSUME NEW t \in Threads, NEW v \in Vars, NEW l \in Listeners, AddListener(t, v, l)
      PROVE  BegunFacts'
  <2>1. /\ pc[t] = "idle" /\ pc' = [pc EXCEPT ![t] = "stored_id"] /\ UNCHANGED <<s_fun_id, home>>
        /\ home[l] = NULL /\ \A u \in Threads : op[u].cb # l
    BY <1>7 DEF AddListener
  <2>2. /\ op[t].cb = NULL /\ op'[t].cb = l /\ op'[t].tmp = s_fun_id
        /\ \A u \in Threads \ {t} : op'[u] = op[u]
    <3>1. op[t].cb = NULL
      BY <1>a, <2>1 DEF HoldsLock, Adding
    <3>2. Fields(t, v, NULL, NULL, {}, l, s_fun_id)
      BY <1>7, StepFields
    <3> QED
      BY <3>1, <3>2 DEF Fields
  <2>3. Begun' = Begun \cup {l} /\ l \notin Begun
    BY <1>n, <2>1, <2>2 DEF Begun
  <2>4. Cardinality(Begun') = Cardinality(Begun) + 1 /\ Cardinality(Begun) \in Nat
    BY <2>3, BegunBound, FS_AddElement
  <2>5. BegunFacts /\ pc'[t] = "stored_id" /\ \A u \in Threads \ {t} : pc'[u] = pc[u]
    BY <1>t, <2>1 DEF Base
  <2>6. s_fun_id' <= Cardinality(Begun') /\ s_fun_id' < Cardinality(Begun')
    BY <1>t, <2>1, <2>4, <2>5 DEF BegunFacts
  <2>7. \A u \in Threads : Adding(u)' => op'[u].tmp < Cardinality(Begun')
    <3>1. SUFFICES ASSUME NEW u \in Threads, Adding(u)' PROVE op'[u].tmp < Cardinality(Begun')
      OBVIOUS
    <3>2. CASE u = t
      BY <2>1, <2>2, <2>6, <3>2
    <3>3. CASE u # t
      BY <1>t, <2>2, <2>4, <2>5, <3>1, <3>3 DEF BegunFacts, Adding
    <3> QED
      BY <3>2, <3>3
  <2>8. \A u \in Threads : pc'[u] = "return" => home'[op'[u].cb] # NULL
    BY <1>a, <2>1, <2>2, <2>5
  <2> QED
    BY <2>6, <2>7, <2>8 DEF BegunFacts
<1>8. ASSUME NEW t \in Threads, StoreId(t) PROVE BegunFacts'
  <2>1. /\ pc[t] = "stored_id" /\ pc' = [pc EXCEPT ![t] = "insert"] /\ UNCHANGED <<home, op>>
        /\ s_fun_id' = op[t].tmp + 1
    BY <1>8 DEF StoreId, Incremented
  <2>2. Begun' = Begun /\ Cardinality(Begun) \in Nat
    BY <2>1, BegunBound DEF Begun
  <2>3. Adding(t) /\ \A u \in Threads : Adding(u)' => Adding(u)
    BY <1>t, <2>1 DEF Adding
  <2>4. op[t].tmp < Cardinality(Begun)
    BY <2>3 DEF Base, BegunFacts
  <2>5. s_fun_id' <= Cardinality(Begun')
    BY <1>t, <2>1, <2>2, <2>4
  <2>6. \A u \in Threads : pc'[u] = "return" => home'[op'[u].cb] # NULL
    BY <1>a, <1>t, <2>1
  <2> QED
    BY <2>1, <2>2, <2>3, <2>5, <2>6 DEF BegunFacts, Base
<1>9. ASSUME NEW t \in Threads, Insert(t) PROVE BegunFacts'
  <2>1. /\ pc[t] = "insert" /\ pc' = [pc EXCEPT ![t] = "return"] /\ UNCHANGED <<s_fun_id, op>>
        /\ home' = [home EXCEPT ![op[t].cb] = op[t].var]
    BY <1>9 DEF Insert
  <2>2. op[t].var \in Vars /\ op[t].cb \in Listeners
    BY <1>a, <2>1 DEF HoldsLock, Adding
  <2>3. \A l \in Listeners : home[l] # NULL => home'[l] # NULL
    BY <1>n, <1>t, <2>1, <2>2
  <2>4. Begun \subseteq Begun'
    BY <2>1, <2>3 DEF Begun
  <2>5. \A u \in Threads : Adding(u)' => Adding(u)
    BY <1>t, <2>1 DEF Adding
  <2>6. \A u \in Threads : pc'[u] = "return" => home'[op'[u].cb] # NULL
    <3>1. SUFFICES ASSUME NEW u \in Threads, pc'[u] = "return" PROVE home'[op[u].cb] # NULL
      BY <2>1
    <3>2. CASE u = t
      BY <1>n, <1>t, <2>1, <2>2, <3>2
    <3>3. CASE u # t
      <4>1. pc[u] = "return" /\ op[u].cb \in Listeners
        BY <1>a, <1>t, <2>1, <3>1, <3>3 DEF HoldsLock, Adding
      <4> QED
        BY <1>a, <2>3, <4>1
    <3> QED
      BY <3>2, <3>3
  <2> QED
    BY <1>t, <2>1, <2>4, <2>5, <2>6, KeepsBegun
<1>10. ASSUME NEW t \in Threads, Return(t) PROVE BegunFacts'
  <2>1. /\ pc[t] = "return" /\ pc' = [pc EXCEPT ![t] = "idle"] /\ UNCHANGED <<s_fun_id, home>>
    BY <1>10 DEF Return, Done
  <2>2. op'[t].cb = NULL /\ \A u \in Threads \ {t} : op'[u] = op[u]
    BY <1>10, StepFields DEF Fields
  <2>3. home[op[t].cb] # NULL
    BY <1>a, <2>1
  <2>4. Begun \subseteq Begun'
    BY <2>1, <2>2, <2>3 DEF Begun
  <2>5. \A u \in Threads : Adding(u)' => Adding(u) /\ op'[u].tmp = op[u].tmp
    BY <1>t, <2>1, <2>2 DEF Adding
  <2>6. \A u \in Threads : pc'[u] = "return" => home'[op'[u].cb] # NULL
    BY <1>a, <1>t, <2>1, <2>2
  <2> QED
    BY <1>t, <2>1, <2>4, <2>5, <2>6, KeepsBegun
<1>11. ASSUME NEW t \in Threads, NEW l \in Listeners, DelListener(t, l) PROVE BegunFacts'
  <2>1. UNCHANGED <<s_fun_id, op, pc>> /\ home' = [home EXCEPT ![l] = "gone"]
    BY <1>11 DEF DelListener
  <2>2. \A k \in Listeners : home[k] # NULL => home'[k] # NULL
    <3>1. home[l] # NULL /\ "gone" # NULL
      BY <1>11, <1>n DEF DelListener
    <3> QED
      BY <1>t, <2>1, <3>1
  <2>3. Begun \subseteq Begun'
    BY <2>1, <2>2 DEF Begun
  <2>4. \A u \in Threads : pc'[u] = "return" => home'[op'[u].cb] # NULL
    BY <1>a, <2>1, <2>2 DEF HoldsLock, Adding
  <2> QED
    BY <1>t, <2>1, <2>3, <2>4, KeepsBegun DEF Adding
<1>12. ASSUME NEW t \in Threads, NEW v \in Vars, ClearListener(t, v) PROVE BegunFacts'
  <2>1. /\ UNCHANGED <<s_fun_id, op, pc>>
        /\ home' = [l \in Listeners |-> IF home[l] = v THEN "gone" ELSE home[l]]
    BY <1>12 DEF ClearListener
  <2>2. \A k \in Listeners : home[k] # NULL => home'[k] # NULL
    <3>1. SUFFICES ASSUME NEW k \in Listeners, home[k] # NULL PROVE home'[k] # NULL
      OBVIOUS
    <3>2. home'[k] = "gone" \/ home'[k] = home[k]
      BY <2>1
    <3> QED
      BY <1>n, <3>1, <3>2
  <2>3. Begun \subseteq Begun'
    BY <2>1, <2>2 DEF Begun
  <2>4. \A u \in Threads : pc'[u] = "return" => home'[op'[u].cb] # NULL
    BY <1>a, <2>1, <2>2 DEF HoldsLock, Adding
  <2> QED
    BY <1>t, <2>1, <2>3, <2>4, KeepsBegun DEF Adding
<1> QED
  BY <1>1, <1>2, <1>3, <1>4, <1>6, <1>7, <1>8, <1>9, <1>10, <1>11, <1>12
     DEF Next, Step, Call

-----------------------------------------------------------------------------
(* In every reachable state of ConfigVar the variables have their types,   *)
(* each call under way holds the lock it took, a writer excludes the       *)
(* readers, and s_fun_id has not run ahead of the calls of AddListener.    *)
THEOREM BaseInvariant == Spec => []Base
<1>1. Init => Base
  <2>1. SUFFICES ASSUME Init PROVE Base
    OBVIOUS
  <2>2. NoOp \in Ops
    BY DEF NoOp, Ops
  <2>3. TypeOK
    BY <2>1, <2>2, ConfigVarAssumption DEF Init, TypeOK
  <2>4. \A t \in Threads : pc[t] = "idle" /\ op[t].cb = NULL
    BY <2>1 DEF Init, NoOp
  <2>5. LockFacts
    BY <2>1, <2>4 DEF Init, LockFacts, HoldsLock, Notifying, Adding
  <2>6. BegunFacts
    BY <2>1, <2>4, BegunBound DEF Init, BegunFacts, Adding
  <2> QED
    BY <2>3, <2>5, <2>6 DEF Base
<1>2. Base /\ [Next]_vars => Base'
  BY TypeStep, LockStep, BegunStep DEF Base
<1> QED
  BY <1>1, <1>2, PTL DEF Spec

(* The types of ConfigVar (config.h:290-401): in particular the ids that   *)
(* AddListener hands out never run past the number of listeners, whatever  *)
(* the interleaving of its unprotected increments.                         *)
THEOREM ConfigVarTypes == Spec => []TypeOK
<1>1. Base => TypeOK
  BY DEF Base
<1> QED
  BY <1>1, BaseInvariant, PTL

-----------------------------------------------------------------------------
(***************************************************************************)
(* What ConfigVar guarantees to the code that keeps its promises: the old  *)
(* value is the one that is replaced, an id finds its listener, an         *)
(* iteration meets only listeners that are still registered, and every     *)
(* listener knows the value.                                               *)
(***************************************************************************)

InSet(t) == pc[t] \in {"notify", "reentered", "store"}

(* No two calls of SetValue on one variable, and the old value it gave.    *)
SetterFacts ==
  "one setter" \in duties =>
    /\ \A t \in Threads : InSet(t) => val_[op[t].var] = op[t].old
    /\ \A t, u \in Threads : InSet(t) /\ InSet(u) /\ op[t].var = op[u].var => t = u

(* A step that stores nothing and begins no SetValue keeps SetterFacts.    *)
LEMMA KeepsSetters ==
  ASSUME SetterFacts, NEW t \in Threads, UNCHANGED <<duties, val_>>,
         \A u \in Threads \ {t} : op'[u] = op[u] /\ pc'[u] = pc[u],
         InSet(t)' => InSet(t) /\ op'[t].var = op[t].var /\ op'[t].old = op[t].old
  PROVE  SetterFacts'
<1>1. \A u \in Threads : InSet(u)' => InSet(u) /\ op'[u].var = op[u].var /\ op'[u].old = op[u].old
  BY DEF InSet
<1> QED
  BY <1>1 DEF SetterFacts

(* What every step leaves of the calls of the other threads.               *)
LEMMA OnlyOwnCall ==
  ASSUME Base, NEW t \in Threads, Step(t) \/ CallBack(t) \/ Call(t)
  PROVE  /\ \A u \in Threads \ {t} : op'[u] = op[u] /\ pc'[u] = pc[u]
         /\ duties' = duties /\ op' \in [Threads -> Ops]
<1> USE DEF Base, TypeOK
<1>1. ASSUME NEW v \in Vars, NEW x \in Values, SetValue(t, v, x)
      PROVE  /\ \A u \in Threads \ {t} : op'[u] = op[u] /\ pc'[u] = pc[u]
             /\ duties' = duties /\ op' \in [Threads -> Ops]
  <2>1. pc' = [pc EXCEPT ![t] = "notify"] /\ duties' = duties
    BY <1>1 DEF SetValue
  <2>2. Fields(t, v, x, val_[v], Registered(v), NULL, 0)
    BY <1>1, StepFields
  <2> QED
    BY <2>1, <2>2 DEF Fields
<1>2. ASSUME NEW v \in Vars, NEW l \in Listeners, AddListener(t, v, l)
      PROVE  /\ \A u \in Threads \ {t} : op'[u] = op[u] /\ pc'[u] = pc[u]
             /\ duties' = duties /\ op' \in [Threads -> Ops]
  <2>1. pc' = [pc EXCEPT ![t] = "stored_id"] /\ duties' = duties
    BY <1>2 DEF AddListener
  <2>2. Fields(t, v, NULL, NULL, {}, l, s_fun_id)
    BY <1>2, StepFields
  <2> QED
    BY <2>1, <2>2 DEF Fields
<1>3. CASE Store(t) \/ Return(t)
  <2>1. pc' = [pc EXCEPT ![t] = "idle"] /\ duties' = duties
    BY <1>3 DEF Store, Return, Done
  <2>2. Fields(t, NULL, NULL, NULL, {}, NULL, 0)
    BY <1>3, StepFields
  <2> QED
    BY <2>1, <2>2 DEF Fields
<1>4. CASE Notify(t)
  <2>1. duties' = duties
    BY <1>4 DEF Notify
  <2>2. /\ op' \in [Threads -> Ops] /\ \A u \in Threads \ {t} : op'[u] = op[u]
        /\ pc' = pc \/ pc' = [pc EXCEPT ![t] = "idle"]
    BY <1>4, StepFields DEF Fields
  <2> QED
    BY <2>1, <2>2
<1>5. CASE CallBack(t) \/ EndNotify(t) \/ StoreId(t) \/ Insert(t)
  BY <1>5 DEF CallBack, EndNotify, StoreId, Insert
<1>6. CASE (\E l \in Listeners : DelListener(t, l)) \/ (\E v \in Vars : ClearListener(t, v))
  BY <1>6 DEF DelListener, ClearListener
<1> HIDE DEF Base, TypeOK
<1> QED
  BY <1>1, <1>2, <1>3, <1>4, <1>5, <1>6 DEF Step, Call

(* Every step keeps SetterFacts: a second SetValue on the variable breaks  *)
(* the promise.                                                            *)
LEMMA SetterStep == Base /\ SetterFacts /\ [Next]_vars => SetterFacts'
<1> SUFFICES ASSUME Base, SetterFacts, [Next]_vars PROVE SetterFacts'
  OBVIOUS
<1>1. CASE UNCHANGED vars
  BY <1>1 DEF vars, SetterFacts, InSet
<1>2. ASSUME NEW t \in Threads, Step(t) \/ CallBack(t) \/ Call(t)
      PROVE  SetterFacts'
  <2>1. /\ \A u \in Threads \ {t} : op'[u] = op[u] /\ pc'[u] = pc[u]
        /\ duties' = duties
    BY <1>2, OnlyOwnCall
  <2>2. pc \in [Threads -> {"idle", "notify", "reentered", "store", "stored_id", "insert", "return"}]
        /\ val_ \in [Vars -> Values]
    BY DEF Base, TypeOK
  <2>3. ASSUME NEW v \in Vars, NEW x \in Values, SetValue(t, v, x) PROVE SetterFacts'
    <3>1. /\ val_' = val_ /\ pc' = [pc EXCEPT ![t] = "notify"]
          /\ "one setter" \in duties => \A u \in Threads : ~(InSet(u) /\ op[u].var = v)
      BY <2>3 DEF SetValue, ValAtNotify, OneSetter, Setting, InSet
    <3>2. op'[t].var = v /\ op'[t].old = val_[v]
      BY <2>3, StepFields, ZenonT(30) DEF Fields
    <3> QED
      BY <2>1, <3>1, <3>2, ZenonT(30) DEF SetterFacts, InSet
  <2>4. CASE Store(t)
    <3>1. /\ pc[t] = "store" /\ pc'[t] = "idle"
          /\ val_' = [val_ EXCEPT ![op[t].var] = op[t].new]
      BY <2>2, <2>4 DEF Store, Done
    <3>2. \A u \in Threads : InSet(u)' => u # t /\ InSet(u) /\ op'[u] = op[u]
      BY <2>1, <3>1 DEF InSet
    <3>3. InSet(t) /\ \A u \in Threads : InSet(u) => op[u].var \in Vars
      BY <3>1 DEF Base, LockFacts, HoldsLock, InSet
    <3>4. ASSUME "one setter" \in duties, NEW u \in Threads, InSet(u), u # t
          PROVE  val_'[op[u].var] = op[u].old
      <4>1. op[u].var # op[t].var /\ val_[op[u].var] = op[u].old
        BY <3>3, <3>4 DEF SetterFacts
      <4> QED
        BY <2>2, <3>1, <3>3, <3>4, <4>1
    <3> QED
      BY <2>1, <3>2, <3>4 DEF SetterFacts
  <2>5. CASE Notify(t)
    <3>1. pc[t] = "notify" /\ val_' = val_
      BY <2>5 DEF Notify
    <3>2. InSet(t)' => InSet(t) /\ op'[t].var = op[t].var /\ op'[t].old = op[t].old
      <4>1. \/ op'[t].var = op[t].var /\ op'[t].old = op[t].old
            \/ pc' = [pc EXCEPT ![t] = "idle"]
        BY <2>5, StepFields DEF Fields
      <4> QED
        BY <2>2, <3>1, <4>1 DEF InSet
    <3> QED
      BY <2>1, <3>1, <3>2, KeepsSetters
  <2>6. CASE CallBack(t) \/ EndNotify(t)
    <3>1. InSet(t) /\ UNCHANGED <<val_, op>>
      BY <2>6 DEF CallBack, EndNotify, InSet
    <3> QED
      BY <2>1, <3>1, KeepsSetters
  <2>7. CASE StoreId(t) \/ Insert(t) \/ Return(t)
    <3>1. val_' = val_ /\ pc'[t] \in {"insert", "return", "idle"}
      BY <2>2, <2>7 DEF StoreId, Insert, Return, Done
    <3> QED
      BY <2>1, <3>1, KeepsSetters DEF InSet
  <2>8. ASSUME NEW v \in Vars, NEW l \in Listeners, AddListener(t, v, l) PROVE SetterFacts'
    <3>1. val_' = val_ /\ pc'[t] = "stored_id"
      BY <2>2, <2>8 DEF AddListener
    <3> QED
      BY <2>1, <3>1, KeepsSetters DEF InSet
  <2>9. CASE (\E l \in Listeners : DelListener(t, l)) \/ (\E v \in Vars : ClearListener(t, v))
    <3>1. UNCHANGED <<val_, pc, op>>
      BY <2>9 DEF DelListener, ClearListener
    <3> QED
      BY <2>1, <3>1, KeepsSetters DEF InSet
  <2> QED
    BY <1>2, <2>3, <2>4, <2>5, <2>6, <2>7, <2>8, <2>9 DEF Step, Call
<1> QED
  BY <1>1, <1>2 DEF Next

-----------------------------------------------------------------------------
(* The old value that SetValue gives its listeners (config.h:316-326) is   *)
(* the one its store replaces, when nobody else sets the variable.         *)
THEOREM OldIsReplacedTheorem == Spec => []OldIsReplaced
<1>1. Init => SetterFacts
  BY DEF Init, SetterFacts, InSet
<1>2. SetterFacts => OldIsReplaced
  BY DEF SetterFacts, OldIsReplaced, InSet
<1> QED
  BY <1>1, <1>2, SetterStep, BaseInvariant, PTL DEF Spec

-----------------------------------------------------------------------------
(* With one call of AddListener at a time: the id it draws is new, ...     *)
OneAdding ==
  /\ \A t, u \in Threads : Adding(t) /\ Adding(u) => t = u
  /\ \A t \in Threads : pc[t] = "stored_id" => op[t].tmp = s_fun_id
  /\ \A t \in Threads : pc[t] \in {"insert", "return"} => s_fun_id = op[t].tmp + 1

(* ... the listener is new and is found under the id about to be returned, *)
NewListener ==
  /\ \A l \in Listeners : home[l] = NULL => id[l] = 0
  /\ \A t \in Threads : pc[t] \in {"stored_id", "insert"} => home[op[t].cb] = NULL
  /\ \A t \in Threads : pc[t] = "return" =>
       /\ home[op[t].cb] = op[t].var /\ id[op[t].cb] = 0
       /\ s_fun_id \in Ids /\ cbs_[op[t].var][s_fun_id] = op[t].cb

(* ... no entry has an id that is still to be drawn,                       *)
EntriesBelow ==
  \A v \in Vars, i \in Ids : cbs_[v][i] # NULL =>
    i <= s_fun_id /\ \A t \in Threads : pc[t] = "insert" => i < s_fun_id

(* ... an entry is a listener of its variable under the id it was given,   *)
EntriesKnown ==
  \A v \in Vars, i \in Ids : cbs_[v][i] # NULL =>
    /\ home[cbs_[v][i]] = v
    /\ \/ id[cbs_[v][i]] = i
       \/ \E t \in Threads : pc[t] = "return" /\ op[t].cb = cbs_[v][i] /\ i = s_fun_id

(* ... and the id a listener was given is its entry.                       *)
IdsFind ==
  \A l \in Listeners : home[l] \in Vars /\ id[l] # 0 => cbs_[home[l]][id[l]] = l

AdderFacts ==
  "one adder" \in duties =>
    OneAdding /\ NewListener /\ EntriesBelow /\ EntriesKnown /\ IdsFind

(* A step that is no part of AddListener and touches no listener keeps     *)
(* AdderFacts.                                                             *)
LEMMA KeepsAdders ==
  ASSUME AdderFacts, NEW t \in Threads, UNCHANGED <<duties, cbs_, s_fun_id, home, id>>,
         \A u \in Threads \ {t} : op'[u] = op[u] /\ pc'[u] = pc[u],
         ~Adding(t), ~Adding(t)'
  PROVE  AdderFacts'
<1>1. SUFFICES ASSUME "one adder" \in duties
      PROVE  OneAdding' /\ NewListener' /\ EntriesBelow' /\ EntriesKnown' /\ IdsFind'
  BY DEF AdderFacts
<1>2. OneAdding /\ NewListener /\ EntriesBelow /\ EntriesKnown /\ IdsFind
  BY <1>1 DEF AdderFacts
<1>3. \A u \in Threads : Adding(u) \/ Adding(u)' => u # t /\ op'[u] = op[u] /\ pc'[u] = pc[u]
  OBVIOUS
<1>4. OneAdding'
  BY <1>2, <1>3 DEF OneAdding, Adding
<1>5. NewListener'
  BY <1>2, <1>3 DEF NewListener, Adding
<1>6. EntriesBelow'
  BY <1>2, <1>3 DEF EntriesBelow, Adding
<1>7. EntriesKnown'
  <2>1. \A u \in Threads : pc[u] = "return" => op'[u] = op[u] /\ pc'[u] = pc[u]
    BY <1>3 DEF Adding
  <2> QED
    BY <1>2, <2>1 DEF EntriesKnown
<1>8. IdsFind'
  BY <1>2 DEF IdsFind
<1> QED
  BY <1>4, <1>5, <1>6, <1>7, <1>8

(* The ids are numbers.                                                    *)
LEMMA Numbers ==
  ASSUME Base
  PROVE  /\ Ids \subseteq Nat /\ s_fun_id \in Nat /\ 0 \notin Ids
         /\ \A t \in Threads : op[t].tmp \in Nat
         /\ s_fun_id # 0 => s_fun_id \in Ids
<1>1. Ids \subseteq Nat /\ 0 \notin Ids
  BY BegunBound DEF Ids
<1>2. s_fun_id \in {0} \cup Ids /\ op \in [Threads -> Ops]
  BY DEF Base, TypeOK
<1>3. \A r \in Ops : r.tmp \in {0} \cup Ids
  BY DEF Ops
<1>4. {0} \cup Ids \subseteq Nat
  BY <1>1
<1>5. \A t \in Threads : op[t].tmp \in {0} \cup Ids
  BY <1>2, <1>3
<1> QED
  BY <1>1, <1>2, <1>4, <1>5

(* What is used of their order.                                            *)
LEMMA Order ==
  \A m, n \in Nat :
    /\ m <= n => m < n + 1
    /\ m < n => m <= n
    /\ ~(m < m) /\ m <= m /\ m + 1 # 0 /\ m + 1 \in Nat
OBVIOUS

(* While no AddListener is about to return, every entry has the id its     *)
(* listener was given.                                                     *)
LEMMA EntriesSettled ==
  ASSUME EntriesKnown, \A t \in Threads : pc[t] # "return",
         NEW v \in Vars, NEW i \in Ids, cbs_[v][i] # NULL
  PROVE  home[cbs_[v][i]] = v /\ id[cbs_[v][i]] = i
BY DEF EntriesKnown

(* AddListener begins: no other call of it is under way.                   *)
LEMMA AddListenerKeeps ==
  ASSUME Base, AdderFacts, "one adder" \in duties, NEW t \in Threads,
         NEW v \in Vars, NEW l \in Listeners, AddListener(t, v, l)
  PROVE  AdderFacts'
<1>1. /\ pc[t] = "idle" /\ pc'[t] = "stored_id" /\ \A u \in Threads \ {t} : pc'[u] = pc[u]
      /\ home[l] = NULL /\ \A u \in Threads : ~Adding(u)
      /\ UNCHANGED <<duties, cbs_, s_fun_id, home, id>>
  BY DEF AddListener, OneAdder, Base, TypeOK
<1>2. op'[t].cb = l /\ op'[t].tmp = s_fun_id /\ \A u \in Threads \ {t} : op'[u] = op[u]
  BY StepFields DEF Fields
<1>3. OneAdding /\ NewListener /\ EntriesBelow /\ EntriesKnown /\ IdsFind
  BY DEF AdderFacts
<1>4. \A u \in Threads : Adding(u)' => u = t
  BY <1>1 DEF Adding
<1>5. OneAdding'
  BY <1>1, <1>2, <1>4 DEF OneAdding, Adding
<1>6. NewListener'
  BY <1>1, <1>2, <1>3, <1>4 DEF NewListener, Adding
<1>7. EntriesBelow'
  BY <1>1, <1>3, <1>4 DEF EntriesBelow, Adding
<1>8. EntriesKnown'
  <2>1. \A u \in Threads : pc[u] # "return"
    BY <1>1 DEF Adding
  <2>2. \A w \in Vars, i \in Ids : cbs_[w][i] # NULL => home[cbs_[w][i]] = w /\ id[cbs_[w][i]] = i
    BY <1>3, <2>1, EntriesSettled
  <2> QED
    BY <1>1, <2>2 DEF EntriesKnown
<1>9. IdsFind'
  BY <1>1, <1>3 DEF IdsFind
<1> QED
  BY <1>5, <1>6, <1>7, <1>8, <1>9 DEF AdderFacts

(* ++s_fun_id: the id has no entry yet.                                    *)
LEMMA StoreIdKeeps ==
  ASSUME Base, AdderFacts, "one adder" \in duties, NEW t \in Threads, StoreId(t)
  PROVE  AdderFacts'
<1>1. /\ pc[t] = "stored_id" /\ pc'[t] = "insert" /\ \A u \in Threads \ {t} : pc'[u] = pc[u]
      /\ s_fun_id' = op[t].tmp + 1 /\ UNCHANGED <<duties, cbs_, op, home, id>>
  BY DEF StoreId, Incremented, Base, TypeOK
<1>2. OneAdding /\ NewListener /\ EntriesBelow /\ EntriesKnown /\ IdsFind
  BY DEF AdderFacts
<1>3. /\ s_fun_id' = s_fun_id + 1
      /\ \A u \in Threads : Adding(u) \/ Adding(u)' => u = t
  BY <1>1, <1>2 DEF OneAdding, Adding
<1>i. Ids \subseteq Nat
  BY Numbers
<1>4. s_fun_id \in Nat
  BY Numbers
<1>5. OneAdding'
  BY <1>1, <1>3 DEF OneAdding, Adding
<1>6. NewListener'
  BY <1>1, <1>2, <1>3 DEF NewListener, Adding
<1>7. EntriesBelow'
  <2>1. ASSUME NEW v \in Vars, NEW i \in Ids, cbs_[v][i] # NULL
        PROVE  i < s_fun_id' /\ i <= s_fun_id'
    <3>1. i <= s_fun_id
      BY <1>2, <2>1 DEF EntriesBelow
    <3>2. i \in Nat /\ s_fun_id' \in Nat
      <4>1. i \in Nat
        BY <1>i
      <4>2. s_fun_id + 1 \in Nat
        BY <1>4, Order
      <4> QED
        BY <1>3, <4>1, <4>2
    <3>3. i < s_fun_id'
      BY <1>3, <1>4, <3>1, <3>2, Order
    <3> QED
      BY <3>2, <3>3, Order
  <2> QED
    BY <1>1, <2>1 DEF EntriesBelow
<1>8. EntriesKnown'
  <2>1. \A u \in Threads : pc[u] # "return"
    BY <1>1, <1>3 DEF Adding
  <2>2. \A w \in Vars, i \in Ids : cbs_[w][i] # NULL => home[cbs_[w][i]] = w /\ id[cbs_[w][i]] = i
    BY <1>2, <2>1, EntriesSettled
  <2> QED
    BY <1>1, <2>2 DEF EntriesKnown
<1>9. IdsFind'
  BY <1>1, <1>2 DEF IdsFind
<1> QED
  BY <1>5, <1>6, <1>7, <1>8, <1>9 DEF AdderFacts

(* cbs_[s_fun_id] = cb: nothing is replaced.                               *)
LEMMA InsertKeeps ==
  ASSUME Base, AdderFacts, "one adder" \in duties, NEW t \in Threads, Insert(t)
  PROVE  AdderFacts'
<1>1. /\ pc[t] = "insert" /\ pc'[t] = "return" /\ \A u \in Threads \ {t} : pc'[u] = pc[u]
      /\ home' = [home EXCEPT ![op[t].cb] = op[t].var]
      /\ UNCHANGED <<duties, s_fun_id, op, id>>
  BY DEF Insert, Base, TypeOK
<1>2. OneAdding /\ NewListener /\ EntriesBelow /\ EntriesKnown /\ IdsFind
  BY DEF AdderFacts
<1>3. \A u \in Threads : Adding(u) \/ Adding(u)' => u = t
  BY <1>1, <1>2 DEF OneAdding, Adding
<1>4. op[t].var \in Vars /\ op[t].cb \in Listeners /\ NULL \notin Vars \cup Listeners
  BY <1>1, ConfigVarAssumption DEF Base, LockFacts, HoldsLock, Adding
<1>5. s_fun_id \in Ids
  <2>1. s_fun_id = op[t].tmp + 1
    BY <1>1, <1>2 DEF OneAdding
  <2>2. s_fun_id # 0
    BY <2>1, Numbers, Order
  <2> QED
    BY <2>2, Numbers
<1>6. cbs_' = [cbs_ EXCEPT ![op[t].var][s_fun_id] = op[t].cb]
  <2>1. FunId(t) = {s_fun_id}
    BY <1>1, <1>2 DEF OneAdding, FunId
  <2> QED
    BY <2>1 DEF Insert
<1>7. \A v \in Vars, i \in Ids :
        cbs_'[v][i] = IF v = op[t].var /\ i = s_fun_id THEN op[t].cb ELSE cbs_[v][i]
  BY <1>4, <1>5, <1>6 DEF Base, TypeOK
<1>8. /\ home[op[t].cb] = NULL /\ id[op[t].cb] = 0 /\ home'[op[t].cb] = op[t].var
      /\ \A l \in Listeners \ {op[t].cb} : home'[l] = home[l]
  BY <1>1, <1>2, <1>4 DEF NewListener, Base, TypeOK
<1>9. \A i \in Ids : cbs_[op[t].var][i] # NULL => i < s_fun_id
  BY <1>1, <1>2, <1>4 DEF EntriesBelow
<1>10. Ids \subseteq Nat /\ s_fun_id \in Nat
  BY Numbers
<1>11. ASSUME NEW v \in Vars, NEW i \in Ids, cbs_[v][i] # NULL
       PROVE  /\ cbs_[v][i] \in Listeners \ {op[t].cb}
              /\ home[cbs_[v][i]] = v /\ id[cbs_[v][i]] = i
  <2>1. \A u \in Threads : pc[u] # "return"
    BY <1>1, <1>3 DEF Adding
  <2>2. home[cbs_[v][i]] = v /\ id[cbs_[v][i]] = i
    BY <1>2, <1>11, <2>1, EntriesSettled
  <2>3. cbs_[v][i] \in Listeners
    <3>1. cbs_ \in [Vars -> [Ids -> Listeners \cup {NULL}]]
      BY DEF Base, TypeOK
    <3>2. cbs_[v][i] \in Listeners \cup {NULL}
      BY <3>1
    <3> QED
      BY <1>11, <3>2
  <2> QED
    BY <1>4, <1>8, <2>2, <2>3
<1>12. OneAdding'
  BY <1>1, <1>2, <1>3 DEF OneAdding, Adding
<1>13. NewListener'
  <2>1. \A l \in Listeners : home'[l] = NULL => id'[l] = 0
    BY <1>1, <1>2, <1>4, <1>8 DEF NewListener
  <2>2. \A u \in Threads : pc'[u] \notin {"stored_id", "insert"}
    BY <1>1, <1>3 DEF Adding
  <2>3. cbs_'[op[t].var][s_fun_id] = op[t].cb
    BY <1>4, <1>5, <1>7
  <2> QED
    BY <1>1, <1>3, <1>5, <1>8, <2>1, <2>2, <2>3 DEF NewListener, Adding
<1>14. EntriesBelow'
  <2>1. \A u \in Threads : pc'[u] # "insert"
    BY <1>1, <1>3 DEF Adding
  <2>2. ASSUME NEW v \in Vars, NEW i \in Ids, cbs_'[v][i] # NULL PROVE i <= s_fun_id
    <3>1. i = s_fun_id \/ cbs_[v][i] # NULL
      BY <1>7, <2>2
    <3>2. cbs_[v][i] # NULL => i <= s_fun_id
      BY <1>2 DEF EntriesBelow
    <3>3. i \in Nat /\ s_fun_id \in Nat
      BY <1>10
    <3>4. i = s_fun_id => i <= s_fun_id
      BY <3>3, Order
    <3> QED
      BY <3>1, <3>2, <3>4
  <2> QED
    BY <1>1, <2>1, <2>2 DEF EntriesBelow
<1>15. EntriesKnown'
  <2>1. SUFFICES ASSUME NEW v \in Vars, NEW i \in Ids, cbs_'[v][i] # NULL
        PROVE  /\ home'[cbs_'[v][i]] = v
               /\ \/ id'[cbs_'[v][i]] = i
                  \/ \E u \in Threads : pc'[u] = "return" /\ op'[u].cb = cbs_'[v][i] /\ i = s_fun_id'
    BY DEF EntriesKnown
  <2>2. CASE v = op[t].var /\ i = s_fun_id
    BY <1>1, <1>7, <1>8, <2>2
  <2>3. CASE ~(v = op[t].var /\ i = s_fun_id)
    <3>1. cbs_'[v][i] = cbs_[v][i]
      BY <1>7, <2>3
    <3>2. /\ cbs_[v][i] \in Listeners \ {op[t].cb}
          /\ home[cbs_[v][i]] = v /\ id[cbs_[v][i]] = i
      BY <1>11, <2>1, <3>1
    <3>3. home'[cbs_[v][i]] = v
      BY <1>8, <3>2
    <3> QED
      BY <1>1, <3>1, <3>2, <3>3
  <2> QED
    BY <2>2, <2>3
<1>16. IdsFind'
  <2>1. SUFFICES ASSUME NEW l \in Listeners, home'[l] \in Vars, id[l] # 0
        PROVE  cbs_'[home'[l]][id[l]] = l
    BY <1>1 DEF IdsFind
  <2>2. l # op[t].cb /\ home'[l] = home[l] /\ id[l] \in Ids
    BY <1>8, <2>1 DEF Base, TypeOK
  <2>3. cbs_[home[l]][id[l]] = l
    BY <1>2, <2>1, <2>2 DEF IdsFind
  <2>4. ~(home[l] = op[t].var /\ id[l] = s_fun_id)
    <3>1. SUFFICES ASSUME home[l] = op[t].var, id[l] = s_fun_id PROVE FALSE
      OBVIOUS
    <3>2. cbs_[op[t].var][s_fun_id] # NULL
      BY <1>4, <2>3, <3>1
    <3>3. s_fun_id < s_fun_id
      BY <1>5, <1>9, <3>2
    <3> QED
      BY <1>10, <3>3, Order
  <2> QED
    BY <1>7, <2>1, <2>2, <2>3, <2>4, ZenonT(30)
<1> QED
  BY <1>12, <1>13, <1>14, <1>15, <1>16 DEF AdderFacts

(* return s_fun_id: the id under which the listener was entered.           *)
LEMMA ReturnKeeps ==
  ASSUME Base, AdderFacts, "one adder" \in duties, NEW t \in Threads, Return(t)
  PROVE  AdderFacts'
<1>1. /\ pc[t] = "return" /\ pc'[t] = "idle" /\ \A u \in Threads \ {t} : pc'[u] = pc[u]
      /\ UNCHANGED <<duties, cbs_, s_fun_id, home>>
  BY DEF Return, Done, Base, TypeOK
<1>2. OneAdding /\ NewListener /\ EntriesBelow /\ EntriesKnown /\ IdsFind
  BY DEF AdderFacts
<1>3. \A u \in Threads : Adding(u) => u = t
  BY <1>1, <1>2 DEF OneAdding, Adding
<1>4. \A u \in Threads : ~Adding(u)'
  BY <1>1, <1>3 DEF Adding
<1>5. op[t].var \in Vars /\ op[t].cb \in Listeners /\ NULL \notin Vars \cup Listeners
  BY <1>1, ConfigVarAssumption DEF Base, LockFacts, HoldsLock, Adding
<1>6. id' = [id EXCEPT ![op[t].cb] = s_fun_id]
  <2>1. FunId(t) = {s_fun_id}
    BY <1>1, <1>2 DEF OneAdding, FunId
  <2> QED
    BY <2>1 DEF Return, ReturnedId
<1>7. id'[op[t].cb] = s_fun_id /\ \A l \in Listeners \ {op[t].cb} : id'[l] = id[l]
  BY <1>5, <1>6 DEF Base, TypeOK
<1>8. /\ home[op[t].cb] = op[t].var /\ id[op[t].cb] = 0
      /\ s_fun_id \in Ids /\ cbs_[op[t].var][s_fun_id] = op[t].cb
  BY <1>1, <1>2 DEF NewListener
<1>9. OneAdding'
  BY <1>4 DEF OneAdding, Adding
<1>10. NewListener'
  <2>1. \A l \in Listeners : home'[l] = NULL => id'[l] = 0
    <3>1. ASSUME NEW l \in Listeners, home'[l] = NULL PROVE id'[l] = 0
      <4>1. home[l] = NULL /\ l # op[t].cb
        BY <1>1, <1>5, <1>8, <3>1
      <4> QED
        BY <1>2, <1>7, <4>1 DEF NewListener
    <3> QED
      BY <3>1
  <2> QED
    BY <1>4, <2>1 DEF NewListener, Adding
<1>11. EntriesBelow'
  BY <1>1, <1>2, <1>4 DEF EntriesBelow, Adding
<1>12. EntriesKnown'
  <2>1. SUFFICES ASSUME NEW v \in Vars, NEW i \in Ids, cbs_[v][i] # NULL
        PROVE  home[cbs_[v][i]] = v /\ id'[cbs_[v][i]] = i
    BY <1>1 DEF EntriesKnown
  <2>2. /\ home[cbs_[v][i]] = v
        /\ \/ id[cbs_[v][i]] = i
           \/ \E u \in Threads : pc[u] = "return" /\ op[u].cb = cbs_[v][i] /\ i = s_fun_id
    <3>1. EntriesKnown
      BY <1>2
    <3> QED
      BY <2>1, <3>1, ZenonT(40) DEF EntriesKnown
  <2>3. cbs_[v][i] \in Listeners
    <3>1. cbs_ \in [Vars -> [Ids -> Listeners \cup {NULL}]]
      BY DEF Base, TypeOK
    <3>2. cbs_[v][i] \in Listeners \cup {NULL}
      BY <3>1
    <3> QED
      BY <2>1, <3>2
  <2>4. CASE id[cbs_[v][i]] = i
    <3>1. cbs_[v][i] # op[t].cb
      BY <1>8, <2>4, Numbers
    <3> QED
      BY <1>7, <2>2, <2>3, <2>4, <3>1
  <2>5. CASE \E u \in Threads : pc[u] = "return" /\ op[u].cb = cbs_[v][i] /\ i = s_fun_id
    <3>1. op[t].cb = cbs_[v][i] /\ i = s_fun_id
      BY <1>3, <2>5 DEF Adding
    <3> QED
      BY <1>7, <2>2, <3>1
  <2> QED
    BY <2>2, <2>4, <2>5
<1>13. IdsFind'
  <2>1. SUFFICES ASSUME NEW l \in Listeners, home[l] \in Vars, id'[l] # 0
        PROVE  cbs_[home[l]][id'[l]] = l
    BY <1>1 DEF IdsFind
  <2>2. CASE l = op[t].cb
    BY <1>7, <1>8, <2>2
  <2>3. CASE l # op[t].cb
    BY <1>2, <1>7, <2>1, <2>3 DEF IdsFind
  <2> QED
    BY <2>2, <2>3
<1> QED
  BY <1>9, <1>10, <1>11, <1>12, <1>13 DEF AdderFacts

(* DelListener removes the listener it is meant for and no other.          *)
LEMMA DelListenerKeeps ==
  ASSUME Base, AdderFacts, "one adder" \in duties,
         NEW t \in Threads, NEW l \in Listeners, DelListener(t, l)
  PROVE  AdderFacts'
<1>1. /\ home[l] \in Vars /\ id[l] # 0 /\ writer[home[l]] = NULL
      /\ cbs_' = [cbs_ EXCEPT ![home[l]][id[l]] = NULL]
      /\ home' = [home EXCEPT ![l] = "gone"]
      /\ UNCHANGED <<duties, s_fun_id, pc, op, id>>
  BY DEF DelListener, CanWrite
<1>2. OneAdding /\ NewListener /\ EntriesBelow /\ EntriesKnown /\ IdsFind
  BY DEF AdderFacts
<1>3. /\ home \in [Listeners -> Vars \cup {NULL, "gone"}] /\ id[l] \in Ids
      /\ cbs_ \in [Vars -> [Ids -> Listeners \cup {NULL}]]
  BY <1>1 DEF Base, TypeOK
<1>4. NULL \notin Vars \cup Threads \cup Listeners /\ NULL # "gone" /\ "gone" \notin Vars
  BY ConfigVarAssumption
<1>5. cbs_[home[l]][id[l]] = l
  BY <1>1, <1>2 DEF IdsFind
<1>6. \A v \in Vars, i \in Ids :
        cbs_'[v][i] = IF v = home[l] /\ i = id[l] THEN NULL ELSE cbs_[v][i]
  BY <1>1, <1>3
<1>7. home'[l] = "gone" /\ \A k \in Listeners \ {l} : home'[k] = home[k]
  BY <1>1, <1>3
<1>8. \A u \in Threads : Adding(u) =>
        op[u].cb \in Listeners /\ op[u].var \in Vars /\ op[u].var # home[l]
  <2>1. \A u \in Threads : Adding(u) =>
          op[u].cb \in Listeners /\ op[u].var \in Vars /\ writer[op[u].var] = u
    BY DEF Base, LockFacts, HoldsLock
  <2> QED
    BY <1>1, <1>4, <2>1
<1>9. OneAdding'
  BY <1>1, <1>2 DEF OneAdding, Adding
<1>10. NewListener'
  <2>1. \A k \in Listeners : home'[k] = NULL => id'[k] = 0
    BY <1>1, <1>2, <1>4, <1>7 DEF NewListener
  <2>2. ASSUME NEW u \in Threads, pc[u] \in {"stored_id", "insert"} PROVE home'[op[u].cb] = NULL
    <3>1. home[op[u].cb] = NULL /\ op[u].cb \in Listeners
      BY <1>2, <1>8, <2>2 DEF NewListener, Adding
    <3> QED
      BY <1>1, <1>4, <1>7, <3>1
  <2>3. ASSUME NEW u \in Threads, pc[u] = "return"
        PROVE  /\ home'[op[u].cb] = op[u].var /\ id[op[u].cb] = 0
               /\ s_fun_id \in Ids /\ cbs_'[op[u].var][s_fun_id] = op[u].cb
    <3>1. /\ home[op[u].cb] = op[u].var /\ id[op[u].cb] = 0
          /\ s_fun_id \in Ids /\ cbs_[op[u].var][s_fun_id] = op[u].cb
      BY <1>2, <2>3 DEF NewListener
    <3>2. op[u].cb \in Listeners \ {l} /\ op[u].var \in Vars /\ op[u].var # home[l]
      BY <1>1, <1>8, <2>3, <3>1 DEF Adding
    <3> QED
      BY <1>6, <1>7, <3>1, <3>2
  <2> QED
    BY <1>1, <2>1, <2>2, <2>3 DEF NewListener
<1>11. EntriesBelow'
  <2>1. \A v \in Vars, i \in Ids : cbs_'[v][i] # NULL => cbs_[v][i] # NULL
    BY <1>6
  <2> QED
    BY <1>1, <1>2, <2>1 DEF EntriesBelow
<1>12. EntriesKnown'
  <2>1. SUFFICES ASSUME NEW v \in Vars, NEW i \in Ids, cbs_'[v][i] # NULL
        PROVE  /\ home'[cbs_'[v][i]] = v
               /\ \/ id'[cbs_'[v][i]] = i
                  \/ \E u \in Threads : pc'[u] = "return" /\ op'[u].cb = cbs_'[v][i] /\ i = s_fun_id'
    BY DEF EntriesKnown
  <2>2. cbs_'[v][i] = cbs_[v][i] /\ ~(v = home[l] /\ i = id[l])
    BY <1>6, <2>1
  <2>3. /\ home[cbs_[v][i]] = v
        /\ \/ id[cbs_[v][i]] = i
           \/ \E u \in Threads : pc[u] = "return" /\ op[u].cb = cbs_[v][i] /\ i = s_fun_id
    BY <1>2, <2>1, <2>2 DEF EntriesKnown
  <2>4. cbs_[v][i] # l
    <3>1. ASSUME NEW u \in Threads, pc[u] = "return" PROVE op[u].cb # l
      BY <1>1, <1>2, <3>1 DEF NewListener
    <3> QED
      BY <2>2, <2>3, <3>1
  <2>5. cbs_[v][i] \in Listeners
    <3>1. cbs_[v][i] \in Listeners \cup {NULL}
      BY <1>3
    <3> QED
      BY <2>1, <2>2, <3>1
  <2>6. home'[cbs_[v][i]] = v
    BY <1>7, <2>3, <2>4, <2>5
  <2> QED
    BY <1>1, <2>2, <2>3, <2>6
<1>13. IdsFind'
  <2>1. SUFFICES ASSUME NEW k \in Listeners, home'[k] \in Vars, id[k] # 0
        PROVE  cbs_'[home'[k]][id[k]] = k
    BY <1>1 DEF IdsFind
  <2>2. k # l /\ home'[k] = home[k] /\ id[k] \in Ids
    <3>1. id \in [Listeners -> {0} \cup Ids]
      BY DEF Base, TypeOK
    <3> QED
      BY <1>4, <1>7, <2>1, <3>1
  <2>3. cbs_[home[k]][id[k]] = k
    BY <1>2, <2>1, <2>2 DEF IdsFind
  <2>4. ~(home[k] = home[l] /\ id[k] = id[l])
    BY <1>5, <2>2, <2>3
  <2> QED
    BY <1>6, <2>1, <2>2, <2>3, <2>4, ZenonT(30)
<1> QED
  BY <1>9, <1>10, <1>11, <1>12, <1>13 DEF AdderFacts

(* ClearListener removes the listeners of its variable and no other.       *)
LEMMA ClearListenerKeeps ==
  ASSUME Base, AdderFacts, "one adder" \in duties,
         NEW t \in Threads, NEW w \in Vars, ClearListener(t, w)
  PROVE  AdderFacts'
<1>1. /\ writer[w] = NULL
      /\ cbs_' = [cbs_ EXCEPT ![w] = [i \in Ids |-> NULL]]
      /\ home' = [l \in Listeners |-> IF home[l] = w THEN "gone" ELSE home[l]]
      /\ UNCHANGED <<duties, s_fun_id, pc, op, id>>
  BY DEF ClearListener, CanWrite
<1>2. OneAdding /\ NewListener /\ EntriesBelow /\ EntriesKnown /\ IdsFind
  BY DEF AdderFacts
<1>3. cbs_ \in [Vars -> [Ids -> Listeners \cup {NULL}]]
  BY DEF Base, TypeOK
<1>4. NULL \notin Vars \cup Threads \cup Listeners /\ NULL # "gone" /\ "gone" \notin Vars
  BY ConfigVarAssumption
<1>5. \A v \in Vars, i \in Ids : cbs_'[v][i] = IF v = w THEN NULL ELSE cbs_[v][i]
  BY <1>1, <1>3
<1>6. \A l \in Listeners : home'[l] = IF home[l] = w THEN "gone" ELSE home[l]
  BY <1>1
<1>7. \A u \in Threads : Adding(u) =>
        op[u].cb \in Listeners /\ op[u].var \in Vars /\ op[u].var # w
  <2>1. \A u \in Threads : Adding(u) =>
          op[u].cb \in Listeners /\ op[u].var \in Vars /\ writer[op[u].var] = u
    BY DEF Base, LockFacts, HoldsLock
  <2> QED
    BY <1>1, <1>4, <2>1
<1>8. OneAdding'
  BY <1>1, <1>2 DEF OneAdding, Adding
<1>9. NewListener'
  <2>1. \A k \in Listeners : home'[k] = NULL => id'[k] = 0
    BY <1>1, <1>2, <1>4, <1>6 DEF NewListener
  <2>2. ASSUME NEW u \in Threads, pc[u] \in {"stored_id", "insert"} PROVE home'[op[u].cb] = NULL
    <3>1. home[op[u].cb] = NULL /\ op[u].cb \in Listeners
      BY <1>2, <1>7, <2>2 DEF NewListener, Adding
    <3> QED
      BY <1>4, <1>6, <3>1
  <2>3. ASSUME NEW u \in Threads, pc[u] = "return"
        PROVE  /\ home'[op[u].cb] = op[u].var /\ id[op[u].cb] = 0
               /\ s_fun_id \in Ids /\ cbs_'[op[u].var][s_fun_id] = op[u].cb
    <3>1. /\ home[op[u].cb] = op[u].var /\ id[op[u].cb] = 0
          /\ s_fun_id \in Ids /\ cbs_[op[u].var][s_fun_id] = op[u].cb
      BY <1>2, <2>3 DEF NewListener
    <3>2. op[u].cb \in Listeners /\ op[u].var \in Vars /\ op[u].var # w
      BY <1>7, <2>3 DEF Adding
    <3> QED
      BY <1>5, <1>6, <3>1, <3>2
  <2> QED
    BY <1>1, <2>1, <2>2, <2>3 DEF NewListener
<1>10. EntriesBelow'
  <2>1. \A v \in Vars, i \in Ids : cbs_'[v][i] # NULL => cbs_[v][i] # NULL
    BY <1>5
  <2> QED
    BY <1>1, <1>2, <2>1 DEF EntriesBelow
<1>11. EntriesKnown'
  <2>1. SUFFICES ASSUME NEW v \in Vars, NEW i \in Ids, cbs_'[v][i] # NULL
        PROVE  /\ home'[cbs_'[v][i]] = v
               /\ \/ id'[cbs_'[v][i]] = i
                  \/ \E u \in Threads : pc'[u] = "return" /\ op'[u].cb = cbs_'[v][i] /\ i = s_fun_id'
    BY DEF EntriesKnown
  <2>2. cbs_'[v][i] = cbs_[v][i] /\ v # w
    BY <1>5, <2>1
  <2>3. /\ home[cbs_[v][i]] = v
        /\ \/ id[cbs_[v][i]] = i
           \/ \E u \in Threads : pc[u] = "return" /\ op[u].cb = cbs_[v][i] /\ i = s_fun_id
    <3>1. EntriesKnown
      BY <1>2
    <3> QED
      BY <2>1, <2>2, <3>1 DEF EntriesKnown
  <2>4. cbs_[v][i] \in Listeners
    <3>1. cbs_[v][i] \in Listeners \cup {NULL}
      BY <1>3
    <3> QED
      BY <2>1, <2>2, <3>1
  <2>5. home'[cbs_[v][i]] = v
    BY <1>6, <2>2, <2>3, <2>4
  <2> QED
    BY <1>1, <2>2, <2>3, <2>5
<1>12. IdsFind'
  <2>1. SUFFICES ASSUME NEW k \in Listeners, home'[k] \in Vars, id[k] # 0
        PROVE  cbs_'[home'[k]][id[k]] = k
    BY <1>1 DEF IdsFind
  <2>2. home'[k] = home[k] /\ home[k] # w /\ id[k] \in Ids
    BY <1>4, <1>6, <2>1 DEF Base, TypeOK
  <2> QED
    BY <1>2, <1>5, <2>1, <2>2 DEF IdsFind
<1> QED
  BY <1>8, <1>9, <1>10, <1>11, <1>12 DEF AdderFacts

(* Every step keeps AdderFacts.                                            *)
LEMMA AdderStep == Base /\ AdderFacts /\ [Next]_vars => AdderFacts'
<1> SUFFICES ASSUME Base, AdderFacts, [Next]_vars PROVE AdderFacts'
  OBVIOUS
<1>1. CASE UNCHANGED vars
  <2>1. UNCHANGED <<duties, cbs_, s_fun_id, pc, op, home, id>>
    BY <1>1 DEF vars
  <2>2. (OneAdding' <=> OneAdding) /\ (NewListener' <=> NewListener)
    BY <2>1 DEF OneAdding, NewListener, Adding
  <2>3. EntriesBelow' <=> EntriesBelow
    BY <2>1 DEF EntriesBelow
  <2>4. (EntriesKnown' <=> EntriesKnown) /\ (IdsFind' <=> IdsFind)
    BY <2>1 DEF EntriesKnown, IdsFind
  <2> QED
    BY <2>1, <2>2, <2>3, <2>4 DEF AdderFacts
<1>2. ASSUME NEW t \in Threads, Step(t) \/ CallBack(t) \/ Call(t)
      PROVE  AdderFacts'
  <2>1. /\ \A u \in Threads \ {t} : op'[u] = op[u] /\ pc'[u] = pc[u]
        /\ duties' = duties
    BY <1>2, OnlyOwnCall
  <2>2. CASE "one adder" \notin duties
    BY <2>1, <2>2 DEF AdderFacts
  <2>3. CASE "one adder" \in duties
    <3>1. ASSUME NEW v \in Vars, NEW l \in Listeners, AddListener(t, v, l) PROVE AdderFacts'
      BY <2>3, <3>1, AddListenerKeeps
    <3>2. CASE StoreId(t)
      BY <2>3, <3>2, StoreIdKeeps
    <3>3. CASE Insert(t)
      BY <2>3, <3>3, InsertKeeps
    <3>4. CASE Return(t)
      BY <2>3, <3>4, ReturnKeeps
    <3>5. ASSUME NEW l \in Listeners, DelListener(t, l) PROVE AdderFacts'
      BY <2>3, <3>5, DelListenerKeeps
    <3>6. ASSUME NEW v \in Vars, ClearListener(t, v) PROVE AdderFacts'
      BY <2>3, <3>6, ClearListenerKeeps
    <3>7. CASE (\E v \in Vars, x \in Values : SetValue(t, v, x)) \/ Notify(t) \/ CallBack(t)
               \/ EndNotify(t) \/ Store(t)
      <4>1. /\ UNCHANGED <<cbs_, s_fun_id, home, id>>
            /\ pc[t] \in {"idle", "notify", "store"}
        BY <3>7 DEF SetValue, Notify, CallBack, EndNotify, Store
      <4>2. pc' = pc \/ \E x \in {"notify", "idle", "reentered", "store"} : pc' = [pc EXCEPT ![t] = x]
        <5>1. Notify(t) => pc' = pc \/ pc' = [pc EXCEPT ![t] = "idle"]
          BY StepFields
        <5> QED
          BY <3>7, <5>1 DEF SetValue, CallBack, EndNotify, Store, Done
      <4>3. ~Adding(t) /\ ~Adding(t)'
        BY <4>1, <4>2 DEF Adding, Base, TypeOK
      <4> QED
        BY <2>1, <4>1, <4>3, KeepsAdders
    <3> QED
      BY <1>2, <3>1, <3>2, <3>3, <3>4, <3>5, <3>6, <3>7 DEF Step, Call
  <2> QED
    BY <2>2, <2>3
<1> QED
  BY <1>1, <1>2 DEF Next

(* AdderFacts holds in every reachable state.                              *)
LEMMA AdderInvariant == Spec => []AdderFacts
<1>1. Init => AdderFacts
  <2>1. SUFFICES ASSUME Init PROVE AdderFacts
    OBVIOUS
  <2>2. \A t \in Threads : pc[t] = "idle"
    BY <2>1 DEF Init
  <2>3. \A v \in Vars, i \in Ids : cbs_[v][i] = NULL
    BY <2>1 DEF Init
  <2>4. \A l \in Listeners : home[l] = NULL /\ id[l] = 0
    BY <2>1 DEF Init
  <2> QED
    BY <2>2, <2>3, <2>4
       DEF AdderFacts, OneAdding, NewListener, EntriesBelow, EntriesKnown, IdsFind, Adding, Registered
<1> QED
  BY <1>1, AdderStep, BaseInvariant, PTL DEF Spec

(* The id AddListener returned (config.h:328-335) finds the listener it    *)
(* was returned for, so that DelListener (config.h:337-340) removes that   *)
(* one, when no two calls of AddListener overlap.                          *)
THEOREM RegistrationsKeptTheorem == Spec => []RegistrationsKept
<1>1. AdderFacts => RegistrationsKept
  BY DEF AdderFacts, RegistrationsKept, IdsFind
<1> QED
  BY <1>1, AdderInvariant, PTL

(* No entry that SetValue's loop over cbs_ (config.h:321-323) is about to  *)
(* reach has been removed, whatever the program does.                      *)
THEOREM IterationIsStableTheorem == Spec => []IterationIsStable
<1>1. Base /\ AdderFacts => IterationIsStable
  <2>1. SUFFICES ASSUME Base, AdderFacts, NEW t \in Threads, pc[t] = "notify", NEW i \in op[t].todo
        PROVE  /\ cbs_[op[t].var][i] # NULL
               /\ "one adder" \in duties => home[cbs_[op[t].var][i]] = op[t].var
    BY DEF IterationIsStable
  <2>2. op[t].var \in Vars /\ i \in Registered(op[t].var)
    BY <2>1 DEF Base, LockFacts, HoldsLock, Notifying
  <2>3. i \in Ids /\ cbs_[op[t].var][i] # NULL
    BY <2>2 DEF Registered
  <2>4. ASSUME "one adder" \in duties PROVE home[cbs_[op[t].var][i]] = op[t].var
    <3>1. EntriesKnown
      BY <2>1, <2>4 DEF AdderFacts
    <3>2. \A v \in Vars, j \in Ids : cbs_[v][j] # NULL => home[cbs_[v][j]] = v
      BY <3>1 DEF EntriesKnown
    <3> QED
      BY <2>2, <2>3, <3>2
  <2> QED
    BY <2>3, <2>4
<1> QED
  BY <1>1, AdderInvariant, BaseInvariant, PTL

-----------------------------------------------------------------------------
Promises == AllDuties \ {"no reentry"}

(* With every promise but the last: nobody sets a variable while a         *)
(* listener is added to it, ...                                            *)
Apart ==
  \A t, u \in Threads : Adding(t) /\ InSet(u) => op[t].var # op[u].var

(* ... a call of SetValue has told every listener it went past, ...        *)
PassedAreTold ==
  \A t \in Threads : InSet(t) =>
    \A i \in Ids : cbs_[op[t].var][i] # NULL /\ (pc[t] = "store" \/ i \notin op[t].todo)
      => told[cbs_[op[t].var][i]] = op[t].new

(* ... and nobody else's listeners wait.                                   *)
OthersAreTold ==
  \A v \in Vars, i \in Ids :
    cbs_[v][i] # NULL /\ (\A t \in Threads : ~(InSet(t) /\ op[t].var = v))
      => told[cbs_[v][i]] = val_[v]

ToldFacts == Promises \subseteq duties => Apart /\ PassedAreTold /\ OthersAreTold

(* The facts that the argument rests on.                                   *)
LEMMA PromisedFacts ==
  ASSUME SetterFacts, AdderFacts, ToldFacts, Promises \subseteq duties
  PROVE  /\ {"one setter", "one adder", "quiet", "no throw"} \subseteq duties
         /\ Apart /\ PassedAreTold /\ OthersAreTold
         /\ OneAdding /\ NewListener /\ EntriesBelow /\ EntriesKnown /\ IdsFind
         /\ \A t, u \in Threads : InSet(t) /\ InSet(u) /\ op[t].var = op[u].var => t = u
<1>1. {"one setter", "one adder", "quiet", "no throw"} \subseteq duties
  BY DEF Promises, AllDuties
<1> QED
  BY <1>1 DEF SetterFacts, AdderFacts, ToldFacts

(* A step that changes no listener, no value and no call of SetValue keeps *)
(* ToldFacts, if it begins no AddListener.                                 *)
LEMMA KeepsTold ==
  ASSUME ToldFacts, NEW t \in Threads, duties' = duties, val_' = val_, told' = told,
         \A v \in Vars, i \in Ids : cbs_'[v][i] \in {NULL, cbs_[v][i]},
         \A u \in Threads \ {t} : op'[u] = op[u] /\ pc'[u] = pc[u],
         \A u \in Threads : InSet(u) => op[u].var \in Vars,
         InSet(t)' <=> InSet(t),
         InSet(t) => /\ op'[t].var = op[t].var /\ op'[t].new = op[t].new
                     /\ op'[t].todo = op[t].todo /\ (pc'[t] = "store" => pc[t] = "store"),
         Adding(t)' => Adding(t) /\ op'[t].var = op[t].var
  PROVE  ToldFacts'
<1>1. SUFFICES ASSUME Promises \subseteq duties PROVE Apart' /\ PassedAreTold' /\ OthersAreTold'
  BY DEF ToldFacts, Promises, AllDuties
<1>2. Apart /\ PassedAreTold /\ OthersAreTold
  BY <1>1 DEF ToldFacts
<1>3. \A u \in Threads : /\ InSet(u)' <=> InSet(u)
                         /\ InSet(u) => /\ op'[u].var = op[u].var /\ op'[u].new = op[u].new
                                        /\ op'[u].todo = op[u].todo
                                        /\ pc'[u] = "store" => pc[u] = "store"
                         /\ Adding(u)' => Adding(u) /\ op'[u].var = op[u].var
  BY DEF InSet, Adding
<1>4. Apart'
  BY <1>2, <1>3 DEF Apart
<1>5. PassedAreTold'
  <2>1. SUFFICES ASSUME NEW u \in Threads, InSet(u)', NEW i \in Ids, cbs_'[op'[u].var][i] # NULL,
                        pc'[u] = "store" \/ i \notin op'[u].todo
        PROVE  told'[cbs_'[op'[u].var][i]] = op'[u].new
    BY DEF PassedAreTold
  <2>2. /\ InSet(u) /\ op'[u].var = op[u].var /\ op'[u].new = op[u].new /\ op[u].var \in Vars
        /\ pc[u] = "store" \/ i \notin op[u].todo
    BY <1>3, <2>1
  <2>3. cbs_'[op[u].var][i] = cbs_[op[u].var][i] /\ cbs_[op[u].var][i] # NULL
    BY <2>1, <2>2
  <2> QED
    BY <1>2, <2>2, <2>3 DEF PassedAreTold
<1>6. OthersAreTold'
  <2>1. SUFFICES ASSUME NEW v \in Vars, NEW i \in Ids, cbs_'[v][i] # NULL,
                        \A u \in Threads : ~(InSet(u)' /\ op'[u].var = v)
        PROVE  told'[cbs_'[v][i]] = val_'[v]
    BY DEF OthersAreTold
  <2>2. cbs_'[v][i] = cbs_[v][i] /\ \A u \in Threads : ~(InSet(u) /\ op[u].var = v)
    BY <1>3, <2>1
  <2> QED
    BY <1>2, <2>1, <2>2 DEF OthersAreTold
<1> QED
  BY <1>4, <1>5, <1>6

(* SetValue begins: the listeners it will tell are all there are.          *)
LEMMA SetValueTells ==
  ASSUME Base, SetterFacts, AdderFacts, ToldFacts, Promises \subseteq duties,
         NEW t \in Threads, NEW v \in Vars, NEW x \in Values, SetValue(t, v, x)
  PROVE  ToldFacts'
<1>1. /\ pc[t] = "idle" /\ pc'[t] = "notify" /\ \A u \in Threads \ {t} : pc'[u] = pc[u]
      /\ writer[v] = NULL /\ UNCHANGED <<duties, val_, cbs_, told>>
  BY DEF SetValue, CanRead, ValAtNotify, Base, TypeOK
<1>2. /\ op'[t].var = v /\ op'[t].new = x /\ op'[t].todo = Registered(v)
      /\ \A u \in Threads \ {t} : op'[u] = op[u]
  <2>1. Fields(t, v, x, val_[v], Registered(v), NULL, 0)
    BY StepFields
  <2> QED
    BY <2>1 DEF Fields
<1>3. Apart /\ PassedAreTold /\ OthersAreTold
  BY PromisedFacts
<1>4. Apart'
  <2>1. SUFFICES ASSUME NEW a \in Threads, NEW u \in Threads, Adding(a)', InSet(u)'
        PROVE  op'[a].var # op'[u].var
    BY DEF Apart
  <2>2. a # t /\ Adding(a) /\ op'[a] = op[a]
    BY <1>1, <1>2, <2>1 DEF Adding
  <2>3. CASE u = t
    <3>1. writer[op[a].var] = a /\ a # NULL
      BY <2>2, ConfigVarAssumption DEF Base, LockFacts, HoldsLock
    <3> QED
      BY <1>1, <1>2, <2>2, <2>3, <3>1
  <2>4. CASE u # t
    BY <1>1, <1>2, <1>3, <2>1, <2>2, <2>4 DEF Apart, InSet
  <2> QED
    BY <2>3, <2>4
<1>5. PassedAreTold'
  <2>1. SUFFICES ASSUME NEW u \in Threads, InSet(u)', NEW i \in Ids, cbs_[op'[u].var][i] # NULL,
                        pc'[u] = "store" \/ i \notin op'[u].todo
        PROVE  told[cbs_[op'[u].var][i]] = op'[u].new
    BY <1>1 DEF PassedAreTold
  <2>2. u # t
    BY <1>1, <1>2, <2>1 DEF Registered
  <2> QED
    BY <1>1, <1>2, <1>3, <2>1, <2>2 DEF PassedAreTold, InSet
<1>6. OthersAreTold'
  <2>1. SUFFICES ASSUME NEW w \in Vars, NEW i \in Ids, cbs_[w][i] # NULL,
                        \A u \in Threads : ~(InSet(u)' /\ op'[u].var = w)
        PROVE  told[cbs_[w][i]] = val_[w]
    BY <1>1 DEF OthersAreTold
  <2>2. \A u \in Threads : ~(InSet(u) /\ op[u].var = w)
    BY <1>1, <1>2, <2>1 DEF InSet
  <2> QED
    BY <1>3, <2>1, <2>2 DEF OthersAreTold
<1> QED
  BY <1>4, <1>5, <1>6 DEF ToldFacts

(* A listener is called: it knows the new value.                           *)
LEMMA NotifyTells ==
  ASSUME Base, SetterFacts, AdderFacts, ToldFacts, Promises \subseteq duties,
         NEW t \in Threads, Notify(t)
  PROVE  ToldFacts'
<1> DEFINE n == First(op[t].todo)
           l == cbs_[op[t].var][n]
<1>1. /\ pc[t] = "notify" /\ UNCHANGED <<duties, val_, cbs_>>
      /\ op[t].var \in Vars /\ op[t].todo \subseteq Registered(op[t].var) /\ InSet(t)
  BY DEF Notify, Base, LockFacts, HoldsLock, Notifying, InSet
<1>2. "no throw" \in duties
  BY PromisedFacts
<1>3. /\ n \in op[t].todo /\ pc' = pc
      /\ op'[t].var = op[t].var /\ op'[t].new = op[t].new /\ op'[t].todo = op[t].todo \ {n}
      /\ \A u \in Threads \ {t} : op'[u] = op[u]
      /\ told' = [told EXCEPT ![l] = op[t].new]
  BY <1>2, StepFields DEF Fields
<1>4. n \in Ids /\ l # NULL
  BY <1>1, <1>3 DEF Registered
<1> HIDE DEF n
<1>5. \A v \in Vars, i \in Ids : cbs_[v][i] # NULL =>
        /\ cbs_[v][i] \in Listeners /\ home[cbs_[v][i]] = v
        /\ told'[cbs_[v][i]] = IF cbs_[v][i] = l THEN op[t].new ELSE told[cbs_[v][i]]
  <2>1. SUFFICES ASSUME NEW v \in Vars, NEW i \in Ids, cbs_[v][i] # NULL
        PROVE  /\ cbs_[v][i] \in Listeners /\ home[cbs_[v][i]] = v
               /\ told'[cbs_[v][i]] = IF cbs_[v][i] = l THEN op[t].new ELSE told[cbs_[v][i]]
    OBVIOUS
  <2>2. cbs_ \in [Vars -> [Ids -> Listeners \cup {NULL}]] /\ told \in [Listeners -> Values \cup {NULL}]
    BY DEF Base, TypeOK
  <2>3. cbs_[v][i] \in Listeners \cup {NULL}
    BY <2>2
  <2>4. cbs_[v][i] \in Listeners
    BY <2>1, <2>3
  <2>5. EntriesKnown
    BY PromisedFacts
  <2>6. home[cbs_[v][i]] = v
    BY <2>1, <2>5 DEF EntriesKnown
  <2> HIDE DEF l
  <2>7. told'[cbs_[v][i]] = IF cbs_[v][i] = l THEN op[t].new ELSE told[cbs_[v][i]]
    BY <1>3, <2>2, <2>4
  <2> QED
    BY <2>4, <2>6, <2>7
<1>6. home[l] = op[t].var
  BY <1>1, <1>4, <1>5
<1>7. /\ Apart /\ PassedAreTold /\ OthersAreTold
      /\ \A u, w \in Threads : InSet(u) /\ InSet(w) /\ op[u].var = op[w].var => u = w
  BY PromisedFacts
<1> HIDE DEF l
<1>8. \A u \in Threads : /\ InSet(u)' <=> InSet(u)
                         /\ op'[u].var = op[u].var /\ op'[u].new = op[u].new
                         /\ Adding(u)' <=> Adding(u)
  BY <1>3 DEF InSet, Adding
<1>9. Apart'
  BY <1>7, <1>8 DEF Apart
<1>10. PassedAreTold'
  <2>1. SUFFICES ASSUME NEW u \in Threads, InSet(u), NEW i \in Ids, cbs_[op[u].var][i] # NULL,
                        pc[u] = "store" \/ i \notin op'[u].todo
        PROVE  told'[cbs_[op[u].var][i]] = op[u].new
    BY <1>1, <1>3, <1>8 DEF PassedAreTold
  <2>2. op[u].var \in Vars
    BY <2>1 DEF Base, LockFacts, HoldsLock, InSet
  <2>3. CASE u = t /\ i = n
    BY <1>5, <2>1, <2>2, <2>3 DEF l
  <2>4. CASE u = t /\ i # n
    <3>1. i \notin op[t].todo
      BY <1>1, <1>3, <2>1, <2>4
    <3>2. told[cbs_[op[t].var][i]] = op[t].new
      BY <1>7, <2>1, <2>4, <3>1 DEF PassedAreTold
    <3> QED
      BY <1>5, <2>1, <2>2, <2>4, <3>2
  <2>5. CASE u # t
    <3>1. cbs_[op[u].var][i] # l
      BY <1>1, <1>5, <1>6, <1>7, <2>1, <2>2, <2>5
    <3>2. told[cbs_[op[u].var][i]] = op[u].new
      BY <1>3, <1>7, <2>1, <2>5 DEF PassedAreTold
    <3> QED
      BY <1>5, <2>1, <2>2, <3>1, <3>2
  <2> QED
    BY <2>3, <2>4, <2>5
<1>11. OthersAreTold'
  <2>1. SUFFICES ASSUME NEW v \in Vars, NEW i \in Ids, cbs_[v][i] # NULL,
                        \A u \in Threads : ~(InSet(u) /\ op[u].var = v)
        PROVE  told'[cbs_[v][i]] = val_[v]
    BY <1>1, <1>8 DEF OthersAreTold
  <2>2. v # op[t].var
    BY <1>1, <2>1
  <2>3. cbs_[v][i] # l
    BY <1>5, <1>6, <2>1, <2>2
  <2>4. told[cbs_[v][i]] = val_[v]
    BY <1>7, <2>1 DEF OthersAreTold
  <2> QED
    BY <1>5, <2>1, <2>3, <2>4
<1> QED
  BY <1>9, <1>10, <1>11 DEF ToldFacts

(* The loop ends: every listener was told.                                 *)
LEMMA EndNotifyTells ==
  ASSUME Base, SetterFacts, AdderFacts, ToldFacts, Promises \subseteq duties,
         NEW t \in Threads, EndNotify(t)
  PROVE  ToldFacts'
<1>1. /\ pc[t] = "notify" /\ op[t].todo = {} /\ pc'[t] = "store"
      /\ \A u \in Threads \ {t} : pc'[u] = pc[u]
      /\ UNCHANGED <<duties, val_, cbs_, op, told>>
  BY DEF EndNotify, Base, TypeOK
<1>2. Apart /\ PassedAreTold /\ OthersAreTold
  BY PromisedFacts
<1>3. \A u \in Threads : (InSet(u)' <=> InSet(u)) /\ (Adding(u)' <=> Adding(u))
  BY <1>1 DEF InSet, Adding
<1>4. Apart'
  BY <1>1, <1>2, <1>3 DEF Apart
<1>5. PassedAreTold'
  <2>1. SUFFICES ASSUME NEW u \in Threads, InSet(u), NEW i \in Ids, cbs_[op[u].var][i] # NULL,
                        pc'[u] = "store" \/ i \notin op[u].todo
        PROVE  told[cbs_[op[u].var][i]] = op[u].new
    BY <1>1, <1>3 DEF PassedAreTold
  <2>2. pc[u] = "store" \/ i \notin op[u].todo
    BY <1>1, <2>1
  <2> QED
    BY <1>2, <2>1, <2>2 DEF PassedAreTold
<1>6. OthersAreTold'
  BY <1>1, <1>2, <1>3 DEF OthersAreTold
<1> QED
  BY <1>4, <1>5, <1>6 DEF ToldFacts

(* The store: the value becomes what the listeners were told.              *)
LEMMA StoreTells ==
  ASSUME Base, SetterFacts, AdderFacts, ToldFacts, Promises \subseteq duties,
         NEW t \in Threads, Store(t)
  PROVE  ToldFacts'
<1>1. /\ pc[t] = "store" /\ pc'[t] = "idle" /\ \A u \in Threads \ {t} : pc'[u] = pc[u]
      /\ val_' = [val_ EXCEPT ![op[t].var] = op[t].new] /\ UNCHANGED <<duties, cbs_, told>>
  BY DEF Store, Done, Base, TypeOK
<1>2. \A u \in Threads \ {t} : op'[u] = op[u]
  BY StepFields DEF Fields
<1>3. InSet(t) /\ op[t].var \in Vars /\ val_ \in [Vars -> Values]
  BY <1>1 DEF InSet, Base, LockFacts, HoldsLock, TypeOK
<1>4. /\ Apart /\ PassedAreTold /\ OthersAreTold
      /\ \A u, w \in Threads : InSet(u) /\ InSet(w) /\ op[u].var = op[w].var => u = w
  BY PromisedFacts
<1>5. \A u \in Threads : /\ InSet(u)' => InSet(u) /\ u # t /\ op'[u] = op[u] /\ pc'[u] = pc[u]
                         /\ Adding(u)' => Adding(u) /\ u # t /\ op'[u] = op[u]
                         /\ InSet(u) /\ u # t => InSet(u)'
  BY <1>1, <1>2 DEF InSet, Adding
<1>6. Apart'
  BY <1>4, <1>5 DEF Apart
<1>7. PassedAreTold'
  BY <1>1, <1>4, <1>5 DEF PassedAreTold
<1>8. OthersAreTold'
  <2>1. SUFFICES ASSUME NEW v \in Vars, NEW i \in Ids, cbs_[v][i] # NULL,
                        \A u \in Threads : ~(InSet(u)' /\ op'[u].var = v)
        PROVE  told[cbs_[v][i]] = val_'[v]
    BY <1>1 DEF OthersAreTold
  <2>2. CASE v = op[t].var
    <3>1. told[cbs_[v][i]] = op[t].new
      BY <1>1, <1>3, <1>4, <2>1, <2>2 DEF PassedAreTold
    <3> QED
      BY <1>1, <1>3, <2>2, <3>1
  <2>3. CASE v # op[t].var
    <3>1. \A u \in Threads : ~(InSet(u) /\ op[u].var = v)
      BY <1>2, <1>5, <2>1, <2>3
    <3>2. told[cbs_[v][i]] = val_[v]
      BY <1>4, <2>1, <3>1 DEF OthersAreTold
    <3> QED
      BY <1>1, <1>3, <2>3, <3>2
  <2> QED
    BY <2>2, <2>3
<1> QED
  BY <1>6, <1>7, <1>8 DEF ToldFacts

(* A listener is entered with the value as it is.                          *)
LEMMA InsertTells ==
  ASSUME Base, SetterFacts, AdderFacts, ToldFacts, Promises \subseteq duties,
         NEW t \in Threads, Insert(t)
  PROVE  ToldFacts'
<1>1. /\ pc[t] = "insert" /\ pc'[t] = "return" /\ \A u \in Threads \ {t} : pc'[u] = pc[u]
      /\ told' = [told EXCEPT ![op[t].cb] = val_[op[t].var]]
      /\ UNCHANGED <<duties, val_, op>>
  BY DEF Insert, Base, TypeOK
<1>2. /\ Apart /\ PassedAreTold /\ OthersAreTold /\ OneAdding /\ NewListener /\ EntriesKnown
  BY PromisedFacts
<1>3. Adding(t) /\ op[t].var \in Vars /\ op[t].cb \in Listeners /\ NULL \notin Vars \cup Listeners
  BY <1>1, ConfigVarAssumption DEF Base, LockFacts, HoldsLock, Adding
<1>4. home[op[t].cb] = NULL
  BY <1>1, <1>2 DEF NewListener
<1>5. \A v \in Vars, i \in Ids : cbs_[v][i] # NULL =>
        /\ cbs_[v][i] \in Listeners \ {op[t].cb} /\ told'[cbs_[v][i]] = told[cbs_[v][i]]
  <2>1. SUFFICES ASSUME NEW v \in Vars, NEW i \in Ids, cbs_[v][i] # NULL
        PROVE  /\ cbs_[v][i] \in Listeners \ {op[t].cb} /\ told'[cbs_[v][i]] = told[cbs_[v][i]]
    OBVIOUS
  <2>2. cbs_ \in [Vars -> [Ids -> Listeners \cup {NULL}]] /\ told \in [Listeners -> Values \cup {NULL}]
    BY DEF Base, TypeOK
  <2>3. cbs_[v][i] \in Listeners \cup {NULL}
    BY <2>2
  <2>4. home[cbs_[v][i]] = v
    BY <1>2, <2>1 DEF EntriesKnown
  <2>5. cbs_[v][i] \in Listeners \ {op[t].cb}
    BY <1>3, <1>4, <2>1, <2>3, <2>4
  <2> QED
    BY <1>1, <2>2, <2>5
<1>6. \A v \in Vars, i \in Ids :
        \/ cbs_'[v][i] = cbs_[v][i]
        \/ v = op[t].var /\ cbs_'[v][i] = op[t].cb
  <2>1. PICK j \in FunId(t) : cbs_' = [cbs_ EXCEPT ![op[t].var][j] = op[t].cb]
    BY DEF Insert
  <2>2. cbs_ \in [Vars -> [Ids -> Listeners \cup {NULL}]]
    BY DEF Base, TypeOK
  <2> QED
    BY <1>3, <2>1, <2>2
<1>7. told'[op[t].cb] = val_[op[t].var]
  BY <1>1, <1>3 DEF Base, TypeOK
<1>8. \A u \in Threads : (InSet(u)' <=> InSet(u)) /\ (Adding(u)' <=> Adding(u))
                         /\ (InSet(u) => pc'[u] = pc[u])
  BY <1>1 DEF InSet, Adding
<1>9. Apart'
  BY <1>1, <1>2, <1>8 DEF Apart
<1>10. PassedAreTold'
  <2>1. SUFFICES ASSUME NEW u \in Threads, InSet(u), NEW i \in Ids, cbs_'[op[u].var][i] # NULL,
                        pc[u] = "store" \/ i \notin op[u].todo
        PROVE  told'[cbs_'[op[u].var][i]] = op[u].new
    BY <1>1, <1>8 DEF PassedAreTold
  <2>2. op[u].var # op[t].var /\ op[u].var \in Vars
    BY <1>2, <1>3, <2>1 DEF Apart, Base, LockFacts, HoldsLock, InSet
  <2>3. cbs_'[op[u].var][i] = cbs_[op[u].var][i]
    BY <1>6, <2>2
  <2> QED
    BY <1>2, <1>5, <2>1, <2>2, <2>3 DEF PassedAreTold
<1>11. OthersAreTold'
  <2>1. SUFFICES ASSUME NEW v \in Vars, NEW i \in Ids, cbs_'[v][i] # NULL,
                        \A u \in Threads : ~(InSet(u) /\ op[u].var = v)
        PROVE  told'[cbs_'[v][i]] = val_[v]
    BY <1>1, <1>8 DEF OthersAreTold
  <2>2. CASE cbs_'[v][i] = cbs_[v][i]
    BY <1>2, <1>5, <2>1, <2>2 DEF OthersAreTold
  <2>3. CASE v = op[t].var /\ cbs_'[v][i] = op[t].cb
    BY <1>7, <2>3
  <2> QED
    BY <1>6, <2>2, <2>3
<1> QED
  BY <1>9, <1>10, <1>11 DEF ToldFacts

(* AddListener begins while nobody sets the variable.                      *)
LEMMA AddListenerTells ==
  ASSUME Base, SetterFacts, AdderFacts, ToldFacts, Promises \subseteq duties,
         NEW t \in Threads, NEW v \in Vars, NEW l \in Listeners, AddListener(t, v, l)
  PROVE  ToldFacts'
<1>1. {"one setter", "one adder", "quiet", "no throw"} \subseteq duties
  BY PromisedFacts
<1>2. /\ pc[t] = "idle" /\ pc'[t] = "stored_id" /\ \A u \in Threads \ {t} : pc'[u] = pc[u]
      /\ \A u \in Threads : ~(InSet(u) /\ op[u].var = v)
      /\ UNCHANGED <<duties, val_, cbs_, told>>
  BY <1>1 DEF AddListener, Quiet, Setting, InSet, Base, TypeOK
<1>3. op'[t].var = v /\ \A u \in Threads \ {t} : op'[u] = op[u]
  BY StepFields, ZenonT(30) DEF Fields
<1>4. Apart /\ PassedAreTold /\ OthersAreTold
  BY PromisedFacts
<1>5. \A u \in Threads : /\ InSet(u)' <=> InSet(u)
                         /\ InSet(u) => u # t /\ op'[u] = op[u] /\ pc'[u] = pc[u]
                         /\ Adding(u)' => u = t \/ (Adding(u) /\ op'[u] = op[u])
  BY <1>2, <1>3 DEF InSet, Adding
<1>6. Apart'
  BY <1>2, <1>3, <1>4, <1>5 DEF Apart
<1>7. PassedAreTold'
  BY <1>2, <1>4, <1>5 DEF PassedAreTold
<1>8. OthersAreTold'
  BY <1>2, <1>4, <1>5 DEF OthersAreTold
<1> QED
  BY <1>6, <1>7, <1>8 DEF ToldFacts

(* Every step keeps ToldFacts.                                             *)
LEMMA ToldStep == Base /\ SetterFacts /\ AdderFacts /\ ToldFacts /\ [Next]_vars => ToldFacts'
<1> SUFFICES ASSUME Base, SetterFacts, AdderFacts, ToldFacts, [Next]_vars PROVE ToldFacts'
  OBVIOUS
<1>1. CASE UNCHANGED vars
  <2>1. UNCHANGED <<duties, val_, cbs_, pc, op, told>>
    BY <1>1 DEF vars
  <2>2. (Apart' <=> Apart) /\ (PassedAreTold' <=> PassedAreTold)
    BY <2>1 DEF Apart, PassedAreTold, InSet, Adding
  <2>3. OthersAreTold' <=> OthersAreTold
    BY <2>1 DEF OthersAreTold, InSet
  <2> QED
    BY <2>1, <2>2, <2>3 DEF ToldFacts
<1>2. ASSUME NEW t \in Threads, Step(t) \/ CallBack(t) \/ Call(t)
      PROVE  ToldFacts'
  <2>1. /\ \A u \in Threads \ {t} : op'[u] = op[u] /\ pc'[u] = pc[u]
        /\ duties' = duties
    BY <1>2, OnlyOwnCall
  <2>2. CASE ~(Promises \subseteq duties)
    BY <2>1, <2>2 DEF ToldFacts, Promises, AllDuties
  <2>3. CASE Promises \subseteq duties
    <3>1. ASSUME NEW v \in Vars, NEW x \in Values, SetValue(t, v, x) PROVE ToldFacts'
      BY <2>3, <3>1, SetValueTells
    <3>2. CASE Notify(t)
      BY <2>3, <3>2, NotifyTells
    <3>3. CASE EndNotify(t)
      BY <2>3, <3>3, EndNotifyTells
    <3>4. CASE Store(t)
      BY <2>3, <3>4, StoreTells
    <3>5. CASE Insert(t)
      BY <2>3, <3>5, InsertTells
    <3>6. ASSUME NEW v \in Vars, NEW l \in Listeners, AddListener(t, v, l) PROVE ToldFacts'
      BY <2>3, <3>6, AddListenerTells
    <3>a. \A u \in Threads : InSet(u) => op[u].var \in Vars
      BY DEF Base, LockFacts, HoldsLock, InSet
    <3>b. /\ cbs_ \in [Vars -> [Ids -> Listeners \cup {NULL}]]
          /\ pc \in [Threads -> {"idle", "notify", "reentered", "store", "stored_id", "insert", "return"}]
      BY DEF Base, TypeOK
    <3>7. CASE CallBack(t)
      <4>1. /\ UNCHANGED <<val_, told, cbs_, op>> /\ pc[t] = "notify" /\ pc'[t] = "reentered"
        BY <3>b, <3>7 DEF CallBack
      <4>2. \A v \in Vars, i \in Ids : cbs_'[v][i] \in {NULL, cbs_[v][i]}
        BY <4>1
      <4>3. (InSet(t)' <=> InSet(t)) /\ ~Adding(t)'
        BY <4>1 DEF InSet, Adding
      <4> QED
        BY <2>1, <3>a, <4>1, <4>2, <4>3, KeepsTold
    <3>8. CASE StoreId(t)
      <4>1. /\ UNCHANGED <<val_, told, cbs_, op>> /\ pc[t] = "stored_id" /\ pc'[t] = "insert"
        BY <3>b, <3>8 DEF StoreId
      <4>2. \A v \in Vars, i \in Ids : cbs_'[v][i] \in {NULL, cbs_[v][i]}
        BY <4>1
      <4>3. ~InSet(t)' /\ ~InSet(t) /\ Adding(t)
        BY <4>1 DEF InSet, Adding
      <4> QED
        BY <2>1, <3>a, <4>1, <4>2, <4>3, KeepsTold
    <3>9. CASE Return(t)
      <4>1. /\ UNCHANGED <<val_, told, cbs_>> /\ pc[t] = "return" /\ pc'[t] = "idle"
        BY <3>b, <3>9 DEF Return, Done
      <4>2. \A v \in Vars, i \in Ids : cbs_'[v][i] \in {NULL, cbs_[v][i]}
        BY <4>1
      <4>3. ~InSet(t)' /\ ~InSet(t) /\ ~Adding(t)'
        BY <4>1 DEF InSet, Adding
      <4> QED
        BY <2>1, <3>a, <4>1, <4>2, <4>3, KeepsTold
    <3>10. ASSUME NEW l \in Listeners, DelListener(t, l) PROVE ToldFacts'
      <4>1. /\ UNCHANGED <<val_, told, pc, op>> /\ pc[t] = "idle"
            /\ cbs_' = [cbs_ EXCEPT ![home[l]][id[l]] = NULL]
        BY <3>10 DEF DelListener
      <4>2. \A v \in Vars, i \in Ids : cbs_'[v][i] \in {NULL, cbs_[v][i]}
        BY <3>b, <4>1
      <4>3. ~InSet(t)' /\ ~InSet(t) /\ ~Adding(t)'
        BY <4>1 DEF InSet, Adding
      <4> QED
        BY <2>1, <3>a, <4>1, <4>2, <4>3, KeepsTold
    <3>11. ASSUME NEW v \in Vars, ClearListener(t, v) PROVE ToldFacts'
      <4>1. /\ UNCHANGED <<val_, told, pc, op>> /\ pc[t] = "idle"
            /\ cbs_' = [cbs_ EXCEPT ![v] = [i \in Ids |-> NULL]]
        BY <3>11 DEF ClearListener
      <4>2. \A w \in Vars, i \in Ids : cbs_'[w][i] \in {NULL, cbs_[w][i]}
        BY <3>b, <4>1
      <4>3. ~InSet(t)' /\ ~InSet(t) /\ ~Adding(t)'
        BY <4>1 DEF InSet, Adding
      <4> QED
        BY <2>1, <3>a, <4>1, <4>2, <4>3, KeepsTold
    <3> QED
      BY <1>2, <3>1, <3>2, <3>3, <3>4, <3>5, <3>6, <3>7, <3>8, <3>9, <3>10, <3>11 DEF Step, Call
  <2> QED
    BY <2>2, <2>3
<1> QED
  BY <1>1, <1>2 DEF Next

(* SetterFacts and ToldFacts hold in every reachable state.                *)
LEMMA ToldInvariant == Spec => []SetterFacts /\ []ToldFacts
<1>1. Init => SetterFacts /\ ToldFacts
  <2>1. SUFFICES ASSUME Init PROVE SetterFacts /\ ToldFacts
    OBVIOUS
  <2>2. \A t \in Threads : ~InSet(t) /\ ~Adding(t)
    BY <2>1 DEF Init, InSet, Adding
  <2>3. \A v \in Vars, i \in Ids : cbs_[v][i] = NULL
    BY <2>1 DEF Init
  <2> QED
    BY <2>2, <2>3 DEF SetterFacts, ToldFacts, Apart, PassedAreTold, OthersAreTold
<1> QED
  BY <1>1, SetterStep, ToldStep, BaseInvariant, AdderInvariant, PTL DEF Spec

(* Between changes every module that registered a listener knows the value *)
(* GetValue returns (config.h:312-340), when nobody else sets the          *)
(* variable, one listener is added at a time and never during SetValue,    *)
(* and listeners do not throw.                                             *)
THEOREM InformedTheorem == Spec => []Informed
<1>2. AdderFacts /\ SetterFacts /\ ToldFacts /\ Base => Informed
  <2>1. SUFFICES ASSUME AdderFacts, SetterFacts, ToldFacts, Base, Promises \subseteq duties,
                        NEW l \in Listeners, home[l] \in Vars, id[l] # 0,
                        \A t \in Threads : ~Setting(t, home[l])
        PROVE  told[l] = val_[home[l]]
    BY DEF Informed, ModulesNotified, Promises
  <2>2. IdsFind /\ OthersAreTold
    BY <2>1, PromisedFacts
  <2>3. id[l] \in Ids /\ cbs_[home[l]][id[l]] = l /\ l # NULL
    <3>1. id[l] \in Ids
      BY <2>1 DEF Base, TypeOK
    <3> QED
      BY <2>1, <2>2, <3>1, ConfigVarAssumption DEF IdsFind
  <2>4. \A t \in Threads : ~(InSet(t) /\ op[t].var = home[l])
    BY <2>1 DEF Setting, InSet
  <2> QED
    BY <2>1, <2>2, <2>3, <2>4 DEF OthersAreTold
<1> QED
  BY <1>2, ToldInvariant, AdderInvariant, BaseInvariant, PTL
-----------------------------------------------------------------------------
(***************************************************************************)
(* ConfigVar implements NotifiedValue for the code that keeps its          *)
(* promises.                                                               *)
(***************************************************************************)

(* With one call of AddListener at a time: a listener that is in cbs_ has  *)
(* its id, or the call that is about to return it is under way.            *)
JoinedFacts ==
  "one adder" \in duties =>
    \A l \in Listeners : home[l] \in Vars =>
      id[l] # 0 \/ \E t \in Threads : pc[t] = "return" /\ op[t].cb = l

(* Every step keeps JoinedFacts.                                           *)
LEMMA JoinedStep == Base /\ AdderFacts /\ JoinedFacts /\ [Next]_vars => JoinedFacts'
<1> SUFFICES ASSUME Base, AdderFacts, JoinedFacts, [Next]_vars PROVE JoinedFacts'
  OBVIOUS
<1>1. CASE UNCHANGED vars
  BY <1>1 DEF vars, JoinedFacts
<1>2. ASSUME NEW t \in Threads, Step(t) \/ CallBack(t) \/ Call(t)
      PROVE  JoinedFacts'
  <2>1. /\ \A u \in Threads \ {t} : op'[u] = op[u] /\ pc'[u] = pc[u]
        /\ duties' = duties
    BY <1>2, OnlyOwnCall
  <2>2. SUFFICES ASSUME "one adder" \in duties, NEW l \in Listeners, home'[l] \in Vars
        PROVE  id'[l] # 0 \/ \E u \in Threads : pc'[u] = "return" /\ op'[u].cb = l
    BY <2>1 DEF JoinedFacts
  <2>3. home[l] \in Vars => id[l] # 0 \/ \E u \in Threads : pc[u] = "return" /\ op[u].cb = l
    BY <2>2 DEF JoinedFacts
  <2>4. /\ pc \in [Threads -> {"idle", "notify", "reentered", "store", "stored_id", "insert", "return"}]
        /\ home \in [Listeners -> Vars \cup {NULL, "gone"}] /\ id \in [Listeners -> {0} \cup Ids]
    BY DEF Base, TypeOK
  <2>5. CASE home'[l] = home[l] /\ id' = id /\ pc[t] # "return"
    BY <2>1, <2>2, <2>3, <2>5
  <2>6. CASE Insert(t)
    <3>1. /\ home' = [home EXCEPT ![op[t].cb] = op[t].var] /\ pc'[t] = "return"
          /\ op' = op /\ id' = id /\ pc[t] # "return"
      BY <2>4, <2>6 DEF Insert
    <3>2. CASE l = op[t].cb
      BY <3>1, <3>2
    <3>3. CASE l # op[t].cb
      BY <2>4, <2>5, <3>1, <3>3
    <3> QED
      BY <3>2, <3>3
  <2>7. CASE Return(t)
    <3>1. PICK i \in FunId(t) : id' = [id EXCEPT ![op[t].cb] = i]
      BY <2>7 DEF Return, ReturnedId
    <3>2. home' = home /\ pc[t] = "return"
      BY <2>7 DEF Return
    <3>3. s_fun_id = op[t].tmp + 1 /\ op[t].tmp \in Nat
      BY <2>2, <3>2, Numbers DEF AdderFacts, OneAdding
    <3>4. i # 0
      BY <3>1, <3>3 DEF FunId
    <3>5. CASE l = op[t].cb
      BY <2>4, <3>1, <3>4, <3>5
    <3>6. CASE l # op[t].cb
      <4>1. id'[l] = id[l]
        BY <2>4, <3>1, <3>6
      <4> QED
        BY <2>1, <2>2, <2>3, <3>2, <3>6, <4>1
    <3> QED
      BY <3>5, <3>6
  <2>8. CASE (\E k \in Listeners : DelListener(t, k)) \/ (\E v \in Vars : ClearListener(t, v))
    <3>1. id' = id /\ pc[t] = "idle" /\ home'[l] \in {home[l], "gone"}
      BY <2>4, <2>8 DEF DelListener, ClearListener
    <3> QED
      BY <2>2, <2>5, <3>1, ConfigVarAssumption
  <2>9. CASE Notify(t) \/ EndNotify(t) \/ Store(t) \/ StoreId(t) \/ CallBack(t)
    BY <2>5, <2>9 DEF Notify, EndNotify, Store, StoreId, CallBack
  <2>10. CASE (\E v \in Vars, x \in Values : SetValue(t, v, x))
              \/ (\E v \in Vars, k \in Listeners : AddListener(t, v, k))
    BY <2>5, <2>10 DEF SetValue, AddListener
  <2> QED
    BY <1>2, <2>6, <2>7, <2>8, <2>9, <2>10 DEF Step, Call
<1> QED
  BY <1>1, <1>2 DEF Next

(* What is announced for v: nothing when nobody sets it, and otherwise the *)
(* value that the one call of SetValue was given.                          *)
LEMMA ComingValue ==
  ASSUME SetterFacts, "one setter" \in duties, NEW v
  PROVE  /\ \A t \in Threads : Setting(t, v) => Coming(v) = op[t].new
         /\ (\A t \in Threads : ~Setting(t, v)) => Coming(v) = NULL
<1> DEFINE S == {op[t].new : t \in {u \in Threads : Setting(u, v)}}
<1>1. ASSUME NEW t \in Threads, Setting(t, v) PROVE S = {op[t].new}
  BY <1>1 DEF SetterFacts, Setting, InSet
<1>2. (\A t \in Threads : ~Setting(t, v)) => S = {}
  OBVIOUS
<1>3. Coming(v) = IF S = {} THEN NULL ELSE CHOOSE x \in S : TRUE
  BY DEF Coming
<1> HIDE DEF S
<1>4. ASSUME NEW t \in Threads, Setting(t, v) PROVE Coming(v) = op[t].new
  <2>1. S = {op[t].new}
    BY <1>1, <1>4
  <2> QED
    BY <1>3, <2>1
<1>5. (\A t \in Threads : ~Setting(t, v)) => Coming(v) = NULL
  BY <1>2, <1>3
<1> QED
  BY <1>4, <1>5

(* A step that begins and ends no call of SetValue on v leaves it.         *)
LEMMA ComingKept ==
  ASSUME NEW v,
         \A u \in Threads : Setting(u, v)' <=> Setting(u, v),
         \A u \in Threads : Setting(u, v) => op'[u].new = op[u].new
  PROVE  Coming(v)' = Coming(v)
<1>1. {op'[t].new : t \in {u \in Threads : Setting(u, v)'}} = {op[t].new : t \in {u \in Threads : Setting(u, v)}}
  OBVIOUS
<1> QED
  BY <1>1 DEF Coming

(* A step of t that keeps its call of SetValue, if any, announces nothing. *)
LEMMA NothingComes ==
  ASSUME NEW t \in Threads,
         \A u \in Threads \ {t} : op'[u] = op[u] /\ pc'[u] = pc[u],
         InSet(t)' <=> InSet(t),
         InSet(t) => op'[t].var = op[t].var /\ op'[t].new = op[t].new
  PROVE  UNCHANGED [v \in Vars |-> Coming(v)]
<1>1. ASSUME NEW v \in Vars PROVE Coming(v)' = Coming(v)
  <2>1. \A u \in Threads : Setting(u, v)' <=> Setting(u, v)
    BY DEF Setting, InSet
  <2>2. \A u \in Threads : Setting(u, v) => op'[u].new = op[u].new
    BY DEF Setting, InSet
  <2> QED
    BY <2>1, <2>2, ComingKept
<1> QED
  BY <1>1

(* One variable's announcement changes.                                    *)
LEMMA OneComes ==
  ASSUME NEW v \in Vars, \A w \in Vars \ {v} : Coming(w)' = Coming(w)
  PROVE  [w \in Vars |-> Coming(w)]' = [[w \in Vars |-> Coming(w)] EXCEPT ![v] = Coming(v)']
OBVIOUS
(* When SetValue is about to store, every listener of the variable has     *)
(* been told: one that is not in cbs_ under its id would be in the middle  *)
(* of AddListener.                                                         *)
LEMMA AllKnowAtStore ==
  ASSUME Base, SetterFacts, AdderFacts, ToldFacts, JoinedFacts, Promises \subseteq duties,
         NEW t \in Threads, pc[t] = "store"
  PROVE  /\ op[t].var \in Vars /\ op[t].new # NULL /\ Coming(op[t].var) = op[t].new
         /\ Seen!AllKnow(op[t].var)
<1> DEFINE v == op[t].var
<1>1. v \in Vars /\ op[t].new \in Values /\ InSet(t) /\ Setting(t, v)
  BY DEF Base, LockFacts, HoldsLock, InSet, Setting
<1>2. /\ Apart /\ PassedAreTold /\ NewListener /\ IdsFind
      /\ {"one setter", "one adder"} \subseteq duties
  BY PromisedFacts
<1>3. Coming(v) = op[t].new
  BY <1>1, <1>2, ComingValue
<1>4. ASSUME NEW l \in Listeners, home[l] = v PROVE told[l] = op[t].new
  <2>1. ASSUME NEW u \in Threads, pc[u] = "return" PROVE op[u].cb # l
    <3>1. home[op[u].cb] = op[u].var
      BY <1>2, <2>1 DEF NewListener
    <3>2. op[u].var # v
      BY <1>1, <1>2, <2>1 DEF Apart, Adding
    <3> QED
      BY <1>4, <3>1, <3>2
  <2>2. id[l] # 0
    BY <1>1, <1>2, <1>4, <2>1 DEF JoinedFacts
  <2>3. id[l] \in Ids
    <3>1. id \in [Listeners -> {0} \cup Ids]
      BY DEF Base, TypeOK
    <3> QED
      BY <2>2, <3>1
  <2>4. cbs_[v][id[l]] = l /\ l # NULL
    BY <1>1, <1>2, <1>4, <2>2, ConfigVarAssumption DEF IdsFind
  <2> QED
    BY <1>1, <1>2, <2>3, <2>4 DEF PassedAreTold
<1> QED
  BY <1>1, <1>3, <1>4, ConfigVarAssumption DEF Seen!AllKnow

(* Who may write meets no change, or one that everybody has been told.     *)
LEMMA MayLeave ==
  ASSUME Base, SetterFacts, AdderFacts, ToldFacts, JoinedFacts, Promises \subseteq duties,
         NEW v \in Vars, CanWrite(v)
  PROVE  Coming(v) = NULL \/ Seen!AllKnow(v)
<1>1. CASE \A t \in Threads : ~Setting(t, v)
  BY <1>1, PromisedFacts, ComingValue
<1>2. ASSUME NEW t \in Threads, Setting(t, v) PROVE Seen!AllKnow(v)
  <2>1. pc[t] = "store" /\ op[t].var = v
    BY <1>2 DEF Setting, CanWrite, Base, LockFacts, HoldsLock, Notifying
  <2> QED
    BY <2>1, AllKnowAtStore
<1> QED
  BY <1>1, <1>2

(* A change is announced.                                                  *)
LEMMA SetValueAnnounces ==
  ASSUME Base, SetterFacts, "one setter" \in duties,
         NEW t \in Threads, NEW v \in Vars, NEW x \in Values, SetValue(t, v, x)
  PROVE  Seen!Announce(v, x)
<1>1. /\ pc[t] = "idle" /\ pc' = [pc EXCEPT ![t] = "notify"] /\ x # val_[v]
      /\ \A u \in Threads : ~Setting(u, v)
      /\ UNCHANGED <<val_, home, told>>
  BY DEF SetValue, ValAtNotify, OneSetter
<1>2. /\ op'[t].var = v /\ op'[t].new = x
      /\ \A u \in Threads \ {t} : op'[u] = op[u] /\ pc'[u] = pc[u]
  <2>1. Fields(t, v, x, val_[v], Registered(v), NULL, 0)
    BY StepFields
  <2>2. op'[t].var = v /\ op'[t].new = x
    BY <2>1 DEF Fields
  <2> QED
    BY <2>2, OnlyOwnCall DEF Call
<1>3. Coming(v) = NULL
  BY <1>1, ComingValue
<1>4. pc'[t] = "notify"
  BY <1>1 DEF Base, TypeOK
<1>5. Coming(v)' = x
  <2>1. {op'[u].new : u \in {w \in Threads : Setting(w, v)'}} = {x}
    <3>1. \A u \in Threads : Setting(u, v)' <=> u = t
      BY <1>1, <1>2, <1>4 DEF Setting
    <3> QED
      BY <1>2, <3>1
  <2> QED
    BY <2>1 DEF Coming
<1>6. ASSUME NEW w \in Vars \ {v} PROVE Coming(w)' = Coming(w)
  <2>1. \A u \in Threads : Setting(u, w)' <=> Setting(u, w)
    BY <1>1, <1>2, <1>4, <1>6 DEF Setting
  <2>2. \A u \in Threads : Setting(u, w) => op'[u].new = op[u].new
    BY <1>1, <1>2 DEF Setting
  <2> QED
    BY <2>1, <2>2, ComingKept
<1>7. [w \in Vars |-> Coming(w)]' = [[w \in Vars |-> Coming(w)] EXCEPT ![v] = x]
  BY <1>5, <1>6, OneComes
<1> QED
  BY <1>1, <1>3, <1>7 DEF Seen!Announce

(* A listener is told: its module is one of the variable's.                *)
LEMMA NotifyIsTell ==
  ASSUME Base, SetterFacts, AdderFacts, {"one setter", "one adder", "no throw"} \subseteq duties,
         NEW t \in Threads, Notify(t)
  PROVE  \E l \in Listeners : Seen!Tell(l)
<1> DEFINE i == First(op[t].todo)
           l == cbs_[op[t].var][i]
<1>1. /\ pc[t] = "notify" /\ i \in op[t].todo /\ UNCHANGED <<val_, home, pc>>
      /\ told' = [told EXCEPT ![l] = op[t].new]
      /\ op'[t].var = op[t].var /\ op'[t].new = op[t].new
      /\ \A u \in Threads \ {t} : op'[u] = op[u]
  <2>1. pc[t] = "notify" /\ UNCHANGED <<val_, home>>
    BY DEF Notify
  <2> QED
    BY <2>1, StepFields DEF Fields
<1>2. /\ op[t].var \in Vars /\ op[t].new \in Values /\ Setting(t, op[t].var)
      /\ op[t].todo \subseteq Registered(op[t].var)
  BY <1>1 DEF Base, LockFacts, HoldsLock, Notifying, Setting
<1>3. i \in Ids /\ l # NULL
  BY <1>1, <1>2 DEF Registered
<1>4. l \in Listeners
  <2>1. cbs_ \in [Vars -> [Ids -> Listeners \cup {NULL}]]
    BY DEF Base, TypeOK
  <2>2. l \in Listeners \cup {NULL}
    BY <1>2, <1>3, <2>1
  <2> QED
    BY <1>3, <2>2
<1>5. home[l] = op[t].var
  <2>1. EntriesKnown
    BY DEF AdderFacts
  <2>2. \A v \in Vars, j \in Ids : cbs_[v][j] # NULL => home[cbs_[v][j]] = v
    BY <2>1 DEF EntriesKnown
  <2> QED
    BY <1>2, <1>3, <2>2
<1>6. Coming(op[t].var) = op[t].new
  BY <1>2, ComingValue
<1>7. UNCHANGED [v \in Vars |-> Coming(v)]
  BY <1>1, NothingComes DEF InSet
<1> HIDE DEF l
<1> QED
  BY <1>1, <1>2, <1>4, <1>5, <1>6, <1>7, ConfigVarAssumption DEF Seen!Tell
(* The change takes effect.                                                *)
LEMMA StoreCommits ==
  ASSUME Base, SetterFacts, AdderFacts, ToldFacts, JoinedFacts, Promises \subseteq duties,
         NEW t \in Threads, Store(t)
  PROVE  \E v \in Vars : Seen!Commit(v)
<1>0. PICK v \in Vars : v = op[t].var
  BY AllKnowAtStore DEF Store
<1>1. /\ pc[t] = "store" /\ pc' = [pc EXCEPT ![t] = "idle"]
      /\ val_' = [val_ EXCEPT ![v] = op[t].new] /\ UNCHANGED <<home, told>>
  BY <1>0 DEF Store, Done
<1>2. \A u \in Threads \ {t} : op'[u] = op[u] /\ pc'[u] = pc[u]
  BY OnlyOwnCall DEF Step
<1>3. pc'[t] = "idle"
  BY <1>1 DEF Base, TypeOK
<1>4. op[t].new # NULL /\ Coming(v) = op[t].new /\ Seen!AllKnow(v)
  BY <1>0, <1>1, AllKnowAtStore
<1>5. \A u \in Threads : Setting(u, v) => u = t
  <2>1. \A u \in Threads : InSet(u) /\ InSet(t) /\ op[u].var = op[t].var => u = t
    BY PromisedFacts
  <2> QED
    BY <1>0, <1>1, <2>1 DEF Setting, InSet
<1>6. Coming(v)' = NULL
  <2>1. {u \in Threads : Setting(u, v)'} = {}
    BY <1>2, <1>3, <1>5 DEF Setting
  <2> QED
    BY <2>1 DEF Coming
<1>7. ASSUME NEW w \in Vars \ {v} PROVE Coming(w)' = Coming(w)
  <2>1. \A u \in Threads : Setting(u, w)' <=> Setting(u, w)
    BY <1>0, <1>1, <1>2, <1>3, <1>7 DEF Setting
  <2>2. \A u \in Threads : Setting(u, w) => op'[u].new = op[u].new
    BY <1>0, <1>2, <1>7 DEF Setting
  <2> QED
    BY <2>1, <2>2, ComingKept
<1>8. [w \in Vars |-> Coming(w)]' = [[w \in Vars |-> Coming(w)] EXCEPT ![v] = NULL]
  BY <1>6, <1>7, OneComes
<1>9. Seen!Commit(v)
  BY <1>1, <1>4, <1>8 DEF Seen!Commit
<1> QED
  BY <1>9

(* A listener joins, when nobody sets the variable.                        *)
LEMMA InsertJoins ==
  ASSUME Base, SetterFacts, AdderFacts, ToldFacts, Promises \subseteq duties,
         NEW t \in Threads, Insert(t)
  PROVE  \E l \in Listeners, v \in Vars : Seen!Join(l, v)
<1>1. /\ pc[t] = "insert" /\ pc' = [pc EXCEPT ![t] = "return"] /\ UNCHANGED <<op, val_>>
      /\ home' = [home EXCEPT ![op[t].cb] = op[t].var]
      /\ told' = [told EXCEPT ![op[t].cb] = val_[op[t].var]]
  BY DEF Insert
<1>2. op[t].cb \in Listeners /\ op[t].var \in Vars
  BY <1>1 DEF Base, LockFacts, HoldsLock, Adding
<1>3. home[op[t].cb] = NULL
  BY <1>1, PromisedFacts DEF NewListener
<1>4. Coming(op[t].var) = NULL
  <2>1. \A u \in Threads : ~Setting(u, op[t].var)
    BY <1>1, PromisedFacts DEF Apart, Adding, InSet, Setting
  <2> QED
    BY <2>1, PromisedFacts, ComingValue
<1>5. UNCHANGED [v \in Vars |-> Coming(v)]
  <2>1. \A u \in Threads \ {t} : pc'[u] = pc[u] /\ op'[u] = op[u]
    BY OnlyOwnCall DEF Step
  <2>2. ~InSet(t) /\ ~InSet(t)'
    BY <1>1 DEF InSet, Base, TypeOK
  <2> QED
    BY <2>1, <2>2, NothingComes
<1>6. Seen!Join(op[t].cb, op[t].var)
  BY <1>1, <1>2, <1>3, <1>4, <1>5 DEF Seen!Join
<1> QED
  BY <1>2, <1>6

(* Listeners leave, when nobody is being told of a change.                 *)
LEMMA RemovalIsLeave ==
  ASSUME Base, SetterFacts, AdderFacts, ToldFacts, JoinedFacts, Promises \subseteq duties,
         NEW t \in Threads,
         (\E l \in Listeners : DelListener(t, l)) \/ (\E v \in Vars : ClearListener(t, v))
  PROVE  \E v \in Vars, M \in SUBSET Listeners : Seen!Leave(v, M)
<1>1. UNCHANGED [v \in Vars |-> Coming(v)] /\ UNCHANGED <<val_, told>>
  <2>1. UNCHANGED <<pc, op, val_, told>>
    BY DEF DelListener, ClearListener
  <2> QED
    BY <2>1, NothingComes DEF InSet
<1>2. ASSUME NEW l \in Listeners, DelListener(t, l) PROVE Seen!Leave(home[l], {l})
  <2>1. /\ home[l] \in Vars /\ CanWrite(home[l])
        /\ home' = [home EXCEPT ![l] = "gone"] /\ home \in [Listeners -> Vars \cup {NULL, "gone"}]
    BY <1>2 DEF DelListener, Base, TypeOK
  <2>2. home' = [k \in Listeners |-> IF k \in {l} THEN "gone" ELSE home[k]]
    BY <2>1
  <2> QED
    BY <1>1, <2>1, <2>2, MayLeave DEF Seen!Leave
<1>3. ASSUME NEW v \in Vars, ClearListener(t, v)
      PROVE  Seen!Leave(v, {l \in Listeners : home[l] = v})
  <2>1. CanWrite(v) /\ home' = [l \in Listeners |-> IF home[l] = v THEN "gone" ELSE home[l]]
    BY <1>3 DEF ClearListener
  <2>2. home' = [k \in Listeners |-> IF k \in {l \in Listeners : home[l] = v} THEN "gone" ELSE home[k]]
    BY <2>1
  <2> QED
    BY <1>1, <2>1, <2>2, MayLeave DEF Seen!Leave
<1>4. CASE \E l \in Listeners : DelListener(t, l)
  <2>1. PICK l \in Listeners : DelListener(t, l)
    BY <1>4
  <2>2. home[l] \in Vars /\ {l} \in SUBSET Listeners
    BY <2>1 DEF DelListener
  <2> QED
    BY <1>2, <2>1, <2>2
<1>5. CASE \E v \in Vars : ClearListener(t, v)
  BY <1>3, <1>5
<1> QED
  BY <1>4, <1>5

(* Every step is one of NotifiedValue's or is not seen.                    *)
LEMMA SeenStep ==
  ASSUME Base, SetterFacts, AdderFacts, ToldFacts, JoinedFacts, Promises \subseteq duties, [Next]_vars
  PROVE  Seen!Next \/ UNCHANGED Seen!vars
<1>0. /\ {"one setter", "one adder", "quiet", "no throw"} \subseteq duties
      /\ pc \in [Threads -> {"idle", "notify", "reentered", "store", "stored_id", "insert", "return"}]
  BY PromisedFacts DEF Base, TypeOK
<1>1. CASE UNCHANGED vars
  BY <1>1 DEF vars, Seen!vars, Coming, Setting
<1>2. ASSUME NEW t \in Threads, Step(t) \/ CallBack(t) \/ Call(t)
      PROVE  Seen!Next \/ UNCHANGED Seen!vars
  <2>1. \A u \in Threads \ {t} : op'[u] = op[u] /\ pc'[u] = pc[u]
    BY <1>2, OnlyOwnCall
  <2>2. ASSUME UNCHANGED <<val_, home, told>>, InSet(t)' <=> InSet(t), InSet(t) => op' = op
        PROVE  UNCHANGED Seen!vars
    <3>1. UNCHANGED [v \in Vars |-> Coming(v)]
      BY <2>1, <2>2, NothingComes
    <3> QED
      BY <2>2, <3>1 DEF Seen!vars
  <2>3. ASSUME NEW v \in Vars, NEW x \in Values, SetValue(t, v, x) PROVE Seen!Next
    <3>1. Seen!Announce(v, x)
      BY <1>0, <2>3, SetValueAnnounces
    <3> QED
      BY <3>1 DEF Seen!Next
  <2>4. CASE Notify(t)
    BY <1>0, <2>4, NotifyIsTell DEF Seen!Next
  <2>5. CASE Store(t)
    BY <2>5, StoreCommits DEF Seen!Next
  <2>6. CASE Insert(t)
    BY <2>6, InsertJoins DEF Seen!Next
  <2>7. CASE (\E l \in Listeners : DelListener(t, l)) \/ (\E v \in Vars : ClearListener(t, v))
    BY <2>7, RemovalIsLeave DEF Seen!Next
  <2>8. CASE CallBack(t) \/ EndNotify(t)
    <3>1. UNCHANGED <<val_, home, told, op>> /\ InSet(t) /\ InSet(t)'
      BY <1>0, <2>8 DEF CallBack, EndNotify, InSet
    <3> QED
      BY <2>2, <3>1
  <2>9. CASE StoreId(t) \/ Return(t) \/ (\E v \in Vars, l \in Listeners : AddListener(t, v, l))
    <3>1. UNCHANGED <<val_, home, told>> /\ ~InSet(t) /\ ~InSet(t)'
      BY <1>0, <2>9 DEF StoreId, Return, AddListener, Done, InSet
    <3> QED
      BY <2>2, <3>1
  <2> QED
    BY <1>2, <2>3, <2>4, <2>5, <2>6, <2>7, <2>8, <2>9 DEF Step, Call
<1> QED
  BY <1>1, <1>2 DEF Next

(* SetValue, AddListener, DelListener and ClearListener (config.h:314-345) *)
(* together implement NotifiedValue in every step of a program that keeps  *)
(* its promises: a change takes effect only when every module of the       *)
(* variable has been told of it.                                           *)
THEOREM ChangesAreNotifiedTheorem == Spec => ChangesAreNotified
<1>1. Init => Seen!Init /\ JoinedFacts
  <2>1. ASSUME Init PROVE Seen!Init
    <3>1. \A v \in Vars : {t \in Threads : Setting(t, v)} = {}
      BY <2>1 DEF Init, Setting
    <3>2. \A v \in Vars : Coming(v) = NULL
      BY <3>1 DEF Coming
    <3> QED
      BY <2>1, <3>2 DEF Init, Seen!Init
  <2>2. Init => JoinedFacts
    BY ConfigVarAssumption DEF Init, JoinedFacts
  <2> QED
    BY <2>1, <2>2
<1>2. Base /\ SetterFacts /\ AdderFacts /\ ToldFacts /\ JoinedFacts /\ [Next]_vars
        => [AllDuties \ {"no reentry"} \subseteq duties => Seen!Next]_(Seen!vars)
  BY SeenStep DEF Promises
<1> QED
  BY <1>1, <1>2, JoinedStep, BaseInvariant, AdderInvariant, ToldInvariant, PTL
     DEF Spec, ChangesAreNotified

(* The promises never change, so that a program that keeps them at the     *)
(* beginning has NotifiedValue for good.                                   *)
THEOREM ConfigVarImplementsNotifiedValue == Spec => (Promises \subseteq duties => Seen!Spec)
<1>1. Base /\ [Next]_vars => duties' = duties
  BY OnlyOwnCall DEF Next, vars
<1>2. Base /\ Promises \subseteq duties /\ [Next]_vars => (Promises \subseteq duties)'
  BY <1>1
<1>3. (Promises \subseteq duties)
        /\ [AllDuties \ {"no reentry"} \subseteq duties => Seen!Next]_(Seen!vars)
        => [Seen!Next]_(Seen!vars)
  BY DEF Promises
<1> QED
  BY <1>2, <1>3, ChangesAreNotifiedTheorem, BaseInvariant, PTL DEF Spec, Seen!Spec, ChangesAreNotified
=============================================================================
