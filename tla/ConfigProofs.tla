---------------------------- MODULE ConfigProofs ----------------------------
(***************************************************************************)
(* Theorems about the registry of Config, for any number of threads, names *)
(* and types, all documents and any number of calls.                       *)
(***************************************************************************)
EXTENDS Config, FiniteSetTheorems, SequenceTheorems, WellFoundedInduction, TLAPS

(* The variables of the registry are functions; names hold numbers.        *)
Shapes ==
  /\ datas_ \in [Names -> Nat]
  /\ DOMAIN given = Names
  /\ DOMAIN pc = Threads /\ DOMAIN op = Threads

(* What was given out for a name is registered under it.                   *)
GivenFacts == \A n \in Names : \A v \in given[n] : v = datas_[n] /\ v # 0

(* The locals of Visit that has seen some of the variables.                *)
Visiting(before, seen) ==
  [doc |-> <<>>, todo |-> {}, before |-> before, alone |-> TRUE, var |-> 0, refused |-> {}, seen |-> seen]

(* A thread inside Visit has the read lock, and the names it remembers     *)
(* from its start are those that are registered.                           *)
VisitFacts ==
  \A t \in Threads : pc[t] = "visit" =>
    /\ t \in readers
    /\ op[t] = Visiting(Registered, op[t].seen)

RegistryInv == Shapes /\ GivenFacts /\ VisitFacts

(* The variables are made one after the other; each name that is           *)
(* registered is a valid one and has a variable of its own.                *)
IsMade(v) == DOMAIN var[v] = {"type", "val"} /\ var[v].type \in Types

VariableFacts ==
  /\ DOMAIN var = Variables
  /\ calls \in 0..MaxCalls
  /\ \E k \in 0..calls : \A v \in Variables : IF v <= k THEN IsMade(v) ELSE var[v].type = NULL
  /\ \A n \in Registered : ValidName(n) /\ datas_[n] \in Variables /\ IsMade(datas_[n])
  /\ \A m, n \in Registered : datas_[m] = datas_[n] => m = n

(* The load of a thread: what is left of its document is a last part of    *)
(* the nodes with valid keys, and its variable is that of the first one.   *)
Fields == {"doc", "todo", "before", "alone", "var", "refused", "seen"}

LoadFacts(t) ==
  /\ DOMAIN op[t] = Fields
  /\ Loading(t) =>
       /\ op[t].doc \in Docs /\ op[t].todo \subseteq AllNodes(op[t].doc)
       /\ \A i \in op[t].todo : \A j \in AllNodes(op[t].doc) : i < j => j \in op[t].todo
       /\ op[t].before \subseteq Registered /\ op[t].refused \cap op[t].todo = {}
       /\ pc[t] # "load" =>
            op[t].todo # {} /\ Node(t).key \in Registered /\ op[t].var = datas_[Node(t).key]
       /\ op[t].alone => \A u \in Threads : Loading(u) => u = t

(* The variable of the last node so far that counts for it has its value.  *)
Applied(t) ==
  \A i \in Effective(t) :
    LET key == op[t].doc[i].key
        v   == datas_[key]
    IN (\A j \in Effective(t) : j > i => op[t].doc[j].key # key)
         => var[v].val = FromStr(var[v].type, op[t].doc[i].text).val

(* Each variable holds a value of its type, the default one or what a text *)
(* of a document converts to.                                              *)
ValueFacts(ty, x) ==
  /\ IsValue(ty, x)
  /\ ty = "set<string>" /\ x # Default[ty] => \A s \in x : IsNode(s) \/ s = Empty

ValuesTyped == \A v \in Variables : var[v].type # NULL => ValueFacts(var[v].type, var[v].val)

LoadInv ==
  /\ VariableFacts
  /\ \A t \in Threads : LoadFacts(t) /\ (Loading(t) /\ op[t].alone => Applied(t))

-----------------------------------------------------------------------------
(* A new variable has a number that is not 0.                              *)
LEMMA NewIsANumber == New \in Nat \ {0}
<1>1. IsFiniteSet(Variables)
  BY ConfigAssumption, FS_Interval DEF Variables
<1>2. Made \in Nat
  <2>1. {v \in Variables : var[v].type # NULL} \subseteq Variables
    OBVIOUS
  <2> QED
    BY <1>1, <2>1, FS_Subset, FS_CardinalityType DEF Made
<1> QED
  BY <1>2 DEF New

(* Visit starts with nothing seen, and VisitNext adds to it.               *)
LEMMA VisitingUpdates ==
  ASSUME NEW B, NEW S, NEW T
  PROVE  /\ [NoOp EXCEPT !.before = B] = Visiting(B, {})
         /\ [Visiting(B, S) EXCEPT !.seen = T] = Visiting(B, T)
         /\ Visiting(B, S).before = B
<1> DEFINE Ops(b, s) == [doc : {<<>>}, todo : {{}}, before : {b}, alone : {TRUE},
                         var : {0}, refused : {{}}, seen : {s}]
<1>1. ASSUME NEW r \in Ops({}, {}) PROVE [r EXCEPT !.before = B] = Visiting(B, {})
  <2>1. [r EXCEPT !.before = B]
          = [doc |-> r.doc, todo |-> r.todo, before |-> B, alone |-> r.alone, var |-> r.var,
             refused |-> r.refused, seen |-> r.seen]
    OBVIOUS
  <2> QED
    BY <2>1 DEF Visiting
<1>2. ASSUME NEW r \in Ops(B, S) PROVE [r EXCEPT !.seen = T] = Visiting(B, T)
  <2>1. [r EXCEPT !.seen = T]
          = [doc |-> r.doc, todo |-> r.todo, before |-> r.before, alone |-> r.alone,
             var |-> r.var, refused |-> r.refused, seen |-> T]
    OBVIOUS
  <2> QED
    BY <2>1 DEF Visiting
<1>3. NoOp \in Ops({}, {}) /\ Visiting(B, S) \in Ops(B, S)
  BY DEF NoOp, Visiting
<1>4. Visiting(B, S).before = B
  BY DEF Visiting
<1> HIDE DEF Ops
<1> QED
  BY <1>1, <1>2, <1>3, <1>4

(* LookUp registers a name that is not there or leaves the registry alone, *)
(* and gives out what is registered; it waits for visitors to leave.       *)
LEMMA LookUpStep ==
  ASSUME Shapes, GivenFacts, NEW n \in Names, NEW ty \in Types, LookUp(n, ty)
  PROVE  /\ datas_' \in [Names -> Nat] /\ DOMAIN given' = Names
         /\ GivenFacts' /\ readers = {}
<1>1. readers = {}
  BY DEF LookUp, CanWrite
<1>2. CASE /\ Found(n) /\ given' = [given EXCEPT ![n] = @ \cup {datas_[n]}]
           /\ UNCHANGED datas_
  BY <1>1, <1>2 DEF Shapes, GivenFacts, Found
<1>3. CASE UNCHANGED <<datas_, given>>
  BY <1>1, <1>3 DEF Shapes, GivenFacts
<1>4. CASE /\ ~Found(n) /\ datas_' = [datas_ EXCEPT ![n] = New]
           /\ given' = [given EXCEPT ![n] = @ \cup {New}]
  <2>1. given[n] = {}
    BY <1>4 DEF GivenFacts, Found
  <2> QED
    BY <1>1, <1>4, <2>1, NewIsANumber DEF Shapes, GivenFacts
<1> QED
  BY <1>2, <1>3, <1>4 DEF LookUp

(* A step that neither registers nor gives out and moves one thread, which *)
(* does not visit afterwards, keeps the invariant.                         *)
LEMMA OtherStep ==
  ASSUME RegistryInv, NEW t \in Threads, UNCHANGED <<datas_, given>>,
         DOMAIN pc' = Threads, DOMAIN op' = Threads, pc'[t] # "visit",
         \A u \in Threads \ {t} :
           pc'[u] = pc[u] /\ (pc[u] = "visit" => op'[u] = op[u] /\ (u \in readers => u \in readers'))
  PROVE  RegistryInv'
<1>1. Shapes' /\ GivenFacts' /\ Registered' = Registered
  BY DEF RegistryInv, Shapes, GivenFacts, Registered
<1>2. VisitFacts'
  BY <1>1 DEF RegistryInv, VisitFacts
<1> QED
  BY <1>1, <1>2 DEF RegistryInv

(* Every step of a thread keeps the invariant.                             *)
LEMMA RegistryStep == RegistryInv /\ [Next]_vars => RegistryInv'
<1> SUFFICES ASSUME RegistryInv, [Next]_vars PROVE RegistryInv'
  OBVIOUS
<1> USE DEF Goto
<1>1. CASE UNCHANGED vars
  BY <1>1 DEF vars, RegistryInv, Shapes, GivenFacts, VisitFacts, Registered
<1>2. ASSUME NEW t \in Threads, NEW n \in Names, NEW ty \in Types,
             ClientLookUp(t, n, ty) \/ ListenerLookUp(t, n, ty)
      PROVE  RegistryInv'
  <2>1. /\ datas_' \in [Names -> Nat] /\ DOMAIN given' = Names /\ GivenFacts' /\ readers = {}
        /\ UNCHANGED op
    BY <1>2, LookUpStep DEF RegistryInv, ClientLookUp, ListenerLookUp
  <2>2. \A u \in Threads : pc[u] # "visit"
    BY <2>1 DEF RegistryInv, VisitFacts
  <2>3. DOMAIN pc' = Threads /\ \A u \in Threads : pc'[u] # "visit"
    BY <1>2, <2>2 DEF RegistryInv, Shapes, ClientLookUp, ListenerLookUp
  <2> QED
    BY <2>1, <2>3 DEF RegistryInv, Shapes, VisitFacts
<1>3. ASSUME NEW t \in Threads, NEW d \in Docs, LoadFromYaml(t, d) PROVE RegistryInv'
  <2>1. /\ UNCHANGED <<datas_, given, readers>> /\ pc' = [pc EXCEPT ![t] = "load"]
        /\ DOMAIN op' = Threads /\ \A u \in Threads \ {t} : ~Loading(u) => op'[u] = op[u]
    BY <1>3 DEF LoadFromYaml
  <2>2. DOMAIN pc' = Threads /\ pc'[t] = "load" /\ \A u \in Threads \ {t} : pc'[u] = pc[u]
    BY <2>1 DEF RegistryInv, Shapes
  <2> QED
    BY <2>1, <2>2, OtherStep DEF Loading
<1>4. ASSUME NEW t \in Threads,
             LookUpBase(t) \/ CallListener(t) \/ ListenerCalls(t) \/ ListenerEnd(t) \/ ListenerThrows(t)
               \/ FromString(t) \/ EndLoad(t)
      PROVE  RegistryInv'
  <2>1. /\ UNCHANGED <<datas_, given, readers>> /\ pc[t] # "visit"
        /\ pc' = pc \/ \E l \in {"found", "listener", "lookup", "store", "load", "idle"} : pc' = [pc EXCEPT ![t] = l]
    BY <1>4 DEF LookUpBase, LockAfterFind, CallListener, ListenerCalls, ListenerEnd, ListenerThrows,
                FromString, EndLoad, Done
  <2>2. DOMAIN op' = Threads /\ \A u \in Threads \ {t} : op'[u] = op[u]
    BY <1>4 DEF RegistryInv, Shapes, LookUpBase, CallListener, ListenerCalls, ListenerEnd, ListenerThrows,
                FromString, EndLoad, Done
  <2>3. DOMAIN pc' = Threads /\ pc'[t] # "visit" /\ \A u \in Threads \ {t} : pc'[u] = pc[u]
    BY <2>1 DEF RegistryInv, Shapes
  <2> QED
    BY <2>1, <2>2, <2>3, OtherStep
<1>5. ASSUME NEW t \in Threads, Visit(t) PROVE RegistryInv'
  <2>1. /\ UNCHANGED <<datas_, given>> /\ readers' = readers \cup {t}
        /\ pc' = [pc EXCEPT ![t] = "visit"]
        /\ op' = [op EXCEPT ![t] = Visiting(Registered, {})]
    BY <1>5, VisitingUpdates DEF Visit
  <2>2. Shapes' /\ GivenFacts' /\ Registered' = Registered
    BY <2>1 DEF RegistryInv, Shapes, GivenFacts, Registered
  <2>3. op'[t] = Visiting(Registered, op'[t].seen)
    BY <2>1 DEF RegistryInv, Shapes, Visiting
  <2>4. VisitFacts'
    BY <2>1, <2>2, <2>3 DEF RegistryInv, Shapes, VisitFacts
  <2> QED
    BY <2>2, <2>4 DEF RegistryInv
<1>6. ASSUME NEW t \in Threads, VisitNext(t) PROVE RegistryInv'
  <2>1. PICK n : op' = [op EXCEPT ![t].seen = op[t].seen \cup {n}]
    BY <1>6 DEF VisitNext
  <2>2. UNCHANGED <<datas_, given, readers, pc>> /\ pc[t] = "visit"
    BY <1>6 DEF VisitNext
  <2>3. Shapes' /\ GivenFacts' /\ Registered' = Registered
    BY <2>1, <2>2 DEF RegistryInv, Shapes, GivenFacts, Registered
  <2>4. op'[t] = Visiting(Registered, op'[t].seen)
    <3>1. op[t] = Visiting(Registered, op[t].seen)
      BY <2>2 DEF RegistryInv, VisitFacts
    <3>2. op'[t] = [op[t] EXCEPT !.seen = op[t].seen \cup {n}]
      BY <2>1 DEF RegistryInv, Shapes
    <3>3. op'[t] = Visiting(Registered, op[t].seen \cup {n})
      BY <3>1, <3>2, VisitingUpdates
    <3> QED
      BY <3>3 DEF Visiting
  <2>5. VisitFacts'
    BY <2>1, <2>2, <2>3, <2>4 DEF RegistryInv, Shapes, VisitFacts
  <2> QED
    BY <2>3, <2>5 DEF RegistryInv
<1>7. ASSUME NEW t \in Threads, EndVisit(t) PROVE RegistryInv'
  <2>1. /\ UNCHANGED <<datas_, given>> /\ readers' = readers \ {t}
        /\ pc' = [pc EXCEPT ![t] = "idle"] /\ op' = [op EXCEPT ![t] = NoOp]
    BY <1>7 DEF EndVisit, Done
  <2>2. /\ DOMAIN pc' = Threads /\ DOMAIN op' = Threads /\ pc'[t] = "idle"
        /\ \A u \in Threads \ {t} : pc'[u] = pc[u] /\ op'[u] = op[u]
    BY <2>1 DEF RegistryInv, Shapes
  <2> QED
    BY <2>1, <2>2, OtherStep
<1> QED
  BY <1>1, <1>2, <1>3, <1>4, <1>5, <1>6, <1>7 DEF Next, Step, Call

-----------------------------------------------------------------------------
(* The inductive invariant of the registry.                                *)
THEOREM RegistryInvariant == Spec => []RegistryInv
<1>1. Init => RegistryInv
  BY DEF Init, RegistryInv, Shapes, GivenFacts, VisitFacts
<1> QED
  BY <1>1, RegistryStep, PTL DEF Spec

(* LookUp always gives the variable that is registered under the name and  *)
(* that LoadFromYaml sets: it is never replaced.                           *)
THEOREM OneVariableTheorem == Spec => []OneVariable
<1>1. RegistryInv => OneVariable
  BY DEF RegistryInv, GivenFacts, OneVariable
<1> QED
  BY <1>1, RegistryInvariant, PTL

(* No variable is registered while Visit goes through them.                *)
THEOREM VisitIsStableTheorem == Spec => []VisitIsStable
<1>1. RegistryInv => VisitIsStable
  BY VisitingUpdates DEF RegistryInv, VisitFacts, VisitIsStable
<1> QED
  BY <1>1, RegistryInvariant, PTL

-----------------------------------------------------------------------------
(* The relation < on the numbers is well founded.                          *)
LEMMA Descent ==
  \E R : IsWellFoundedOn(R, Nat) /\ \A x, y \in Nat : x < y => <<x, y>> \in R
<1> DEFINE R == OpToRel(<, Nat)
<1>1. \A x, y \in Nat : x < y => <<x, y>> \in R
  BY DEF OpToRel
<1>2. IsWellFoundedOn(R, Nat)
  BY NatLessThanWellFounded
<1> HIDE DEF R
<1> QED
  BY <1>1, <1>2

(* A set of numbers has a least element.                                   *)
LEMMA LeastElement ==
  ASSUME NEW T \in SUBSET Nat, T # {}
  PROVE  Min(T) \in T /\ \A y \in T : Min(T) <= y
<1>1. PICK R : IsWellFoundedOn(R, Nat) /\ \A x, y \in Nat : x < y => <<x, y>> \in R
  BY Descent
<1>2. ASSUME NEW Q, IsWellFoundedOn(Q, Nat) PROVE \E x \in T : \A y \in T : ~(<<y, x>> \in Q)
  BY <1>2, WFMin, Zenon
<1>3. PICK x \in T : \A y \in T : ~(<<y, x>> \in R)
  BY <1>1, <1>2
<1>4. ASSUME NEW y \in T PROVE x <= y
  <2>1. CASE y < x
    BY <1>1, <1>3, <2>1
  <2> QED
    BY <2>1
<1>5. \E m \in T : \A y \in T : m <= y
  BY <1>4
<1> QED
  BY <1>5 DEF Min

(* The node that a load is at.                                             *)
LEMMA FirstNode ==
  ASSUME NEW t \in Threads, LoadFacts(t), Loading(t), op[t].todo # {}
  PROVE  /\ Min(op[t].todo) \in op[t].todo /\ \A y \in op[t].todo : Min(op[t].todo) <= y
         /\ Min(op[t].todo) \in DOMAIN op[t].doc /\ DOMAIN op[t].doc \subseteq Nat
         /\ Node(t) = op[t].doc[Min(op[t].todo)] /\ ValidName(Node(t).key)
         /\ [i \in DOMAIN Node(t).key |-> Lower[Node(t).key[i]]] = Node(t).key
<1>1. /\ op[t].doc \in Docs /\ op[t].todo \subseteq DOMAIN op[t].doc
      /\ \A i \in op[t].todo : ValidName(op[t].doc[i].key)
  BY DEF LoadFacts, AllNodes
<1>2. /\ DOMAIN op[t].doc \subseteq Nat
      /\ \A i \in DOMAIN op[t].doc : op[t].doc[i].key \in Seq(Parts)
  BY <1>1, ConfigAssumption DEF IsEntry
<1>3. Min(op[t].todo) \in op[t].todo /\ \A y \in op[t].todo : Min(op[t].todo) <= y
  BY <1>1, <1>2, LeastElement
<1>4. Node(t) = op[t].doc[Min(op[t].todo)]
  BY DEF Node
<1> DEFINE key == Node(t).key
<1>5. key \in Seq(Parts) /\ ValidName(key)
  BY <1>1, <1>2, <1>3, <1>4
<1>6. [i \in DOMAIN key |-> Lower[key[i]]] = key
  <2> HIDE DEF key
  <2>1. \A i \in DOMAIN key : Lower[key[i]] = key[i]
    BY <1>5, ConfigAssumption DEF ValidName
  <2>2. key = [i \in DOMAIN key |-> key[i]]
    BY <1>5
  <2> QED
    BY <2>1, <2>2
<1> QED
  BY <1>1, <1>2, <1>3, <1>4, <1>5, <1>6

(* A look-up keeps the variables that there are.                           *)
LEMMA LookUpVariables ==
  ASSUME Shapes, VariableFacts, NEW n \in Names, NEW ty \in Types, LookUp(n, ty)
  PROVE  /\ VariableFacts'
         /\ \A m \in Registered : m \in Registered' /\ datas_'[m] = datas_[m] /\ var'[datas_[m]] = var[datas_[m]]
<1>0. calls' = calls + 1 /\ calls \in Nat /\ calls < MaxCalls /\ MaxCalls \in Nat
  BY ConfigAssumption DEF LookUp, VariableFacts
<1>1. PICK k \in 0..calls : \A v \in Variables : IF v <= k THEN IsMade(v) ELSE var[v].type = NULL
  BY DEF VariableFacts
<1>2. CASE UNCHANGED <<datas_, var>>
  <2>1. k \in 0..calls' /\ \A v \in Variables : IF v <= k THEN IsMade(v)' ELSE var'[v].type = NULL
    BY <1>0, <1>1, <1>2 DEF IsMade
  <2>2. Registered' = Registered /\ \A v : IsMade(v)' <=> IsMade(v)
    BY <1>2 DEF Registered, IsMade
  <2>3. \E l \in 0..calls' : \A v \in Variables : IF v <= l THEN IsMade(v)' ELSE var'[v].type = NULL
    BY <2>1
  <2>4. DOMAIN var' = Variables /\ calls' \in 0..MaxCalls
    BY <1>0, <1>2 DEF VariableFacts
  <2>5. /\ \A m \in Registered' : ValidName(m) /\ datas_'[m] \in Variables /\ IsMade(datas_[m])'
        /\ \A m, p \in Registered' : datas_'[m] = datas_'[p] => m = p
    BY <1>2, <2>2 DEF VariableFacts
  <2> QED
    BY <1>2, <2>2, <2>3, <2>4, <2>5 DEF VariableFacts
<1>3. CASE /\ ~Found(n) /\ ValidName(n)
           /\ datas_' = [datas_ EXCEPT ![n] = New]
           /\ var' = [var EXCEPT ![New] = [type |-> ty, val |-> Default[ty]]]
  <2>1. New = k + 1
    <3>1. {v \in Variables : var[v].type # NULL} = 1..k
      BY <1>0, <1>1, ConfigAssumption DEF IsMade, Variables
    <3>2. Cardinality(1..k) = k
      BY <1>0, FS_Interval
    <3> QED
      BY <3>1, <3>2 DEF New, Made
  <2>2. k + 1 \in Variables /\ k \in Nat
    BY <1>0 DEF Variables
  <2>3. \A m \in Registered : datas_[m] \in Variables /\ datas_[m] <= k /\ m # n
    BY <1>1, <1>3, ConfigAssumption DEF VariableFacts, IsMade, Registered, Found
  <2>4. Registered' = Registered \cup {n} /\ datas_'[n] = k + 1
    BY <1>3, <2>1, <2>2 DEF Registered, Shapes
  <2>5. \A m \in Registered : datas_'[m] = datas_[m] /\ datas_[m] # k + 1
    BY <1>3, <2>2, <2>3 DEF Registered, Shapes, Variables
  <2>6. DOMAIN var' = Variables /\ \A v \in Variables : v # k + 1 => var'[v] = var[v]
    BY <1>3, <2>1 DEF VariableFacts
  <2>7. DOMAIN var'[k + 1] = {"type", "val"} /\ var'[k + 1].type \in Types
    BY <1>3, <2>1, <2>2 DEF VariableFacts
  <2>8. IsMade(k + 1)' /\ \A v \in Variables : v # k + 1 => (IsMade(v)' <=> IsMade(v))
    BY <2>6, <2>7 DEF IsMade
  <2>9. \E l \in 0..calls' : \A v \in Variables : IF v <= l THEN IsMade(v)' ELSE var'[v].type = NULL
    <3>1. k + 1 \in 0..calls'
      BY <1>0
    <3>2. \A v \in Variables : IF v <= k + 1 THEN IsMade(v)' ELSE var'[v].type = NULL
      BY <1>1, <2>2, <2>6, <2>8 DEF Variables
    <3> QED
      BY <3>1, <3>2
  <2>10. calls' \in 0..MaxCalls
    BY <1>0
  <2>11. ASSUME NEW m \in Registered' PROVE ValidName(m) /\ datas_'[m] \in Variables /\ IsMade(datas_[m])'
    <3> DEFINE M(x) == DOMAIN var'[x] = {"type", "val"} /\ var'[x].type \in Types
    <3>1. CASE m = n
      <4>1. ValidName(m) /\ datas_'[m] = k + 1 /\ M(k + 1)
        BY <1>3, <2>4, <2>7, <3>1
      <4> QED
        BY <2>2, <4>1 DEF IsMade
    <3>2. CASE m # n
      <4>1. m \in Registered /\ datas_'[m] = datas_[m] /\ datas_[m] # k + 1
        BY <2>4, <2>5, <3>2
      <4>2. ValidName(m) /\ datas_[m] \in Variables /\ IsMade(datas_[m])
        BY <4>1 DEF VariableFacts
      <4>3. M(datas_[m])
        BY <2>6, <4>1, <4>2 DEF IsMade
      <4> QED
        BY <4>1, <4>2, <4>3 DEF IsMade
    <3> QED
      BY <3>1, <3>2
  <2>12. \A m, p \in Registered' : datas_'[m] = datas_'[p] => m = p
    BY <2>4, <2>5 DEF VariableFacts
  <2>13. VariableFacts'
    BY <2>6, <2>9, <2>10, <2>11, <2>12 DEF VariableFacts
  <2>14. \A m \in Registered : m \in Registered' /\ datas_'[m] = datas_[m] /\ var'[datas_[m]] = var[datas_[m]]
    BY <2>3, <2>4, <2>5, <2>6
  <2> QED
    BY <2>13, <2>14
<1> QED
  BY <1>2, <1>3 DEF LookUp

(* What a load knows remains true when other variables are made.           *)
LEMMA KeepLoad ==
  ASSUME NEW t \in Threads, LoadFacts(t), op'[t] = op[t],
         Loading(t)' <=> Loading(t), Loading(t) => (pc'[t] = "load" <=> pc[t] = "load"),
         \A m \in Registered : m \in Registered' /\ datas_'[m] = datas_[m],
         op[t].alone => \A u \in Threads : Loading(u)' => Loading(u)
  PROVE  LoadFacts(t)'
<1>1. Node(t)' = Node(t)
  BY DEF Node
<1>2. DOMAIN op'[t] = Fields
  BY DEF LoadFacts
<1>3. ASSUME Loading(t)
      PROVE  /\ op'[t].doc \in Docs /\ op'[t].todo \subseteq AllNodes(op'[t].doc)
             /\ \A i \in op'[t].todo : \A j \in AllNodes(op'[t].doc) : i < j => j \in op'[t].todo
             /\ op'[t].before \subseteq Registered' /\ op'[t].refused \cap op'[t].todo = {}
             /\ op'[t].alone => \A u \in Threads : Loading(u)' => u = t
  BY <1>3 DEF LoadFacts
<1>4. ASSUME Loading(t), pc'[t] # "load"
      PROVE  op'[t].todo # {} /\ Node(t) = Node(t)' /\ Node(t).key \in Registered'
             /\ op'[t].var = datas_'[Node(t).key]
  BY <1>1, <1>4 DEF LoadFacts
<1>5. \A d : AllNodes(d)' = AllNodes(d)
  BY Zenon DEF AllNodes
<1> QED
  BY <1>1, <1>2, <1>3, <1>4 DEF LoadFacts

(* A node that counts.                                                     *)
LEMMA EffectiveMember ==
  ASSUME NEW t, NEW i
  PROVE  i \in Effective(t) <=>
           /\ i \in DOMAIN op[t].doc /\ i \notin op[t].todo \cup op[t].refused
           /\ op[t].doc[i].key \in op[t].before
           /\ FromStr(var[datas_[op[t].doc[i].key]].type, op[t].doc[i].text).ok
BY Zenon DEF Effective

(* The same for the values a load has set, when no node more counts.       *)
LEMMA KeepApplied ==
  ASSUME NEW t \in Threads, LoadFacts(t), Loading(t), Applied(t),
         op'[t].doc = op[t].doc, op'[t].before = op[t].before,
         \A i \in DOMAIN op[t].doc : op[t].doc[i].key \in op[t].before =>
           (i \in op'[t].todo \cup op'[t].refused <=> i \in op[t].todo \cup op[t].refused),
         \A m \in Registered : datas_'[m] = datas_[m] /\ var'[datas_[m]] = var[datas_[m]]
  PROVE  Applied(t)'
<1>1. \A key \in op[t].before : datas_'[key] = datas_[key] /\ var'[datas_[key]] = var[datas_[key]]
  <2>1. op[t].before \subseteq Registered
    BY SMTT(30) DEF LoadFacts
  <2> QED
    BY <2>1
<1>2. \A i : i \in Effective(t)' <=>
           /\ i \in DOMAIN op'[t].doc /\ i \notin op'[t].todo \cup op'[t].refused
           /\ op'[t].doc[i].key \in op'[t].before
           /\ FromStr(var'[datas_'[op'[t].doc[i].key]].type, op'[t].doc[i].text).ok
  BY Zenon DEF Effective
<1>3. ASSUME NEW i PROVE i \in Effective(t)' <=> i \in Effective(t)
  <2> DEFINE key == op[t].doc[i].key
  <2>1. CASE i \in DOMAIN op[t].doc /\ key \in op[t].before
    <3>1. datas_'[key] = datas_[key] /\ var'[datas_[key]] = var[datas_[key]] /\ op'[t].doc = op[t].doc
      BY <1>1, <2>1
    <3>2. FromStr(var'[datas_'[key]].type, op'[t].doc[i].text) = FromStr(var[datas_[key]].type, op[t].doc[i].text)
      BY <3>1, Zenon
    <3>3. i \in op'[t].todo \cup op'[t].refused <=> i \in op[t].todo \cup op[t].refused
      BY <2>1, Zenon
    <3>4. i \in Effective(t)' <=>
            /\ i \notin op'[t].todo \cup op'[t].refused
            /\ FromStr(var'[datas_'[key]].type, op'[t].doc[i].text).ok
      BY <1>2, <2>1, <3>1, Zenon
    <3>5. i \in Effective(t) <=>
            i \notin op[t].todo \cup op[t].refused /\ FromStr(var[datas_[key]].type, op[t].doc[i].text).ok
      BY <2>1, EffectiveMember
    <3> QED
      BY <3>2, <3>3, <3>4, <3>5
  <2>2. CASE ~(i \in DOMAIN op[t].doc /\ key \in op[t].before)
    BY <1>2, <2>2, EffectiveMember, Zenon
  <2> QED
    BY <2>1, <2>2
<1>4. ASSUME NEW i \in Effective(t)',
             \A j \in Effective(t)' : j > i => op'[t].doc[j].key # op'[t].doc[i].key
      PROVE  var'[datas_'[op'[t].doc[i].key]].val
               = FromStr(var'[datas_'[op'[t].doc[i].key]].type, op'[t].doc[i].text).val
  <2> DEFINE key == op[t].doc[i].key
  <2>1. /\ i \in Effective(t) /\ key \in op[t].before /\ op'[t].doc = op[t].doc
        /\ \A j \in Effective(t) : j > i => op[t].doc[j].key # key
    BY <1>3, <1>4, EffectiveMember, Zenon
  <2>2. var'[datas_'[key]] = var[datas_[key]]
    BY <1>1, <2>1
  <2>3. var[datas_[key]].val = FromStr(var[datas_[key]].type, op[t].doc[i].text).val
    BY <2>1, Zenon DEF Applied
  <2> QED
    BY <2>1, <2>2, <2>3, Zenon
<1> QED
  BY <1>4, Zenon DEF Applied

(* Between the lookup of a node's variable and its value.                  *)
AtNode == {"found", "listener", "lookup", "store"}

(* Steps that make a variable at most: the loads go on.                    *)
LEMMA KeepLoads ==
  ASSUME Shapes, LoadInv, VariableFacts', op' = op,
         \A t \in Threads : pc'[t] = pc[t] \/ (pc[t] \in AtNode /\ pc'[t] \in AtNode),
         \A m \in Registered : m \in Registered' /\ datas_'[m] = datas_[m] /\ var'[datas_[m]] = var[datas_[m]]
  PROVE  LoadInv'
<1>1. ASSUME NEW t \in Threads
      PROVE  (Loading(t)' <=> Loading(t)) /\ (Loading(t) => (pc'[t] = "load" <=> pc[t] = "load"))
  BY DEF Loading, AtNode
<1>2. ASSUME NEW t \in Threads PROVE LoadFacts(t)'
  BY <1>1, KeepLoad DEF LoadInv
<1>3. ASSUME NEW t \in Threads, Loading(t)', op'[t].alone PROVE Applied(t)'
  BY <1>1, <1>3, KeepApplied DEF LoadInv
<1> QED
  BY <1>2, <1>3 DEF LoadInv

(* Steps of a thread that is not in a load behind them.                    *)
LEMMA OtherCalls ==
  ASSUME LoadInv, NEW t \in Threads, ~Loading(t)', UNCHANGED <<datas_, var>>,
         calls' \in 0..MaxCalls, calls' >= calls, DOMAIN op'[t] = Fields,
         \A u \in Threads \ {t} : op'[u] = op[u] /\ pc'[u] = pc[u]
  PROVE  LoadInv'
<1>1. Registered' = Registered
  BY DEF Registered
<1>2. \A u \in Threads \ {t} : Loading(u)' <=> Loading(u)
  BY DEF Loading
<1>3. VariableFacts'
  <2>1. PICK k \in 0..calls : \A v \in Variables : IF v <= k THEN IsMade(v) ELSE var[v].type = NULL
    BY DEF LoadInv, VariableFacts
  <2>2. k \in 0..calls' /\ \A v : IsMade(v)' <=> IsMade(v)
    BY DEF IsMade, LoadInv, VariableFacts
  <2>3. \E l \in 0..calls' : \A v \in Variables : IF v <= l THEN IsMade(v)' ELSE var'[v].type = NULL
    BY <2>1, <2>2
  <2>4. \A n \in Registered' : ValidName(n) /\ datas_'[n] \in Variables /\ IsMade(datas_[n])'
    BY <1>1 DEF LoadInv, VariableFacts, IsMade
  <2> QED
    BY <1>1, <2>3, <2>4 DEF LoadInv, VariableFacts
<1>4. ASSUME NEW u \in Threads PROVE LoadFacts(u)'
  <2>1. CASE u = t
    BY <2>1 DEF LoadFacts
  <2>2. CASE u # t
    BY <1>1, <1>2, <2>2, KeepLoad DEF LoadInv
  <2> QED
    BY <2>1, <2>2
<1>5. ASSUME NEW u \in Threads, Loading(u)', op'[u].alone PROVE Applied(u)'
  <2>1. u # t
    BY <1>5
  <2> QED
    BY <1>2, <1>5, <2>1, KeepApplied DEF LoadInv
<1> QED
  BY <1>3, <1>4, <1>5 DEF LoadInv

(* A step of a load: there is another only if neither is alone.            *)
LEMMA LoadStep ==
  ASSUME LoadInv, NEW t \in Threads, Loading(t), Loading(t)', UNCHANGED datas_, VariableFacts',
         \A u \in Threads \ {t} : op'[u] = op[u] /\ pc'[u] = pc[u],
         LoadFacts(t)', op'[t].alone = op[t].alone, op[t].alone => Applied(t)'
  PROVE  LoadInv'
<1>1. Registered' = Registered
  BY DEF Registered
<1>2. \A u \in Threads : Loading(u)' <=> Loading(u)
  BY DEF Loading
<1>3. ASSUME NEW u \in Threads PROVE LoadFacts(u)'
  <2>1. CASE u # t
    BY <1>1, <1>2, <2>1, KeepLoad DEF LoadInv
  <2> QED
    BY <2>1
<1>4. ASSUME NEW u \in Threads, Loading(u)', op'[u].alone PROVE Applied(u)'
  <2>1. CASE u # t
    BY <1>2, <1>4, <2>1 DEF LoadInv, LoadFacts
  <2>2. CASE u = t
    BY <1>4, <2>2
  <2> QED
    BY <2>1, <2>2
<1> QED
  BY <1>3, <1>4 DEF LoadInv

(* A load begins: what it has registered before has a valid key, and the   *)
(* loads of the others are not alone any more.                             *)
LEMMA BeginLoad ==
  ASSUME Shapes, LoadInv, NEW t \in Threads, NEW doc \in Docs, LoadFromYaml(t, doc)
  PROVE  LoadInv'
<1>1. /\ UNCHANGED <<datas_, var, given, readers>> /\ pc' = [pc EXCEPT ![t] = "load"]
      /\ calls' = calls + 1 /\ calls < MaxCalls /\ pc[t] = "idle"
      /\ op'[t] = [NoOp EXCEPT !.doc = doc, !.todo = AllNodes(doc), !.before = Registered,
                               !.alone = \A w \in Threads : ~Loading(w)]
      /\ DOMAIN op' = Threads
      /\ \A u \in Threads \ {t} : op'[u] = IF Loading(u) THEN [op[u] EXCEPT !.alone = FALSE] ELSE op[u]
  BY DEF LoadFromYaml, Goto
<1>2. /\ DOMAIN op'[t] = Fields /\ op'[t].doc = doc /\ op'[t].todo = AllNodes(doc)
      /\ op'[t].before = Registered /\ op'[t].refused = {} /\ (op'[t].alone <=> \A w \in Threads : ~Loading(w))
  BY <1>1 DEF NoOp, Fields
<1>3. /\ Registered' = Registered /\ pc'[t] = "load" /\ ~Loading(t)
      /\ \A u \in Threads \ {t} : pc'[u] = pc[u] /\ (Loading(u)' <=> Loading(u))
  BY <1>1 DEF Registered, Loading, Shapes
<1>4. VariableFacts'
  <2>1. calls' \in 0..MaxCalls /\ calls \in Nat /\ calls' = calls + 1
    BY <1>1, ConfigAssumption DEF LoadInv, VariableFacts
  <2>2. PICK k \in 0..calls : \A v \in Variables : IF v <= k THEN IsMade(v) ELSE var[v].type = NULL
    BY DEF LoadInv, VariableFacts
  <2>3. k \in 0..calls' /\ \A v : IsMade(v)' <=> IsMade(v)
    BY <1>1, <2>1 DEF IsMade
  <2>4. \E l \in 0..calls' : \A v \in Variables : IF v <= l THEN IsMade(v)' ELSE var'[v].type = NULL
    BY <1>1, <2>2, <2>3
  <2>5. \A n \in Registered' : ValidName(n) /\ datas_'[n] \in Variables /\ IsMade(datas_[n])'
    BY <1>1, <1>3 DEF LoadInv, VariableFacts, IsMade
  <2> QED
    BY <1>1, <1>3, <2>1, <2>4, <2>5 DEF LoadInv, VariableFacts
<1>5. LoadFacts(t)'
  BY <1>2, <1>3 DEF LoadFacts, AllNodes
<1>6. ASSUME NEW u \in Threads \ {t} PROVE LoadFacts(u)' /\ (Loading(u) => ~op'[u].alone)
  <2>1. CASE Loading(u)
    <3>1. /\ DOMAIN op'[u] = Fields /\ op'[u].doc = op[u].doc /\ op'[u].todo = op[u].todo
          /\ op'[u].before = op[u].before /\ op'[u].var = op[u].var /\ ~op'[u].alone
          /\ op'[u].refused = op[u].refused
      BY <1>1, <2>1 DEF LoadInv, LoadFacts, Fields
    <3>2. Node(u)' = Node(u)
      BY <3>1 DEF Node
    <3>3. LoadFacts(u)
      BY DEF LoadInv
    <3>4. /\ op'[u].doc \in Docs /\ op'[u].todo \subseteq AllNodes(op'[u].doc)
          /\ \A i \in op'[u].todo : \A j \in AllNodes(op'[u].doc) : i < j => j \in op'[u].todo
          /\ op'[u].before \subseteq Registered' /\ op'[u].refused \cap op'[u].todo = {}
      BY <1>3, <2>1, <3>1, <3>3 DEF LoadFacts
    <3>5. pc'[u] # "load" => /\ op'[u].todo # {} /\ Node(u) = Node(u)' /\ Node(u).key \in Registered'
                             /\ op'[u].var = datas_'[Node(u).key]
      BY <1>1, <1>3, <2>1, <3>1, <3>2, <3>3 DEF LoadFacts
    <3>6. LoadFacts(u)'
      BY <3>1, <3>4, <3>5 DEF LoadFacts
    <3> QED
      BY <3>1, <3>6
  <2>2. CASE ~Loading(u)
    BY <1>1, <1>3, <2>2 DEF LoadInv, LoadFacts
  <2> QED
    BY <2>1, <2>2
<1>7. Applied(t)'
  <2>1. \A i \in DOMAIN doc \ AllNodes(doc) : doc[i].key \notin Registered
    BY DEF AllNodes, LoadInv, VariableFacts
  <2>2. \A i : i \notin Effective(t)'
    <3>1. \A i \in Effective(t)' :
            i \in DOMAIN op'[t].doc /\ i \notin op'[t].todo /\ op'[t].doc[i].key \in op'[t].before
      BY Zenon DEF Effective
    <3> QED
      BY <1>2, <2>1, <3>1
  <2> QED
    BY <2>2, Zenon DEF Applied
<1>8. \A u \in Threads : LoadFacts(u)' /\ (Loading(u)' /\ op'[u].alone => Applied(u)')
  BY <1>3, <1>5, <1>6, <1>7
<1> QED
  BY <1>4, <1>8 DEF LoadInv

(* What is left behind the first node.                                     *)
LEMMA RestFacts ==
  ASSUME NEW t \in Threads, LoadFacts(t), Loading(t), op[t].todo # {}
  PROVE  /\ Rest(t) \subseteq AllNodes(op[t].doc)
         /\ \A i \in Rest(t) : \A j \in AllNodes(op[t].doc) : i < j => j \in Rest(t)
         /\ \A i \in DOMAIN op[t].doc \ Rest(t) :
              i = Min(op[t].todo) \/ i \in DOMAIN op[t].doc \ op[t].todo
         /\ \A i \in DOMAIN op[t].doc \ op[t].todo :
              i \in DOMAIN op[t].doc \ Rest(t) /\ (i \in AllNodes(op[t].doc) => i < Min(op[t].todo))
         /\ Min(op[t].todo) \in DOMAIN op[t].doc \ Rest(t)
<1> DEFINE m == Min(op[t].todo)
<1>1. /\ m \in op[t].todo /\ \A y \in op[t].todo : m <= y
      /\ m \in DOMAIN op[t].doc /\ DOMAIN op[t].doc \subseteq Nat
  BY FirstNode
<1>2. op[t].todo \subseteq AllNodes(op[t].doc) /\ AllNodes(op[t].doc) \subseteq DOMAIN op[t].doc
  BY DEF LoadFacts, AllNodes
<1>3. Rest(t) = op[t].todo \ {m}
  BY DEF Rest
<1> HIDE DEF m
<1>4. ASSUME NEW i \in Rest(t), NEW j \in AllNodes(op[t].doc), i < j PROVE j \in Rest(t)
  <2>1. j \in op[t].todo
    BY <1>3, <1>4 DEF LoadFacts
  <2>2. j # m
    BY <1>1, <1>2, <1>3, <1>4
  <2> QED
    BY <1>3, <2>1, <2>2
<1>5. ASSUME NEW i \in AllNodes(op[t].doc), i \notin op[t].todo PROVE i < m
  <2>1. ~(m < i)
    BY <1>1, <1>5 DEF LoadFacts
  <2>2. i \in DOMAIN op[t].doc /\ m \in DOMAIN op[t].doc /\ i # m
    BY <1>1, <1>2, <1>5
  <2>3. i \in Nat /\ m \in Nat
    BY <1>1, <2>2
  <2> QED
    BY <2>1, <2>2, <2>3
<1> QED
  BY <1>1, <1>2, <1>3, <1>4, <1>5 DEF m

(* A node that is passed without a variable was not registered before, and *)
(* one that is refused does not count.                                     *)
LEMMA SkipNode ==
  ASSUME LoadInv, NEW t \in Threads, Loading(t), op[t].todo # {}, Applied(t), UNCHANGED <<datas_, var>>,
         op'[t].doc = op[t].doc, op'[t].todo = Rest(t), op'[t].before = op[t].before,
         \/ Node(t).key \notin op[t].before /\ op'[t].refused = op[t].refused
         \/ op'[t].refused = op[t].refused \cup {Min(op[t].todo)}
  PROVE  Applied(t)'
<1>1. LoadFacts(t)
  BY DEF LoadInv
<1> DEFINE m == Min(op[t].todo)
<1>2. Node(t) = op[t].doc[m]
  BY DEF Node
<1>3. m \in op[t].todo /\ Rest(t) = op[t].todo \ {m}
  BY <1>1, FirstNode DEF Rest
<1> HIDE DEF m
<1>4. \A i \in DOMAIN op[t].doc : op[t].doc[i].key \in op[t].before =>
        (i \in op'[t].todo \cup op'[t].refused <=> i \in op[t].todo \cup op[t].refused)
  BY <1>2, <1>3 DEF m
<1>5. \A n \in Registered : datas_'[n] = datas_[n] /\ var'[datas_[n]] = var[datas_[n]]
  OBVIOUS
<1> QED
  BY <1>1, <1>4, <1>5, KeepApplied

(* A node's text goes to its variable and to no other.                     *)
LEMMA SetNode ==
  ASSUME LoadInv, NEW t \in Threads, pc[t] \in {"found", "store"}, Applied(t), UNCHANGED datas_,
         var' = [var EXCEPT ![op[t].var].val = IF Value(t).ok THEN Value(t).val ELSE @],
         op'[t].doc = op[t].doc, op'[t].todo = Rest(t), op'[t].before = op[t].before,
         op'[t].refused = op[t].refused
  PROVE  Applied(t)' /\ \A v \in Variables : IsMade(v)' <=> IsMade(v) /\ var'[v].type = var[v].type
<1> DEFINE x == op[t].var
           m == Min(op[t].todo)
           d == op[t].doc
           Key(i) == op[t].doc[i].key
<1>1. LoadFacts(t) /\ Loading(t)
  BY DEF LoadInv, Loading
<1>2. op[t].todo # {} /\ Node(t).key \in Registered /\ x = datas_[Node(t).key]
  BY <1>1 DEF LoadFacts
<1>3. x \in Variables /\ IsMade(x) /\ DOMAIN var = Variables
  BY <1>2 DEF LoadInv, VariableFacts
<1>4. Node(t) = d[m] /\ m \in AllNodes(d) /\ m \in DOMAIN d
  BY <1>1, <1>2, FirstNode DEF LoadFacts
<1>5. /\ var'[x].type = var[x].type /\ DOMAIN var'[x] = DOMAIN var[x]
      /\ var'[x].val = IF Value(t).ok THEN Value(t).val ELSE var[x].val
      /\ \A v \in Variables : v # x => var'[v] = var[v]
  BY <1>3 DEF IsMade
<1>6. Value(t) = FromStr(var[x].type, d[m].text)
  BY <1>4 DEF Value
<1>7. \A v \in Variables : (IsMade(v)' <=> IsMade(v)) /\ var'[v].type = var[v].type
  BY <1>5 DEF IsMade
<1> HIDE DEF x, m, d
<1>8. /\ op'[t].doc = d /\ op'[t].todo = Rest(t) /\ op'[t].before = op[t].before /\ datas_' = datas_
      /\ Applied(t) /\ \A i : Key(i) = d[i].key
  BY DEF d
<1>9. /\ \A i \in DOMAIN d \ Rest(t) : i = m \/ i \in DOMAIN d \ op[t].todo
      /\ \A i \in DOMAIN d \ op[t].todo : i \in DOMAIN d \ Rest(t) /\ (i \in AllNodes(d) => i < m)
      /\ m \in DOMAIN d \ Rest(t)
  BY <1>1, <1>2, RestFacts DEF d, m
<1> HIDE DEF Key
<1>10. m \notin op[t].refused
  <2>1. m \in op[t].todo
    BY <1>1, <1>2, FirstNode DEF m
  <2> QED
    BY <1>1, <2>1 DEF LoadFacts
<1>11. \A key \in op[t].before : datas_[key] \in Variables
  BY <1>1 DEF LoadInv, LoadFacts, VariableFacts
<1>12. \A i : i \in Effective(t)' <=> i \in Effective(t) \/ (i = m /\ d[m].key \in op[t].before /\ Value(t).ok)
  <2>1. ASSUME NEW i
        PROVE  i \in Effective(t)' <=>
                 /\ i \in DOMAIN d /\ i \notin Rest(t) \cup op[t].refused /\ d[i].key \in op[t].before
                 /\ FromStr(var'[datas_[d[i].key]].type, d[i].text).ok
    <3>1. i \in Effective(t)' <=>
            /\ i \in DOMAIN op'[t].doc /\ i \notin op'[t].todo \cup op'[t].refused
            /\ op'[t].doc[i].key \in op'[t].before
            /\ FromStr(var'[datas_'[op'[t].doc[i].key]].type, op'[t].doc[i].text).ok
      BY Zenon DEF Effective
    <3> QED
      BY <1>8, <3>1, Zenon
  <2>2. ASSUME NEW i, d[i].key \in op[t].before
        PROVE  FromStr(var'[datas_[d[i].key]].type, d[i].text) = FromStr(var[datas_[d[i].key]].type, d[i].text)
    <3>1. var'[datas_[d[i].key]].type = var[datas_[d[i].key]].type
      BY <1>7, <1>11, <2>2
    <3> QED
      BY <3>1, Zenon
  <2>3. \A i : i \in Effective(t) <=>
           /\ i \in DOMAIN d /\ i \notin op[t].todo \cup op[t].refused /\ d[i].key \in op[t].before
           /\ FromStr(var[datas_[d[i].key]].type, d[i].text).ok
    BY EffectiveMember, Zenon DEF d
  <2>4. Value(t) = FromStr(var[datas_[d[m].key]].type, d[m].text)
    BY <1>2, <1>4, <1>6
  <2>5. m \in op[t].todo /\ Rest(t) = op[t].todo \ {m}
    BY <1>1, <1>2, FirstNode DEF m, Rest
  <2>6. ASSUME NEW i
        PROVE  i \in Effective(t)' <=> i \in Effective(t) \/ (i = m /\ d[m].key \in op[t].before /\ Value(t).ok)
    <3>1. CASE i = m
      <4>1. i \in DOMAIN d /\ i \notin Rest(t) \cup op[t].refused /\ i \in op[t].todo
        BY <1>4, <1>10, <2>5, <3>1
      <4>2. i \in Effective(t)' <=> d[m].key \in op[t].before /\ FromStr(var'[datas_[d[m].key]].type, d[m].text).ok
        BY <2>1, <3>1, <4>1
      <4>3. i \notin Effective(t)
        BY <2>3, <4>1
      <4> QED
        BY <2>2, <2>4, <3>1, <4>2, <4>3
    <3>2. CASE i # m
      <4>1. i \in Rest(t) \cup op[t].refused <=> i \in op[t].todo \cup op[t].refused
        BY <2>5, <3>2
      <4> QED
        BY <2>1, <2>2, <2>3, <3>2, <4>1, Zenon
    <3> QED
      BY <3>1, <3>2
  <2> QED
    BY <2>6, Zenon
<1>13. ASSUME NEW i \in Effective(t)', \A j \in Effective(t)' : j > i => d[j].key # d[i].key
       PROVE  var'[datas_[d[i].key]].val = FromStr(var'[datas_[d[i].key]].type, d[i].text).val
  <2>1. CASE i \in Effective(t)
    <3>1. /\ i \in DOMAIN d \ op[t].todo /\ d[i].key \in op[t].before /\ d[i].key \in Registered
          /\ \A j \in Effective(t) : j > i => d[j].key # d[i].key
      <4>1. i \in DOMAIN d \ op[t].todo /\ d[i].key \in op[t].before
        BY <2>1, EffectiveMember, Zenon DEF d
      <4>2. d[i].key \in Registered
        BY <1>1, <4>1 DEF LoadFacts
      <4> QED
        BY <1>12, <1>13, <4>1, <4>2
    <3>2. var[datas_[d[i].key]].val = FromStr(var[datas_[d[i].key]].type, d[i].text).val
      BY <1>8, <2>1, <3>1, Zenon DEF Applied, d
    <3>3. var'[datas_[d[i].key]].val = var[datas_[d[i].key]].val
      <4>1. CASE Value(t).ok /\ d[m].key \in op[t].before
        <5>1. m \in Effective(t)'
          BY <1>12, <4>1
        <5>2. i < m /\ m \in Nat /\ i \in Nat
          <6>1. ValidName(d[i].key)
            BY <3>1 DEF LoadInv, VariableFacts
          <6>2. i \in AllNodes(d)
            BY <3>1, <6>1 DEF AllNodes
          <6>3. DOMAIN d \subseteq Nat
            BY <1>1, <1>2, FirstNode DEF d
          <6> QED
            BY <1>4, <1>9, <3>1, <6>2, <6>3
        <5>3. d[m].key # d[i].key
          BY <1>13, <5>1, <5>2
        <5>4. datas_[d[i].key] # x
          BY <1>2, <1>4, <3>1, <5>3 DEF LoadInv, VariableFacts
        <5> QED
          BY <1>5, <1>11, <3>1, <5>4
      <4>2. CASE ~Value(t).ok
        <5>1. var'[x].val = var[x].val
          BY <1>5, <4>2
        <5> QED
          BY <1>5, <1>11, <3>1, <5>1
      <4>3. CASE d[m].key \notin op[t].before
        <5>1. d[m].key # d[i].key
          BY <3>1, <4>3
        <5>2. datas_[d[i].key] # x
          BY <1>2, <1>4, <3>1, <5>1 DEF LoadInv, VariableFacts
        <5> QED
          BY <1>5, <1>11, <3>1, <5>2
      <4> QED
        BY <4>1, <4>2, <4>3
    <3>4. var'[datas_[d[i].key]].type = var[datas_[d[i].key]].type
      BY <1>7, <1>11, <3>1
    <3> QED
      BY <3>2, <3>3, <3>4, Zenon
  <2>2. CASE i = m /\ Value(t).ok
    <3>1. datas_[d[i].key] = x
      BY <1>2, <1>4, <2>2
    <3> QED
      BY <1>5, <1>6, <2>2, <3>1
  <2> QED
    BY <1>12, <1>13, <2>1, <2>2
<1>14. Applied(t)'
  <2>1. op'[t].doc = d /\ datas_' = datas_
    BY <1>8
  <2> QED
    BY <1>13, <2>1, Zenon DEF Applied
<1> QED
  BY <1>7, <1>14

(* Steps that neither make nor set a variable.                             *)
LEMMA SameVariables ==
  ASSUME LoadInv, UNCHANGED <<datas_, var, calls>>
  PROVE  Registered' = Registered /\ VariableFacts'
<1>1. Registered' = Registered /\ \A v : IsMade(v)' <=> IsMade(v)
  BY DEF Registered, IsMade
<1>2. PICK k \in 0..calls : \A v \in Variables : IF v <= k THEN IsMade(v) ELSE var[v].type = NULL
  BY DEF LoadInv, VariableFacts
<1>3. \E l \in 0..calls' : \A v \in Variables : IF v <= l THEN IsMade(v)' ELSE var'[v].type = NULL
  BY <1>1, <1>2
<1>4. \A n \in Registered' : ValidName(n) /\ datas_'[n] \in Variables /\ IsMade(datas_[n])'
  BY <1>1 DEF LoadInv, VariableFacts, IsMade
<1> QED
  BY <1>1, <1>3, <1>4 DEF LoadInv, VariableFacts

(* A listener that throws: the load goes on behind the node, or ends.      *)
LEMMA ThrowStep ==
  ASSUME Shapes, LoadInv, NEW t \in Threads, ListenerThrows(t)
  PROVE  LoadInv'
<1>1. pc[t] = "listener" /\ UNCHANGED <<datas_, var, calls>>
  BY DEF ListenerThrows
<1>2. Loading(t) /\ LoadFacts(t) /\ DOMAIN op[t] = Fields /\ op[t].todo # {}
  BY <1>1 DEF Loading, LoadInv, LoadFacts
<1>3. Registered' = Registered /\ VariableFacts'
  BY <1>1, SameVariables
<1>4. CASE /\ op' = [op EXCEPT ![t].todo = Rest(t), ![t].var = 0,
                              ![t].refused = op[t].refused \cup {Min(op[t].todo)}]
           /\ pc' = [pc EXCEPT ![t] = "load"]
  <2>1. /\ DOMAIN op'[t] = Fields /\ op'[t].doc = op[t].doc /\ op'[t].todo = Rest(t)
        /\ op'[t].before = op[t].before /\ op'[t].alone = op[t].alone
        /\ op'[t].refused = op[t].refused \cup {Min(op[t].todo)}
    BY <1>2, <1>4 DEF Shapes, Fields
  <2>2. /\ Loading(t)' /\ pc'[t] = "load"
        /\ \A u \in Threads \ {t} : op'[u] = op[u] /\ pc'[u] = pc[u]
    BY <1>4 DEF Loading, Shapes
  <2>3. \A u \in Threads : Loading(u)' <=> Loading(u)
    BY <1>2, <2>2 DEF Loading
  <2>4. /\ op'[t].doc \in Docs /\ op'[t].todo \subseteq AllNodes(op'[t].doc)
        /\ \A i \in op'[t].todo : \A j \in AllNodes(op'[t].doc) : i < j => j \in op'[t].todo
        /\ op'[t].before \subseteq Registered'
        /\ op'[t].alone => \A u \in Threads : Loading(u)' => u = t
    BY <1>2, <1>3, <2>1, <2>3, RestFacts DEF LoadFacts
  <2>5. op'[t].refused \cap op'[t].todo = {}
    <3>1. op[t].refused \cap op[t].todo = {}
      BY <1>2 DEF LoadFacts
    <3> QED
      BY <2>1, <3>1 DEF Rest
  <2>6. LoadFacts(t)'
    BY <2>1, <2>2, <2>4, <2>5 DEF LoadFacts
  <2>7. op[t].alone => Applied(t)'
    BY <1>1, <1>2, <2>1, SkipNode DEF LoadInv
  <2> QED
    BY <1>1, <1>2, <1>3, <2>1, <2>2, <2>6, <2>7, LoadStep
<1>5. CASE pc' = [pc EXCEPT ![t] = "idle"] /\ op' = [op EXCEPT ![t] = NoOp]
  <2>1. ~Loading(t)' /\ DOMAIN op'[t] = Fields /\ \A u \in Threads \ {t} : op'[u] = op[u] /\ pc'[u] = pc[u]
    BY <1>5 DEF Loading, Shapes, NoOp, Fields
  <2>2. calls' \in 0..MaxCalls /\ calls' >= calls
    BY <1>1, ConfigAssumption DEF LoadInv, VariableFacts
  <2> QED
    BY <1>1, <2>1, <2>2, OtherCalls
<1> QED
  BY <1>4, <1>5 DEF ListenerThrows, Goto, Done

(* Every step of a thread keeps what is known of variables and loads.      *)
LEMMA LoadInvStep ==
  ASSUME Shapes, LoadInv, [Next]_vars
  PROVE  LoadInv'
<1> USE DEF Goto
<1>1. CASE UNCHANGED vars
  <2>1. VariableFacts'
    BY <1>1, SameVariables DEF vars
  <2>2. \A m \in Registered : m \in Registered' /\ datas_'[m] = datas_[m] /\ var'[datas_[m]] = var[datas_[m]]
    BY <1>1 DEF vars, Registered
  <2>3. op' = op /\ pc' = pc
    BY <1>1 DEF vars
  <2> QED
    BY <2>1, <2>2, <2>3, KeepLoads
<1>2. ASSUME NEW t \in Threads, NEW n \in Names, NEW ty \in Types,
             ClientLookUp(t, n, ty) \/ ListenerLookUp(t, n, ty)
      PROVE  LoadInv'
  <2>1. LookUp(n, ty) /\ op' = op
    BY <1>2 DEF ClientLookUp, ListenerLookUp
  <2>2. \A u \in Threads : pc'[u] = pc[u] \/ (pc[u] \in AtNode /\ pc'[u] \in AtNode)
    BY <1>2 DEF ClientLookUp, ListenerLookUp, Shapes, AtNode
  <2> QED
    BY <2>1, <2>2, LookUpVariables, KeepLoads DEF LoadInv
<1>3. ASSUME NEW t \in Threads, ListenerThrows(t) PROVE LoadInv'
  BY <1>3, ThrowStep
<1>4. ASSUME NEW t \in Threads, CallListener(t) \/ ListenerCalls(t) \/ ListenerEnd(t) PROVE LoadInv'
  <2>1. op' = op /\ UNCHANGED <<datas_, var, calls>>
    BY <1>4 DEF CallListener, ListenerCalls, ListenerEnd
  <2>2. \A u \in Threads : pc'[u] = pc[u] \/ (pc[u] \in AtNode /\ pc'[u] \in AtNode)
    BY <1>4 DEF CallListener, ListenerCalls, ListenerEnd, Shapes, AtNode
  <2>3. Registered' = Registered /\ VariableFacts'
    BY <2>1, SameVariables
  <2> QED
    BY <2>1, <2>2, <2>3, KeepLoads
<1>5. ASSUME NEW t \in Threads, NEW doc \in Docs, LoadFromYaml(t, doc) PROVE LoadInv'
  BY <1>5, BeginLoad
<1>6. ASSUME NEW t \in Threads, LookUpBase(t) PROVE LoadInv'
  <2> DEFINE key  == Node(t).key
             name == [i \in DOMAIN key |-> Lower[key[i]]]
             v    == IF name \in Names THEN datas_[name] ELSE 0
  <2>1. /\ pc[t] = "load" /\ op[t].todo # {} /\ UNCHANGED <<datas_, var, calls>>
        /\ \/ v = 0 /\ op' = [op EXCEPT ![t].todo = Rest(t)] /\ pc' = pc
           \/ v # 0 /\ op' = [op EXCEPT ![t].var = v] /\ pc' = [pc EXCEPT ![t] = "found"]
    BY <1>6 DEF LookUpBase
  <2>2. Loading(t) /\ LoadFacts(t) /\ DOMAIN op[t] = Fields
    BY <2>1 DEF Loading, LoadInv, LoadFacts
  <2>3. name = key
    BY <2>1, <2>2, FirstNode
  <2> HIDE DEF name
  <2>4. Loading(t)' /\ \A u \in Threads \ {t} : op'[u] = op[u] /\ pc'[u] = pc[u]
    BY <2>1, <2>2 DEF Loading, Shapes
  <2>5. Registered' = Registered /\ VariableFacts'
    BY <2>1, SameVariables
  <2>7. \A u \in Threads : Loading(u)' <=> Loading(u)
    BY <2>2, <2>4 DEF Loading
  <2>8. CASE v = 0
    <3>1. op' = [op EXCEPT ![t].todo = Rest(t)] /\ pc' = pc
      BY <2>1, <2>8
    <3>2. /\ DOMAIN op'[t] = Fields /\ op'[t].doc = op[t].doc /\ op'[t].todo = Rest(t)
          /\ op'[t].before = op[t].before /\ op'[t].alone = op[t].alone /\ op'[t].refused = op[t].refused
      BY <2>2, <3>1 DEF Shapes, Fields
    <3>3. LoadFacts(t)'
      <4>1. /\ op'[t].doc \in Docs /\ op'[t].todo \subseteq AllNodes(op'[t].doc)
            /\ \A i \in op'[t].todo : \A j \in AllNodes(op'[t].doc) : i < j => j \in op'[t].todo
            /\ op'[t].before \subseteq Registered' /\ pc'[t] = "load"
            /\ op'[t].alone => \A u \in Threads : Loading(u)' => u = t
        BY <2>1, <2>2, <2>5, <2>7, <3>1, <3>2, RestFacts DEF LoadFacts
      <4>2. op'[t].refused \cap op'[t].todo = {}
        BY <2>2, <3>2 DEF LoadFacts, Rest
      <4> QED
        BY <3>2, <4>1, <4>2 DEF LoadFacts
    <3>4. key \notin op[t].before
      <4>1. key \notin Registered
        BY <2>3, <2>8 DEF Registered
      <4> QED
        BY <2>2, <4>1 DEF LoadFacts
    <3>5. op[t].alone => Applied(t)'
      BY <2>1, <2>2, <3>2, <3>4, SkipNode DEF LoadInv
    <3> QED
      BY <2>1, <2>2, <2>4, <2>5, <3>2, <3>3, <3>5, LoadStep
  <2>9. CASE v # 0
    <3>1. op' = [op EXCEPT ![t].var = v] /\ pc' = [pc EXCEPT ![t] = "found"]
      BY <2>1, <2>9
    <3>2. /\ DOMAIN op'[t] = Fields /\ op'[t].doc = op[t].doc /\ op'[t].todo = op[t].todo
          /\ op'[t].before = op[t].before /\ op'[t].alone = op[t].alone /\ op'[t].var = v
          /\ op'[t].refused = op[t].refused
      BY <2>2, <3>1 DEF Shapes, Fields
    <3>3. Node(t)' = Node(t)
      BY <3>2 DEF Node
    <3>4. key \in Registered /\ v = datas_[key]
      BY <2>3, <2>9 DEF Registered
    <3>5. LoadFacts(t)'
      <4>1. /\ op'[t].doc \in Docs /\ op'[t].todo \subseteq AllNodes(op'[t].doc)
            /\ \A i \in op'[t].todo : \A j \in AllNodes(op'[t].doc) : i < j => j \in op'[t].todo
            /\ op'[t].before \subseteq Registered' /\ op'[t].refused \cap op'[t].todo = {}
            /\ op'[t].alone => \A u \in Threads : Loading(u)' => u = t
        BY <2>2, <2>5, <2>7, <3>2 DEF LoadFacts
      <4>2. op'[t].todo # {} /\ Node(t).key \in Registered' /\ op'[t].var = datas_'[Node(t).key]
        BY <2>1, <2>5, <3>2, <3>4
      <4> QED
        BY <3>2, <3>3, <4>1, <4>2 DEF LoadFacts
    <3>6. op[t].alone => Applied(t)'
      BY <2>1, <2>2, <3>2, KeepApplied DEF LoadInv
    <3> QED
      BY <2>1, <2>2, <2>4, <2>5, <3>2, <3>5, <3>6, LoadStep
  <2> QED
    BY <2>8, <2>9
<1>7. ASSUME NEW t \in Threads, FromString(t) PROVE LoadInv'
  <2>1. /\ pc[t] \in {"found", "store"} /\ UNCHANGED <<datas_, calls>>
        /\ var' = [var EXCEPT ![op[t].var].val = IF Value(t).ok THEN Value(t).val ELSE @]
        /\ op' = [op EXCEPT ![t].todo = Rest(t), ![t].var = 0] /\ pc' = [pc EXCEPT ![t] = "load"]
    BY <1>7 DEF FromString
  <2>2. Loading(t) /\ LoadFacts(t) /\ DOMAIN op[t] = Fields /\ op[t].todo # {}
    BY <2>1 DEF Loading, LoadInv, LoadFacts
  <2>3. /\ DOMAIN op'[t] = Fields /\ op'[t].doc = op[t].doc /\ op'[t].todo = Rest(t)
        /\ op'[t].before = op[t].before /\ op'[t].alone = op[t].alone /\ op'[t].refused = op[t].refused
    BY <2>1, <2>2 DEF Shapes, Fields
  <2>4. /\ Loading(t)' /\ \A u \in Threads \ {t} : op'[u] = op[u] /\ pc'[u] = pc[u]
        /\ pc'[t] = "load"
    BY <2>1 DEF Loading, Shapes
  <2>5. Registered' = Registered
    BY <2>1 DEF Registered
  <2>6. DOMAIN var' = Variables /\ \A v \in Variables : (IsMade(v)' <=> IsMade(v)) /\ var'[v].type = var[v].type
    <3>1. op[t].var \in Variables /\ IsMade(op[t].var) /\ DOMAIN var = Variables
      BY <2>1, <2>2 DEF LoadInv, VariableFacts, LoadFacts
    <3>2. /\ var'[op[t].var].type = var[op[t].var].type /\ DOMAIN var'[op[t].var] = DOMAIN var[op[t].var]
          /\ \A v \in Variables : v # op[t].var => var'[v] = var[v]
      BY <2>1, <3>1 DEF IsMade
    <3> QED
      BY <2>1, <3>1, <3>2 DEF IsMade
  <2>7. VariableFacts'
    <3>1. PICK k \in 0..calls : \A v \in Variables : IF v <= k THEN IsMade(v) ELSE var[v].type = NULL
      BY DEF LoadInv, VariableFacts
    <3>2. \E l \in 0..calls' : \A v \in Variables : IF v <= l THEN IsMade(v)' ELSE var'[v].type = NULL
      BY <2>1, <2>6, <3>1
    <3>3. \A n \in Registered' : ValidName(n) /\ datas_'[n] \in Variables /\ IsMade(datas_[n])'
      <4> DEFINE M(x) == DOMAIN var'[x] = {"type", "val"} /\ var'[x].type \in Types
      <4>1. \A x \in Variables : IsMade(x) => M(x)
        BY <2>6 DEF IsMade
      <4>2. \A n \in Registered' : ValidName(n) /\ datas_'[n] \in Variables /\ M(datas_'[n])
        BY <2>1, <2>5, <4>1 DEF LoadInv, VariableFacts
      <4> QED
        BY <4>2 DEF IsMade
    <3> QED
      BY <2>1, <2>5, <2>6, <3>2, <3>3 DEF LoadInv, VariableFacts
  <2>8. LoadFacts(t)'
    <3>1. \A u \in Threads : Loading(u)' <=> Loading(u)
      BY <2>2, <2>4 DEF Loading
    <3>2. /\ op'[t].doc \in Docs /\ op'[t].todo \subseteq AllNodes(op'[t].doc)
          /\ \A i \in op'[t].todo : \A j \in AllNodes(op'[t].doc) : i < j => j \in op'[t].todo
          /\ op'[t].before \subseteq Registered' /\ op'[t].refused \cap op'[t].todo = {}
          /\ op'[t].alone => \A u \in Threads : Loading(u)' => u = t
      BY <2>2, <2>3, <2>5, <3>1, RestFacts DEF LoadFacts, Rest
    <3> QED
      BY <2>3, <2>4, <3>2 DEF LoadFacts
  <2>9. op[t].alone => Applied(t)'
    BY <2>1, <2>2, <2>3, SetNode DEF LoadInv
  <2> QED
    BY <2>1, <2>2, <2>3, <2>4, <2>7, <2>8, <2>9, LoadStep
<1>8. ASSUME NEW t \in Threads, Visit(t) \/ VisitNext(t) \/ EndVisit(t) \/ EndLoad(t) PROVE LoadInv'
  <2>1. /\ UNCHANGED <<datas_, var>> /\ (calls' = calls \/ (calls < MaxCalls /\ calls' = calls + 1))
        /\ \/ pc' = pc /\ pc[t] = "visit"
           \/ pc' = [pc EXCEPT ![t] = "visit"]
           \/ pc' = [pc EXCEPT ![t] = "idle"]
        /\ DOMAIN op' = Threads /\ \A u \in Threads \ {t} : op'[u] = op[u]
    BY <1>8 DEF Visit, VisitNext, EndVisit, EndLoad, Done, Shapes
  <2>2. DOMAIN op'[t] = Fields
    <3>1. DOMAIN NoOp = Fields /\ DOMAIN [NoOp EXCEPT !.before = Registered] = Fields
      BY DEF NoOp, Fields
    <3>2. DOMAIN op[t] = Fields
      BY DEF LoadInv, LoadFacts
    <3>3. CASE VisitNext(t)
      BY <3>2, <3>3 DEF VisitNext, Shapes
    <3>4. CASE Visit(t) \/ EndVisit(t) \/ EndLoad(t)
      BY <3>1, <3>4 DEF Visit, EndVisit, EndLoad, Done, Shapes
    <3> QED
      BY <1>8, <3>3, <3>4
  <2>3. ~Loading(t)' /\ \A u \in Threads \ {t} : pc'[u] = pc[u]
    BY <2>1 DEF Loading, Shapes
  <2>4. calls' \in 0..MaxCalls /\ calls' >= calls
    BY <2>1, ConfigAssumption DEF LoadInv, VariableFacts
  <2> QED
    BY <2>1, <2>2, <2>3, <2>4, OtherCalls
<1> QED
  BY <1>1, <1>2, <1>3, <1>4, <1>5, <1>6, <1>7, <1>8 DEF Next, Step, Call

(* The inductive invariant of the variables and loads.                     *)
THEOREM LoadInvariant == Spec => []LoadInv
<1>1. Init => LoadInv
  <2> SUFFICES ASSUME Init PROVE LoadInv
    OBVIOUS
  <2>1. DOMAIN NoOp = Fields
    BY DEF NoOp, Fields
  <2>2. VariableFacts
    <3>1. DOMAIN var = Variables /\ calls \in 0..MaxCalls /\ 0 \in 0..calls /\ Registered = {}
      BY ConfigAssumption DEF Init, Registered
    <3>2. \A v \in Variables : ~(v <= 0) /\ var[v].type = NULL
      BY DEF Init, Variables
    <3>3. \E k \in 0..calls : \A v \in Variables : IF v <= k THEN IsMade(v) ELSE var[v].type = NULL
      BY <3>1, <3>2
    <3> QED
      BY <3>1, <3>3 DEF VariableFacts
  <2>3. \A t \in Threads : ~Loading(t) /\ DOMAIN op[t] = Fields
    BY <2>1 DEF Init, Loading
  <2> QED
    BY <2>2, <2>3 DEF LoadInv, LoadFacts
<1>2. Shapes /\ LoadInv /\ [Next]_vars => LoadInv'
  BY LoadInvStep
<1>3. RegistryInv => Shapes
  BY Zenon DEF RegistryInv
<1> QED
  BY <1>1, <1>2, <1>3, RegistryInvariant, PTL DEF Spec

(* LoadApplied: after LoadFromYaml, which ran alone, each variable that    *)
(* was registered before it has the value of the last node with its key,   *)
(* whatever its listeners have looked up and whichever nodes came before.  *)
THEOREM LoadAppliedTheorem == Spec => []LoadApplied
<1>1. LoadInv => LoadApplied
  <2> SUFFICES ASSUME LoadInv, NEW t \in Threads, pc[t] = "load", op[t].alone PROVE Applied(t)
    BY Zenon DEF LoadApplied, Applied
  <2> QED
    BY DEF LoadInv, Loading
<1> QED
  BY <1>1, LoadInvariant, PTL

-----------------------------------------------------------------------------
(* SetToSeq lists each element of a finite set once.                       *)
LEMMA ListedOnce ==
  ASSUME NEW S, IsFiniteSet(S)
  PROVE  /\ SetToSeq(S) \in Seq(S) /\ Len(SetToSeq(S)) \in Nat
         /\ DOMAIN SetToSeq(S) = 1..Len(SetToSeq(S))
         /\ \A i, j \in DOMAIN SetToSeq(S) : SetToSeq(S)[i] = SetToSeq(S)[j] => i = j
         /\ {SetToSeq(S)[i] : i \in DOMAIN SetToSeq(S)} = S
<1> DEFINE n == Cardinality(S)
           f == SetToSeq(S)
<1>1. n \in Nat /\ ExistsBijection(1..n, S)
  BY FS_CardinalityType
<1>2. \E g \in [1..n -> S] : IsInjective(g)
  BY <1>1 DEF ExistsBijection, Bijection, Injection, IsInjective
<1>3. f \in [1..n -> S] /\ IsInjective(f)
  BY <1>2 DEF SetToSeq
<1> HIDE DEF f
<1>4. f \in Injection(1..n, S) /\ DOMAIN f = 1..n /\ \A i, j \in 1..n : f[i] = f[j] => i = j
  BY <1>3 DEF Injection, IsInjective
<1>5. IsFiniteSet(1..n) /\ Cardinality(1..n) = n
  BY <1>1, FS_Interval
<1>6. f \in Surjection(1..n, S)
  BY <1>4, <1>5, FS_Injection
<1>7. \A x \in S : \E i \in 1..n : f[i] = x
  BY <1>6 DEF Surjection
<1>8. f \in Seq(S) /\ Len(f) = n
  BY <1>1, <1>3
<1> QED
  BY <1>1, <1>3, <1>4, <1>7, <1>8 DEF f

(* A conversion that succeeds, and one that does not.                      *)
LEMMA Outcomes == ~Error.ok /\ \A v : Some(v).ok /\ Some(v).val = v
BY DEF Some, Error

(* The node that a printed text is read as, and the empty text.            *)
LEMMA NodeText ==
  ASSUME NEW e, IsNode(e) \/ e = Empty
  PROVE  /\ IsString(e) /\ Load(e) = IF e = Empty THEN Some(Null) ELSE Some(e)
         /\ ToInt(e).ok => ToInt(e).val \in Int
<1>1. CASE IsNode(e)
  <2>1. "tag" \in DOMAIN e /\ e.tag # "raw" /\ e.tag # "bad" /\ ("int" \in DOMAIN e => e.int \in Int)
    BY <1>1 DEF IsNode
  <2>2. e # Empty
    <3>1. Empty.tag = "raw"
      BY DEF Empty, Raw
    <3> QED
      BY <2>1, <3>1
  <2>3. Load(e) = Some(e)
    BY <2>1 DEF Load
  <2>4. ToInt(e).ok => ToInt(e).val \in Int
    BY <2>1 DEF ToInt, Some, Error
  <2>5. IsString(e)
    BY <1>1, <2>1, <2>3 DEF IsString, Some
  <2> QED
    BY <2>2, <2>3, <2>4, <2>5
<1>2. CASE e = Empty
  <2>1. DOMAIN e = {"tag", "word", "node"} /\ e.tag = "raw" /\ e.word = "" /\ e.node = Null
    BY <1>2 DEF Empty, Raw
  <2>2. Load(e) = Some(Null) /\ IsNode(Null) /\ ToInt(e) = Error
    BY <2>1 DEF Load, IsNode, Null, ToInt
  <2>3. e = Raw(e.word, e.node)
    BY <1>2, <2>1 DEF Empty
  <2>4. IsString(e)
    BY <2>1, <2>2, <2>3, Outcomes DEF IsString
  <2> QED
    BY <1>2, <2>2, <2>4, Outcomes
<1> QED
  BY <1>1, <1>2

(* The elements of a container are printed nodes or nothing.               *)
LEMMA ElementsFacts ==
  ASSUME NEW n, IsList(n)
  PROVE  /\ \E k \in Nat : DOMAIN Elements(n) = 1..k
         /\ \A i \in DOMAIN Elements(n) : IsNode(Elements(n)[i]) \/ Elements(n)[i] = Empty
<1>1. CASE n.tag = "seq"
  <2>1. Elements(n) = n.seq /\ n.seq \in Seq(ToSet(n.seq)) /\ \A e \in ToSet(n.seq) : IsNode(e)
    BY <1>1 DEF Elements, IsList
  <2> QED
    BY <2>1, LenProperties DEF ToSet
<1>2. CASE n.tag = "map"
  <2>1. /\ Elements(n) = [i \in DOMAIN n.map |-> ValueAt(n.map, i - 1)]
        /\ n.map \in Seq(ToSet(n.map)) /\ \A e \in ToSet(n.map) : IsNode(e.node)
    BY <1>2 DEF Elements, IsList
  <2>2. Len(n.map) \in Nat /\ DOMAIN n.map = 1..Len(n.map)
    BY <2>1, LenProperties
  <2>3. \A j \in DOMAIN n.map : IsNode(n.map[j].node)
    BY <2>1 DEF ToSet
  <2>4. ASSUME NEW k PROVE IsNode(ValueAt(n.map, k)) \/ ValueAt(n.map, k) = Empty
    <3> DEFINE under == {j \in DOMAIN n.map : ToInt(n.map[j].key) = Some(k)}
    <3>1. under \in SUBSET Nat /\ under \subseteq DOMAIN n.map
      BY <2>2
    <3>2. ValueAt(n.map, k) = IF under = {} THEN Empty ELSE n.map[Min(under)].node
      BY DEF ValueAt
    <3> HIDE DEF under
    <3>3. CASE under # {}
      <4>1. Min(under) \in under
        BY <3>1, <3>3, LeastElement
      <4> QED
        BY <2>3, <3>1, <3>2, <3>3, <4>1
    <3> QED
      BY <3>2, <3>3
  <2> QED
    BY <2>1, <2>2, <2>4
<1>3. CASE n.tag \notin {"seq", "map"}
  <2>1. Elements(n) = <<>>
    BY <1>3 DEF Elements
  <2>2. DOMAIN <<>> = 1..0
    OBVIOUS
  <2> QED
    BY <2>1, <2>2
<1> QED
  BY <1>1, <1>2, <1>3

(* A vector of numbers, or of texts, that a text converts to.              *)
LEMMA ToVectorFacts ==
  ASSUME NEW x, Load(x).ok => IsList(Load(x).val)
  PROVE  /\ ToVector("int", x).ok => ToVector("int", x).val \in Seq(Int)
         /\ ToVector("string", x)
              = IF Load(x).ok THEN Some([i \in DOMAIN Elements(Load(x).val) |-> Elements(Load(x).val)[i]])
                ELSE Error
<1> DEFINE n == Load(x).val
<1>1. ASSUME ToVector("int", x).ok PROVE ToVector("int", x).val \in Seq(Int)
  <2> DEFINE es == [i \in DOMAIN Elements(n) |-> Scalar("int", Elements(n)[i])]
  <2>1. Load(x).ok /\ AllOk(es) /\ ToVector("int", x) = Some(Vals(es))
    BY <1>1 DEF ToVector, Error
  <2>2. PICK k \in Nat : DOMAIN Elements(n) = 1..k
    BY <2>1, ElementsFacts
  <2>3. \A i \in 1..k : IsNode(Elements(n)[i]) \/ Elements(n)[i] = Empty
    BY <2>1, <2>2, ElementsFacts
  <2>4. DOMAIN es = 1..k /\ \A i \in 1..k : es[i] = ToInt(Elements(n)[i])
    BY <2>2 DEF Scalar
  <2> HIDE DEF es, n
  <2>5. \A i \in 1..k : es[i].val \in Int
    BY <2>1, <2>3, <2>4, NodeText DEF AllOk
  <2>6. Vals(es) = [i \in 1..k |-> es[i].val]
    BY <2>4 DEF Vals
  <2>7. Vals(es) \in Seq(Int)
    BY <2>2, <2>5, <2>6
  <2> QED
    BY <2>1, <2>7 DEF Some
<1>2. ToVector("string", x) = IF Load(x).ok THEN Some([i \in DOMAIN Elements(n) |-> Elements(n)[i]]) ELSE Error
  <2> DEFINE es == [i \in DOMAIN Elements(n) |-> Scalar("string", Elements(n)[i])]
  <2>1. DOMAIN es = DOMAIN Elements(n) /\ \A i \in DOMAIN Elements(n) : es[i].ok /\ es[i].val = Elements(n)[i]
    BY DEF Scalar, ToText, Some
  <2>2. ToVector("string", x) = IF Load(x).ok /\ AllOk(es) THEN Some(Vals(es)) ELSE Error
    BY DEF ToVector
  <2> HIDE DEF es
  <2>3. Vals(es) = [i \in DOMAIN Elements(n) |-> Elements(n)[i]]
    BY <2>1 DEF Vals
  <2>4. AllOk(es)
    BY <2>1 DEF AllOk
  <2> QED
    BY <2>2, <2>3, <2>4
<1> QED
  BY <1>1, <1>2

(* The elements of a sequence are finitely many.                           *)
LEMMA FiniteRange ==
  ASSUME NEW n \in Nat, NEW f, f = [i \in 1..n |-> f[i]]
  PROVE  IsFiniteSet({f[i] : i \in 1..n})
<1> DEFINE T == {f[i] : i \in 1..n}
<1>1. f \in Surjection(1..n, T)
  <2>1. f \in [1..n -> T] /\ \A x \in T : \E i \in 1..n : f[i] = x
    OBVIOUS
  <2> HIDE DEF T
  <2> QED
    BY <2>1 DEF Surjection
<1>2. IsFiniteSet(1..n)
  BY FS_Interval
<1> HIDE DEF T
<1> QED
  BY <1>1, <1>2, FS_Surjection DEF T

(* A set of strings that a text converts to.                               *)
LEMMA ToSetFacts ==
  ASSUME NEW x, IsText(x), Load(x).ok
  PROVE  /\ ToSetOf("string", x) = Some(ToSet(Elements(Load(x).val)))
         /\ IsFiniteSet(ToSet(Elements(Load(x).val)))
         /\ \A s \in ToSet(Elements(Load(x).val)) : IsNode(s) \/ s = Empty
<1> DEFINE n == Load(x).val
           v == [i \in DOMAIN Elements(n) |-> Elements(n)[i]]
<1>1. IsList(n)
  BY DEF IsText, IsTree
<1>2. ToVector("string", x) = Some(v)
  BY <1>1, ToVectorFacts
<1>3. PICK k \in Nat : DOMAIN Elements(n) = 1..k
  BY <1>1, ElementsFacts
<1> HIDE DEF n
<1>4. ToSet(v) = ToSet(Elements(n)) /\ ToSet(v) = {v[i] : i \in 1..k}
  BY <1>3 DEF ToSet
<1>5. IsFiniteSet(ToSet(v))
  <2>1. v = [i \in 1..k |-> v[i]]
    BY <1>3
  <2> HIDE DEF v
  <2> QED
    BY <1>4, <2>1, FiniteRange
<1>6. \A s \in ToSet(Elements(n)) : IsNode(s) \/ s = Empty
  BY <1>1, ElementsFacts DEF ToSet
<1>7. ToSetOf("string", x) = Some(ToSet(v))
  <2> HIDE DEF v
  <2> QED
    BY <1>2, Outcomes DEF ToSetOf
<1> QED
  BY <1>4, <1>5, <1>6, <1>7 DEF n

(* What a text converts to is a value of the type.                         *)
LEMMA FromStrValue ==
  ASSUME NEW ty \in CastTypes, NEW x, IsText(x), FromStr(ty, x).ok
  PROVE  /\ IsValue(ty, FromStr(ty, x).val)
         /\ ty = "set<string>" => \A s \in FromStr(ty, x).val : IsNode(s) \/ s = Empty
<1>0. Load(x).ok => IsList(Load(x).val)
  BY DEF IsText, IsTree
<1>1. CASE ty = "int"
  <2>1. "int" \in DOMAIN x /\ FromStr(ty, x) = Some(x.int)
    BY <1>1 DEF FromStr, ToInt, Error
  <2>2. x.tag \notin {"raw", "bad"}
    BY <2>1 DEF IsText, IsString, Raw, Bad
  <2>3. Load(x) = Some(x)
    BY <2>2 DEF Load
  <2>4. IsNode(x)
    BY <2>3 DEF IsText, IsString, Some
  <2> QED
    BY <1>1, <2>1, <2>4 DEF IsNode, Some, IsValue
<1>2. CASE ty = "string"
  BY <1>2 DEF FromStr, ToText, Some, IsValue
<1>3. CASE ty = "vector<int>"
  BY <1>0, <1>3, ToVectorFacts DEF FromStr, IsValue
<1>4. CASE ty = "set<string>"
  <2>1. Load(x).ok
    <3>1. FromStr(ty, x) = ToSetOf("string", x) /\ ToSetOf("string", x).ok
      BY <1>4 DEF FromStr
    <3>2. ToVector("string", x).ok
      BY <3>1, Outcomes DEF ToSetOf
    <3> QED
      BY <1>0, <3>2, ToVectorFacts, Outcomes
  <2> DEFINE T == ToSet(Elements(Load(x).val))
  <2>2. ToSetOf("string", x) = Some(T) /\ IsFiniteSet(T) /\ \A s \in T : IsNode(s) \/ s = Empty
    BY <2>1, ToSetFacts
  <2> HIDE DEF T
  <2>3. \A s \in T : IsString(s)
    BY <2>2, NodeText
  <2> QED
    BY <1>4, <2>2, <2>3 DEF FromStr, IsValue, Some
<1>5. CASE ty = "map<vector<int>>"
  <2> DEFINE n       == Load(x)
             entries == IF n.val.tag = "map" THEN n.val.map ELSE <<>>
             es      == [i \in DOMAIN entries |-> ToVector("int", entries[i].node)]
             At(k)   == CHOOSE i \in DOMAIN entries :
                          entries[i].key = k /\ \A j \in 1..(i - 1) : entries[j].key # k
             keys    == {entries[i].key : i \in DOMAIN entries}
  <2>1. n.ok /\ AllOk(es) /\ FromStr(ty, x).val = [k \in keys |-> es[At(k)].val]
    BY <1>5, Zenon DEF FromStr, ToMap, Some, Error
  <2>2. PICK m \in Nat : DOMAIN entries = 1..m
    <3>1. CASE n.val.tag = "map"
      <4>1. entries = n.val.map /\ n.val.map \in Seq(ToSet(n.val.map))
        BY <1>0, <2>1, <3>1, Zenon DEF IsList
      <4> QED
        BY <4>1, LenProperties
    <3>2. CASE n.val.tag # "map"
      <4>1. entries = <<>> /\ DOMAIN <<>> = 1..0
        BY <3>2
      <4> QED
        BY <4>1
    <3> QED
      BY <3>1, <3>2
  <2>4. \A i \in 1..m : IsList(entries[i].node)
    <3>1. CASE n.val.tag = "map"
      BY <2>1, <2>2, <3>1, Zenon DEF IsText, IsTree, ToSet
    <3>2. CASE n.val.tag # "map"
      <4>1. DOMAIN entries = {}
        BY <3>2
      <4> QED
        BY <2>2, <4>1
    <3> QED
      BY <3>1, <3>2, Zenon
  <2> HIDE DEF entries, n
  <2>5. \A i \in 1..m : es[i].val \in Seq(Int)
    <3>1. \A i \in 1..m : es[i].ok /\ es[i] = ToVector("int", entries[i].node)
      BY <2>1, <2>2 DEF AllOk
    <3> HIDE DEF es
    <3>2. \A i \in 1..m : Load(entries[i].node) = Some(entries[i].node)
      <4>1. \A i \in 1..m : entries[i].node.tag \notin {"raw", "bad"}
        BY <2>4 DEF IsList, IsNode
      <4> QED
        BY <4>1 DEF Load
    <3>3. \A i \in 1..m : IsList(Load(entries[i].node).val)
      BY <2>4, <3>2, Outcomes
    <3> QED
      BY <3>1, <3>3, ToVectorFacts
  <2>6. ASSUME NEW k \in keys PROVE At(k) \in 1..m
    <3> DEFINE T == {i \in 1..m : entries[i].key = k}
    <3>1. T \in SUBSET Nat /\ T # {}
      BY <2>2
    <3>2. Min(T) \in T /\ \A y \in T : Min(T) <= y
      <4> HIDE DEF T
      <4> QED
        BY <3>1, LeastElement
    <3> DEFINE f == Min(T)
    <3> HIDE DEF f
    <3>3. f \in 1..m /\ entries[f].key = k /\ \A j \in 1..m : entries[j].key = k => f <= j
      BY <3>2 DEF f
    <3>4. \A j \in 1..(f - 1) : entries[j].key # k
      BY <3>3
    <3> QED
      BY <2>2, <3>3, <3>4
  <2>7. IsFiniteSet(keys)
    <3> DEFINE f == [i \in 1..m |-> entries[i].key]
    <3>1. keys = {f[i] : i \in 1..m} /\ f = [i \in 1..m |-> f[i]]
      BY <2>2
    <3> HIDE DEF f, keys
    <3> QED
      BY <3>1, FiniteRange
  <2> HIDE DEF At, keys, es
  <2>8. [k \in keys |-> es[At(k)].val] \in [keys -> Seq(Int)]
    BY <2>5, <2>6
  <2> QED
    BY <1>5, <2>1, <2>7, <2>8, Zenon DEF IsValue
<1> QED
  BY <1>1, <1>2, <1>3, <1>4, <1>5 DEF CastTypes

(* What is written of a sequence whose elements are all YAML: the nodes    *)
(* that they are read as.                                                  *)
LEMMA VectorText ==
  ASSUME NEW ty, NEW k \in Nat, NEW v, DOMAIN v = 1..k, \A i \in 1..k : Load(OfScalar(ty, v[i])).ok,
         NEW ns, ns = [i \in 1..k |-> Load(OfScalar(ty, v[i])).val]
  PROVE  OfVector(ty, v) = Some(Sq(ns)) /\ Load(Sq(ns)) = Some(Sq(ns)) /\ Elements(Sq(ns)) = ns
<1> DEFINE ps == [i \in DOMAIN v |-> Pushed(OfScalar(ty, v[i]))]
<1>1. OfVector(ty, v) = IF AllOk(ps) THEN Some(Sq(Vals(ps))) ELSE Error
  BY DEF OfVector
<1>2. DOMAIN ps = 1..k /\ \A i \in 1..k : ps[i] = Load(OfScalar(ty, v[i]))
  BY DEF Pushed
<1> HIDE DEF ps
<1>3. AllOk(ps) /\ Vals(ps) = ns
  BY <1>2 DEF AllOk, Vals
<1>4. Load(Sq(ns)) = Some(Sq(ns)) /\ Elements(Sq(ns)) = ns
  BY DEF Load, Elements, Sq
<1> QED
  BY <1>1, <1>3, <1>4

(* A vector of numbers, or of printed nodes, is read back.                 *)
LEMMA VectorRoundTrip ==
  /\ \A v \in Seq(Int) : /\ OfVector("int", v).ok /\ OfVector("int", v).val.tag = "seq"
                         /\ ToVector("int", OfVector("int", v).val) = Some(v)
  /\ \A S : \A v \in Seq(S) :
       (\A i \in DOMAIN v : IsNode(v[i])) =>
         OfVector("string", v).ok /\ ToVector("string", OfVector("string", v).val) = Some(v)
<1>1. ASSUME NEW ty, NEW k \in Nat, NEW v, DOMAIN v = 1..k, v = [i \in 1..k |-> v[i]],
             \A i \in 1..k : /\ Load(OfScalar(ty, v[i])).ok
                             /\ Scalar(ty, Load(OfScalar(ty, v[i])).val) = Some(v[i])
      PROVE  /\ OfVector(ty, v).ok /\ OfVector(ty, v).val.tag = "seq"
             /\ ToVector(ty, OfVector(ty, v).val) = Some(v)
  <2> DEFINE ns == [i \in 1..k |-> Load(OfScalar(ty, v[i])).val]
             x  == Sq(ns)
             es == [i \in DOMAIN Elements(Load(x).val) |-> Scalar(ty, Elements(Load(x).val)[i])]
  <2>1. OfVector(ty, v) = Some(x) /\ Load(x) = Some(x) /\ Elements(x) = ns /\ x.tag = "seq"
    <3>1. x = Sq(ns) /\ x.tag = "seq" /\ ns = [i \in 1..k |-> Load(OfScalar(ty, v[i])).val]
      BY DEF Sq
    <3> HIDE DEF ns, x
    <3> QED
      BY <1>1, <3>1, VectorText
  <2>2. DOMAIN ns = 1..k /\ \A i \in 1..k : Scalar(ty, ns[i]) = Some(v[i])
    BY <1>1
  <2>3. ToVector(ty, x) = IF Load(x).ok /\ AllOk(es) THEN Some(Vals(es)) ELSE Error
    BY DEF ToVector
  <2> HIDE DEF ns, x
  <2>4. Load(x).ok /\ DOMAIN es = 1..k /\ \A i \in 1..k : es[i] = Some(v[i])
    BY <2>1, <2>2 DEF Some
  <2> HIDE DEF es
  <2>5. AllOk(es)
    BY <2>4 DEF AllOk, Some
  <2>6. Vals(es) = v
    <3>1. Vals(es) = [i \in 1..k |-> v[i]]
      BY <2>4 DEF Vals, Some
    <3> QED
      BY <1>1, <3>1
  <2>7. OfVector(ty, v).ok /\ OfVector(ty, v).val = x
    BY <2>1 DEF Some
  <2> QED
    BY <2>1, <2>3, <2>4, <2>5, <2>6, <2>7
<1>2. ASSUME NEW v \in Seq(Int)
      PROVE  /\ OfVector("int", v).ok /\ OfVector("int", v).val.tag = "seq"
             /\ ToVector("int", OfVector("int", v).val) = Some(v)
  <2>1. Len(v) \in Nat /\ DOMAIN v = 1..Len(v) /\ v = [i \in 1..Len(v) |-> v[i]]
    BY LenProperties
  <2>2. ASSUME NEW z PROVE Load(Number(z)) = Some(Number(z)) /\ ToInt(Number(z)) = Some(z)
    BY DEF Load, Number, ToInt
  <2>3. \A z : Load(OfScalar("int", z)).ok /\ Scalar("int", Load(OfScalar("int", z)).val) = Some(z)
    BY <2>2, Outcomes DEF OfScalar, OfInt, Scalar
  <2> QED
    BY <1>1, <2>1, <2>3
<1>3. ASSUME NEW S, NEW v \in Seq(S), \A i \in DOMAIN v : IsNode(v[i])
      PROVE  OfVector("string", v).ok /\ ToVector("string", OfVector("string", v).val) = Some(v)
  <2>1. Len(v) \in Nat /\ DOMAIN v = 1..Len(v) /\ v = [i \in 1..Len(v) |-> v[i]]
    BY LenProperties
  <2>2. ASSUME NEW z, IsNode(z)
        PROVE  Load(OfScalar("string", z)).ok /\ Scalar("string", Load(OfScalar("string", z)).val) = Some(z)
    <3>1. Load(z) = Some(z)
      BY <2>2 DEF Load, IsNode
    <3> QED
      BY <3>1, Outcomes DEF OfScalar, OfText, Scalar, ToText
  <2> QED
    BY <1>1, <1>3, <2>1, <2>2
<1> QED
  BY <1>2, <1>3

(* What is written of a value is read back as this value, when the strings *)
(* of a set are texts that yaml-cpp prints.                                *)
THEOREM RoundTripTheorem ==
  ASSUME NEW ty \in CastTypes, NEW x, IsValue(ty, x), ty = "set<string>" => \A s \in x : IsNode(s)
  PROVE  Again(ty, x) = Some(x)
<1>0. ASSUME NEW y, ToStr(ty, x) = Some(y) PROVE TextOf(ty, x) = y
  BY <1>0 DEF TextOf, Some
<1>1. CASE ty = "int"
  <2>1. ToStr(ty, x) = Some(Number(x))
    BY <1>1 DEF ToStr, OfInt
  <2>2. ToInt(Number(x)) = Some(x)
    BY DEF Number, ToInt
  <2> QED
    BY <1>0, <1>1, <2>1, <2>2 DEF Again, FromStr
<1>2. CASE ty = "string"
  <2>1. ToStr(ty, x) = Some(x)
    BY <1>2 DEF ToStr, OfText
  <2> QED
    BY <1>0, <1>2, <2>1 DEF Again, FromStr, ToText
<1>3. CASE ty = "vector<int>"
  <2>1. ToStr(ty, x) = OfVector("int", x) /\ x \in Seq(Int)
    BY <1>3 DEF ToStr, IsValue
  <2>2. TextOf(ty, x) = OfVector("int", x).val
    BY <2>1, VectorRoundTrip DEF TextOf
  <2> QED
    BY <1>3, <2>1, <2>2, VectorRoundTrip DEF Again, FromStr
<1>4. CASE ty = "set<string>"
  <2> DEFINE s == SetToSeq(x)
  <2>1. IsFiniteSet(x) /\ \A e \in x : IsNode(e)
    BY <1>4 DEF IsValue
  <2>2. s \in Seq(x) /\ {s[i] : i \in DOMAIN s} = x /\ \A i \in DOMAIN s : IsNode(s[i])
    BY <2>1, ListedOnce
  <2>3. ToStr(ty, x) = OfVector("string", s)
    BY <1>4 DEF ToStr, OfSet
  <2> HIDE DEF s
  <2>4. OfVector("string", s).ok /\ ToVector("string", OfVector("string", s).val) = Some(s)
    BY <2>2, VectorRoundTrip
  <2>5. TextOf(ty, x) = OfVector("string", s).val
    BY <2>3, <2>4 DEF TextOf
  <2>6. ToSet(s) = x
    BY <2>2 DEF ToSet
  <2>7. ToSetOf("string", OfVector("string", s).val) = Some(x)
    BY <2>4, <2>6, Outcomes DEF ToSetOf
  <2> QED
    BY <1>4, <2>5, <2>7 DEF Again, FromStr
<1>5. CASE ty = "map<vector<int>>"
  <2>1. IsFiniteSet(DOMAIN x) /\ x \in [DOMAIN x -> Seq(Int)]
    BY <1>5 DEF IsValue
  <2> DEFINE ks == SetToSeq(DOMAIN x)
             xs == [i \in DOMAIN ks |-> OfVector("int", x[ks[i]])]
             ns == [i \in DOMAIN ks |-> IF xs[i].ok THEN Pushed(xs[i].val) ELSE Error]
             z  == Map([i \in DOMAIN ks |-> [key |-> ks[i], node |-> ns[i].val]])
  <2>2. PICK k \in Nat : DOMAIN ks = 1..k
    BY <2>1, ListedOnce
  <2>3. /\ \A i, j \in 1..k : ks[i] = ks[j] => i = j
        /\ {ks[i] : i \in 1..k} = DOMAIN x
    BY <2>1, <2>2, ListedOnce
  <2>4. ToStr(ty, x) = IF AllOk(ns) THEN Some(z) ELSE Error
    BY <1>5 DEF ToStr, OfMap
  <2> HIDE DEF ks
  <2>5. DOMAIN ns = 1..k /\ \A i \in 1..k : ns[i] = Some(OfVector("int", x[ks[i]]).val)
    <3>1. ASSUME NEW i \in 1..k PROVE Pushed(OfVector("int", x[ks[i]]).val) = Some(OfVector("int", x[ks[i]]).val)
      <4>1. x[ks[i]] \in Seq(Int)
        BY <2>1, <2>3
      <4>2. OfVector("int", x[ks[i]]).val.tag = "seq"
        BY <4>1, VectorRoundTrip
      <4> QED
        BY <4>2 DEF Pushed, Load
    <3>2. \A i \in 1..k : x[ks[i]] \in Seq(Int) /\ OfVector("int", x[ks[i]]).ok
      BY <2>1, <2>3, VectorRoundTrip
    <3> QED
      BY <2>2, <3>1, <3>2
  <2> HIDE DEF ns, xs
  <2>6. AllOk(ns)
    BY <2>5 DEF AllOk, Some
  <2>7. /\ z.tag = "map" /\ DOMAIN z.map = 1..k
        /\ \A i \in 1..k : z.map[i].key = ks[i] /\ z.map[i].node = OfVector("int", x[ks[i]]).val
    BY <2>2, <2>5 DEF Map, Some
  <2> HIDE DEF z
  <2>8. TextOf(ty, x) = z /\ Load(z) = Some(z)
    BY <1>0, <2>4, <2>6, <2>7 DEF Load
  <2> DEFINE entries == IF Load(z).val.tag = "map" THEN Load(z).val.map ELSE <<>>
             es      == [i \in DOMAIN entries |-> ToVector("int", entries[i].node)]
             At(e)   == CHOOSE i \in DOMAIN entries :
                          entries[i].key = e /\ \A j \in 1..(i - 1) : entries[j].key # e
             keys    == {entries[i].key : i \in DOMAIN entries}
  <2>9. Again(ty, x)
          = IF Load(z).ok /\ AllOk(es) /\ ~(Load(z).val.tag = "seq" /\ Load(z).val.seq # <<>>)
            THEN Some([e \in keys |-> es[At(e)].val]) ELSE Error
    <3>1. Again(ty, x) = ToMap("int", z)
      BY <1>5, <2>8 DEF Again, FromStr
    <3> QED
      BY <3>1, Zenon DEF ToMap
  <2>10. Load(z).ok /\ Load(z).val = z /\ entries = z.map
    BY <2>7, <2>8 DEF Some
  <2> HIDE DEF entries
  <2>11. DOMAIN entries = 1..k /\ \A i \in 1..k : entries[i].key = ks[i] /\ es[i] = Some(x[ks[i]])
    <3>1. \A i \in 1..k : x[ks[i]] \in Seq(Int)
      BY <2>1, <2>3
    <3> QED
      BY <2>7, <2>10, <3>1, VectorRoundTrip
  <2>12. AllOk(es)
    <3>1. DOMAIN es = 1..k
      BY <2>11
    <3> HIDE DEF es
    <3> QED
      BY <2>11, <3>1 DEF AllOk, Some
  <2>13. keys = DOMAIN x
    <3>1. keys = {entries[i].key : i \in 1..k}
      BY <2>11
    <3>2. \A e : e \in {entries[i].key : i \in 1..k} <=> e \in {ks[i] : i \in 1..k}
      BY <2>11
    <3> HIDE DEF keys
    <3> QED
      BY <2>3, <3>1, <3>2
  <2>14. ASSUME NEW e \in keys PROVE es[At(e)].val = x[e]
    <3>1. PICK i \in 1..k : ks[i] = e
      BY <2>3, <2>13
    <3>2. entries[i].key = e /\ \A j \in 1..(i - 1) : entries[j].key # e
      BY <2>3, <2>11, <3>1
    <3>3. At(e) \in 1..k /\ entries[At(e)].key = e
      BY <2>11, <3>2
    <3> HIDE DEF At, es
    <3>4. es[At(e)] = Some(x[ks[At(e)]]) /\ ks[At(e)] = e
      BY <2>11, <3>3
    <3> QED
      BY <3>4 DEF Some
  <2>15. [e \in keys |-> es[At(e)].val] = x
    <3> HIDE DEF At, keys, es
    <3>1. [e \in keys |-> es[At(e)].val] = [e \in DOMAIN x |-> x[e]]
      BY <2>13, <2>14
    <3> QED
      BY <2>1, <3>1
  <2> HIDE DEF At, keys, es
  <2> QED
    BY <2>7, <2>9, <2>10, <2>12, <2>15
<1> QED
  BY <1>1, <1>2, <1>3, <1>4, <1>5 DEF CastTypes

(* Whatever strings are in a set, one round makes printed nodes of them:   *)
(* the next one changes nothing.                                           *)
THEOREM SettlesTheorem ==
  ASSUME NEW ty \in CastTypes, NEW x, IsValue(ty, x)
  PROVE  Again(ty, x).ok /\ Again(ty, Again(ty, x).val) = Again(ty, x)
<1>1. CASE ty # "set<string>"
  <2>1. Again(ty, x) = Some(x)
    BY <1>1, RoundTripTheorem
  <2> QED
    BY <2>1 DEF Some
<1>2. CASE ty = "set<string>"
  <2> DEFINE s == SetToSeq(x)
  <2>1. IsFiniteSet(x) /\ \A e \in x : IsString(e)
    BY <1>2 DEF IsValue
  <2>2. PICK k \in Nat : DOMAIN s = 1..k
    BY <2>1, ListedOnce
  <2>3. \A i \in 1..k : IsString(s[i])
    BY <2>1, <2>2, ListedOnce
  <2>4. ToStr(ty, x) = OfVector("string", s)
    BY <1>2 DEF ToStr, OfSet
  <2> HIDE DEF s
  <2>5. \E y : Again(ty, x) = Some(y) /\ IsFiniteSet(y) /\ \A e \in y : IsNode(e)
    <3>1. CASE \A i \in 1..k : Load(s[i]).ok
      <4> DEFINE ns == [i \in 1..k |-> Load(s[i]).val]
                 z  == Sq(ns)
      <4>1. \A i \in 1..k : OfScalar("string", s[i]) = s[i]
        BY DEF OfScalar, OfText
      <4>2. [i \in 1..k |-> Load(OfScalar("string", s[i])).val] = ns
        BY <4>1
      <4>3. OfVector("string", s) = Some(z) /\ Load(z) = Some(z) /\ Elements(z) = ns
        <5>1. \A i \in 1..k : Load(OfScalar("string", s[i])).ok
          BY <3>1, <4>1
        <5>2. z = Sq(ns)
          OBVIOUS
        <5> HIDE DEF ns, z
        <5> QED
          BY <2>2, <4>2, <5>1, <5>2, VectorText
      <4>4. ns \in Seq(ToSet(ns)) /\ \A e \in ToSet(ns) : IsNode(e)
        BY <2>3, <3>1 DEF ToSet, IsString
      <4>5. z.tag = "seq" /\ z.seq = ns /\ DOMAIN z = {"tag", "seq"}
        BY DEF Sq
      <4> HIDE DEF ns, z
      <4>6. IsText(z)
        <5>1. IsNode(z)
          BY <4>5 DEF IsNode
        <5>2. IsTree(z)
          BY <4>4, <4>5, <5>1 DEF IsTree, IsList
        <5>3. IsString(z)
          BY <5>1, NodeText
        <5> QED
          BY <4>3, <5>2, <5>3 DEF IsText, Some
      <4>7. TextOf(ty, x) = z
        BY <2>4, <4>3 DEF TextOf, Some
      <4>8. Load(z).ok /\ Load(z).val = z
        BY <4>3 DEF Some
      <4>9. Again(ty, x) = Some(ToSet(ns)) /\ IsFiniteSet(ToSet(ns))
        BY <1>2, <4>3, <4>6, <4>7, <4>8, ToSetFacts DEF Again, FromStr
      <4> QED
        BY <4>4, <4>9
    <3>2. CASE ~(\A i \in 1..k : Load(s[i]).ok)
      <4> DEFINE ps == [i \in DOMAIN s |-> Pushed(OfScalar("string", s[i]))]
      <4>1. ~AllOk(ps)
        BY <2>2, <3>2 DEF AllOk, Pushed, OfScalar, OfText
      <4>2. TextOf(ty, x) = Empty
        BY <2>4, <4>1 DEF OfVector, TextOf, Error
      <4>3. Load(Empty) = Some(Null) /\ Elements(Null) = <<>> /\ Null.tag = "null" /\ IsNode(Null)
        BY DEF Load, Empty, Raw, Elements, Null, IsNode
      <4>4. IsText(Empty)
        BY <4>3, NodeText DEF IsText, IsTree, IsList, Some
      <4>5. Load(Empty).ok /\ Load(Empty).val = Null
        BY <4>3 DEF Some
      <4>6. ToSetOf("string", Empty) = Some(ToSet(<<>>)) /\ ToSet(<<>>) = {}
        BY <4>3, <4>4, <4>5, ToSetFacts DEF ToSet
      <4>7. Again(ty, x) = Some({})
        BY <1>2, <4>2, <4>6 DEF Again, FromStr
      <4> QED
        BY <4>7, FS_EmptySet
    <3> QED
      BY <3>1, <3>2
  <2>6. PICK y : Again(ty, x) = Some(y) /\ IsFiniteSet(y) /\ \A e \in y : IsNode(e)
    BY <2>5
  <2>7. IsValue(ty, y)
    BY <1>2, <2>6, NodeText DEF IsValue
  <2>8. Again(ty, y) = Some(y)
    BY <2>6, <2>7, RoundTripTheorem
  <2> QED
    BY <2>6, <2>8 DEF Some
<1> QED
  BY <1>1, <1>2

-----------------------------------------------------------------------------
(* Every step keeps the values typed: LookUp stores a default value and    *)
(* FromString what a text converts to.                                     *)
LEMMA ValuesStep ==
  ASSUME Shapes, LoadInv, ValuesTyped, [Next]_vars
  PROVE  ValuesTyped'
<1>1. CASE UNCHANGED var
  BY <1>1 DEF ValuesTyped
<1>2. ASSUME NEW n \in Names, NEW ty \in Types, LookUp(n, ty) PROVE ValuesTyped'
  <2>1. CASE var' = [var EXCEPT ![New] = [type |-> ty, val |-> Default[ty]]]
    <3>1. ValueFacts(ty, Default[ty])
      BY ConfigAssumption DEF ValueFacts
    <3>2. \A v \in Variables :
            var'[v] = var[v] \/ (var'[v].type = ty /\ var'[v].val = Default[ty])
      BY <2>1 DEF LoadInv, VariableFacts
    <3> QED
      BY <3>1, <3>2 DEF ValuesTyped
  <2> QED
    BY <1>1, <1>2, <2>1 DEF LookUp
<1>3. ASSUME NEW t \in Threads, FromString(t) PROVE ValuesTyped'
  <2>1. /\ pc[t] \in {"found", "store"}
        /\ var' = [var EXCEPT ![op[t].var].val = IF Value(t).ok THEN Value(t).val ELSE @]
    BY <1>3 DEF FromString
  <2>2. Loading(t) /\ LoadFacts(t) /\ op[t].todo # {} /\ op[t].var \in Variables /\ IsMade(op[t].var)
    BY <2>1 DEF Loading, LoadInv, LoadFacts, VariableFacts
  <2>3. IsText(Node(t).text)
    <3>1. op[t].doc \in Docs
      BY <2>2 DEF LoadFacts
    <3>2. Node(t) = op[t].doc[Min(op[t].todo)] /\ Min(op[t].todo) \in DOMAIN op[t].doc
      BY <2>2, FirstNode
    <3> QED
      BY <3>1, <3>2, ConfigAssumption DEF IsEntry
  <2>4. /\ var'[op[t].var].type = var[op[t].var].type
        /\ var'[op[t].var].val = IF Value(t).ok THEN Value(t).val ELSE var[op[t].var].val
        /\ \A v \in Variables : v # op[t].var => var'[v] = var[v]
    BY <2>1, <2>2 DEF IsMade, LoadInv, VariableFacts
  <2>5. var[op[t].var].type \in CastTypes
    BY <2>2, ConfigAssumption DEF IsMade
  <2>6. Value(t).ok => ValueFacts(var[op[t].var].type, Value(t).val)
    BY <2>3, <2>5, FromStrValue DEF Value, ValueFacts
  <2> QED
    BY <2>4, <2>6 DEF ValuesTyped
<1>4. ASSUME NEW t \in Threads, Step(t) PROVE ValuesTyped'
  <2>1. CASE \E n \in Names, ty \in Types : ListenerLookUp(t, n, ty)
    BY <1>2, <2>1 DEF ListenerLookUp
  <2>2. CASE LookUpBase(t) \/ CallListener(t) \/ ListenerCalls(t) \/ ListenerEnd(t) \/ ListenerThrows(t)
          \/ EndLoad(t) \/ VisitNext(t) \/ EndVisit(t)
    BY <1>1, <2>2 DEF LookUpBase, CallListener, ListenerCalls, ListenerEnd, ListenerThrows, EndLoad, VisitNext,
                      EndVisit
  <2> QED
    BY <1>3, <1>4, <2>1, <2>2 DEF Step
<1>5. ASSUME NEW t \in Threads, Call(t) PROVE ValuesTyped'
  <2>1. CASE \E n \in Names, ty \in Types : ClientLookUp(t, n, ty)
    BY <1>2, <2>1 DEF ClientLookUp
  <2>2. CASE Visit(t) \/ \E doc \in Docs : LoadFromYaml(t, doc)
    BY <1>1, <2>2 DEF Visit, LoadFromYaml
  <2> QED
    BY <1>5, <2>1, <2>2 DEF Call
<1> QED
  BY <1>1, <1>4, <1>5 DEF Next, vars

(* TextRoundTrip: one round of ToString and FromString settles each        *)
(* variable, and one that was loaded from a document is settled, but for   *)
(* an empty string in a set.                                               *)
THEOREM TextRoundTripTheorem == Spec => []TextRoundTrip
<1>1. Init => ValuesTyped
  BY DEF Init, ValuesTyped
<1>2. Shapes /\ LoadInv /\ ValuesTyped /\ [Next]_vars => ValuesTyped'
  BY ValuesStep
<1>3. LoadInv /\ ValuesTyped => TextRoundTrip
  <2> SUFFICES ASSUME LoadInv, ValuesTyped, NEW v \in Variables, var[v].type # NULL
               PROVE  LET ty == var[v].type
                          x  == var[v].val
                      IN /\ Again(ty, x).ok /\ Again(ty, Again(ty, x).val) = Again(ty, x)
                         /\ x # Default[ty] /\ ~(ty = "set<string>" /\ Empty \in x) => Again(ty, x) = Some(x)
    BY DEF TextRoundTrip
  <2> DEFINE ty == var[v].type
             x  == var[v].val
  <2>1. ty \in CastTypes
    BY ConfigAssumption DEF LoadInv, VariableFacts, IsMade
  <2>2. ValueFacts(ty, x)
    BY DEF ValuesTyped
  <2> HIDE DEF ty, x
  <2>3. Again(ty, x).ok /\ Again(ty, Again(ty, x).val) = Again(ty, x)
    BY <2>1, <2>2, SettlesTheorem DEF ValueFacts
  <2>4. ASSUME x # Default[ty], ~(ty = "set<string>" /\ Empty \in x) PROVE Again(ty, x) = Some(x)
    <3>1. ty = "set<string>" => \A s \in x : IsNode(s)
      BY <2>2, <2>4 DEF ValueFacts
    <3> QED
      BY <2>1, <2>2, <3>1, RoundTripTheorem DEF ValueFacts
  <2> QED
    BY <2>3, <2>4 DEF ty, x
<1>4. RegistryInv => Shapes
  BY DEF RegistryInv
<1> QED
  BY <1>1, <1>2, <1>3, <1>4, RegistryInvariant, LoadInvariant, PTL DEF Spec
=============================================================================
