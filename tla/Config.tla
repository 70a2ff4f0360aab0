------------------------------- MODULE Config -------------------------------
(***************************************************************************)
(* Config of config.h and config.cpp: the registry of all configuration    *)
(* variables under one read-write lock, and the loading of a YAML document *)
(* into them.  A section that is one call under the write lock, or one     *)
(* find under the read lock, is one step; Visit holds the read lock over   *)
(* its callbacks, LoadFromYaml holds no lock while it sets a variable.     *)
(*                                                                         *)
(* A name is the sequence of its parts between the dots; the conversion of *)
(* texts is module Cast.                                                   *)
(***************************************************************************)
EXTENDS Cast

CONSTANTS
  Threads,
  Parts,     \* the keys of YAML maps
  Valid,     \* those made of lower-case letters, digits and "_"
  Lower,     \* per part: what tolower makes of it
  Names,     \* the names that the program looks up
  Types,     \* the types of variables
  Default,   \* per type: the value that LookUp is given
  Docs,      \* the documents: their nodes, a map before its members
  MaxCalls,  \* bound: calls of LookUp, LoadFromYaml and Visit
  NULL

(* A node of a document has a path, and a text: that of the scalar, or     *)
(* what is printed of the node.                                            *)
IsEntry(x) == x.key \in Seq(Parts) /\ IsText(x.text)

ASSUME ConfigAssumption ==
  /\ Valid \subseteq Parts /\ Lower \in [Parts -> Parts] /\ \A p \in Valid : Lower[p] = p
  /\ Names \subseteq Seq(Parts) /\ <<>> \notin Names
  /\ Types \subseteq CastTypes /\ NULL \notin Types
  /\ DOMAIN Default = Types /\ \A ty \in Types : IsValue(ty, Default[ty])
  /\ MaxCalls \in Nat
  /\ \A d \in Docs : DOMAIN d \subseteq Nat /\ \A i \in DOMAIN d : IsEntry(d[i])

VARIABLES
  datas_,    \* per name: the variable registered under it, 0 if none
  var,       \* per variable: its type, NULL before it is made, and its val_
  given,     \* per name: the variables that LookUp has returned for it
  readers,   \* the threads that hold the registry's lock for reading
  pc,
  op,        \* per thread: the arguments and locals of the call it executes
  calls

vars == <<datas_, var, given, readers, pc, op, calls>>

Variables == 1..MaxCalls
NoOp ==
  [doc |-> <<>>, todo |-> {}, before |-> {}, alone |-> TRUE, var |-> 0, refused |-> {}, seen |-> {}]

Init ==
  /\ datas_ = [n \in Names |-> 0]
  /\ var = [v \in Variables |-> [type |-> NULL, val |-> NULL]]
  /\ given = [n \in Names |-> {}]
  /\ readers = {}
  /\ pc = [t \in Threads |-> "idle"]
  /\ op = [t \in Threads |-> NoOp]
  /\ calls = 0

-----------------------------------------------------------------------------
Registered == {n \in Names : datas_[n] # 0}
Made       == Cardinality({v \in Variables : var[v].type # NULL})

NotMade == Made

(* new ConfigVar<T>                                                        *)
New == Made + 1

Loading(t) == pc[t] \in {"load", "found", "listener", "lookup", "store"}

NoLock   == TRUE
CanWrite == readers = {}

Goto(t, l) == pc' = [pc EXCEPT ![t] = l]
Done(t)    == Goto(t, "idle") /\ op' = [op EXCEPT ![t] = NoOp]

ValidName(key) == \A i \in DOMAIN key : key[i] \in Valid

NeverFound(n) == FALSE

(* datas_ has the name.                                                    *)
Found(n) == datas_[n] # 0

(* Config::LookUp<ty>(n): the variable if its type fits, else nullptr; a   *)
(* name that is not there is refused with an exception or registered.      *)
LookUp(n, ty) ==
  /\ CanWrite /\ calls < MaxCalls
  /\ calls' = calls + 1
  /\ \/ /\ Found(n) /\ var[datas_[n]].type = ty
        /\ given' = [given EXCEPT ![n] = @ \cup {datas_[n]}]
        /\ UNCHANGED <<datas_, var>>
     \/ /\ (Found(n) /\ var[datas_[n]].type # ty) \/ (~Found(n) /\ ~ValidName(n))
        /\ UNCHANGED <<datas_, var, given>>
     \/ /\ ~Found(n) /\ ValidName(n)
        /\ datas_' = [datas_ EXCEPT ![n] = New]
        /\ var' = [var EXCEPT ![New] = [type |-> ty, val |-> Default[ty]]]
        /\ given' = [given EXCEPT ![n] = @ \cup {New}]

ClientLookUp(t, n, ty) ==
  /\ pc[t] = "idle" /\ LookUp(n, ty)
  /\ UNCHANGED <<readers, pc, op>>

-----------------------------------------------------------------------------
MembersOnly(doc) == {i \in DOMAIN doc : Len(doc[i].key) = 1 /\ ValidName(doc[i].key)}

(* ListAllMember, as the positions in the document that it lists: a key    *)
(* that is not valid is left out with all below it.                        *)
AllNodes(doc) == {i \in DOMAIN doc : ValidName(doc[i].key)}

LoadFromYaml(t, doc) ==
  /\ pc[t] = "idle" /\ calls < MaxCalls
  /\ op' = [u \in Threads |->
              IF u = t THEN [NoOp EXCEPT !.doc = doc, !.todo = AllNodes(doc), !.before = Registered,
                                         !.alone = \A w \in Threads : ~Loading(w)]
              ELSE IF Loading(u) THEN [op[u] EXCEPT !.alone = FALSE] ELSE op[u]]
  /\ Goto(t, "load")
  /\ calls' = calls + 1
  /\ UNCHANGED <<datas_, var, given, readers>>

KeptLock(t)      == readers \cup {t}
LockAfterFind(t) == readers

(* The node that the loop of LoadFromYaml is at, and what follows it.      *)
Node(t) == op[t].doc[Min(op[t].todo)]
Rest(t) == op[t].todo \ {Min(op[t].todo)}

(* The next node: LookUpBase of its key in lower case; the document's root *)
(* has none.                                                               *)
LookUpBase(t) ==
  LET key  == Node(t).key
      name == [i \in DOMAIN key |-> Lower[key[i]]]
      v    == IF name \in Names THEN datas_[name] ELSE 0
  IN
  /\ pc[t] = "load" /\ op[t].todo # {}
  /\ readers' = LockAfterFind(t)
  /\ \/ /\ v = 0
        /\ op' = [op EXCEPT ![t].todo = Rest(t)]
        /\ UNCHANGED pc
     \/ /\ v # 0
        /\ op' = [op EXCEPT ![t].var = v]
        /\ Goto(t, "found")
  /\ UNCHANGED <<datas_, var, given, calls>>

(* What FromString makes of the node's text.                               *)
Value(t) == FromStr(var[op[t].var].type, Node(t).text)

(* FromString with a text that converts to a new value calls the           *)
(* listeners, which may look up variables, waiting for the lock, ...       *)
CallListener(t) ==
  /\ pc[t] = "found" /\ Value(t).ok /\ Value(t).val # var[op[t].var].val
  /\ Goto(t, "listener")
  /\ UNCHANGED <<datas_, var, given, readers, op, calls>>

ListenerCalls(t) ==
  /\ pc[t] = "listener" /\ calls < MaxCalls
  /\ Goto(t, "lookup")
  /\ UNCHANGED <<datas_, var, given, readers, op, calls>>

ListenerLookUp(t, n, ty) ==
  /\ pc[t] = "lookup" /\ LookUp(n, ty)
  /\ Goto(t, "listener")
  /\ UNCHANGED <<readers, op>>

(* (the bound: another call was the last one that could be made)           *)
ListenerEnd(t) ==
  /\ pc[t] = "listener" \/ (pc[t] = "lookup" /\ calls = MaxCalls)
  /\ Goto(t, "store")
  /\ UNCHANGED <<datas_, var, given, readers, op, calls>>

(* ... or throw: then nothing is stored.  FromString catches a             *)
(* std::exception and the loop goes on; any other exception leaves         *)
(* LoadFromYaml.                                                           *)
ListenerThrows(t) ==
  /\ pc[t] = "listener"
  /\ \/ /\ op' = [op EXCEPT ![t].todo = Rest(t), ![t].var = 0, ![t].refused = @ \cup {Min(op[t].todo)}]
        /\ Goto(t, "load")
     \/ Done(t)
  /\ UNCHANGED <<datas_, var, given, readers, calls>>

(* After the listeners the value is stored.  A text that does not convert  *)
(* changes nothing.                                                        *)
FromString(t) ==
  /\ pc[t] \in {"found", "store"}
  /\ var' = [var EXCEPT ![op[t].var].val = IF Value(t).ok THEN Value(t).val ELSE @]
  /\ op' = [op EXCEPT ![t].todo = Rest(t), ![t].var = 0]
  /\ Goto(t, "load")
  /\ UNCHANGED <<datas_, given, readers, calls>>

EndLoad(t) ==
  /\ pc[t] = "load" /\ op[t].todo = {}
  /\ Done(t)
  /\ UNCHANGED <<datas_, var, given, readers, calls>>

-----------------------------------------------------------------------------
(* Config::Visit: the read lock is held from here to EndVisit.  (Its       *)
(* callback must not call LookUp, which would wait for this lock.)         *)
Visit(t) ==
  /\ pc[t] = "idle" /\ calls < MaxCalls
  /\ readers' = readers \cup {t}
  /\ op' = [op EXCEPT ![t] = [NoOp EXCEPT !.before = Registered]]
  /\ Goto(t, "visit")
  /\ calls' = calls + 1
  /\ UNCHANGED <<datas_, var, given>>

VisitNext(t) ==
  /\ pc[t] = "visit"
  /\ \E n \in Registered \ op[t].seen : op' = [op EXCEPT ![t].seen = @ \cup {n}]
  /\ UNCHANGED <<datas_, var, given, readers, pc, calls>>

EndVisit(t) ==
  /\ pc[t] = "visit" /\ op[t].seen = Registered
  /\ readers' = readers \ {t}
  /\ Done(t)
  /\ UNCHANGED <<datas_, var, given, calls>>

-----------------------------------------------------------------------------
Step(t) ==
  \/ LookUpBase(t) \/ CallListener(t) \/ ListenerCalls(t) \/ ListenerEnd(t) \/ ListenerThrows(t)
  \/ FromString(t) \/ EndLoad(t)
  \/ \E n \in Names, ty \in Types : ListenerLookUp(t, n, ty)
  \/ VisitNext(t) \/ EndVisit(t)

Call(t) ==
  \/ \E n \in Names, ty \in Types : ClientLookUp(t, n, ty)
  \/ \E doc \in Docs : LoadFromYaml(t, doc)
  \/ Visit(t)

Next == \E t \in Threads : Step(t) \/ Call(t)

Spec == Init /\ [][Next]_vars

(* Threads run, and a blocked writer gets the lock when it stays free.     *)
FairSpec == Spec /\ \A t \in Threads : WF_vars(Step(t))

-----------------------------------------------------------------------------
(* Whoever looks up a name gets the one variable that LoadFromYaml sets,   *)
(* whatever was looked up, loaded or refused before.                       *)
OneVariable == \A n \in Names : \A v \in given[n] : v = datas_[n]

(* The nodes that a load has passed and that count: the variable was       *)
(* registered when the load began, the text converts to its type, and no   *)
(* listener of it refused the value.                                       *)
Effective(t) ==
  {i \in DOMAIN op[t].doc \ (op[t].todo \cup op[t].refused) :
     LET key == op[t].doc[i].key
     IN key \in op[t].before /\ FromStr(var[datas_[key]].type, op[t].doc[i].text).ok}

(* When a load that ran alone has gone through the document, each variable *)
(* has the value of the last node with its name that counts: a node that   *)
(* does not convert, or that a listener refuses with an exception, neither *)
(* stops the load nor undoes what an earlier node set.                     *)
LoadApplied ==
  \A t \in Threads :
    pc[t] = "load" /\ op[t].todo = {} /\ op[t].alone =>
      \A i \in Effective(t) :
        LET key == op[t].doc[i].key
            v   == datas_[key]
        IN (\A j \in Effective(t) : j > i => op[t].doc[j].key # key)
             => var[v].val = FromStr(var[v].type, op[t].doc[i].text).val

(* What FromString makes of the text that ToString gives.                  *)
Again(ty, x) == FromStr(ty, TextOf(ty, x))

(* A configuration that is saved and loaded settles: a first round may     *)
(* change the strings that a program put into a set (they are read as      *)
(* YAML: "null" becomes "~", and one that is not YAML loses the set), a    *)
(* second changes nothing and calls no listener.  A value that came from a *)
(* document survives the first one, but for an empty string in a set.      *)
TextRoundTrip ==
  \A v \in Variables : var[v].type # NULL =>
    LET ty == var[v].type
        x  == var[v].val
    IN /\ Again(ty, x).ok /\ Again(ty, Again(ty, x).val) = Again(ty, x)
       /\ x # Default[ty] /\ ~(ty = "set<string>" /\ Empty \in x) => Again(ty, x) = Some(x)

(* While Visit goes through the variables none is added under it.          *)
VisitIsStable == \A t \in Threads : pc[t] = "visit" => Registered = op[t].before

(* Calls return: a listener that LoadFromYaml runs may look up variables,  *)
(* and may throw.                                                          *)
CallsReturn == \A t \in Threads : pc[t] # "idle" ~> pc[t] = "idle"
=============================================================================
