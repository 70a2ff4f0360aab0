---------------------------- MODULE ThreadProofs ----------------------------
(***************************************************************************)
(* Theorems about Thread, for any number of clients and of Thread objects  *)
(* and for every set of hazards.                                           *)
(***************************************************************************)
EXTENDS Thread, TLAPS

(* A client in the constructor or in Join uses a live object, and one      *)
(* client alone constructs it.                                             *)
ClientFacts ==
  \A c \in Clients :
    /\ pc[c] = "idle" => on[c] = NULL
    /\ pc[c] = "wait" =>
         /\ on[c] \in Objects /\ life[on[c]] = "constructing"
         /\ \A d \in Clients : on[d] = on[c] => d = c
    /\ pc[c] \in {"join", "joining", "joined"} => on[c] \in Objects /\ life[on[c]] = "alive"

(* One client at a time is in pthread_join or between its return and the   *)
(* reset of thread_; without it thread_ says whether the thread was        *)
(* released.                                                               *)
JoinFacts ==
  /\ \A c \in Clients :
       /\ pc[c] = "joining" => thread_[on[c]] /\ released[on[c]] = 0
       /\ pc[c] = "joined" => thread_[on[c]] /\ released[on[c]] = 1
       /\ pc[c] \in {"joining", "joined"} =>
            \A d \in Clients : pc[d] \in {"joining", "joined"} /\ on[d] = on[c] => d = c
  /\ \A x \in Objects :
       /\ life[x] = "alive" /\ (\A c \in Clients : pc[c] = "joined" => on[c] # x) =>
            (thread_[x] <=> released[x] = 0)
       /\ life[x] = "constructing" => thread_[x] /\ released[x] = 0
       /\ life[x] = "dead" => released[x] = 1

(* How far Run has got decides what the constructor may have done: the     *)
(* semaphore is posted once and taken once.                                *)
RunFacts ==
  \A x \in Objects :
    /\ life[x] = "none" => run[x] = "none" /\ sem[x] = 0 /\ released[x] = 0
    /\ run[x] \in {"init", "notify"} => sem[x] = 0 /\ life[x] \in {"constructing", "abandoned"}
    /\ life[x] \in {"alive", "dead"} => run[x] \in {"callback", "exited"} /\ sem[x] = 0
    /\ sem[x] = 1 => run[x] \in {"callback", "exited"}
    /\ run[x] \in {"notify", "callback", "exited"} => id_[x] /\ ~cb_[x]
    /\ life[x] \in {"constructing", "abandoned"} => run[x] # "none"

ThreadInv == TypeOK /\ ClientFacts /\ JoinFacts /\ RunFacts /\ NoDeadAccess

(* Every step keeps the facts.                                             *)
LEMMA ThreadStep == ThreadInv /\ [Next]_vars => ThreadInv'
<1> SUFFICES ASSUME ThreadInv, [Next]_vars PROVE ThreadInv'
  OBVIOUS
<1> USE ThreadAssumption DEF ThreadInv, TypeOK, ClientFacts, JoinFacts, RunFacts, NoDeadAccess, Gone, WhyGone
<1>1. CASE UNCHANGED vars
  BY <1>1 DEF vars
<1>2. ASSUME NEW c \in Clients, NEW x \in Objects, Construct(c, x) PROVE ThreadInv'
  <2>1. TypeOK'
    BY <1>2 DEF Construct, Begin
  <2>2. ClientFacts'
    BY <1>2 DEF Construct, Begin
  <2>3. JoinFacts'
    BY <1>2 DEF Construct, Begin
  <2>4. RunFacts'
    BY <1>2 DEF Construct
  <2> QED
    BY <1>2, <2>1, <2>2, <2>3, <2>4 DEF Construct
<1>3. ASSUME NEW c \in Clients, Constructed(c) PROVE ThreadInv'
  <2>1. on[c] \in Objects /\ sem[on[c]] = 1
    BY <1>3 DEF Constructed, CanPass
  <2>2. TypeOK'
    BY <1>3, <2>1 DEF Constructed, End, Begin
  <2>3. ClientFacts'
    BY <1>3, <2>1 DEF Constructed, End, Begin
  <2>4. JoinFacts'
    BY <1>3, <2>1 DEF Constructed, End, Begin
  <2>5. RunFacts'
    BY <1>3, <2>1 DEF Constructed
  <2> QED
    BY <1>3, <2>2, <2>3, <2>4, <2>5 DEF Constructed
<1>4. ASSUME NEW c \in Clients, Interrupted(c) PROVE ThreadInv'
  <2>1. TypeOK' /\ ClientFacts'
    BY <1>4 DEF Interrupted, End, Begin
  <2>2. JoinFacts'
    BY <1>4 DEF Interrupted, End, Begin
  <2>3. RunFacts' /\ NoDeadAccess'
    BY <1>4 DEF Interrupted
  <2> QED
    BY <2>1, <2>2, <2>3
<1>5. ASSUME NEW c \in Clients, NEW x \in Objects, Join(c, x) PROVE ThreadInv'
  <2>1. TypeOK'
    BY <1>5 DEF Join, Begin
  <2>2. /\ pc' = [pc EXCEPT ![c] = "join"] /\ on' = [on EXCEPT ![c] = x]
        /\ life[x] = "alive" /\ pc[c] = "idle"
        /\ UNCHANGED <<life, thread_, id_, cb_, sem, run, released, fault>>
    BY <1>5 DEF Join, Begin
  <2>3. ClientFacts'
    <3>1. \A d \in Clients : pc[d] = "wait" => on[d] # x
      BY <2>2
    <3> QED
      BY <2>2, <3>1
  <2>4. JoinFacts'
    BY <2>2
  <2>5. RunFacts' /\ NoDeadAccess'
    BY <2>2
  <2> QED
    BY <2>1, <2>3, <2>4, <2>5
<1>6. ASSUME NEW c \in Clients, PthreadJoin(c) PROVE ThreadInv'
  <2>1. CASE Crash("joined")
    BY <2>1 DEF Crash
  <2>2. CASE ~Crash("joined")
    <3>1. /\ pc[c] = "join" /\ on[c] \in Objects /\ life[on[c]] = "alive"
          /\ UNCHANGED <<life, thread_, id_, cb_, sem, run, released, fault>>
          /\ \/ /\ released[on[c]] = 0 /\ ~Joining(on[c])
                /\ pc' = [pc EXCEPT ![c] = "joining"] /\ on' = [on EXCEPT ![c] = on[c]]
             \/ pc' = [pc EXCEPT ![c] = "idle"] /\ on' = [on EXCEPT ![c] = NULL]
      BY <1>6, <2>2 DEF PthreadJoin, End, Begin
    <3>2. TypeOK' /\ ClientFacts'
      BY <3>1
    <3>3. JoinFacts'
      BY <3>1 DEF Joining
    <3>4. RunFacts' /\ NoDeadAccess'
      BY <3>1
    <3> QED
      BY <3>2, <3>3, <3>4
  <2> QED
    BY <2>1, <2>2
<1>7. ASSUME NEW c \in Clients, Joined(c) PROVE ThreadInv'
  <2>1. /\ pc[c] = "joining" /\ on[c] \in Objects /\ life[on[c]] = "alive" /\ released[on[c]] = 0
        /\ pc' = [pc EXCEPT ![c] = "joined"] /\ on' = on
        /\ released' = [released EXCEPT ![on[c]] = 1]
        /\ UNCHANGED <<life, thread_, id_, cb_, sem, run, fault>>
    <3>1. /\ pc[c] = "joining" /\ on[c] \in Objects /\ life[on[c]] = "alive" /\ released[on[c]] = 0
          /\ on' = [on EXCEPT ![c] = on[c]]
          /\ released' = [released EXCEPT ![on[c]] = released[on[c]] + 1]
      BY <1>7 DEF Joined, Begin
    <3>2. on' = on
      BY <3>1
    <3>3. released' = [released EXCEPT ![on[c]] = 1]
      BY <3>1
    <3> QED
      BY <1>7, <3>1, <3>2, <3>3 DEF Joined, Begin
  <2>2. TypeOK' /\ ClientFacts'
    BY <2>1
  <2>3. JoinFacts'
    BY <2>1
  <2>4. RunFacts' /\ NoDeadAccess'
    BY <2>1
  <2> QED
    BY <2>2, <2>3, <2>4
<1>12. ASSUME NEW c \in Clients, EndJoin(c) PROVE ThreadInv'
  <2>1. /\ pc[c] = "joined" /\ on[c] \in Objects /\ life[on[c]] = "alive" /\ released[on[c]] = 1
        /\ pc' = [pc EXCEPT ![c] = "idle"] /\ on' = [on EXCEPT ![c] = NULL]
        /\ thread_' = [thread_ EXCEPT ![on[c]] = FALSE]
        /\ UNCHANGED <<life, id_, cb_, sem, run, released, fault>>
    BY <1>12 DEF EndJoin, Cleared, End, Begin
  <2>2. thread_' \in [Objects -> BOOLEAN]
    BY <2>1
  <2>3. TypeOK' /\ ClientFacts'
    BY <2>1, <2>2
  <2>4. JoinFacts'
    BY <2>1
  <2>5. RunFacts' /\ NoDeadAccess'
    BY <2>1
  <2> QED
    BY <2>3, <2>4, <2>5
<1>13. ASSUME NEW c \in Clients, NEW x \in Objects, Destroy(c, x) PROVE ThreadInv'
  <2>1. /\ life[x] = "alive" /\ (\A d \in Clients : on[d] # x)
        /\ life' = [life EXCEPT ![x] = "dead"]
        /\ released' = [released EXCEPT ![x] = IF thread_[x] THEN @ + 1 ELSE @]
        /\ UNCHANGED <<thread_, id_, cb_, sem, run, pc, on, fault>>
    BY <1>13 DEF Destroy, Used
  <2>2. thread_[x] <=> released[x] = 0
    BY <2>1
  <2>3. released' = [released EXCEPT ![x] = 1]
    <3>1. CASE thread_[x]
      <4>1. released[x] = 0 /\ released' = [released EXCEPT ![x] = released[x] + 1]
        BY <2>1, <2>2, <3>1
      <4> QED
        BY <4>1
    <3>2. CASE ~thread_[x]
      <4>1. released[x] = 1 /\ released' = [released EXCEPT ![x] = released[x]]
        BY <2>1, <2>2, <3>2
      <4> QED
        BY <4>1
    <3> QED
      BY <3>1, <3>2
  <2>4. TypeOK' /\ ClientFacts'
    BY <2>1, <2>3
  <2>5. JoinFacts'
    BY <2>1, <2>3
  <2>6. RunFacts' /\ NoDeadAccess'
    BY <2>1, <2>3
  <2> QED
    BY <2>4, <2>5, <2>6
<1>8. ASSUME NEW x \in Objects, RunInit(x) PROVE ThreadInv'
  <2>1. TypeOK'
    <3>1. CASE Gone(x)
      BY <1>8, <3>1 DEF RunInit, Crash
    <3>2. CASE ~Gone(x)
      <4>1. /\ id_' = [id_ EXCEPT ![x] = TRUE] /\ cb_' = [cb_ EXCEPT ![x] = FALSE]
            /\ run' = [run EXCEPT ![x] = "notify"]
            /\ UNCHANGED <<life, thread_, sem, released, pc, on, fault>>
        BY <1>8, <3>2 DEF RunInit, Crash
      <4>2. id_' \in [Objects -> BOOLEAN]
        BY <4>1
      <4>3. cb_' \in [Objects -> BOOLEAN]
        BY <4>1
      <4> QED
        BY <4>1, <4>2, <4>3
    <3> QED
      BY <3>1, <3>2
  <2>2. ClientFacts'
    BY <1>8 DEF RunInit, Crash
  <2>3. JoinFacts'
    BY <1>8 DEF RunInit, Crash
  <2>4. RunFacts'
    BY <1>8 DEF RunInit, Crash
  <2>5. NoDeadAccess'
    BY <1>8 DEF RunInit, Crash
  <2> QED
    BY <2>1, <2>2, <2>3, <2>4, <2>5
<1>9. ASSUME NEW x \in Objects, RunNotify(x) PROVE ThreadInv'
  <2>1. TypeOK'
    BY <1>9 DEF RunNotify, Posted, Crash
  <2>2. ClientFacts'
    BY <1>9 DEF RunNotify, Posted, Crash
  <2>3. JoinFacts'
    BY <1>9 DEF RunNotify, Posted, Crash
  <2>4. RunFacts'
    BY <1>9 DEF RunNotify, Posted, Crash
  <2>5. NoDeadAccess'
    BY <1>9 DEF RunNotify, Posted, Crash
  <2> QED
    BY <2>1, <2>2, <2>3, <2>4, <2>5
<1>10. ASSUME NEW x \in Objects, SetCurName(x) PROVE ThreadInv'
  BY <1>10 DEF SetCurName, Crash
<1>11. ASSUME NEW x \in Objects, RunExit(x) PROVE ThreadInv'
  BY <1>11 DEF RunExit
<1> HIDE ThreadAssumption DEF ThreadInv, TypeOK, ClientFacts, JoinFacts, RunFacts, NoDeadAccess, Gone, WhyGone
<1> QED
  BY <1>1, <1>2, <1>3, <1>4, <1>5, <1>6, <1>7, <1>8, <1>9, <1>10, <1>11, <1>12, <1>13
     DEF Next, ClientStep, RunStep

(* The inductive invariant.                                                *)
THEOREM ThreadInvariant == Spec => []ThreadInv
<1>1. Init => ThreadInv
  BY ThreadAssumption DEF Init, ThreadInv, TypeOK, ClientFacts, JoinFacts, RunFacts, NoDeadAccess
<1> QED
  BY <1>1, ThreadStep, PTL DEF Spec

(* The types: in particular the semaphore never counts beyond one.         *)
THEOREM ThreadTypes == Spec => []TypeOK
<1>1. ThreadInv => TypeOK
  BY DEF ThreadInv
<1> QED
  BY <1>1, ThreadInvariant, PTL

(* An object whose constructor returned is completely initialised by Run.  *)
THEOREM ReadyWhenConstructedTheorem == Spec => []ReadyWhenConstructed
<1>1. ThreadInv => ReadyWhenConstructed
  BY DEF ThreadInv, RunFacts, ReadyWhenConstructed
<1> QED
  BY <1>1, ThreadInvariant, PTL

(* Run is through with the object before the client can destroy it.        *)
THEOREM NoDeadAccessTheorem == Spec => []NoDeadAccess
<1>1. ThreadInv => NoDeadAccess
  BY DEF ThreadInv
<1> QED
  BY <1>1, ThreadInvariant, PTL

(* Simultaneous Joins and the destructor release a thread once.            *)
THEOREM ReleasedOnceTheorem == Spec => []ReleasedOnce
<1>1. ThreadInv => ReleasedOnce
  BY DEF ThreadInv, JoinFacts, ReleasedOnce, Used
<1> QED
  BY <1>1, ThreadInvariant, PTL
=============================================================================
