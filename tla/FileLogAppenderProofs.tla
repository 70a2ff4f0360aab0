----------------------- MODULE FileLogAppenderProofs -----------------------
(***************************************************************************)
(* Theorems about FileLogAppender, for any number of threads, at any time  *)
(* and for any number of changes of the file system.                       *)
(***************************************************************************)
EXTENDS FileLogAppender, TLAPS

(* A thread that closes, opens or writes the stream has the lock.          *)
MutexFacts == \A t \in Threads : pc[t] \in {"close", "open", "write"} <=> mutex_ = t

(* A stream is closed only by a failure or by a Reopen under way.          *)
StreamFacts == stream = 0 => fail \/ \E t \in Threads : pc[t] = "open"

(* The stream is, will be, or can never again be the file of that name.    *)
Fresh == dir => Stuck \/ (stream = path /\ ~fail) \/ \E t \in Threads : pc[t] = "open"

(* No time lies in the future, and whoever relies on a time after the last *)
(* change of the file system may: the unlocked last_time_ as well.         *)
TimeFacts ==
  /\ since <= clock /\ last_time_ <= clock
  /\ \A t \in Threads : now[t] <= clock
  /\ last_time_ > since => Fresh
  /\ \A t \in Threads :
       /\ pc[t] = "stamp" /\ now[t] > since => Fresh
       /\ pc[t] \in {"lock", "write"} /\ now[t] >= since + 3 => Fresh

AppenderInv == TypeOK /\ MutexFacts /\ StreamFacts /\ TimeFacts

-----------------------------------------------------------------------------
(* Every step keeps the types and the facts about the lock and the stream. *)
LEMMA LockStep ==
  ASSUME TypeOK, MutexFacts, StreamFacts, [Next]_vars
  PROVE  TypeOK' /\ MutexFacts' /\ StreamFacts'
<1> USE AppenderAssumption DEF TypeOK, Steps, MutexFacts, StreamFacts
<1>1. CASE UNCHANGED vars
  BY <1>1 DEF vars, world, object
<1>2. CASE Tick
  BY <1>2 DEF Tick, object
<1>3. CASE Change
  <2>1. path' \in Nat \ {0} /\ since' \in Nat /\ changes' \in Nat
    BY <1>3 DEF Change
  <2>2. dir' \in BOOLEAN
    BY <1>3 DEF Change
  <2> QED
    BY <1>3, <2>1, <2>2 DEF Change, object
<1>4. ASSUME NEW t \in Threads, Event(t) PROVE TypeOK' /\ MutexFacts' /\ StreamFacts'
  BY <1>4 DEF Event, Goto, world, object
<1>5. ASSUME NEW t \in Threads, Test(t) PROVE TypeOK' /\ MutexFacts' /\ StreamFacts'
  BY <1>5 DEF Test, Goto, world, object
<1>6. ASSUME NEW t \in Threads, Lock(t) PROVE TypeOK' /\ MutexFacts' /\ StreamFacts'
  BY <1>6 DEF Lock, Free, Goto, world
<1>7. ASSUME NEW t \in Threads, Close(t) PROVE TypeOK' /\ MutexFacts' /\ StreamFacts'
  BY <1>7 DEF Close, Goto, world
<1>8. ASSUME NEW t \in Threads, Open(t) PROVE TypeOK' /\ MutexFacts' /\ StreamFacts'
  BY <1>8 DEF Open, OpenedStream, OpenFails, Goto, world
<1>9. ASSUME NEW t \in Threads, Stamp(t) PROVE TypeOK' /\ MutexFacts' /\ StreamFacts'
  BY <1>9 DEF Stamp, Goto, world
<1>10. ASSUME NEW t \in Threads, Write(t) PROVE TypeOK' /\ MutexFacts' /\ StreamFacts'
  BY <1>10 DEF Write, Goto, world
<1> QED
  BY <1>1, <1>2, <1>3, <1>4, <1>5, <1>6, <1>7, <1>8, <1>9, <1>10 DEF Next

(* What is fresh stays so until the file system changes.                   *)
LEMMA FreshStays ==
  ASSUME AppenderInv, Fresh, [Next]_vars, ~Change
  PROVE  Fresh'
<1> USE AppenderAssumption DEF AppenderInv, TypeOK, Steps, Fresh, Stuck
<1>1. CASE UNCHANGED vars
  BY <1>1 DEF vars, world, object
<1>2. CASE Tick
  BY <1>2 DEF Tick, object
<1>3. ASSUME NEW t \in Threads, Event(t) \/ Test(t) \/ Lock(t) \/ Stamp(t) PROVE Fresh'
  BY <1>3 DEF Event, Test, Lock, Stamp, Goto, world, object
<1>4. ASSUME NEW t \in Threads, Close(t) PROVE Fresh'
  BY <1>4 DEF Close, Goto, world
<1>5. ASSUME NEW t \in Threads, Open(t) PROVE Fresh'
  BY <1>5 DEF Open, OpenedStream, OpenFails, world
<1>6. ASSUME NEW t \in Threads, Write(t) PROVE Fresh'
  BY <1>6 DEF Write, Goto, world
<1> QED
  BY <1>1, <1>2, <1>3, <1>4, <1>5, <1>6 DEF Next

(* Every step keeps the facts about time.                                  *)
LEMMA TimeStep ==
  ASSUME AppenderInv, [Next]_vars
  PROVE  TimeFacts'
<1> USE AppenderAssumption DEF AppenderInv, TypeOK, Steps, TimeFacts
<1>1. CASE UNCHANGED vars
  <2>1. Fresh => Fresh'
    BY <1>1 DEF vars, world, object, Fresh, Stuck
  <2> QED
    BY <1>1, <2>1 DEF vars, world, object
<1>2. CASE Change
  BY <1>2 DEF Change, object
<1>3. CASE ~Change /\ Next
  <2>0. Fresh => Fresh'
    BY <1>3, FreshStays
  <2>1. CASE Tick
    BY <2>0, <2>1 DEF Tick, object
  <2>2. ASSUME NEW t \in Threads, Event(t) PROVE TimeFacts'
    BY <2>0, <2>2 DEF Event, Goto, world, object
  <2>3. ASSUME NEW t \in Threads, Test(t) PROVE TimeFacts'
    <3>1. CASE Due(t)
      BY <2>0, <2>3, <3>1 DEF Test, Goto, world, object
    <3>2. CASE ~Due(t)
      <4>1. now[t] >= since + 3 => last_time_ > since
        BY <3>2 DEF Due
      <4> QED
        BY <2>0, <2>3, <3>2, <4>1 DEF Test, Goto, world, object
    <3> QED
      BY <3>1, <3>2
  <2>4. ASSUME NEW t \in Threads, Lock(t) PROVE TimeFacts'
    BY <2>0, <2>4 DEF Lock, Goto, world
  <2>5. ASSUME NEW t \in Threads, Close(t) PROVE TimeFacts'
    BY <2>0, <2>5 DEF Close, Goto, world
  <2>6. ASSUME NEW t \in Threads, Open(t) PROVE TimeFacts'
    <3>1. Fresh'
      BY <2>6 DEF Open, OpenedStream, OpenFails, Fresh, Stuck, world
    <3> QED
      BY <2>6, <3>1 DEF Open, Goto, world
  <2>7. ASSUME NEW t \in Threads, Stamp(t) PROVE TimeFacts'
    BY <2>0, <2>7 DEF Stamp, Goto, world
  <2>8. ASSUME NEW t \in Threads, Write(t) PROVE TimeFacts'
    BY <2>0, <2>8 DEF Write, Goto, world
  <2> QED
    BY <1>3, <2>1, <2>2, <2>3, <2>4, <2>5, <2>6, <2>7, <2>8 DEF Next
<1> QED
  BY <1>1, <1>2, <1>3

(* The inductive invariant.                                                *)
THEOREM AppenderInvariant == Spec => []AppenderInv
<1>1. Init => AppenderInv
  <2> SUFFICES ASSUME Init PROVE AppenderInv
    OBVIOUS
  <2>1. TypeOK
    <3>1. fail \in BOOLEAN
      BY DEF Init
    <3> QED
      BY <3>1, AppenderAssumption DEF Init, TypeOK, Steps
  <2>2. MutexFacts
    BY AppenderAssumption DEF Init, MutexFacts
  <2>3. StreamFacts
    <3>1. stream = 0 => ~dir
      BY DEF Init
    <3> QED
      BY <3>1 DEF Init, StreamFacts
  <2>4. TimeFacts
    BY AppenderAssumption DEF Init, TimeFacts
  <2> QED
    BY <2>1, <2>2, <2>3, <2>4 DEF AppenderInv
<1>2. AppenderInv /\ [Next]_vars => AppenderInv'
  BY LockStep, TimeStep DEF AppenderInv
<1> QED
  BY <1>1, <1>2, PTL DEF Spec

(* The log follows a renamed file within three seconds although last_time_ *)
(* is read and written without the lock: a stale value only makes a thread *)
(* reopen once more.                                                       *)
THEOREM FollowsPathTheorem == Spec => []FollowsPath
<1>1. AppenderInv => FollowsPath
  BY AppenderAssumption DEF AppenderInv, TypeOK, MutexFacts, TimeFacts, Fresh, FollowsPath
<1> QED
  BY <1>1, AppenderInvariant, PTL

(* No event falls between the close and the open of a Reopen.              *)
THEOREM NotBetweenCloseAndOpenTheorem == Spec => []NotBetweenCloseAndOpen
<1>1. AppenderInv => NotBetweenCloseAndOpen
  BY AppenderAssumption DEF AppenderInv, TypeOK, MutexFacts, StreamFacts, NotBetweenCloseAndOpen
<1> QED
  BY <1>1, AppenderInvariant, PTL
=============================================================================
