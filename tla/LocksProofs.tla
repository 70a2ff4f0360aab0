---------------------------- MODULE LocksProofs ----------------------------
(***************************************************************************)
(* Theorems about Locks, for every set of threads, guards and locks.       *)
(***************************************************************************)
EXTENDS Locks, FiniteSetTheorems, TLAPS

(* What a thread is doing fits the guard it does it with, and a guard      *)
(* refers to a lock of its class.                                          *)
GuardFacts ==
  /\ \A g \in Guards :
       /\ mutex_[g] # NULL => Fits(mutex_[g], mode[g])
       /\ locked_[g] => mutex_[g] # NULL
  /\ \A t \in Threads, g \in Guards :
       /\ InCall(t, "acquire", g) => owner[g] = t /\ mutex_[g] # NULL /\ ~locked_[g]
       /\ \A op \in {"unlock", "destroy"} :
            InCall(t, op, g) => owner[g] = t /\ mutex_[g] # NULL /\ locked_[g]

(* The raw locks know who holds them.                                      *)
FlagFacts ==
  \A m \in Flags :
    /\ flag[m] <=> WritersOf[m] # {}
    /\ \A g, h \in WritersOf[m] : g = h

RWFacts ==
  \A m \in RWMutexes :
    /\ rd[m] = Cardinality(ReadersOf[m])
    /\ wr[m] = NULL => WritersOf[m] = {}
    /\ wr[m] # NULL => ReadersOf[m] = {} /\ \E g \in WritersOf[m] : owner[g] = wr[m]
    /\ \A g, h \in WritersOf[m] : g = h

LockInv == TypeOK /\ GuardFacts /\ FlagFacts /\ RWFacts

-----------------------------------------------------------------------------
(* Setting, counting up and counting down keep the type of a lock's field. *)
LEMMA FieldUpdate ==
  ASSUME NEW S, NEW V, NEW f \in [S -> V], NEW x, NEW v \in V
  PROVE  [f EXCEPT ![x] = v] \in [S -> V]
OBVIOUS

(* Counting the readers of one lock up or down keeps the counts' type.     *)
LEMMA CountUpdate ==
  ASSUME NEW S, NEW f \in [S -> Int], NEW x \in S
  PROVE  /\ [f EXCEPT ![x] = f[x] + 1] \in [S -> Int]
         /\ [f EXCEPT ![x] = f[x] - 1] \in [S -> Int]
<1>1. f[x] + 1 \in Int /\ f[x] - 1 \in Int
  OBVIOUS
<1> QED
  BY <1>1, FieldUpdate

(* Every step keeps the types and the guards' facts.                       *)
LEMMA TypeStep == TypeOK /\ GuardFacts /\ [Next]_vars => TypeOK' /\ GuardFacts'
<1> SUFFICES ASSUME TypeOK, GuardFacts, [Next]_vars PROVE TypeOK' /\ GuardFacts'
  OBVIOUS
<1> USE LocksAssumption DEF TypeOK, GuardFacts, Calls, Idle, InCall, Locks
<1>1. CASE UNCHANGED vars
  BY <1>1 DEF vars, raw
<1>2. ASSUME NEW t \in Threads, NEW g \in Guards, NEW m \in Locks,
             NEW k \in {"lock", "read", "write"}, Construct(t, g, m, k)
      PROVE  TypeOK' /\ GuardFacts'
  BY <1>2 DEF Construct, Goto, Fits, raw
<1>3. ASSUME NEW t \in Threads, NEW g \in Guards, Lock(t, g) PROVE TypeOK' /\ GuardFacts'
  BY <1>3 DEF Lock, Goto, NotYet, raw, Fits
<1>4. ASSUME NEW t \in Threads, NEW g \in Guards, Acquire(t, g) PROVE TypeOK' /\ GuardFacts'
  <2>1. TypeOK'
    <3>1. CASE mode[g] = "lock"
      <4>1. flag' = [flag EXCEPT ![mutex_[g]] = TRUE] /\ rd' = rd /\ wr' = wr
        BY <1>4, <3>1 DEF Acquire, Locked
      <4>2. flag' \in [Flags -> BOOLEAN]
        BY <4>1, FieldUpdate, TRUE \in BOOLEAN
      <4> QED
        BY <1>4, <4>1, <4>2 DEF Acquire, Goto
    <3>2. CASE mode[g] = "read"
      <4>1. /\ mutex_[g] \in RWMutexes
            /\ rd' = [rd EXCEPT ![mutex_[g]] = rd[mutex_[g]] + 1] /\ flag' = flag /\ wr' = wr
        BY <1>4, <3>2 DEF Acquire, Locked, Fits
      <4>2. rd' \in [RWMutexes -> Int]
        BY <4>1, CountUpdate
      <4> QED
        BY <1>4, <4>1, <4>2 DEF Acquire, Goto
    <3>3. CASE mode[g] = "write"
      BY <1>4, <3>3 DEF Acquire, Goto, Locked, Fits
    <3> QED BY <3>1, <3>2, <3>3
  <2>2. GuardFacts'
    BY <1>4 DEF Acquire, Goto, Fits
  <2> QED BY <2>1, <2>2
<1>5. ASSUME NEW t \in Threads, NEW g \in Guards, NEW op \in {"unlock", "destroy"},
             Unlock(t, g, op)
      PROVE  TypeOK' /\ GuardFacts'
  <2>1. TypeOK'
    <3>1. CASE locked_[g]
      <4>1. mutex_[g] \in Locks
        BY <1>5 DEF Unlock
      <4>2. flag' \in [Flags -> BOOLEAN] /\ rd' \in [RWMutexes -> Int]
            /\ wr' \in [RWMutexes -> Threads \cup {NULL}]
        <5>1. CASE mutex_[g] \in Flags
          <6>1. flag' = [flag EXCEPT ![mutex_[g]] = FALSE] /\ rd' = rd /\ wr' = wr
            BY <1>5, <3>1, <5>1 DEF Unlock, Unlocked
          <6>2. flag' \in [Flags -> BOOLEAN]
            BY <6>1, FieldUpdate, FALSE \in BOOLEAN
          <6> QED
            BY <6>1, <6>2
        <5>2. CASE mutex_[g] \in RWMutexes /\ wr[mutex_[g]] = t
          BY <1>5, <3>1, <5>2 DEF Unlock, Unlocked
        <5>3. CASE mutex_[g] \in RWMutexes /\ wr[mutex_[g]] # t
          <6>1. rd' = [rd EXCEPT ![mutex_[g]] = rd[mutex_[g]] - 1] /\ flag' = flag /\ wr' = wr
            BY <1>5, <3>1, <5>3 DEF Unlock, Unlocked
          <6> QED
            BY <5>3, <6>1, CountUpdate
        <5> QED
          BY <4>1, <5>1, <5>2, <5>3
      <4> QED
        BY <1>5, <3>1, <4>2 DEF Unlock, Goto
    <3>2. CASE ~locked_[g]
      BY <1>5, <3>2 DEF Unlock, Goto, raw
    <3> QED BY <3>1, <3>2
  <2>2. GuardFacts'
    BY <1>5, SMTT(20) DEF Unlock, Goto, Fits
  <2> QED BY <2>1, <2>2
<1>6. ASSUME NEW t \in Threads, NEW g \in Guards, NEW op \in {"unlock", "destroy"},
             Released(t, g, op)
      PROVE  TypeOK' /\ GuardFacts'
  BY <1>6 DEF Released, Goto, raw, LockedAfter, Fits
<1> HIDE LocksAssumption DEF TypeOK, GuardFacts, Calls, Idle, InCall, Locks
<1> QED
  BY <1>1, <1>2, <1>3, <1>4, <1>5, <1>6 DEF Next, Step

-----------------------------------------------------------------------------
(* The sets of holders after a step that takes and releases no lock.       *)
LEMMA SameHolders ==
  ASSUME \A g \in Guards : Holds(g)' <=> Holds(g),
         \A g \in Guards : Holds(g) => mutex_'[g] = mutex_[g] /\ mode'[g] = mode[g]
  PROVE  ReadersOf' = ReadersOf /\ WritersOf' = WritersOf
<1>1. ASSUME NEW m \in Locks
      PROVE  /\ {g \in Guards : Holds(g)' /\ mutex_'[g] = m /\ mode'[g] = "read"}
                  = {g \in Guards : Holds(g) /\ mutex_[g] = m /\ mode[g] = "read"}
             /\ {g \in Guards : Holds(g)' /\ mutex_'[g] = m /\ mode'[g] # "read"}
                  = {g \in Guards : Holds(g) /\ mutex_[g] = m /\ mode[g] # "read"}
  OBVIOUS
<1> QED
  BY <1>1 DEF ReadersOf, WritersOf

(* Taking a lock adds one guard to its holders and leaves the others alone. *)
LEMMA OneHolderMore ==
  ASSUME NEW h \in Guards, ~Holds(h), Holds(h)', mutex_[h] \in Locks,
         \A g \in Guards \ {h} : Holds(g)' <=> Holds(g),
         UNCHANGED <<mutex_, mode>>
  PROVE  /\ mode[h] = "read" =>
              /\ ReadersOf' = [ReadersOf EXCEPT ![mutex_[h]] = ReadersOf[mutex_[h]] \cup {h}]
              /\ h \notin ReadersOf[mutex_[h]] /\ WritersOf' = WritersOf
         /\ mode[h] # "read" =>
              /\ WritersOf' = [WritersOf EXCEPT ![mutex_[h]] = WritersOf[mutex_[h]] \cup {h}]
              /\ ReadersOf' = ReadersOf
<1> DEFINE k == mutex_[h]
           R(m) == {g \in Guards : Holds(g) /\ mutex_[g] = m /\ mode[g] = "read"}
           W(m) == {g \in Guards : Holds(g) /\ mutex_[g] = m /\ mode[g] # "read"}
<1>1. ReadersOf = [m \in Locks |-> R(m)] /\ ReadersOf' = [m \in Locks |-> R(m)']
  BY DEF ReadersOf
<1>2. WritersOf = [m \in Locks |-> W(m)] /\ WritersOf' = [m \in Locks |-> W(m)']
  BY DEF WritersOf
<1>3. \A m \in Locks : R(m)' = IF m = k /\ mode[h] = "read" THEN R(m) \cup {h} ELSE R(m)
  OBVIOUS
<1>4. \A m \in Locks : W(m)' = IF m = k /\ mode[h] # "read" THEN W(m) \cup {h} ELSE W(m)
  OBVIOUS
<1>5. h \notin R(k)
  OBVIOUS
<1> HIDE DEF R, W
<1> QED
  BY <1>1, <1>2, <1>3, <1>4, <1>5

(* A release takes one guard from the holders of its lock and leaves the   *)
(* others alone.                                                           *)
LEMMA OneHolderLess ==
  ASSUME NEW h \in Guards, Holds(h), ~Holds(h)', mutex_[h] \in Locks,
         \A g \in Guards \ {h} : Holds(g)' <=> Holds(g),
         UNCHANGED <<mutex_, mode>>
  PROVE  /\ mode[h] = "read" =>
              /\ ReadersOf' = [ReadersOf EXCEPT ![mutex_[h]] = ReadersOf[mutex_[h]] \ {h}]
              /\ h \in ReadersOf[mutex_[h]] /\ WritersOf' = WritersOf
         /\ mode[h] # "read" =>
              /\ WritersOf' = [WritersOf EXCEPT ![mutex_[h]] = WritersOf[mutex_[h]] \ {h}]
              /\ h \in WritersOf[mutex_[h]] /\ ReadersOf' = ReadersOf
<1> DEFINE k == mutex_[h]
           R(m) == {g \in Guards : Holds(g) /\ mutex_[g] = m /\ mode[g] = "read"}
           W(m) == {g \in Guards : Holds(g) /\ mutex_[g] = m /\ mode[g] # "read"}
<1>1. ReadersOf = [m \in Locks |-> R(m)] /\ ReadersOf' = [m \in Locks |-> R(m)']
  BY DEF ReadersOf
<1>2. WritersOf = [m \in Locks |-> W(m)] /\ WritersOf' = [m \in Locks |-> W(m)']
  BY DEF WritersOf
<1>3. \A m \in Locks : R(m)' = IF m = k /\ mode[h] = "read" THEN R(m) \ {h} ELSE R(m)
  OBVIOUS
<1>4. \A m \in Locks : W(m)' = IF m = k /\ mode[h] # "read" THEN W(m) \ {h} ELSE W(m)
  OBVIOUS
<1>5. (mode[h] = "read" => h \in R(k)) /\ (mode[h] # "read" => h \in W(k))
  OBVIOUS
<1> HIDE DEF R, W
<1> QED
  BY <1>1, <1>2, <1>3, <1>4, <1>5

-----------------------------------------------------------------------------
(* What a step does to one lock and to the guards that hold it.            *)
Quiet ==
  /\ UNCHANGED raw /\ ReadersOf' = ReadersOf /\ WritersOf' = WritersOf
  /\ \A m \in Locks : \A g \in WritersOf[m] : owner'[g] = owner[g]

Takes(t, g) ==
  /\ owner[g] = t /\ owner' = owner /\ g \notin ReadersOf[mutex_[g]]
  /\ \/ /\ mode[g] = "read"
        /\ ReadersOf' = [ReadersOf EXCEPT ![mutex_[g]] = ReadersOf[mutex_[g]] \cup {g}]
        /\ WritersOf' = WritersOf
     \/ /\ mode[g] # "read"
        /\ WritersOf' = [WritersOf EXCEPT ![mutex_[g]] = WritersOf[mutex_[g]] \cup {g}]
        /\ ReadersOf' = ReadersOf

Gives(t, g) ==
  /\ owner[g] = t /\ owner' = owner
  /\ \/ /\ mode[g] = "read" /\ g \in ReadersOf[mutex_[g]]
        /\ ReadersOf' = [ReadersOf EXCEPT ![mutex_[g]] = ReadersOf[mutex_[g]] \ {g}]
        /\ WritersOf' = WritersOf
     \/ /\ mode[g] # "read" /\ g \in WritersOf[mutex_[g]]
        /\ WritersOf' = [WritersOf EXCEPT ![mutex_[g]] = WritersOf[mutex_[g]] \ {g}]
        /\ ReadersOf' = ReadersOf

(* Every step is one of the three.                                         *)
LEMMA StepKinds ==
  ASSUME LockInv, [Next]_vars
  PROVE  \/ Quiet
         \/ \E t \in Threads, g \in Guards :
              /\ mutex_[g] \in Locks /\ Fits(mutex_[g], mode[g])
              /\ \/ Locked(t, mutex_[g], mode[g]) /\ Takes(t, g)
                 \/ Unlocked(t, mutex_[g]) /\ Gives(t, g)
<1> USE LocksAssumption DEF LockInv, TypeOK, GuardFacts, Calls, Idle, InCall
<1>1. ASSUME UNCHANGED raw, \A g \in Guards : Holds(g)' <=> Holds(g),
             \A g \in Guards : Holds(g) => /\ mutex_'[g] = mutex_[g] /\ mode'[g] = mode[g]
                                           /\ owner'[g] = owner[g]
      PROVE  Quiet
  <2>1. ReadersOf' = ReadersOf /\ WritersOf' = WritersOf
    BY <1>1, SameHolders
  <2>2. \A m \in Locks : \A g \in WritersOf[m] : owner'[g] = owner[g]
    BY <1>1 DEF WritersOf
  <2> QED
    BY <1>1, <2>1, <2>2 DEF Quiet
<1>2. CASE UNCHANGED vars
  BY <1>1, <1>2 DEF vars, Holds
<1>3. ASSUME NEW t \in Threads, NEW g \in Guards, NEW m \in Locks,
             NEW k \in {"lock", "read", "write"}, Construct(t, g, m, k)
      PROVE  Quiet
  <2>1. \A h \in Guards : Holds(h)' <=> Holds(h)
    BY <1>3 DEF Construct, Goto, Holds
  <2>2. \A h \in Guards : Holds(h) => h # g
    BY <1>3 DEF Construct, Holds
  <2> QED
    BY <1>1, <1>3, <2>1, <2>2 DEF Construct
<1>4. ASSUME NEW t \in Threads, NEW g \in Guards, Lock(t, g) PROVE Quiet
  <2>1. \A h \in Guards : Holds(h)' <=> Holds(h)
    BY <1>4 DEF Lock, Goto, Holds
  <2> QED
    BY <1>1, <1>4, <2>1 DEF Lock
<1>5. ASSUME NEW t \in Threads, NEW g \in Guards, NEW op \in {"unlock", "destroy"},
             Released(t, g, op)
      PROVE  Quiet
  <2>1. \A h \in Guards : Holds(h)' <=> Holds(h)
    BY <1>5 DEF Released, Goto, LockedAfter, Holds
  <2>2. \A h \in Guards : Holds(h) => h # g
    BY <1>5 DEF Released, Holds
  <2> QED
    BY <1>1, <1>5, <2>1, <2>2 DEF Released
<1>6. ASSUME NEW t \in Threads, NEW g \in Guards, Acquire(t, g)
      PROVE  mutex_[g] \in Locks /\ Locked(t, mutex_[g], mode[g]) /\ Takes(t, g)
  <2>1. ~Holds(g) /\ Holds(g)' /\ owner[g] = t /\ mutex_[g] \in Locks
    BY <1>6 DEF Acquire, Goto, Holds
  <2>2. \A h \in Guards \ {g} : Holds(h)' <=> Holds(h)
    BY <1>6 DEF Acquire, Goto, Holds
  <2>3. g \notin ReadersOf[mutex_[g]]
    BY <2>1 DEF ReadersOf
  <2> QED
    BY <1>6, <2>1, <2>2, <2>3, OneHolderMore DEF Acquire, Takes
<1>7. ASSUME NEW t \in Threads, NEW g \in Guards, NEW op \in {"unlock", "destroy"},
             Unlock(t, g, op), locked_[g]
      PROVE  mutex_[g] \in Locks /\ Unlocked(t, mutex_[g]) /\ Gives(t, g)
  <2>1. Holds(g) /\ ~Holds(g)' /\ owner[g] = t /\ mutex_[g] \in Locks
    BY <1>7 DEF Unlock, Goto, Holds
  <2>2. \A h \in Guards \ {g} : Holds(h)' <=> Holds(h)
    BY <1>7 DEF Unlock, Goto, Holds
  <2> QED
    BY <1>7, <2>1, <2>2, OneHolderLess DEF Unlock, Gives
<1>8. ASSUME NEW t \in Threads, NEW g \in Guards, NEW op \in {"unlock", "destroy"},
             Unlock(t, g, op), ~locked_[g]
      PROVE  Quiet
  <2>1. \A h \in Guards : (Holds(h)' <=> Holds(h)) /\ (Holds(h) => h # g)
    BY <1>8 DEF Unlock, Holds
  <2> QED
    BY <1>1, <1>8, <2>1 DEF Unlock
<1>9. \A g \in Guards : mutex_[g] \in Locks => Fits(mutex_[g], mode[g])
  OBVIOUS
<1> HIDE LocksAssumption DEF LockInv, TypeOK, GuardFacts, Calls, Idle, InCall
<1> QED
  BY <1>2, <1>3, <1>4, <1>5, <1>6, <1>7, <1>8, <1>9 DEF Next, Step

(* The sets of holders hold guards of the right class only.                *)
LEMMA HolderFacts ==
  /\ \A m \in Locks : ReadersOf[m] \subseteq Guards /\ IsFiniteSet(ReadersOf[m])
  /\ \A m \in Locks : WritersOf[m] \subseteq Guards
  /\ LockInv => \A m \in Flags : ReadersOf[m] = {}
<1>1. \A m \in Locks : ReadersOf[m] \subseteq Guards /\ WritersOf[m] \subseteq Guards
  BY DEF ReadersOf, WritersOf
<1>2. \A m \in Locks : IsFiniteSet(ReadersOf[m])
  BY <1>1, FS_Subset, LocksAssumption
<1>3. LockInv => \A m \in Flags : ReadersOf[m] = {}
  BY LocksAssumption DEF LockInv, GuardFacts, ReadersOf, Fits, Locks
<1> QED
  BY <1>1, <1>2, <1>3

(* Every step keeps what the raw locks know.                               *)
LEMMA RawStep ==
  ASSUME LockInv, [Next]_vars
  PROVE  FlagFacts' /\ RWFacts' /\ [RW!Next]_(RW!vars)
<1> USE LocksAssumption DEF LockInv, TypeOK, Locks
<1> DEFINE Goal == FlagFacts' /\ RWFacts' /\ [RW!Next]_(RW!vars)
<1>0. /\ ReadersOf \in [Locks -> SUBSET Guards] /\ WritersOf \in [Locks -> SUBSET Guards]
      /\ Flags \cap RWMutexes = {}
  BY DEF ReadersOf, WritersOf
<1>1. CASE Quiet
  BY <1>1 DEF Quiet, raw, FlagFacts, RWFacts, RW!vars
<1>2. ASSUME NEW t \in Threads, NEW g \in Guards, mutex_[g] \in Locks, Fits(mutex_[g], mode[g]),
             Locked(t, mutex_[g], mode[g]), Takes(t, g)
      PROVE  Goal
  <2> DEFINE m == mutex_[g]
  <2>1. CASE mode[g] = "lock"
    <3>1. m \in Flags /\ ~flag[m] /\ flag' = [flag EXCEPT ![m] = TRUE] /\ rd' = rd /\ wr' = wr
      BY <1>2, <2>1 DEF Locked, Fits
    <3>2. WritersOf[m] = {} /\ ReadersOf[m] = {}
      BY <3>1, HolderFacts DEF FlagFacts
    <3>3. ReadersOf' = ReadersOf /\ WritersOf' = [WritersOf EXCEPT ![m] = {g}]
      BY <1>2, <2>1, <3>2 DEF Takes
    <3>4. FlagFacts'
      BY <1>0, <3>1, <3>3 DEF FlagFacts
    <3>5. RWFacts'
      BY <1>0, <1>2, <3>1, <3>3 DEF RWFacts, Takes
    <3>6. RW!Write(m, g)
      BY <3>2, <3>3 DEF RW!Write
    <3> QED
      BY <1>2, <3>4, <3>5, <3>6 DEF RW!Next
  <2>2. CASE mode[g] = "read"
    <3>1. m \in RWMutexes /\ wr[m] = NULL /\ rd' = [rd EXCEPT ![m] = rd[m] + 1]
          /\ flag' = flag /\ wr' = wr
      BY <1>2, <2>2 DEF Locked, Fits
    <3>2. WritersOf[m] = {} /\ g \notin ReadersOf[m]
      BY <1>2, <3>1 DEF RWFacts, Takes
    <3>3. WritersOf' = WritersOf /\ ReadersOf' = [ReadersOf EXCEPT ![m] = ReadersOf[m] \cup {g}]
      BY <1>2, <2>2 DEF Takes
    <3>4. FlagFacts'
      BY <3>1, <3>3 DEF FlagFacts
    <3>5. Cardinality(ReadersOf[m] \cup {g}) = Cardinality(ReadersOf[m]) + 1
      BY <1>2, <3>2, HolderFacts, FS_AddElement
    <3>6. RWFacts'
      BY <1>0, <1>2, <3>1, <3>2, <3>3, <3>5 DEF RWFacts, Takes
    <3>7. RW!Read(m, g)
      BY <3>2, <3>3 DEF RW!Read
    <3> QED
      BY <1>2, <3>4, <3>6, <3>7 DEF RW!Next
  <2>3. CASE mode[g] = "write"
    <3>1. m \in RWMutexes /\ wr[m] = NULL /\ rd[m] = 0 /\ wr' = [wr EXCEPT ![m] = t]
          /\ flag' = flag /\ rd' = rd
      BY <1>2, <2>3 DEF Locked, Fits, NoReaders
    <3>2. WritersOf[m] = {}
      BY <3>1 DEF RWFacts
    <3>3. ReadersOf[m] = {}
      BY <1>2, <3>1, HolderFacts, FS_EmptySet DEF RWFacts
    <3>4. ReadersOf' = ReadersOf /\ WritersOf' = [WritersOf EXCEPT ![m] = {g}]
      BY <1>2, <2>3, <3>2 DEF Takes
    <3>5. FlagFacts'
      BY <1>0, <3>1, <3>4 DEF FlagFacts
    <3>6. RWFacts'
      BY <1>0, <1>2, <3>1, <3>3, <3>4 DEF RWFacts, Takes
    <3>7. RW!Write(m, g)
      BY <3>2, <3>3, <3>4 DEF RW!Write
    <3> QED
      BY <1>2, <3>5, <3>6, <3>7 DEF RW!Next
  <2> QED
    BY <1>2, <2>1, <2>2, <2>3
<1>3. ASSUME NEW t \in Threads, NEW g \in Guards, mutex_[g] \in Locks, Fits(mutex_[g], mode[g]),
             Unlocked(t, mutex_[g]), Gives(t, g)
      PROVE  Goal
  <2> DEFINE m == mutex_[g]
  <2>1. RW!Release(m, g)
    <3>1. CASE mode[g] = "read"
      BY <1>3, <3>1 DEF Gives, RW!Release
    <3>2. CASE mode[g] # "read"
      <4>1. WritersOf[m] \ {g} = {}
        BY <1>3, <3>2 DEF Gives, FlagFacts, RWFacts
      <4> QED
        BY <1>3, <3>2, <4>1 DEF Gives, RW!Release
    <3> QED
      BY <3>1, <3>2
  <2>2. CASE m \in Flags
    <3>1. flag' = [flag EXCEPT ![m] = FALSE] /\ rd' = rd /\ wr' = wr
      BY <2>2, <1>3 DEF Unlocked
    <3>2. mode[g] # "read"
      BY <1>3, <2>2 DEF Fits
    <3>3. ReadersOf' = ReadersOf /\ WritersOf' = [WritersOf EXCEPT ![m] = {}]
      BY <1>3, <2>2, <3>2 DEF Gives, FlagFacts
    <3>4. FlagFacts'
      BY <1>0, <2>2, <3>1, <3>3 DEF FlagFacts
    <3>5. RWFacts'
      BY <1>0, <1>3, <2>2, <3>1, <3>3 DEF RWFacts, Gives
    <3> QED
      BY <1>3, <2>1, <3>4, <3>5 DEF RW!Next
  <2>3. CASE m \in RWMutexes /\ wr[m] = t
    <3>1. wr' = [wr EXCEPT ![m] = NULL] /\ flag' = flag /\ rd' = rd
      BY <2>3, <1>3 DEF Unlocked
    <3>2. ReadersOf[m] = {} /\ mode[g] # "read"
      BY <1>3, <2>3 DEF RWFacts, Gives
    <3>3. ReadersOf' = ReadersOf /\ WritersOf' = [WritersOf EXCEPT ![m] = {}]
      BY <1>3, <2>3, <3>2 DEF Gives, RWFacts
    <3>4. FlagFacts'
      BY <1>0, <2>3, <3>1, <3>3 DEF FlagFacts
    <3>5. RWFacts'
      BY <1>0, <1>3, <2>3, <3>1, <3>3 DEF RWFacts, Gives
    <3> QED
      BY <1>3, <2>1, <3>4, <3>5 DEF RW!Next
  <2>4. CASE m \in RWMutexes /\ wr[m] # t
    <3>1. rd' = [rd EXCEPT ![m] = rd[m] - 1] /\ flag' = flag /\ wr' = wr
      BY <2>4, <1>3 DEF Unlocked
    <3>2. mode[g] = "read"
      BY <1>3, <2>4 DEF RWFacts, Gives
    <3>3. WritersOf' = WritersOf /\ ReadersOf' = [ReadersOf EXCEPT ![m] = ReadersOf[m] \ {g}]
          /\ g \in ReadersOf[m]
      BY <1>3, <3>2 DEF Gives
    <3>4. FlagFacts'
      BY <3>1, <3>3 DEF FlagFacts
    <3>5. Cardinality(ReadersOf[m] \ {g}) = Cardinality(ReadersOf[m]) - 1
      <4>1. IsFiniteSet(ReadersOf[m])
        BY <2>4, HolderFacts
      <4> QED
        BY <3>3, <4>1, FS_RemoveElement
    <3>6. RWFacts'
      BY <1>0, <1>3, <2>4, <3>1, <3>3, <3>5 DEF RWFacts, Gives
    <3> QED
      BY <1>3, <2>1, <3>4, <3>6 DEF RW!Next
  <2> QED
    BY <1>3, <2>2, <2>3, <2>4
<1> HIDE LocksAssumption DEF LockInv, TypeOK, Locks, Goal
<1>4. QED
  BY <1>1, <1>2, <1>3, StepKinds DEF Goal

-----------------------------------------------------------------------------
(* The inductive invariant: the flag, the count of readers and the writing *)
(* thread of every lock agree with the locked_ of the guards.              *)
THEOREM LockInvariant == Spec => []LockInv
<1>1. Init => LockInv
  <2> SUFFICES ASSUME Init PROVE LockInv
    OBVIOUS
  <2>1. TypeOK /\ GuardFacts
    BY LocksAssumption DEF Init, TypeOK, GuardFacts, Calls, Idle, InCall
  <2>2. ReadersOf = [m \in Locks |-> {}] /\ WritersOf = [m \in Locks |-> {}]
    BY DEF Init, ReadersOf, WritersOf, Holds
  <2>3. FlagFacts /\ RWFacts
    BY <2>2, FS_EmptySet DEF Init, FlagFacts, RWFacts, Locks
  <2> QED
    BY <2>1, <2>3 DEF LockInv
<1>2. LockInv /\ [Next]_vars => LockInv'
  BY TypeStep, RawStep DEF LockInv
<1> QED
  BY <1>1, <1>2, PTL DEF Spec

(* Two guards that hold one lock at once both read.                        *)
THEOREM MutualExclusionTheorem == Spec => []MutualExclusion
<1>1. LockInv => MutualExclusion
  <2> SUFFICES ASSUME LockInv, NEW g \in Guards, NEW h \in Guards, Holds(g), Holds(h),
                      mutex_[g] = mutex_[h], mode[g] # "read"
               PROVE  g = h
    BY DEF MutualExclusion
  <2> DEFINE m == mutex_[g]
  <2>1. m \in Locks /\ g \in WritersOf[m] /\ h \in ReadersOf[m] \cup WritersOf[m]
    BY DEF LockInv, TypeOK, GuardFacts, Holds, ReadersOf, WritersOf
  <2>2. CASE m \in Flags
    BY <2>1, <2>2, HolderFacts DEF LockInv, FlagFacts
  <2>3. CASE m \in RWMutexes
    BY <2>1, <2>3 DEF LockInv, RWFacts
  <2> QED
    BY <2>1, <2>2, <2>3 DEF Locks
<1> QED
  BY <1>1, LockInvariant, PTL

(* A lock that no guard holds is free, and only such a lock.               *)
THEOREM FreeWhenUnheldTheorem == Spec => []FreeWhenUnheld
<1>1. LockInv => FreeWhenUnheld
  BY DEF LockInv, FlagFacts, RWFacts, FreeWhenUnheld
<1> QED
  BY <1>1, LockInvariant, PTL

(* The guards and the raw locks implement readers-writer locks.            *)
THEOREM GuardsImplementRWLockTheorem == Spec => GuardsImplementRWLock
<1>1. Init => RW!Init
  BY DEF Init, RW!Init, ReadersOf, WritersOf, Holds
<1>2. LockInv /\ [Next]_vars => [RW!Next]_(RW!vars)
  BY RawStep
<1> QED
  BY <1>1, <1>2, LockInvariant, PTL DEF Spec, RW!Spec, GuardsImplementRWLock
=============================================================================
