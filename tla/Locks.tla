------------------------------- MODULE Locks -------------------------------
(***************************************************************************)
(* The locks of mutex.h and the scoped guards through which the code takes *)
(* them: CASLock, Mutex and SpinLock, which are one flag, and RWMutex, the *)
(* pthread_rwlock_t of glibc, which counts its readers and knows the       *)
(* thread that writes.  The locks know nothing of guards: a guard's        *)
(* locked_ alone decides whether its Unlock or its destructor releases.    *)
(***************************************************************************)
EXTENDS Integers, FiniteSets

CONSTANTS
  Threads,
  Guards,      \* guard objects, constructed and destroyed over and over
  Flags,       \* the locks that are a flag: CASLock, Mutex, SpinLock
  RWMutexes,
  NULL

Locks == Flags \cup RWMutexes

ASSUME LocksAssumption ==
  /\ IsFiniteSet(Guards)
  /\ Flags \cap RWMutexes = {} /\ NULL \notin Threads \cup Locks

VARIABLES
  flag,      \* per flag: it is set
  rd,        \* per RWMutex: the number of its readers
  wr,        \* per RWMutex: the thread that writes, or NULL
  mutex_,    \* per guard: the lock it refers to, NULL when there is no guard
  mode,      \* per guard: "lock", "read" or "write", its class
  owner,     \* per guard: the thread on whose stack it is
  locked_,   \* per guard
  call       \* per thread: the call on a guard it is in

raw  == <<flag, rd, wr>>
vars == <<raw, mutex_, mode, owner, locked_, call>>

(* A thread is in no call; waits for the lock of g; or has released it but *)
(* not yet reset locked_ of g, in Unlock or in the destructor.             *)
Idle  == [op |-> "none"]
Calls == {Idle} \cup [op : {"acquire", "unlock", "destroy"}, of : Guards]

(* The type invariant.                                                     *)
TypeOK ==
  /\ flag \in [Flags -> BOOLEAN]
  /\ rd \in [RWMutexes -> Int]
  /\ wr \in [RWMutexes -> Threads \cup {NULL}]
  /\ mutex_ \in [Guards -> Locks \cup {NULL}]
  /\ mode \in [Guards -> {"lock", "read", "write"}]
  /\ owner \in [Guards -> Threads]
  /\ locked_ \in [Guards -> BOOLEAN]
  /\ call \in [Threads -> Calls]

Init ==
  /\ flag = [m \in Flags |-> FALSE]
  /\ rd = [m \in RWMutexes |-> 0]
  /\ wr = [m \in RWMutexes |-> NULL]
  /\ mutex_ = [g \in Guards |-> NULL]
  /\ mode = [g \in Guards |-> "lock"]
  /\ owner \in [Guards -> Threads]
  /\ locked_ = [g \in Guards |-> FALSE]
  /\ call = [t \in Threads |-> Idle]

-----------------------------------------------------------------------------
Goto(t, c) == call' = [call EXCEPT ![t] = c]

InCall(t, op, g) == call[t] = [op |-> op, of |-> g]

ReadersOnly(m) == TRUE

(* A writer waits for the readers.                                         *)
NoReaders(m) == rd[m] = 0

(* mutex_.lock(), rdlock() or wrlock() returns.                            *)
Locked(t, m, k) ==
  \/ /\ k = "lock" /\ ~flag[m]
     /\ flag' = [flag EXCEPT ![m] = TRUE]
     /\ UNCHANGED <<rd, wr>>
  \/ /\ k = "read" /\ wr[m] = NULL
     /\ rd' = [rd EXCEPT ![m] = @ + 1]
     /\ UNCHANGED <<flag, wr>>
  \/ /\ k = "write" /\ wr[m] = NULL /\ NoReaders(m)
     /\ wr' = [wr EXCEPT ![m] = t]
     /\ UNCHANGED <<flag, rd>>

(* mutex_.unlock().  glibc tells a writer from a reader by the thread.     *)
Unlocked(t, m) ==
  \/ /\ m \in Flags
     /\ flag' = [flag EXCEPT ![m] = FALSE]
     /\ UNCHANGED <<rd, wr>>
  \/ /\ m \in RWMutexes /\ wr[m] = t
     /\ wr' = [wr EXCEPT ![m] = NULL]
     /\ UNCHANGED <<flag, rd>>
  \/ /\ m \in RWMutexes /\ wr[m] # t
     /\ rd' = [rd EXCEPT ![m] = @ - 1]
     /\ UNCHANGED <<flag, wr>>

Fits(m, k) == m \in (IF k = "lock" THEN Flags ELSE RWMutexes)

(* Assumed of the code that uses the guards: no thread locks an RWMutex    *)
(* that it writes itself.  (glibc would answer EDEADLK, which the guards   *)
(* ignore; locking a flag or a read lock again waits, as modelled.)        *)
WritesNot(t, m) == m \in RWMutexes => wr[m] # t

(* ScopedLockImpl(mutex), ReadScopedLockImpl, WriteScopedLockImpl.         *)
Construct(t, g, m, k) ==
  /\ call[t] = Idle /\ mutex_[g] = NULL /\ Fits(m, k) /\ WritesNot(t, m)
  /\ mutex_' = [mutex_ EXCEPT ![g] = m]
  /\ mode' = [mode EXCEPT ![g] = k]
  /\ owner' = [owner EXCEPT ![g] = t]
  /\ Goto(t, [op |-> "acquire", of |-> g])
  /\ UNCHANGED <<raw, locked_>>

MayLock(g) == TRUE

(* Lock() does nothing on a guard that is locked.                          *)
NotYet(g) == ~locked_[g]

Lock(t, g) ==
  /\ call[t] = Idle /\ mutex_[g] # NULL /\ owner[g] = t /\ NotYet(g)
  /\ WritesNot(t, mutex_[g])
  /\ Goto(t, [op |-> "acquire", of |-> g])
  /\ UNCHANGED <<raw, mutex_, mode, owner, locked_>>

(* The lock is there: locked_ = true.                                      *)
Acquire(t, g) ==
  /\ InCall(t, "acquire", g)
  /\ Locked(t, mutex_[g], mode[g])
  /\ locked_' = [locked_ EXCEPT ![g] = TRUE]
  /\ Goto(t, Idle)
  /\ UNCHANGED <<mutex_, mode, owner>>

(* Unlock() and the destructor release the lock of a locked guard, and     *)
(* that thread alone knows for a moment that the guard is not locked.      *)
Unlock(t, g, op) ==
  /\ call[t] = Idle /\ mutex_[g] # NULL /\ owner[g] = t
  /\ \/ /\ locked_[g]
        /\ Unlocked(t, mutex_[g])
        /\ Goto(t, [op |-> op, of |-> g])
        /\ UNCHANGED <<mutex_, mode, owner, locked_>>
     \/ /\ ~locked_[g] /\ op = "destroy"
        /\ mutex_' = [mutex_ EXCEPT ![g] = NULL]
        /\ UNCHANGED <<raw, mode, owner, locked_, call>>

StillLocked(g, op) == op = "unlock"

(* locked_ = false                                                         *)
LockedAfter(g, op) == FALSE

(* The rest of Unlock and of the destructor.                               *)
Released(t, g, op) ==
  /\ InCall(t, op, g)
  /\ locked_' = [locked_ EXCEPT ![g] = LockedAfter(g, op)]
  /\ mutex_' = IF op = "destroy" THEN [mutex_ EXCEPT ![g] = NULL] ELSE mutex_
  /\ Goto(t, Idle)
  /\ UNCHANGED <<raw, mode, owner>>

Step(t, g) ==
  \/ \E m \in Locks, k \in {"lock", "read", "write"} : Construct(t, g, m, k)
  \/ Lock(t, g)
  \/ Acquire(t, g)
  \/ \E op \in {"unlock", "destroy"} : Unlock(t, g, op) \/ Released(t, g, op)

Next == \E t \in Threads, g \in Guards : Step(t, g)

Spec == Init /\ [][Next]_vars

-----------------------------------------------------------------------------
(* The guard's lock is held for it: locked_, unless it was just released.  *)
Holds(g) ==
  /\ locked_[g]
  /\ \A op \in {"unlock", "destroy"} : ~InCall(owner[g], op, g)

ReadersOf == [m \in Locks |-> {g \in Guards : Holds(g) /\ mutex_[g] = m /\ mode[g] = "read"}]
WritersOf == [m \in Locks |-> {g \in Guards : Holds(g) /\ mutex_[g] = m /\ mode[g] # "read"}]

RW == INSTANCE RWLock WITH readers <- ReadersOf, writers <- WritersOf

(* The guards keep the promise of a readers-writer lock, through explicit  *)
(* Lock and Unlock calls and destructors in any order: what the code under *)
(* a guard relies on.                                                      *)
GuardsImplementRWLock == RW!Spec

(* A guard that holds its lock exclusively is the only one to hold it: in  *)
(* particular no destructor releases a lock its guard does not hold.       *)
MutualExclusion ==
  \A g, h \in Guards :
    Holds(g) /\ Holds(h) /\ mutex_[g] = mutex_[h] /\ mode[g] # "read" => g = h

(* A lock is free exactly when no guard holds it: it is neither lost (taken *)
(* for ever) nor given out twice.                                          *)
FreeWhenUnheld ==
  /\ \A m \in Flags : flag[m] <=> WritersOf[m] # {}
  /\ \A m \in RWMutexes :
       /\ rd[m] = Cardinality(ReadersOf[m])
       /\ wr[m] # NULL <=> WritersOf[m] # {}
=============================================================================
