--------------------------- MODULE FileLogAppender ---------------------------
(***************************************************************************)
(* FileLogAppender of log.cpp, used by several threads at once (as it is   *)
(* when it belongs to two loggers).  Log reopens the file by its name at   *)
(* most every three seconds, so that it follows a file that is renamed or  *)
(* a directory that comes and goes; it tests and writes last_time_ outside *)
(* the lock.  time(0) does not go back.                                    *)
(***************************************************************************)
EXTENDS Naturals

CONSTANTS
  Threads,
  Start,       \* the time at which the appender is made, in seconds
  MaxTime,     \* bound: the time at which the clock stops
  MaxChanges,  \* bound: changes of the file system
  NULL

ASSUME AppenderAssumption ==
  /\ Start \in Nat /\ Start >= 3 /\ MaxTime \in Nat /\ MaxChanges \in Nat
  /\ NULL \notin Threads

VARIABLES
  clock,
  path,        \* which file has the name filename_ (or will, when it is opened)
  dir,         \* a file of that name can be opened
  since,       \* when path or dir changed last
  changes,
  stream,      \* the file that filestream_ has open, 0 if none
  fail,        \* filestream_ converts to false
  last_time_,
  mutex_,      \* the thread that holds the appender's lock
  pc,          \* per thread: where it is in Log
  now          \* per thread: the time of its event

world  == <<clock, path, dir, since, changes>>
object == <<stream, fail, last_time_, mutex_>>
vars   == <<world, object, pc, now>>

Steps == {"idle", "test", "reopen", "close", "open", "stamp", "lock", "write"}

(* The type invariant.                                                     *)
TypeOK ==
  /\ clock \in Nat /\ since \in Nat /\ changes \in Nat
  /\ path \in Nat \ {0} /\ dir \in BOOLEAN
  /\ stream \in Nat /\ fail \in BOOLEAN /\ last_time_ \in Nat
  /\ mutex_ \in Threads \cup {NULL}
  /\ pc \in [Threads -> Steps]
  /\ now \in [Threads -> Nat]

-----------------------------------------------------------------------------
(* filestream_.open: an open stream, or a file that cannot be opened, sets *)
(* failbit.                                                                *)
OpenedStream == IF stream # 0 THEN stream ELSE IF dir THEN path ELSE 0
OpenFails    == stream # 0 \/ ~dir

(* The constructor has called Reopen and left last_time_ at 0.             *)
Init ==
  /\ clock = Start /\ path = 1 /\ dir \in BOOLEAN /\ since = Start /\ changes = 0
  /\ stream = (IF dir THEN path ELSE 0) /\ fail = ~dir
  /\ last_time_ = 0
  /\ mutex_ = NULL
  /\ pc = [t \in Threads |-> "idle"]
  /\ now = [t \in Threads |-> 0]

(* The world: time passes, the file is renamed or its directory changes.   *)
Tick ==
  /\ clock < MaxTime
  /\ clock' = clock + 1
  /\ UNCHANGED <<path, dir, since, changes, object, pc, now>>

Change ==
  /\ changes < MaxChanges
  /\ \/ path' = path + 1 /\ UNCHANGED dir
     \/ dir' = ~dir /\ UNCHANGED path
  /\ since' = clock
  /\ changes' = changes + 1
  /\ UNCHANGED <<clock, object, pc, now>>

-----------------------------------------------------------------------------
Goto(t, l) == pc' = [pc EXCEPT ![t] = l]

NoMutex == TRUE
Free    == mutex_ = NULL

(* The event is made, with the time, before Log is called.                 *)
Event(t) ==
  /\ pc[t] = "idle"
  /\ now' = [now EXCEPT ![t] = clock]
  /\ Goto(t, "test")
  /\ UNCHANGED <<world, object>>

LateDue(t) == now[t] > last_time_ + 3

(* now >= last_time_ + 3                                                   *)
Due(t) == now[t] >= last_time_ + 3

Test(t) ==
  /\ pc[t] = "test"
  /\ Goto(t, IF Due(t) THEN "reopen" ELSE "lock")
  /\ UNCHANGED <<world, object, now>>

(* The lock of Reopen, or the one under which Log writes.                  *)
Lock(t) ==
  /\ pc[t] \in {"reopen", "lock"} /\ Free
  /\ mutex_' = t
  /\ Goto(t, IF pc[t] = "reopen" THEN "close" ELSE "write")
  /\ UNCHANGED <<world, stream, fail, last_time_, now>>

(* if(filestream_) filestream_.close()                                     *)
Close(t) ==
  /\ pc[t] = "close"
  /\ stream' = IF fail THEN stream ELSE 0
  /\ Goto(t, "open")
  /\ UNCHANGED <<world, fail, last_time_, mutex_, now>>

Open(t) ==
  /\ pc[t] = "open"
  /\ stream' = OpenedStream
  /\ fail' = OpenFails
  /\ mutex_' = NULL
  /\ Goto(t, "stamp")
  /\ UNCHANGED <<world, last_time_, now>>

Stamp(t) ==
  /\ pc[t] = "stamp"
  /\ last_time_' = now[t]
  /\ Goto(t, "lock")
  /\ UNCHANGED <<world, stream, fail, mutex_, now>>

(* formatter_->Format into the stream, which may fail and set badbit.      *)
Write(t) ==
  /\ pc[t] = "write"
  /\ fail' \in {fail, TRUE}
  /\ mutex_' = NULL
  /\ Goto(t, "idle")
  /\ UNCHANGED <<world, stream, last_time_, now>>

Next ==
  \/ Tick \/ Change
  \/ \E t \in Threads :
       Event(t) \/ Test(t) \/ Lock(t) \/ Close(t) \/ Open(t) \/ Stamp(t) \/ Write(t)

Spec == Init /\ [][Next]_vars

-----------------------------------------------------------------------------
(* A write has failed on an open stream: Reopen does not close it, and     *)
(* opening it fails for ever after.                                        *)
Stuck == stream # 0 /\ fail

(* An event made three seconds or more after the last change of the file   *)
(* system is written to the file that has the name then, whatever other    *)
(* threads do to last_time_, unless the stream is stuck.                   *)
FollowsPath ==
  \A t \in Threads :
    pc[t] = "write" /\ now[t] >= since + 3 /\ dir /\ ~Stuck => stream = path /\ ~fail

(* No thread writes while another has closed the stream to open it again:  *)
(* an event is lost only after a failure.                                  *)
NotBetweenCloseAndOpen ==
  \A t \in Threads : pc[t] = "write" /\ stream = 0 => fail
=============================================================================
