------------------------------- MODULE Thread -------------------------------
(***************************************************************************)
(* Thread of thread.h and thread.cpp with the Semaphore of mutex.cc.  The  *)
(* constructor starts Run and waits on the semaphore until Run has taken   *)
(* everything it needs from the object; from then on the object may be     *)
(* destroyed while its thread runs.                                        *)
(***************************************************************************)
EXTENDS Naturals, FiniteSets

CONSTANTS
  Clients,   \* the threads that use Thread objects
  Objects,   \* the Thread objects; each is constructed at most once
  NULL,
  Hazards    \* what may happen to the client (see AllHazards)

(*  "signal"    a signal interrupts sem_wait in the constructor            *)
(*  "two join"  two clients call Join on an object at the same time        *)
(*  "rename"    a callback calls SetCurName, even if the object is gone    *)
AllHazards == {"signal", "two join", "rename"}

ASSUME ThreadAssumption ==
  /\ NULL \notin Clients \cup Objects
  /\ Hazards \subseteq AllHazards

VARIABLES
  life,      \* of the object: none, constructing, alive, dead (after ~Thread),
             \* abandoned (after an exception in the constructor)
  thread_,   \* the object's pthread_t is not 0
  id_,       \* Run has stored the thread's id (and name) in the object
  cb_,       \* the callback is still in the object
  sem,       \* the semaphore's count
  run,       \* where the started thread is
  released,  \* times the started thread was joined or detached
  pc,        \* per client: what it does ...
  on,        \* ... and on which object
  fault      \* an access to a dead object or thread, "none" if there was none

vars == <<life, thread_, id_, cb_, sem, run, released, pc, on, fault>>

(* The type invariant: above all, the semaphore is posted at most once.    *)
TypeOK ==
  /\ life \in [Objects -> {"none", "constructing", "alive", "dead", "abandoned"}]
  /\ thread_ \in [Objects -> BOOLEAN]
  /\ id_ \in [Objects -> BOOLEAN]
  /\ cb_ \in [Objects -> BOOLEAN]
  /\ sem \in [Objects -> 0..1]
  /\ run \in [Objects -> {"none", "init", "notify", "callback", "exited"}]
  /\ released \in [Objects -> 0..1]
  /\ pc \in [Clients -> {"idle", "wait", "join", "joining", "joined"}]
  /\ on \in [Clients -> Objects \cup {NULL}]
  /\ fault \in {"none", "destroyed", "abandoned", "renamed", "joined"}

Init ==
  /\ life = [x \in Objects |-> "none"]
  /\ thread_ = [x \in Objects |-> FALSE]
  /\ id_ = [x \in Objects |-> FALSE]
  /\ cb_ = [x \in Objects |-> FALSE]
  /\ sem = [x \in Objects |-> 0]
  /\ run = [x \in Objects |-> "none"]
  /\ released = [x \in Objects |-> 0]
  /\ pc = [c \in Clients |-> "idle"]
  /\ on = [c \in Clients |-> NULL]
  /\ fault = "none"

-----------------------------------------------------------------------------
Begin(c, l, x) == pc' = [pc EXCEPT ![c] = l] /\ on' = [on EXCEPT ![c] = x]
End(c)         == Begin(c, "idle", NULL)
Used(x)        == \E c \in Clients : on[c] = x

Gone(x)    == life[x] \in {"dead", "abandoned"}
WhyGone(x) == IF life[x] = "dead" THEN "destroyed" ELSE "abandoned"

Crash(why) ==
  /\ fault' = why
  /\ UNCHANGED <<life, thread_, id_, cb_, sem, run, released, pc, on>>

(* Thread::Thread up to semaphore_.Wait(); if pthread_create fails the     *)
(* constructor throws and there is no object.                              *)
Construct(c, x) ==
  /\ fault = "none" /\ pc[c] = "idle" /\ life[x] = "none"
  /\ life' = [life EXCEPT ![x] = "constructing"]
  /\ cb_' = [cb_ EXCEPT ![x] = TRUE]
  /\ thread_' = [thread_ EXCEPT ![x] = TRUE]
  /\ run' = [run EXCEPT ![x] = "init"]
  /\ Begin(c, "wait", x)
  /\ UNCHANGED <<id_, sem, released, fault>>

NoWait(x) == TRUE

(* sem_wait returns.                                                       *)
CanPass(x) == sem[x] > 0

(* Semaphore::Wait returns: the object is constructed.                     *)
Constructed(c) ==
  LET x == on[c] IN
  /\ fault = "none" /\ pc[c] = "wait" /\ CanPass(x)
  /\ sem' = [sem EXCEPT ![x] = @ - 1]
  /\ life' = [life EXCEPT ![x] = "alive"]
  /\ End(c)
  /\ UNCHANGED <<thread_, id_, cb_, run, released, fault>>

(* Semaphore::Wait throws when sem_wait is interrupted: the constructor is *)
(* left and the members are destroyed, ~Thread does not run.               *)
Interrupted(c) ==
  /\ fault = "none" /\ pc[c] = "wait" /\ "signal" \in Hazards
  /\ life' = [life EXCEPT ![on[c]] = "abandoned"]
  /\ End(c)
  /\ UNCHANGED <<thread_, id_, cb_, sem, run, released, fault>>

(* Thread::Join up to the test of thread_, which it finds set.             *)
Join(c, x) ==
  /\ fault = "none" /\ pc[c] = "idle" /\ life[x] = "alive" /\ thread_[x]
  /\ "two join" \in Hazards \/ ~Used(x)
  /\ Begin(c, "join", x)
  /\ UNCHANGED <<life, thread_, id_, cb_, sem, run, released, fault>>

Joining(x) == \E c \in Clients : pc[c] = "joining" /\ on[c] = x

(* pthread_join begins to wait, unless another call waits for the thread:  *)
(* then it fails, and Join throws.  The id of a thread that was joined     *)
(* means nothing: pthread_join fails as well, or ends the process.         *)
PthreadJoin(c) ==
  LET x == on[c] IN
  /\ fault = "none" /\ pc[c] = "join"
  /\ \/ /\ released[x] = 0 /\ ~Joining(x)
        /\ Begin(c, "joining", x)
        /\ UNCHANGED <<life, thread_, id_, cb_, sem, run, released, fault>>
     \/ /\ released[x] = 1 \/ Joining(x)
        /\ End(c)
        /\ UNCHANGED <<life, thread_, id_, cb_, sem, run, released, fault>>
     \/ released[x] = 1 /\ Crash("joined")

(* pthread_join returns when the thread has ended.                         *)
Joined(c) ==
  /\ fault = "none" /\ pc[c] = "joining" /\ run[on[c]] = "exited"
  /\ released' = [released EXCEPT ![on[c]] = @ + 1]
  /\ Begin(c, "joined", on[c])
  /\ UNCHANGED <<life, thread_, id_, cb_, sem, run, fault>>

StillSet(x) == thread_

(* thread_ = 0                                                             *)
Cleared(x) == [thread_ EXCEPT ![x] = FALSE]

EndJoin(c) ==
  /\ fault = "none" /\ pc[c] = "joined"
  /\ thread_' = Cleared(on[c])
  /\ End(c)
  /\ UNCHANGED <<life, id_, cb_, sem, run, released, fault>>

(* Thread::~Thread, which detaches a thread that was not joined.           *)
Destroy(c, x) ==
  /\ fault = "none" /\ pc[c] = "idle" /\ life[x] = "alive" /\ ~Used(x)
  /\ life' = [life EXCEPT ![x] = "dead"]
  /\ released' = [released EXCEPT ![x] = IF thread_[x] THEN @ + 1 ELSE @]
  /\ UNCHANGED <<thread_, id_, cb_, sem, run, pc, on, fault>>

-----------------------------------------------------------------------------
(* Thread::Run up to the swap of the callback.                             *)
RunInit(x) ==
  /\ fault = "none" /\ run[x] = "init"
  /\ \/ /\ ~Gone(x)
        /\ id_' = [id_ EXCEPT ![x] = TRUE]
        /\ cb_' = [cb_ EXCEPT ![x] = FALSE]
        /\ run' = [run EXCEPT ![x] = "notify"]
        /\ UNCHANGED <<life, thread_, sem, released, pc, on, fault>>
     \/ Gone(x) /\ Crash(WhyGone(x))

NotPosted(x) == sem[x]

(* sem_post                                                                *)
Posted(x) == sem[x] + 1

(* semaphore_.Notify() of Run: the last access to the object.              *)
RunNotify(x) ==
  /\ fault = "none" /\ run[x] = "notify"
  /\ \/ /\ ~Gone(x)
        /\ sem' = [sem EXCEPT ![x] = Posted(x)]
        /\ run' = [run EXCEPT ![x] = "callback"]
        /\ UNCHANGED <<life, thread_, id_, cb_, released, pc, on, fault>>
     \/ Gone(x) /\ Crash(WhyGone(x))

(* The callback calls SetCurName, which writes to *t_thread.               *)
SetCurName(x) ==
  /\ fault = "none" /\ run[x] = "callback" /\ "rename" \in Hazards /\ Gone(x)
  /\ Crash("renamed")

RunExit(x) ==
  /\ fault = "none" /\ run[x] = "callback"
  /\ run' = [run EXCEPT ![x] = "exited"]
  /\ UNCHANGED <<life, thread_, id_, cb_, sem, released, pc, on, fault>>

-----------------------------------------------------------------------------
ClientStep(c) == Constructed(c) \/ PthreadJoin(c) \/ Joined(c) \/ EndJoin(c)
RunStep(x)    == RunInit(x) \/ RunNotify(x) \/ SetCurName(x) \/ RunExit(x)

Next ==
  \/ \E c \in Clients : ClientStep(c) \/ Interrupted(c) \/ \E x \in Objects : Construct(c, x) \/ Join(c, x) \/ Destroy(c, x)
  \/ \E x \in Objects : RunStep(x)

Spec == Init /\ [][Next]_vars

(* The system runs every thread, and callbacks return.                     *)
FairSpec ==
  /\ Spec
  /\ \A c \in Clients : WF_vars(ClientStep(c))
  /\ \A x \in Objects : WF_vars(RunStep(x))

-----------------------------------------------------------------------------
(* When the constructor returns, Run has stored the thread's id and has    *)
(* taken the callback out of the object.                                   *)
ReadyWhenConstructed ==
  \A x \in Objects : life[x] = "alive" => id_[x] /\ ~cb_[x]

(* Run never touches an object that its client destroyed: a Thread may be  *)
(* destroyed as soon as its constructor has returned, while its thread     *)
(* runs.                                                                   *)
NoDeadAccess == fault # "destroyed"

(* Joined or detached, a thread is released exactly once: between calls    *)
(* thread_ tells whether that is still to be done, also after a Join that  *)
(* threw because another was under way, and ~Thread leaves nothing over.   *)
ReleasedOnce ==
  \A x \in Objects :
    /\ life[x] = "alive" /\ ~Used(x) => (thread_[x] <=> released[x] = 0)
    /\ life[x] = "dead" => released[x] = 1

(* The constructor and Join return.                                        *)
CallsReturn == \A c \in Clients : pc[c] # "idle" ~> (pc[c] = "idle" \/ fault # "none")
=============================================================================
