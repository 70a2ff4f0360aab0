------------------------------- MODULE Fiber -------------------------------
(***************************************************************************)
(* The coroutines of fiber.h and fiber.cpp.  Every thread has a main fiber *)
(* (its native stack) and switches between it and sub-fibers with          *)
(* swapcontext.  A Fiber object is named by its identity; the main fiber   *)
(* of thread t is named t.                                                 *)
(*                                                                         *)
(* SwapIn and SwapOut are two steps each, because state_ is written before *)
(* swapcontext saves the context and another thread may act in between.    *)
(* A failed ZCS_ASSERT or a use of a dead context or object ends the       *)
(* process: it is recorded in fault and nothing happens afterwards.        *)
(***************************************************************************)
EXTENDS Integers, FiniteSets

CONSTANTS
  Threads,   \* the threads of the process
  Fibers,    \* the sub-fibers; each object is constructed at most once
  NULL,      \* nullptr
  Duties,    \* what the code that uses Fiber promises (see AllDuties)
  Throws,    \* what a callback may throw: "std" (std::exception), "other"
  Captures   \* "plain", or "self": the callback captures its own Fiber::ptr

(* The promises a client can make.                                         *)
(*  "through main"  only the main fiber creates, resumes, resets, drops    *)
(*  "one owner"     a Fiber::ptr is moved between threads, never copied,   *)
(*                  and only by the main fiber                             *)
(*  "main first"    GetThis() is called before the thread's first SwapIn   *)
(*  "state checked" SwapIn and Reset are called in a state that fits       *)
(*  "main stays"    the main fiber does not yield                          *)
(*  "serial"        no call on a fiber while another thread is switching   *)
(*                  into it or out of it                                   *)
AllDuties ==
  {"through main", "one owner", "main first", "state checked", "main stays", "serial"}

ASSUME FiberAssumption ==
  /\ IsFiniteSet(Threads) /\ IsFiniteSet(Fibers)
  /\ Threads \cap Fibers = {} /\ NULL \notin Threads \cup Fibers
  /\ Duties \subseteq AllDuties
  /\ Throws \subseteq {"std", "other"} /\ Captures \subseteq {"plain", "self"}

VARIABLES
  state_,          \* state_ of every object, "none" before, "freed" after its life
  ctx_,            \* where a sub-fiber's saved context resumes
  cb_,             \* the sub-fiber's callback
  id_,             \* the sub-fiber's id
  self,            \* Fiber::ptr's named cur that live on the fiber's own stack
  handles,         \* the threads whose code holds a Fiber::ptr to the sub-fiber
  t_fiber,         \* per thread: the current fiber
  t_thread_fiber,  \* per thread: the main fiber
  main_ctx,        \* per thread: the stack saved in the main fiber's ctx_
  cpu,             \* per thread: the stack it executes on
  pc,              \* per thread: inside SwapIn, inside SwapOut or in client code
  s_fiber_id,
  s_fiber_count,
  fault            \* what ended the process, "none" while it runs

objVars    == <<state_, ctx_, cb_, id_, self, handles>>
threadVars == <<t_fiber, t_thread_fiber, main_ctx, cpu, pc>>
vars       == <<objVars, threadVars, s_fiber_id, s_fiber_count, fault>>

Objects == Fibers \cup Threads
States  == {"INIT", "HOLD", "EXEC", "TERM", "READY", "EXECPT"}
Faults  == {"none", "assert", "null", "stale", "freed"}

ResettableNotAfterThrow == {"INIT", "TERM"}
ResettableSuspended     == {"INIT", "HOLD", "READY", "TERM", "EXECPT"}

(* The states in which ~Fiber and Reset accept a sub-fiber.                *)
Resettable == {"INIT", "TERM", "EXECPT"}

(* The type invariant: above all, no reference or object count is          *)
(* negative.                                                               *)
TypeOK ==
  /\ state_ \in [Objects -> States \cup {"none", "freed"}]
  /\ ctx_ \in [Fibers -> {"entry", "yield", "end"}]
  /\ cb_ \in [Fibers -> {"none", "plain", "self"}]
  /\ id_ \in [Fibers -> Nat]
  /\ self \in [Objects -> Nat]
  /\ handles \in [Fibers -> SUBSET Threads]
  /\ t_fiber \in [Threads -> Objects \cup {NULL}]
  /\ t_thread_fiber \in [Threads -> Threads \cup {NULL}]
  /\ main_ctx \in [Threads -> Objects \cup {NULL}]
  /\ cpu \in [Threads -> Objects]
  /\ pc \in [Threads -> {"code", "swapin", "yield", "end", "exited"}]
  /\ s_fiber_id \in Nat
  /\ s_fiber_count \in Nat
  /\ fault \in Faults

Init ==
  /\ state_ = [o \in Objects |-> "none"]
  /\ ctx_ = [f \in Fibers |-> "entry"]
  /\ cb_ = [f \in Fibers |-> "none"]
  /\ id_ = [f \in Fibers |-> 0]
  /\ self = [o \in Objects |-> 0]
  /\ handles = [f \in Fibers |-> {}]
  /\ t_fiber = [t \in Threads |-> NULL]
  /\ t_thread_fiber = [t \in Threads |-> NULL]
  /\ main_ctx = [t \in Threads |-> NULL]
  /\ cpu = [t \in Threads |-> t]
  /\ pc = [t \in Threads |-> "code"]
  /\ s_fiber_id = 0
  /\ s_fiber_count = 0
  /\ fault = "none"

-----------------------------------------------------------------------------
(* Client code runs on thread t, on the native stack or inside a callback. *)
InCode(t) == fault = "none" /\ pc[t] = "code"

OnCpu(f) == \E t \in Threads : cpu[t] = f

(* Some thread is inside SwapIn of f, or inside f's SwapOut.               *)
Switching(f) ==
  \E u \in Threads :
    \/ pc[u] = "swapin" /\ t_fiber[u] = f
    \/ pc[u] \in {"yield", "end"} /\ cpu[u] = f

(* The client's promises, as conditions on its calls.                      *)
OneOwner     == "one owner" \in Duties
ByMain(t)    == "through main" \in Duties => cpu[t] = t
MainFirst(t) == "main first" \in Duties => t_thread_fiber[t] # NULL
MainStays(t) == "main stays" \in Duties => cpu[t] \in Fibers
Checked(fit) == "state checked" \in Duties => fit
Serial(f)    == "serial" \in Duties => ~Switching(f)

Goto(t, l) == pc' = [pc EXCEPT ![t] = l]

(* The process dies; the rest of the state no longer matters.              *)
Abort(why) ==
  /\ fault' = why
  /\ UNCHANGED <<objVars, threadVars, s_fiber_id, s_fiber_count>>

SetThis(t, f) == t_fiber' = [t_fiber EXCEPT ![t] = f]

(* A sub-fiber that nothing but the shared_ptr being released refers to.   *)
LastHandle(t, f) == handles[f] \subseteq {t} /\ self[f] = 0 /\ cb_[f] # "self"
LastCur(f)       == handles[f] = {} /\ self[f] = 1 /\ cb_[f] # "self"

-----------------------------------------------------------------------------
(* Fiber::Fiber(), the main fiber of thread t.                             *)
MainFiber(t) ==
  /\ state_' = [state_ EXCEPT ![t] = "EXEC"]
  /\ SetThis(t, t)
  /\ s_fiber_count' = s_fiber_count + 1

(* Fiber::GetThis on a thread that has no fiber yet makes the main fiber.  *)
(* (With a fiber it changes nothing.)                                      *)
GetThis(t) ==
  /\ InCode(t) /\ t_fiber[t] = NULL
  /\ MainFiber(t)
  /\ t_thread_fiber' = [t_thread_fiber EXCEPT ![t] = t]
  /\ UNCHANGED <<ctx_, cb_, id_, self, handles, main_ctx, cpu, pc, s_fiber_id, fault>>

(* Fiber::Fiber(cb, stacksize): the caller keeps the only Fiber::ptr.      *)
New(t, f) ==
  /\ InCode(t) /\ ByMain(t) /\ state_[f] = "none"
  /\ id_' = [id_ EXCEPT ![f] = s_fiber_id + 1]
  /\ s_fiber_id' = s_fiber_id + 1
  /\ s_fiber_count' = s_fiber_count + 1
  /\ state_' = [state_ EXCEPT ![f] = "INIT"]
  /\ cb_' = [cb_ EXCEPT ![f] = "plain"]
  /\ ctx_' = [ctx_ EXCEPT ![f] = "entry"]
  /\ handles' = [handles EXCEPT ![f] = {t}]
  /\ UNCHANGED <<self, threadVars, fault>>

StaleContext(f) == ctx_[f]

(* What makecontext leaves in ctx_.                                        *)
FreshContext(f) == "entry"

(* Fiber::Reset: a new callback and a fresh context, on the same stack.    *)
Reset(t, f, c) ==
  /\ InCode(t) /\ ByMain(t) /\ t \in handles[f] /\ Serial(f)
  /\ Checked(state_[f] \in Resettable)
  /\ \/ /\ state_[f] \in Resettable
        /\ cb_' = [cb_ EXCEPT ![f] = c]
        /\ ctx_' = [ctx_ EXCEPT ![f] = FreshContext(f)]
        /\ state_' = [state_ EXCEPT ![f] = "INIT"]
        /\ UNCHANGED <<id_, self, handles, threadVars, s_fiber_id, s_fiber_count, fault>>
     \/ /\ state_[f] \notin Resettable
        /\ Abort("assert")

NotAsserted(f) == TRUE

(* The assertion of Fiber::SwapIn.                                         *)
Resumable(f) == state_[f] # "EXEC"

(* Fiber::SwapIn up to the assertion.                                      *)
SwapIn(t, f) ==
  /\ InCode(t) /\ ByMain(t) /\ t \in handles[f] /\ Serial(f)
  /\ MainFirst(t) /\ Checked(state_[f] \in {"INIT", "HOLD", "READY"})
  /\ \/ /\ Resumable(f)
        /\ SetThis(t, f)
        /\ Goto(t, "swapin")
        /\ UNCHANGED <<objVars, t_thread_fiber, main_ctx, cpu, s_fiber_id, s_fiber_count, fault>>
     \/ /\ ~Resumable(f)
        /\ Abort("assert")

CurAfterRawEntry(f) == IF ctx_[f] = "entry" THEN self[f] ELSE self[f] - 1

(* The stack on which SwapIn continues, and the cur's on it afterwards: at *)
(* the entry MainFunc takes one, on return to YieldTo* its cur goes away.  *)
CurAfterEntry(f) == IF ctx_[f] = "entry" THEN self[f] + 1 ELSE self[f] - 1

NothingSaved(t) == main_ctx[t]

(* What swapcontext saves in the main fiber's ctx_: the caller's stack.    *)
Saved(t) == cpu[t]

(* The rest of SwapIn: state_ = EXEC and swapcontext into the fiber.  Two  *)
(* threads on one stack is the end: nothing is defined from there on.      *)
Enter(t) ==
  LET f == t_fiber[t] IN
  /\ fault = "none" /\ pc[t] = "swapin"
  /\ \/ /\ t_thread_fiber[t] # NULL /\ ctx_[f] # "end"
        /\ state_' = [state_ EXCEPT ![f] = "EXEC"]
        /\ main_ctx' = [main_ctx EXCEPT ![t] = Saved(t)]
        /\ cpu' = [cpu EXCEPT ![t] = f]
        /\ Goto(t, "code")
        /\ self' = IF OnCpu(f) THEN self ELSE [self EXCEPT ![f] = CurAfterEntry(f)]
        /\ fault' = IF OnCpu(f) THEN "stale" ELSE fault
        /\ UNCHANGED <<ctx_, cb_, id_, handles, t_fiber, t_thread_fiber,
                       s_fiber_id, s_fiber_count>>
     \/ /\ t_thread_fiber[t] = NULL          \* &t_thread_fiber->ctx_
        /\ Abort("null")
     \/ /\ t_thread_fiber[t] # NULL /\ ctx_[f] = "end"   \* "never reach!"
        /\ Abort("assert")

(* Fiber::YieldToHold and YieldToReady up to the call of SwapOut.  (On a   *)
(* thread without a fiber their GetThis() is the step GetThis, taken first.) *)
Yield(t, s) ==
  LET cur == t_fiber[t] IN
  /\ InCode(t) /\ cur # NULL
  /\ MainStays(t)
  /\ \/ /\ state_[cur] = "EXEC"
        /\ state_' = [state_ EXCEPT ![cur] = s]
        /\ self' = [self EXCEPT ![cur] = @ + 1]
        /\ Goto(t, "yield")
        /\ UNCHANGED <<ctx_, cb_, id_, handles, t_fiber, t_thread_fiber, main_ctx, cpu,
                       s_fiber_id, s_fiber_count, fault>>
     \/ /\ state_[cur] # "EXEC"
        /\ Abort("assert")

(* state_ after the callback ended: the handler of std::exception leaves   *)
(* it alone, catch (...) sets EXECPT.                                      *)
StateAfter(f, how) ==
  CASE how = "return" -> "TERM"
    [] how = "std"    -> state_[f]
    [] how = "other"  -> "EXECPT"

CurIsKept(f) == self[f]

(* cur.reset()                                                             *)
CurAfterFinish(f) == self[f] - 1

(* The end of Fiber::MainFunc: the callback returned or threw, cur is      *)
(* released; cb_ keeps its value (cur->cb_ == nullptr compares).           *)
Finish(t, how) ==
  LET f == cpu[t] IN
  /\ InCode(t) /\ f \in Fibers
  /\ \/ /\ ~LastCur(f)
        /\ state_' = [state_ EXCEPT ![f] = StateAfter(f, how)]
        /\ self' = [self EXCEPT ![f] = CurAfterFinish(f)]
        /\ Goto(t, "end")
        /\ UNCHANGED <<ctx_, cb_, id_, handles, t_fiber, t_thread_fiber, main_ctx, cpu,
                       s_fiber_id, s_fiber_count, fault>>
     \/ /\ LastCur(f)      \* ~Fiber frees the stack that SwapOut would run on
        /\ Abort("freed")

StillThis(t) == t_fiber[t]

(* The fiber that SwapOut makes current.                                   *)
Returned(t) == t_thread_fiber[t]

SameStack(t) == cpu[t]

(* The stack on which the thread continues after SwapOut.                  *)
Restored(t) == main_ctx[t]

(* Fiber::SwapOut, called by YieldTo* on the current fiber and by MainFunc *)
(* on its own: back to whatever the main fiber's ctx_ holds.               *)
SwapOut(t) ==
  LET this == IF pc[t] = "end" THEN cpu[t] ELSE t_fiber[t] IN
  /\ fault = "none" /\ pc[t] \in {"yield", "end"}
  /\ \/ /\ this \in Fibers /\ main_ctx[t] # NULL
        /\ SetThis(t, Returned(t))
        /\ ctx_' = [ctx_ EXCEPT ![this] = pc[t]]
        /\ cpu' = [cpu EXCEPT ![t] = Restored(t)]
        /\ main_ctx' = [main_ctx EXCEPT ![t] = NULL]
        /\ Goto(t, "code")
        /\ UNCHANGED <<state_, cb_, id_, self, handles, t_thread_fiber,
                       s_fiber_id, s_fiber_count, fault>>
     \/ /\ this \in Fibers /\ main_ctx[t] = NULL
        /\ Abort("stale")
     \/ /\ this \notin Fibers        \* the main fiber swaps with itself
        /\ self' = [self EXCEPT ![this] = @ - 1]
        /\ Goto(t, "code")
        /\ UNCHANGED <<state_, ctx_, cb_, id_, handles, t_fiber, t_thread_fiber,
                       main_ctx, cpu, s_fiber_id, s_fiber_count, fault>>

Release(t, f) == handles' = [handles EXCEPT ![f] = @ \ {t}]

NotCounted == s_fiber_count

(* --s_fiber_count                                                         *)
OneFewer == s_fiber_count - 1

(* Fiber::~Fiber of a sub-fiber, run by thread t.                          *)
Destroy(t, f) ==
  \/ /\ state_[f] \in Resettable /\ ~OnCpu(f)
     /\ Release(t, f)
     /\ state_' = [state_ EXCEPT ![f] = "freed"]
     /\ s_fiber_count' = OneFewer
     /\ UNCHANGED <<ctx_, cb_, id_, self, threadVars, s_fiber_id, fault>>
  \/ /\ state_[f] \in Resettable /\ OnCpu(f)
     /\ Abort("freed")
  \/ /\ state_[f] \notin Resettable
     /\ Abort("assert")

(* Client code of thread t releases its Fiber::ptr; the last one destroys. *)
Drop(t, f) ==
  /\ InCode(t) /\ ByMain(t) /\ t \in handles[f] /\ Serial(f)
  /\ \/ LastHandle(t, f) /\ Destroy(t, f)
     \/ /\ ~LastHandle(t, f)
        /\ Release(t, f)
        /\ UNCHANGED <<state_, ctx_, cb_, id_, self, threadVars,
                       s_fiber_id, s_fiber_count, fault>>

(* Moving a Fiber::ptr leaves the giver without it.                        *)
MovedTo(t, u, f) == (handles[f] \ {t}) \cup {u}

(* Client code passes a Fiber::ptr to thread u: a holder its own, a fiber  *)
(* the one GetThis() gives it.                                             *)
HandOver(t, u, f) ==
  /\ InCode(t) /\ ByMain(t) /\ u # t /\ pc[u] # "exited"
  /\ \/ /\ OneOwner /\ cpu[t] = t /\ t \in handles[f]
        /\ handles' = [handles EXCEPT ![f] = MovedTo(t, u, f)]
     \/ /\ ~OneOwner /\ (t \in handles[f] \/ cpu[t] = f)
        /\ handles' = [handles EXCEPT ![f] = handles[f] \cup {u}]
  /\ UNCHANGED <<state_, ctx_, cb_, id_, self, threadVars, s_fiber_id, s_fiber_count, fault>>

(* The thread's function returned: t_thread_fiber is destroyed with it.    *)
ThreadExit(t) ==
  /\ InCode(t) /\ cpu[t] = t /\ \A f \in Fibers : t \notin handles[f]
  /\ \/ /\ t_thread_fiber[t] = NULL
        /\ Goto(t, "exited")
        /\ UNCHANGED <<objVars, t_fiber, t_thread_fiber, main_ctx, cpu,
                       s_fiber_id, s_fiber_count, fault>>
     \/ /\ t_thread_fiber[t] # NULL /\ state_[t] = "EXEC"
        /\ state_' = [state_ EXCEPT ![t] = "freed"]
        /\ s_fiber_count' = OneFewer
        /\ SetThis(t, NULL)
        /\ t_thread_fiber' = [t_thread_fiber EXCEPT ![t] = NULL]
        /\ Goto(t, "exited")
        /\ UNCHANGED <<ctx_, cb_, id_, self, handles, main_ctx, cpu, s_fiber_id, fault>>
     \/ /\ t_thread_fiber[t] # NULL /\ state_[t] # "EXEC"
        /\ Abort("assert")

-----------------------------------------------------------------------------
(* What thread t does inside a callback or inside a context switch.        *)
FiberStep(t) ==
  \/ Enter(t)
  \/ SwapOut(t)
  \/ cpu[t] \in Fibers /\ \E s \in {"HOLD", "READY"} : Yield(t, s)
  \/ \E how \in {"return"} \cup Throws : Finish(t, how)

ClientStep(t) ==
  \/ GetThis(t)
  \/ cpu[t] \notin Fibers /\ \E s \in {"HOLD", "READY"} : Yield(t, s)
  \/ ThreadExit(t)
  \/ \E f \in Fibers :
       \/ New(t, f)
       \/ \E c \in Captures : Reset(t, f, c)
       \/ SwapIn(t, f)
       \/ Drop(t, f)
       \/ \E u \in Threads : HandOver(t, u, f)

Next == \E t \in Threads : FiberStep(t) \/ ClientStep(t)

Spec == Init /\ [][Next]_vars

(* The operating system keeps running every thread and a callback does not *)
(* run for ever without yielding.                                          *)
FairSpec == Spec /\ \A t \in Threads : WF_vars(FiberStep(t))

-----------------------------------------------------------------------------
Alive(o)   == state_[o] \in States
Stranded(f) == state_[f] = "EXEC" /\ ctx_[f] = "end" /\ ~OnCpu(f)

(* A sub-fiber's stack is executed by at most one thread: what the         *)
(* assertion state_ != EXEC of SwapIn is there for.                        *)
OneThreadPerStack ==
  \A t, u \in Threads : cpu[t] \in Fibers /\ cpu[t] = cpu[u] => t = u

(* In client code the thread's current fiber (what GetThis, GetFiberId and *)
(* YieldTo* act on) is the one whose stack it executes on.                 *)
CurrentFiberIsRunning ==
  \A t \in Threads :
    pc[t] = "code" /\ t_thread_fiber[t] # NULL => t_fiber[t] = cpu[t]

(* state_ tells where the fiber's context stands, so that SwapIn resumes   *)
(* what the state promises: a fresh fiber at its entry, a suspended one in *)
(* the YieldTo* that suspended it, an ended one nowhere.                   *)
StateMatchesContext ==
  \A f \in Fibers :
    /\ state_[f] = "INIT" => ctx_[f] = "entry" /\ ~OnCpu(f)
    /\ state_[f] \in {"HOLD", "READY"} =>
         \/ ctx_[f] = "yield" /\ ~OnCpu(f)
         \/ \E t \in Threads : cpu[t] = f /\ pc[t] = "yield"
    /\ state_[f] \in {"TERM", "EXECPT"} =>
         \/ ctx_[f] = "end" /\ ~OnCpu(f)
         \/ \E t \in Threads : cpu[t] = f /\ pc[t] = "end"
    /\ state_[f] = "EXEC" => OnCpu(f) \/ Stranded(f)

(* While a sub-fiber runs, the main fiber's ctx_ holds the thread's native *)
(* stack: the switch back goes through the main fiber.                     *)
MainContextIsHome ==
  \A t \in Threads : cpu[t] \in Fibers => main_ctx[t] = t

(* A suspended fiber is kept alive by the cur's on its own stack, an ended *)
(* one holds none: it dies with the last handle of its users, so no ended  *)
(* fiber that nobody holds is left behind.                                 *)
OwnReferences ==
  \A f \in Fibers :
    /\ state_[f] \in {"HOLD", "READY"} => self[f] = 2
    /\ Alive(f) /\ ctx_[f] = "end" /\ ~OnCpu(f) => self[f] = 0 /\ handles[f] # {}

(* A disciplined client's process is never ended by the library except by  *)
(* destroying a fiber that a std::exception left in EXEC.                  *)
OnlyStrandedFibersAbort ==
  fault # "none" => fault = "assert" /\ \E f \in Fibers : Stranded(f)

(* The process never dies.                                                 *)
NoFault == fault = "none"

(* TotalFibers() is the number of Fiber objects alive.                     *)
CountIsExact ==
  s_fiber_count = Cardinality({o \in Objects : Alive(o)})

(* A thread that resumed a fiber gets control back, unless the process is  *)
(* ended by the destruction of a fiber that a std::exception left in EXEC. *)
MainRegainsControl ==
  \A t \in Threads :
    cpu[t] # t ~> (cpu[t] = t \/ (fault # "none" /\ \E f \in Fibers : Stranded(f)))

-----------------------------------------------------------------------------
(* Where a sub-fiber stands, and which one a thread runs, for a client.    *)
Standing(f) ==
  CASE state_[f] = "none"  -> "none"
    [] state_[f] = "freed" -> "destroyed"
    [] Alive(f) /\ OnCpu(f) -> "running"
    [] Alive(f) /\ ~OnCpu(f) ->
         CASE ctx_[f] = "entry" -> "fresh"
           [] ctx_[f] = "yield" -> "suspended"
           [] ctx_[f] = "end"   -> "ended"

Runs(t) == IF cpu[t] \in Fibers THEN cpu[t] ELSE NULL

Co == INSTANCE Coroutine WITH st  <- [f \in Fibers |-> Standing(f)],
                              run <- [t \in Threads |-> Runs(t)]

(* To a disciplined client fibers are coroutines: the checks of state_, the *)
(* order of state_ and swapcontext and the reuse of stacks never let it    *)
(* see anything else.                                                      *)
FibersAreCoroutines == Co!Spec
=============================================================================
