---------------------------- MODULE FiberProofs ----------------------------
(***************************************************************************)
(* Theorems about Fiber, for every set of threads and fibers.              *)
(***************************************************************************)
EXTENDS Fiber, FiniteSetTheorems, TLAPS

(* The part of the type invariant that is inductive without knowing how    *)
(* many references and objects there are.                                  *)
Typed ==
  /\ state_ \in [Objects -> States \cup {"none", "freed"}]
  /\ ctx_ \in [Fibers -> {"entry", "yield", "end"}]
  /\ cb_ \in [Fibers -> {"none", "plain", "self"}]
  /\ id_ \in [Fibers -> Nat]
  /\ self \in [Objects -> Int]
  /\ handles \in [Fibers -> SUBSET Threads]
  /\ t_fiber \in [Threads -> Objects \cup {NULL}]
  /\ t_thread_fiber \in [Threads -> Threads \cup {NULL}]
  /\ main_ctx \in [Threads -> Objects \cup {NULL}]
  /\ cpu \in [Threads -> Objects]
  /\ pc \in [Threads -> {"code", "swapin", "yield", "end", "exited"}]
  /\ s_fiber_id \in Nat
  /\ s_fiber_count \in Int
  /\ fault \in Faults

(* A thread inside SwapIn holds a pointer to the fiber it switches to.     *)
SwapInHolds ==
  \A t \in Threads :
    pc[t] = "swapin" => t_fiber[t] \in Fibers /\ t \in handles[t_fiber[t]]

(* The threads' own bookkeeping: a thread executes on its native stack or  *)
(* on a sub-fiber, its main fiber is the one it made for itself and lives  *)
(* as long as t_thread_fiber refers to it, and t_fiber is what it executes *)
(* on, or the main fiber, unless it is in the middle of SwapIn.            *)
ThreadFacts ==
  \A t \in Threads :
    /\ cpu[t] \in Fibers \cup {t}
    /\ main_ctx[t] \in Fibers \cup {t, NULL}
    /\ t_thread_fiber[t] \in {t, NULL}
    /\ Alive(t) <=> t_thread_fiber[t] = t
    /\ t_fiber[t] = NULL => t_thread_fiber[t] = NULL
    /\ pc[t] # "swapin" => t_fiber[t] \in {cpu[t], t, NULL}
    /\ cpu[t] = t => main_ctx[t] = NULL

(* One owner: a Fiber::ptr has one holder and refers to a live fiber.      *)
OneHolder ==
  \A f \in Fibers :
    /\ \A t, u \in handles[f] : t = u
    /\ handles[f] # {} => Alive(f)

(* The holder alone executes on the fiber's stack or has it saved in its   *)
(* main fiber's ctx_, and the stack is not freed meanwhile.                *)
Stacks(t) == {cpu[t], main_ctx[t]} \cap Fibers

StacksAreOwned ==
  \A t \in Threads : \A f \in Stacks(t) :
    /\ handles[f] \subseteq {t}
    /\ Alive(f)
    /\ \A u \in Threads : f \in Stacks(u) => u = t

(* state_ is EXEC on every stack that is in use and not being left.        *)
ExecFacts ==
  \A t \in Threads :
    /\ cpu[t] \in Fibers =>
         \/ state_[cpu[t]] = "EXEC"
         \/ pc[t] = "yield" /\ t_fiber[t] = cpu[t]
         \/ pc[t] = "end"
    /\ main_ctx[t] \in Fibers => state_[main_ctx[t]] = "EXEC" /\ main_ctx[t] # cpu[t]
    /\ pc[t] = "swapin" => state_[t_fiber[t]] # "EXEC"

OwnerInv == Typed /\ SwapInHolds /\ ThreadFacts /\ OneHolder /\ StacksAreOwned /\ ExecFacts

(* The initial state has its types.                                        *)
LEMMA InitTyped == Init => Typed /\ SwapInHolds
BY FiberAssumption DEF Init, Typed, SwapInHolds, Objects, States, Faults

(* Every step keeps the types.                                             *)
LEMMA NextTyped == Typed /\ SwapInHolds /\ [Next]_vars => Typed'
<1> SUFFICES ASSUME Typed, SwapInHolds, [Next]_vars PROVE Typed'
  OBVIOUS
<1> USE DEF Typed, Objects, States, Faults
<1>1. CASE UNCHANGED vars
  BY <1>1 DEF vars, objVars, threadVars
<1>2. ASSUME NEW t \in Threads, GetThis(t) PROVE Typed'
  BY <1>2 DEF GetThis, MainFiber, SetThis
<1>3. ASSUME NEW t \in Threads, NEW f \in Fibers, New(t, f) PROVE Typed'
  BY <1>3 DEF New, threadVars
<1>4. ASSUME NEW t \in Threads, NEW f \in Fibers, NEW c \in Captures, Reset(t, f, c)
      PROVE Typed'
  BY <1>4, FiberAssumption DEF Reset, Abort, FreshContext, threadVars, objVars
<1>5. ASSUME NEW t \in Threads, NEW f \in Fibers, SwapIn(t, f) PROVE Typed'
  BY <1>5 DEF SwapIn, Abort, SetThis, Goto, threadVars, objVars
<1>6. ASSUME NEW t \in Threads, Enter(t) PROVE Typed'
  <2> DEFINE f == t_fiber[t]
  <2>1. f \in Fibers
    BY <1>6 DEF Enter, SwapInHolds
  <2> QED
    BY <1>6, <2>1 DEF Enter, Abort, Goto, CurAfterEntry, Saved, threadVars, objVars
<1>7. ASSUME NEW t \in Threads, NEW s \in {"HOLD", "READY"}, Yield(t, s) PROVE Typed'
  BY <1>7 DEF Yield, Abort, Goto, threadVars, objVars
<1>8. ASSUME NEW t \in Threads, NEW how \in {"return"} \cup Throws, Finish(t, how)
      PROVE Typed'
  BY <1>8, FiberAssumption DEF Finish, Abort, Goto, StateAfter, CurAfterFinish, threadVars, objVars
<1>9. ASSUME NEW t \in Threads, SwapOut(t) PROVE Typed'
  BY <1>9, SMTT(20) DEF SwapOut, Abort, Goto, SetThis, Returned, Restored, threadVars, objVars
<1>10. ASSUME NEW t \in Threads, NEW f \in Fibers, Drop(t, f) PROVE Typed'
  BY <1>10 DEF Drop, Destroy, Release, OneFewer, Abort, threadVars, objVars
<1>11. ASSUME NEW t \in Threads, NEW u \in Threads, NEW f \in Fibers, HandOver(t, u, f)
       PROVE Typed'
  BY <1>11 DEF HandOver, MovedTo, threadVars
<1>12. ASSUME NEW t \in Threads, ThreadExit(t) PROVE Typed'
  BY <1>12, SMTT(20) DEF ThreadExit, Abort, Goto, SetThis, OneFewer, threadVars, objVars
<1> HIDE DEF Typed, Objects, States, Faults
<1> QED
  BY <1>1, <1>2, <1>3, <1>4, <1>5, <1>6, <1>7, <1>8, <1>9, <1>10, <1>11, <1>12
     DEF Next, FiberStep, ClientStep

(* An abort changes nothing but fault.                                     *)
LEMMA AbortKeeps ==
  ASSUME OwnerInv, NEW why, Abort(why)
  PROVE  SwapInHolds' /\ ThreadFacts' /\ OneHolder' /\ StacksAreOwned' /\ ExecFacts'
BY DEF OwnerInv, Abort, SwapInHolds, ThreadFacts, OneHolder, StacksAreOwned, ExecFacts, Stacks,
       Alive, objVars, threadVars

(* With one owner every step keeps the facts.  In each case a step that    *)
(* aborts is set aside first.                                              *)
LEMMA OwnerInvStep ==
  ASSUME OwnerInv, OneOwner, [Next]_vars
  PROVE  SwapInHolds' /\ ThreadFacts' /\ OneHolder' /\ StacksAreOwned' /\ ExecFacts'
<1> DEFINE Goal == SwapInHolds' /\ ThreadFacts' /\ OneHolder' /\ StacksAreOwned' /\ ExecFacts'
<1> USE FiberAssumption DEF OwnerInv, Typed, Objects, States, Alive
<1>1. CASE UNCHANGED vars
  BY <1>1 DEF vars, objVars, threadVars, SwapInHolds, ThreadFacts, OneHolder, StacksAreOwned,
              ExecFacts, Stacks
<1>2. ASSUME NEW t \in Threads, GetThis(t)
      PROVE  Goal
  <2>1. SwapInHolds'
    BY <1>2 DEF GetThis, MainFiber, SetThis, SwapInHolds
  <2>2. ThreadFacts'
    BY <1>2 DEF GetThis, MainFiber, SetThis, ThreadFacts
  <2>3. OneHolder'
    BY <1>2 DEF GetThis, MainFiber, OneHolder
  <2>4. StacksAreOwned'
    BY <1>2 DEF GetThis, MainFiber, StacksAreOwned, Stacks
  <2>5. ExecFacts'
    BY <1>2 DEF GetThis, MainFiber, SetThis, SwapInHolds, ExecFacts
  <2> QED
    BY <2>1, <2>2, <2>3, <2>4, <2>5
<1>3. ASSUME NEW t \in Threads, NEW f \in Fibers, New(t, f)
      PROVE  Goal
  <2>1. SwapInHolds'
    BY <1>3 DEF New, threadVars, SwapInHolds, OneHolder
  <2>2. ThreadFacts'
    BY <1>3 DEF New, threadVars, ThreadFacts
  <2>3. OneHolder'
    BY <1>3 DEF New, OneHolder
  <2>4. StacksAreOwned'
    BY <1>3 DEF New, threadVars, StacksAreOwned, Stacks
  <2>5. ExecFacts'
    BY <1>3 DEF New, threadVars, ExecFacts
  <2> QED
    BY <2>1, <2>2, <2>3, <2>4, <2>5
<1>4. ASSUME NEW t \in Threads, NEW f \in Fibers, NEW c \in Captures, Reset(t, f, c)
      PROVE  Goal
  <2> SUFFICES ASSUME \A why : ~Abort(why) PROVE Goal
    BY AbortKeeps
  <2>1. SwapInHolds'
    BY <1>4 DEF Reset, threadVars, SwapInHolds
  <2>2. ThreadFacts'
    BY <1>4 DEF Reset, threadVars, ThreadFacts
  <2>3. OneHolder'
    BY <1>4 DEF Reset, OneHolder
  <2>4. StacksAreOwned'
    BY <1>4 DEF Reset, threadVars, StacksAreOwned, Stacks
  <2>5. ExecFacts'
    BY <1>4 DEF Reset, threadVars, Resettable, SwapInHolds, ExecFacts
  <2> QED
    BY <2>1, <2>2, <2>3, <2>4, <2>5
<1>5. ASSUME NEW t \in Threads, NEW f \in Fibers, SwapIn(t, f)
      PROVE  Goal
  <2> SUFFICES ASSUME \A why : ~Abort(why) PROVE Goal
    BY AbortKeeps
  <2>1. SwapInHolds'
    BY <1>5 DEF SwapIn, SetThis, Goto, objVars, SwapInHolds
  <2>2. ThreadFacts'
    BY <1>5 DEF SwapIn, SetThis, Goto, objVars, ThreadFacts
  <2>3. OneHolder'
    BY <1>5 DEF SwapIn, objVars, OneHolder
  <2>4. StacksAreOwned'
    BY <1>5 DEF SwapIn, objVars, StacksAreOwned, Stacks
  <2>5. ExecFacts'
    BY <1>5 DEF SwapIn, SetThis, Goto, InCode, objVars, Resumable, ExecFacts
  <2> QED
    BY <2>1, <2>2, <2>3, <2>4, <2>5
<1>6. ASSUME NEW t \in Threads, Enter(t)
      PROVE  Goal
  <2> SUFFICES ASSUME \A why : ~Abort(why) PROVE Goal
    BY AbortKeeps
  <2>1. SwapInHolds'
    BY <1>6 DEF Enter, Goto, SwapInHolds
  <2>2. ThreadFacts'
    BY <1>6 DEF Enter, Goto, Saved, SwapInHolds, ThreadFacts
  <2>3. OneHolder'
    BY <1>6 DEF Enter, OneHolder
  <2>4. StacksAreOwned'
    BY <1>6 DEF Enter, Saved, SwapInHolds, OneHolder, StacksAreOwned, Stacks
  <2>5. ExecFacts'
    BY <1>6 DEF Enter, Goto, Saved, SwapInHolds, OneHolder, ExecFacts
  <2> QED
    BY <2>1, <2>2, <2>3, <2>4, <2>5
<1>7. ASSUME NEW t \in Threads, NEW s \in {"HOLD", "READY"}, Yield(t, s)
      PROVE  Goal
  <2> SUFFICES ASSUME \A why : ~Abort(why) PROVE Goal
    BY AbortKeeps
  <2>1. SwapInHolds'
    BY <1>7 DEF Yield, Goto, SwapInHolds
  <2>2. ThreadFacts'
    BY <1>7 DEF Yield, Goto, InCode, ThreadFacts
  <2>3. OneHolder'
    BY <1>7 DEF Yield, OneHolder
  <2>4. StacksAreOwned'
    BY <1>7 DEF Yield, StacksAreOwned, Stacks
  <2>5. ExecFacts'
    BY <1>7 DEF Yield, Goto, InCode, SwapInHolds, ThreadFacts, StacksAreOwned, ExecFacts,
                Stacks
  <2> QED
    BY <2>1, <2>2, <2>3, <2>4, <2>5
<1>8. ASSUME NEW t \in Threads, NEW how \in {"return"} \cup Throws, Finish(t, how)
      PROVE  Goal
  <2> SUFFICES ASSUME \A why : ~Abort(why) PROVE Goal
    BY AbortKeeps
  <2>1. SwapInHolds'
    BY <1>8 DEF Finish, Goto, SwapInHolds
  <2>2. ThreadFacts'
    BY <1>8 DEF Finish, Goto, InCode, ThreadFacts
  <2>3. OneHolder'
    BY <1>8 DEF Finish, StateAfter, OneHolder
  <2>4. StacksAreOwned'
    BY <1>8 DEF Finish, StateAfter, StacksAreOwned, Stacks
  <2>5. ExecFacts'
    BY <1>8 DEF Finish, Goto, SwapInHolds, StacksAreOwned, ExecFacts, Stacks
  <2> QED
    BY <2>1, <2>2, <2>3, <2>4, <2>5
<1>9. ASSUME NEW t \in Threads, SwapOut(t)
      PROVE  Goal
  <2> SUFFICES ASSUME \A why : ~Abort(why) PROVE Goal
    BY AbortKeeps
  <2>1. SwapInHolds'
    BY <1>9 DEF SwapOut, Goto, SetThis, SwapInHolds
  <2>2. ThreadFacts'
    BY <1>9 DEF SwapOut, Goto, SetThis, Returned, Restored, ThreadFacts
  <2>3. OneHolder'
    BY <1>9 DEF SwapOut, OneHolder
  <2>4. StacksAreOwned'
    BY <1>9 DEF SwapOut, Restored, StacksAreOwned, Stacks
  <2>5. ExecFacts'
    BY <1>9 DEF SwapOut, Goto, SetThis, Restored, ExecFacts
  <2> QED
    BY <2>1, <2>2, <2>3, <2>4, <2>5
<1>10. ASSUME NEW t \in Threads, NEW f \in Fibers, Drop(t, f)
      PROVE  Goal
  <2> SUFFICES ASSUME \A why : ~Abort(why) PROVE Goal
    BY AbortKeeps
  <2>1. SwapInHolds'
    BY <1>10 DEF Drop, Destroy, Release, InCode, threadVars, SwapInHolds
  <2>2. ThreadFacts'
    BY <1>10 DEF Drop, Destroy, threadVars, ThreadFacts
  <2>3. OneHolder'
    BY <1>10 DEF Drop, Destroy, Release, OneHolder
  <2>4. StacksAreOwned'
    BY <1>10 DEF Drop, Destroy, Release, InCode, Resettable, threadVars, StacksAreOwned,
                 ExecFacts, Stacks
  <2>5. ExecFacts'
    BY <1>10 DEF Drop, Destroy, Resettable, threadVars, SwapInHolds, ExecFacts
  <2> QED
    BY <2>1, <2>2, <2>3, <2>4, <2>5
<1>11. ASSUME NEW t \in Threads, NEW u \in Threads, NEW f \in Fibers, HandOver(t, u, f)
      PROVE  Goal
  <2>1. SwapInHolds'
    BY <1>11 DEF HandOver, MovedTo, InCode, threadVars, SwapInHolds
  <2>2. ThreadFacts'
    BY <1>11 DEF HandOver, threadVars, ThreadFacts
  <2>3. OneHolder'
    BY <1>11 DEF HandOver, MovedTo, OneHolder
  <2>4. StacksAreOwned'
    BY <1>11 DEF HandOver, threadVars, ThreadFacts, StacksAreOwned, Stacks
  <2>5. ExecFacts'
    BY <1>11 DEF HandOver, threadVars, ExecFacts
  <2> QED
    BY <2>1, <2>2, <2>3, <2>4, <2>5
<1>12. ASSUME NEW t \in Threads, ThreadExit(t)
      PROVE  Goal
  <2> SUFFICES ASSUME \A why : ~Abort(why) PROVE Goal
    BY AbortKeeps
  <2>1. SwapInHolds'
    BY <1>12 DEF ThreadExit, Goto, SetThis, objVars, SwapInHolds
  <2>2. ThreadFacts'
    BY <1>12 DEF ThreadExit, Goto, SetThis, InCode, objVars, ThreadFacts
  <2>3. OneHolder'
    BY <1>12 DEF ThreadExit, objVars, OneHolder
  <2>4. StacksAreOwned'
    BY <1>12 DEF ThreadExit, objVars, StacksAreOwned, Stacks
  <2>5. ExecFacts'
    BY <1>12 DEF ThreadExit, Goto, SetThis, objVars, SwapInHolds, ExecFacts
  <2> QED
    BY <2>1, <2>2, <2>3, <2>4, <2>5
<1> HIDE FiberAssumption DEF OwnerInv, Typed, Objects, States, Alive
<1> QED
  BY <1>1, <1>2, <1>3, <1>4, <1>5, <1>6, <1>7, <1>8, <1>9, <1>10, <1>11, <1>12
     DEF Next, FiberStep, ClientStep

(* The inductive invariant, for every set of promises with "one owner".    *)
THEOREM OwnerInvariant == OneOwner => (Spec => []OwnerInv)
<1> SUFFICES ASSUME OneOwner PROVE Spec => []OwnerInv
  OBVIOUS
<1>1. Init => OwnerInv
  <2> SUFFICES ASSUME Init PROVE ThreadFacts /\ OneHolder /\ StacksAreOwned /\ ExecFacts
    BY InitTyped DEF OwnerInv
  <2> QED
    BY FiberAssumption DEF Init, Objects, ThreadFacts, OneHolder, StacksAreOwned, ExecFacts,
                           Stacks, Alive, States
<1>2. OwnerInv /\ [Next]_vars => OwnerInv'
  BY NextTyped, OwnerInvStep DEF OwnerInv
<1> QED
  BY <1>1, <1>2, PTL DEF Spec

(* A sub-fiber's stack is executed by at most one thread when a Fiber::ptr *)
(* is moved between threads and never copied, whatever else the client     *)
(* does: SwapIn's assertion is not needed for it.                          *)
THEOREM OneThreadPerStackTheorem == OneOwner => (Spec => []OneThreadPerStack)
<1>1. OwnerInv => OneThreadPerStack
  BY DEF OwnerInv, StacksAreOwned, Stacks, OneThreadPerStack
<1> QED
  BY <1>1, OwnerInvariant, PTL

-----------------------------------------------------------------------------
Living == {o \in Objects : Alive(o)}

(* A step changes the set of live objects and s_fiber_count together.      *)
CountStep ==
  \/ Living' = Living /\ s_fiber_count' = s_fiber_count
  \/ \E o \in Objects : o \notin Living /\ Living' = Living \cup {o}
                        /\ s_fiber_count' = s_fiber_count + 1
  \/ \E o \in Objects : o \in Living /\ Living' = Living \ {o}
                        /\ s_fiber_count' = s_fiber_count - 1

(* Every step changes the count of fibers with the set of living ones.     *)
LEMMA NextCounts ==
  ASSUME OwnerInv, [Next]_vars
  PROVE  CountStep
<1> USE DEF OwnerInv, Typed, Objects, States, Alive, Living
<1>0. ASSUME NEW why, Abort(why) PROVE CountStep
  BY <1>0 DEF Abort, objVars, CountStep
<1>1. ASSUME state_' = state_, s_fiber_count' = s_fiber_count PROVE CountStep
  BY <1>1 DEF CountStep
<1>2. CASE UNCHANGED vars
  BY <1>1, <1>2 DEF vars, objVars
<1>3. ASSUME NEW t \in Threads, GetThis(t) PROVE CountStep
  <2>1. t \notin Living /\ Living' = Living \cup {t}
    BY <1>3, FiberAssumption DEF GetThis, MainFiber, ThreadFacts
  <2> QED
    BY <1>3, <2>1 DEF GetThis, MainFiber, CountStep
<1>4. ASSUME NEW t \in Threads, NEW f \in Fibers, New(t, f) PROVE CountStep
  <2>1. f \notin Living /\ Living' = Living \cup {f}
    BY <1>4 DEF New
  <2> QED
    BY <1>4, <2>1 DEF New, CountStep
<1>5. ASSUME NEW t \in Threads, NEW f \in Fibers, NEW c \in Captures, Reset(t, f, c)
      PROVE  CountStep
  <2> SUFFICES ASSUME \A why : ~Abort(why) PROVE CountStep
    BY <1>0
  <2>1. Living' = Living
    BY <1>5 DEF Reset, Resettable
  <2> QED
    BY <1>5, <2>1 DEF Reset, CountStep
<1>6. ASSUME NEW t \in Threads, NEW f \in Fibers, SwapIn(t, f) PROVE CountStep
  BY <1>0, <1>1, <1>6 DEF SwapIn, objVars
<1>7. ASSUME NEW t \in Threads, Enter(t) PROVE CountStep
  <2> SUFFICES ASSUME \A why : ~Abort(why) PROVE CountStep
    BY <1>0
  <2>1. t_fiber[t] \in Living
    BY <1>7 DEF Enter, SwapInHolds, OneHolder
  <2>2. Living' = Living
    BY <1>7, <2>1 DEF Enter
  <2> QED
    BY <1>7, <2>2 DEF Enter, CountStep
<1>8. ASSUME NEW t \in Threads, NEW s \in {"HOLD", "READY"}, Yield(t, s) PROVE CountStep
  <2> SUFFICES ASSUME \A why : ~Abort(why) PROVE CountStep
    BY <1>0
  <2>1. Living' = Living
    BY <1>8 DEF Yield
  <2> QED
    BY <1>8, <2>1 DEF Yield, CountStep
<1>9. ASSUME NEW t \in Threads, NEW how \in {"return"} \cup Throws, Finish(t, how)
      PROVE  CountStep
  <2> SUFFICES ASSUME \A why : ~Abort(why) PROVE CountStep
    BY <1>0
  <2>1. cpu[t] \in Fibers /\ cpu[t] \in Living
    BY <1>9 DEF Finish, StacksAreOwned, Stacks
  <2>2. Living' = Living
    BY <1>9, <2>1, FiberAssumption DEF Finish, StateAfter
  <2> QED
    BY <1>9, <2>2 DEF Finish, CountStep
<1>10. ASSUME NEW t \in Threads, SwapOut(t) PROVE CountStep
  BY <1>0, <1>1, <1>10 DEF SwapOut
<1>11. ASSUME NEW t \in Threads, NEW f \in Fibers, Drop(t, f) PROVE CountStep
  <2> SUFFICES ASSUME \A why : ~Abort(why) PROVE CountStep
    BY <1>0
  <2>1. CASE ~LastHandle(t, f)
    BY <1>1, <1>11, <2>1 DEF Drop
  <2>2. CASE LastHandle(t, f)
    <3>1. f \in Living /\ Living' = Living \ {f}
      BY <1>11, <2>2 DEF Drop, Destroy, Resettable
    <3> QED
      BY <1>11, <2>2, <3>1 DEF Drop, Destroy, OneFewer, CountStep
  <2> QED
    BY <2>1, <2>2
<1>12. ASSUME NEW t \in Threads, NEW u \in Threads, NEW f \in Fibers, HandOver(t, u, f)
       PROVE  CountStep
  BY <1>1, <1>12 DEF HandOver
<1>13. ASSUME NEW t \in Threads, ThreadExit(t) PROVE CountStep
  <2> SUFFICES ASSUME \A why : ~Abort(why) PROVE CountStep
    BY <1>0
  <2>1. CASE t_thread_fiber[t] = NULL
    BY <1>1, <1>13, <2>1 DEF ThreadExit, objVars
  <2>2. CASE t_thread_fiber[t] # NULL
    <3>1. t \in Living /\ Living' = Living \ {t}
      BY <1>13, <2>2 DEF ThreadExit
    <3> QED
      BY <1>13, <2>2, <3>1 DEF ThreadExit, OneFewer, CountStep
  <2> QED
    BY <2>1, <2>2
<1> HIDE DEF OwnerInv, Typed, Objects, States, Alive, Living
<1> QED
  BY <1>2, <1>3, <1>4, <1>5, <1>6, <1>7, <1>8, <1>9, <1>10, <1>11, <1>12, <1>13
     DEF Next, FiberStep, ClientStep

(* TotalFibers() is the number of Fiber objects alive, main fibers         *)
(* included, whatever the client does with pointers it never copies.       *)
THEOREM CountIsExactTheorem == OneOwner => (Spec => []CountIsExact)
<1> SUFFICES ASSUME OneOwner PROVE Spec => []CountIsExact
  OBVIOUS
<1>1. IsFiniteSet(Living)
  <2>1. IsFiniteSet(Objects)
    BY FiberAssumption, FS_Union DEF Objects
  <2> QED
    BY <2>1, FS_Subset DEF Living
<1>2. Init => CountIsExact
  <2> SUFFICES ASSUME Init PROVE s_fiber_count = Cardinality(Living)
    BY DEF CountIsExact, Living
  <2>1. Living = {}
    BY DEF Init, Living, Alive, States, Objects
  <2> QED
    BY <2>1, FS_EmptySet DEF Init
<1>3. OwnerInv /\ CountIsExact /\ [Next]_vars => CountIsExact'
  <2> SUFFICES ASSUME OwnerInv, s_fiber_count = Cardinality(Living), [Next]_vars
               PROVE  s_fiber_count' = Cardinality(Living')
    BY DEF CountIsExact, Living
  <2>1. CountStep
    BY NextCounts
  <2>2. Cardinality(Living) \in Nat
    BY <1>1, FS_CardinalityType
  <2> QED
    BY <1>1, <2>1, <2>2, FS_AddElement, FS_RemoveElement DEF CountStep
<1> QED
  BY <1>2, <1>3, OwnerInvariant, PTL DEF Spec

-----------------------------------------------------------------------------
(* The cur's on the fibers' own stacks: MainFunc's is there while the      *)
(* callback runs or is suspended, YieldTo*'s while it waits.  A fiber that *)
(* was left in EXEC is not resumed and needs none.                         *)
RunningRefs ==
  \A t \in Threads :
    /\ cpu[t] \in Fibers /\ pc[t] # "end" => self[cpu[t]] >= 1
    /\ main_ctx[t] \in Fibers => self[main_ctx[t]] >= 1

YieldingRefs ==
  \A t \in Threads : pc[t] = "yield" =>
    /\ t_fiber[t] \in Fibers => self[t_fiber[t]] >= 2
    /\ t_fiber[t] = t => self[t] >= 1
    /\ t_fiber[t] # NULL

EndingOnFiber ==
  \A t \in Threads : pc[t] = "end" => cpu[t] \in Fibers

HeldRefs ==
  \A f \in Fibers :
    /\ ctx_[f] = "yield" /\ Alive(f) /\ state_[f] # "EXEC"
    /\ \A t \in Threads : f \notin Stacks(t)
    => self[f] >= 2

Refs ==
  self \in [Objects -> Nat] /\ RunningRefs /\ YieldingRefs /\ HeldRefs /\ EndingOnFiber

(* Every step keeps the references; one that aborts leaves them alone.     *)
LEMMA RefsStep ==
  ASSUME OwnerInv, Refs, [Next]_vars
  PROVE  Refs'
<1> USE FiberAssumption DEF OwnerInv, Typed, Objects, States, Alive, Refs
<1>0. ASSUME NEW why, Abort(why) PROVE Refs'
  BY <1>0 DEF Abort, objVars, threadVars, RunningRefs, YieldingRefs, HeldRefs, EndingOnFiber, Stacks
<1>1. CASE UNCHANGED vars
  BY <1>1 DEF vars, objVars, threadVars, RunningRefs, YieldingRefs, HeldRefs, EndingOnFiber, Stacks
<1>2. ASSUME NEW t \in Threads, GetThis(t) PROVE Refs'
  <2>1. self' \in [Objects -> Nat]
    BY <1>2 DEF GetThis, MainFiber
  <2>2. RunningRefs'
    BY <1>2, <2>1 DEF GetThis, MainFiber, RunningRefs
  <2>3. YieldingRefs'
    BY <1>2, <2>1 DEF GetThis, MainFiber, SetThis, YieldingRefs
  <2>4. HeldRefs'
    BY <1>2, <2>1 DEF GetThis, MainFiber, HeldRefs, Stacks
  <2>5. EndingOnFiber'
    BY <1>2 DEF GetThis, MainFiber, EndingOnFiber
  <2> QED
    BY <2>1, <2>2, <2>3, <2>4, <2>5
<1>3. ASSUME NEW t \in Threads, NEW f \in Fibers, New(t, f) PROVE Refs'
  <2>1. self' \in [Objects -> Nat]
    BY <1>3 DEF New
  <2>2. RunningRefs'
    BY <1>3, <2>1 DEF New, threadVars, RunningRefs
  <2>3. YieldingRefs'
    BY <1>3, <2>1 DEF New, threadVars, YieldingRefs
  <2>4. HeldRefs'
    BY <1>3, <2>1 DEF New, threadVars, HeldRefs, Stacks
  <2>5. EndingOnFiber'
    BY <1>3 DEF New, threadVars, EndingOnFiber
  <2> QED
    BY <2>1, <2>2, <2>3, <2>4, <2>5
<1>4. ASSUME NEW t \in Threads, NEW f \in Fibers, NEW c \in Captures, Reset(t, f, c) PROVE Refs'
  <2> SUFFICES ASSUME \A why : ~Abort(why) PROVE Refs'
    BY <1>0
  <2>1. self' \in [Objects -> Nat]
    BY <1>4 DEF Reset
  <2>2. RunningRefs'
    BY <1>4, <2>1 DEF Reset, threadVars, RunningRefs
  <2>3. YieldingRefs'
    BY <1>4, <2>1 DEF Reset, threadVars, YieldingRefs
  <2>4. HeldRefs'
    BY <1>4, <2>1 DEF Reset, FreshContext, threadVars, HeldRefs, Stacks
  <2>5. EndingOnFiber'
    BY <1>4 DEF Reset, threadVars, EndingOnFiber
  <2> QED
    BY <2>1, <2>2, <2>3, <2>4, <2>5
<1>5. ASSUME NEW t \in Threads, NEW f \in Fibers, SwapIn(t, f) PROVE Refs'
  <2> SUFFICES ASSUME \A why : ~Abort(why) PROVE Refs'
    BY <1>0
  <2>1. self' \in [Objects -> Nat]
    BY <1>5 DEF SwapIn, objVars
  <2>2. RunningRefs'
    BY <1>5, <2>1 DEF SwapIn, Goto, InCode, objVars, RunningRefs
  <2>3. YieldingRefs'
    BY <1>5, <2>1 DEF SwapIn, SetThis, Goto, objVars, YieldingRefs
  <2>4. HeldRefs'
    BY <1>5, <2>1 DEF SwapIn, objVars, HeldRefs, Stacks
  <2>5. EndingOnFiber'
    BY <1>5 DEF SwapIn, Goto, EndingOnFiber
  <2> QED
    BY <2>1, <2>2, <2>3, <2>4, <2>5
<1>6. ASSUME NEW t \in Threads, Enter(t) PROVE Refs'
  <2> SUFFICES ASSUME \A why : ~Abort(why) PROVE Refs'
    BY <1>0
  <2>a. t_fiber[t] \in Fibers /\ (ctx_[t_fiber[t]] = "yield" => self[t_fiber[t]] >= 2)
    <3>1. t_fiber[t] \in Fibers /\ Alive(t_fiber[t]) /\ state_[t_fiber[t]] # "EXEC"
      BY <1>6 DEF Enter, SwapInHolds, OneHolder, ExecFacts
    <3>2. \A u \in Threads : t_fiber[t] \notin Stacks(u)
      <4> SUFFICES ASSUME NEW u \in Threads, t_fiber[t] \in Stacks(u) PROVE FALSE
        OBVIOUS
      <4>1. pc[t] = "swapin" /\ t \in handles[t_fiber[t]]
        BY <1>6 DEF Enter, SwapInHolds
      <4>2. u = t
        BY <4>1 DEF StacksAreOwned
      <4> QED
        BY <3>1, <4>1, <4>2 DEF ExecFacts, Stacks
    <3> QED
      BY <3>1, <3>2 DEF HeldRefs
  <2>b. ctx_[t_fiber[t]] # "end" /\ self[t_fiber[t]] \in Nat
    BY <1>6, <2>a DEF Enter
  <2>c. CurAfterEntry(t_fiber[t]) \in Nat
    BY <2>a, <2>b DEF CurAfterEntry
  <2>d. self' = self \/ self' = [self EXCEPT ![t_fiber[t]] = CurAfterEntry(t_fiber[t])]
    BY <1>6 DEF Enter
  <2>1. self' \in [Objects -> Nat]
    BY <2>c, <2>d
  <2>2. RunningRefs'
    BY <1>6, <2>a, <2>1 DEF Enter, Goto, Saved, CurAfterEntry, OnCpu, RunningRefs, HeldRefs,
                            StacksAreOwned, ThreadFacts, Stacks, SwapInHolds
  <2>3. YieldingRefs'
    BY <1>6, <2>1 DEF Enter, Goto, YieldingRefs, StacksAreOwned, ThreadFacts, Stacks,
                      SwapInHolds
  <2>4. HeldRefs'
    BY <1>6, <2>1 DEF Enter, HeldRefs, ExecFacts, Stacks
  <2>5. EndingOnFiber'
    BY <1>6 DEF Enter, Goto, EndingOnFiber
  <2> QED
    BY <2>1, <2>2, <2>3, <2>4, <2>5
<1>7. ASSUME NEW t \in Threads, NEW s \in {"HOLD", "READY"}, Yield(t, s) PROVE Refs'
  <2> SUFFICES ASSUME \A why : ~Abort(why) PROVE Refs'
    BY <1>0
  <2>1. self' \in [Objects -> Nat]
    BY <1>7 DEF Yield
  <2>2. RunningRefs'
    BY <1>7, <2>1 DEF Yield, Goto, InCode, RunningRefs
  <2>3. YieldingRefs'
    BY <1>7, <2>1 DEF Yield, Goto, InCode, RunningRefs, YieldingRefs, ThreadFacts
  <2>4. HeldRefs'
    BY <1>7, <2>1 DEF Yield, HeldRefs, ThreadFacts, ExecFacts, Stacks
  <2>5. EndingOnFiber'
    BY <1>7 DEF Yield, Goto, EndingOnFiber
  <2> QED
    BY <2>1, <2>2, <2>3, <2>4, <2>5
<1>8. ASSUME NEW t \in Threads, NEW how \in {"return"} \cup Throws, Finish(t, how) PROVE Refs'
  <2> SUFFICES ASSUME \A why : ~Abort(why) PROVE Refs'
    BY <1>0
  <2>1. self' \in [Objects -> Nat]
    BY <1>8 DEF Finish, InCode, CurAfterFinish, RunningRefs
  <2>2. RunningRefs'
    BY <1>8, <2>1 DEF Finish, Goto, RunningRefs, StacksAreOwned, ExecFacts, Stacks
  <2>3. YieldingRefs'
    BY <1>8, <2>1 DEF Finish, Goto, YieldingRefs, StacksAreOwned, ThreadFacts, Stacks
  <2>4. HeldRefs'
    BY <1>8, <2>1 DEF Finish, HeldRefs, Stacks
  <2>5. EndingOnFiber'
    BY <1>8 DEF Finish, Goto, EndingOnFiber
  <2> QED
    BY <2>1, <2>2, <2>3, <2>4, <2>5
<1>9. ASSUME NEW t \in Threads, SwapOut(t) PROVE Refs'
  <2> SUFFICES ASSUME \A why : ~Abort(why) PROVE Refs'
    BY <1>0
  <2>a. CASE pc[t] = "yield" /\ t_fiber[t] \notin Fibers
    <3>1. t_fiber[t] = t /\ t \notin Fibers /\ self[t] >= 1
      BY <2>a DEF YieldingRefs, ThreadFacts
    <3>2. self' = [self EXCEPT ![t] = @ - 1] /\ pc' = [pc EXCEPT ![t] = "code"]
      BY <1>9, <2>a, <3>1 DEF SwapOut, Goto
    <3>3. UNCHANGED <<state_, ctx_, t_fiber, main_ctx, cpu>>
      BY <1>9, <2>a, <3>1 DEF SwapOut
    <3>4. self' \in [Objects -> Nat] /\ \A f \in Fibers : self'[f] = self[f]
      BY <3>1, <3>2
    <3>5. RunningRefs'
      BY <2>a, <3>1, <3>2, <3>3, <3>4 DEF RunningRefs
    <3>6. YieldingRefs' /\ EndingOnFiber'
      BY <3>1, <3>2, <3>3, <3>4 DEF YieldingRefs, EndingOnFiber, ThreadFacts
    <3>7. HeldRefs'
      BY <3>3, <3>4 DEF HeldRefs, Stacks
    <3> QED
      BY <3>4, <3>5, <3>6, <3>7
  <2> SUFFICES ASSUME ~(pc[t] = "yield" /\ t_fiber[t] \notin Fibers) PROVE Refs'
    BY <2>a
  <2>b. self' = self
    BY <1>9 DEF SwapOut, EndingOnFiber
  <2>1. self' \in [Objects -> Nat]
    BY <1>9, <2>b DEF SwapOut
  <2>2. RunningRefs'
    BY <1>9, <2>b, <2>1 DEF SwapOut, Goto, Restored, RunningRefs
  <2>3. YieldingRefs'
    BY <1>9, <2>1 DEF SwapOut, SetThis, Goto, YieldingRefs, ThreadFacts
  <2>4. HeldRefs'
    BY <1>9, <2>1 DEF SwapOut, YieldingRefs, HeldRefs, ExecFacts, Stacks
  <2>5. EndingOnFiber'
    BY <1>9 DEF SwapOut, Goto, EndingOnFiber
  <2> QED
    BY <2>1, <2>2, <2>3, <2>4, <2>5
<1>10. ASSUME NEW t \in Threads, NEW f \in Fibers, Drop(t, f) PROVE Refs'
  <2> SUFFICES ASSUME \A why : ~Abort(why) PROVE Refs'
    BY <1>0
  <2>1. self' \in [Objects -> Nat]
    BY <1>10 DEF Drop, Destroy
  <2>2. RunningRefs'
    BY <1>10, <2>1 DEF Drop, Destroy, threadVars, RunningRefs
  <2>3. YieldingRefs'
    BY <1>10, <2>1 DEF Drop, Destroy, threadVars, YieldingRefs
  <2>4. HeldRefs'
    BY <1>10, <2>1 DEF Drop, Destroy, threadVars, HeldRefs, Stacks
  <2>5. EndingOnFiber'
    BY <1>10 DEF Drop, Destroy, threadVars, EndingOnFiber
  <2> QED
    BY <2>1, <2>2, <2>3, <2>4, <2>5
<1>11. ASSUME NEW t \in Threads, NEW u \in Threads, NEW f \in Fibers, HandOver(t, u, f) PROVE Refs'
  <2>1. self' \in [Objects -> Nat]
    BY <1>11 DEF HandOver
  <2>2. RunningRefs'
    BY <1>11, <2>1 DEF HandOver, threadVars, RunningRefs
  <2>3. YieldingRefs'
    BY <1>11, <2>1 DEF HandOver, threadVars, YieldingRefs
  <2>4. HeldRefs'
    BY <1>11, <2>1 DEF HandOver, threadVars, HeldRefs, Stacks
  <2>5. EndingOnFiber'
    BY <1>11 DEF HandOver, threadVars, EndingOnFiber
  <2> QED
    BY <2>1, <2>2, <2>3, <2>4, <2>5
<1>12. ASSUME NEW t \in Threads, ThreadExit(t) PROVE Refs'
  <2> SUFFICES ASSUME \A why : ~Abort(why) PROVE Refs'
    BY <1>0
  <2>1. self' \in [Objects -> Nat]
    BY <1>12 DEF ThreadExit, objVars
  <2>2. RunningRefs'
    BY <1>12, <2>1 DEF ThreadExit, Goto, objVars, RunningRefs
  <2>3. YieldingRefs'
    BY <1>12, <2>1 DEF ThreadExit, SetThis, Goto, objVars, YieldingRefs
  <2>4. HeldRefs'
    BY <1>12, <2>1 DEF ThreadExit, objVars, HeldRefs, Stacks
  <2>5. EndingOnFiber'
    BY <1>12 DEF ThreadExit, Goto, EndingOnFiber
  <2> QED
    BY <2>1, <2>2, <2>3, <2>4, <2>5
<1> HIDE FiberAssumption DEF OwnerInv, Typed, Objects, States, Alive, Refs
<1> QED
  BY <1>1, <1>2, <1>3, <1>4, <1>5, <1>6, <1>7, <1>8, <1>9, <1>10, <1>11, <1>12
     DEF Next, FiberStep, ClientStep

(* Type correctness: no reference count and no object count falls below    *)
(* zero, whatever the client does with pointers it never copies.           *)
THEOREM TypeCorrect == OneOwner => (Spec => []TypeOK)
<1> SUFFICES ASSUME OneOwner PROVE Spec => []TypeOK
  OBVIOUS
<1>1. Init => Refs
  BY FiberAssumption DEF Init, Refs, RunningRefs, YieldingRefs, HeldRefs, EndingOnFiber,
                         Objects, Stacks
<1>2. OwnerInv /\ Refs /\ [Next]_vars => Refs'
  BY RefsStep
<1>3. CountIsExact => s_fiber_count \in Nat
  <2>1. IsFiniteSet(Objects)
    BY FiberAssumption, FS_Union DEF Objects
  <2>2. IsFiniteSet({o \in Objects : Alive(o)})
    BY <2>1, FS_Subset
  <2> QED
    BY <2>2, FS_CardinalityType DEF CountIsExact
<1>4. OwnerInv /\ Refs /\ CountIsExact => TypeOK
  BY <1>3 DEF OwnerInv, Typed, Refs, TypeOK
<1> QED
  BY <1>1, <1>2, <1>4, OwnerInvariant, CountIsExactTheorem, PTL DEF Spec

-----------------------------------------------------------------------------
(***************************************************************************)
(* What Fiber does for a client that keeps all its promises: theorems for  *)
(* every set of threads and fibers, on top of the ownership facts that     *)
(* the first part proves from "one owner" alone.                           *)
(***************************************************************************)

KeepsDuties == Duties = AllDuties

(* A thread that runs a sub-fiber got there through its main fiber, whose  *)
(* native stack it will return to, and its main fiber holds the sub-fiber. *)
(* A main fiber stays in EXEC.                                             *)
HomeFacts ==
  \A t \in Threads :
    /\ cpu[t] \in Fibers =>
         /\ t_thread_fiber[t] = t /\ t_fiber[t] = cpu[t] /\ main_ctx[t] = t
         /\ t \in handles[cpu[t]]
         /\ pc[t] \in {"code", "yield", "end"}
    /\ cpu[t] = t => pc[t] \in {"code", "swapin", "exited"}
    /\ pc[t] = "swapin" =>
         /\ cpu[t] = t /\ t_thread_fiber[t] = t
         /\ state_[t_fiber[t]] \in {"INIT", "HOLD", "READY"}
    /\ cpu[t] = t /\ pc[t] # "swapin" /\ t_thread_fiber[t] = t => t_fiber[t] = t
    /\ t_thread_fiber[t] = t => state_[t] = "EXEC"

(* state_ and the cur's of a fiber that a thread runs ...                  *)
OnStackFacts ==
  \A t \in Threads : cpu[t] \in Fibers =>
    /\ pc[t] = "code"  => state_[cpu[t]] = "EXEC" /\ self[cpu[t]] = 1
    /\ pc[t] = "yield" => state_[cpu[t]] \in {"HOLD", "READY"} /\ self[cpu[t]] = 2
    /\ pc[t] = "end"   => state_[cpu[t]] \in {"TERM", "EXECPT", "EXEC"} /\ self[cpu[t]] = 0

(* ... and of one that no thread runs.                                     *)
OffStackFacts ==
  \A f \in Fibers :
    /\ state_[f] = "none" => self[f] = 0
    /\ Alive(f) /\ ~OnCpu(f) =>
         /\ ctx_[f] = "entry" => state_[f] = "INIT" /\ self[f] = 0
         /\ ctx_[f] = "yield" => state_[f] \in {"HOLD", "READY"} /\ self[f] = 2
         /\ ctx_[f] = "end"   => state_[f] \in {"TERM", "EXECPT", "EXEC"} /\ self[f] = 0

(* A live fiber that nobody holds is suspended or captured by its callback.*)
HeldFacts ==
  \A f \in Fibers :
    /\ Alive(f) /\ handles[f] = {} => self[f] # 0 \/ cb_[f] = "self"
    /\ "self" \notin Captures => cb_[f] # "self"

(* Only the destruction of a stranded fiber ends the process.              *)
FaultFacts == fault # "none" => fault = "assert" /\ \E f \in Fibers : Stranded(f)

DisciplineInv == HomeFacts /\ OnStackFacts /\ OffStackFacts /\ HeldFacts /\ FaultFacts

-----------------------------------------------------------------------------
(* An abort of a stranded fiber's destruction keeps the facts.             *)
LEMMA AbortKeepsDiscipline ==
  ASSUME DisciplineInv, Abort("assert"), \E f \in Fibers : Stranded(f)
  PROVE  DisciplineInv'
BY DEF DisciplineInv, HomeFacts, OnStackFacts, OffStackFacts, HeldFacts, FaultFacts, Abort,
       Stranded, Alive, OnCpu, objVars, threadVars

(* Every step of a disciplined client keeps the facts.                     *)
LEMMA DisciplineStep ==
  ASSUME KeepsDuties, OwnerInv, DisciplineInv, [Next]_vars
  PROVE  DisciplineInv'
<1> USE FiberAssumption DEF OwnerInv, Typed, Objects, States, Alive, OnCpu
<1>0. UNCHANGED fault => (UNCHANGED <<state_, ctx_, cpu>> => FaultFacts')
  BY DEF DisciplineInv, FaultFacts, Stranded
<1>1. CASE UNCHANGED vars
  BY <1>1 DEF vars, objVars, threadVars, DisciplineInv, HomeFacts, OnStackFacts, OffStackFacts,
              HeldFacts, FaultFacts, Stranded
<1>2. ASSUME NEW t \in Threads, GetThis(t) PROVE DisciplineInv'
  <2>1. HomeFacts'
    BY <1>2 DEF GetThis, MainFiber, SetThis, InCode, DisciplineInv, HomeFacts, SwapInHolds
  <2>2. OnStackFacts'
    BY <1>2 DEF GetThis, MainFiber, DisciplineInv, OnStackFacts
  <2>3. OffStackFacts' /\ HeldFacts'
    BY <1>2 DEF GetThis, MainFiber, DisciplineInv, OffStackFacts, HeldFacts
  <2>4. FaultFacts'
    BY <1>2 DEF GetThis, InCode, FaultFacts
  <2> QED
    BY <2>1, <2>2, <2>3, <2>4 DEF DisciplineInv
<1>3. ASSUME NEW t \in Threads, NEW f \in Fibers, New(t, f) PROVE DisciplineInv'
  <2>1. HomeFacts'
    BY <1>3 DEF New, threadVars, DisciplineInv, HomeFacts, SwapInHolds, StacksAreOwned, Stacks
  <2>2. OnStackFacts'
    BY <1>3 DEF New, threadVars, DisciplineInv, OnStackFacts, StacksAreOwned, Stacks
  <2>a. /\ state_[f] = "none" /\ state_' = [state_ EXCEPT ![f] = "INIT"]
        /\ cb_' = [cb_ EXCEPT ![f] = "plain"] /\ ctx_' = [ctx_ EXCEPT ![f] = "entry"]
        /\ handles' = [handles EXCEPT ![f] = {t}] /\ UNCHANGED <<self, cpu>>
    BY <1>3 DEF New, threadVars
  <2>b. self[f] = 0
    BY <2>a DEF DisciplineInv, OffStackFacts
  <2>3. OffStackFacts'
    <3> SUFFICES ASSUME NEW g \in Fibers PROVE OffStackFacts!(g)'
      BY DEF OffStackFacts
    <3>1. CASE g = f
      BY <3>1, <2>a, <2>b, SMT
    <3>2. CASE g # f
      <4>1. state_'[g] = state_[g] /\ ctx_'[g] = ctx_[g]
        BY <3>2, <2>a
      <4> QED
        BY <4>1, <2>a DEF DisciplineInv, OffStackFacts
    <3> QED
      BY <3>1, <3>2
  <2>5. HeldFacts'
    <3> SUFFICES ASSUME NEW g \in Fibers PROVE HeldFacts!(g)'
      BY DEF HeldFacts
    <3>1. CASE g = f
      BY <3>1, <2>a
    <3>2. CASE g # f
      BY <3>2, <2>a DEF DisciplineInv, HeldFacts
    <3> QED
      BY <3>1, <3>2
  <2>4. FaultFacts'
    BY <1>3 DEF New, InCode, FaultFacts
  <2> QED
    BY <2>1, <2>2, <2>3, <2>4, <2>5 DEF DisciplineInv
<1>4. ASSUME NEW t \in Threads, NEW f \in Fibers, NEW c \in Captures, Reset(t, f, c)
      PROVE  DisciplineInv'
  <2>1. /\ cpu[t] = t /\ t \in handles[f] /\ state_[f] \in Resettable /\ fault = "none"
        /\ cb_' = [cb_ EXCEPT ![f] = c] /\ ctx_' = [ctx_ EXCEPT ![f] = "entry"]
        /\ state_' = [state_ EXCEPT ![f] = "INIT"]
        /\ UNCHANGED <<self, handles, threadVars, fault>> /\ ~Switching(f)
    BY <1>4 DEF Reset, InCode, ByMain, Checked, Serial, FreshContext, KeepsDuties, AllDuties
  <2>2. ~OnCpu(f)
    BY <2>1 DEF DisciplineInv, HomeFacts, OnStackFacts, Switching, Resettable
  <2>3. self[f] = 0
    BY <2>1, <2>2 DEF DisciplineInv, OffStackFacts, Resettable
  <2>4. HomeFacts'
    BY <2>1, <2>2 DEF DisciplineInv, HomeFacts, SwapInHolds, threadVars
  <2>5. OnStackFacts'
    BY <2>1, <2>2 DEF DisciplineInv, OnStackFacts, threadVars
  <2>6. OffStackFacts' /\ HeldFacts'
    BY <2>1, <2>2, <2>3 DEF DisciplineInv, OffStackFacts, HeldFacts, Resettable, threadVars
  <2> QED
    BY <2>1, <2>4, <2>5, <2>6 DEF DisciplineInv, FaultFacts
<1>5. ASSUME NEW t \in Threads, NEW f \in Fibers, SwapIn(t, f) PROVE DisciplineInv'
  <2>1. /\ cpu[t] = t /\ pc[t] = "code" /\ t_thread_fiber[t] # NULL /\ fault = "none"
        /\ state_[f] \in {"INIT", "HOLD", "READY"}
        /\ t_fiber' = [t_fiber EXCEPT ![t] = f] /\ pc' = [pc EXCEPT ![t] = "swapin"]
        /\ UNCHANGED <<objVars, t_thread_fiber, main_ctx, cpu, fault>>
    BY <1>5 DEF SwapIn, Resumable, InCode, ByMain, MainFirst, Checked, SetThis, Goto,
                KeepsDuties, AllDuties
  <2>2. HomeFacts'
    BY <2>1 DEF DisciplineInv, HomeFacts, ThreadFacts, objVars
  <2>3. OnStackFacts' /\ OffStackFacts' /\ HeldFacts'
    BY <2>1 DEF DisciplineInv, OnStackFacts, OffStackFacts, HeldFacts, objVars
  <2> QED
    BY <2>1, <2>2, <2>3 DEF DisciplineInv, FaultFacts
<1>6. ASSUME NEW t \in Threads, Enter(t) PROVE DisciplineInv'
  <2> DEFINE f == t_fiber[t]
  <2>1. /\ f \in Fibers /\ t \in handles[f] /\ cpu[t] = t /\ t_thread_fiber[t] = t
        /\ pc[t] = "swapin" /\ fault = "none" /\ state_[f] \in {"INIT", "HOLD", "READY"}
    BY <1>6 DEF Enter, SwapInHolds, DisciplineInv, HomeFacts
  <2>2. ~OnCpu(f)
    BY <2>1 DEF StacksAreOwned, Stacks, DisciplineInv, HomeFacts
  <2>3. ctx_[f] # "end"
    BY <2>1, <2>2 DEF DisciplineInv, OffStackFacts
  <2>4. /\ state_' = [state_ EXCEPT ![f] = "EXEC"] /\ main_ctx' = [main_ctx EXCEPT ![t] = t]
        /\ cpu' = [cpu EXCEPT ![t] = f] /\ pc' = [pc EXCEPT ![t] = "code"]
        /\ self' = [self EXCEPT ![f] = CurAfterEntry(f)]
        /\ UNCHANGED <<ctx_, cb_, handles, t_fiber, t_thread_fiber, fault>>
    BY <1>6, <2>1, <2>2, <2>3, FiberAssumption DEF Enter, Saved, Goto
  <2>5. CurAfterEntry(f) = 1
    BY <2>1, <2>2, <2>3 DEF DisciplineInv, OffStackFacts, CurAfterEntry
  <2>6. HomeFacts'
    <3>1. \A u \in Threads : pc[u] = "swapin" /\ t_fiber[u] = f => u = t
      BY <2>1 DEF SwapInHolds, OneHolder
    <3> QED
      BY <2>1, <2>4, <3>1 DEF DisciplineInv, HomeFacts, SwapInHolds
  <2>7. OnStackFacts'
    BY <2>1, <2>2, <2>4, <2>5 DEF DisciplineInv, OnStackFacts
  <2>8. OffStackFacts' /\ HeldFacts'
    BY <2>1, <2>2, <2>4, <2>5 DEF DisciplineInv, OffStackFacts, HeldFacts
  <2> QED
    BY <2>1, <2>4, <2>6, <2>7, <2>8 DEF DisciplineInv, FaultFacts
<1>7. ASSUME NEW t \in Threads, NEW s \in {"HOLD", "READY"}, Yield(t, s) PROVE DisciplineInv'
  <2> DEFINE f == cpu[t]
  <2>1. /\ f \in Fibers /\ pc[t] = "code" /\ t_fiber[t] = f /\ fault = "none"
        /\ state_[f] = "EXEC" /\ self[f] = 1
    BY <1>7 DEF Yield, InCode, MainStays, KeepsDuties, AllDuties, DisciplineInv, HomeFacts,
                OnStackFacts
  <2>2. /\ state_' = [state_ EXCEPT ![f] = s] /\ self' = [self EXCEPT ![f] = 2]
        /\ pc' = [pc EXCEPT ![t] = "yield"]
        /\ UNCHANGED <<ctx_, cb_, handles, t_fiber, t_thread_fiber, main_ctx, cpu, fault>>
    BY <1>7, <2>1 DEF Yield, Goto
  <2>3. \A u \in Threads : cpu[u] = f => u = t
    BY <2>1 DEF StacksAreOwned, Stacks
  <2>4. HomeFacts'
    BY <2>1, <2>2, <2>3 DEF DisciplineInv, HomeFacts, SwapInHolds
  <2>5. OnStackFacts'
    BY <2>1, <2>2, <2>3 DEF DisciplineInv, OnStackFacts
  <2>6. OffStackFacts' /\ HeldFacts'
    BY <2>1, <2>2 DEF DisciplineInv, OffStackFacts, HeldFacts
  <2> QED
    BY <2>1, <2>2, <2>4, <2>5, <2>6 DEF DisciplineInv, FaultFacts
<1>8. ASSUME NEW t \in Threads, NEW how \in {"return"} \cup Throws, Finish(t, how)
      PROVE  DisciplineInv'
  <2> DEFINE f == cpu[t]
  <2>1. /\ f \in Fibers /\ pc[t] = "code" /\ t \in handles[f] /\ fault = "none"
        /\ state_[f] = "EXEC" /\ self[f] = 1
    BY <1>8 DEF Finish, InCode, DisciplineInv, HomeFacts, OnStackFacts
  <2>2. StateAfter(f, how) \in {"TERM", "EXECPT", "EXEC"}
    BY <2>1 DEF StateAfter
  <2>3. /\ state_' = [state_ EXCEPT ![f] = StateAfter(f, how)] /\ self' = [self EXCEPT ![f] = 0]
        /\ pc' = [pc EXCEPT ![t] = "end"]
        /\ UNCHANGED <<ctx_, cb_, handles, t_fiber, t_thread_fiber, main_ctx, cpu, fault>>
    BY <1>8, <2>1 DEF Finish, Goto, LastCur, CurAfterFinish
  <2>4. \A u \in Threads : cpu[u] = f => u = t
    BY <2>1 DEF StacksAreOwned, Stacks
  <2>5. HomeFacts'
    <3>1. \A u \in Threads : pc[u] = "swapin" => t_fiber[u] # f
      BY <2>1, <2>4 DEF SwapInHolds, OneHolder, DisciplineInv, HomeFacts
    <3> QED
      BY <2>1, <2>3, <2>4, <3>1 DEF DisciplineInv, HomeFacts, SwapInHolds
  <2>6. OnStackFacts'
    BY <2>1, <2>2, <2>3, <2>4 DEF DisciplineInv, OnStackFacts
  <2>7. OffStackFacts' /\ HeldFacts'
    BY <2>1, <2>2, <2>3 DEF DisciplineInv, OffStackFacts, HeldFacts
  <2> QED
    BY <2>1, <2>3, <2>5, <2>6, <2>7 DEF DisciplineInv, FaultFacts
<1>9. ASSUME NEW t \in Threads, SwapOut(t) PROVE DisciplineInv'
  <2> DEFINE f == cpu[t]
  <2>1. /\ f \in Fibers /\ pc[t] \in {"yield", "end"} /\ main_ctx[t] = t /\ t_fiber[t] = f
        /\ t_thread_fiber[t] = t /\ fault = "none" /\ f # t
    BY <1>9 DEF SwapOut, ThreadFacts, DisciplineInv, HomeFacts
  <2>2. /\ t_fiber' = [t_fiber EXCEPT ![t] = t] /\ ctx_' = [ctx_ EXCEPT ![f] = pc[t]]
        /\ cpu' = [cpu EXCEPT ![t] = t] /\ main_ctx' = [main_ctx EXCEPT ![t] = NULL]
        /\ pc' = [pc EXCEPT ![t] = "code"]
        /\ UNCHANGED <<state_, cb_, self, handles, t_thread_fiber, fault>>
    BY <1>9, <2>1 DEF SwapOut, SetThis, Goto, Returned, Restored
  <2>3. \A u \in Threads : cpu[u] = f => u = t
    BY <2>1 DEF StacksAreOwned, Stacks
  <2>4. HomeFacts'
    BY <2>1, <2>2 DEF DisciplineInv, HomeFacts
  <2>5. OnStackFacts'
    BY <2>1, <2>2, <2>3 DEF DisciplineInv, OnStackFacts
  <2>6. OffStackFacts'
    <3>1. ASSUME NEW g \in Fibers, g # f PROVE OnCpu(g)' <=> OnCpu(g)
      BY <2>1, <2>2, <3>1
    <3>2. state_[f] # "none"
      BY <2>1 DEF StacksAreOwned, Stacks
    <3>3. /\ pc[t] = "yield" => state_[f] \in {"HOLD", "READY"} /\ self[f] = 2
          /\ pc[t] = "end" => state_[f] \in {"TERM", "EXECPT", "EXEC"} /\ self[f] = 0
      BY <2>1 DEF DisciplineInv, OnStackFacts
    <3> HIDE DEF OnCpu
    <3> QED
      BY <2>1, <2>2, <3>1, <3>2, <3>3 DEF DisciplineInv, OffStackFacts
  <2>7. HeldFacts'
    BY <2>2 DEF DisciplineInv, HeldFacts
  <2> QED
    BY <2>1, <2>2, <2>4, <2>5, <2>6, <2>7 DEF DisciplineInv, FaultFacts
<1>10. ASSUME NEW t \in Threads, NEW f \in Fibers, Drop(t, f) PROVE DisciplineInv'
  <2>1. /\ cpu[t] = t /\ t \in handles[f] /\ ~Switching(f) /\ fault = "none" /\ pc[t] = "code"
    BY <1>10 DEF Drop, InCode, ByMain, Serial, KeepsDuties, AllDuties
  <2>2. \A u \in Threads : cpu[u] # f
    BY <2>1 DEF DisciplineInv, HomeFacts, OneHolder
  <2>3. handles[f] = {t} /\ Alive(f)
    BY <2>1 DEF OneHolder
  <2>4. CASE ~LastHandle(t, f)
    <3>1. /\ (self[f] # 0 \/ cb_[f] = "self") /\ handles' = [handles EXCEPT ![f] = {}]
          /\ UNCHANGED <<state_, ctx_, cb_, self, threadVars, fault>>
      BY <1>10, <2>3, <2>4 DEF Drop, LastHandle, Release
    <3>2. HomeFacts'
      BY <2>1, <2>2, <3>1 DEF DisciplineInv, HomeFacts, threadVars
    <3>3. OnStackFacts' /\ OffStackFacts' /\ HeldFacts'
      BY <3>1 DEF DisciplineInv, OnStackFacts, OffStackFacts, HeldFacts, threadVars
    <3> QED
      BY <2>1, <3>1, <3>2, <3>3 DEF DisciplineInv, FaultFacts
  <2>5. CASE LastHandle(t, f) /\ state_[f] \in Resettable
    <3>1. /\ handles' = [handles EXCEPT ![f] = {}] /\ state_' = [state_ EXCEPT ![f] = "freed"]
          /\ UNCHANGED <<ctx_, cb_, self, threadVars, fault>>
      BY <1>10, <2>2, <2>3, <2>5 DEF Drop, Destroy, Release
    <3>2. \A u \in Threads : pc[u] = "swapin" => t_fiber[u] # f
      BY <2>1 DEF Switching
    <3>3. HomeFacts'
      BY <2>1, <2>2, <3>1, <3>2 DEF DisciplineInv, HomeFacts, SwapInHolds, threadVars
    <3>4. OnStackFacts'
      BY <2>2, <3>1 DEF DisciplineInv, OnStackFacts, threadVars
    <3>5. OffStackFacts' /\ HeldFacts'
      BY <3>1 DEF DisciplineInv, OffStackFacts, HeldFacts, threadVars
    <3> QED
      BY <2>1, <3>1, <3>3, <3>4, <3>5 DEF DisciplineInv, FaultFacts
  <2>6. CASE LastHandle(t, f) /\ state_[f] \notin Resettable
    <3>1. Abort("assert")
      BY <1>10, <2>6 DEF Drop, Destroy
    <3>2. Stranded(f)
      BY <2>2, <2>3, <2>6 DEF DisciplineInv, OffStackFacts, LastHandle, Stranded, Resettable
    <3> QED
      BY <3>1, <3>2, AbortKeepsDiscipline
  <2> QED
    BY <2>4, <2>5, <2>6
<1>11. ASSUME NEW t \in Threads, NEW u \in Threads, NEW f \in Fibers, HandOver(t, u, f)
       PROVE  DisciplineInv'
  <2>1. /\ cpu[t] = t /\ t \in handles[f] /\ fault = "none"
        /\ handles' = [handles EXCEPT ![f] = (handles[f] \ {t}) \cup {u}]
        /\ UNCHANGED <<state_, ctx_, cb_, self, threadVars, fault>>
    BY <1>11 DEF HandOver, MovedTo, InCode, OneOwner, KeepsDuties, AllDuties
  <2>2. \A v \in Threads : cpu[v] # f
    BY <2>1 DEF DisciplineInv, HomeFacts, OneHolder
  <2>3. HomeFacts'
    BY <2>1, <2>2 DEF DisciplineInv, HomeFacts, threadVars
  <2>4. OnStackFacts' /\ OffStackFacts'
    BY <2>1 DEF DisciplineInv, OnStackFacts, OffStackFacts, threadVars
  <2>5. HeldFacts'
    BY <2>1, ZenonT(30) DEF DisciplineInv, HeldFacts
  <2> QED
    BY <2>1, <2>3, <2>4, <2>5 DEF DisciplineInv, FaultFacts
<1>12. ASSUME NEW t \in Threads, ThreadExit(t) PROVE DisciplineInv'
  <2>1. cpu[t] = t /\ pc[t] = "code" /\ fault = "none"
    BY <1>12 DEF ThreadExit, InCode
  <2>2. CASE t_thread_fiber[t] = NULL
    <3>1. /\ pc' = [pc EXCEPT ![t] = "exited"]
          /\ UNCHANGED <<objVars, t_fiber, t_thread_fiber, main_ctx, cpu, fault>>
      BY <1>12, <2>2 DEF ThreadExit, Goto
    <3>2. HomeFacts' /\ OnStackFacts' /\ OffStackFacts' /\ HeldFacts'
      BY <2>1, <3>1 DEF DisciplineInv, HomeFacts, OnStackFacts, OffStackFacts, HeldFacts, objVars
    <3> QED
      BY <2>1, <3>1, <3>2 DEF DisciplineInv, FaultFacts
  <2>3. CASE t_thread_fiber[t] # NULL
    <3>1. state_[t] = "EXEC"
      BY <2>3 DEF ThreadFacts, DisciplineInv, HomeFacts
    <3>2. /\ pc' = [pc EXCEPT ![t] = "exited"] /\ state_' = [state_ EXCEPT ![t] = "freed"]
          /\ t_fiber' = [t_fiber EXCEPT ![t] = NULL]
          /\ t_thread_fiber' = [t_thread_fiber EXCEPT ![t] = NULL]
          /\ UNCHANGED <<ctx_, cb_, self, handles, main_ctx, cpu, fault>>
      BY <1>12, <2>3, <3>1 DEF ThreadExit, Goto, SetThis
    <3>3. HomeFacts'
      BY <2>1, <3>2 DEF DisciplineInv, HomeFacts, SwapInHolds
    <3>4. OnStackFacts' /\ OffStackFacts' /\ HeldFacts'
      BY <2>1, <3>2 DEF DisciplineInv, OnStackFacts, OffStackFacts, HeldFacts
    <3> QED
      BY <2>1, <3>2, <3>3, <3>4 DEF DisciplineInv, FaultFacts
  <2> QED
    BY <2>2, <2>3
<1> HIDE FiberAssumption DEF OwnerInv, Typed, Objects, States, Alive, OnCpu
<1> QED
  BY <1>1, <1>2, <1>3, <1>4, <1>5, <1>6, <1>7, <1>8, <1>9, <1>10, <1>11, <1>12
     DEF Next, FiberStep, ClientStep

(* The facts hold in every state of a disciplined client's process.        *)
THEOREM DisciplineInvariant == KeepsDuties => (Spec => [](OwnerInv /\ DisciplineInv))
<1> SUFFICES ASSUME KeepsDuties PROVE Spec => [](OwnerInv /\ DisciplineInv)
  OBVIOUS
<1>1. OneOwner
  BY DEF OneOwner, KeepsDuties, AllDuties
<1>2. Init => DisciplineInv
  BY FiberAssumption DEF Init, Objects, DisciplineInv, HomeFacts, OnStackFacts, OffStackFacts,
                         HeldFacts, FaultFacts, Alive, States
<1>3. OwnerInv /\ DisciplineInv /\ [Next]_vars => DisciplineInv'
  BY DisciplineStep
<1> QED
  BY <1>1, <1>2, <1>3, OwnerInvariant, PTL DEF Spec

(* GetThis(), GetFiberId() and YieldTo* act on the fiber whose stack the   *)
(* thread executes on, once it has a main fiber.                           *)
THEOREM CurrentFiberIsRunningTheorem == KeepsDuties => (Spec => []CurrentFiberIsRunning)
<1>1. OwnerInv /\ DisciplineInv => CurrentFiberIsRunning
  BY DEF OwnerInv, ThreadFacts, DisciplineInv, HomeFacts, CurrentFiberIsRunning
<1> QED
  BY <1>1, DisciplineInvariant, PTL

(* A sub-fiber's switch back restores the thread's native stack.           *)
THEOREM MainContextIsHomeTheorem == KeepsDuties => (Spec => []MainContextIsHome)
<1>1. DisciplineInv => MainContextIsHome
  BY DEF DisciplineInv, HomeFacts, MainContextIsHome
<1> QED
  BY <1>1, DisciplineInvariant, PTL

(* state_ tells where the saved context of a fiber resumes.                *)
THEOREM StateMatchesContextTheorem == KeepsDuties => (Spec => []StateMatchesContext)
<1>1. OwnerInv /\ DisciplineInv => StateMatchesContext
  <2> SUFFICES ASSUME OwnerInv, DisciplineInv, NEW f \in Fibers, Alive(f)
               PROVE  /\ state_[f] = "INIT" => ctx_[f] = "entry" /\ ~OnCpu(f)
                      /\ state_[f] \in {"HOLD", "READY"} =>
                           \/ ctx_[f] = "yield" /\ ~OnCpu(f)
                           \/ \E t \in Threads : cpu[t] = f /\ pc[t] = "yield"
                      /\ state_[f] \in {"TERM", "EXECPT"} =>
                           \/ ctx_[f] = "end" /\ ~OnCpu(f)
                           \/ \E t \in Threads : cpu[t] = f /\ pc[t] = "end"
                      /\ state_[f] = "EXEC" => OnCpu(f) \/ Stranded(f)
    BY DEF StateMatchesContext, Alive, States
  <2>1. CASE OnCpu(f)
    <3>1. PICK t \in Threads : cpu[t] = f
      BY <2>1 DEF OnCpu
    <3>2. pc[t] \in {"code", "yield", "end"}
      BY <3>1 DEF DisciplineInv, HomeFacts
    <3> QED
      BY <2>1, <3>1, <3>2 DEF DisciplineInv, OnStackFacts
  <2>2. CASE ~OnCpu(f)
    <3>1. ctx_[f] \in {"entry", "yield", "end"}
      BY DEF OwnerInv, Typed
    <3> QED
      BY <2>2, <3>1 DEF DisciplineInv, OffStackFacts, Stranded
  <2> QED
    BY <2>1, <2>2
<1> QED
  BY <1>1, DisciplineInvariant, PTL

(* A fiber's own stack keeps it alive while it is suspended and never      *)
(* after it has ended, unless its callback captures it.                    *)
THEOREM OwnReferencesTheorem ==
  KeepsDuties /\ "self" \notin Captures => (Spec => []OwnReferences)
<1> SUFFICES ASSUME KeepsDuties, "self" \notin Captures PROVE Spec => []OwnReferences
  OBVIOUS
<1>1. OwnerInv /\ DisciplineInv => OwnReferences
  <2> SUFFICES ASSUME OwnerInv, DisciplineInv, NEW f \in Fibers, Alive(f)
               PROVE  /\ state_[f] \in {"HOLD", "READY"} => self[f] = 2
                      /\ ctx_[f] = "end" /\ ~OnCpu(f) => self[f] = 0 /\ handles[f] # {}
    BY DEF OwnReferences, Alive, States
  <2>1. ctx_[f] = "end" /\ ~OnCpu(f) => self[f] = 0 /\ handles[f] # {}
    BY DEF DisciplineInv, OffStackFacts, HeldFacts
  <2>2. CASE OnCpu(f)
    <3>1. PICK t \in Threads : cpu[t] = f
      BY <2>2 DEF OnCpu
    <3> QED
      BY <2>1, <3>1 DEF DisciplineInv, HomeFacts, OnStackFacts
  <2>3. CASE ~OnCpu(f)
    <3>1. ctx_[f] \in {"entry", "yield", "end"}
      BY DEF OwnerInv, Typed
    <3> QED
      BY <2>1, <2>3, <3>1 DEF DisciplineInv, OffStackFacts
  <2> QED
    BY <2>2, <2>3
<1> QED
  BY <1>1, DisciplineInvariant, PTL

(* No assertion of the library fails, no null, dead or freed context is    *)
(* used, but for the destruction of a fiber a std::exception has ended.    *)
THEOREM OnlyStrandedFibersAbortTheorem == KeepsDuties => (Spec => []OnlyStrandedFibersAbort)
<1>1. DisciplineInv => OnlyStrandedFibersAbort
  BY DEF DisciplineInv, FaultFacts, OnlyStrandedFibersAbort
<1> QED
  BY <1>1, DisciplineInvariant, PTL

-----------------------------------------------------------------------------
(* Where a fiber stands before and after a step, case by case.             *)
LEMMA StandingCases ==
  ASSUME NEW f \in Fibers
  PROVE  /\ state_[f] = "none" => Standing(f) = "none"
         /\ Alive(f) /\ OnCpu(f) => Standing(f) = "running"
         /\ Alive(f) /\ ~OnCpu(f) /\ ctx_[f] = "entry" => Standing(f) = "fresh"
         /\ Alive(f) /\ ~OnCpu(f) /\ ctx_[f] = "yield" => Standing(f) = "suspended"
         /\ Alive(f) /\ ~OnCpu(f) /\ ctx_[f] = "end" => Standing(f) = "ended"
BY DEF Standing, Alive, States

(* The same after a step, where the destruction of a fiber is one more     *)
(* case.                                                                   *)
LEMMA StandingCasesAfter ==
  ASSUME NEW f \in Fibers
  PROVE  /\ state_'[f] = "freed" => Standing(f)' = "destroyed"
         /\ state_'[f] \in States /\ OnCpu(f)' => Standing(f)' = "running"
         /\ state_'[f] \in States /\ ~OnCpu(f)' /\ ctx_'[f] = "entry" => Standing(f)' = "fresh"
         /\ state_'[f] \in States /\ ~OnCpu(f)' /\ ctx_'[f] = "yield" => Standing(f)' = "suspended"
         /\ state_'[f] \in States /\ ~OnCpu(f)' /\ ctx_'[f] = "end" => Standing(f)' = "ended"
BY DEF Standing, Alive, States

(* A step that keeps the contexts and the lives of the sub-fibers is not   *)
(* seen by the client.                                                     *)
Unseen ==
  /\ UNCHANGED <<ctx_, cpu>>
  /\ \A f \in Fibers : \/ state_'[f] = state_[f]
                       \/ state_[f] \in States /\ state_'[f] \in States

(* Such a step is a stutter of Coroutine.                                  *)
LEMMA CoStutter == Unseen => UNCHANGED Co!vars
<1> SUFFICES ASSUME Unseen PROVE UNCHANGED Co!vars
  OBVIOUS
<1>1. ASSUME NEW f \in Fibers PROVE Standing(f)' = Standing(f)
  <2>1. OnCpu(f)' <=> OnCpu(f)
    BY DEF Unseen, OnCpu
  <2>2. CASE state_'[f] = state_[f]
    BY <2>1, <2>2 DEF Unseen, Standing, Alive
  <2>3. CASE state_[f] \in States /\ state_'[f] \in States
    <3>1. state_[f] \notin {"none", "freed"} /\ state_'[f] \notin {"none", "freed"}
      BY <2>3 DEF States
    <3> QED
      BY <2>1, <2>3, <3>1 DEF Unseen, Standing, Alive
  <2> QED
    BY <2>2, <2>3 DEF Unseen
<1>2. \A t \in Threads : Runs(t)' = Runs(t)
  BY DEF Unseen, Runs
<1> QED
  BY <1>1, <1>2 DEF Co!vars

(* What one fiber's move looks like.                                       *)
LEMMA CoMoves ==
  ASSUME NEW h \in Fibers, NEW from, NEW to, Standing(h) \in from, Standing(h)' = to,
         \A g \in Fibers \ {h} : Standing(g)' = Standing(g)
  PROVE  Co!Moves(h, from, to)
BY DEF Co!Moves

(* What a thread runs, when the stack it executes on changes.              *)
LEMMA RunsAfter ==
  ASSUME cpu \in [Threads -> Objects], NEW t \in Threads, NEW to,
         cpu' = [cpu EXCEPT ![t] = to]
  PROVE  [u \in Threads |-> Runs(u)]'
           = [[u \in Threads |-> Runs(u)] EXCEPT ![t] = IF to \in Fibers THEN to ELSE NULL]
BY DEF Runs

(* What a move of h leaves alone.                                          *)
LEMMA OthersStand ==
  ASSUME NEW h \in Fibers,
         \A g \in Fibers \ {h} : /\ state_'[g] = state_[g] /\ ctx_'[g] = ctx_[g]
                                 /\ OnCpu(g)' <=> OnCpu(g)
  PROVE  \A g \in Fibers \ {h} : Standing(g)' = Standing(g)
BY DEF Standing, Alive

(* Every step of a disciplined client is a coroutine's step or unseen.     *)
LEMMA CoStep ==
  ASSUME KeepsDuties, OwnerInv, DisciplineInv, [Next]_vars
  PROVE  [Co!Next]_(Co!vars)
<1> USE FiberAssumption DEF OwnerInv, Typed, Objects
<1>0. ASSUME NEW why, Abort(why) PROVE UNCHANGED Co!vars
  BY <1>0, CoStutter DEF Unseen, Abort, objVars, threadVars
<1>1. CASE UNCHANGED vars
  BY <1>1, CoStutter DEF Unseen, vars, objVars, threadVars
<1>2. ASSUME NEW t \in Threads, GetThis(t) PROVE UNCHANGED Co!vars
  BY <1>2, CoStutter DEF Unseen, GetThis, MainFiber
<1>3. ASSUME NEW t \in Threads, NEW f \in Fibers, New(t, f) PROVE Co!Create(f)
  <2>1. /\ state_[f] = "none" /\ state_' = [state_ EXCEPT ![f] = "INIT"]
        /\ ctx_' = [ctx_ EXCEPT ![f] = "entry"] /\ UNCHANGED cpu
    BY <1>3 DEF New, threadVars
  <2>2. \A u \in Threads : cpu[u] # f
    BY <2>1 DEF StacksAreOwned, Stacks, Alive, States
  <2>3. Standing(f) = "none"
    BY <2>1, StandingCases
  <2>4. Standing(f)' = "fresh"
    BY <2>1, <2>2, StandingCasesAfter DEF States, OnCpu
  <2>5. \A g \in Fibers \ {f} : Standing(g)' = Standing(g)
    BY <2>1, OthersStand DEF OnCpu
  <2> QED
    BY <2>1, <2>3, <2>4, <2>5, CoMoves DEF Co!Create, Runs
<1>4. ASSUME NEW t \in Threads, NEW f \in Fibers, NEW c \in Captures, Reset(t, f, c)
      PROVE  UNCHANGED Co!vars \/ Co!Restart(f)
  <2>1. CASE \E why : Abort(why)
    BY <1>0, <2>1
  <2>2. CASE \A why : ~Abort(why)
    <3>1. /\ state_[f] \in Resettable /\ state_' = [state_ EXCEPT ![f] = "INIT"]
          /\ ctx_' = [ctx_ EXCEPT ![f] = "entry"] /\ UNCHANGED cpu /\ ~Switching(f)
      BY <1>4, <2>2 DEF Reset, FreshContext, Serial, KeepsDuties, AllDuties, threadVars
    <3>2. \A u \in Threads : cpu[u] # f
      BY <3>1 DEF DisciplineInv, HomeFacts, OnStackFacts, Switching, Resettable
    <3>3. Alive(f) /\ ~OnCpu(f) /\ ctx_[f] \in {"entry", "end"}
      BY <3>1, <3>2 DEF DisciplineInv, OffStackFacts, Resettable, Alive, States, OnCpu
    <3>4. CASE ctx_[f] = "entry"
      BY <3>1, <3>3, <3>4, CoStutter DEF Unseen, Alive, States
    <3>5. CASE ctx_[f] = "end"
      <4>1. Standing(f) = "ended"
        BY <3>3, <3>5, StandingCases
      <4>2. Standing(f)' = "fresh"
        BY <3>1, <3>2, StandingCasesAfter DEF States, OnCpu
      <4>3. \A g \in Fibers \ {f} : Standing(g)' = Standing(g)
        BY <3>1, OthersStand DEF OnCpu
      <4> QED
        BY <3>1, <4>1, <4>2, <4>3, CoMoves DEF Co!Restart, Runs
    <3> QED
      BY <3>3, <3>4, <3>5
  <2> QED
    BY <2>1, <2>2
<1>5. ASSUME NEW t \in Threads, NEW f \in Fibers, SwapIn(t, f) PROVE UNCHANGED Co!vars
  <2>1. CASE \E why : Abort(why)
    BY <1>0, <2>1
  <2>2. CASE \A why : ~Abort(why)
    BY <1>5, <2>2, CoStutter DEF Unseen, SwapIn, objVars
  <2> QED
    BY <2>1, <2>2
<1>6. ASSUME NEW t \in Threads, Enter(t)
      PROVE  UNCHANGED Co!vars \/ \E f \in Fibers : Co!Resume(t, f)
  <2>0. PICK f \in Fibers : f = t_fiber[t]
    BY <1>6 DEF Enter, SwapInHolds
  <2>1. /\ t_fiber[t] = f /\ t \in handles[f] /\ cpu[t] = t
        /\ pc[t] = "swapin" /\ state_[f] \in {"INIT", "HOLD", "READY"}
    BY <1>6, <2>0 DEF Enter, SwapInHolds, DisciplineInv, HomeFacts
  <2>2. ~OnCpu(f) /\ Alive(f)
    BY <2>1 DEF StacksAreOwned, Stacks, DisciplineInv, HomeFacts, OnCpu, OneHolder
  <2>3. ctx_[f] \in {"entry", "yield"}
    BY <2>1, <2>2 DEF DisciplineInv, OffStackFacts
  <2>4. CASE \E why : Abort(why)
    BY <1>0, <2>4
  <2>5. CASE \A why : ~Abort(why)
    <3>1. /\ state_' = [state_ EXCEPT ![f] = "EXEC"] /\ cpu' = [cpu EXCEPT ![t] = f]
          /\ UNCHANGED ctx_
      BY <1>6, <2>0, <2>5 DEF Enter
    <3>2. Standing(f) \in {"fresh", "suspended"}
      BY <2>1, <2>2, <2>3, StandingCases
    <3>3. Standing(f)' = "running"
      BY <2>1, <3>1, StandingCasesAfter DEF States, OnCpu
    <3>4. \A g \in Fibers \ {f} : OnCpu(g)' <=> OnCpu(g)
      BY <2>1, <3>1 DEF OnCpu
    <3>5. \A g \in Fibers \ {f} : Standing(g)' = Standing(g)
      BY <2>1, <3>1, <3>4, OthersStand
    <3>6. Co!Moves(f, {"fresh", "suspended"}, "running")
      BY <2>1, <3>2, <3>3, <3>5, CoMoves
    <3>7. [u \in Threads |-> Runs(u)][t] = NULL
      BY <2>1 DEF Runs
    <3>8. [u \in Threads |-> Runs(u)]' = [[u \in Threads |-> Runs(u)] EXCEPT ![t] = f]
      BY <3>1, RunsAfter
    <3> QED
      BY <2>1, <3>6, <3>7, <3>8 DEF Co!Resume
  <2> QED
    BY <2>4, <2>5
<1>7. ASSUME NEW t \in Threads, NEW s \in {"HOLD", "READY"}, Yield(t, s) PROVE UNCHANGED Co!vars
  <2>1. CASE \E why : Abort(why)
    BY <1>0, <2>1
  <2>2. CASE \A why : ~Abort(why)
    BY <1>7, <2>2, CoStutter DEF Unseen, Yield, States
  <2> QED
    BY <2>1, <2>2
<1>8. ASSUME NEW t \in Threads, NEW how \in {"return"} \cup Throws, Finish(t, how)
      PROVE  UNCHANGED Co!vars
  <2>1. CASE \E why : Abort(why)
    BY <1>0, <2>1
  <2>2. CASE \A why : ~Abort(why)
    <3>1. cpu[t] \in Fibers /\ state_[cpu[t]] = "EXEC"
      BY <1>8 DEF Finish, InCode, DisciplineInv, OnStackFacts
    <3>2. StateAfter(cpu[t], how) \in States
      BY <3>1 DEF StateAfter, States
    <3> QED
      BY <1>8, <2>2, <3>1, <3>2, CoStutter DEF Unseen, Finish, States
  <2> QED
    BY <2>1, <2>2
<1>9. ASSUME NEW t \in Threads, SwapOut(t) PROVE \E f \in Fibers : Co!Leave(t, f)
  <2>0. PICK f \in Fibers : f = cpu[t]
    BY <1>9 DEF SwapOut, ThreadFacts, DisciplineInv, HomeFacts
  <2>1. /\ cpu[t] = f /\ pc[t] \in {"yield", "end"} /\ main_ctx[t] = t /\ t_fiber[t] = f
        /\ f # t /\ Alive(f) /\ OnCpu(f)
    BY <1>9, <2>0 DEF SwapOut, ThreadFacts, DisciplineInv, HomeFacts, StacksAreOwned, Stacks, OnCpu
  <2>2. /\ ctx_' = [ctx_ EXCEPT ![f] = pc[t]] /\ cpu' = [cpu EXCEPT ![t] = t] /\ UNCHANGED state_
    BY <1>9, <2>1 DEF SwapOut, Restored
  <2>3. ~OnCpu(f)'
    <3>1. \A u \in Threads : cpu[u] = f => u = t
      BY <2>1 DEF StacksAreOwned, Stacks
    <3> QED
      BY <2>1, <2>2, <3>1 DEF OnCpu
  <2>4. Standing(f) = "running"
    BY <2>1, StandingCases
  <2>5. Standing(f)' \in {"suspended", "ended"}
    BY <2>1, <2>2, <2>3, StandingCasesAfter DEF Alive
  <2>6. \A g \in Fibers \ {f} : OnCpu(g)' <=> OnCpu(g)
    BY <2>1, <2>2 DEF OnCpu
  <2>7. \A g \in Fibers \ {f} : Standing(g)' = Standing(g)
    BY <2>1, <2>2, <2>6, OthersStand
  <2>8. Co!Moves(f, {"running"}, Standing(f)')
    BY <2>1, <2>4, <2>7, CoMoves
  <2>9. [u \in Threads |-> Runs(u)][t] = f
    BY <2>1 DEF Runs
  <2>10. [u \in Threads |-> Runs(u)]' = [[u \in Threads |-> Runs(u)] EXCEPT ![t] = NULL]
    BY <2>2, RunsAfter
  <2> QED
    <3>1. \E to \in {"suspended", "ended"} : Co!Moves(f, {"running"}, to)
      BY <2>5, <2>8
    <3> QED
      BY <2>9, <2>10, <3>1 DEF Co!Leave
<1>10. ASSUME NEW t \in Threads, NEW f \in Fibers, Drop(t, f)
       PROVE  UNCHANGED Co!vars \/ Co!Destroy(f)
  <2>1. CASE \E why : Abort(why)
    BY <1>0, <2>1
  <2>2. CASE ~LastHandle(t, f)
    BY <1>10, <2>2, CoStutter DEF Unseen, Drop, threadVars
  <2>3. CASE LastHandle(t, f) /\ \A why : ~Abort(why)
    <3>1. /\ state_[f] \in Resettable /\ ~OnCpu(f) /\ self[f] = 0
          /\ state_' = [state_ EXCEPT ![f] = "freed"] /\ UNCHANGED <<ctx_, cpu>>
      BY <1>10, <2>3 DEF Drop, Destroy, LastHandle, threadVars
    <3>2. Alive(f) /\ ctx_[f] \in {"entry", "end"}
      BY <3>1 DEF DisciplineInv, OffStackFacts, Resettable, Alive, States
    <3>3. Standing(f) \in {"fresh", "ended"}
      BY <3>1, <3>2, StandingCases
    <3>4. Standing(f)' = "destroyed"
      BY <3>1, StandingCasesAfter
    <3>5. \A g \in Fibers \ {f} : Standing(g)' = Standing(g)
      BY <3>1, OthersStand DEF OnCpu
    <3> QED
      BY <3>1, <3>3, <3>4, <3>5, CoMoves DEF Co!Destroy, Runs
  <2> QED
    BY <2>1, <2>2, <2>3
<1>11. ASSUME NEW t \in Threads, NEW u \in Threads, NEW f \in Fibers, HandOver(t, u, f)
       PROVE  UNCHANGED Co!vars
  BY <1>11, CoStutter DEF Unseen, HandOver, threadVars
<1>12. ASSUME NEW t \in Threads, ThreadExit(t) PROVE UNCHANGED Co!vars
  <2>1. CASE \E why : Abort(why)
    BY <1>0, <2>1
  <2>2. CASE \A why : ~Abort(why)
    BY <1>12, <2>2, CoStutter DEF Unseen, ThreadExit, objVars
  <2> QED
    BY <2>1, <2>2
<1> HIDE FiberAssumption DEF OwnerInv, Typed, Objects
<1> QED
  BY <1>1, <1>2, <1>3, <1>4, <1>5, <1>6, <1>7, <1>8, <1>9, <1>10, <1>11, <1>12
     DEF Next, FiberStep, ClientStep, Co!Next

(* The library implements coroutines for a client that keeps its duties.   *)
THEOREM FibersAreCoroutinesTheorem == KeepsDuties => (Spec => FibersAreCoroutines)
<1> SUFFICES ASSUME KeepsDuties PROVE Spec => FibersAreCoroutines
  OBVIOUS
<1>1. Init => Co!Init
  BY FiberAssumption DEF Init, Co!Init, Standing, Runs, Objects, Alive, States
<1>2. OwnerInv /\ DisciplineInv /\ [Next]_vars => [Co!Next]_(Co!vars)
  BY CoStep
<1> QED
  BY <1>1, <1>2, DisciplineInvariant, PTL DEF Spec, Co!Spec, FibersAreCoroutines
=============================================================================
