---------------------------- MODULE LoggerProofs ----------------------------
(***************************************************************************)
(* Theorems about Logger, for any number of threads, loggers, appenders,   *)
(* formatters and calls, all documents, and every profile of clients.      *)
(***************************************************************************)
EXTENDS Logger, SequenceTheorems, WellFoundedInduction, TLAPS

Labels == {"idle", "log", "root", "attach", "inherit", "inheritwrite", "yaml"}

Ops == [log : Loggers \cup {NULL}, at : Loggers \cup {NULL}, todo : Seq(Appenders \cup Loggers),
        app : Appenders \cup {NULL}, need : BOOLEAN, hits : Nat]

Documents == profile.configs \cup {<<>>}

(* The types of the loggers, the appenders and the calls.                  *)
Typed ==
  /\ profile \in Profiles
  /\ loggers_ \subseteq Loggers
  /\ appenders_ \in [Loggers -> Seq(Appenders)]
  /\ formatter_ \in [Loggers -> Formats]
  /\ mutex_ \in [Loggers -> Threads \cup {NULL}]
  /\ fmt_ \in [Appenders -> Formats \cup {NULL}]
  /\ has_formatter_ \in [Appenders -> BOOLEAN]
  /\ own \in [Appenders -> Formats \cup {NULL}]
  /\ DOMAIN filename_ = Appenders
  /\ pc \in [Threads -> Labels]
  /\ op \in [Threads -> Ops]

(* The types of a reload.                                                  *)
ReloadTyped ==
  /\ doc \in Documents
  /\ reload \in [by : Threads \cup {NULL}, to : Documents, left : SUBSET Loggers,
                 log : Loggers \cup {NULL},
                 next : {"none", "log", "next", "get", "format", "clear", "new"}, n : Nat]
  /\ reload.next \in {"get", "format", "clear", "new"} => reload.log \in Loggers

(* Thread t has the lock of the logger that its call is about, and what it *)
(* still has to do concerns the appenders of that logger.                  *)
ThreadFacts(t) ==
  /\ pc[t] \in {"log", "root"} => op[t].at \in Loggers /\ mutex_[op[t].at] = t
  /\ pc[t] \in {"attach", "inherit", "inheritwrite"} => op[t].log \in Loggers /\ mutex_[op[t].log] = t
  /\ op[t].app # NULL <=> pc[t] = "attach"
  /\ pc[t] = "root" => appenders_[op[t].at] = <<>> /\ op[t].hits = 0
  /\ pc[t] = "log" =>
       /\ appenders_[op[t].at] # <<>>
       /\ op[t].hits + Len(op[t].todo) = Len(appenders_[op[t].at])
       /\ ToSet(op[t].todo) \subseteq ToSet(appenders_[op[t].at])
  /\ pc[t] \in {"inherit", "inheritwrite"} => ToSet(op[t].todo) \subseteq ToSet(appenders_[op[t].log])
  /\ pc[t] = "inheritwrite" => op[t].todo # <<>>

(* Whether an appender has its own formatter, and that no attached         *)
(* appender is without one, if it was configured first.                    *)
FormatterFacts ==
  /\ \A a \in Appenders : (has_formatter_[a] <=> own[a] # NULL) /\ (has_formatter_[a] => fmt_[a] = own[a])
  /\ \A g \in Loggers : \A a \in ToSet(appenders_[g]) : fmt_[a] # NULL
  /\ \A t \in Threads : pc[t] = "attach" =>
       IF op[t].need THEN ~has_formatter_[op[t].app] ELSE fmt_[op[t].app] # NULL
  /\ \A t \in Threads : pc[t] = "inheritwrite" => ~has_formatter_[Head(op[t].todo)]

(* Thread t will give appender a the formatter of logger g.                *)
Inheriting(t, g, a) ==
  pc[t] \in {"inherit", "inheritwrite"} /\ op[t].log = g /\ a \in ToSet(op[t].todo)

(* An appender has or gets one logger, and without a formatter of its own  *)
(* has that one's or is about to get it.                                   *)
InheritFacts ==
  /\ \A g, h \in Loggers : \A a \in Appenders :
       a \in ToSet(appenders_[g]) /\ a \in ToSet(appenders_[h]) => g = h
  /\ \A t \in Threads : pc[t] = "attach" =>
       /\ ~Attached(op[t].app)
       /\ op[t].need \/ has_formatter_[op[t].app]
       /\ \A u \in Threads : op[u].app = op[t].app => u = t
  /\ \A g \in Loggers : \A a \in ToSet(appenders_[g]) :
       has_formatter_[a] \/ fmt_[a] = formatter_[g] \/ \E t \in Threads : Inheriting(t, g, a)

(* No document mentions the root logger, and it has an appender.           *)
RootFacts ==
  /\ appenders_[Root] # <<>>
  /\ Root \notin DOMAIN doc /\ Root \notin reload.left /\ reload.log # Root
  /\ Root \notin DOMAIN reload.to

(* An appender that was configured first has a formatter, and a root logger *)
(* that keeps its appenders is not asked for its root_.                     *)
FaultFacts ==
  /\ Configured => fault # "null formatter"
  /\ "root kept" \in profile.duties => fault # "null root"

(* What the loggers guarantee whoever calls them ...                       *)
Core ==
  /\ Typed
  /\ \A t \in Threads : ThreadFacts(t)
  /\ Configured => FormatterFacts
  /\ Configured /\ Single => InheritFacts

(* ... and with the reloads.                                               *)
LoggerInv ==
  /\ Core /\ ReloadTyped
  /\ "root kept" \in profile.duties => RootFacts
  /\ FaultFacts

(* The loggers and "logs": which part of the new document is applied.      *)

(* The appenders of the listener's logger, with the one that its thread is *)
(* adding.                                                                 *)
Pending ==
  IF pc[reload.by] = "attach" THEN Append(appenders_[reload.log], op[reload.by].app)
  ELSE appenders_[reload.log]

(* Only the listener changes loggers, and only its own ...                 *)
OnlyListener ==
  \A t \in Threads : pc[t] \in {"attach", "inherit", "inheritwrite"} =>
    /\ t = reload.by /\ op[t].log = reload.log
    /\ reload.next = IF pc[t] = "attach" THEN "new" ELSE "clear"

(* ... of which it has applied as much as it has come to.                  *)
ListenerFacts ==
  /\ reload.next # "none" /\ reload.to \in profile.configs
  /\ reload.next \in {"log", "next"} => reload.log = NULL
  /\ \A g \in DOMAIN reload.to \ (reload.left \cup {reload.log}) : Applied(g, LogDefine(reload.to[g]))
  /\ reload.next \in {"format", "clear", "new"} => reload.log \in loggers_
  /\ reload.next \in {"get", "format", "clear"} => reload.n = 1
  /\ reload.next = "format" => Wanted.formatter # NULL
  /\ reload.next \in {"clear", "new"} =>
       (Wanted.formatter \in Formats => formatter_[reload.log] = Wanted.formatter)
  /\ reload.next = "new" =>
       /\ reload.n \in 1..Len(Wanted.appenders) + 1
       /\ Len(Pending) = reload.n - 1
       /\ \A i \in 1..reload.n - 1 : Made(Pending[i], Wanted.appenders[i])

LogsInv ==
  /\ OnlyListener
  /\ Reloading => ListenerFacts
  /\ ~Reloading => \A g \in DOMAIN doc : Applied(g, LogDefine(doc[g]))

-----------------------------------------------------------------------------
(* The relation < on the numbers is well founded.                          *)
LEMMA Descent ==
  \E R : IsWellFoundedOn(R, Nat) /\ \A x, y \in Nat : x < y => <<x, y>> \in R
<1> DEFINE R == OpToRel(<, Nat)
<1>1. \A x, y \in Nat : x < y => <<x, y>> \in R
  BY DEF OpToRel
<1>2. IsWellFoundedOn(R, Nat)
  BY NatLessThanWellFounded
<1> HIDE DEF R
<1> QED
  BY <1>1, <1>2

(* A set of numbers has a least element.                                   *)
LEMMA LeastElement ==
  ASSUME NEW T \in SUBSET Nat, T # {}
  PROVE  Min(T) \in T /\ \A y \in T : Min(T) <= y
<1>1. PICK R : IsWellFoundedOn(R, Nat) /\ \A x, y \in Nat : x < y => <<x, y>> \in R
  BY Descent
<1>2. ASSUME NEW Q, IsWellFoundedOn(Q, Nat) PROVE \E x \in T : \A y \in T : ~(<<y, x>> \in Q)
  BY <1>2, WFMin, Zenon
<1>3. PICK x \in T : \A y \in T : ~(<<y, x>> \in R)
  BY <1>1, <1>2
<1>4. ASSUME NEW y \in T PROVE x <= y
  <2>1. CASE y < x
    BY <1>1, <1>3, <2>1
  <2> QED
    BY <2>1
<1>5. \E m \in T : \A y \in T : m <= y
  BY <1>4
<1> QED
  BY <1>5 DEF Min

(* Induction: a set of numbers that has 0 and all successors has all.       *)
LEMMA SetInduction ==
  ASSUME NEW T \in SUBSET Nat, 0 \in T, \A n \in T : n + 1 \in T
  PROVE  T = Nat
<1> SUFFICES ASSUME Nat \ T # {} PROVE FALSE
  OBVIOUS
<1>1. PICK x \in Nat \ T : \A y \in Nat \ T : x <= y
  BY LeastElement, Nat \ T \in SUBSET Nat
<1>2. x - 1 \in Nat /\ (x - 1) + 1 = x /\ ~(x <= x - 1)
  BY <1>1
<1> QED
  BY <1>1, <1>2

(* The sequences of a sequence one after the other: a recursion over its   *)
(* length, which has a solution.                                           *)
Flattens(s, n, f) ==
  f = [i \in 1..n |-> IF i = 1 THEN s[i] ELSE f[i - 1] \o s[i]]

(* The result has the elements of the parts.                               *)
LEMMA FlattenFacts ==
  ASSUME NEW S, NEW s \in Seq(Seq(S))
  PROVE  FlattenSeq(s) \in Seq(S)
<1>1. Len(s) \in Nat /\ \A i \in 1..Len(s) : s[i] \in Seq(S)
  BY LenProperties
<1>2. \E f : Flattens(s, Len(s), f)
  <2> DEFINE T == {n \in Nat : \E f : Flattens(s, n, f)}
  <2>1. 0 \in T
    <3>1. 1..0 = {}
      OBVIOUS
    <3> DEFINE e == [i \in {} |-> s]
    <3>2. Flattens(s, 0, e)
      BY <3>1 DEF Flattens
    <3> QED
      BY <3>2
  <2>2. ASSUME NEW n \in T PROVE n + 1 \in T
    <3>1. PICK f : Flattens(s, n, f)
      OBVIOUS
    <3> DEFINE h == [i \in 1..n + 1 |-> IF i = 1 THEN s[i] ELSE f[i - 1] \o s[i]]
    <3>2. ASSUME NEW i \in 1..n PROVE h[i] = f[i]
      <4>1. n \in Nat /\ i \in 1..n + 1
        OBVIOUS
      <4>2. f[i] = IF i = 1 THEN s[i] ELSE f[i - 1] \o s[i]
        <5> HIDE DEF h, T
        <5> QED
          BY <3>1 DEF Flattens
      <4> QED
        BY <4>1, <4>2
    <3>3. ASSUME NEW i \in 1..n + 1, i # 1 PROVE h[i - 1] = f[i - 1]
      <4>1. i - 1 \in 1..n
        BY <3>3
      <4> QED
        BY <3>2, <4>1
    <3>4. Flattens(s, n + 1, h)
      <4> HIDE DEF h
      <4>1. h = [i \in 1..n + 1 |-> IF i = 1 THEN s[i] ELSE h[i - 1] \o s[i]]
        BY <3>3 DEF h
      <4> QED
        BY <4>1 DEF Flattens
    <3> HIDE DEF h
    <3> QED
      BY <3>4
  <2>3. T = Nat
    <3> HIDE DEF T
    <3>1. T \in SUBSET Nat
      BY DEF T
    <3> QED
      BY <2>1, <2>2, <3>1, SetInduction
  <2> QED
    BY <1>1, <2>3
<1>3. ASSUME NEW f, Flattens(s, Len(s), f), NEW m \in 1..Len(s) PROVE f[m] \in Seq(S)
  <2> DEFINE T == {n \in Nat : n = 0 \/ n > Len(s) \/ f[n] \in Seq(S)}
  <2>1. \A i \in 1..Len(s) : f[i] = IF i = 1 THEN s[i] ELSE f[i - 1] \o s[i]
    BY <1>3 DEF Flattens
  <2>2. ASSUME NEW n \in T PROVE n + 1 \in T
    <3>1. n \in Nat /\ (n = 0 \/ n > Len(s) \/ f[n] \in Seq(S))
      OBVIOUS
    <3>2. CASE n + 1 \in 1..Len(s)
      <4>1. f[n + 1] = IF n = 0 THEN s[n + 1] ELSE f[n] \o s[n + 1]
        BY <1>1, <2>1, <3>1, <3>2
      <4>2. s[n + 1] \in Seq(S) /\ (n = 0 \/ f[n] \in Seq(S))
        BY <1>1, <3>1, <3>2
      <4>3. f[n + 1] \in Seq(S)
        <5> HIDE DEF T
        <5> QED
          BY <4>1, <4>2, ConcatProperties
      <4> QED
        BY <3>1, <4>3
    <3>3. CASE n + 1 \notin 1..Len(s)
      BY <1>1, <3>1, <3>3
    <3> QED
      BY <3>2, <3>3
  <2>3. T = Nat
    <3>1. T \in SUBSET Nat /\ 0 \in T
      OBVIOUS
    <3> HIDE DEF T
    <3> QED
      BY <2>2, <3>1, SetInduction
  <2>4. m \in T /\ m # 0 /\ ~(m > Len(s))
    <3> HIDE DEF T
    <3> QED
      BY <1>1, <2>3
  <2> QED
    BY <2>4
<1>4. CASE Len(s) = 0
  BY <1>4, EmptySeq DEF FlattenSeq
<1>5. CASE Len(s) # 0
  <2> DEFINE flatten == CHOOSE f : Flattens(s, Len(s), f)
  <2>1. FlattenSeq(s) = flatten[Len(s)]
    BY <1>5 DEF FlattenSeq, Flattens
  <2>2. Flattens(s, Len(s), flatten)
    BY <1>2
  <2> HIDE DEF flatten
  <2> QED
    BY <1>1, <1>3, <1>5, <2>1, <2>2
<1> QED
  BY <1>4, <1>5

(* The head and the tail of a sequence that is not empty.                  *)
LEMMA TailFacts ==
  ASSUME NEW S, NEW s \in Seq(S), s # <<>>
  PROVE  /\ Tail(s) \in Seq(S) /\ Len(Tail(s)) = Len(s) - 1 /\ Len(s) \in Nat \ {0}
         /\ Head(s) \in ToSet(s) /\ Head(s) \in S
         /\ ToSet(s) = ToSet(Tail(s)) \cup {Head(s)}
<1>1. Len(s) \in Nat \ {0} /\ DOMAIN s = 1..Len(s) /\ Head(s) = s[1]
  BY EmptySeq, LenProperties
<1>2. /\ Tail(s) \in Seq(S) /\ Len(Tail(s)) = Len(s) - 1
      /\ \A i \in 1..Len(s) - 1 : Tail(s)[i] = s[i + 1]
  BY <1>1
<1>3. DOMAIN Tail(s) = 1..Len(s) - 1
  BY <1>2, LenProperties
<1>4. ASSUME NEW i \in 1..Len(s) PROVE s[i] = s[1] \/ s[i] \in ToSet(Tail(s))
  <2>1. CASE i # 1
    <3>1. i - 1 \in 1..Len(s) - 1 /\ Tail(s)[i - 1] = s[i]
      BY <1>1, <1>2, <2>1
    <3> QED
      BY <1>3, <3>1 DEF ToSet
  <2> QED
    BY <2>1
<1>5. ToSet(Tail(s)) \subseteq ToSet(s)
  <2>1. ASSUME NEW i \in 1..Len(s) - 1 PROVE Tail(s)[i] \in ToSet(s)
    BY <1>1, <1>2 DEF ToSet
  <2> QED
    BY <1>3, <2>1 DEF ToSet
<1>6. ToSet(s) = {s[i] : i \in 1..Len(s)} /\ s[1] \in ToSet(s)
  BY <1>1 DEF ToSet
<1> QED
  BY <1>1, <1>2, <1>4, <1>5, <1>6

(* A sequence with one more element.                                       *)
LEMMA AppendFacts ==
  ASSUME NEW S, NEW s \in Seq(S), NEW e \in S
  PROVE  Append(s, e) \in Seq(S) /\ Append(s, e) # <<>> /\ ToSet(Append(s, e)) = ToSet(s) \cup {e}
<1>1. /\ Append(s, e) \in Seq(S) /\ Append(s, e) # <<>> /\ Len(Append(s, e)) = Len(s) + 1
      /\ \A i \in 1..Len(s) : Append(s, e)[i] = s[i]
      /\ Append(s, e)[Len(s) + 1] = e
  BY AppendProperties
<1>2. Len(s) \in Nat /\ DOMAIN s = 1..Len(s) /\ DOMAIN Append(s, e) = 1..Len(s) + 1
  BY <1>1, LenProperties
<1> QED
  BY <1>1, <1>2 DEF ToSet

(* A sequence with the first e taken out, as DelAppender does.             *)
LEMMA RemoveFirstFacts ==
  ASSUME NEW S, NEW s \in Seq(S), NEW e
  PROVE  RemoveFirst(s, e) \in Seq(S) /\ ToSet(RemoveFirst(s, e)) \subseteq ToSet(s)
<1> DEFINE I == {i \in 1..Len(s) : s[i] = e}
<1>1. CASE I = {}
  BY <1>1 DEF RemoveFirst
<1>2. CASE I # {}
  <2>1. Min(I) \in 1..Len(s)
    <3>1. I \in SUBSET Nat
      BY LenProperties
    <3> QED
      BY <1>2, <3>1, LeastElement
  <2>2. PICK n \in 1..Len(s) : RemoveFirst(s, e) = SubSeq(s, 1, n - 1) \o SubSeq(s, n + 1, Len(s))
    BY <1>2, <2>1 DEF RemoveFirst, RemoveAt, SelectInSeq
  <2>3. Len(s) \in Nat /\ DOMAIN s = 1..Len(s) /\ \A i \in 1..Len(s) : s[i] \in S
    BY LenProperties
  <2>4. ASSUME NEW T, \A i \in 1..Len(s) : s[i] \in T PROVE RemoveFirst(s, e) \in Seq(T)
    <3>1. SubSeq(s, 1, n - 1) \in Seq(T) /\ SubSeq(s, n + 1, Len(s)) \in Seq(T)
      BY <2>3, <2>4, SubSeqProperties
    <3> QED
      BY <2>2, <3>1, ConcatProperties
  <2>5. RemoveFirst(s, e) \in Seq(ToSet(s)) /\ RemoveFirst(s, e) \in Seq(S)
    BY <2>3, <2>4 DEF ToSet
  <2>6. \A i \in DOMAIN RemoveFirst(s, e) : RemoveFirst(s, e)[i] \in ToSet(s)
    BY <2>5, LenProperties
  <2> QED
    BY <2>5, <2>6 DEF ToSet
<1> QED
  BY <1>1, <1>2
-----------------------------------------------------------------------------
(* NULL is no thread, logger, appender or formatter.                       *)
LEMMA NullFacts ==
  /\ NULL \notin Threads /\ NULL \notin Loggers /\ NULL \notin Appenders /\ NULL \notin Formats
  /\ Root \in Loggers /\ Default \in Formats /\ Names \in Seq(Loggers)
BY LoggerAssumption DEF Patterns

(* Thread t does nothing to the other threads, nor to the appenders of the *)
(* loggers that they have locked.                                          *)
Alone(t) ==
  /\ \A u \in Threads \ {t} : op'[u] = op[u] /\ pc'[u] = pc[u]
  /\ \A g \in Loggers : mutex_[g] \in Threads \ {t} =>
       mutex_'[g] = mutex_[g] /\ appenders_'[g] = appenders_[g]

(* The other threads keep what they know of the loggers they have locked.  *)
LEMMA OthersKeep ==
  ASSUME \A u \in Threads : ThreadFacts(u), NEW t \in Threads, Alone(t)
  PROVE  \A u \in Threads \ {t} : ThreadFacts(u)'
<1> SUFFICES ASSUME NEW u \in Threads \ {t} PROVE ThreadFacts(u)'
  OBVIOUS
<1>1. op'[u] = op[u] /\ pc'[u] = pc[u] /\ ThreadFacts(u)
  BY DEF Alone
<1>2. pc[u] \in {"log", "root"} =>
        /\ mutex_'[op[u].at] = mutex_[op[u].at] /\ appenders_'[op[u].at] = appenders_[op[u].at]
  BY <1>1 DEF Alone, ThreadFacts
<1>3. pc[u] \in {"attach", "inherit", "inheritwrite"} =>
        /\ mutex_'[op[u].log] = mutex_[op[u].log] /\ appenders_'[op[u].log] = appenders_[op[u].log]
  BY <1>1 DEF Alone, ThreadFacts
<1> QED
  BY <1>1, <1>2, <1>3 DEF ThreadFacts

(* A step that gives no formatter and no appender to anybody, and that     *)
(* forgets none that inherits.                                             *)
LEMMA QuietStep ==
  ASSUME Core, NEW t \in Threads, Typed', ThreadFacts(t)', Alone(t),
         UNCHANGED <<profile, fmt_, has_formatter_, own, formatter_>>,
         \A g \in Loggers : ToSet(appenders_'[g]) \subseteq ToSet(appenders_[g]),
         pc'[t] # "attach", op'[t].app = NULL,
         pc'[t] = "inheritwrite" => ~has_formatter_[Head(op'[t].todo)],
         \A g \in Loggers, a \in Appenders :
           Inheriting(t, g, a) => Inheriting(t, g, a)' \/ has_formatter_[a] \/ fmt_[a] = formatter_[g]
  PROVE  Core'
<1>1. \A u \in Threads : ThreadFacts(u)'
  BY OthersKeep DEF Core
<1>2. ASSUME FormatterFacts PROVE FormatterFacts'
  <2>1. \A u \in Threads : pc'[u] = "attach" =>
          IF op'[u].need THEN ~has_formatter_'[op'[u].app] ELSE fmt_'[op'[u].app] # NULL
    BY <1>2 DEF FormatterFacts, Alone
  <2>2. \A u \in Threads : pc'[u] = "inheritwrite" => ~has_formatter_'[Head(op'[u].todo)]
    BY <1>2 DEF FormatterFacts, Alone
  <2>3. \A g \in Loggers : \A a \in ToSet(appenders_'[g]) : fmt_'[a] # NULL
    BY <1>2 DEF FormatterFacts
  <2> QED
    BY <1>2, <2>1, <2>2, <2>3 DEF FormatterFacts
<1>3. ASSUME InheritFacts PROVE InheritFacts'
  <2>1. \A u \in Threads : pc'[u] = "attach" => op'[u] = op[u] /\ pc[u] = "attach" /\ op[u].app # NULL
    BY DEF Alone, Core, ThreadFacts
  <2>2. ASSUME NEW u \in Threads, pc'[u] = "attach", NEW w \in Threads, op'[w].app = op'[u].app
        PROVE  w = u
    BY <1>3, <2>1, <2>2 DEF InheritFacts, Alone
  <2>3. ASSUME NEW u \in Threads, pc'[u] = "attach" PROVE ~Attached(op[u].app)'
    <3>1. ~Attached(op[u].app)
      BY <1>3, <2>1, <2>3 DEF InheritFacts
    <3> QED
      BY <2>1, <2>3, <3>1 DEF Attached
  <2>4. \A g \in Loggers, a \in Appenders, u \in Threads :
          Inheriting(u, g, a) => Inheriting(u, g, a)' \/ has_formatter_[a] \/ fmt_[a] = formatter_[g]
    BY DEF Alone, Inheriting
  <2>5. ASSUME NEW g \in Loggers, NEW a \in ToSet(appenders_'[g])
        PROVE  has_formatter_[a] \/ fmt_[a] = formatter_[g] \/ \E u \in Threads : Inheriting(u, g, a)'
    <3>1. a \in Appenders
      <4>1. appenders_'[g] \in Seq(Appenders)
        BY DEF Typed
      <4> QED
        BY <4>1, LenProperties DEF ToSet
    <3>2. has_formatter_[a] \/ fmt_[a] = formatter_[g] \/ \E u \in Threads : Inheriting(u, g, a)
      BY <1>3 DEF InheritFacts
    <3> QED
      BY <2>4, <3>1, <3>2
  <2>6. \A g, h \in Loggers : \A a \in Appenders :
          a \in ToSet(appenders_'[g]) /\ a \in ToSet(appenders_'[h]) => g = h
    BY <1>3 DEF InheritFacts
  <2>7. \A u \in Threads : pc'[u] = "attach" => op'[u].need \/ has_formatter_[op'[u].app]
    BY <1>3, <2>1 DEF InheritFacts
  <2>8. ASSUME NEW u \in Threads, pc'[u] = "attach"
        PROVE  /\ ~Attached(op[u].app)'
               /\ (op[u].need \/ has_formatter_[op[u].app])'
               /\ \A w \in Threads : (op[w].app = op[u].app)' => w = u
    BY <2>2, <2>3, <2>7, <2>8
  <2> QED
    BY <2>5, <2>6, <2>8 DEF InheritFacts
<1> QED
  BY <1>1, <1>2, <1>3 DEF Core, Configured, Single
-----------------------------------------------------------------------------
(* A thread that does nothing.                                             *)
LEMMA NoOpFacts ==
  /\ NoOp \in Ops /\ NoOp.log = NULL /\ NoOp.app = NULL /\ NoOp.hits = 0 /\ NoOp.todo = <<>>
  /\ \A x : ToSet(<<>>) \subseteq x
<1>1. <<>> \in Seq(Appenders \cup Loggers) /\ \A x : ToSet(<<>>) \subseteq x
  BY DEF ToSet
<1> QED
  BY <1>1 DEF NoOp, Ops

(* An attached appender is one of Appenders, and may be in a todo list.    *)
LEMMA AppenderTypes ==
  ASSUME Typed, NEW g \in Loggers
  PROVE  /\ appenders_[g] \in Seq(Appenders) /\ appenders_[g] \in Seq(Appenders \cup Loggers)
         /\ ToSet(appenders_[g]) \subseteq Appenders /\ Len(appenders_[g]) \in Nat
<1>1. appenders_[g] \in Seq(Appenders)
  BY DEF Typed
<1> QED
  BY <1>1, LenProperties, SeqMonotonic DEF ToSet

(* Logger::Log takes the lock of a free logger.                            *)
LEMMA LogStep ==
  ASSUME Core, UNCHANGED profile, NEW t \in Threads, NEW g \in Loggers, pc[t] = "idle", Log(t, g)
  PROVE  Core' /\ UNCHANGED appenders_
<1> DEFINE o == [NoOp EXCEPT !.log = g, !.at = g, !.todo = appenders_[g]]
           l == IF appenders_[g] = <<>> THEN "root" ELSE "log"
<1>1. o \in Ops /\ o.at = g /\ o.todo = appenders_[g] /\ o.app = NULL /\ o.hits = 0
  BY NoOpFacts, AppenderTypes DEF Ops, Core
<1>2. /\ op' = [op EXCEPT ![t] = o] /\ pc' = [pc EXCEPT ![t] = l]
      /\ mutex_[g] = NULL /\ mutex_' = [mutex_ EXCEPT ![g] = t]
      /\ UNCHANGED <<loggers_, appenders_, formatter_, appenderVars>>
  BY DEF Log, Lock, Goto, Free
<1>3. l = (IF appenders_[g] = <<>> THEN "root" ELSE "log") /\ l \in {"root", "log"}
  OBVIOUS
<1> HIDE DEF o, l
<1>4. op'[t] = o /\ pc'[t] = l /\ mutex_'[g] = t
  BY <1>2 DEF Core, Typed
<1>5. Typed'
  BY <1>1, <1>2, <1>3 DEF Core, Typed, Labels, appenderVars
<1>6. Alone(t)
  BY <1>2, NullFacts DEF Alone, Core, Typed
<1>7. ThreadFacts(t)'
  <2>1. Len(appenders_'[g]) \in Nat /\ appenders_' = appenders_
    BY <1>2, AppenderTypes DEF Core
  <2> QED
    BY <1>1, <1>3, <1>4, <2>1 DEF ThreadFacts
<1>8. \A h \in Loggers, a \in Appenders : ~Inheriting(t, h, a)
  BY DEF Inheriting
<1> QED
  BY <1>1, <1>2, <1>3, <1>4, <1>5, <1>6, <1>7, <1>8, QuietStep DEF appenderVars

(* The root logger is asked, and locked, in place of one without           *)
(* appenders.                                                              *)
LEMMA LogRootStep ==
  ASSUME Core, UNCHANGED profile, NEW t \in Threads, LogRoot(t), op[t].at # Root
  PROVE  Core' /\ UNCHANGED <<appenders_, callVars>>
<1> DEFINE o == [op[t] EXCEPT !.at = Root, !.todo = appenders_[Root]]
           l == IF appenders_[Root] = <<>> THEN "root" ELSE "log"
<1>0. op[t] \in Ops /\ pc[t] = "root" /\ op[t].hits = 0 /\ op[t].app = NULL
  BY DEF Core, Typed, ThreadFacts, LogRoot
<1>1. o \in Ops /\ o.at = Root /\ o.todo = appenders_[Root] /\ o.app = NULL /\ o.hits = 0
  BY <1>0, NullFacts, AppenderTypes DEF Ops, Core
<1>2. /\ op' = [op EXCEPT ![t] = o] /\ pc' = [pc EXCEPT ![t] = l]
      /\ mutex_[Root] = NULL /\ mutex_' = [mutex_ EXCEPT ![Root] = t]
      /\ UNCHANGED <<loggers_, appenders_, formatter_, appenderVars, callVars>>
  BY DEF LogRoot, Lock, Goto, Free, Core, Typed
<1>3. l = (IF appenders_[Root] = <<>> THEN "root" ELSE "log") /\ l \in {"root", "log"}
  OBVIOUS
<1> HIDE DEF o, l
<1>4. op'[t] = o /\ pc'[t] = l /\ mutex_'[Root] = t
  BY <1>2, NullFacts DEF Core, Typed
<1>5. Typed'
  BY <1>1, <1>2, <1>3, NullFacts DEF Core, Typed, Labels, appenderVars
<1>6. Alone(t)
  BY <1>2, NullFacts DEF Alone, Core, Typed
<1>7. ThreadFacts(t)'
  <2>1. Len(appenders_'[Root]) \in Nat /\ appenders_' = appenders_
    BY <1>2, NullFacts, AppenderTypes DEF Core
  <2> QED
    BY <1>1, <1>3, <1>4, <2>1, NullFacts DEF ThreadFacts
<1>8. \A h \in Loggers, a \in Appenders : ~Inheriting(t, h, a)
  BY <1>0 DEF Inheriting
<1> QED
  BY <1>1, <1>2, <1>3, <1>4, <1>5, <1>6, <1>7, <1>8, QuietStep DEF appenderVars
(* One appender has written; the thread keeps the lock.                    *)
LEMMA EmitStep ==
  ASSUME Core, UNCHANGED profile, NEW t \in Threads, Emit(t)
  PROVE  Core' /\ (Configured => UNCHANGED fault)
<1> DEFINE o == [op[t] EXCEPT !.todo = Tail(op[t].todo), !.hits = op[t].hits + 1]
<1>1. op[t] \in Ops /\ op[t].todo # <<>> /\ pc[t] = "log" /\ ThreadFacts(t)
  BY DEF Core, Typed, Emit
<1>2. op[t].todo \in Seq(Appenders \cup Loggers) /\ op[t].hits \in Nat /\ op[t].hits + 1 \in Nat
  BY <1>1 DEF Ops
<1>3. /\ Tail(op[t].todo) \in Seq(Appenders \cup Loggers)
      /\ Len(Tail(op[t].todo)) = Len(op[t].todo) - 1 /\ Len(op[t].todo) \in Nat
      /\ Head(op[t].todo) \in ToSet(op[t].todo) /\ ToSet(Tail(op[t].todo)) \subseteq ToSet(op[t].todo)
  BY <1>1, <1>2, TailFacts
<1>4. /\ o \in Ops /\ o.at = op[t].at /\ o.todo = Tail(op[t].todo) /\ o.app = op[t].app
      /\ o.hits = op[t].hits + 1
  BY <1>1, <1>2, <1>3 DEF Ops
<1>5. /\ op' = [op EXCEPT ![t] = o]
      /\ UNCHANGED <<loggers_, appenders_, formatter_, mutex_, appenderVars, pc>>
  BY DEF Emit, Core, Typed
<1> HIDE DEF o
<1>6. Typed' /\ Alone(t) /\ op'[t] = o
  BY <1>4, <1>5 DEF Core, Typed, Alone, appenderVars
<1>7. ThreadFacts(t)'
  <2>1. (op[t].hits + 1) + Len(Tail(op[t].todo)) = op[t].hits + Len(op[t].todo)
    <3>1. \A h, n \in Nat : (h + 1) + (n - 1) = h + n
      OBVIOUS
    <3>2. op[t].hits \in Nat /\ Len(op[t].todo) \in Nat /\ Len(Tail(op[t].todo)) = Len(op[t].todo) - 1
      BY <1>2, <1>3
    <3> QED
      BY <3>1, <3>2
  <2>2. /\ op'[t].at = op[t].at /\ op'[t].app = op[t].app /\ pc'[t] = "log"
        /\ op'[t].hits + Len(op'[t].todo) = Len(appenders_[op[t].at])
        /\ ToSet(op'[t].todo) \subseteq ToSet(appenders_[op[t].at])
    BY <1>1, <1>3, <1>4, <1>5, <1>6, <2>1 DEF ThreadFacts
  <2> QED
    BY <1>1, <1>5, <2>2 DEF ThreadFacts
<1>8. \A h \in Loggers, a \in Appenders : ~Inheriting(t, h, a)
  BY <1>1 DEF Inheriting
<1>9. Core'
  BY <1>1, <1>4, <1>5, <1>6, <1>7, <1>8, QuietStep DEF appenderVars, ThreadFacts
<1>10. Configured => fmt_[Head(op[t].todo)] # NULL
  BY <1>1, <1>3 DEF Core, FormatterFacts, ThreadFacts
<1> QED
  BY <1>9, <1>10 DEF Emit

(* A call returns and releases its locks.                                  *)
LEMMA EndStep ==
  ASSUME Core, NEW t \in Threads, Unlock(t) \/ UNCHANGED mutex_, Return(t),
         UNCHANGED <<profile, loggers_, appenders_, formatter_, appenderVars>>,
         pc[t] # "inheritwrite", pc[t] = "inherit" => op[t].todo = <<>>
  PROVE  Core'
<1>1. op' = [op EXCEPT ![t] = NoOp] /\ pc' = [pc EXCEPT ![t] = "idle"]
  BY DEF Return, Goto
<1>2. op'[t] = NoOp /\ pc'[t] = "idle"
  BY <1>1 DEF Core, Typed
<1>3. Typed'
  BY <1>1, NoOpFacts DEF Core, Typed, Unlock, Labels, appenderVars
<1>4. Alone(t)
  BY <1>1 DEF Alone, Core, Typed, Unlock
<1>5. ThreadFacts(t)'
  BY <1>2, NoOpFacts DEF ThreadFacts
<1>6. \A h \in Loggers, a \in Appenders : ~Inheriting(t, h, a)
  BY DEF Inheriting, ToSet
<1> QED
  BY <1>2, <1>3, <1>4, <1>5, <1>6, NoOpFacts, QuietStep DEF appenderVars

(* A call that is one step of an idle thread, takes at most appenders away *)
(* from a logger that is not locked, and keeps the formatters.             *)
LEMMA IdleStep ==
  ASSUME Core, NEW t \in Threads, pc[t] = "idle",
         UNCHANGED <<profile, formatter_, mutex_, appenderVars, pc, op>>,
         loggers_' \subseteq Loggers, appenders_' \in [Loggers -> Seq(Appenders)],
         \A g \in Loggers : /\ ToSet(appenders_'[g]) \subseteq ToSet(appenders_[g])
                            /\ ~Free(g) => appenders_'[g] = appenders_[g]
  PROVE  Core'
<1>1. Typed' /\ Alone(t)
  BY NullFacts DEF Core, Typed, Alone, Free, appenderVars
<1>2. ThreadFacts(t)'
  BY DEF Core, ThreadFacts
<1>3. \A h \in Loggers, a \in Appenders : ~Inheriting(t, h, a)
  BY DEF Inheriting
<1>4. op'[t].app = NULL
  BY DEF Core, ThreadFacts
<1> QED
  BY <1>1, <1>2, <1>3, <1>4, QuietStep DEF appenderVars

(* DelAppender, ClearAppender and GetLogger.                               *)
LEMMA TakeAwayStep ==
  ASSUME Core, UNCHANGED profile, NEW t \in Threads, NEW g \in Loggers, pc[t] = "idle",
         ClearAppender(t, g) \/ (\E a \in Appenders : DelAppender(t, g, a)) \/ GetLogger(t, g)
  PROVE  Core' /\ \A h \in Loggers \ {g} : appenders_'[h] = appenders_[h]
<1>1. CASE ClearAppender(t, g)
  <2>1. appenders_' = [appenders_ EXCEPT ![g] = <<>>] /\ Free(g)
    BY <1>1 DEF ClearAppender
  <2> QED
    BY <1>1, <2>1, NoOpFacts, IdleStep DEF ClearAppender, Core, Typed
<1>2. ASSUME NEW a \in Appenders, DelAppender(t, g, a)
      PROVE  Core' /\ \A h \in Loggers \ {g} : appenders_'[h] = appenders_[h]
  <2>1. appenders_' = [appenders_ EXCEPT ![g] = RemoveFirst(appenders_[g], a)] /\ Free(g)
    BY <1>2 DEF DelAppender, Core, Typed
  <2>2. /\ RemoveFirst(appenders_[g], a) \in Seq(Appenders)
        /\ ToSet(RemoveFirst(appenders_[g], a)) \subseteq ToSet(appenders_[g])
    BY AppenderTypes, RemoveFirstFacts DEF Core
  <2>3. /\ appenders_' \in [Loggers -> Seq(Appenders)]
        /\ \A h \in Loggers : /\ ToSet(appenders_'[h]) \subseteq ToSet(appenders_[h])
                              /\ ~Free(h) => appenders_'[h] = appenders_[h]
    BY <2>1, <2>2 DEF Core, Typed
  <2> QED
    BY <1>2, <2>1, <2>3, IdleStep DEF DelAppender, Core, Typed
<1>3. CASE GetLogger(t, g)
  BY <1>3, IdleStep DEF GetLogger, Core, Typed
<1> QED
  BY <1>1, <1>2, <1>3
(* ToYamlString begins, ...                                                *)
LEMMA YamlBeginStep ==
  ASSUME Core, UNCHANGED profile, NEW t \in Threads, pc[t] = "idle", ToYamlString(t)
  PROVE  Core' /\ UNCHANGED appenders_
<1> DEFINE o == [NoOp EXCEPT !.todo = Names]
<1>1. o \in Ops /\ o.app = NULL
  <2>1. Names \in Seq(Appenders \cup Loggers)
    BY NullFacts, SeqMonotonic
  <2> QED
    BY <2>1, NoOpFacts DEF Ops
<1>2. /\ op' = [op EXCEPT ![t] = o] /\ pc' = [pc EXCEPT ![t] = "yaml"]
      /\ UNCHANGED <<loggers_, appenders_, formatter_, mutex_, appenderVars>>
  BY DEF ToYamlString, Goto
<1> HIDE DEF o
<1>3. Typed' /\ Alone(t) /\ op'[t] = o /\ pc'[t] = "yaml"
  BY <1>1, <1>2 DEF Core, Typed, Labels, Alone, appenderVars
<1>4. ThreadFacts(t)'
  BY <1>1, <1>3 DEF ThreadFacts
<1>5. \A h \in Loggers, a \in Appenders : ~Inheriting(t, h, a)
  BY DEF Inheriting
<1> QED
  BY <1>1, <1>2, <1>3, <1>4, <1>5, QuietStep DEF appenderVars

(* ... and goes on with the next logger.                                   *)
LEMMA YamlNextStep ==
  ASSUME Core, UNCHANGED profile, NEW t \in Threads, YamlNext(t)
  PROVE  Core' /\ UNCHANGED <<appenders_, callVars>>
<1> DEFINE o == [op[t] EXCEPT !.todo = Tail(op[t].todo)]
<1>1. op[t] \in Ops /\ op[t].todo # <<>> /\ pc[t] = "yaml" /\ op[t].app = NULL
  BY DEF Core, Typed, YamlNext, ThreadFacts
<1>2. o \in Ops /\ o.app = NULL
  BY <1>1, TailFacts DEF Ops
<1>3. /\ op' = [op EXCEPT ![t] = o]
      /\ UNCHANGED <<loggers_, appenders_, formatter_, mutex_, appenderVars, pc, callVars>>
  BY DEF YamlNext, Core, Typed
<1> HIDE DEF o
<1>4. Typed' /\ Alone(t) /\ op'[t] = o /\ pc'[t] = "yaml"
  BY <1>1, <1>2, <1>3 DEF Core, Typed, Alone, appenderVars
<1>5. ThreadFacts(t)'
  BY <1>2, <1>4 DEF ThreadFacts
<1>6. \A h \in Loggers, a \in Appenders : ~Inheriting(t, h, a)
  BY <1>1 DEF Inheriting
<1> QED
  BY <1>2, <1>3, <1>4, <1>5, <1>6, QuietStep DEF appenderVars

(* SetFormatter looks at the next appender.                                *)
LEMMA InheritTestStep ==
  ASSUME Core, UNCHANGED profile, NEW t \in Threads, InheritTest(t)
  PROVE  Core' /\ UNCHANGED <<appenders_, callVars>>
<1> DEFINE o == [op[t] EXCEPT !.todo = Tail(op[t].todo)]
<1>1. /\ op[t] \in Ops /\ op[t].todo # <<>> /\ pc[t] = "inherit" /\ ThreadFacts(t) /\ op[t].app = NULL
      /\ UNCHANGED <<loggers_, appenders_, formatter_, mutex_, appenderVars, callVars>>
  BY DEF Core, Typed, InheritTest, ThreadFacts
<1>2. CASE ~has_formatter_[Head(op[t].todo)] /\ pc' = [pc EXCEPT ![t] = "inheritwrite"] /\ UNCHANGED op
  <2>1. Typed' /\ Alone(t) /\ pc'[t] = "inheritwrite"
    BY <1>1, <1>2 DEF Core, Typed, Labels, Alone, appenderVars
  <2>2. ThreadFacts(t)'
    BY <1>1, <1>2, <2>1 DEF ThreadFacts
  <2>3. \A g \in Loggers, a \in Appenders : Inheriting(t, g, a) => Inheriting(t, g, a)'
    BY <1>2, <2>1 DEF Inheriting
  <2> QED
    BY <1>1, <1>2, <2>1, <2>2, <2>3, QuietStep DEF appenderVars
<1>3. CASE has_formatter_[Head(op[t].todo)] /\ op' = [op EXCEPT ![t] = o] /\ UNCHANGED pc
  <2>1. /\ ToSet(op[t].todo) = ToSet(Tail(op[t].todo)) \cup {Head(op[t].todo)}
        /\ Tail(op[t].todo) \in Seq(Appenders \cup Loggers)
    BY <1>1, TailFacts DEF Ops
  <2>2. o \in Ops /\ o.app = NULL /\ o.log = op[t].log /\ o.todo = Tail(op[t].todo)
    BY <1>1, <2>1 DEF Ops
  <2> HIDE DEF o
  <2>3. Typed' /\ Alone(t) /\ op'[t] = o /\ pc'[t] = "inherit"
    BY <1>1, <1>3, <2>2 DEF Core, Typed, Alone, appenderVars
  <2>4. ThreadFacts(t)'
    BY <1>1, <2>1, <2>2, <2>3 DEF ThreadFacts
  <2>5. \A g \in Loggers, a \in Appenders : Inheriting(t, g, a) => Inheriting(t, g, a)' \/ has_formatter_[a]
    BY <1>1, <1>3, <2>1, <2>2, <2>3 DEF Inheriting
  <2> QED
    BY <1>1, <1>3, <2>2, <2>3, <2>4, <2>5, QuietStep DEF appenderVars
<1> QED
  BY <1>2, <1>3 DEF InheritTest, Inherits, Goto, Core, Typed

(* Logger::SetFormatter begins: from now on every appender of the logger   *)
(* is about to be looked at.                                               *)
LEMMA SetFormatterStep ==
  ASSUME Core, UNCHANGED profile, NEW t \in Threads, NEW g \in Loggers, NEW f, pc[t] = "idle",
         SetFormatter(t, g, f)
  PROVE  Core' /\ UNCHANGED appenders_
<1>1. CASE ~Accepted(f)
  BY <1>1, IdleStep DEF SetFormatter, Core, Typed
<1>2. CASE Accepted(f)
  <2> DEFINE o == [NoOp EXCEPT !.log = g, !.todo = appenders_[g]]
  <2>1. o \in Ops /\ o.log = g /\ o.todo = appenders_[g] /\ o.app = NULL
    BY NoOpFacts, AppenderTypes DEF Ops, Core
  <2>2. /\ op' = [op EXCEPT ![t] = o] /\ pc' = [pc EXCEPT ![t] = "inherit"]
        /\ mutex_[g] = NULL /\ mutex_' = [mutex_ EXCEPT ![g] = t]
        /\ formatter_' = [formatter_ EXCEPT ![g] = f] /\ f \in Formats
        /\ UNCHANGED <<loggers_, appenders_, appenderVars>>
    BY <1>2 DEF SetFormatter, Lock, Goto, Free, Accepted
  <2> HIDE DEF o
  <2>3. Typed' /\ Alone(t) /\ op'[t] = o /\ pc'[t] = "inherit" /\ mutex_'[g] = t
    BY <2>1, <2>2, NullFacts DEF Core, Typed, Labels, Alone, appenderVars
  <2>4. ThreadFacts(t)'
    BY <2>1, <2>2, <2>3 DEF ThreadFacts
  <2>5. \A u \in Threads : ThreadFacts(u)'
    BY <2>3, <2>4, OthersKeep DEF Core
  <2>6. \A u \in Threads : pc'[u] \in {"attach", "inheritwrite"} => pc'[u] = pc[u] /\ op'[u] = op[u] /\ u # t
    BY <2>3 DEF Alone
  <2>7. ASSUME FormatterFacts PROVE FormatterFacts'
    BY <2>2, <2>6, <2>7 DEF FormatterFacts, appenderVars
  <2>8. ASSUME InheritFacts PROVE InheritFacts'
    <3>1. ASSUME NEW u \in Threads, pc'[u] = "attach"
          PROVE  /\ ~Attached(op[u].app)'
                 /\ (op[u].need \/ has_formatter_[op[u].app])'
                 /\ \A w \in Threads : (op[w].app = op[u].app)' => w = u
      <4>1. op'[u] = op[u] /\ pc[u] = "attach" /\ op[u].app # NULL
        BY <2>6, <3>1 DEF Core, ThreadFacts
      <4>2. ~Attached(op[u].app)'
        BY <2>2, <2>8, <4>1 DEF InheritFacts, Attached
      <4> QED
        BY <2>1, <2>2, <2>3, <2>8, <4>1, <4>2 DEF InheritFacts, Alone, appenderVars
    <3>2. ASSUME NEW h \in Loggers, NEW a \in ToSet(appenders_[h])
          PROVE  has_formatter_[a] \/ fmt_[a] = formatter_'[h] \/ \E u \in Threads : Inheriting(u, h, a)'
      <4>1. CASE h = g
        BY <2>1, <2>3, <4>1 DEF Inheriting
      <4>2. CASE h # g
        <5>1. formatter_'[h] = formatter_[h]
          BY <2>2, <4>2 DEF Core, Typed
        <5>2. \A u \in Threads : Inheriting(u, h, a) => Inheriting(u, h, a)'
          BY <2>3 DEF Inheriting, Alone
        <5> QED
          BY <2>8, <5>1, <5>2 DEF InheritFacts
      <4> QED
        BY <4>1, <4>2
    <3> QED
      BY <2>2, <2>8, <3>1, <3>2 DEF InheritFacts, appenderVars
  <2> QED
    BY <2>2, <2>3, <2>5, <2>7, <2>8 DEF Core, Configured, Single
<1> QED
  BY <1>1, <1>2

(* Logger::SetFormatter gives an appender the logger's formatter.          *)
LEMMA InheritWriteStep ==
  ASSUME Core, UNCHANGED profile, NEW t \in Threads, InheritWrite(t)
  PROVE  Core' /\ UNCHANGED <<appenders_, callVars>>
<1> DEFINE o == [op[t] EXCEPT !.todo = Tail(op[t].todo)]
           a == Head(op[t].todo)
           g == op[t].log
<1>1. /\ op[t] \in Ops /\ op[t].todo # <<>> /\ pc[t] = "inheritwrite" /\ ThreadFacts(t)
      /\ op[t].app = NULL /\ g \in Loggers
  BY DEF Core, Typed, InheritWrite, ThreadFacts
<1>2. /\ ToSet(op[t].todo) = ToSet(Tail(op[t].todo)) \cup {a}
      /\ Tail(op[t].todo) \in Seq(Appenders \cup Loggers)
  BY <1>1, TailFacts DEF Ops
<1>3. o \in Ops /\ o.app = NULL /\ o.log = g /\ o.todo = Tail(op[t].todo)
  BY <1>1, <1>2 DEF Ops
<1>4. a \in ToSet(appenders_[g]) /\ a \in Appenders
  BY <1>1, <1>2, AppenderTypes DEF ThreadFacts, Core
<1>5. /\ op' = [op EXCEPT ![t] = o] /\ pc' = [pc EXCEPT ![t] = "inherit"]
      /\ fmt_' = [fmt_ EXCEPT ![a] = formatter_[g]]
      /\ UNCHANGED <<loggers_, appenders_, formatter_, mutex_, has_formatter_, own, filename_, callVars>>
  BY DEF InheritWrite, Goto, Core, Typed
<1> HIDE DEF o, a, g
<1>6. Typed' /\ Alone(t) /\ op'[t] = o /\ pc'[t] = "inherit"
  BY <1>1, <1>3, <1>5 DEF Core, Typed, Labels, Alone
<1>7. fmt_'[a] = formatter_[g] /\ formatter_[g] # NULL /\ \A b \in Appenders \ {a} : fmt_'[b] = fmt_[b]
  BY <1>1, <1>4, <1>5, NullFacts DEF Core, Typed
<1>8. ThreadFacts(t)'
  BY <1>1, <1>2, <1>3, <1>5, <1>6 DEF ThreadFacts, g
<1>9. \A u \in Threads : ThreadFacts(u)'
  BY <1>6, <1>8, OthersKeep DEF Core
<1>10. \A u \in Threads : pc'[u] \in {"attach", "inheritwrite"} => pc'[u] = pc[u] /\ op'[u] = op[u]
  BY <1>6 DEF Alone
<1>11. ASSUME Configured PROVE ~has_formatter_[a] /\ FormatterFacts /\ FormatterFacts'
  <2>1. FormatterFacts /\ ~has_formatter_[a]
    BY <1>1, <1>11 DEF Core, FormatterFacts, a
  <2>2. \A b \in Appenders : fmt_[b] # NULL => fmt_'[b] # NULL
    BY <1>7
  <2>3. \A h \in Loggers : \A b \in ToSet(appenders_[h]) : fmt_'[b] # NULL
    BY <2>1, <2>2, AppenderTypes DEF Core, FormatterFacts
  <2>4. ASSUME NEW u \in Threads, pc'[u] = "attach"
        PROVE  IF op[u].need THEN ~has_formatter_[op[u].app] ELSE fmt_'[op[u].app] # NULL
    <3>1. op[u].app \in Appenders
      BY <1>10, <2>4 DEF Core, ThreadFacts, Typed, Ops
    <3> QED
      BY <1>10, <2>1, <2>2, <2>4, <3>1 DEF FormatterFacts
  <2>5. \A b \in Appenders : has_formatter_[b] => fmt_'[b] = fmt_[b]
    BY <1>7, <2>1
  <2> QED
    BY <1>5, <1>10, <2>1, <2>3, <2>4, <2>5 DEF FormatterFacts
<1>12. ASSUME InheritFacts PROVE InheritFacts'
  <2>1. ASSUME NEW u \in Threads, pc'[u] = "attach"
        PROVE  /\ ~Attached(op[u].app)'
               /\ (op[u].need \/ has_formatter_[op[u].app])'
               /\ \A w \in Threads : (op[w].app = op[u].app)' => w = u
    <3>1. op'[u] = op[u] /\ pc[u] = "attach" /\ op[u].app # NULL
      BY <1>10, <2>1 DEF Core, ThreadFacts
    <3>2. ~Attached(op[u].app)'
      BY <1>5, <1>12, <3>1 DEF InheritFacts, Attached
    <3>3. ASSUME NEW w \in Threads, op'[w].app = op[u].app PROVE w = u
      BY <1>1, <1>3, <1>6, <1>12, <3>1, <3>3 DEF InheritFacts, Alone
    <3> QED
      BY <1>5, <1>12, <3>1, <3>2, <3>3 DEF InheritFacts
  <2>2. ASSUME NEW h \in Loggers, NEW b \in ToSet(appenders_[h])
        PROVE  has_formatter_[b] \/ fmt_'[b] = formatter_[h] \/ \E u \in Threads : Inheriting(u, h, b)'
    <3>0. b \in Appenders
      BY AppenderTypes DEF Core
    <3>1. CASE b = a
      BY <1>1, <1>4, <1>7, <1>12, <3>1 DEF InheritFacts
    <3>2. CASE b # a
      <4>1. \A u \in Threads : Inheriting(u, h, b) => Inheriting(u, h, b)'
        BY <1>2, <1>3, <1>6, <3>2 DEF Inheriting, Alone, g
      <4> QED
        BY <1>7, <1>12, <3>0, <3>2, <4>1 DEF InheritFacts
    <3> QED
      BY <3>1, <3>2
  <2> QED
    BY <1>5, <1>12, <2>1, <2>2 DEF InheritFacts
<1> QED
  BY <1>5, <1>6, <1>9, <1>11, <1>12 DEF Core, Configured, Single

(* LogAppender::SetFormatter, of an appender that no logger has if it is   *)
(* promised to be so.                                                      *)
LEMMA SetOwnStep ==
  ASSUME Core, UNCHANGED profile, NEW t \in Threads, NEW a \in Appenders, NEW f \in Formats \cup {NULL},
         pc[t] = "idle", "own" \in profile.ops, ConfiguredFirst(a), SetOwnFormatter(t, a, f)
  PROVE  Core' /\ UNCHANGED appenders_
<1>1. /\ fmt_' = [fmt_ EXCEPT ![a] = f] /\ has_formatter_' = [has_formatter_ EXCEPT ![a] = (f # NULL)]
      /\ own' = [own EXCEPT ![a] = f]
      /\ UNCHANGED <<loggers_, appenders_, formatter_, mutex_, filename_, mgr, pc, op>>
  BY DEF SetOwnFormatter
<1>2. /\ fmt_'[a] = f /\ (has_formatter_'[a] <=> f # NULL) /\ own'[a] = f
      /\ \A b \in Appenders \ {a} :
           fmt_'[b] = fmt_[b] /\ has_formatter_'[b] = has_formatter_[b] /\ own'[b] = own[b]
  BY <1>1 DEF Core, Typed
<1>3. Typed' /\ \A u \in Threads : ThreadFacts(u)'
  BY <1>1 DEF Core, Typed, ThreadFacts
<1>4. ASSUME Configured
      PROVE  (\A g \in Loggers : a \notin ToSet(appenders_[g])) /\ \A u \in Threads : op[u].app # a
  BY <1>4 DEF Configured, ConfiguredFirst, Attached, Coming
<1>5. /\ \A u \in Threads : pc[u] = "attach" => op[u].app \in Appenders
      /\ \A g \in Loggers : ToSet(appenders_[g]) \subseteq Appenders
  BY AppenderTypes DEF Core, ThreadFacts, Typed, Ops
<1>6. ASSUME NEW u \in Threads, pc[u] = "inheritwrite"
      PROVE  \E g \in Loggers : Head(op[u].todo) \in ToSet(appenders_[g])
  <2>1. op[u].todo \in Seq(Appenders \cup Loggers) /\ op[u].todo # <<>> /\ op[u].log \in Loggers
        /\ ToSet(op[u].todo) \subseteq ToSet(appenders_[op[u].log])
    BY <1>6 DEF Core, ThreadFacts, Typed, Ops
  <2> QED
    BY <2>1, TailFacts
<1>7. ASSUME Configured PROVE FormatterFacts'
  <2>1. FormatterFacts
    BY <1>7 DEF Core
  <2>2. \A b \in Appenders : (has_formatter_'[b] <=> own'[b] # NULL) /\ (has_formatter_'[b] => fmt_'[b] = own'[b])
    BY <1>2, <2>1 DEF FormatterFacts
  <2>3. \A g \in Loggers : \A b \in ToSet(appenders_[g]) : fmt_'[b] # NULL
    BY <1>2, <1>4, <1>5, <1>7, <2>1 DEF FormatterFacts
  <2>4. \A u \in Threads : pc[u] = "attach" =>
          IF op[u].need THEN ~has_formatter_'[op[u].app] ELSE fmt_'[op[u].app] # NULL
    BY <1>2, <1>4, <1>5, <1>7, <2>1 DEF FormatterFacts
  <2>5. ASSUME NEW u \in Threads, pc[u] = "inheritwrite" PROVE ~has_formatter_'[Head(op[u].todo)]
    <3>1. Head(op[u].todo) \in Appenders \ {a}
      BY <1>4, <1>5, <1>6, <1>7, <2>5
    <3> QED
      BY <1>2, <2>1, <2>5, <3>1 DEF FormatterFacts
  <2> QED
    BY <1>1, <2>2, <2>3, <2>4, <2>5 DEF FormatterFacts
<1>8. ASSUME Configured, InheritFacts PROVE InheritFacts'
  <2>1. \A u \in Threads : pc[u] = "attach" => op[u].need \/ has_formatter_'[op[u].app]
    BY <1>2, <1>4, <1>5, <1>8 DEF InheritFacts
  <2>2. \A g \in Loggers : \A b \in ToSet(appenders_[g]) :
          has_formatter_'[b] \/ fmt_'[b] = formatter_[g] \/ \E u \in Threads : Inheriting(u, g, b)
    <3>1. ASSUME NEW g \in Loggers, NEW b \in ToSet(appenders_[g])
          PROVE  has_formatter_'[b] = has_formatter_[b] /\ fmt_'[b] = fmt_[b]
      BY <1>2, <1>4, <1>5, <1>8
    <3> QED
      BY <1>8, <3>1 DEF InheritFacts
  <2> QED
    BY <1>1, <1>8, <2>1, <2>2 DEF InheritFacts, Attached, Inheriting
<1> QED
  BY <1>1, <1>3, <1>7, <1>8 DEF Core, Configured, Single

(* AddAppender begins: with an appender that some logger may have, or with *)
(* one that is given its own formatter or none.                            *)
LEMMA AddStep ==
  ASSUME Core, UNCHANGED profile, NEW t \in Threads, NEW g \in Loggers, NEW a \in Appenders,
         NEW f \in Formats \cup {NULL}, pc[t] = "idle", AddAppender(t, g, a, f),
         has_formatter_' \in [Appenders -> BOOLEAN], own' \in [Appenders -> Formats \cup {NULL}],
         DOMAIN filename_' = Appenders,
         \A b \in Appenders \ {a} : has_formatter_'[b] = has_formatter_[b] /\ own'[b] = own[b],
         \/ f = fmt_[a] /\ has_formatter_'[a] = has_formatter_[a] /\ own'[a] = own[a]
         \/ ~Attached(a) /\ ~Coming(a) /\ own'[a] = f /\ (has_formatter_'[a] <=> f # NULL),
         Configured /\ Single =>
           ~Attached(a) /\ ~Coming(a) /\ (FormatterFacts => f = NULL \/ has_formatter_'[a])
  PROVE  Core' /\ UNCHANGED appenders_
<1> DEFINE o == [NoOp EXCEPT !.log = g, !.app = a, !.need = (f = NULL)]
<1>1. o \in Ops /\ o.log = g /\ o.app = a /\ (o.need <=> f = NULL)
  BY NoOpFacts DEF Ops
<1>2. /\ op' = [op EXCEPT ![t] = o] /\ pc' = [pc EXCEPT ![t] = "attach"]
      /\ mutex_[g] = NULL /\ mutex_' = [mutex_ EXCEPT ![g] = t]
      /\ fmt_' = [fmt_ EXCEPT ![a] = f]
      /\ UNCHANGED <<loggers_, appenders_, formatter_>>
  BY DEF AddAppender, Lock, Goto, Free
<1> HIDE DEF o
<1>3. /\ Typed' /\ Alone(t) /\ op'[t] = o /\ pc'[t] = "attach" /\ mutex_'[g] = t
      /\ fmt_'[a] = f /\ \A b \in Appenders \ {a} : fmt_'[b] = fmt_[b]
  BY <1>1, <1>2, NullFacts DEF Core, Typed, Labels, Alone
<1>4. ThreadFacts(t)'
  BY <1>1, <1>3, NullFacts DEF ThreadFacts
<1>5. \A u \in Threads : ThreadFacts(u)'
  BY <1>3, <1>4, OthersKeep DEF Core
<1>6. \A u \in Threads : pc'[u] \in {"attach", "inheritwrite"} =>
        u = t \/ (pc'[u] = pc[u] /\ op'[u] = op[u] /\ u # t)
  BY <1>3 DEF Alone
<1>7. /\ \A u \in Threads : pc[u] = "attach" => op[u].app \in Appenders /\ (op[u].app = a => Coming(a))
      /\ \A h \in Loggers : ToSet(appenders_[h]) \subseteq Appenders /\ (a \in ToSet(appenders_[h]) => Attached(a))
  BY AppenderTypes DEF Core, ThreadFacts, Typed, Ops, Coming, Attached
<1>8. ASSUME NEW u \in Threads, pc[u] = "inheritwrite"
      PROVE  \E h \in Loggers : Head(op[u].todo) \in ToSet(appenders_[h])
  <2>1. op[u].todo \in Seq(Appenders \cup Loggers) /\ op[u].todo # <<>> /\ op[u].log \in Loggers
        /\ ToSet(op[u].todo) \subseteq ToSet(appenders_[op[u].log])
    BY <1>8 DEF Core, ThreadFacts, Typed, Ops
  <2> QED
    BY <2>1, TailFacts
<1>9. ASSUME NEW b \in Appenders, b = a => Attached(a) \/ Coming(a)
      PROVE  fmt_'[b] = fmt_[b] /\ has_formatter_'[b] = has_formatter_[b]
  BY <1>3, <1>9
<1>10. ASSUME FormatterFacts PROVE FormatterFacts'
  <2>1. ASSUME NEW b \in Appenders
        PROVE (has_formatter_'[b] <=> own'[b] # NULL) /\ (has_formatter_'[b] => fmt_'[b] = own'[b])
    BY <1>3, <1>10 DEF FormatterFacts
  <2>2. \A h \in Loggers : \A b \in ToSet(appenders_[h]) : fmt_'[b] # NULL
    BY <1>7, <1>9, <1>10 DEF FormatterFacts
  <2>3. ASSUME NEW u \in Threads, pc'[u] = "attach"
        PROVE  IF op'[u].need THEN ~has_formatter_'[op'[u].app] ELSE fmt_'[op'[u].app] # NULL
    <3>1. CASE u = t
      BY <1>1, <1>3, <2>1, <3>1
    <3>2. CASE u # t
      BY <1>6, <1>7, <1>9, <1>10, <2>3, <3>2 DEF FormatterFacts
    <3> QED
      BY <3>1, <3>2
  <2>4. ASSUME NEW u \in Threads, pc'[u] = "inheritwrite" PROVE ~has_formatter_'[Head(op'[u].todo)]
    <3>1. pc[u] = "inheritwrite" /\ op'[u] = op[u]
      BY <1>3, <1>6, <2>4
    <3> QED
      BY <1>7, <1>8, <1>9, <1>10, <3>1 DEF FormatterFacts
  <2> QED
    BY <1>2, <2>1, <2>2, <2>3, <2>4 DEF FormatterFacts
<1>11. ASSUME Configured, Single, FormatterFacts, InheritFacts PROVE InheritFacts'
  <2>1. ~Attached(a) /\ ~Coming(a) /\ (f = NULL \/ has_formatter_'[a])
    BY <1>11
  <2>2. ASSUME NEW u \in Threads, pc'[u] = "attach"
        PROVE  /\ ~Attached(op'[u].app)
               /\ (op[u].need \/ has_formatter_[op[u].app])'
               /\ \A w \in Threads : (op[w].app = op[u].app)' => w = u
    <3>1. CASE u = t
      BY <1>1, <1>3, <2>1, <3>1 DEF Alone, Coming
    <3>2. CASE u # t
      <4>1. op'[u] = op[u] /\ pc[u] = "attach" /\ op[u].app \in Appenders /\ op[u].app # a
        BY <1>6, <1>7, <2>1, <2>2, <3>2
      <4>2. \A w \in Threads : op'[w].app = op[u].app => w # t /\ op'[w] = op[w]
        BY <1>1, <1>3, <4>1 DEF Alone
      <4> QED
        BY <1>11, <4>1, <4>2 DEF InheritFacts
    <3> QED
      BY <3>1, <3>2
  <2>3. \A u \in Threads : pc'[u] = "attach" => ~Attached(op[u].app)'
    BY <1>2, <2>2 DEF Attached
  <2>4. ASSUME NEW h \in Loggers, NEW b \in ToSet(appenders_[h])
        PROVE  has_formatter_'[b] \/ fmt_'[b] = formatter_[h] \/ \E u \in Threads : Inheriting(u, h, b)'
    <3>1. has_formatter_'[b] = has_formatter_[b] /\ fmt_'[b] = fmt_[b]
      BY <1>7, <1>9
    <3>2. \A u \in Threads : Inheriting(u, h, b) => Inheriting(u, h, b)'
      BY <1>3 DEF Inheriting, Alone
    <3> QED
      BY <1>11, <3>1, <3>2 DEF InheritFacts
  <2>5. \A u \in Threads : pc'[u] = "attach" =>
          (op[u].need \/ has_formatter_[op[u].app])' /\ \A w \in Threads : (op[w].app = op[u].app)' => w = u
    BY <2>2
  <2> QED
    BY <1>2, <1>11, <2>3, <2>4, <2>5 DEF InheritFacts
<1> QED
  BY <1>2, <1>3, <1>5, <1>10, <1>11 DEF Core, Configured, Single

(* AddAppender ends.                                                       *)
LEMMA AttachStep ==
  ASSUME Core, UNCHANGED profile, NEW t \in Threads, Attach(t)
  PROVE  Core' /\ UNCHANGED callVars /\ \A g \in Loggers : appenders_'[g] = <<>> => appenders_[g] = <<>>
<1> DEFINE a == op[t].app
           g == op[t].log
<1>1. /\ op[t] \in Ops /\ pc[t] = "attach" /\ a \in Appenders /\ g \in Loggers /\ mutex_[g] = t
      /\ op[t].need \in BOOLEAN
  BY NullFacts DEF Core, Typed, Attach, ThreadFacts, Ops
<1>2. /\ op' = [op EXCEPT ![t] = NoOp] /\ pc' = [pc EXCEPT ![t] = "idle"]
      /\ fmt_' = IF op[t].need THEN [fmt_ EXCEPT ![a] = formatter_[g]] ELSE fmt_
      /\ appenders_' = [appenders_ EXCEPT ![g] = Append(appenders_[g], a)]
      /\ mutex_' = [h \in Loggers |-> IF mutex_[h] = t THEN NULL ELSE mutex_[h]]
      /\ UNCHANGED <<loggers_, formatter_, has_formatter_, own, filename_, callVars>>
  BY DEF Attach, FmtOnAttach, Unlock, Return, Goto, Core, Typed
<1> HIDE DEF a, g
<1>3. /\ Append(appenders_[g], a) \in Seq(Appenders) /\ Append(appenders_[g], a) # <<>>
      /\ ToSet(Append(appenders_[g], a)) = ToSet(appenders_[g]) \cup {a}
  BY <1>1, AppenderTypes, AppendFacts DEF Core
<1>4. /\ op'[t] = NoOp /\ pc'[t] = "idle"
      /\ \A h \in Loggers \ {g} : appenders_'[h] = appenders_[h]
      /\ ToSet(appenders_'[g]) = ToSet(appenders_[g]) \cup {a} /\ appenders_'[g] # <<>>
      /\ fmt_'[a] = (IF op[t].need THEN formatter_[g] ELSE fmt_[a])
      /\ \A b \in Appenders \ {a} : fmt_'[b] = fmt_[b]
      /\ formatter_[g] # NULL
  BY <1>1, <1>2, <1>3, NullFacts DEF Core, Typed
<1>5. Typed'
  BY <1>1, <1>2, <1>3, NoOpFacts DEF Core, Typed, Labels
<1>6. Alone(t)
  BY <1>1, <1>2, NullFacts DEF Core, Typed, Alone
<1>7. \A u \in Threads : ThreadFacts(u)'
  <2>1. ThreadFacts(t)'
    BY <1>4, NoOpFacts DEF ThreadFacts
  <2> QED
    BY <1>6, <2>1, OthersKeep DEF Core
<1>8. \A u \in Threads : pc'[u] \in {"attach", "inheritwrite"} => u # t /\ pc'[u] = pc[u] /\ op'[u] = op[u]
  BY <1>4, <1>6 DEF Alone
<1>9. ASSUME FormatterFacts PROVE FormatterFacts'
  <2>1. /\ \A b \in Appenders : has_formatter_[b] => fmt_'[b] = fmt_[b]
        /\ \A b \in Appenders : fmt_[b] # NULL => fmt_'[b] # NULL
        /\ fmt_'[a] # NULL
    BY <1>1, <1>4, <1>9 DEF FormatterFacts, a
  <2>2. ASSUME NEW h \in Loggers, NEW b \in ToSet(appenders_'[h]) PROVE fmt_'[b] # NULL
    <3>1. b = a \/ b \in ToSet(appenders_[h])
      BY <1>4
    <3> QED
      BY <1>9, <2>1, <3>1, AppenderTypes DEF FormatterFacts, Core
  <2>3. ASSUME NEW u \in Threads, pc'[u] = "attach"
        PROVE  IF op[u].need THEN ~has_formatter_[op[u].app] ELSE fmt_'[op[u].app] # NULL
    <3>1. op[u].app \in Appenders
      BY <1>8, <2>3 DEF Core, ThreadFacts, Typed, Ops
    <3> QED
      BY <1>8, <1>9, <2>1, <2>3, <3>1 DEF FormatterFacts
  <2> QED
    BY <1>2, <1>8, <1>9, <2>1, <2>2, <2>3 DEF FormatterFacts
<1>10. ASSUME FormatterFacts, InheritFacts PROVE InheritFacts'
  <2>1. ~Attached(a) /\ (op[t].need \/ has_formatter_[a]) /\ \A u \in Threads : op[u].app = a => u = t
    BY <1>1, <1>10 DEF InheritFacts, a
  <2>2. \A h \in Loggers : a \notin ToSet(appenders_[h])
    BY <2>1 DEF Attached
  <2>3. \A h, k \in Loggers : \A b \in Appenders :
          b \in ToSet(appenders_'[h]) /\ b \in ToSet(appenders_'[k]) => h = k
    BY <1>4, <1>10, <2>2 DEF InheritFacts
  <2>4. ASSUME NEW u \in Threads, pc'[u] = "attach"
        PROVE  /\ ~Attached(op[u].app)'
               /\ (op[u].need \/ has_formatter_[op[u].app])'
               /\ \A w \in Threads : (op[w].app = op[u].app)' => w = u
    <3>1. u # t /\ op'[u] = op[u] /\ pc[u] = "attach" /\ op[u].app # NULL /\ op[u].app # a
      BY <1>8, <2>1, <2>4 DEF Core, ThreadFacts
    <3>2. ~Attached(op[u].app)'
      <4>1. \A h \in Loggers : op[u].app \notin ToSet(appenders_[h])
        BY <1>10, <3>1 DEF InheritFacts, Attached
      <4>2. \A h \in Loggers : op[u].app \notin ToSet(appenders_'[h])
        BY <1>4, <3>1, <4>1
      <4> QED
        BY <3>1, <4>2 DEF Attached
    <3>3. \A w \in Threads : op'[w].app = op[u].app => w # t /\ op'[w] = op[w]
      BY <1>4, <1>6, <3>1, NoOpFacts DEF Alone
    <3> QED
      BY <1>2, <1>10, <3>1, <3>2, <3>3 DEF InheritFacts
  <2>5. ASSUME NEW h \in Loggers, NEW b \in ToSet(appenders_'[h])
        PROVE  has_formatter_[b] \/ fmt_'[b] = formatter_[h] \/ \E u \in Threads : Inheriting(u, h, b)'
    <3>1. CASE b = a /\ h = g
      BY <1>4, <2>1, <3>1
    <3>2. CASE ~(b = a /\ h = g)
      <4>1. b \in ToSet(appenders_[h]) /\ b # a /\ b \in Appenders
        BY <1>4, <2>2, <3>2, AppenderTypes DEF Core
      <4>2. \A u \in Threads : Inheriting(u, h, b) => Inheriting(u, h, b)'
        BY <1>1, <1>6 DEF Inheriting, Alone
      <4> QED
        BY <1>4, <1>10, <4>1, <4>2 DEF InheritFacts
    <3> QED
      BY <3>1, <3>2
  <2> QED
    BY <1>2, <2>3, <2>4, <2>5 DEF InheritFacts
<1> QED
  BY <1>2, <1>3, <1>4, <1>5, <1>7, <1>9, <1>10 DEF Core, Configured, Single

-----------------------------------------------------------------------------
(* A step that leaves the reload alone and the root logger its appenders.  *)
LEMMA KeepReload ==
  ASSUME LoggerInv, Core', UNCHANGED <<profile, reload, doc, fault>>,
         "root kept" \in profile.duties => (appenders_'[Root] = <<>> => appenders_[Root] = <<>>)
  PROVE  LoggerInv'
<1>1. ReloadTyped'
  BY DEF LoggerInv, ReloadTyped, Documents
<1>2. FaultFacts'
  BY DEF LoggerInv, FaultFacts, Configured
<1> QED
  BY <1>1, <1>2 DEF LoggerInv, RootFacts

(* The steps of Log, AddAppender, SetFormatter and ToYamlString.           *)
LEMMA BegunStep ==
  ASSUME LoggerInv, UNCHANGED profile, NEW t \in Threads,
         \/ LogRoot(t) \/ Emit(t) \/ EndLog(t) \/ Attach(t)
         \/ InheritTest(t) \/ InheritWrite(t) \/ InheritEnd(t) \/ YamlNext(t) \/ YamlEnd(t)
  PROVE  LoggerInv'
<1>0. Core /\ ThreadFacts(t) /\ Root \in Loggers
  BY NullFacts DEF LoggerInv, Core
<1>1. CASE LogRoot(t)
  <2>1. CASE op[t].at # Root
    BY <1>0, <1>1, <2>1, LogRootStep, KeepReload DEF callVars
  <2>2. CASE op[t].at = Root
    <3>1. /\ fault' = "null root" /\ pc[t] = "root"
          /\ UNCHANGED <<loggers_, appenders_, formatter_, mutex_, appenderVars, mgr, pc, op, reload, doc, calls>>
      BY <1>1, <2>2 DEF LogRoot, Abort
    <3>2. Core' /\ ReloadTyped'
      <4>1. Typed' /\ Alone(t) /\ ThreadFacts(t)' /\ ReloadTyped'
        BY <1>0, <3>1 DEF LoggerInv, Core, Typed, ReloadTyped, Documents, Alone, ThreadFacts, appenderVars
      <4>2. op[t].app = NULL /\ \A g \in Loggers, a \in Appenders : ~Inheriting(t, g, a)
        BY <1>0, <3>1 DEF ThreadFacts, Inheriting
      <4> QED
        BY <1>0, <3>1, <4>1, <4>2, QuietStep DEF appenderVars
    <3>3. "root kept" \notin profile.duties
      BY <1>0, <2>2, <3>1 DEF ThreadFacts, LoggerInv, RootFacts
    <3>4. FaultFacts'
      BY <3>1, <3>3 DEF FaultFacts
    <3> QED
      BY <3>2, <3>3, <3>4 DEF LoggerInv
  <2> QED
    BY <2>1, <2>2
<1>2. CASE Emit(t)
  <2>1. /\ Core' /\ (Configured => UNCHANGED fault)
        /\ UNCHANGED <<appenders_, reload, doc>>
        /\ fault' \in {fault, "null formatter"}
    BY <1>0, <1>2, EmitStep DEF Emit
  <2>2. ReloadTyped' /\ FaultFacts'
    BY <2>1 DEF LoggerInv, ReloadTyped, Documents, FaultFacts, Configured
  <2> QED
    BY <2>1, <2>2 DEF LoggerInv, RootFacts
<1>3. CASE EndLog(t)
  BY <1>0, <1>3, EndStep, KeepReload DEF EndLog, callVars
<1>4. CASE Attach(t)
  BY <1>0, <1>4, AttachStep, KeepReload DEF callVars
<1>5. CASE InheritTest(t)
  BY <1>0, <1>5, InheritTestStep, KeepReload DEF callVars
<1>6. CASE InheritWrite(t)
  BY <1>0, <1>6, InheritWriteStep, KeepReload DEF callVars
<1>7. CASE InheritEnd(t)
  BY <1>0, <1>7, EndStep, KeepReload DEF InheritEnd, callVars
<1>8. CASE YamlNext(t)
  BY <1>0, <1>8, YamlNextStep, KeepReload DEF callVars
<1>9. CASE YamlEnd(t)
  BY <1>0, <1>9, EndStep, KeepReload DEF YamlEnd, callVars
<1> QED
  BY <1>1, <1>2, <1>3, <1>4, <1>5, <1>6, <1>7, <1>8, <1>9

(* The documents define loggers.                                           *)
LEMMA DocumentFacts ==
  ASSUME profile \in Profiles, NEW d \in Documents
  PROVE  DOMAIN d \subseteq Loggers
<1>1. DOMAIN <<>> = {}
  BY EmptySeq
<1> QED
  BY <1>1, LoggerAssumption DEF Documents

(* Counting the appenders of a definition keeps the shape of reload.       *)
LEMMA ReloadCounts ==
  ASSUME NEW By, NEW To, NEW Left, NEW Log_, NEW Step_, NEW i \in Nat,
         NEW r \in [by : By, to : To, left : Left, log : Log_, next : Step_, n : Nat]
  PROVE  [r EXCEPT !.n = i] \in [by : By, to : To, left : Left, log : Log_, next : Step_, n : Nat]
OBVIOUS

(* The steps of the listener, ...                                          *)
LEMMA ListenerSteps ==
  ASSUME LoggerInv, UNCHANGED profile, NEW t \in Threads,
         \/ ListenerLog(t) \/ NextLogger(t) \/ ListenerCall(t) \/ ListenerAppender(t) \/ StoreLogs(t)
  PROVE  LoggerInv'
<1>0. /\ Core /\ ReloadTyped /\ Root \in Loggers
      /\ pc[t] = "idle" /\ reload.by = t
  BY NullFacts DEF LoggerInv, ListenerLog, NextLogger, ListenerCall, ListenerAppender, StoreLogs, Between, Listening
<1> DEFINE RootSafe == "root kept" \in profile.duties => (appenders_'[Root] = <<>> => appenders_[Root] = <<>>)
<1>1. ASSUME Core', ReloadTyped', RootSafe, UNCHANGED fault,
             "root kept" \in profile.duties => /\ Root \notin DOMAIN doc' /\ Root \notin reload'.left
                                               /\ reload'.log # Root /\ Root \notin DOMAIN reload'.to
      PROVE  LoggerInv'
  <2>1. FaultFacts'
    BY <1>1 DEF LoggerInv, FaultFacts, Configured
  <2> QED
    BY <1>1, <2>1 DEF LoggerInv, RootFacts
<1>2. CASE ListenerLog(t)
  <2>1. Core' /\ UNCHANGED appenders_
    BY <1>0, <1>2, LogStep DEF ListenerLog
  <2>2. reload' = [reload EXCEPT !.next = "next"] /\ UNCHANGED <<doc, fault>>
    BY <1>2 DEF ListenerLog
  <2>3. ReloadTyped'
    BY <1>0, <2>2 DEF ReloadTyped, Documents
  <2>4. reload'.left = reload.left /\ reload'.log = reload.log /\ reload'.to = reload.to
    BY <1>0, <2>2 DEF ReloadTyped
  <2> QED
    BY <1>1, <2>1, <2>2, <2>3, <2>4 DEF LoggerInv, RootFacts
<1>3. CASE NextLogger(t)
  <2>1. PICK g \in reload.left :
          reload' = [reload EXCEPT !.left = reload.left \ {g}, !.log = g, !.next = "get", !.n = 1]
    BY <1>0, <1>3 DEF NextLogger, ReloadTyped
  <2>2. UNCHANGED <<loggers_, appenders_, formatter_, mutex_, appenderVars, pc, op, doc, fault>>
    BY <1>3 DEF NextLogger
  <2>3. ReloadTyped'
    BY <1>0, <2>1, <2>2 DEF ReloadTyped, Documents
  <2>4. Core'
    <3>1. \A h \in Loggers : ToSet(appenders_'[h]) \subseteq ToSet(appenders_[h])
      BY <2>2
    <3> QED
      BY <1>0, <2>2, <3>1, IdleStep DEF Core, Typed
  <2>5. reload'.left \subseteq reload.left /\ reload'.log \in reload.left /\ reload'.to = reload.to
    BY <1>0, <2>1 DEF ReloadTyped
  <2> QED
    BY <1>1, <2>2, <2>3, <2>4, <2>5 DEF LoggerInv, RootFacts
<1>4. CASE ListenerCall(t)
  <2>1. /\ reload.next \in {"get", "format", "clear"} /\ reload.log \in Loggers
        /\ reload' = [reload EXCEPT !.next = Define(reload.next)] /\ UNCHANGED <<doc, fault>>
    BY <1>0, <1>4 DEF ListenerCall, Listening, ReloadTyped
  <2>2. Define(reload.next) \in {"format", "clear", "new"}
    BY <2>1 DEF Define
  <2>3. ReloadTyped'
    BY <1>0, <2>1, <2>2 DEF ReloadTyped, Documents
  <2>4. Core' /\ \A h \in Loggers \ {reload.log} : appenders_'[h] = appenders_[h]
    BY <1>0, <1>4, <2>1, TakeAwayStep, SetFormatterStep DEF ListenerCall
  <2>5. reload'.left = reload.left /\ reload'.log = reload.log /\ reload'.to = reload.to
    BY <1>0, <2>1 DEF ReloadTyped
  <2> QED
    BY <1>0, <1>1, <2>1, <2>3, <2>4, <2>5 DEF LoggerInv, RootFacts
<1>5. CASE ListenerAppender(t)
  <2>1. /\ reload.next = "new" /\ reload.log \in Loggers
        /\ reload' = [reload EXCEPT !.n = reload.n + 1] /\ UNCHANGED <<doc, fault>>
    BY <1>0, <1>5 DEF ListenerAppender, Listening, ReloadTyped
  <2>2. ReloadTyped'
    <3>1. reload.n \in Nat /\ reload.n + 1 \in Nat
      BY <1>0 DEF ReloadTyped
    <3>2. /\ reload' = [reload EXCEPT !.n = reload.n + 1]
          /\ reload'.next = reload.next /\ reload'.log = reload.log
      BY <1>0, <2>1 DEF ReloadTyped
    <3>3. reload \in [by : Threads \cup {NULL}, to : Documents, left : SUBSET Loggers,
                     log : Loggers \cup {NULL},
                     next : {"none", "log", "next", "get", "format", "clear", "new"}, n : Nat]
      BY <1>0 DEF ReloadTyped
    <3>4. reload' \in [by : Threads \cup {NULL}, to : Documents, left : SUBSET Loggers,
                      log : Loggers \cup {NULL},
                      next : {"none", "log", "next", "get", "format", "clear", "new"}, n : Nat]
      BY <3>1, <3>2, <3>3, ReloadCounts, Zenon
    <3>5. Documents' = Documents
      BY DEF Documents
    <3>6. doc \in Documents
      BY <1>0, ZenonT(30) DEF ReloadTyped
    <3> QED
      BY <2>1, <3>2, <3>4, <3>5, <3>6 DEF ReloadTyped
  <2> DEFINE d == Wanted.appenders[reload.n]
             f == IF d.formatter \in Formats THEN d.formatter ELSE NULL
  <2>3. PICK a \in Unused :
          /\ AddAppender(t, reload.log, a, f)
          /\ has_formatter_' = [has_formatter_ EXCEPT ![a] = (f # NULL)]
          /\ own' = [own EXCEPT ![a] = f]
          /\ filename_' = [filename_ EXCEPT ![a] = IF d.type = "file" THEN d.file ELSE NULL]
    BY <1>5 DEF ListenerAppender, AddNew
  <2>4. f \in Formats \cup {NULL}
    OBVIOUS
  <2> HIDE DEF d, f
  <2>5. a \in Appenders /\ ~Attached(a) /\ ~Coming(a)
    BY DEF Unused, Appenders
  <2>6. /\ own'[a] = f /\ (has_formatter_'[a] <=> f # NULL)
        /\ \A b \in Appenders \ {a} : has_formatter_'[b] = has_formatter_[b] /\ own'[b] = own[b]
        /\ has_formatter_' \in [Appenders -> BOOLEAN] /\ own' \in [Appenders -> Formats \cup {NULL}]
        /\ DOMAIN filename_' = Appenders
    BY <1>0, <2>3, <2>4, <2>5 DEF Core, Typed
  <2>7. Core' /\ UNCHANGED appenders_
    BY <1>0, <2>1, <2>3, <2>4, <2>5, <2>6, AddStep
  <2>8. reload'.left = reload.left /\ reload'.log = reload.log /\ reload'.to = reload.to
    BY <1>0, <2>1 DEF ReloadTyped
  <2> QED
    BY <1>1, <2>1, <2>2, <2>7, <2>8 DEF LoggerInv, RootFacts
<1>6. CASE StoreLogs(t)
  <2>1. /\ doc' = reload.to /\ reload' = NoReload
        /\ UNCHANGED <<loggers_, appenders_, formatter_, mutex_, appenderVars, pc, op, fault>>
    BY <1>6 DEF StoreLogs
  <2>2. ReloadTyped'
    BY <1>0, <2>1 DEF ReloadTyped, Documents, NoReload
  <2>3. Core'
    <3>1. \A h \in Loggers : ToSet(appenders_'[h]) \subseteq ToSet(appenders_[h])
      BY <2>1
    <3> QED
      BY <1>0, <2>1, <3>1, IdleStep DEF Core, Typed
  <2>4. NoReload.left = {} /\ NoReload.log = NULL /\ NoReload.to = <<>> /\ DOMAIN <<>> = {}
    BY EmptySeq DEF NoReload
  <2> QED
    BY <1>0, <1>1, <2>1, <2>2, <2>3, <2>4, NullFacts DEF LoggerInv, RootFacts
<1> QED
  BY <1>2, <1>3, <1>4, <1>5, <1>6

(* ... its beginning, ...                                                  *)
LEMMA ReloadStep ==
  ASSUME LoggerInv, NEW t \in Threads, NEW new \in profile.configs, Reload(t, new)
  PROVE  LoggerInv'
<1>1. /\ reload' = [NoReload EXCEPT !.by = t, !.to = new, !.next = "log",
                                     !.left = Changed(doc, new) \cup Gone(doc, new)]
      /\ "root kept" \in profile.duties => Root \notin DOMAIN new
      /\ UNCHANGED <<profile, loggers_, appenders_, formatter_, mutex_, appenderVars, pc, op, doc, fault>>
      /\ pc[t] = "idle"
  BY DEF Reload
<1>2. /\ Changed(doc, new) \cup Gone(doc, new) \subseteq DOMAIN doc \cup DOMAIN new
      /\ DOMAIN doc \subseteq Loggers /\ DOMAIN new \subseteq Loggers
  BY DocumentFacts DEF Changed, Gone, LoggerInv, Core, Typed, ReloadTyped, Documents
<1>3. /\ reload'.left \subseteq DOMAIN doc \cup DOMAIN new /\ reload'.to = new /\ reload'.log = NULL
      /\ ReloadTyped'
  BY <1>1, <1>2 DEF ReloadTyped, LoggerInv, Documents, NoReload
<1>4. Core'
  <2>1. \A h \in Loggers : ToSet(appenders_'[h]) \subseteq ToSet(appenders_[h])
    BY <1>1
  <2> QED
    BY <1>1, <2>1, IdleStep DEF LoggerInv, Core, Typed
<1>5. FaultFacts'
  BY <1>1 DEF LoggerInv, FaultFacts, Configured
<1> QED
  BY <1>1, <1>3, <1>4, <1>5, NullFacts DEF LoggerInv, RootFacts

(* ... and the calls of clients.                                           *)
LEMMA ClientStep ==
  ASSUME LoggerInv, NEW t \in Threads, ClientCall(t)
  PROVE  LoggerInv'
<1>0. Core /\ pc[t] = "idle" /\ UNCHANGED <<profile, reload, doc, fault>> /\ Root \in Loggers /\ loggers_ \subseteq Loggers
  BY NullFacts DEF LoggerInv, ClientCall, Core, Typed
<1>1. PICK c \in ClientCalls : c.op \in profile.ops /\ Invoke(t, c)
  BY DEF ClientCall
<1>2. CASE c.op = "log" /\ Log(t, c.log)
  <2>1. c.log \in Loggers
    BY <1>0, <1>2 DEF ClientCalls, Call
  <2> QED
    BY <1>0, <1>2, <2>1, LogStep, KeepReload
<1>3. CASE c.op = "get" /\ GetLogger(t, c.log)
  <2>1. c.log \in Loggers
    BY <1>0, <1>3 DEF ClientCalls, Call
  <2>2. UNCHANGED appenders_
    BY <1>3 DEF GetLogger
  <2> QED
    BY <1>0, <1>3, <2>1, <2>2, TakeAwayStep, KeepReload
<1>4. CASE c.op = "yaml" /\ ToYamlString(t)
  BY <1>0, <1>4, YamlBeginStep, KeepReload
<1>5. CASE c.op = "add" /\ AddOwn(t, c.log, c.arg)
  <2>1. c.log \in Loggers /\ c.arg \in OwnAppenders /\ AttachedOnce(c.arg)
    BY <1>0, <1>5 DEF ClientCalls, Call
  <2>2. c.arg \in Appenders /\ fmt_[c.arg] \in Formats \cup {NULL} /\ "add" \in profile.ops
    BY <1>0, <1>1, <1>5, <2>1 DEF Appenders, Core, Typed
  <2>3. AddAppender(t, c.log, c.arg, fmt_[c.arg]) /\ UNCHANGED <<has_formatter_, own, filename_>>
    BY <1>5 DEF AddOwn
  <2>4. Single => ~Attached(c.arg) /\ ~Coming(c.arg) /\ fmt_[c.arg] = own[c.arg]
    BY <2>1, <2>2 DEF Single, AttachedOnce
  <2>5. FormatterFacts => (has_formatter_[c.arg] <=> own[c.arg] # NULL)
    BY <2>2 DEF FormatterFacts
  <2>6. Core' /\ UNCHANGED appenders_
    <3>1. has_formatter_' \in [Appenders -> BOOLEAN] /\ own' \in [Appenders -> Formats \cup {NULL}]
          /\ DOMAIN filename_' = Appenders
      BY <1>0, <2>3 DEF Core, Typed
    <3> QED
      BY <1>0, <2>1, <2>2, <2>3, <2>4, <2>5, <3>1, AddStep
  <2> QED
    BY <1>0, <2>6, KeepReload
<1>6. CASE c.op = "del" /\ DelAppender(t, c.log, c.arg)
  <2>1. c.log \in Loggers /\ RootKept(c.log) /\ c.arg \in Appenders
    BY <1>0, <1>6 DEF ClientCalls, Call, Appenders
  <2> QED
    BY <1>0, <1>6, <2>1, TakeAwayStep, KeepReload DEF RootKept
<1>7. CASE c.op = "clear" /\ ClearAppender(t, c.log)
  <2>1. c.log \in Loggers /\ RootKept(c.log)
    BY <1>0, <1>7 DEF ClientCalls, Call
  <2> QED
    BY <1>0, <1>7, <2>1, TakeAwayStep, KeepReload DEF RootKept
<1>8. CASE c.op = "format" /\ SetFormatter(t, c.log, c.arg)
  <2>1. c.log \in Loggers
    BY <1>0, <1>8 DEF ClientCalls, Call
  <2> QED
    BY <1>0, <1>8, <2>1, SetFormatterStep, KeepReload
<1>9. CASE c.op = "own" /\ SetOwnFormatter(t, c.log, c.arg)
  <2>1. c.log \in Appenders /\ ConfiguredFirst(c.log) /\ c.arg \in Formats \cup {NULL} /\ "own" \in profile.ops
    BY <1>0, <1>1, <1>9 DEF ClientCalls, Call, Appenders
  <2> QED
    BY <1>0, <1>9, <2>1, SetOwnStep, KeepReload
<1> QED
  BY <1>1, <1>2, <1>3, <1>4, <1>5, <1>6, <1>7, <1>8, <1>9 DEF Invoke
-----------------------------------------------------------------------------
(* The inductive invariant holds in every reachable state.                 *)
THEOREM LoggerInvariant == Spec => []LoggerInv
<1>1. Init => LoggerInv
  <2> SUFFICES ASSUME Init PROVE LoggerInv
    OBVIOUS
  <2>1. First \in NewAppenders /\ First \in Appenders
    BY LoggerAssumption DEF First, Appenders
  <2>2. <<First>> \in Seq(Appenders) /\ <<First>> # <<>> /\ ToSet(<<First>>) = {First} /\ <<>> \in Seq(Appenders)
    BY <2>1 DEF ToSet
  <2>3. /\ appenders_[Root] = <<First>>
        /\ \A g \in Loggers : (appenders_[g] = <<First>> /\ g = Root) \/ appenders_[g] = <<>>
        /\ \A t \in Threads : pc[t] = "idle" /\ op[t] = NoOp
    BY NullFacts DEF Init
  <2>4. Typed
    BY <2>1, <2>2, NullFacts, NoOpFacts DEF Init, Typed, Labels
  <2>5. \A t \in Threads : ThreadFacts(t)
    BY <2>3, NoOpFacts DEF ThreadFacts
  <2>6. \A g \in Loggers : \A a \in ToSet(appenders_[g]) : g = Root /\ a = First
    BY <2>2, <2>3, NoOpFacts
  <2>7. FormatterFacts
    BY <2>1, <2>3, <2>6, NullFacts DEF Init, FormatterFacts
  <2>8. InheritFacts
    BY <2>1, <2>3, <2>6, NullFacts DEF Init, InheritFacts
  <2>9. ReloadTyped /\ NoReload.left = {} /\ NoReload.log = NULL /\ NoReload.to = <<>> /\ DOMAIN <<>> = {}
    BY EmptySeq DEF Init, ReloadTyped, Documents, NoReload
  <2>10. RootFacts
    BY <2>2, <2>3, <2>9, NullFacts DEF Init, RootFacts
  <2>11. FaultFacts
    BY DEF Init, FaultFacts
  <2> QED
    BY <2>4, <2>5, <2>7, <2>8, <2>9, <2>10, <2>11 DEF LoggerInv, Core
<1>2. LoggerInv /\ [Next]_vars => LoggerInv'
  <2> SUFFICES ASSUME LoggerInv, [Next]_vars PROVE LoggerInv'
    OBVIOUS
  <2>1. ASSUME NEW t \in Threads, Step(t) PROVE LoggerInv'
    BY <2>1, BegunStep, ListenerSteps DEF Step
  <2>2. ASSUME NEW t \in Threads, ClientCall(t) PROVE LoggerInv'
    BY <2>2, ClientStep
  <2>3. ASSUME NEW t \in Threads, NEW new \in profile.configs, Reload(t, new) PROVE LoggerInv'
    BY <2>3, ReloadStep
  <2>4. CASE UNCHANGED vars
    <3>1. UNCHANGED <<profile, loggers_, appenders_, formatter_, mutex_, appenderVars, pc, op, reload, doc, fault>>
      BY <2>4 DEF vars, appenderVars
    <3>2. Typed' /\ (\A t \in Threads : ThreadFacts(t)') /\ ReloadTyped' /\ FaultFacts'
      BY <3>1 DEF LoggerInv, Core, Typed, ThreadFacts, ReloadTyped, Documents, FaultFacts, Configured, appenderVars
    <3>3. FormatterFacts <=> FormatterFacts'
      BY <3>1 DEF FormatterFacts, appenderVars
    <3>4. InheritFacts <=> InheritFacts'
      BY <3>1 DEF InheritFacts, Attached, Inheriting, appenderVars
    <3> QED
      BY <3>1, <3>2, <3>3, <3>4 DEF LoggerInv, Core, RootFacts, Configured, Single
  <2> QED
    BY <2>1, <2>2, <2>3, <2>4 DEF Next
<1> QED
  BY <1>1, <1>2, PTL DEF Spec

(* Under the lock of its logger, Log writes once per appender of one       *)
(* logger that has some.                                                   *)
THEOREM LogIsWrittenTheorem == Spec => []LogIsWritten
<1>1. LoggerInv => LogIsWritten
  BY DEF LoggerInv, Core, ThreadFacts, LogIsWritten
<1> QED
  BY <1>1, LoggerInvariant, PTL

(* Neither AddAppender nor Logger::SetFormatter overwrites the formatter   *)
(* of an appender that has its own, although both test and write it        *)
(* without the appender's lock, if it was configured before.               *)
THEOREM OwnFormatterKeptTheorem == Spec => []OwnFormatterKept
<1>1. LoggerInv => OwnFormatterKept
  BY DEF LoggerInv, Core, FormatterFacts, OwnFormatterKept
<1> QED
  BY <1>1, LoggerInvariant, PTL

(* The other appenders follow their logger: when its lock is free no       *)
(* SetFormatter is half-way.                                               *)
THEOREM InheritsFormatterTheorem == Spec => []InheritsFormatter
<1>1. ASSUME LoggerInv PROVE InheritsFormatter
  <2> SUFFICES ASSUME Configured, Single, NEW g \in Loggers, Free(g), NEW a \in ToSet(appenders_[g])
               PROVE  ~has_formatter_[a] => fmt_[a] = formatter_[g]
    BY DEF InheritsFormatter
  <2>1. ASSUME NEW t \in Threads PROVE ~Inheriting(t, g, a)
    <3>1. ThreadFacts(t)
      BY <1>1 DEF LoggerInv, Core
    <3> QED
      BY <3>1, NullFacts DEF ThreadFacts, Inheriting, Free
  <2> QED
    BY <1>1, <2>1 DEF LoggerInv, Core, InheritFacts
<1> QED
  BY <1>1, LoggerInvariant, PTL
-----------------------------------------------------------------------------
(* A document defines each of its loggers with a list of appenders, ...    *)
LEMMA DefineTypes ==
  ASSUME profile \in Profiles, NEW c \in profile.configs, NEW g \in DOMAIN c
  PROVE  LogDefine(c[g]).appenders \in Seq({Converted(x) : x \in YamlAppender})
<1> DEFINE S == {Converted(x) : x \in YamlAppender}
           parts == [i \in DOMAIN c[g].appenders |->
                      IF Complete(c[g].appenders[i]) THEN <<Converted(c[g].appenders[i])>> ELSE <<>>]
<1>1. c[g] \in YamlLogger
  BY LoggerAssumption
<1>2. c[g].appenders \in Seq(YamlAppender)
  BY <1>1 DEF YamlLogger
<1>3. /\ Len(c[g].appenders) \in Nat /\ DOMAIN c[g].appenders = 1..Len(c[g].appenders)
      /\ \A i \in DOMAIN c[g].appenders : c[g].appenders[i] \in YamlAppender
  BY <1>2, LenProperties
<1>4. parts \in Seq(Seq(S))
  <2>1. \A x \in S : <<x>> \in Seq(S)
    OBVIOUS
  <2>2. \A x \in YamlAppender : Converted(x) \in S
    OBVIOUS
  <2> HIDE DEF S
  <2>3. ASSUME NEW i \in DOMAIN c[g].appenders
        PROVE  (IF Complete(c[g].appenders[i]) THEN <<Converted(c[g].appenders[i])>> ELSE <<>>) \in Seq(S)
    <3>1. <<Converted(c[g].appenders[i])>> \in Seq(S) /\ <<>> \in Seq(S)
      BY <1>3, <2>1, <2>2
    <3> QED
      BY <3>1
  <2>4. parts \in [1..Len(c[g].appenders) -> Seq(S)]
    BY <1>3, <2>3
  <2> HIDE DEF parts
  <2> QED
    BY <1>3, <2>4, SeqDef
<1>5. FlattenSeq(parts) \in Seq(S) /\ LogDefine(c[g]).appenders = FlattenSeq(parts)
  BY <1>4, FlattenFacts DEF LogDefine
<1> QED
  BY <1>5

(* ... which have no formatter, as have those of the loggers that a reload *)
(* removes.                                                                *)
LEMMA DefineFacts ==
  ASSUME profile \in Profiles, NEW c \in profile.configs, NEW g \in DOMAIN c
  PROVE  LET as == LogDefine(c[g]).appenders IN
         /\ Len(as) \in Nat /\ DOMAIN as = 1..Len(as)
         /\ \A i \in DOMAIN as : as[i].formatter = NULL /\ as[i].file \in Files \cup Patterns \cup {NULL}
<1> DEFINE S == {Converted(x) : x \in YamlAppender}
<1>1. LogDefine(c[g]).appenders \in Seq(S)
  BY DefineTypes
<1>2. \A x \in S : x.formatter = NULL /\ x.file \in Files \cup Patterns \cup {NULL}
  BY DEF Converted, YamlAppender
<1> HIDE DEF S
<1> QED
  BY <1>1, <1>2, LenProperties

(* The same for what is to become of the listener's logger.                *)
LEMMA WantedFacts ==
  ASSUME LoggerInv, reload.to \in profile.configs
  PROVE  /\ Len(Wanted.appenders) \in Nat /\ DOMAIN Wanted.appenders = 1..Len(Wanted.appenders)
         /\ \A i \in DOMAIN Wanted.appenders :
              /\ Wanted.appenders[i].formatter = NULL
              /\ Wanted.appenders[i].file \in Files \cup Patterns \cup {NULL}
<1>1. profile \in Profiles
  BY DEF LoggerInv, Core, Typed
<1>2. CASE reload.log \in DOMAIN reload.to
  <2>1. Wanted = LogDefine(reload.to[reload.log])
    BY <1>2 DEF Wanted
  <2> QED
    BY <1>1, <1>2, <2>1, DefineFacts
<1>3. CASE reload.log \notin DOMAIN reload.to
  <2>1. Wanted.appenders = <<>> /\ Len(<<>>) = 0 /\ DOMAIN <<>> = {} /\ 1..0 = {}
    BY <1>3, EmptySeq DEF Wanted
  <2> QED
    BY <2>1
<1> QED
  BY <1>2, <1>3

-----------------------------------------------------------------------------
(* The listener is adding an appender to the root logger, whose lock it    *)
(* holds.                                                                  *)
RootAttach ==
  reload.by \in Threads /\ pc[reload.by] = "attach" /\ op[reload.by].log = Root

(* Where documents define root, it is without appenders in the window of a *)
(* reload or until the listener lets go of its lock again.                 *)
RootInv ==
  RootDefined =>
    /\ appenders_[Root] = <<>> => RootWindow \/ RootAttach
    /\ fault = "null root" => RootWindow
    /\ IF Reloading THEN reload.to \in profile.configs ELSE reload.next = "none"
    /\ reload.next \in {"get", "format", "clear"} => reload.n = 1

(* A step that leaves the reload and the thread of the listener alone.     *)
LEMMA KeepRoot ==
  ASSUME RootInv, UNCHANGED <<profile, reload>>,
         fault' = "null root" => fault = "null root",
         RootDefined /\ appenders_'[Root] = <<>> => appenders_[Root] = <<>> /\ (RootAttach => RootAttach')
  PROVE  RootInv'
<1>1. (RootDefined <=> RootDefined') /\ (RootWindow <=> RootWindow') /\ (Reloading <=> Reloading')
  BY DEF RootDefined, RootWindow, Reloading
<1> QED
  BY <1>1 DEF RootInv

(* A thread that is not the listener's, or is not adding an appender, does *)
(* nothing to the listener's.                                              *)
LEMMA KeepAttach ==
  ASSUME NEW t \in Threads, UNCHANGED reload, reload.by # t \/ pc[t] # "attach",
         \A u \in Threads \ {t} : pc'[u] = pc[u] /\ op'[u] = op[u]
  PROVE  RootAttach => RootAttach'
BY DEF RootAttach

(* The steps of Log, AddAppender, SetFormatter and ToYamlString.           *)
LEMMA BegunKeepsRoot ==
  ASSUME LoggerInv, RootInv, UNCHANGED profile, NEW t \in Threads,
         \/ LogRoot(t) \/ Emit(t) \/ EndLog(t) \/ Attach(t)
         \/ InheritTest(t) \/ InheritWrite(t) \/ InheritEnd(t) \/ YamlNext(t) \/ YamlEnd(t)
  PROVE  RootInv'
<1>0. /\ Core /\ ThreadFacts(t) /\ Root \in Loggers
      /\ pc \in [Threads -> Labels] /\ op \in [Threads -> Ops]
  BY NullFacts DEF LoggerInv, Core, Typed
<1>1. CASE LogRoot(t) /\ op[t].at = Root
  <2>1. /\ fault' = "null root" /\ pc[t] = "root"
        /\ UNCHANGED <<appenders_, pc, op, reload>>
    BY <1>1 DEF LogRoot, Abort
  <2>2. appenders_[Root] = <<>> /\ mutex_[Root] = t
    BY <1>0, <1>1, <2>1 DEF ThreadFacts
  <2>3. ~RootAttach
    <3>1. SUFFICES ASSUME RootAttach PROVE FALSE
      OBVIOUS
    <3>2. mutex_[Root] = reload.by /\ pc[reload.by] = "attach"
      BY <1>0, <3>1 DEF RootAttach, Core, ThreadFacts
    <3> QED
      BY <2>1, <2>2, <3>2
  <2>4. (RootDefined <=> RootDefined') /\ (RootWindow <=> RootWindow') /\ (Reloading <=> Reloading')
    BY <2>1 DEF RootDefined, RootWindow, Reloading
  <2> QED
    BY <2>1, <2>2, <2>3, <2>4 DEF RootInv
<1>2. CASE (LogRoot(t) /\ op[t].at # Root) \/ Emit(t) \/ YamlNext(t) \/ InheritTest(t) \/ InheritWrite(t)
  <2>1. /\ UNCHANGED <<appenders_, reload>> /\ pc[t] # "attach"
        /\ \A u \in Threads \ {t} : pc'[u] = pc[u] /\ op'[u] = op[u]
    BY <1>0, <1>2 DEF LogRoot, Emit, YamlNext, InheritTest, InheritWrite, Goto, callVars
  <2>2. fault' \in {fault, "null formatter"}
    BY <1>2 DEF LogRoot, Emit, YamlNext, InheritTest, InheritWrite, callVars
  <2> QED
    BY <2>1, <2>2, KeepAttach, KeepRoot
<1>3. CASE EndLog(t) \/ InheritEnd(t) \/ YamlEnd(t)
  <2>1. /\ UNCHANGED <<appenders_, reload, fault>> /\ pc[t] # "attach"
        /\ \A u \in Threads \ {t} : pc'[u] = pc[u] /\ op'[u] = op[u]
    BY <1>0, <1>3 DEF EndLog, InheritEnd, YamlEnd, Return, Goto, callVars
  <2> QED
    BY <2>1, KeepAttach, KeepRoot
<1>4. CASE Attach(t)
  <2>1. /\ appenders_' = [appenders_ EXCEPT ![op[t].log] = Append(appenders_[op[t].log], op[t].app)]
        /\ UNCHANGED <<reload, fault>>
        /\ \A u \in Threads \ {t} : pc'[u] = pc[u] /\ op'[u] = op[u]
    BY <1>0, <1>4 DEF Attach, Return, Goto, callVars
  <2>2. CASE op[t].log = Root
    <3>1. appenders_[Root] \in Seq(Appenders) /\ op[t].app \in Appenders
      BY <1>0, <1>4, NullFacts DEF Core, Typed, ThreadFacts, Attach, Ops
    <3>2. appenders_'[Root] = Append(appenders_[Root], op[t].app)
      BY <1>0, <2>1, <2>2 DEF Core, Typed
    <3>3. appenders_'[Root] # <<>>
      BY <3>1, <3>2
    <3> QED
      BY <2>1, <3>3, KeepRoot
  <2>3. CASE op[t].log # Root
    <3>1. appenders_'[Root] = appenders_[Root]
      BY <1>0, <2>1, <2>3 DEF Core, Typed
    <3>2. RootAttach => RootAttach'
      BY <2>1, <2>3 DEF RootAttach
    <3> QED
      BY <2>1, <3>1, <3>2, KeepRoot
  <2> QED
    BY <2>2, <2>3
<1> QED
  BY <1>1, <1>2, <1>3, <1>4

(* The calls of clients.                                                   *)
LEMMA ClientKeepsRoot ==
  ASSUME LoggerInv, RootInv, NEW t \in Threads, ClientCall(t)
  PROVE  RootInv'
<1>0. /\ pc \in [Threads -> Labels] /\ op \in [Threads -> Ops]
      /\ UNCHANGED <<profile, reload, fault>> /\ reload.by # t
  BY DEF LoggerInv, Core, Typed, ClientCall
<1>1. PICK c \in ClientCalls : c.op \in profile.ops /\ Invoke(t, c)
  BY DEF ClientCall
<1>2. CASE Log(t, c.log) \/ ToYamlString(t) \/ AddOwn(t, c.log, c.arg)
  <2>1. UNCHANGED appenders_ /\ \A u \in Threads \ {t} : pc'[u] = pc[u] /\ op'[u] = op[u]
    BY <1>0, <1>2 DEF Log, ToYamlString, AddOwn, AddAppender, Goto
  <2> QED
    BY <1>0, <2>1, KeepAttach, KeepRoot
<1>3. CASE SetFormatter(t, c.log, c.arg)
  <2>1. UNCHANGED appenders_ /\ \A u \in Threads \ {t} : pc'[u] = pc[u] /\ op'[u] = op[u]
    BY <1>0, <1>3 DEF SetFormatter, Goto
  <2> QED
    BY <1>0, <2>1, KeepAttach, KeepRoot
<1>4. CASE GetLogger(t, c.log) \/ SetOwnFormatter(t, c.log, c.arg)
  <2>1. UNCHANGED <<appenders_, pc, op>>
    BY <1>4 DEF GetLogger, SetOwnFormatter
  <2> QED
    BY <1>0, <2>1, KeepAttach, KeepRoot
<1>5. CASE c.op \in {"clear", "del"}
  BY <1>0, <1>1, <1>5, KeepRoot DEF RootDefined
<1> QED
  BY <1>1, <1>2, <1>3, <1>4, <1>5 DEF Invoke

(* A reload begins.                                                        *)
LEMMA ReloadKeepsRoot ==
  ASSUME LoggerInv, RootInv, NEW t \in Threads, NEW new \in profile.configs, Reload(t, new)
  PROVE  RootInv'
<1>1. /\ reload' = [NoReload EXCEPT !.by = t, !.to = new, !.next = "log",
                                     !.left = Changed(doc, new) \cup Gone(doc, new)]
      /\ UNCHANGED <<profile, appenders_, fault>>
      /\ ~Reloading /\ fault = "none"
  BY DEF Reload
<1>2. /\ reload'.by = t /\ reload'.to = new /\ reload'.next = "log"
  BY <1>1 DEF NoReload
<1>3. RootDefined => appenders_[Root] # <<>>
  BY <1>1, NullFacts DEF RootInv, RootWindow, RootAttach, Reloading
<1>4. RootDefined <=> RootDefined'
  BY <1>1 DEF RootDefined
<1> QED
  BY <1>1, <1>2, <1>3, <1>4, NullFacts DEF RootInv, Reloading

(* Between two loggers, and at its end, the listener has given root an     *)
(* appender.                                                               *)
LEMMA RootDone ==
  ASSUME LoggerInv, RootInv, RootDefined, NEW t \in Threads, Between(t)
  PROVE  appenders_[Root] # <<>>
<1>1. pc[t] = "idle" /\ reload.by = t /\ (reload.next = "new" => reload.n \notin DOMAIN Wanted.appenders)
  BY DEF Between, Listening
<1>2. ~RootAttach /\ Reloading
  BY <1>1, NullFacts DEF RootAttach, Reloading
<1>3. ASSUME RootWindow PROVE FALSE
  <2>1. reload.to \in profile.configs
    BY <1>2 DEF RootInv
  <2>2. Root \in DOMAIN reload.to /\ LogDefine(reload.to[Root]).appenders # <<>>
    BY <2>1 DEF RootDefined
  <2>3. Wanted = LogDefine(reload.to[Root])
    BY <1>3, <2>2 DEF Wanted, RootWindow
  <2>4. 1 \notin DOMAIN Wanted.appenders
    BY <1>1, <1>3 DEF RootWindow
  <2> DEFINE as == LogDefine(reload.to[Root]).appenders
  <2>5. as \in Seq({Converted(x) : x \in YamlAppender})
    BY <2>1, <2>2, DefineTypes DEF LoggerInv, Core, Typed
  <2> HIDE DEF as
  <2>6. Len(as) \in Nat /\ DOMAIN as = 1..Len(as) /\ (Len(as) = 0 => as = <<>>)
    BY <2>5, LenProperties, EmptySeq
  <2>7. as # <<>> /\ 1 \notin DOMAIN as
    BY <2>2, <2>3, <2>4 DEF as
  <2>8. Len(as) # 0 /\ Len(as) \in Nat
    BY <2>6, <2>7
  <2>9. 1 \in 1..Len(as)
    <3> DEFINE n == Len(as)
    <3>1. n # 0 /\ n \in Nat
      BY <2>8
    <3> HIDE DEF n
    <3>2. 1 \in 1..n
      BY <3>1
    <3> QED
      BY <3>2 DEF n
  <2> QED
    BY <2>6, <2>7, <2>9
<1> QED
  BY <1>2, <1>3 DEF RootInv

(* The listener's steps.                                                   *)
LEMMA ListenerKeepsRoot ==
  ASSUME LoggerInv, RootInv, UNCHANGED profile, NEW t \in Threads,
         \/ ListenerLog(t) \/ NextLogger(t) \/ ListenerCall(t) \/ ListenerAppender(t) \/ StoreLogs(t)
  PROVE  RootInv'
<1>0. /\ Core /\ ReloadTyped /\ Root \in Loggers /\ NULL \notin Threads
      /\ pc[t] = "idle" /\ reload.by = t /\ Reloading /\ fault = "none" /\ ~RootAttach
  BY NullFacts DEF LoggerInv, ListenerLog, NextLogger, ListenerCall, ListenerAppender, StoreLogs, Between,
                   Listening, Reloading, RootAttach
<1>1. SUFFICES ASSUME RootDefined PROVE RootInv'
  BY DEF RootInv, RootDefined
<1>2. /\ appenders_[Root] = <<>> => RootWindow
      /\ reload.to \in profile.configs
      /\ reload.next \in {"get", "format", "clear"} => reload.n = 1
  BY <1>0, <1>1 DEF RootInv
<1>3. CASE ListenerLog(t)
  <2>1. /\ reload' = [reload EXCEPT !.next = "next"] /\ reload.next = "log"
        /\ UNCHANGED <<appenders_, fault>>
    BY <1>3 DEF ListenerLog, Listening, Log
  <2>2. reload'.next = "next" /\ reload'.by = t /\ reload'.to = reload.to
    BY <1>0, <2>1 DEF ReloadTyped
  <2>3. appenders_'[Root] # <<>>
    BY <1>2, <2>1 DEF RootWindow
  <2> QED
    BY <1>0, <1>2, <2>1, <2>2, <2>3 DEF RootInv, Reloading
<1>4. CASE NextLogger(t)
  <2>1. PICK g \in reload.left :
          reload' = [reload EXCEPT !.left = reload.left \ {g}, !.log = g, !.next = "get", !.n = 1]
    BY <1>0, <1>4 DEF NextLogger, ReloadTyped
  <2>2. UNCHANGED <<appenders_, fault>> /\ Between(t)
    BY <1>4 DEF NextLogger
  <2>3. reload'.next = "get" /\ reload'.n = 1 /\ reload'.by = t /\ reload'.to = reload.to
    BY <1>0, <2>1 DEF ReloadTyped
  <2>4. appenders_'[Root] # <<>>
    BY <1>1, <2>2, RootDone
  <2> QED
    BY <1>0, <1>2, <2>2, <2>3, <2>4 DEF RootInv, Reloading
<1>5. CASE ListenerCall(t)
  <2>1. /\ reload.next \in {"get", "format", "clear"} /\ reload.log \in Loggers
        /\ reload' = [reload EXCEPT !.next = Define(reload.next)] /\ UNCHANGED fault
    BY <1>0, <1>5 DEF ListenerCall, Listening, ReloadTyped
  <2>2. Define(reload.next) \in {"format", "clear", "new"} /\ (Define(reload.next) = "new" <=> reload.next = "clear")
    BY <2>1 DEF Define
  <2>3. /\ reload'.next = Define(reload.next) /\ reload'.n = 1 /\ reload'.by = t
        /\ reload'.to = reload.to /\ reload'.log = reload.log
    BY <1>0, <1>2, <2>1 DEF ReloadTyped
  <2>4. CASE reload.next = "clear"
    <3>1. appenders_' = [appenders_ EXCEPT ![reload.log] = <<>>]
      BY <1>5, <2>4 DEF ListenerCall, ClearAppender
    <3>2. reload.log # Root => appenders_'[Root] # <<>>
      BY <1>0, <1>2, <2>4, <3>1 DEF Core, Typed, RootWindow
    <3>3. reload.log = Root => RootWindow'
      BY <2>2, <2>3, <2>4 DEF RootWindow
    <3> QED
      BY <1>0, <1>2, <2>1, <2>3, <3>2, <3>3 DEF RootInv, Reloading
  <2>5. CASE reload.next # "clear"
    <3>1. UNCHANGED appenders_
      BY <1>5, <2>5 DEF ListenerCall, GetLogger, SetFormatter
    <3>2. appenders_'[Root] # <<>>
      BY <1>2, <2>1, <3>1 DEF RootWindow
    <3> QED
      BY <1>0, <1>2, <2>1, <2>3, <3>2 DEF RootInv, Reloading
  <2> QED
    BY <2>4, <2>5
<1>6. CASE ListenerAppender(t)
  <2>1. /\ reload.next = "new" /\ reload' = [reload EXCEPT !.n = reload.n + 1] /\ UNCHANGED fault
        /\ AddNew(t, reload.log, Wanted.appenders[reload.n])
    BY <1>6 DEF ListenerAppender, Listening
  <2>2. reload'.next = "new" /\ reload'.by = t /\ reload'.to = reload.to
    BY <1>0, <2>1 DEF ReloadTyped
  <2> DEFINE d == Wanted.appenders[reload.n]
             f == IF d.formatter \in Formats THEN d.formatter ELSE NULL
  <2>3. PICK a \in Unused : AddAppender(t, reload.log, a, f) /\ UNCHANGED appenders_
    BY <2>1 DEF AddNew, AddAppender
  <2> HIDE DEF d, f
  <2>4. ASSUME appenders_'[Root] = <<>> PROVE RootAttach'
    <3>1. reload.log = Root
      BY <1>2, <2>3, <2>4 DEF RootWindow
    <3>2. pc'[t] = "attach" /\ op'[t].log = Root
      BY <1>0, <2>3, <3>1, NoOpFacts DEF AddAppender, Goto, Core, Typed, NoOp
    <3> QED
      BY <2>2, <3>2 DEF RootAttach
  <2> QED
    BY <1>0, <1>2, <2>1, <2>2, <2>4 DEF RootInv, Reloading
<1>7. CASE StoreLogs(t)
  <2>1. reload' = NoReload /\ UNCHANGED <<appenders_, fault>> /\ Between(t)
    BY <1>7 DEF StoreLogs
  <2>2. appenders_'[Root] # <<>>
    BY <1>1, <2>1, RootDone
  <2>3. NoReload.by = NULL /\ NoReload.next = "none"
    BY DEF NoReload
  <2> QED
    BY <1>0, <2>1, <2>2, <2>3 DEF RootInv, Reloading
<1> QED
  BY <1>3, <1>4, <1>5, <1>6, <1>7

(* NoFault: Log finds no null formatter_ in an appender that was           *)
(* configured before it was attached, for while AddAppender holds the lock *)
(* of the logger the appender is in no list.  It finds root without        *)
(* appenders, and so its null root_, never where root keeps them, and      *)
(* where the documents define root only while the listener is between its  *)
(* ClearAppender and its first AddAppender: that one takes root's lock     *)
(* before Log can, or waits until Log has aborted.                         *)
THEOREM NoFaultTheorem == Spec => []NoFault
<1>1. Init => RootInv
  <2> SUFFICES ASSUME Init PROVE RootInv
    OBVIOUS
  <2>1. appenders_[Root] # <<>>
    BY NullFacts DEF Init
  <2>2. reload.by = NULL /\ reload.next = "none" /\ fault = "none"
    BY DEF Init, NoReload
  <2> QED
    BY <2>1, <2>2 DEF RootInv, Reloading
<1>2. LoggerInv /\ RootInv /\ [Next]_vars => RootInv'
  <2> SUFFICES ASSUME LoggerInv, RootInv, [Next]_vars PROVE RootInv'
    OBVIOUS
  <2>1. UNCHANGED profile
    BY DEF Next, Step, ClientCall, Reload, vars
  <2>2. ASSUME NEW t \in Threads, Step(t) PROVE RootInv'
    BY <2>1, <2>2, BegunKeepsRoot, ListenerKeepsRoot DEF Step
  <2>3. ASSUME NEW t \in Threads, ClientCall(t) PROVE RootInv'
    BY <2>3, ClientKeepsRoot
  <2>4. ASSUME NEW t \in Threads, NEW new \in profile.configs, Reload(t, new) PROVE RootInv'
    BY <2>4, ReloadKeepsRoot
  <2>5. CASE UNCHANGED vars
    <3>1. UNCHANGED <<appenders_, pc, op, reload, fault>>
      BY <2>5 DEF vars
    <3> QED
      BY <2>1, <3>1, KeepRoot DEF RootAttach
  <2> QED
    BY <2>2, <2>3, <2>4, <2>5 DEF Next
<1>3. LoggerInv /\ RootInv => NoFault
  BY DEF LoggerInv, FaultFacts, RootInv, NoFault
<1> QED
  BY <1>1, <1>2, <1>3, LoggerInvariant, PTL DEF Spec

-----------------------------------------------------------------------------
(* A step that does nothing to the loggers but create some, and attaches   *)
(* nothing.                                                                *)
LEMMA KeepLogs ==
  ASSUME LogsInv, NEW t \in Threads, reload.by \in Threads \cup {NULL}, NULL \notin Threads,
         UNCHANGED <<profile, appenders_, formatter_, own, filename_, reload, doc>>,
         loggers_ \subseteq loggers_',
         \A u \in Threads \ {t} : pc'[u] = pc[u] /\ op'[u] = op[u],
         pc[t] # "attach", pc'[t] # "attach",
         pc'[t] \in {"inherit", "inheritwrite"} =>
           pc[t] \in {"inherit", "inheritwrite"} /\ op'[t].log = op[t].log
  PROVE  LogsInv'
<1>1. OnlyListener'
  BY DEF LogsInv, OnlyListener
<1>2. \A g, d : Applied(g, d) => Applied(g, d)'
  BY DEF Applied, Made
<1>3. UNCHANGED Wanted
  BY DEF Wanted
<1>4. ASSUME Reloading PROVE UNCHANGED Pending
  BY <1>4 DEF Pending, Reloading
<1>5. Reloading /\ ListenerFacts => ListenerFacts'
  BY <1>2, <1>3, <1>4 DEF ListenerFacts, Made
<1> QED
  BY <1>1, <1>2, <1>5 DEF LogsInv, Reloading

(* The steps of what a thread has begun.                                   *)
LEMMA BegunKeepsLogs ==
  ASSUME LoggerInv, LogsInv, UNCHANGED profile, NEW t \in Threads,
         \/ LogRoot(t) \/ Emit(t) \/ EndLog(t) \/ Attach(t)
         \/ InheritTest(t) \/ InheritWrite(t) \/ InheritEnd(t) \/ YamlNext(t) \/ YamlEnd(t)
  PROVE  LogsInv'
<1>0. /\ Core /\ ThreadFacts(t) /\ NULL \notin Threads /\ reload.by \in Threads \cup {NULL}
      /\ pc \in [Threads -> Labels] /\ op \in [Threads -> Ops]
  BY NullFacts DEF LoggerInv, Core, Typed, ReloadTyped
<1>1. CASE LogRoot(t)
  <2>1. /\ UNCHANGED <<appenders_, formatter_, own, filename_, loggers_, reload, doc>>
        /\ \A u \in Threads \ {t} : pc'[u] = pc[u] /\ op'[u] = op[u]
        /\ pc'[t] \in {"root", "log"} /\ pc[t] = "root"
    BY <1>0, <1>1 DEF LogRoot, Abort, Goto, callVars, appenderVars
  <2> QED
    BY <1>0, <2>1, KeepLogs
<1>2. CASE Emit(t)
  <2>1. /\ UNCHANGED <<appenders_, formatter_, own, filename_, loggers_, reload, doc>>
        /\ \A u \in Threads \ {t} : pc'[u] = pc[u] /\ op'[u] = op[u]
        /\ pc'[t] = "log" /\ pc[t] = "log"
    BY <1>0, <1>2 DEF Emit, appenderVars
  <2> QED
    BY <1>0, <2>1, KeepLogs
<1>3. CASE EndLog(t) \/ InheritEnd(t) \/ YamlEnd(t)
  <2>1. /\ UNCHANGED <<appenders_, formatter_, own, filename_, loggers_, reload, doc>>
        /\ \A u \in Threads \ {t} : pc'[u] = pc[u] /\ op'[u] = op[u]
        /\ pc'[t] = "idle" /\ pc[t] # "attach"
    BY <1>0, <1>3 DEF EndLog, InheritEnd, YamlEnd, Return, Goto, callVars, appenderVars
  <2> QED
    BY <1>0, <2>1, KeepLogs
<1>4. CASE InheritTest(t)
  <2>1. /\ UNCHANGED <<appenders_, formatter_, own, filename_, loggers_, reload, doc>>
        /\ \A u \in Threads \ {t} : pc'[u] = pc[u] /\ op'[u] = op[u]
        /\ pc'[t] \in {"inherit", "inheritwrite"} /\ pc[t] = "inherit" /\ op'[t].log = op[t].log
    BY <1>0, <1>4 DEF InheritTest, Goto, callVars, appenderVars, Ops
  <2> QED
    BY <1>0, <2>1, KeepLogs
<1>5. CASE InheritWrite(t)
  <2>1. /\ UNCHANGED <<appenders_, formatter_, own, filename_, loggers_, reload, doc>>
        /\ \A u \in Threads \ {t} : pc'[u] = pc[u] /\ op'[u] = op[u]
        /\ pc'[t] = "inherit" /\ pc[t] = "inheritwrite" /\ op'[t].log = op[t].log
    BY <1>0, <1>5 DEF InheritWrite, Goto, callVars, Ops
  <2> QED
    BY <1>0, <2>1, KeepLogs
<1>6. CASE YamlNext(t)
  <2>1. /\ UNCHANGED <<appenders_, formatter_, own, filename_, loggers_, reload, doc>>
        /\ \A u \in Threads \ {t} : pc'[u] = pc[u] /\ op'[u] = op[u]
        /\ pc'[t] = "yaml" /\ pc[t] = "yaml"
    BY <1>0, <1>6 DEF YamlNext, callVars, appenderVars
  <2> QED
    BY <1>0, <2>1, KeepLogs
<1>7. CASE Attach(t)
  <2> DEFINE g == reload.log
  <2>1. /\ pc[t] = "attach" /\ reload.by = t /\ op[t].log = g /\ g \in Loggers /\ reload.next = "new"
        /\ Reloading /\ ListenerFacts
    BY <1>0, <1>7 DEF Attach, LogsInv, OnlyListener, ThreadFacts, Reloading
  <2>2. /\ appenders_' = [appenders_ EXCEPT ![g] = Append(appenders_[g], op[t].app)]
        /\ pc' = [pc EXCEPT ![t] = "idle"] /\ op' = [op EXCEPT ![t] = NoOp]
        /\ UNCHANGED <<loggers_, formatter_, own, filename_, reload, doc>>
    BY <1>7, <2>1 DEF Attach, Return, Goto, callVars
  <2>3. Pending' = Pending /\ \A h \in Loggers \ {g} : appenders_'[h] = appenders_[h]
    BY <1>0, <2>1, <2>2 DEF Pending, Core, Typed
  <2>4. DOMAIN reload.to \subseteq Loggers
    BY DocumentFacts DEF LoggerInv, Core, Typed, ReloadTyped
  <2>5. \A h \in DOMAIN reload.to \ {g} : Applied(h, LogDefine(reload.to[h])) => Applied(h, LogDefine(reload.to[h]))'
    BY <2>2, <2>3, <2>4 DEF Applied, Made
  <2>6. UNCHANGED Wanted
    BY <2>2 DEF Wanted
  <2>7. ListenerFacts'
    BY <2>1, <2>2, <2>3, <2>5, <2>6 DEF ListenerFacts, Made
  <2>8. OnlyListener'
    BY <1>0, <2>2 DEF LogsInv, OnlyListener
  <2> QED
    BY <2>1, <2>2, <2>7, <2>8 DEF LogsInv, Reloading
<1> QED
  BY <1>1, <1>2, <1>3, <1>4, <1>5, <1>6, <1>7

(* The calls of clients that leave the loggers to the configuration.       *)
LEMMA ClientKeepsLogs ==
  ASSUME LoggerInv, LogsInv, Managed, NEW t \in Threads, ClientCall(t)
  PROVE  LogsInv'
<1>0. /\ Core /\ NULL \notin Threads /\ reload.by \in Threads \cup {NULL}
      /\ pc \in [Threads -> Labels] /\ op \in [Threads -> Ops] /\ pc[t] = "idle"
      /\ UNCHANGED <<profile, reload, doc>>
  BY NullFacts DEF LoggerInv, Core, Typed, ReloadTyped, ClientCall
<1>1. PICK c \in ClientCalls : c.op \in {"log", "get", "yaml"} /\ Invoke(t, c)
  <2>1. PICK c \in ClientCalls : c.op \in profile.ops /\ Invoke(t, c)
    BY DEF ClientCall
  <2> QED
    BY <2>1 DEF Managed, Invoke
<1>2. CASE Log(t, c.log)
  <2>1. /\ UNCHANGED <<appenders_, formatter_, own, filename_, loggers_>>
        /\ \A u \in Threads \ {t} : pc'[u] = pc[u] /\ op'[u] = op[u]
        /\ pc'[t] \in {"root", "log"}
    BY <1>0, <1>2 DEF Log, Goto, appenderVars
  <2> QED
    BY <1>0, <2>1, KeepLogs
<1>3. CASE GetLogger(t, c.log)
  <2>1. /\ UNCHANGED <<appenders_, formatter_, own, filename_, pc, op>> /\ loggers_ \subseteq loggers_'
    BY <1>3 DEF GetLogger, appenderVars
  <2> QED
    BY <1>0, <2>1, KeepLogs
<1>4. CASE ToYamlString(t)
  <2>1. /\ UNCHANGED <<appenders_, formatter_, own, filename_, loggers_>>
        /\ \A u \in Threads \ {t} : pc'[u] = pc[u] /\ op'[u] = op[u]
        /\ pc'[t] = "yaml"
    BY <1>0, <1>4 DEF ToYamlString, Goto, appenderVars
  <2> QED
    BY <1>0, <2>1, KeepLogs
<1> QED
  BY <1>1, <1>2, <1>3, <1>4 DEF Invoke

(* A reload begins: what has not changed is applied already.               *)
LEMMA ReloadKeepsLogs ==
  ASSUME LoggerInv, LogsInv, NEW t \in Threads, NEW new \in profile.configs, Reload(t, new)
  PROVE  LogsInv'
<1>1. /\ reload' = [NoReload EXCEPT !.by = t, !.to = new, !.next = "log",
                                     !.left = Changed(doc, new) \cup Gone(doc, new)]
      /\ UNCHANGED <<profile, loggers_, appenders_, formatter_, own, filename_, pc, op, doc>>
      /\ ~Reloading /\ pc[t] = "idle"
  BY DEF Reload, appenderVars
<1>2. /\ reload'.by = t /\ reload'.to = new /\ reload'.next = "log" /\ reload'.log = NULL /\ reload'.n = 1
      /\ reload'.left = Changed(doc, new) \cup Gone(doc, new)
  BY <1>1 DEF NoReload
<1>3. ASSUME NEW g \in DOMAIN new \ reload'.left PROVE Applied(g, LogDefine(new[g]))
  <2>1. g \in DOMAIN doc /\ LogDefine(doc[g]) = LogDefine(new[g])
    BY <1>2 DEF Changed
  <2> QED
    BY <1>1, <2>1 DEF LogsInv
<1>4. \A g, d : Applied(g, d) => Applied(g, d)'
  BY <1>1 DEF Applied, Made
<1>5. OnlyListener'
  BY <1>1, NullFacts DEF LogsInv, OnlyListener, Reloading
<1>6. ListenerFacts' /\ Reloading'
  BY <1>1, <1>2, <1>3, <1>4, NullFacts DEF ListenerFacts, Reloading
<1> QED
  BY <1>5, <1>6 DEF LogsInv

(* The listener's steps.                                                   *)
LEMMA ListenerKeepsLogs ==
  ASSUME LoggerInv, LogsInv, UNCHANGED profile, NEW t \in Threads,
         \/ ListenerLog(t) \/ NextLogger(t) \/ ListenerCall(t) \/ ListenerAppender(t) \/ StoreLogs(t)
  PROVE  LogsInv'
<1>0. /\ Core /\ ReloadTyped /\ NULL \notin Threads /\ NULL \notin Loggers
      /\ pc[t] = "idle" /\ reload.by = t /\ Reloading /\ ListenerFacts
      /\ DOMAIN reload.to \subseteq Loggers
  <2>1. pc[t] = "idle" /\ reload.by = t
    BY DEF ListenerLog, NextLogger, ListenerCall, ListenerAppender, StoreLogs, Between, Listening
  <2>2. DOMAIN reload.to \subseteq Loggers
    BY DocumentFacts DEF LoggerInv, Core, Typed, ReloadTyped
  <2> QED
    BY <2>1, <2>2, NullFacts DEF LoggerInv, LogsInv, Reloading
<1>1. Len(Wanted.appenders) \in Nat /\ DOMAIN Wanted.appenders = 1..Len(Wanted.appenders)
      /\ \A i \in DOMAIN Wanted.appenders : Wanted.appenders[i].formatter = NULL
  BY <1>0, WantedFacts DEF ListenerFacts
<1>2. \A u \in Threads : pc[u] \notin {"attach", "inherit", "inheritwrite"}
  BY <1>0 DEF LogsInv, OnlyListener
<1>3. Pending = appenders_[reload.log]
  BY <1>0 DEF Pending
<1>4. \A g \in Loggers : appenders_[g] \in Seq(Appenders)
  BY <1>0 DEF Core, Typed
<1>5. CASE ListenerLog(t)
  <2>1. /\ reload' = [reload EXCEPT !.next = "next"] /\ reload.next = "log"
        /\ UNCHANGED <<loggers_, appenders_, formatter_, own, filename_, doc>>
        /\ \A u \in Threads : pc'[u] \notin {"attach", "inherit", "inheritwrite"}
    BY <1>0, <1>2, <1>5 DEF ListenerLog, Listening, Log, Goto, appenderVars, Core, Typed
  <2>2. reload'.by = t /\ reload'.to = reload.to /\ reload'.left = reload.left /\ reload'.log = reload.log
        /\ reload'.next = "next" /\ reload'.n = reload.n
    BY <1>0, <2>1 DEF ReloadTyped
  <2>3. \A g, d : Applied(g, d) => Applied(g, d)'
    BY <2>1 DEF Applied, Made
  <2>4. ListenerFacts'
    BY <1>0, <2>1, <2>2, <2>3 DEF ListenerFacts
  <2> QED
    BY <1>0, <2>1, <2>2, <2>4 DEF LogsInv, OnlyListener, Reloading
<1>6. ASSUME Between(t), reload.log \in DOMAIN reload.to
      PROVE  Applied(reload.log, LogDefine(reload.to[reload.log]))
  <2>1. reload.next = "new" /\ reload.n \notin DOMAIN Wanted.appenders
    BY <1>0, <1>6 DEF Between, Listening, ListenerFacts
  <2>2. reload.n - 1 = Len(Wanted.appenders)
    BY <1>0, <1>1, <2>1 DEF ListenerFacts
  <2>3. Wanted = LogDefine(reload.to[reload.log])
    BY <1>6 DEF Wanted
  <2> QED
    BY <1>0, <1>1, <1>3, <2>1, <2>2, <2>3 DEF ListenerFacts, Applied
<1>7. CASE NextLogger(t)
  <2>1. PICK g \in reload.left :
          reload' = [reload EXCEPT !.left = reload.left \ {g}, !.log = g, !.next = "get", !.n = 1]
    BY <1>0, <1>7 DEF NextLogger, ReloadTyped
  <2>2. UNCHANGED <<loggers_, appenders_, formatter_, own, filename_, pc, op, doc>> /\ Between(t)
    BY <1>7 DEF NextLogger, appenderVars
  <2>3. reload'.by = t /\ reload'.to = reload.to /\ reload'.left = reload.left \ {g} /\ reload'.log = g
        /\ reload'.next = "get" /\ reload'.n = 1
    BY <1>0, <2>1 DEF ReloadTyped
  <2>4. \A h, d : Applied(h, d) => Applied(h, d)'
    BY <2>2 DEF Applied, Made
  <2>5. \A h \in DOMAIN reload.to \ (reload'.left \cup {g}) : Applied(h, LogDefine(reload.to[h]))
    BY <1>0, <1>6, <2>2, <2>3 DEF ListenerFacts
  <2>6. ListenerFacts'
    BY <1>0, <2>3, <2>4, <2>5 DEF ListenerFacts
  <2> QED
    BY <1>0, <1>2, <2>2, <2>3, <2>6 DEF LogsInv, OnlyListener, Reloading
<1>8. CASE ListenerCall(t)
  <2> DEFINE g == reload.log
  <2>1. /\ reload.next \in {"get", "format", "clear"} /\ g \in Loggers
        /\ reload' = [reload EXCEPT !.next = Define(reload.next)] /\ UNCHANGED doc
    BY <1>0, <1>8 DEF ListenerCall, Listening, ReloadTyped
  <2>2. reload'.by = t /\ reload'.to = reload.to /\ reload'.left = reload.left /\ reload'.log = g
        /\ reload'.next = Define(reload.next) /\ reload'.n = 1
    BY <1>0, <2>1 DEF ReloadTyped, ListenerFacts
  <2>3. UNCHANGED Wanted
    BY <2>2 DEF Wanted
  <2>4. ASSUME /\ \A h \in Loggers \ {g} : appenders_'[h] = appenders_[h] /\ formatter_'[h] = formatter_[h]
               /\ UNCHANGED <<own, filename_>> /\ loggers_ \subseteq loggers_'
        PROVE  \A h \in DOMAIN reload.to \ (reload.left \cup {g}) : Applied(h, LogDefine(reload.to[h]))'
    BY <1>0, <2>2, <2>4 DEF ListenerFacts, Applied, Made
  <2>5. CASE reload.next = "get" /\ GetLogger(t, g)
    <3>1. loggers_' = loggers_ \cup {g} /\ UNCHANGED <<appenders_, formatter_, own, filename_, pc, op>>
      BY <2>5 DEF GetLogger, appenderVars
    <3>2. reload'.next = IF Wanted.formatter = NULL THEN "clear" ELSE "format"
      BY <2>2, <2>5 DEF Define
    <3>3. ListenerFacts'
      BY <1>0, <2>2, <2>3, <2>4, <3>1, <3>2, NullFacts DEF ListenerFacts
    <3> QED
      BY <1>0, <1>2, <2>2, <3>1, <3>3 DEF LogsInv, OnlyListener, Reloading
  <2>6. CASE reload.next = "format" /\ SetFormatter(t, g, Wanted.formatter)
    <3>1. reload'.next = "clear" /\ g \in loggers_
      BY <1>0, <2>2, <2>6 DEF Define, ListenerFacts
    <3>2. /\ UNCHANGED <<loggers_, appenders_, own, filename_>>
          /\ \A u \in Threads \ {t} : pc'[u] = pc[u] /\ op'[u] = op[u]
          /\ pc'[t] = "idle" \/ (pc'[t] = "inherit" /\ op'[t].log = g)
          /\ Wanted.formatter \in Formats => formatter_'[g] = Wanted.formatter
          /\ \A h \in Loggers \ {g} : formatter_'[h] = formatter_[h]
      <4>1. CASE Accepted(Wanted.formatter)
        <5>1. formatter_' = [formatter_ EXCEPT ![g] = Wanted.formatter]
              /\ pc' = [pc EXCEPT ![t] = "inherit"]
              /\ op' = [op EXCEPT ![t] = [NoOp EXCEPT !.log = g, !.todo = appenders_[g]]]
              /\ UNCHANGED <<loggers_, appenders_, own, filename_>>
          BY <2>6, <4>1 DEF SetFormatter, Goto, appenderVars
        <5>2. [NoOp EXCEPT !.log = g, !.todo = appenders_[g]].log = g
          BY DEF NoOp
        <5> QED
          BY <1>0, <2>1, <5>1, <5>2 DEF Core, Typed
      <4>2. CASE ~Accepted(Wanted.formatter)
        BY <1>0, <2>6, <4>2 DEF SetFormatter, Accepted, appenderVars
      <4> QED
        BY <4>1, <4>2
    <3>3. ListenerFacts'
      BY <1>0, <2>2, <2>3, <2>4, <3>1, <3>2 DEF ListenerFacts
    <3>4. OnlyListener'
      BY <1>0, <1>2, <2>2, <3>1, <3>2 DEF OnlyListener
    <3> QED
      BY <1>0, <2>2, <3>3, <3>4 DEF LogsInv, Reloading
  <2>7. CASE reload.next = "clear" /\ ClearAppender(t, g)
    <3>1. /\ appenders_' = [appenders_ EXCEPT ![g] = <<>>]
          /\ UNCHANGED <<loggers_, formatter_, own, filename_, pc, op>>
      BY <2>7 DEF ClearAppender, appenderVars
    <3>2. reload'.next = "new" /\ g \in loggers_
      BY <1>0, <2>2, <2>7 DEF Define, ListenerFacts
    <3>3. appenders_'[g] = <<>> /\ \A h \in Loggers \ {g} : appenders_'[h] = appenders_[h]
      BY <1>0, <2>1, <3>1 DEF Core, Typed
    <3>4. Pending' = <<>> /\ Len(<<>>) = 0 /\ 1 \in 1..Len(Wanted.appenders) + 1
      BY <1>0, <1>1, <2>2, <3>1, <3>3, EmptySeq DEF Pending
    <3>5. ListenerFacts'
      BY <1>0, <2>2, <2>3, <2>4, <2>7, <3>1, <3>2, <3>3, <3>4 DEF ListenerFacts
    <3> QED
      BY <1>0, <1>2, <2>2, <3>1, <3>5 DEF LogsInv, OnlyListener, Reloading
  <2> QED
    BY <1>8, <2>5, <2>6, <2>7 DEF ListenerCall
<1>9. CASE ListenerAppender(t)
  <2> DEFINE g == reload.log
             d == Wanted.appenders[reload.n]
             f == IF d.formatter \in Formats THEN d.formatter ELSE NULL
  <2>1. /\ reload.next = "new" /\ g \in Loggers /\ reload.n \in DOMAIN Wanted.appenders
        /\ reload' = [reload EXCEPT !.n = reload.n + 1] /\ UNCHANGED doc
    BY <1>0, <1>9 DEF ListenerAppender, Listening, ReloadTyped
  <2>2. reload'.by = t /\ reload'.to = reload.to /\ reload'.left = reload.left /\ reload'.log = g
        /\ reload'.next = "new" /\ reload'.n = reload.n + 1
    BY <1>0, <2>1 DEF ReloadTyped
  <2>3. UNCHANGED Wanted
    BY <2>2, ZenonT(30) DEF Wanted
  <2>4. PICK a \in Unused :
          /\ AddAppender(t, g, a, f)
          /\ own' = [own EXCEPT ![a] = f]
          /\ filename_' = [filename_ EXCEPT ![a] = IF d.type = "file" THEN d.file ELSE NULL]
    BY <1>9 DEF ListenerAppender, AddNew
  <2>5. f = d.formatter
    BY <1>1, <2>1
  <2> DEFINE o == [NoOp EXCEPT !.log = g, !.app = a, !.need = (f = NULL)]
  <2>6. o.log = g /\ o.app = a
    BY DEF NoOp
  <2>7. /\ op' = [op EXCEPT ![t] = o] /\ pc' = [pc EXCEPT ![t] = "attach"]
        /\ UNCHANGED <<loggers_, appenders_, formatter_>>
    BY <2>4 DEF AddAppender, Goto
  <2>8. a \in Appenders /\ \A h \in Loggers : a \notin ToSet(appenders_[h])
    BY DEF Unused, Appenders, Attached
  <2> DEFINE M(b, e) == own'[b] = e.formatter /\ (e.type = "file" => filename_'[b] = e.file)
  <2>9. M(a, d)
    BY <1>0, <2>4, <2>5, <2>8 DEF Core, Typed
  <2> HIDE DEF d, f, o
  <2>10. \A b \in Appenders \ {a} : own'[b] = own[b] /\ filename_'[b] = filename_[b]
    BY <1>0, <2>4, <2>8 DEF Core, Typed
  <2>11. ASSUME NEW h \in Loggers, NEW i \in 1..Len(appenders_[h])
         PROVE  appenders_[h][i] \in Appenders \ {a}
    BY <1>4, <2>8, LenProperties DEF ToSet
  <2>12. \A h \in Loggers : \A i \in 1..Len(appenders_[h]) : \A e :
           Made(appenders_[h][i], e) => M(appenders_[h][i], e)
    BY <2>10, <2>11 DEF Made
  <2> HIDE DEF M
  <2>13. ASSUME NEW h \in DOMAIN reload.to \ (reload.left \cup {g})
         PROVE  Applied(h, LogDefine(reload.to[h]))'
    <3>1. Applied(h, LogDefine(reload.to[h])) /\ h \in Loggers
      BY <1>0, <2>13 DEF ListenerFacts
    <3>2. DOMAIN LogDefine(reload.to[h]).appenders = 1..Len(LogDefine(reload.to[h]).appenders)
      BY <1>0, <2>13, DefineFacts DEF ListenerFacts, Core, Typed
    <3>3. Len(appenders_[h]) = Len(LogDefine(reload.to[h]).appenders)
      BY <3>1 DEF Applied
    <3>4. \A i \in DOMAIN LogDefine(reload.to[h]).appenders :
            M(appenders_[h][i], LogDefine(reload.to[h]).appenders[i])
      BY <2>12, <3>1, <3>2, <3>3 DEF Applied
    <3> QED
      BY <2>2, <2>7, <3>1, <3>4 DEF Applied, Made, M
  <2>14. /\ Pending' = Append(appenders_[g], a)
         /\ Len(appenders_[g]) = reload.n - 1 /\ reload.n \in 1..Len(Wanted.appenders)
         /\ \A i \in 1..reload.n - 1 : Made(appenders_[g][i], Wanted.appenders[i])
    <3>1. op'[t] = o /\ pc'[t] = "attach"
      BY <1>0, <2>7 DEF Core, Typed
    <3> QED
      BY <1>0, <1>1, <1>3, <2>1, <2>2, <2>6, <2>7, <3>1 DEF ListenerFacts, Pending
  <2>15. /\ Len(Append(appenders_[g], a)) = reload.n
         /\ \A i \in 1..reload.n - 1 : Append(appenders_[g], a)[i] = appenders_[g][i]
         /\ Append(appenders_[g], a)[reload.n] = a
    BY <1>4, <2>1, <2>8, <2>14, AppendProperties
  <2>16. \A i \in 1..reload.n : M(Append(appenders_[g], a)[i], Wanted.appenders[i])
    <3>1. \A i \in 1..reload.n - 1 : M(appenders_[g][i], Wanted.appenders[i])
      BY <2>1, <2>12, <2>14
    <3>2. M(a, Wanted.appenders[reload.n])
      BY <2>9 DEF d
    <3> QED
      BY <1>1, <2>14, <2>15, <3>1, <3>2
  <2>17. ListenerFacts'
    <3>1. (reload.next = "new" /\ reload.to \in profile.configs /\ reload.log \in loggers_)'
      BY <1>0, <2>1, <2>2, <2>7 DEF ListenerFacts
    <3>2. (\A h \in DOMAIN reload.to \ (reload.left \cup {reload.log}) : Applied(h, LogDefine(reload.to[h])))'
      <4>1. \A h \in DOMAIN reload.to \ (reload.left \cup {g}) : Applied(h, LogDefine(reload.to[h]))'
        BY <2>13
      <4> QED
        BY <2>2, <4>1
    <3>3. (Wanted.formatter \in Formats => formatter_[reload.log] = Wanted.formatter)'
      BY <1>0, <2>1, <2>2, <2>3, <2>7 DEF ListenerFacts
    <3>4. (reload.n \in 1..Len(Wanted.appenders) + 1 /\ Len(Pending) = reload.n - 1)'
      BY <2>2, <2>3, <2>14, <2>15, LenProperties
    <3>5. (\A i \in 1..reload.n - 1 : Made(Pending[i], Wanted.appenders[i]))'
      <4>1. reload'.n - 1 = reload.n
        BY <2>2, <2>14
      <4> QED
        BY <2>3, <2>14, <2>16, <4>1 DEF Made, M
    <3> QED
      BY <3>1, <3>2, <3>3, <3>4, <3>5 DEF ListenerFacts
  <2>18. OnlyListener'
    BY <1>0, <1>2, <2>2, <2>6, <2>7 DEF OnlyListener, Core, Typed
  <2> QED
    BY <1>0, <2>2, <2>17, <2>18 DEF LogsInv, Reloading
<1>10. CASE StoreLogs(t)
  <2>1. /\ doc' = reload.to /\ reload' = NoReload /\ reload.left = {} /\ Between(t)
        /\ UNCHANGED <<loggers_, appenders_, formatter_, own, filename_, pc, op>>
    BY <1>10 DEF StoreLogs, appenderVars
  <2>2. \A g \in DOMAIN reload.to : Applied(g, LogDefine(reload.to[g]))
    BY <1>0, <1>6, <2>1 DEF ListenerFacts
  <2>3. \A g, d : Applied(g, d) => Applied(g, d)'
    BY <2>1 DEF Applied, Made
  <2>4. ~Reloading'
    BY <2>1 DEF Reloading, NoReload
  <2> QED
    BY <1>2, <2>1, <2>2, <2>3, <2>4 DEF LogsInv, OnlyListener
<1> QED
  BY <1>5, <1>7, <1>8, <1>9, <1>10

(* When "logs" has been set, its loggers are as its document says: the     *)
(* listener leaves out only those whose definition has not changed, and    *)
(* what other threads do meanwhile does not undo what it has done.         *)
THEOREM ConfigAppliedTheorem == Spec => []ConfigApplied
<1> DEFINE I == LoggerInv /\ (Managed => LogsInv)
<1>1. Init => LogsInv
  <2> SUFFICES ASSUME Init PROVE LogsInv
    OBVIOUS
  <2>1. DOMAIN doc = {} /\ reload.by = NULL /\ \A t \in Threads : pc[t] = "idle"
    BY EmptySeq DEF Init, NoReload
  <2> QED
    BY <2>1 DEF LogsInv, OnlyListener, Reloading
<1>2. LoggerInv /\ (Managed => LogsInv) /\ [Next]_vars => (Managed => LogsInv)'
  <2> SUFFICES ASSUME LoggerInv, Managed => LogsInv, [Next]_vars, Managed' PROVE LogsInv'
    OBVIOUS
  <2>1. UNCHANGED profile
    BY DEF Next, Step, ClientCall, Reload, vars
  <2>2. Managed /\ LogsInv
    BY <2>1 DEF Managed
  <2>3. ASSUME NEW t \in Threads, Step(t) PROVE LogsInv'
    BY <2>2, <2>3, BegunKeepsLogs, ListenerKeepsLogs DEF Step
  <2>4. ASSUME NEW t \in Threads, ClientCall(t) PROVE LogsInv'
    BY <2>2, <2>4, ClientKeepsLogs
  <2>5. ASSUME NEW t \in Threads, NEW new \in profile.configs, Reload(t, new) PROVE LogsInv'
    BY <2>2, <2>5, ReloadKeepsLogs
  <2>6. CASE UNCHANGED vars
    <3>1. UNCHANGED <<loggers_, appenders_, formatter_, own, filename_, pc, op, reload, doc>>
      BY <2>6 DEF vars, appenderVars
    <3>2. \A g, d : Applied(g, d) => Applied(g, d)'
      BY <3>1 DEF Applied, Made
    <3>3. Wanted' = Wanted /\ Pending' = Pending
      BY <3>1 DEF Wanted, Pending
    <3>4. ListenerFacts => ListenerFacts'
      <4>1. UNCHANGED <<profile, loggers_, formatter_, own, filename_, reload>>
        BY <2>1, <3>1
      <4> QED
        BY <3>2, <3>3, <4>1 DEF ListenerFacts, Made
    <3> QED
      BY <2>2, <3>1, <3>2, <3>4 DEF LogsInv, OnlyListener, Reloading
  <2> QED
    BY <2>3, <2>4, <2>5, <2>6 DEF Next
<1>3. (Managed => LogsInv) => ConfigApplied
  BY DEF LogsInv, ConfigApplied
<1> QED
  BY <1>1, <1>2, <1>3, LoggerInvariant, PTL DEF Spec
-----------------------------------------------------------------------------
(* The types of what the facts above do not speak of.                      *)
RestTyped ==
  /\ filename_ \in [Appenders -> Files \cup Patterns \cup {NULL}]
  /\ mgr \in Threads \cup {NULL}
  /\ calls \in 0..MaxCalls
  /\ fault \in {"none", "null root", "null formatter"}

(* The listener writes to a file name of the new document, or to one of    *)
(* its patterns.                                                           *)
LEMMA FilenameStep ==
  ASSUME LoggerInv, RestTyped, NEW t \in Threads, ListenerAppender(t)
  PROVE  filename_' \in [Appenders -> Files \cup Patterns \cup {NULL}]
<1>1. reload.n \in DOMAIN Wanted.appenders /\ AddNew(t, reload.log, Wanted.appenders[reload.n])
  BY DEF ListenerAppender
<1> DEFINE d == Wanted.appenders[reload.n]
<1>2. d.file \in Files \cup Patterns \cup {NULL}
  <2>1. CASE reload.to \in profile.configs
    BY <1>1, <2>1, WantedFacts
  <2>2. CASE reload.to = <<>>
    <3>1. DOMAIN reload.to = {} /\ DOMAIN <<>> = {}
      BY <2>2, EmptySeq
    <3>2. Wanted.appenders = <<>>
      BY <3>1 DEF Wanted
    <3> QED
      BY <1>1, <3>1, <3>2
  <2> QED
    BY <2>1, <2>2 DEF LoggerInv, ReloadTyped, Documents
<1> HIDE DEF d
<1>3. PICK a \in Unused : filename_' = [filename_ EXCEPT ![a] = IF d.type = "file" THEN d.file ELSE NULL]
  BY <1>1 DEF AddNew, d
<1>4. (IF d.type = "file" THEN d.file ELSE NULL) \in Files \cup Patterns \cup {NULL}
  BY <1>2
<1> QED
  BY <1>3, <1>4 DEF RestTyped

(* Type correctness, for every profile of clients.                         *)
THEOREM LoggerTypes == Spec => []TypeOK
<1>1. Init => RestTyped
  BY LoggerAssumption DEF Init, RestTyped
<1>2. LoggerInv /\ RestTyped /\ [Next]_vars => RestTyped'
  <2> SUFFICES ASSUME LoggerInv, RestTyped, [Next]_vars PROVE RestTyped'
    OBVIOUS
  <2>0. MaxCalls \in Nat
    BY LoggerAssumption
  <2>1. ASSUME calls < MaxCalls PROVE calls + 1 \in 0..MaxCalls
    <3>1. calls \in 0..MaxCalls
      BY DEF RestTyped
    <3> QED
      BY <2>0, <2>1, <3>1
  <2>2. ASSUME NEW t \in Threads, LogRoot(t) \/ Emit(t) \/ EndLog(t) \/ Attach(t) PROVE RestTyped'
    BY <2>2 DEF RestTyped, LogRoot, Emit, EndLog, Attach, Abort, appenderVars, callVars
  <2>3. ASSUME NEW t \in Threads,
               InheritTest(t) \/ InheritWrite(t) \/ InheritEnd(t) \/ YamlNext(t) \/ YamlEnd(t)
        PROVE  RestTyped'
    BY <2>3 DEF RestTyped, InheritTest, InheritWrite, InheritEnd, YamlNext, YamlEnd, appenderVars, callVars
  <2>4. ASSUME NEW t \in Threads, ListenerLog(t) \/ NextLogger(t) \/ ListenerCall(t) \/ StoreLogs(t)
        PROVE  RestTyped'
    BY <2>4, ZenonT(30) DEF RestTyped, ListenerLog, NextLogger, ListenerCall, StoreLogs, Log, GetLogger, SetFormatter,
                ClearAppender, appenderVars
  <2>5. ASSUME NEW t \in Threads, ListenerAppender(t) PROVE RestTyped'
    BY <2>5, FilenameStep DEF RestTyped, ListenerAppender, AddNew, AddAppender
  <2>6. ASSUME NEW t \in Threads, ClientCall(t) PROVE RestTyped'
    <3>1. PICK c \in ClientCalls : Invoke(t, c)
      BY <2>6 DEF ClientCall
    <3>2. calls' \in 0..MaxCalls /\ UNCHANGED fault
      BY <2>0, <2>6 DEF RestTyped, ClientCall
    <3>3. UNCHANGED filename_ /\ mgr' \in {mgr, t}
      BY <3>1 DEF Invoke, Log, GetLogger, ToYamlString, AddOwn, AddAppender, DelAppender, ClearAppender,
                  SetFormatter, SetOwnFormatter, appenderVars
    <3> QED
      BY <3>2, <3>3 DEF RestTyped
  <2>7. ASSUME NEW t \in Threads, NEW new \in profile.configs, Reload(t, new) PROVE RestTyped'
    <3>1. calls < MaxCalls /\ calls' = calls + 1 /\ UNCHANGED <<filename_, mgr, fault>>
      BY <2>7 DEF Reload, appenderVars
    <3> QED
      BY <2>1, <3>1 DEF RestTyped
  <2>8. CASE UNCHANGED vars
    BY <2>8 DEF RestTyped, vars
  <2> QED
    BY <2>2, <2>3, <2>4, <2>5, <2>6, <2>7, <2>8 DEF Next, Step
<1>3. LoggerInv /\ RestTyped => TypeOK
  BY DEF LoggerInv, Core, Typed, ReloadTyped, Documents, Labels, RestTyped, TypeOK
<1> QED
  BY <1>1, <1>2, <1>3, LoggerInvariant, PTL DEF Spec
=============================================================================
