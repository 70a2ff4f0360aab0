------------------------- MODULE LogFormatterProofs -------------------------
(***************************************************************************)
(* Theorems about LogFormatter, for all sets of characters and keys and    *)
(* patterns of every length.                                               *)
(***************************************************************************)
EXTENDS LogFormatter, SequenceTheorems, WellFoundedInduction, TLAPS

Items == [item : {"text", "named", "time", "error"}, arg : Seq(Chars)]

Typed ==
  /\ pattern_ \in Seq(Chars)
  /\ pos \in 1..Len(pattern_) + 1
  /\ str \in Seq(Chars)
  /\ items_ \in Seq(Items)
  /\ error_ \in BOOLEAN

(* All cuts of a well formed pattern pass the position of the loop, and    *)
(* while no error was met there are such cuts from the beginning to there. *)
GrammarInv ==
  /\ \A C \in SUBSET (1..Len(pattern_) + 1) : Cuts(pattern_, C) => ~error_ /\ pos \in C
  /\ ~error_ => \E C \in SUBSET (1..pos) :
       1 \in C /\ pos \in C /\ \A k \in C : k = pos \/ \E e \in C : Directive(pattern_, k, e)

-----------------------------------------------------------------------------
(* The relation < on the numbers is well founded.                          *)
LEMMA Descent ==
  \E R : IsWellFoundedOn(R, Nat) /\ \A x, y \in Nat : x < y => <<x, y>> \in R
<1> DEFINE R == OpToRel(<, Nat)
<1>1. \A x, y \in Nat : x < y => <<x, y>> \in R
  BY DEF OpToRel
<1>2. IsWellFoundedOn(R, Nat)
  BY NatLessThanWellFounded
<1> HIDE DEF R
<1> QED
  BY <1>1, <1>2

(* A set of numbers has a least element.                                   *)
LEMMA LeastElement ==
  ASSUME NEW T \in SUBSET Nat, T # {}
  PROVE  Min(T) \in T /\ \A y \in T : Min(T) <= y
<1>1. PICK R : IsWellFoundedOn(R, Nat) /\ \A x, y \in Nat : x < y => <<x, y>> \in R
  BY Descent
<1>2. ASSUME NEW Q, IsWellFoundedOn(Q, Nat) PROVE \E x \in T : \A y \in T : ~(<<y, x>> \in Q)
  BY <1>2, WFMin, Zenon
<1>3. PICK x \in T : \A y \in T : ~(<<y, x>> \in R)
  BY <1>1, <1>2
<1>4. ASSUME NEW y \in T PROVE x <= y
  <2>1. CASE y < x
    BY <1>1, <1>3, <2>1
  <2> QED
    BY <2>1
<1>5. \E m \in T : \A y \in T : m <= y
  BY <1>4
<1> QED
  BY <1>5 DEF Min

(* One more directive, the only one that begins at pos.                    *)
LEMMA OneMore ==
  ASSUME Typed, GrammarInv, NEW e \in 1..Len(pattern_) + 1, pos < e, pos <= Len(pattern_),
         \A f \in 1..Len(pattern_) + 1 : Directive(pattern_, pos, f) <=> f = e,
         pos' = e, UNCHANGED <<pattern_, error_>>
  PROVE  GrammarInv'
<1>1. ASSUME NEW C \in SUBSET (1..Len(pattern_) + 1), Cuts(pattern_, C) PROVE ~error_ /\ e \in C
  <2>1. ~error_ /\ pos \in C
    BY <1>1 DEF GrammarInv
  <2>2. \E f \in C : Directive(pattern_, pos, f)
    BY <1>1, <2>1 DEF Cuts, Typed
  <2> QED
    BY <2>1, <2>2
<1>2. ASSUME ~error_
      PROVE  \E C \in SUBSET (1..e) :
               1 \in C /\ e \in C /\ \A k \in C : k = e \/ \E f \in C : Directive(pattern_, k, f)
  <2>1. PICK C \in SUBSET (1..pos) :
          1 \in C /\ pos \in C /\ \A k \in C : k = pos \/ \E f \in C : Directive(pattern_, k, f)
    BY <1>2 DEF GrammarInv
  <2>2. C \cup {e} \in SUBSET (1..e)
    BY DEF Typed
  <2>3. \A k \in C \cup {e} : k = e \/ \E f \in C \cup {e} : Directive(pattern_, k, f)
    BY <2>1
  <2> QED
    BY <2>1, <2>2, <2>3
<1> QED
  BY <1>1, <1>2 DEF GrammarInv

(* No directive begins at pos: the pattern is malformed.                   *)
LEMMA NoMore ==
  ASSUME Typed, GrammarInv, pos <= Len(pattern_),
         \A f \in 1..Len(pattern_) + 1 : ~Directive(pattern_, pos, f),
         error_', UNCHANGED pattern_
  PROVE  GrammarInv'
<1>1. ASSUME NEW C \in SUBSET (1..Len(pattern_) + 1), Cuts(pattern_, C) PROVE FALSE
  <2>1. pos \in C
    BY <1>1 DEF GrammarInv
  <2>2. \E f \in C : Directive(pattern_, pos, f)
    BY <1>1, <2>1 DEF Cuts, Typed
  <2> QED
    BY <2>2
<1> QED
  BY <1>1 DEF GrammarInv

(* A pattern that was malformed remains so.                                *)
LEMMA NeverMore ==
  ASSUME GrammarInv, error_, error_', UNCHANGED pattern_
  PROVE  GrammarInv'
BY DEF GrammarInv

-----------------------------------------------------------------------------
(* The positions, and the pending text.                                    *)
LEMMA PatternFacts ==
  ASSUME Typed
  PROVE  Len(pattern_) \in Nat /\ pos \in Nat /\ pos > 0 /\ Flushed \in Seq(Items)
<1>1. Len(pattern_) \in Nat
  BY DEF Typed
<1>2. Text(str) \in Items
  BY DEF Text, Items, Typed
<1>3. Flushed \in Seq(Items)
  BY <1>2, AppendProperties DEF Flushed, Typed
<1> QED
  BY <1>1, <1>3 DEF Typed

(* The characters that the loop looks at.                                  *)
LEMMA Ahead ==
  ASSUME Typed
  PROVE  /\ At(0) = pattern_[pos] /\ At(1) = pattern_[pos + 1] /\ At(2) = pattern_[pos + 2]
         /\ More(0) <=> pos <= Len(pattern_)
         /\ More(1) <=> pos + 1 <= Len(pattern_)
         /\ More(2) <=> pos + 2 <= Len(pattern_)
         /\ More(3) <=> pos + 3 <= Len(pattern_)
BY DEF Typed, At, More

(* A pattern holds characters.                                             *)
LEMMA InPattern ==
  ASSUME Typed, NEW k \in 1..Len(pattern_)
  PROVE  pattern_[k] \in Chars
BY LenProperties DEF Typed

(* An item more.                                                           *)
LEMMA EmitTypes ==
  ASSUME Typed, NEW x \in Items, NEW p \in 1..Len(pattern_) + 1, Emit(x, p)
  PROVE  Typed'
<1>1. Append(Flushed, x) \in Seq(Items) /\ <<>> \in Seq(Chars)
  BY PatternFacts, AppendProperties
<1>2. (error_ \/ x = Error) \in BOOLEAN
  OBVIOUS
<1> QED
  BY <1>1, <1>2 DEF Emit, Typed

(* The first closing brace of a time.                                      *)
LEMMA ClosingFacts ==
  ASSUME Typed, Closing # {}
  PROVE  LET j == Min(Closing) IN
         /\ j \in pos + 3..Len(pattern_) /\ pattern_[j] = Close
         /\ \A i \in pos + 3..j - 1 : pattern_[i] # Close
<1>0. Len(pattern_) \in Nat /\ pos \in Nat
  BY PatternFacts
<1>1. Closing \in SUBSET Nat /\ Closing \subseteq pos + 3..Len(pattern_)
  BY <1>0 DEF Closing
<1>2. Min(Closing) \in Closing /\ \A y \in Closing : Min(Closing) <= y
  BY <1>1, LeastElement
<1> DEFINE j == Min(Closing)
<1> HIDE DEF j
<1>3. j \in pos + 3..Len(pattern_) /\ pattern_[j] = Close
  BY <1>1, <1>2 DEF Closing, j
<1>4. ASSUME NEW i \in pos + 3..j - 1 PROVE pattern_[i] # Close
  <2>1. i \in pos + 3..Len(pattern_) /\ ~(j <= i)
    BY <1>0, <1>3
  <2> QED
    BY <1>2, <2>1 DEF Closing, j
<1> QED
  BY <1>3, <1>4 DEF j

(* The keys are no punctuation.                                            *)
LEMMA KeyFacts ==
  "%" \in Chars /\ "d" \in Chars /\ Keys \subseteq Chars /\ \A k \in Keys : k \notin {"%", "d"}
BY LogFormatterAssumption

(* Each turn of the loop takes the one directive that begins there.        *)
LEMMA Turn ==
  ASSUME Typed, GrammarInv, Next
  PROVE  Typed' /\ GrammarInv'
<1> DEFINE p == pattern_
           N == Len(pattern_)
<1>0. N \in Nat /\ pos \in Nat /\ pos > 0
  BY PatternFacts
<1>1. CASE Literal
  <2>1. p[pos] # "%" /\ pos <= N /\ pos' = pos + 1 /\ str' = Append(str, At(0)) /\ At(0) \in Chars
        /\ UNCHANGED <<pattern_, items_, error_>>
    BY <1>0, <1>1, Ahead, InPattern DEF Literal
  <2>2. Typed'
    BY <1>0, <2>1, AppendProperties DEF Typed
  <2>3. \A f \in 1..N + 1 : Directive(p, pos, f) <=> f = pos + 1
    BY <2>1 DEF Directive
  <2>4. pos + 1 \in 1..N + 1 /\ pos < pos + 1
    BY <1>0, <2>1
  <2> QED
    BY <2>1, <2>2, <2>3, <2>4, OneMore
<1>2. CASE LonePercent
  <2>1. p[pos] = "%" /\ pos <= N /\ ~(pos < N) /\ pos' = pos + 1 /\ error_'
        /\ items_' = Append(items_, Error) /\ UNCHANGED <<pattern_, str>>
    BY <1>0, <1>2, Ahead DEF LonePercent
  <2>2. Typed'
    <3>1. Error \in Items /\ error_' \in BOOLEAN
      BY <1>2 DEF Error, Items, LonePercent
    <3> QED
      BY <1>0, <2>1, <3>1, AppendProperties DEF Typed
  <2>3. \A f \in 1..N + 1 : ~Directive(p, pos, f)
    BY <2>1 DEF Directive
  <2> QED
    BY <2>1, <2>2, <2>3, NoMore
<1>3. CASE EscapedPercent
  <2>1. p[pos] = "%" /\ pos + 1 <= N /\ p[pos + 1] = "%" /\ pos' = pos + 2 /\ str' = Append(str, "%")
        /\ UNCHANGED <<pattern_, items_, error_>>
    BY <1>3, Ahead DEF EscapedPercent
  <2>2. Typed'
    BY <1>0, <2>1, AppendProperties, KeyFacts DEF Typed
  <2>3. \A f \in 1..N + 1 : Directive(p, pos, f) <=> f = pos + 2
    BY <1>0, <2>1 DEF Directive
  <2>4. pos + 2 \in 1..N + 1 /\ pos < pos + 2 /\ pos <= N
    BY <1>0, <2>1
  <2> QED
    BY <2>1, <2>2, <2>3, <2>4, OneMore
<1>4. ASSUME NEW x \in Items, NEW e \in 1..N + 1, pos < e, pos <= N, Emit(x, e),
             IF x = Error THEN \A f \in 1..N + 1 : ~Directive(p, pos, f)
             ELSE \A f \in 1..N + 1 : Directive(p, pos, f) <=> f = e
      PROVE  Typed' /\ GrammarInv'
  <2>1. Typed' /\ pos' = e /\ UNCHANGED pattern_ /\ (error_' <=> error_ \/ x = Error)
    BY <1>4, EmitTypes DEF Emit
  <2>2. CASE x = Error
    BY <1>4, <2>1, <2>2, NoMore
  <2>3. CASE x # Error /\ ~error_
    <3>1. UNCHANGED error_
      BY <2>1, <2>3 DEF Typed
    <3> QED
      BY <1>4, <2>1, <2>3, <3>1, OneMore
  <2>4. CASE error_
    BY <2>1, <2>4, NeverMore
  <2> QED
    BY <2>1, <2>2, <2>3, <2>4
<1>5. CASE NamedItem
  <2> DEFINE k == p[pos + 1]
  <2>1. p[pos] = "%" /\ pos + 1 <= N /\ k \in Chars /\ k \notin {"%", "d"} /\ Emit(ItemFor(k), pos + 2)
    BY <1>0, <1>5, Ahead, InPattern DEF NamedItem
  <2>2. ItemFor(k) \in Items /\ (ItemFor(k) = Error <=> k \notin Keys)
    BY <2>1 DEF ItemFor, Named, Error, Items
  <2>3. pos + 2 \in 1..N + 1 /\ pos < pos + 2 /\ pos <= N
    BY <1>0, <2>1
  <2>4. CASE k \in Keys
    <3>1. \A f \in 1..N + 1 : Directive(p, pos, f) <=> f = pos + 2
      BY <1>0, <2>1, <2>4 DEF Directive
    <3> QED
      BY <1>4, <2>1, <2>2, <2>3, <2>4, <3>1
  <2>5. CASE k \notin Keys
    <3>1. \A f \in 1..N + 1 : ~Directive(p, pos, f)
      BY <1>0, <2>1, <2>5 DEF Directive
    <3> QED
      BY <1>4, <2>1, <2>2, <2>3, <2>5, <3>1
  <2> QED
    BY <2>4, <2>5
<1>6. CASE LastDate
  <2>1. p[pos] = "%" /\ pos + 1 <= N /\ p[pos + 1] = "d" /\ ~(pos + 2 <= N) /\ pos' = pos + 2
        /\ str' = <<>> /\ items_' = Flushed /\ UNCHANGED <<pattern_, error_>>
    BY <1>6, Ahead DEF LastDate, PastDate
  <2>2. Typed'
    BY <1>0, <2>1, PatternFacts DEF Typed
  <2>3. \A f \in 1..N + 1 : Directive(p, pos, f) <=> f = pos + 2
    BY <1>0, <2>1, KeyFacts DEF Directive
  <2>4. pos + 2 \in 1..N + 1 /\ pos < pos + 2 /\ pos <= N
    BY <1>0, <2>1
  <2> QED
    BY <2>1, <2>2, <2>3, <2>4, OneMore
<1>7. CASE PlainDate
  <2>1. p[pos] = "%" /\ pos + 2 <= N /\ p[pos + 1] = "d" /\ p[pos + 2] # Open /\ Emit(Time(<<>>), pos + 2)
    BY <1>7, Ahead DEF PlainDate
  <2>2. Time(<<>>) \in Items /\ Time(<<>>) # Error
    BY DEF Time, Error, Items
  <2>3. \A f \in 1..N + 1 : Directive(p, pos, f) <=> f = pos + 2
    BY <1>0, <2>1, KeyFacts DEF Directive
  <2>4. pos + 2 \in 1..N + 1 /\ pos < pos + 2 /\ pos <= N
    BY <1>0, <2>1
  <2> QED
    BY <1>4, <2>1, <2>2, <2>3, <2>4
<1>8. CASE BracedDate
  <2>1. p[pos] = "%" /\ pos + 2 <= N /\ p[pos + 1] = "d" /\ p[pos + 2] = Open
    BY <1>8, Ahead DEF BracedDate
  <2>2. \A f \in 1..N + 1 : Directive(p, pos, f) <=>
          \E j \in pos + 3..N : p[j] = Close /\ (\A i \in pos + 3..j - 1 : p[i] # Close) /\ f = j + 1
    BY <1>0, <2>1, KeyFacts DEF Directive
  <2>3. CASE Closing # {}
    <3> DEFINE j == Min(Closing)
    <3>1. j \in pos + 3..N /\ p[j] = Close /\ \A i \in pos + 3..j - 1 : p[i] # Close
      BY <2>3, ClosingFacts
    <3>2. Emit(Time(SubSeq(p, pos + 3, j - 1)), j + 1)
      <4>1. ~(Closing = {} /\ More(3)) /\ More(3)
        BY <1>0, <2>3, <3>1, Ahead
      <4> QED
        BY <1>8, <4>1 DEF BracedDate, PastBrace
    <3> HIDE DEF j
    <3>3. Time(SubSeq(p, pos + 3, j - 1)) \in Items /\ Time(SubSeq(p, pos + 3, j - 1)) # Error
      <4>1. \A i \in pos + 3..j - 1 : p[i] \in Chars
        BY <1>0, <3>1, InPattern
      <4>2. SubSeq(p, pos + 3, j - 1) \in Seq(Chars)
        BY <1>0, <3>1, <4>1, SubSeqProperties DEF Typed
      <4> QED
        BY <4>2 DEF Time, Error, Items
    <3>4. ASSUME NEW h \in pos + 3..N, p[h] = Close, \A i \in pos + 3..h - 1 : p[i] # Close
          PROVE  h = j
      <4>1. ~(h < j)
        BY <1>0, <3>1, <3>4
      <4>2. ~(j < h)
        BY <1>0, <3>1, <3>4
      <4> QED
        BY <1>0, <3>1, <4>1, <4>2
    <3>5. \A f \in 1..N + 1 : Directive(p, pos, f) <=> f = j + 1
      BY <2>2, <3>1, <3>4
    <3>6. j + 1 \in 1..N + 1 /\ pos < j + 1 /\ pos <= N
      BY <1>0, <3>1
    <3> QED
      BY <1>4, <3>2, <3>3, <3>5, <3>6
  <2>4. CASE Closing = {}
    <3>1. \A f \in 1..N + 1 : ~Directive(p, pos, f)
      BY <2>2, <2>4 DEF Closing
    <3>2. \E e \in 1..N + 1 : pos < e /\ Emit(Error, e)
      <4>1. CASE More(3) /\ Emit(Error, pos + 4)
        BY <1>0, <4>1, Ahead
      <4>2. CASE Emit(Error, pos + 3)
        BY <1>0, <2>1, <4>2
      <4> QED
        BY <1>8, <2>4, <4>1, <4>2 DEF BracedDate
    <3>3. Error \in Items /\ pos <= N
      BY <1>0, <2>1 DEF Error, Items
    <3> QED
      BY <1>4, <3>1, <3>2, <3>3
  <2> QED
    BY <2>3, <2>4
<1> QED
  BY <1>1, <1>2, <1>3, <1>5, <1>6, <1>7, <1>8 DEF Next

-----------------------------------------------------------------------------
(* The pattern is a sequence of characters; the loop begins at 1.          *)
LEMMA Start ==
  ASSUME Init
  PROVE  Typed /\ GrammarInv
<1>1. pattern_ \in Seq(Chars)
  <2>1. PICK m \in 0..MaxLen : pattern_ \in [1..m -> Chars]
    BY DEF Init, BoundedSeq, SeqOf
  <2> QED
    BY <2>1, LogFormatterAssumption
<1>2. Len(pattern_) \in Nat
  BY <1>1
<1>3. Typed
  <2>1. <<>> \in Seq(Chars) /\ <<>> \in Seq(Items) /\ 1 \in 1..Len(pattern_) + 1
    BY <1>2
  <2> QED
    BY <1>1, <2>1 DEF Init, Typed
<1>4. \A C \in SUBSET (1..Len(pattern_) + 1) : Cuts(pattern_, C) => ~error_ /\ pos \in C
  BY DEF Init, Cuts
<1>5. {1} \in SUBSET (1..pos) /\ 1 \in {1} /\ pos \in {1} /\ \A k \in {1} : k = pos
  BY DEF Init
<1>6. \E C \in SUBSET (1..pos) :
        1 \in C /\ pos \in C /\ \A k \in C : k = pos \/ \E e \in C : Directive(pattern_, k, e)
  BY <1>5
<1> QED
  BY <1>3, <1>4, <1>6 DEF GrammarInv

(* The inductive invariant holds: the positions the loop has visited are   *)
(* the only way to cut the pattern into directives.                        *)
THEOREM GrammarTheorem == Spec => [](Typed /\ GrammarInv)
<1>1. Init => Typed /\ GrammarInv
  BY Start
<1>2. Typed /\ GrammarInv /\ [Next]_vars => (Typed /\ GrammarInv)'
  <2>1. ASSUME Typed, GrammarInv, UNCHANGED vars PROVE Typed' /\ GrammarInv'
    BY <2>1 DEF Typed, GrammarInv, vars
  <2> QED
    BY <2>1, Turn
<1> QED
  BY <1>1, <1>2, PTL DEF Spec

(* Type correctness: the loop does not run beyond the end of the pattern.  *)
THEOREM FormatterTypes == Spec => []TypeOK
<1>1. Init => Len(pattern_) <= MaxLen
  <2>1. ASSUME NEW m \in 0..MaxLen, pattern_ \in [1..m -> Chars] PROVE Len(pattern_) <= MaxLen
    BY <2>1, LogFormatterAssumption
  <2> QED
    BY <2>1 DEF Init, BoundedSeq, SeqOf
<1>2. Len(pattern_) <= MaxLen /\ [Next]_vars => (Len(pattern_) <= MaxLen)'
  BY DEF Next, vars, Literal, LonePercent, EscapedPercent, NamedItem, LastDate, PlainDate, BracedDate, Emit
<1>3. Typed /\ Len(pattern_) <= MaxLen => TypeOK
  BY LogFormatterAssumption DEF Typed, Items, TypeOK
<1> QED
  BY <1>1, <1>2, <1>3, GrammarTheorem, PTL DEF Spec

(* ErrorIffMalformed: behind its loop, Init reports an error (and so       *)
(* SetFormatter refuses the pattern) exactly when no way to cut the        *)
(* pattern into characters and directives exists.                          *)
THEOREM ErrorIffMalformedTheorem == Spec => []ErrorIffMalformed
<1>1. Typed /\ GrammarInv => ErrorIffMalformed
  <2> SUFFICES ASSUME Typed, GrammarInv, Parsed PROVE error_ <=> ~WellFormed(pattern_)
    BY DEF ErrorIffMalformed
  <2>1. Len(pattern_) \in Nat /\ pos = Len(pattern_) + 1
    BY DEF Typed, Parsed
  <2>2. ASSUME ~error_ PROVE WellFormed(pattern_)
    <3>1. PICK C \in SUBSET (1..pos) :
            1 \in C /\ pos \in C /\ \A k \in C : k = pos \/ \E e \in C : Directive(pattern_, k, e)
      BY <2>2 DEF GrammarInv
    <3>2. Cuts(pattern_, C)
      BY <2>1, <3>1 DEF Cuts
    <3> QED
      BY <2>1, <3>2 DEF WellFormed
  <2>3. ASSUME error_ PROVE ~WellFormed(pattern_)
    BY <2>3 DEF GrammarInv, WellFormed
  <2> QED
    BY <2>2, <2>3 DEF Typed
<1> QED
  BY <1>1, GrammarTheorem, PTL

-----------------------------------------------------------------------------
(* What a sequence of sequences becomes, one after the other: a recursion  *)
(* over its length, f[n] being the first n of them.                        *)
Flattens(s, n, f) ==
  f = [i \in 1..n |-> IF i = 1 THEN s[i] ELSE f[i - 1] \o s[i]]

(* Induction over the numbers, with a set in the place of the property.    *)
LEMMA SetInduction ==
  ASSUME NEW T \in SUBSET Nat, 0 \in T, \A n \in T : n + 1 \in T
  PROVE  T = Nat
<1> SUFFICES ASSUME Nat \ T # {} PROVE FALSE
  OBVIOUS
<1>1. PICK x \in Nat \ T : \A y \in Nat \ T : x <= y
  BY LeastElement, Nat \ T \in SUBSET Nat
<1>2. x - 1 \in Nat /\ (x - 1) + 1 = x /\ ~(x <= x - 1)
  BY <1>1
<1> QED
  BY <1>1, <1>2

(* The recursion has a solution.                                           *)
LEMMA FlattenExists ==
  ASSUME NEW S, NEW s \in Seq(S)
  PROVE  \E f : Flattens(s, Len(s), f)
<1> DEFINE T == {n \in Nat : \E f : Flattens(s, n, f)}
<1>1. 0 \in T
  <2>1. 1..0 = {}
    OBVIOUS
  <2> DEFINE e == [i \in {} |-> s]
  <2>2. Flattens(s, 0, e)
    BY <2>1 DEF Flattens
  <2> QED
    BY <2>2
<1>2. ASSUME NEW n \in T PROVE n + 1 \in T
  <2>1. PICK f : Flattens(s, n, f)
    OBVIOUS
  <2> DEFINE h == [i \in 1..n + 1 |-> IF i = 1 THEN s[i] ELSE f[i - 1] \o s[i]]
  <2>2. ASSUME NEW i \in 1..n PROVE h[i] = f[i]
    <3>1. n \in Nat /\ i \in 1..n + 1
      OBVIOUS
    <3>2. f[i] = IF i = 1 THEN s[i] ELSE f[i - 1] \o s[i]
      <4> HIDE DEF h, T
      <4> QED
        BY <2>1 DEF Flattens
    <3> QED
      BY <3>1, <3>2
  <2>3. ASSUME NEW i \in 1..n + 1, i # 1 PROVE h[i - 1] = f[i - 1]
    <3>1. i - 1 \in 1..n
      BY <2>3
    <3> QED
      BY <2>2, <3>1
  <2>4. Flattens(s, n + 1, h)
    <3> HIDE DEF h
    <3>1. h = [i \in 1..n + 1 |-> IF i = 1 THEN s[i] ELSE h[i - 1] \o s[i]]
      BY <2>3 DEF h
    <3> QED
      BY <3>1 DEF Flattens
  <2> HIDE DEF h
  <2> QED
    BY <2>4
<1>3. T = Nat
  <2> HIDE DEF T
  <2>1. T \in SUBSET Nat
    BY DEF T
  <2> QED
    BY <1>1, <1>2, <2>1, SetInduction
<1> QED
  BY <1>3, LenProperties

(* FlattenSeq is the last value of a solution.                             *)
LEMMA FlattenIs ==
  ASSUME NEW S, NEW s \in Seq(S), s # <<>>
  PROVE  \E f : Flattens(s, Len(s), f) /\ FlattenSeq(s) = f[Len(s)]
<1> DEFINE flatten == CHOOSE f : Flattens(s, Len(s), f)
<1>1. Len(s) # 0
  BY EmptySeq
<1>2. FlattenSeq(s) = flatten[Len(s)]
  BY <1>1 DEF FlattenSeq, Flattens
<1>3. Flattens(s, Len(s), flatten)
  BY FlattenExists
<1> HIDE DEF flatten
<1> QED
  BY <1>2, <1>3

(* It is a sequence of the elements.                                       *)
LEMMA FlattenTypes ==
  ASSUME NEW S, NEW s \in Seq(Seq(S))
  PROVE  FlattenSeq(s) \in Seq(S)
<1>0. Len(s) \in Nat /\ \A i \in 1..Len(s) : s[i] \in Seq(S)
  BY LenProperties
<1>1. CASE s = <<>>
  BY <1>1, EmptySeq DEF FlattenSeq
<1>2. CASE s # <<>>
  <2>1. PICK f : Flattens(s, Len(s), f) /\ FlattenSeq(s) = f[Len(s)]
    BY <1>2, FlattenIs
  <2>2. \A i \in 1..Len(s) : f[i] = IF i = 1 THEN s[i] ELSE f[i - 1] \o s[i]
    BY <2>1 DEF Flattens
  <2> DEFINE T == {n \in Nat : n \in 1..Len(s) => f[n] \in Seq(S)}
  <2>3. ASSUME NEW n \in T PROVE n + 1 \in T
    <3>1. n \in Nat /\ (n \in 1..Len(s) => f[n] \in Seq(S))
      OBVIOUS
    <3>2. ASSUME n + 1 \in 1..Len(s) PROVE f[n + 1] \in Seq(S)
      <4> HIDE DEF T
      <4>1. f[n + 1] = IF n + 1 = 1 THEN s[n + 1] ELSE f[n] \o s[n + 1]
        BY <1>0, <2>2, <3>1, <3>2
      <4>2. s[n + 1] \in Seq(S) /\ (n = 0 \/ f[n] \in Seq(S))
        BY <1>0, <3>1, <3>2
      <4> QED
        BY <3>1, <4>1, <4>2, ConcatProperties
    <3> QED
      BY <3>1, <3>2
  <2>4. T = Nat
    <3>1. T \in SUBSET Nat /\ 0 \in T
      OBVIOUS
    <3> HIDE DEF T
    <3> QED
      BY <2>3, <3>1, SetInduction
  <2>5. Len(s) \in T /\ Len(s) \in 1..Len(s)
    <3>1. Len(s) \in 1..Len(s)
      BY <1>0, <1>2, EmptySeq
    <3> HIDE DEF T
    <3> QED
      BY <1>0, <2>4, <3>1
  <2> QED
    BY <2>1, <2>5
<1> QED
  BY <1>1, <1>2

(* A sequence more comes behind the others.                                *)
LEMMA FlattenAppend ==
  ASSUME NEW S, NEW s \in Seq(Seq(S)), NEW x \in Seq(S)
  PROVE  FlattenSeq(Append(s, x)) = FlattenSeq(s) \o x
<1> DEFINE t == Append(s, x)
<1>0. /\ Len(s) \in Nat /\ t \in Seq(Seq(S)) /\ Len(t) = Len(s) + 1 /\ t # <<>>
      /\ \A i \in 1..Len(s) : t[i] = s[i]
      /\ t[Len(s) + 1] = x
  <2>1. t \in Seq(Seq(S)) /\ Len(t) = Len(s) + 1 /\ Len(s) \in Nat
    BY AppendProperties, LenProperties
  <2>2. t # <<>>
    <3> HIDE DEF t
    <3>1. Len(<<>>) = 0
      OBVIOUS
    <3> QED
      BY <2>1, <3>1
  <2> QED
    BY <2>1, <2>2, AppendProperties
<1> HIDE DEF t
<1>1. PICK g : Flattens(t, Len(t), g) /\ FlattenSeq(t) = g[Len(t)]
  BY <1>0, FlattenIs
<1>2. \A i \in 1..Len(s) + 1 : g[i] = IF i = 1 THEN t[i] ELSE g[i - 1] \o t[i]
  BY <1>0, <1>1 DEF Flattens
<1>3. g[Len(s) + 1] = IF Len(s) = 0 THEN x ELSE g[Len(s)] \o x
  <2>1. Len(s) + 1 \in 1..Len(s) + 1 /\ (Len(s) + 1) - 1 = Len(s)
    BY <1>0
  <2> QED
    BY <1>0, <1>2, <2>1
<1>4. CASE s = <<>>
  <2>1. Len(s) = 0 /\ FlattenSeq(s) = <<>>
    BY <1>4, EmptySeq DEF FlattenSeq
  <2> QED
    BY <1>0, <1>1, <1>3, <2>1, ConcatEmptySeq DEF t
<1>5. CASE s # <<>>
  <2>1. PICK f : Flattens(s, Len(s), f) /\ FlattenSeq(s) = f[Len(s)]
    BY <1>5, FlattenIs
  <2>2. \A i \in 1..Len(s) : f[i] = IF i = 1 THEN s[i] ELSE f[i - 1] \o s[i]
    BY <2>1 DEF Flattens
  <2> DEFINE T == {n \in Nat : n \in 1..Len(s) => f[n] = g[n]}
  <2>3. ASSUME NEW n \in T PROVE n + 1 \in T
    <3>1. n \in Nat /\ (n \in 1..Len(s) => f[n] = g[n])
      OBVIOUS
    <3>2. ASSUME n + 1 \in 1..Len(s) PROVE f[n + 1] = g[n + 1]
      <4> HIDE DEF T
      <4>1. n + 1 \in 1..Len(s) + 1 /\ (n + 1) - 1 = n /\ (n + 1 # 1 => n \in 1..Len(s))
        BY <1>0, <3>1, <3>2
      <4> QED
        BY <1>0, <1>2, <2>2, <3>1, <3>2, <4>1
    <3> QED
      BY <3>1, <3>2
  <2>4. T = Nat
    <3>1. T \in SUBSET Nat /\ 0 \in T
      OBVIOUS
    <3> HIDE DEF T
    <3> QED
      BY <2>3, <3>1, SetInduction
  <2>5. Len(s) \in T /\ Len(s) \in 1..Len(s) /\ Len(s) # 0
    <3>1. Len(s) \in 1..Len(s) /\ Len(s) # 0
      BY <1>0, <1>5, EmptySeq
    <3> HIDE DEF T
    <3> QED
      BY <1>0, <2>4, <3>1
  <2>6. f[Len(s)] = g[Len(s)]
    BY <2>5
  <2> QED
    BY <1>0, <1>1, <1>3, <2>1, <2>5, <2>6 DEF t
<1> QED
  BY <1>4, <1>5

-----------------------------------------------------------------------------
(* How a character of the text is spelt.                                   *)
Quoted(c) == IF c = "%" THEN <<"%", "%">> ELSE <<c>>

(* A text that grows is spelt with its new character behind.               *)
LEMMA TextGrows ==
  ASSUME NEW s \in Seq(Chars)
  PROVE  /\ SpellText(s) \in Seq(Chars)
         /\ \A c \in Chars : SpellText(Append(s, c)) = SpellText(s) \o Quoted(c)
<1> DEFINE M(u) == [k \in DOMAIN u |-> IF u[k] = "%" THEN <<"%", "%">> ELSE <<u[k]>>]
<1>1. ASSUME NEW c \in Chars PROVE Quoted(c) \in Seq(Chars)
  BY KeyFacts DEF Quoted
<1>2. ASSUME NEW u \in Seq(Chars)
      PROVE  M(u) \in Seq(Seq(Chars)) /\ Len(M(u)) = Len(u) /\ \A k \in 1..Len(u) : M(u)[k] = Quoted(u[k])
  <2>1. Len(u) \in Nat /\ DOMAIN u = 1..Len(u) /\ \A k \in 1..Len(u) : u[k] \in Chars
    BY LenProperties
  <2>2. M(u) = [k \in 1..Len(u) |-> Quoted(u[k])]
    BY <2>1 DEF Quoted
  <2>3. \A k \in 1..Len(u) : Quoted(u[k]) \in Seq(Chars)
    BY <1>1, <2>1
  <2> HIDE DEF M
  <2> QED
    BY <2>1, <2>2, <2>3
<1>3. SpellText(s) = FlattenSeq(M(s)) /\ \A c \in Chars : SpellText(Append(s, c)) = FlattenSeq(M(Append(s, c)))
  BY DEF SpellText
<1> HIDE DEF M
<1>4. SpellText(s) \in Seq(Chars)
  BY <1>2, <1>3, FlattenTypes
<1>5. ASSUME NEW c \in Chars PROVE M(Append(s, c)) = Append(M(s), Quoted(c))
  <2> DEFINE a == Append(s, c)
             b == Append(M(s), Quoted(c))
  <2>1. /\ a \in Seq(Chars) /\ Len(a) = Len(s) + 1 /\ a[Len(s) + 1] = c
        /\ \A k \in 1..Len(s) : a[k] = s[k]
    BY AppendProperties
  <2>2. /\ b \in Seq(Seq(Chars)) /\ Len(b) = Len(s) + 1 /\ b[Len(s) + 1] = Quoted(c)
        /\ \A k \in 1..Len(s) : b[k] = Quoted(s[k])
    <3>1. /\ M(s) \in Seq(Seq(Chars)) /\ Len(M(s)) = Len(s) /\ \A k \in 1..Len(s) : M(s)[k] = Quoted(s[k])
          /\ Quoted(c) \in Seq(Chars)
      BY <1>1, <1>2
    <3> QED
      BY <3>1, AppendProperties
  <2> HIDE DEF a, b
  <2>3. /\ M(a) \in Seq(Seq(Chars)) /\ Len(M(a)) = Len(a)
        /\ \A k \in 1..Len(a) : M(a)[k] = Quoted(a[k])
    BY <1>2, <2>1
  <2>4. Len(s) \in Nat
    BY LenProperties
  <2>5. ASSUME NEW k \in 1..Len(s) + 1 PROVE M(a)[k] = b[k]
    <3>1. k \in 1..Len(s) \/ k = Len(s) + 1
      BY <2>4
    <3>2. M(a)[k] = Quoted(a[k])
      BY <2>1, <2>3
    <3> QED
      BY <2>1, <2>2, <3>1, <3>2
  <2>6. M(a) = b
    BY <2>1, <2>2, <2>3, <2>5, SeqEqual
  <2> QED
    BY <2>6 DEF a, b
<1>6. ASSUME NEW c \in Chars PROVE SpellText(Append(s, c)) = SpellText(s) \o Quoted(c)
  BY <1>1, <1>2, <1>3, <1>5, FlattenAppend
<1> QED
  BY <1>4, <1>6

(* Nothing is spelt with nothing.                                          *)
LEMMA SpellNothing == SpellText(<<>>) = <<>>
<1>1. ASSUME NEW f, f = <<>> PROVE FlattenSeq(f) = <<>>
  <2>1. Len(f) = 0
    BY <1>1
  <2> QED
    BY <1>1, <2>1 DEF FlattenSeq
<1>2. [k \in DOMAIN <<>> |-> IF <<>>[k] = "%" THEN <<"%", "%">> ELSE <<<<>>[k]>>] = <<>>
  OBVIOUS
<1> QED
  BY <1>1, <1>2 DEF SpellText

(* A sequence of one, two or three is its elements.                        *)
LEMMA ShortSequences ==
  ASSUME NEW S, NEW s \in Seq(S)
  PROVE  /\ Len(s) = 1 => s = <<s[1]>>
         /\ Len(s) = 2 => s = <<s[1], s[2]>>
         /\ Len(s) = 3 => s = <<s[1], s[2], s[3]>>
<1>1. ASSUME Len(s) = 1 PROVE s = <<s[1]>>
  BY <1>1
<1>2. ASSUME Len(s) = 2 PROVE s = <<s[1], s[2]>>
  BY <1>2
<1>3. ASSUME Len(s) = 3 PROVE s = <<s[1], s[2], s[3]>>
  BY <1>3
<1> QED
  BY <1>1, <1>2, <1>3

(* Two characters, and three, of the pattern.                              *)
LEMMA Pieces ==
  ASSUME Typed
  PROVE  /\ pos <= Len(pattern_) => SubSeq(pattern_, pos, pos) = <<pattern_[pos]>>
         /\ \A k \in 1..Len(pattern_) - 1 : SubSeq(pattern_, k, k + 1) = <<pattern_[k], pattern_[k + 1]>>
         /\ pos + 2 <= Len(pattern_) =>
              SubSeq(pattern_, pos, pos + 2) = <<pattern_[pos], pattern_[pos + 1], pattern_[pos + 2]>>
<1> DEFINE p == pattern_
<1>0. Len(p) \in Nat /\ pos \in Nat /\ pos > 0
  BY PatternFacts
<1>1. ASSUME NEW i \in 1..Len(p), NEW j \in i..Len(p)
      PROVE  /\ SubSeq(p, i, j) \in Seq(Chars) /\ Len(SubSeq(p, i, j)) = j - i + 1
             /\ \A k \in 1..j - i + 1 : SubSeq(p, i, j)[k] = p[i + k - 1]
  <2>1. \A k \in i..j : p[k] \in Chars
    BY <1>0, InPattern
  <2> QED
    BY <1>0, <2>1, SubSeqProperties
<1>2. ASSUME pos <= Len(p) PROVE SubSeq(p, pos, pos) = <<p[pos]>>
  <2> DEFINE s == SubSeq(p, pos, pos)
  <2>1. s \in Seq(Chars) /\ Len(s) = 1 /\ s[1] = p[pos]
    BY <1>0, <1>1, <1>2
  <2> HIDE DEF s
  <2>2. s = <<p[pos]>>
    BY <2>1, ShortSequences
  <2> QED
    BY <2>2 DEF s
<1>3. ASSUME NEW k \in 1..Len(p) - 1 PROVE SubSeq(p, k, k + 1) = <<p[k], p[k + 1]>>
  <2> DEFINE s == SubSeq(p, k, k + 1)
  <2>1. s \in Seq(Chars) /\ Len(s) = 2 /\ s[1] = p[k] /\ s[2] = p[k + 1]
    <3>1. k \in 1..Len(p) /\ k + 1 \in k..Len(p) /\ (k + 1) - k + 1 = 2 /\ k + 1 - 1 = k /\ k + 2 - 1 = k + 1
      BY <1>0
    <3>2. /\ s \in Seq(Chars) /\ Len(s) = 2
          /\ \A i \in 1..2 : s[i] = p[k + i - 1]
      BY <1>1, <3>1
    <3> HIDE DEF s
    <3>3. s[1] = p[k + 1 - 1] /\ s[2] = p[k + 2 - 1]
      BY <3>2
    <3> QED
      BY <3>1, <3>2, <3>3
  <2> HIDE DEF s
  <2>2. s = <<p[k], p[k + 1]>>
    BY <2>1, ShortSequences
  <2> QED
    BY <2>2 DEF s
<1>4. ASSUME pos + 2 <= Len(p) PROVE SubSeq(p, pos, pos + 2) = <<p[pos], p[pos + 1], p[pos + 2]>>
  <2> DEFINE s == SubSeq(p, pos, pos + 2)
  <2>1. s \in Seq(Chars) /\ Len(s) = 3 /\ s[1] = p[pos] /\ s[2] = p[pos + 1] /\ s[3] = p[pos + 2]
    BY <1>0, <1>1, <1>4
  <2> HIDE DEF s
  <2>2. s = <<p[pos], p[pos + 1], p[pos + 2]>>
    BY <2>1, ShortSequences
  <2> QED
    BY <2>2 DEF s
<1> QED
  BY <1>2, <1>3, <1>4

-----------------------------------------------------------------------------
(* The inductive invariant: the items cover a first part of the pattern,   *)
(* up to e, and the rest of what the loop has passed spells the pending    *)
(* text, unless the loop has passed a last "%d".                           *)
PendingFrom(e) ==
  \/ e < pos /\ SubSeq(pattern_, e + 1, pos - 1) = SpellText(str)
  \/ Parsed /\ SubSeq(pattern_, e + 1, Len(pattern_)) = <<"%", "d">>

CoverInv ==
  ~error_ =>
    \E b \in [0..Len(items_) -> 0..Len(pattern_)] :
      Covers(items_, b) /\ PendingFrom(b[Len(items_)])

(* One item more covers the part of the pattern behind the others.         *)
LEMMA CoverMore ==
  ASSUME Typed, NEW q \in Seq(Items), NEW b \in [0..Len(q) -> 0..Len(pattern_)], Covers(q, b),
         NEW x \in Items, NEW f \in 0..Len(pattern_), b[Len(q)] <= f,
         SubSeq(pattern_, b[Len(q)] + 1, f) \in Spellings(x)
  PROVE  \E c \in [0..Len(Append(q, x)) -> 0..Len(pattern_)] :
           Covers(Append(q, x), c) /\ c[Len(Append(q, x))] = f
<1> DEFINE n == Len(q)
           a == Append(q, x)
           c == [k \in 0..n + 1 |-> IF k = n + 1 THEN f ELSE b[k]]
<1>1. n \in Nat /\ Len(a) = n + 1 /\ a[n + 1] = x /\ \A k \in 1..n : a[k] = q[k]
  BY AppendProperties, LenProperties
<1>2. c[n + 1] = f /\ \A k \in 0..n : c[k] = b[k]
  <2>1. n \in Nat
    BY <1>1
  <2> HIDE DEF n
  <2> QED
    BY <2>1
<1>3. c \in [0..n + 1 -> 0..Len(pattern_)]
  <2>1. ASSUME NEW k \in 0..n + 1, k # n + 1 PROVE k \in 0..n
    BY <1>1, <2>1
  <2> QED
    BY <2>1
<1> HIDE DEF a, c
<1>4. Covers(a, c)
  <2>1. c[0] = 0
    BY <1>1, <1>2 DEF Covers
  <2>2. ASSUME NEW k \in 1..n + 1
        PROVE  c[k - 1] <= c[k] /\ SubSeq(pattern_, c[k - 1] + 1, c[k]) \in Spellings(a[k])
    <3>1. CASE k = n + 1
      <4>1. c[k - 1] = b[n] /\ c[k] = f /\ a[k] = x
        BY <1>1, <1>2, <3>1
      <4> QED
        BY <4>1
    <3>2. CASE k \in 1..n
      <4>1. c[k - 1] = b[k - 1] /\ c[k] = b[k] /\ a[k] = q[k]
        <5>1. k - 1 \in 0..n /\ k \in 0..n
          BY <1>1, <3>2
        <5> QED
          BY <1>1, <1>2, <3>2, <5>1
      <4> QED
        BY <3>2, <4>1 DEF Covers
    <3> QED
      BY <1>1, <3>1, <3>2
  <2> QED
    BY <1>1, <2>1, <2>2 DEF Covers
<1> QED
  BY <1>1, <1>2, <1>3, <1>4 DEF a

(* Once the pending text is an item, the items cover all that the loop has *)
(* passed.                                                                 *)
LEMMA FlushedCovers ==
  ASSUME Typed, CoverInv, ~error_, pos <= Len(pattern_)
  PROVE  \E b \in [0..Len(Flushed) -> 0..Len(pattern_)] :
           Covers(Flushed, b) /\ b[Len(Flushed)] = pos - 1
<1>0. Len(pattern_) \in Nat /\ pos \in Nat /\ pos > 0 /\ items_ \in Seq(Items) /\ Len(items_) \in Nat
  BY PatternFacts, LenProperties DEF Typed
<1>1. PICK b \in [0..Len(items_) -> 0..Len(pattern_)] :
        Covers(items_, b) /\ PendingFrom(b[Len(items_)])
  BY DEF CoverInv
<1> DEFINE e == b[Len(items_)]
<1>2. e \in 0..pos - 1 /\ SubSeq(pattern_, e + 1, pos - 1) = SpellText(str)
  <2>1. e \in 0..Len(pattern_)
    <3>1. Len(items_) \in 0..Len(items_)
      BY <1>0
    <3> QED
      BY <3>1
  <2>2. e < pos /\ SubSeq(pattern_, e + 1, pos - 1) = SpellText(str)
    BY <1>0, <1>1 DEF PendingFrom, Parsed
  <2> HIDE DEF e
  <2> QED
    BY <1>0, <2>1, <2>2
<1>3. CASE str = <<>>
  <2>1. SubSeq(pattern_, e + 1, pos - 1) = <<>>
    BY <1>2, <1>3, SpellNothing
  <2>2. ASSUME e # pos - 1 PROVE FALSE
    <3> DEFINE s == SubSeq(pattern_, e + 1, pos - 1)
    <3>1. \A k \in e + 1..pos - 1 : pattern_[k] \in Chars
      <4>1. ASSUME NEW k \in e + 1..pos - 1 PROVE k \in 1..Len(pattern_)
        BY <1>0, <1>2
      <4> QED
        BY <4>1, InPattern
    <3>2. Len(s) = (pos - 1) - (e + 1) + 1 /\ e < pos - 1
      BY <1>0, <1>2, <2>2, <3>1, SubSeqProperties DEF Typed
    <3>3. Len(<<>>) = 0
      OBVIOUS
    <3>4. s = <<>>
      BY <2>1
    <3> HIDE DEF s, e
    <3> QED
      BY <1>0, <1>2, <3>2, <3>3, <3>4
  <2>3. e = pos - 1
    BY <2>2
  <2> QED
    BY <1>1, <1>3, <2>3 DEF Flushed
<1>4. CASE str # <<>>
  <2>1. Text(str) \in Items /\ SpellText(str) \in Spellings(Text(str))
    BY DEF Text, Items, Typed, Spellings
  <2>2. pos - 1 \in 0..Len(pattern_) /\ e <= pos - 1
    BY <1>0, <1>2
  <2>3. SubSeq(pattern_, e + 1, pos - 1) \in Spellings(Text(str))
    BY <1>2, <2>1
  <2> QED
    BY <1>0, <1>1, <1>4, <2>1, <2>2, <2>3, CoverMore DEF Flushed
<1> QED
  BY <1>3, <1>4

(* A character more of the pending text.                                   *)
LEMMA CoverText ==
  ASSUME Typed, CoverInv, NEW c \in Chars, NEW f \in 1..Len(pattern_) + 1, pos < f, pos <= Len(pattern_),
         Quoted(c) = SubSeq(pattern_, pos, f - 1),
         pos' = f, str' = Append(str, c), UNCHANGED <<pattern_, items_, error_>>
  PROVE  CoverInv'
<1> SUFFICES ASSUME ~error_
    PROVE \E b \in [0..Len(items_) -> 0..Len(pattern_)] : Covers(items_, b) /\ PendingFrom(b[Len(items_)])'
  BY DEF CoverInv, Covers, PendingFrom, Parsed
<1>0. Len(pattern_) \in Nat /\ pos \in Nat /\ pos > 0 /\ pattern_ \in Seq(Chars) /\ Len(items_) \in Nat
      /\ str \in Seq(Chars)
  BY PatternFacts, LenProperties DEF Typed
<1>1. PICK b \in [0..Len(items_) -> 0..Len(pattern_)] :
        Covers(items_, b) /\ PendingFrom(b[Len(items_)])
  BY DEF CoverInv
<1> DEFINE e == b[Len(items_)]
<1>2. e \in 0..Len(pattern_)
  <2>1. Len(items_) \in 0..Len(items_)
    BY <1>0
  <2> QED
    BY <2>1
<1>3. e < pos /\ SubSeq(pattern_, e + 1, pos - 1) = SpellText(str)
  BY <1>0, <1>1 DEF PendingFrom, Parsed
<1> HIDE DEF e
<1>4. SubSeq(pattern_, e + 1, pos - 1) \o SubSeq(pattern_, (pos - 1) + 1, f - 1) = SubSeq(pattern_, e + 1, f - 1)
  BY <1>0, <1>2, <1>3, ConcatAdjacentSubSeq,
     e + 1 \in 1..Len(pattern_) + 1, pos - 1 \in (e + 1) - 1..Len(pattern_), f - 1 \in pos - 1..Len(pattern_)
<1>5. SpellText(Append(str, c)) = SpellText(str) \o Quoted(c)
  BY <1>0, TextGrows
<1>6. (pos - 1) + 1 = pos /\ e < f
  BY <1>0, <1>2, <1>3
<1>7. SubSeq(pattern_, e + 1, f - 1) = SpellText(Append(str, c))
  BY <1>3, <1>4, <1>5, <1>6
<1> QED
  BY <1>1, <1>6, <1>7 DEF PendingFrom, e

(* An item spelled by the part of the pattern that the turn passes.        *)
LEMMA CoverEmit ==
  ASSUME Typed, CoverInv, NEW x \in Items, NEW f \in 1..Len(pattern_) + 1, pos < f, pos <= Len(pattern_),
         Emit(x, f), x # Error => SubSeq(pattern_, pos, f - 1) \in Spellings(x)
  PROVE  CoverInv'
<1>0. Len(pattern_) \in Nat /\ pos \in Nat /\ pos > 0 /\ Flushed \in Seq(Items) /\ Len(Flushed) \in Nat
  BY PatternFacts, LenProperties
<1>1. items_' = Append(Flushed, x) /\ str' = <<>> /\ pos' = f /\ UNCHANGED pattern_
      /\ (error_' <=> error_ \/ x = Error)
  BY DEF Emit
<1>2. CASE error_ \/ x = Error
  BY <1>1, <1>2 DEF CoverInv
<1>3. CASE ~error_ /\ x # Error
  <2>1. PICK b \in [0..Len(Flushed) -> 0..Len(pattern_)] : Covers(Flushed, b) /\ b[Len(Flushed)] = pos - 1
    BY <1>3, FlushedCovers
  <2>2. f - 1 \in 0..Len(pattern_) /\ pos - 1 <= f - 1 /\ (pos - 1) + 1 = pos
    BY <1>0
  <2>3. SubSeq(pattern_, b[Len(Flushed)] + 1, f - 1) \in Spellings(x)
    BY <1>3, <2>1, <2>2
  <2>4. \E c \in [0..Len(Append(Flushed, x)) -> 0..Len(pattern_)] :
          Covers(Append(Flushed, x), c) /\ c[Len(Append(Flushed, x))] = f - 1
    BY <1>0, <2>1, <2>2, <2>3, CoverMore
  <2>5. SubSeq(pattern_, (f - 1) + 1, f - 1) = <<>>
    BY <2>2, SubSeqEmpty
  <2>6. f - 1 < f /\ SubSeq(pattern_, (f - 1) + 1, f - 1) = SpellText(<<>>)
    BY <2>5, SpellNothing
  <2> QED
    BY <1>1, <2>4, <2>6 DEF CoverInv, Covers, PendingFrom, Parsed
<1> QED
  BY <1>2, <1>3

(* Each turn of the loop passes what the pending text or the next item     *)
(* stands for.                                                             *)
LEMMA CoverTurn ==
  ASSUME Typed, CoverInv, Next
  PROVE  CoverInv'
<1> DEFINE p == pattern_
           N == Len(pattern_)
<1>0. N \in Nat /\ pos \in Nat /\ pos > 0 /\ items_ \in Seq(Items) /\ str \in Seq(Chars)
  BY PatternFacts DEF Typed
<1>2. CASE Literal
  <2>1. p[pos] # "%" /\ pos <= N /\ pos' = pos + 1 /\ str' = Append(str, p[pos]) /\ p[pos] \in Chars
        /\ UNCHANGED <<pattern_, items_, error_>>
    BY <1>0, <1>2, Ahead, InPattern DEF Literal
  <2>2. Quoted(p[pos]) = SubSeq(p, pos, (pos + 1) - 1)
    BY <1>0, <2>1, Pieces DEF Quoted
  <2>3. pos + 1 \in 1..N + 1 /\ pos < pos + 1
    BY <1>0, <2>1
  <2> QED
    BY <2>1, <2>2, <2>3, CoverText
<1>3. CASE LonePercent
  BY <1>3 DEF LonePercent, CoverInv
<1>4. CASE EscapedPercent
  <2>1. p[pos] = "%" /\ pos + 1 <= N /\ p[pos + 1] = "%" /\ pos' = pos + 2 /\ str' = Append(str, "%")
        /\ UNCHANGED <<pattern_, items_, error_>>
    BY <1>4, Ahead DEF EscapedPercent
  <2>2. Quoted("%") = SubSeq(p, pos, (pos + 2) - 1)
    <3>1. pos \in 1..N - 1 /\ (pos + 2) - 1 = pos + 1
      BY <1>0, <2>1
    <3> QED
      BY <2>1, <3>1, Pieces DEF Quoted
  <2>3. pos + 2 \in 1..N + 1 /\ pos < pos + 2 /\ pos <= N /\ "%" \in Chars
    BY <1>0, <2>1, KeyFacts
  <2> QED
    BY <2>1, <2>2, <2>3, CoverText
<1>5. CASE NamedItem
  <2> DEFINE k == p[pos + 1]
  <2>1. p[pos] = "%" /\ pos + 1 <= N /\ k \in Chars /\ Emit(ItemFor(k), pos + 2)
    BY <1>0, <1>5, Ahead, InPattern DEF NamedItem
  <2>2. ItemFor(k) \in Items /\ (ItemFor(k) # Error => ItemFor(k) = Named(k))
    BY <2>1 DEF ItemFor, Named, Error, Items
  <2>3. <<"%", k>> \in Spellings(Named(k))
    <3>1. Spellings(Named(k)) = {<<"%">> \o <<k>>}
      BY DEF Spellings, Named
    <3>2. <<"%">> \in Seq(Chars) /\ <<k>> \in Seq(Chars)
      BY <2>1, KeyFacts
    <3> DEFINE s == <<"%">> \o <<k>>
    <3>3. s \in Seq(Chars) /\ Len(s) = 2 /\ s[1] = "%" /\ s[2] = k
      BY <3>2, ConcatProperties
    <3> HIDE DEF s
    <3>4. s = <<"%", k>>
      BY <3>3, ShortSequences
    <3> QED
      BY <3>1, <3>4 DEF s
  <2>4. SubSeq(p, pos, (pos + 2) - 1) = <<"%", k>>
    <3>1. pos \in 1..N - 1 /\ (pos + 2) - 1 = pos + 1
      BY <1>0, <2>1
    <3> QED
      BY <2>1, <3>1, Pieces
  <2>5. pos + 2 \in 1..N + 1 /\ pos < pos + 2 /\ pos <= N
    BY <1>0, <2>1
  <2> HIDE DEF k
  <2> QED
    BY <2>1, <2>2, <2>3, <2>4, <2>5, CoverEmit
<1>6. CASE LastDate
  <2>1. p[pos] = "%" /\ pos + 1 = N /\ p[pos + 1] = "d" /\ pos' = pos + 2
        /\ items_' = Flushed /\ UNCHANGED <<pattern_, error_>>
    BY <1>0, <1>6, Ahead DEF LastDate, PastDate
  <2>2. SubSeq(p, (pos - 1) + 1, N) = <<"%", "d">>
    BY <1>0, <2>1, Pieces, pos \in 1..N - 1
  <2>3. Parsed'
    BY <1>0, <2>1 DEF Parsed
  <2>4. CASE error_
    BY <2>1, <2>4 DEF CoverInv
  <2>5. CASE ~error_
    <3>1. PICK b \in [0..Len(Flushed) -> 0..N] : Covers(Flushed, b) /\ b[Len(Flushed)] = pos - 1
      BY <1>0, <2>1, <2>5, FlushedCovers
    <3>2. PICK e : e = b[Len(Flushed)] /\ SubSeq(p, e + 1, N) = <<"%", "d">>
      BY <2>2, <3>1
    <3>3. Covers(items_, b)'
      BY <2>1, <3>1 DEF Covers
    <3>4. PendingFrom(e)' /\ e = b[Len(items_')]
      BY <2>1, <2>3, <3>2 DEF PendingFrom
    <3> QED
      BY <2>1, <3>1, <3>3, <3>4 DEF CoverInv
  <2> QED
    BY <2>4, <2>5
<1>7. CASE PlainDate
  <2>1. p[pos] = "%" /\ pos + 2 <= N /\ p[pos + 1] = "d" /\ Emit(Time(<<>>), pos + 2)
    BY <1>7, Ahead DEF PlainDate
  <2>2. Time(<<>>) \in Items /\ <<"%", "d">> \in Spellings(Time(<<>>))
    BY DEF Time, Items, Spellings
  <2>3. SubSeq(p, pos, (pos + 2) - 1) = <<"%", "d">>
    <3>1. pos \in 1..N - 1 /\ (pos + 2) - 1 = pos + 1
      BY <1>0, <2>1
    <3> QED
      BY <2>1, <3>1, Pieces
  <2>4. pos + 2 \in 1..N + 1 /\ pos < pos + 2 /\ pos <= N
    BY <1>0, <2>1
  <2> QED
    BY <2>1, <2>2, <2>3, <2>4, CoverEmit
<1>8. CASE BracedDate
  <2>1. p[pos] = "%" /\ pos + 2 <= N /\ p[pos + 1] = "d" /\ p[pos + 2] = Open
    BY <1>8, Ahead DEF BracedDate
  <2>2. CASE Closing # {}
    <3> DEFINE j == Min(Closing)
               a == SubSeq(p, pos + 3, j - 1)
    <3>1. j \in pos + 3..N /\ p[j] = Close
      BY <2>2, ClosingFacts
    <3>2. Emit(Time(a), j + 1)
      <4>1. ~(Closing = {} /\ More(3)) /\ More(3)
        BY <1>0, <2>2, <3>1, Ahead
      <4> QED
        BY <1>8, <4>1 DEF BracedDate, PastBrace
    <3> HIDE DEF j
    <3>3. a \in Seq(Chars)
      <4>1. \A i \in pos + 3..j - 1 : p[i] \in Chars
        BY <1>0, <3>1, InPattern
      <4> QED
        BY <1>0, <3>1, <4>1, SubSeqProperties
    <3>4. SubSeq(p, pos, j) = Braced(a)
      <4>1. SubSeq(p, pos, pos + 2) = <<"%", "d", Open>>
        BY <2>1, Pieces
      <4>2. SubSeq(p, pos, pos + 2) \o SubSeq(p, (pos + 2) + 1, j - 1) = SubSeq(p, pos, j - 1)
        BY <1>0, <3>1, ConcatAdjacentSubSeq, pos \in 1..N + 1, pos + 2 \in pos - 1..N, j - 1 \in pos + 2..N
           DEF Typed
      <4>3. SubSeq(p, pos, j - 1) \o SubSeq(p, (j - 1) + 1, j) = SubSeq(p, pos, j)
        BY <1>0, <3>1, ConcatAdjacentSubSeq, pos \in 1..N + 1, j - 1 \in pos - 1..N, j \in j - 1..N
           DEF Typed
      <4>4. SubSeq(p, j, j) = <<Close>>
        <5> DEFINE s == SubSeq(p, j, j)
        <5>1. p[j] \in Chars
          BY <1>0, <3>1, InPattern
        <5>2. s \in Seq(Chars) /\ Len(s) = 1 /\ s[1] = p[j]
          BY <1>0, <3>1, <5>1, SubSeqProperties
        <5> HIDE DEF s
        <5>3. s = <<p[j]>>
          BY <5>2, ShortSequences
        <5> QED
          BY <3>1, <5>3 DEF s
      <4>5. (pos + 2) + 1 = pos + 3 /\ (j - 1) + 1 = j
        BY <1>0, <3>1
      <4> QED
        BY <4>1, <4>2, <4>3, <4>4, <4>5 DEF Braced
    <3> HIDE DEF a
    <3>5. Time(a) \in Items /\ Braced(a) \in Spellings(Time(a))
      BY <3>3 DEF Time, Items, Spellings
    <3>6. j + 1 \in 1..N + 1 /\ pos < j + 1 /\ pos <= N /\ (j + 1) - 1 = j
      BY <1>0, <3>1
    <3> QED
      BY <3>2, <3>4, <3>5, <3>6, CoverEmit
  <2>3. CASE Closing = {}
    <3>1. \E e \in 1..N + 1 : pos < e /\ Emit(Error, e)
      <4>1. CASE More(3) /\ Emit(Error, pos + 4)
        BY <1>0, <4>1, Ahead
      <4>2. CASE Emit(Error, pos + 3)
        BY <1>0, <2>1, <4>2
      <4> QED
        BY <1>8, <2>3, <4>1, <4>2 DEF BracedDate
    <3>2. Error \in Items /\ pos <= N
      BY <1>0, <2>1 DEF Error, Items
    <3> QED
      BY <3>1, <3>2, CoverEmit
  <2> QED
    BY <2>2, <2>3
<1> QED
  BY <1>2, <1>3, <1>4, <1>5, <1>6, <1>7, <1>8 DEF Next

(* OnlyTheTailIsLost: behind its loop, and when no error was met, Init has *)
(* made items of the whole pattern but for its tail, which is the text it  *)
(* has left in str or a "%d" at the end.                                   *)
THEOREM OnlyTheTailIsLostTheorem == Spec => []OnlyTheTailIsLost
<1>1. Init => CoverInv
  <2> SUFFICES ASSUME Init PROVE CoverInv
    OBVIOUS
  <2>1. Len(pattern_) \in Nat
    BY Start DEF Typed
  <2>2. Len(items_) = 0 /\ pos = 1 /\ str = <<>>
    BY DEF Init
  <2> DEFINE b == [k \in 0..0 |-> 0]
  <2>3. b \in [0..Len(items_) -> 0..Len(pattern_)] /\ b[0] = 0
    BY <2>1, <2>2
  <2> HIDE DEF b
  <2>4. Covers(items_, b)
    BY <2>2, <2>3 DEF Covers
  <2>5. SubSeq(pattern_, 0 + 1, 1 - 1) = SpellText(<<>>)
    <3>1. 0 + 1 = 1 /\ 1 - 1 = 0
      OBVIOUS
    <3>2. SubSeq(pattern_, 1, 0) = <<>>
      BY SubSeqEmpty
    <3> QED
      BY <3>1, <3>2, SpellNothing
  <2>6. PendingFrom(b[Len(items_)])
    BY <2>2, <2>3, <2>5 DEF PendingFrom
  <2> QED
    BY <2>3, <2>4, <2>6 DEF CoverInv
<1>2. Typed /\ CoverInv /\ [Next]_vars => CoverInv'
  <2>1. ASSUME CoverInv, UNCHANGED vars PROVE CoverInv'
    BY <2>1 DEF CoverInv, Covers, PendingFrom, Parsed, vars
  <2> QED
    BY <2>1, CoverTurn
<1>3. Typed /\ CoverInv => OnlyTheTailIsLost
  <2> SUFFICES ASSUME Typed, CoverInv, Parsed, ~error_
      PROVE \E b \in [0..Len(items_) -> 0..Len(pattern_)] :
              /\ Covers(items_, b)
              /\ SubSeq(pattern_, b[Len(items_)] + 1, Len(pattern_)) \in {SpellText(str), <<"%", "d">>}
    BY DEF OnlyTheTailIsLost
  <2>1. pos - 1 = Len(pattern_)
    BY PatternFacts DEF Typed, Parsed
  <2> QED
    BY <2>1 DEF CoverInv, PendingFrom
<1> QED
  BY <1>1, <1>2, <1>3, GrammarTheorem, PTL DEF Spec
=============================================================================
