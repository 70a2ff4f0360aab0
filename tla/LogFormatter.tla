---------------------------- MODULE LogFormatter ----------------------------
(***************************************************************************)
(* LogFormatter::Init of log.cpp: the pattern of a formatter is cut into   *)
(* items.  A step is one turn of its loop.  A pattern is a sequence of     *)
(* characters; the model counts positions from 1.                          *)
(***************************************************************************)
EXTENDS Naturals, SequencesExt

CONSTANTS
  Chars,   \* the characters a pattern is made of
  Keys,    \* those that name an item (the keys of itemMap other than "d")
  MaxLen   \* bound: the length of a pattern

Open  == "{"
Close == "}"

ASSUME LogFormatterAssumption ==
  /\ {"%", "d", Open, Close} \subseteq Chars
  /\ Keys \subseteq Chars \ {"%", "d", Open, Close}
  /\ MaxLen \in Nat

VARIABLES pattern_, pos, str, items_, error_

vars == <<pattern_, pos, str, items_, error_>>

(* A format item: literal text, a named item, the time with its format, or *)
(* the text that reports an error.                                         *)
Text(s)  == [item |-> "text", arg |-> s]
Named(k) == [item |-> "named", arg |-> <<k>>]
Time(s)  == [item |-> "time", arg |-> s]
Error    == [item |-> "error", arg |-> <<>>]

(* The type invariant.                                                     *)
TypeOK ==
  /\ pattern_ \in Seq(Chars)
  /\ pos \in 1..MaxLen + 1
  /\ str \in Seq(Chars)
  /\ items_ \in Seq([item : {"text", "named", "time", "error"}, arg : Seq(Chars)])
  /\ error_ \in BOOLEAN

Init ==
  /\ pattern_ \in BoundedSeq(Chars, MaxLen)
  /\ pos = 1
  /\ str = <<>>
  /\ items_ = <<>>
  /\ error_ = FALSE

-----------------------------------------------------------------------------
More(n) == pos + n <= Len(pattern_)
At(n)   == pattern_[pos + n]

NotFlushed == items_

(* The items once the pending text has become one.                         *)
Flushed == IF str = <<>> THEN items_ ELSE Append(items_, Text(str))

Literal ==
  /\ More(0) /\ At(0) # "%"
  /\ str' = Append(str, At(0))
  /\ pos' = pos + 1
  /\ UNCHANGED <<pattern_, items_, error_>>

LonePercent ==
  /\ More(0) /\ At(0) = "%" /\ ~More(1)
  /\ items_' = Append(items_, Error)
  /\ error_' = TRUE
  /\ pos' = pos + 1
  /\ UNCHANGED <<pattern_, str>>

EscapedPercent ==
  /\ More(1) /\ At(0) = "%" /\ At(1) = "%"
  /\ str' = Append(str, "%")
  /\ pos' = pos + 2
  /\ UNCHANGED <<pattern_, items_, error_>>

(* After the pending text comes item x; the loop goes on at position p.    *)
Emit(x, p) ==
  /\ items_' = Append(Flushed, x)
  /\ error_' = (error_ \/ x = Error)
  /\ str' = <<>>
  /\ pos' = p
  /\ UNCHANGED pattern_

AnyItem(k) == Named(k)

(* The item a character after "%" stands for.                              *)
ItemFor(k) == IF k \in Keys THEN Named(k) ELSE Error

NamedItem ==
  /\ More(1) /\ At(0) = "%" /\ At(1) \notin {"%", "d"}
  /\ Emit(ItemFor(At(1)), pos + 2)

AtDate   == pos
PastDate == pos + 2

(* "%d" at the end of the pattern adds no item.                            *)
LastDate ==
  /\ More(1) /\ At(0) = "%" /\ At(1) = "d" /\ ~More(2)
  /\ items_' = Flushed
  /\ str' = <<>>
  /\ pos' = PastDate
  /\ UNCHANGED <<pattern_, error_>>

PlainDate ==
  /\ More(2) /\ At(0) = "%" /\ At(1) = "d" /\ At(2) # Open
  /\ Emit(Time(<<>>), pos + 2)

Closing == {j \in pos + 3..Len(pattern_) : pattern_[j] = Close}

AfterNext(j) == j + 2
PastBrace(j) == j + 1

(* "%d{...}"; without a closing brace the loop goes on after the first     *)
(* character behind the opening one.                                       *)
BracedDate ==
  /\ More(2) /\ At(0) = "%" /\ At(1) = "d" /\ At(2) = Open
  /\ \/ /\ Closing # {}
        /\ LET j == Min(Closing)
           IN Emit(Time(SubSeq(pattern_, pos + 3, j - 1)), PastBrace(j))
     \/ /\ Closing = {} /\ More(3)
        /\ Emit(Error, pos + 4)
     \/ /\ ~More(3)
        /\ Emit(Error, pos + 3)

Next ==
  \/ Literal \/ LonePercent \/ EscapedPercent \/ NamedItem
  \/ LastDate \/ PlainDate \/ BracedDate

Spec == Init /\ [][Next]_vars /\ WF_vars(Next)

-----------------------------------------------------------------------------
(* How a pattern may spell an item: "%" of a text is doubled, and the time *)
(* without a format is written with empty braces or with none.             *)
SpellText(s) == FlattenSeq([k \in DOMAIN s |-> IF s[k] = "%" THEN <<"%", "%">> ELSE <<s[k]>>])

Braced(s) == <<"%", "d", Open>> \o s \o <<Close>>

Spellings(x) ==
  CASE x.item = "text"  -> {SpellText(x.arg)}
    [] x.item = "named" -> {<<"%">> \o x.arg}
    [] x.item = "time"  -> {Braced(x.arg)} \cup IF x.arg = <<>> THEN {<<"%", "d">>} ELSE {}
    [] x.item = "error" -> {}

(* The items q stand for consecutive parts of the pattern, from its        *)
(* beginning on; the k-th part ends at b[k].                               *)
Covers(q, b) ==
  /\ b[0] = 0
  /\ \A k \in 1..Len(q) :
       b[k - 1] <= b[k] /\ SubSeq(pattern_, b[k - 1] + 1, b[k]) \in Spellings(q[k])

Parsed == pos > Len(pattern_)

(* The grammar of the comment on LogFormatter::Init (%x, %d{...}, %%): a   *)
(* character of the text or a directive reaches from k up to e ...         *)
Directive(p, k, e) ==
  \/ p[k] # "%" /\ e = k + 1
  \/ /\ p[k] = "%" /\ k < Len(p)
     /\ \/ p[k + 1] \in Keys \cup {"%"} /\ e = k + 2
        \/ /\ p[k + 1] = "d" /\ (k + 2 > Len(p) \/ p[k + 2] # Open)
           /\ e = k + 2
        \/ /\ p[k + 1] = "d" /\ k + 2 <= Len(p) /\ p[k + 2] = Open
           /\ \E j \in k + 3..Len(p) :
                p[j] = Close /\ (\A i \in k + 3..j - 1 : p[i] # Close) /\ e = j + 1

(* ... and a pattern is well formed if cuts between them lead from its     *)
(* beginning to its end.                                                   *)
Cuts(p, C) == 1 \in C /\ \A k \in C : k > Len(p) \/ \E e \in C : Directive(p, k, e)

WellFormed(p) == \E C \in SUBSET (1..Len(p) + 1) : Cuts(p, C)

(* What a formatter loses of a pattern without errors is its tail, and     *)
(* only this: the text behind the last directive, which Init leaves in str *)
(* and never makes an item, or a "%d" at the very end (so that a lone "%%" *)
(* or "%d" prints nothing).  Everything before it has become the items, in *)
(* order, with no part skipped, doubled or added.                          *)
OnlyTheTailIsLost ==
  Parsed /\ ~error_ =>
    \E b \in [0..Len(items_) -> 0..Len(pattern_)] :
      /\ Covers(items_, b)
      /\ SubSeq(pattern_, b[Len(items_)] + 1, Len(pattern_)) \in {SpellText(str), <<"%", "d">>}

(* A formatter reports an error exactly when its pattern is malformed, so  *)
(* that SetFormatter refuses it.                                           *)
ErrorIffMalformed == Parsed => (error_ <=> ~WellFormed(pattern_))

(* The loop ends: the position moves on even after an error.               *)
Terminates == <>[]Parsed
=============================================================================
