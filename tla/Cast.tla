-------------------------------- MODULE Cast --------------------------------
(***************************************************************************)
(* The LexicalCast templates of config.h: conversions between texts and    *)
(* the values of variables.  The templates nest: here a vector or a set    *)
(* has scalars of the type ty, and a map has vectors of them.              *)
(*                                                                         *)
(* The casts do not look at the characters of a text but at what           *)
(* YAML::Load makes of it, so a text is represented by that.  The text     *)
(* that yaml-cpp prints of a node is the node: a sequence [tag, seq], a    *)
(* map [tag, map], the sequence of its entries, Null, or a scalar, with    *)
(* the field int when its text is that of an integer.  Any other text --   *)
(* with a comment, quotes, other blanks, "null" for "~", nothing at all -- *)
(* is Raw: its characters, which a variable of strings keeps, and the node *)
(* that it is read as; or Bad: it is not YAML.                             *)
(*                                                                         *)
(* This takes of yaml-cpp that what it prints of a node reads as the node. *)
(***************************************************************************)
EXTENDS Integers, FiniteSets, SequencesExt

Number(n)    == [tag |-> "int", int |-> n]
Word(w)      == [tag |-> "word", word |-> w]
Sq(s)        == [tag |-> "seq", seq |-> s]
Map(es)      == [tag |-> "map", map |-> es]
Null         == [tag |-> "null"]
Raw(w, node) == [tag |-> "raw", word |-> w, node |-> node]
Bad(w)       == [tag |-> "bad", word |-> w]
Empty        == Raw("", Null)

(* A conversion gives a value or throws.                                   *)
Some(v) == [ok |-> TRUE, val |-> v]
Error   == [ok |-> FALSE]

AllOk(s) == \A i \in DOMAIN s : s[i].ok
Vals(s)  == [i \in DOMAIN s |-> s[i].val]

(* YAML::Load                                                              *)
Load(x) ==
  CASE x.tag = "raw" -> Some(x.node)
    [] x.tag = "bad" -> Error
    [] OTHER         -> Some(x)

(* A node, as deep as the conversions look: an element; elements, or a map *)
(* of elements; a map of these.                                            *)
IsNode(n) ==
  "tag" \in DOMAIN n /\ n.tag \notin {"raw", "bad"} /\ ("int" \in DOMAIN n => n.int \in Int)

IsList(n) ==
  /\ IsNode(n)
  /\ n.tag = "seq" => n.seq \in Seq(ToSet(n.seq)) /\ \A e \in ToSet(n.seq) : IsNode(e)
  /\ n.tag = "map" => n.map \in Seq(ToSet(n.map)) /\ \A e \in ToSet(n.map) : IsNode(e.node)

IsTree(n) == IsList(n) /\ (n.tag = "map" => \A e \in ToSet(n.map) : IsList(e.node))

(* A text, the element of a set or of a document.                          *)
IsString(x) ==
  /\ "tag" \in DOMAIN x
  /\ x.tag = "raw" => x = Raw(x.word, x.node)
  /\ x.tag = "bad" => x = Bad(x.word)
  /\ Load(x).ok => IsNode(Load(x).val)

IsText(x) == IsString(x) /\ (Load(x).ok => IsTree(Load(x).val))

-----------------------------------------------------------------------------
(* From a text.                                                            *)
ToInt(x)      == IF "int" \in DOMAIN x THEN Some(x.int) ELSE Error
ToText(x)     == Some(x)
Scalar(ty, x) == IF ty = "int" THEN ToInt(x) ELSE ToText(x)

(* The text of node[k] of a map: its value under the number k, or nothing. *)
ValueAt(entries, k) ==
  LET under == {j \in DOMAIN entries : ToInt(entries[j].key) = Some(k)}
  IN IF under = {} THEN Empty ELSE entries[Min(under)].node

(* The texts of node[0], node[1], ...; a scalar has size 0.                *)
Elements(n) ==
  CASE n.tag = "seq" -> n.seq
    [] n.tag = "map" -> [i \in DOMAIN n.map |-> ValueAt(n.map, i - 1)]
    [] OTHER         -> <<>>

(* vector and list                                                         *)
ToVector(ty, x) ==
  LET n  == Load(x)
      es == [i \in DOMAIN Elements(n.val) |-> Scalar(ty, Elements(n.val)[i])]
  IN IF n.ok /\ AllOk(es) THEN Some(Vals(es)) ELSE Error

(* set and unordered_set                                                   *)
ToSetOf(ty, x) ==
  LET v == ToVector(ty, x) IN IF v.ok THEN Some(ToSet(v.val)) ELSE Error

(* map and unordered_map: insert keeps the first entry of a key; a         *)
(* sequence has no keys.                                                   *)
ToMap(ty, x) ==
  LET n       == Load(x)
      entries == IF n.val.tag = "map" THEN n.val.map ELSE <<>>
      es      == [i \in DOMAIN entries |-> ToVector(ty, entries[i].node)]
      At(k)   == CHOOSE i \in DOMAIN entries :
                   entries[i].key = k /\ \A j \in 1..(i - 1) : entries[j].key # k
  IN IF n.ok /\ AllOk(es) /\ ~(n.val.tag = "seq" /\ n.val.seq # <<>>)
     THEN Some([k \in {entries[i].key : i \in DOMAIN entries} |-> es[At(k)].val])
     ELSE Error

-----------------------------------------------------------------------------
(* To a text.                                                              *)
OfInt(n)        == Number(n)
OfText(s)       == s
OfScalar(ty, v) == IF ty = "int" THEN OfInt(v) ELSE OfText(v)

(* A text that is pushed as it is, a scalar, without YAML::Load.           *)
AsScalar(text) == Some(IF text.tag \in {"int", "word"} THEN text ELSE Word("text"))

(* The node that is pushed for an element.                                 *)
Pushed(text) == Load(text)

OfVector(ty, v) ==
  LET ns == [i \in DOMAIN v |-> Pushed(OfScalar(ty, v[i]))]
  IN IF AllOk(ns) THEN Some(Sq(Vals(ns))) ELSE Error

OfSet(ty, s) == OfVector(ty, SetToSeq(s))

OfMap(ty, m) ==
  LET ks == SetToSeq(DOMAIN m)
      xs == [i \in DOMAIN ks |-> OfVector(ty, m[ks[i]])]
      ns == [i \in DOMAIN ks |-> IF xs[i].ok THEN Pushed(xs[i].val) ELSE Error]
  IN IF AllOk(ns) THEN Some(Map([i \in DOMAIN ks |-> [key |-> ks[i], node |-> ns[i].val]])) ELSE Error

-----------------------------------------------------------------------------
(* FromStr and ToStr of the types that variables have.                     *)
CastTypes == {"int", "string", "vector<int>", "set<string>", "map<vector<int>>"}

(* The values of a type.                                                   *)
IsValue(ty, v) ==
  CASE ty = "int"              -> v \in Int
    [] ty = "string"           -> IsText(v)
    [] ty = "vector<int>"      -> v \in Seq(Int)
    [] ty = "set<string>"      -> IsFiniteSet(v) /\ \A s \in v : IsString(s)
    [] ty = "map<vector<int>>" -> IsFiniteSet(DOMAIN v) /\ v \in [DOMAIN v -> Seq(Int)]

FromStr(ty, x) ==
  CASE ty = "int"              -> ToInt(x)
    [] ty = "string"           -> ToText(x)
    [] ty = "vector<int>"      -> ToVector("int", x)
    [] ty = "set<string>"      -> ToSetOf("string", x)
    [] ty = "map<vector<int>>" -> ToMap("int", x)

ToStr(ty, v) ==
  CASE ty = "int"              -> Some(OfInt(v))
    [] ty = "string"           -> Some(OfText(v))
    [] ty = "vector<int>"      -> OfVector("int", v)
    [] ty = "set<string>"      -> OfSet("string", v)
    [] ty = "map<vector<int>>" -> OfMap("int", v)

(* ConfigVar::ToString: an exception is caught and gives no text.          *)
TextOf(ty, v) == IF ToStr(ty, v).ok THEN ToStr(ty, v).val ELSE Empty
=============================================================================
