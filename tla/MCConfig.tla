------------------------------ MODULE MCConfig ------------------------------
(* Config for TLC: names, types and documents.                             *)
EXTENDS Config, TLC

SmallParts == {"a", "b", "A"}
SmallLower == "a" :> "a" @@ "b" :> "b" @@ "A" :> "a"
SmallNames == {<<"a">>, <<"a", "b">>, <<"A">>}

(* A set of strings that is not what YAML makes of it.                     *)
SmallDefault ==
  [ty \in Types |->
     CASE ty = "int"              -> 0
       [] ty = "set<string>"      -> {Word("x"), Raw("null", Null)}
       [] ty = "map<vector<int>>" -> <<>>]

N(key, text) == [key |-> key, text |-> text]
E(key, node) == [key |-> Word(key), node |-> node]

(* A map with a member that is a sequence, under two entries of one key;   *)
(* and a document with a key in upper case, a map with a null, a map under *)
(* a number, a sequence in quotes and a scalar that is not YAML.           *)
Twice  == Sq(<<Number(2), Number(2)>>)
Upper  == Map(<<E("b", Null)>>)
Mixed  == Map(<<[key |-> Number(0), node |-> Word("x")], E("b", Word("'[1]'")), E("b", Word("["))>>)
SmallDocs ==
  {<<N(<<>>, Map(<<E("a", Map(<<E("b", Twice), E("b", Number(1))>>))>>)),
     N(<<"a">>, Map(<<E("b", Twice), E("b", Number(1))>>)), N(<<"a", "b">>, Twice), N(<<"a", "b">>, Number(1))>>,
   <<N(<<>>, Map(<<E("A", Upper), E("a", Mixed)>>)),
     N(<<"A">>, Upper), N(<<"A", "b">>, Null),
     N(<<"a">>, Mixed), N(<<"a", "b">>, Raw("[1]", Sq(<<Number(1)>>))), N(<<"a", "b">>, Bad("["))>>}
=============================================================================
