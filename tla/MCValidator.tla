---------------------------- MODULE MCValidator ----------------------------
(***************************************************************************)
(* Model types for Validator.  Runes: "a", "A", "/", "." and digits are    *)
(* ASCII; "e" stands for a rune in \x80-\xff (say 'é') and "w" for one     *)
(* above \xff (say '中').  Every tag key the model covers appears on some  *)
(* field.                                                                  *)
(***************************************************************************)
EXTENDS Validator

Fld(n, k, tag, e) == [name |-> n, kind |-> k, tag |-> tag, elem |-> e]
Flag(k) == k :> <<>>
Key(k, text) == k :> text

\* Inner { X basic.TimeStandard `verf` }
MCInner == << Fld("X", "time", Flag("verf"), "none") >>

MCTypes ==
  "Doc" :> << Fld("Path", "string", Flag("verf") @@ Flag("nilable") @@ Flag("absPath")
                  @@ Key("maxLen", <<"1">>) @@ Key("endWith", <<"a">>), "none"),
              Fld("Name", "*string", Flag("verf") @@ Key("minLen", <<"1">>)
                  @@ Key("inList2", <<"a", ",", "/">>), "none") >>
  @@ "Form" :> << Fld("Code", "string", Flag("verf") @@ Key("equal", <<"a">>)
                  @@ Flag("ascii"), "none"),
              Fld("Kind", "string", Flag("verf") @@ Flag("nilable") @@ Key("len", <<"1">>)
                  @@ Key("startWith", <<"a">>)
                  @@ Key("inList", <<"a", ",", "/", "a">>), "none") >>
  @@ "Count" :> << Fld("N", "int", Flag("verf") @@ Flag("nilable")
                  @@ Key("biggerEq", <<"1">>) @@ Key("lower", <<"2">>), "none"),
              Fld("P", "*int", Flag("verf") @@ Key("bigger", <<"0">>)
                  @@ Key("lowerEq", <<"1">>), "none"),
              Fld("E", "int", Flag("verf") @@ Key("equal", <<"1">>), "none") >>
  @@ "List" :> << Fld("Tags", "[]string", Flag("verf") @@ Key("minLen", <<"1">>)
                  @@ Flag("non-repeatable") @@ Key("itemMinLen", <<"1">>)
                  @@ Key("itemMaxLen", <<"1">>) @@ Key("maxSumLen", <<"1">>)
                  @@ Key("minSumLen", <<"1">>) @@ Flag("ascii"), "none") >>
  @@ "Nums" :> << Fld("Ids", "[]int", Flag("verf") @@ Flag("nilable")
                  @@ Key("inList", <<"1", ",", "2">>) @@ Key("len", <<"1">>), "none") >>
  @@ "Outer" :> << Fld("In", "struct", [k \in {} |-> <<>>], "Inner"),
              Fld("P", "*struct", Flag("verf"), "Inner"),
              Fld("T", "time", Flag("verf"), "none"),
              Fld("M", "map", Flag("verf"), "none"),
              Fld("S", "string", [k \in {} |-> <<>>], "none") >>
  @@ "Outers" :> << Fld("L", "[]struct", Flag("verf") @@ Key("maxLen", <<"1">>), "Inner"),
              Fld("Q", "[]*struct", Flag("verf") @@ Flag("nilable"), "Inner") >>
  @@ "Inner" :> MCInner

MCTopTypes == {"Doc", "Form", "Count", "List", "Nums", "Outer", "Outers"}
MCLatin1 == {"a", "A", "/", ".", "e"}
MCAscii == {"a", "A", "/", "."}
MCStrs == {<<>>, <<"a">>, <<"A">>, <<"/">>, <<"/", "a">>, <<"w">>}
MCInts == 0..2
=============================================================================
