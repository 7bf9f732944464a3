------------------------------ MODULE Validator ------------------------------
(***************************************************************************)
(* The struct-tag validator of src/validator/validator.go.  Validate(model) *)
(* looks the model's rules up in a cache shared by all goroutines (read    *)
(* lock), builds and stores them on a miss (createColsRules, then addModel *)
(* under the write lock), and walks the value field by field, returning    *)
(* the first error.                                                        *)
(*                                                                         *)
(* A struct type is a sequence of fields [name, kind, tag, elem]; kind is  *)
(* the Go type ("string", "*string", "int", "*int", "[]string", "[]int",   *)
(* "struct", "*struct", "[]struct", "[]*struct", "time" for TimeStandard   *)
(* and Day, "map" for a kind the validator does not support) and elem the  *)
(* struct type of the struct kinds.  A tag maps each key it has to its     *)
(* text; the flags (verf, nilable, absPath, ascii, non-repeatable) are the *)
(* keys present.  A text is a sequence of runes, one string each.  A       *)
(* struct value is the tuple of its fields' values; a nil pointer is NilV. *)
(* Field paths are sequences of names (getFieldName's "a.b.c").            *)
(*                                                                         *)
(* Not modelled: the reg, ipv4 and unBase64MaxLen rules (a regular         *)
(* expression and base64 decoding), bool, float and interface fields, and  *)
(* anonymous (embedded) fields.                                            *)
(***************************************************************************)
EXTENDS Integers, Sequences, SequencesExt, TLC

CONSTANTS
    Types,      \* struct type name -> its fields
    TopTypes,   \* the model types callers pass to Validate
    Callers,    \* goroutines calling Validate
    Latin1,     \* runes in \x00-\xff (what the ascii rule's class accepts)
    AsciiRunes, \* runes in \x00-\x7f
    NilV,       \* a nil pointer
    NoRules,    \* no entry in the rule cache
    Strs,       \* the string values fields may hold
    Ints,       \* the int values fields may hold
    MaxElems,   \* bound: elements of a slice value
    NilElems    \* whether a []*Struct value may hold nil elements (JSON null)

Ok == [err |-> "none", at |-> <<>>]
Err(e, p) == [err |-> e, at |-> p]
NoResult == [err |-> "pending", at |-> <<>>]

PtrKinds == {"*string", "*int", "*struct"}
StructKinds == {"struct", "*struct", "[]struct", "[]*struct"}
Digits == <<"0", "1", "2", "3", "4", "5", "6", "7", "8", "9">>

-----------------------------------------------------------------------------
(***************************************************************************)
(* Conversions of src/tools: Length counts runes; ToInt is strconv.Atoi    *)
(* with its error ignored (a text that is not a number gives 0); ToString  *)
(* of an int is its decimal text; strings.Split on ",".                    *)
(***************************************************************************)
Length(s) == Len(s)

DigitVal(c) == CHOOSE i \in 0..9 : Digits[i + 1] = c

RECURSIVE Atoi(_)
Atoi(s) == IF s = <<>> THEN 0
           ELSE 10 * Atoi(SubSeq(s, 1, Len(s) - 1)) + DigitVal(s[Len(s)])

IsNumber(s) == s # <<>> /\ \A i \in 1..Len(s) : s[i] \in Range(Digits)

ToInt(s) ==
    CASE IsNumber(s) -> Atoi(s)
      [] Len(s) > 1 /\ s[1] = "-" /\ IsNumber(Tail(s)) -> -Atoi(Tail(s))
      [] OTHER -> 0

RECURSIVE Decimal(_)
Decimal(n) ==
    CASE n < 0  -> <<"-">> \o Decimal(-n)
      [] n < 10 -> <<Digits[n + 1]>>
      [] OTHER  -> Decimal(n \div 10) \o <<Digits[(n % 10) + 1]>>

RECURSIVE Split(_)
Split(s) ==
    LET i == SelectInSeq(s, LAMBDA c : c = ",")
    IN  IF i = 0 THEN <<s>>
        ELSE <<SubSeq(s, 1, i - 1)>> \o Split(SubSeq(s, i + 1, Len(s)))

Lower(s) == [i \in DOMAIN s |-> IF s[i] = "A" THEN "a" ELSE s[i]]

\* strings.Index(s, start) == 0
StartWith(s, start) == IsPrefix(start, s)

\* regexp.MustCompile(end + `$`): the suffix is a pattern, "." any rune.
EndWith(s, end) ==
    /\ Len(end) <= Len(s)
    /\ \A i \in 1..Len(end) : end[i] = "." \/ end[i] = s[Len(s) - Len(end) + i]

ContainsString2(list, item, noMatch) ==
    \E i \in 1..Len(list) :
        IF noMatch THEN Lower(list[i]) = Lower(item) ELSE list[i] = item

CompareNumber(isInt, a, v2, f) ==
    LET b == ToInt(v2)
    IN  IF ~isInt THEN "err"
        ELSE IF CASE f = 1 -> a > b [] f = 2 -> a >= b
                  [] f = 3 -> a < b [] f = 4 -> a <= b
             THEN "true" ELSE "false"

-----------------------------------------------------------------------------
(***************************************************************************)
(* Rule.setXxx: a key counts when tag.Get(key) is not empty.  The length   *)
(* keys are converted with ToInt, inList is split on "," and wins over     *)
(* inList2 (which also sets the InList2 flag); the other keys keep their   *)
(* text.                                                                   *)
(***************************************************************************)
NumKeys == {"len", "minLen", "maxLen", "minSumLen", "maxSumLen"}
FlagKeys == {"nilable", "absPath", "ascii", "non-repeatable"}

RuleOf(tag) ==
    LET set == {k \in DOMAIN tag : k \in FlagKeys \/ tag[k] # <<>>}
        list == IF "inList" \in set THEN {"inList"}
                ELSE IF "inList2" \in set THEN {"inList", "inList2"} ELSE {}
        keys == (set \ {"verf", "inList", "inList2"}) \cup list
    IN  [k \in keys |->
           CASE k \in NumKeys  -> ToInt(tag[k])
             [] k \in FlagKeys \cup {"inList2"} -> TRUE
             [] k = "inList"   -> Split(IF "inList" \in set THEN tag["inList"]
                                        ELSE tag["inList2"])
             [] OTHER          -> tag[k]]

EmptyRules == [p \in {} |-> NoRules]

\* createColsRules: the nested struct's rules first, then the field's own
\* rule if its tag has verf; a later field overwrites an earlier key.
RECURSIVE createColsRules(_, _)
createColsRules(t, pName) ==
    LET fs == Types[t]
        Col(i) ==
            LET f == fs[i]
                p == pName \o <<f.name>>
                own == IF "verf" \in DOMAIN f.tag THEN p :> RuleOf(f.tag)
                       ELSE EmptyRules
            IN  own @@ (IF f.kind \in StructKinds THEN createColsRules(f.elem, p)
                        ELSE EmptyRules)
        RECURSIVE Cols(_)
        Cols(i) == IF i = 0 THEN EmptyRules ELSE Col(i) @@ Cols(i - 1)
    IN  Cols(Len(fs))
-----------------------------------------------------------------------------
(***************************************************************************)
(* validateField(rule, value): the rules in the code's order, the first    *)
(* that fails giving the error ("range" is OUT_OF_RANGE, "invalid"         *)
(* INVALID_ARGUMENT).  value.Len() of an int panics.  value.String() of a  *)
(* value that is not a string is reflect's "<T Value>", abstracted to a    *)
(* text of its own; fmt's text of a slice likewise.                        *)
(***************************************************************************)
ReflectString(k, v) == IF k = "string" THEN v ELSE <<"<", k, ">">>

ValueText(k, v) ==
    CASE k = "string" -> v [] k = "int" -> Decimal(v) [] OTHER -> <<"[", k, "]">>

\* The strings a []string, string, []int or int rule looks at, one by one.
RuleItems(k, v) ==
    CASE k = "[]string" -> v
      [] k = "[]int"    -> [i \in DOMAIN v |-> Decimal(v[i])]
      [] k = "int"      -> <<Decimal(v)>>
      [] OTHER          -> <<ReflectString(k, v)>>

\* len, minLen, maxLen: runes of a string, value.Len() of anything else.
SizeCheck(r, key, k, v) ==
    LET n == IF k = "string" THEN Length(v) ELSE Len(v)
    IN  CASE key \notin DOMAIN r -> "none"
          [] k = "int" -> "panic"
          [] \/ key = "len" /\ n # r[key]
             \/ key = "minLen" /\ n < r[key]
             \/ key = "maxLen" /\ n > r[key] -> "range"
          [] OTHER -> "none"

EqualCheck(r, k, v) ==
    CASE "equal" \notin DOMAIN r \/ ValueText(k, v) = r["equal"] -> "none"
      [] k = "string" -> "invalid"
      [] OTHER -> "range"

CompareCheck(r, key, f, k, v) ==
    IF key \notin DOMAIN r THEN "none"
    ELSE CASE CompareNumber(k = "int", v, r[key], f) = "err" -> "invalid"
           [] CompareNumber(k = "int", v, r[key], f) = "false" -> "range"
           [] OTHER -> "none"

\* startWith and endWith, on value.String().
TextCheck(r, key, k, v) ==
    LET s == ReflectString(k, v)
    IN  IF /\ key \in DOMAIN r
           /\ ~IF key = "startWith" THEN StartWith(s, r[key]) ELSE EndWith(s, r[key])
        THEN "invalid" ELSE "none"

InListCheck(r, k, v) ==
    CASE "inList" \notin DOMAIN r -> "none"
      [] k \notin {"[]string", "string", "[]int", "int"} -> "invalid"
      [] \E i \in DOMAIN RuleItems(k, v) :
            ~ContainsString2(r["inList"], RuleItems(k, v)[i], "inList2" \in DOMAIN r)
            -> "invalid"
      [] OTHER -> "none"

SumLen(k, v) ==
    IF k = "[]string" THEN FoldSeq(LAMBDA s, acc : Length(s) + acc, 0, v)
    ELSE Length(ReflectString(k, v))

\* minSumLen and maxSumLen.
SumLenCheck(r, key, k, v) ==
    IF /\ key \in DOMAIN r
       /\ IF key = "minSumLen" THEN SumLen(k, v) < r[key] ELSE SumLen(k, v) > r[key]
    THEN "range" ELSE "none"

AbsPath(s) == Len(s) > 0 /\ s[1] = "/"
\* ^[\x00-\xff]*$
Ascii(s) == \A i \in DOMAIN s : s[i] \in Latin1

\* absPath and ascii: every element of a []string, or value.String().
EachCheck(r, key, k, v) ==
    LET xs == IF k = "[]string" THEN v ELSE <<ReflectString(k, v)>>
        Good(x) == IF key = "absPath" THEN AbsPath(x) ELSE Ascii(x)
    IN  IF key \in DOMAIN r /\ \E i \in DOMAIN xs : ~Good(xs[i])
        THEN "invalid" ELSE "none"

NonRepeatableCheck(r, k, v) ==
    IF /\ "non-repeatable" \in DOMAIN r /\ k = "[]string"
       /\ \E i, j \in DOMAIN v : i < j /\ v[i] = v[j]
    THEN "invalid" ELSE "none"

\* itemMinLen (f = 3, "<") and itemMaxLen (f = 1, ">"): an element for which
\* CompareNumber holds is out of range; for any other kind the error is
\* returned when CompareNumber on the whole value does NOT hold.
ItemLenCheck(r, key, f, k, v) ==
    CASE key \notin DOMAIN r -> "none"
      [] k = "[]string" ->
            IF \E i \in DOMAIN v : CompareNumber(TRUE, Length(v[i]), r[key], f) = "true"
            THEN "range" ELSE "none"
      [] CompareNumber(TRUE, Length(ReflectString(k, v)), r[key], f) = "false"
            -> "range"
      [] OTHER -> "none"

validateField(r, k, v) ==
    LET checks == <<
          SizeCheck(r, "len", k, v),
          SizeCheck(r, "minLen", k, v),
          SizeCheck(r, "maxLen", k, v),
          EqualCheck(r, k, v),
          CompareCheck(r, "bigger", 1, k, v),
          CompareCheck(r, "biggerEq", 2, k, v),
          CompareCheck(r, "lower", 3, k, v),
          CompareCheck(r, "lowerEq", 4, k, v),
          TextCheck(r, "startWith", k, v),
          TextCheck(r, "endWith", k, v),
          InListCheck(r, k, v),
          SumLenCheck(r, "minSumLen", k, v),
          SumLenCheck(r, "maxSumLen", k, v),
          EachCheck(r, "absPath", k, v),
          EachCheck(r, "ascii", k, v),
          NonRepeatableCheck(r, k, v),
          ItemLenCheck(r, "itemMinLen", 3, k, v),
          ItemLenCheck(r, "itemMaxLen", 1, k, v) >>
        i == SelectInSeq(checks, LAMBDA e : e # "none")
    IN  IF i = 0 THEN "none" ELSE checks[i]
-----------------------------------------------------------------------------
(***************************************************************************)
(* validate(model, type, rules, pName): the fields in order, the first     *)
(* error returned.  A nil pointer is only checked for nilable; a time      *)
(* field only for being zero; a struct is walked with its path; a slice    *)
(* of structs has its own rule checked (empty, then validateField) before  *)
(* each element is walked, and a nil element of a []*Struct panics in      *)
(* model.NumField().  Any other field without a rule is skipped; a         *)
(* string, int or slice is first checked for being empty (a nilable empty  *)
(* value is skipped, a non-nilable one is missing, except an int 0); a     *)
(* non-nil *string or *int is checked as what it points to.                *)
(***************************************************************************)
FirstError(rs) ==
    LET i == SelectInSeq(rs, LAMBDA e : e.err # "none")
    IN  IF i = 0 THEN Ok ELSE rs[i]

Nilable(r) == "nilable" \in DOMAIN r

\* The non-pointer kinds the type switch checks for being empty.
Empty(k, v) ==
    CASE k = "string" -> v = <<>>
      [] k = "int"    -> v = 0
      [] k \in {"[]string", "[]int"} -> Len(v) = 0
      [] OTHER -> FALSE

FieldError(r, p, k, v) ==
    LET e == validateField(r, k, v) IN IF e = "none" THEN Ok ELSE Err(e, p)

RECURSIVE validate(_, _, _, _)
validate(t, model, rules, pName) ==
    LET Check(i) ==
          LET f == Types[t][i]
              x == model[i]
              p == pName \o <<f.name>>
              has == p \in DOMAIN rules
              r == rules[p]
          IN  CASE f.kind \in PtrKinds /\ x = NilV ->
                     IF ~has \/ Nilable(r) THEN Ok ELSE Err("missing", p)
                [] f.kind = "time" ->
                     IF has /\ ~Nilable(r) /\ x = "zero" THEN Err("missing", p) ELSE Ok
                [] f.kind \in {"struct", "*struct"} -> validate(f.elem, x, rules, p)
                [] f.kind \in {"[]struct", "[]*struct"} ->
                     LET own == IF ~has THEN Ok
                                ELSE IF ~Nilable(r) /\ Len(x) = 0
                                     THEN Err("missing", p)
                                     ELSE FieldError(r, p, f.kind, x)
                         elems == [j \in DOMAIN x |->
                                     IF x[j] = NilV THEN Err("panic", p)
                                     ELSE validate(f.elem, x[j], rules, p)]
                     IN  FirstError(<<own>> \o elems)
                [] ~has -> Ok
                [] f.kind = "map" -> Err("invalid", p)
                [] f.kind \in {"*string", "*int"} ->
                     FieldError(r, p, IF f.kind = "*int" THEN "int" ELSE "string", x)
                [] Empty(f.kind, x) /\ Nilable(r) -> Ok
                [] Empty(f.kind, x) /\ f.kind # "int" -> Err("missing", p)
                [] OTHER -> FieldError(r, p, f.kind, x)
    IN  FirstError([i \in DOMAIN Types[t] |-> Check(i)])
-----------------------------------------------------------------------------
(***************************************************************************)
(* Validate(model): each caller goroutine looks the model's rules up in    *)
(* the cache under the read lock (getPropRules); on a miss it builds them  *)
(* (initModel: createColsRules) and stores them under the write lock       *)
(* (addModel), overwriting what another goroutine may have stored          *)
(* meanwhile; then it validates with the rules it holds (beginValidate).   *)
(***************************************************************************)
RECURSIVE ValuesOf(_)
ValuesOf(t) ==
    LET fs == Types[t]
        Of(f) ==
          CASE f.kind = "string"    -> Strs
            [] f.kind = "*string"   -> Strs \cup {NilV}
            [] f.kind = "int"       -> Ints
            [] f.kind = "*int"      -> Ints \cup {NilV}
            [] f.kind = "[]string"  -> BoundedSeq(Strs, MaxElems)
            [] f.kind = "[]int"     -> BoundedSeq(Ints, MaxElems)
            [] f.kind = "struct"    -> ValuesOf(f.elem)
            [] f.kind = "*struct"   -> ValuesOf(f.elem) \cup {NilV}
            [] f.kind = "[]struct"  -> BoundedSeq(ValuesOf(f.elem), MaxElems)
            [] f.kind = "[]*struct" ->
                 BoundedSeq(ValuesOf(f.elem) \cup (IF NilElems THEN {NilV} ELSE {}),
                            MaxElems)
            [] f.kind = "time"      -> {"zero", "set"}
            [] f.kind = "map"       -> {"map"}
        RECURSIVE Tuples(_)
        Tuples(i) == IF i = 0 THEN {<<>>}
                     ELSE {r \o <<x>> : r \in Tuples(i - 1), x \in Of(fs[i])}
    IN  Tuples(Len(fs))

VARIABLES
    models,     \* modelValidator.models: each top type's cached rules, or NoRules
    pc,         \* each caller: "idle", "lookup", "init", "validate"
    typ,        \* the type of the model the caller validates
    val,        \* the model value
    rules,      \* the rules the caller holds
    result      \* what its last Validate returned

vars == <<models, pc, typ, val, rules, result>>

Init ==
    /\ models = [t \in TopTypes |-> NoRules]
    /\ pc = [g \in Callers |-> "idle"]
    /\ typ = [g \in Callers |-> CHOOSE t \in TopTypes : TRUE]
    /\ val = [g \in Callers |-> NilV]
    /\ rules = [g \in Callers |-> EmptyRules]
    /\ result = [g \in Callers |-> NoResult]

Goto(g, p) == pc' = [pc EXCEPT ![g] = p]

\* The caller passes a model of type t holding v.
Call(g) ==
    /\ pc[g] = "idle"
    /\ \E t \in TopTypes : \E v \in ValuesOf(t) :
         /\ typ' = [typ EXCEPT ![g] = t]
         /\ val' = [val EXCEPT ![g] = v]
    /\ result' = [result EXCEPT ![g] = NoResult]
    /\ Goto(g, "lookup")
    /\ UNCHANGED <<models, rules>>

\* getPropRules under the read lock.
GetPropRules(g) ==
    /\ pc[g] = "lookup"
    /\ IF models[typ[g]] = NoRules
       THEN Goto(g, "init") /\ UNCHANGED rules
       ELSE Goto(g, "validate") /\ rules' = [rules EXCEPT ![g] = models[typ[g]]]
    /\ UNCHANGED <<models, typ, val, result>>

\* initModel: createColsRules, then addModel under the write lock.
InitModel(g) ==
    /\ pc[g] = "init"
    /\ LET rs == createColsRules(typ[g], <<>>)
       IN  /\ rules' = [rules EXCEPT ![g] = rs]
           /\ models' = [models EXCEPT ![typ[g]] = rs]
    /\ Goto(g, "validate")
    /\ UNCHANGED <<typ, val, result>>

\* beginValidate: validate from the top with the rules held, and return.
BeginValidate(g) ==
    /\ pc[g] = "validate"
    /\ result' = [result EXCEPT ![g] = validate(typ[g], val[g], rules[g], <<>>)]
    /\ Goto(g, "idle")
    /\ UNCHANGED <<models, typ, val, rules>>

Next == \E g \in Callers :
            Call(g) \/ GetPropRules(g) \/ InitModel(g) \/ BeginValidate(g)

Spec == Init /\ [][Next]_vars
-----------------------------------------------------------------------------
(***************************************************************************)
(* What a tag promises, from the comments on the K_ constants: the field   *)
(* is not empty unless nilable (nil, "", an empty slice, a zero time; an   *)
(* int is never missing, but a nilable 0 is not checked), its size (runes  *)
(* of a string, elements of a slice) is len / at least minLen / at most    *)
(* maxLen, it equals equal, it is above bigger ... at most lowerEq, it     *)
(* starts with startWith and ends with endWith, it (each element) is in    *)
(* inList (inList2: ignoring case), the elements' total length is within   *)
(* minSumLen..maxSumLen, each element is an absolute path, is ASCII, has   *)
(* itemMinLen..itemMaxLen runes, and no element repeats.  Broken is the    *)
(* set of fields that break their tag: [at: path, missing: emptiness].     *)
(***************************************************************************)
TagHas(tag, key) == key \in DOMAIN tag /\ (key \in FlagKeys \/ tag[key] # <<>>)

RefItems(k, x) ==
    CASE k = "[]string" -> x [] k = "[]int" -> [i \in DOMAIN x |-> Decimal(x[i])]
      [] k = "int" -> <<Decimal(x)>> [] OTHER -> <<x>>

Meets(tag, k, x) ==
    LET Has(key) == TagHas(tag, key)
        N(key) == Atoi(tag[key])
        size == Len(x)
        its == RefItems(k, x)
        In(list, s) == \E i \in DOMAIN list : list[i] = s
    IN  /\ Has("len") => size = N("len")
        /\ Has("minLen") => size >= N("minLen")
        /\ Has("maxLen") => size <= N("maxLen")
        /\ Has("equal") => its = <<tag["equal"]>>
        /\ Has("bigger") => x > N("bigger")
        /\ Has("biggerEq") => x >= N("biggerEq")
        /\ Has("lower") => x < N("lower")
        /\ Has("lowerEq") => x <= N("lowerEq")
        /\ Has("startWith") => IsPrefix(tag["startWith"], x)
        /\ Has("endWith") => IsSuffix(tag["endWith"], x)
        /\ Has("inList") => \A i \in DOMAIN its : In(Split(tag["inList"]), its[i])
        /\ Has("inList2") /\ ~Has("inList") =>
              \A i \in DOMAIN its :
                  In([j \in DOMAIN Split(tag["inList2"]) |->
                        Lower(Split(tag["inList2"])[j])], Lower(its[i]))
        /\ Has("minSumLen") => FoldSeq(LAMBDA s, a : Len(s) + a, 0, its) >= N("minSumLen")
        /\ Has("maxSumLen") => FoldSeq(LAMBDA s, a : Len(s) + a, 0, its) <= N("maxSumLen")
        /\ Has("absPath") => \A i \in DOMAIN its : Len(its[i]) > 0 /\ its[i][1] = "/"
        /\ Has("ascii") => \A i \in DOMAIN its : \A j \in DOMAIN its[i] : its[i][j] \in AsciiRunes
        /\ Has("non-repeatable") => \A i, j \in DOMAIN its : i # j => its[i] # its[j]
        /\ Has("itemMinLen") => \A i \in DOMAIN its : Len(its[i]) >= N("itemMinLen")
        /\ Has("itemMaxLen") => \A i \in DOMAIN its : Len(its[i]) <= N("itemMaxLen")

RECURSIVE Broken(_, _, _)
Broken(t, model, pName) ==
    LET FieldBroken(i) ==
          LET f == Types[t][i]
              x == model[i]
              p == pName \o <<f.name>>
              has == "verf" \in DOMAIN f.tag
              opt == TagHas(f.tag, "nilable")
              Miss == {[at |-> p, missing |-> TRUE]}
              Bad == {[at |-> p, missing |-> FALSE]}
          IN  CASE f.kind \in PtrKinds /\ x = NilV -> IF has /\ ~opt THEN Miss ELSE {}
                [] f.kind = "time" -> IF has /\ ~opt /\ x = "zero" THEN Miss ELSE {}
                [] f.kind \in {"struct", "*struct"} -> Broken(f.elem, x, p)
                [] f.kind \in {"[]struct", "[]*struct"} ->
                     (IF ~has THEN {}
                      ELSE IF Len(x) = 0 THEN (IF opt THEN {} ELSE Miss)
                      ELSE IF Meets(f.tag, f.kind, x) THEN {} ELSE Bad)
                     \cup UNION {IF x[j] = NilV THEN Miss ELSE Broken(f.elem, x[j], p)
                                 : j \in DOMAIN x}
                [] ~has -> {}
                [] f.kind = "map" -> Bad
                [] f.kind \in {"*string", "*int"} ->
                     IF Meets(f.tag, IF f.kind = "*int" THEN "int" ELSE "string", x)
                     THEN {} ELSE Bad
                [] Empty(f.kind, x) /\ opt -> {}
                [] Empty(f.kind, x) /\ f.kind # "int" -> Miss
                [] OTHER -> IF Meets(f.tag, f.kind, x) THEN {} ELSE Bad
    IN  UNION {FieldBroken(i) : i \in DOMAIN Types[t]}

(***************************************************************************)
(* Validate agrees with the tags, whichever goroutine built the cached     *)
(* rules and whatever the other callers did meanwhile: it returns nil      *)
(* exactly when no field breaks its tag, and otherwise names a field that  *)
(* does, as missing exactly when that field is empty.                      *)
(***************************************************************************)
ValidateAgreesWithTags ==
    \A g \in Callers :
        result[g] # NoResult =>
            LET B == Broken(typ[g], val[g], <<>>)
            IN  IF B = {} THEN result[g] = Ok
                ELSE [at |-> result[g].at, missing |-> result[g].err = "missing"] \in B
=============================================================================
