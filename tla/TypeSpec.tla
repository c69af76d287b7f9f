------------------------------ MODULE TypeSpec ------------------------------
(***************************************************************************)
(* Declaration specifiers: how the parser merges the keywords of a list    *)
(* one after the other into one declspec, checking each time, and what a   *)
(* declaration makes of the result (declspec.c).                           *)
(***************************************************************************)
EXTENDS ScalarTypes, Sequences, FiniteSets

CONSTANT Lists    \* the lists to be read

VARIABLES
  list, at,     \* the list, and how many keywords have been read
  spec,         \* declspec: ts, tq, sc
  outcome       \* "reading", "declared" or "fatal"
specvars == <<list, at, spec, outcome>>

NoType == [k |-> "none"]
Typespec(base, lls, sign) == [k |-> "scalar", base |-> base, lls |-> lls, sign |-> sign]
StructSpec(tag) == [k |-> "struct", tag |-> tag]

Bases     == {"char", "void", "int", "double", "float", "bool"}
Signs     == {"signed", "unsigned"}
Modifiers == Signs \cup {"long", "short"}
TypeQualifiers == {"const", "volatile", "restrict"}
StorageClasses == {"extern", "static", "auto", "register"}
Structs   == {"struct t", "struct"}       \* with a tag, and without

Keywords == Bases \cup Modifiers \cup TypeQualifiers \cup StorageClasses \cup Structs
ASSUME ListsAssumption == Lists \subseteq Seq(Keywords) \ {<<>>}

(* The declspec of a single keyword *)
Declspec(keyword) ==
  [ts |-> CASE keyword \in Bases -> Typespec(keyword, "unspec", "unspec")
            [] keyword \in Signs -> Typespec("unspec", "unspec", keyword)
            [] keyword \in {"long", "short"} -> Typespec("unspec", keyword, "unspec")
            [] keyword \in Structs -> StructSpec(keyword = "struct t")
            [] OTHER -> NoType,
   tq |-> {keyword} \cap TypeQualifiers,
   sc |-> IF keyword \in StorageClasses THEN keyword ELSE "none"]

-----------------------------------------------------------------------------
(* merge_typespec *)

Given(x, y) == IF x # "unspec" THEN x ELSE y
Conflict(x, y) == x # "unspec" /\ y # "unspec" /\ x # y

Longs(lls) ==
  CASE lls = "long" -> 1 [] lls = "long long" -> 2 [] lls = "short" -> -1 [] OTHER -> 0
(* Three longs are two, and two shorts stay one. *)
LaterModifier(l1, l2) == Given(l2, l1)
MergedLls(l1, l2) ==
  LET n == Longs(l1) + Longs(l2)
  IN  CASE n = -1 -> "short" [] n = 0 -> "unspec" [] n = 1 -> "long" [] n >= 2 -> "long long"
        [] OTHER  -> l1

SignOfSecond(t2, base, sign) == t2.sign # "unspec" /\ base \in {"float", "double", "bool"}
NonIntegralSign(t2, base, sign) == sign # "unspec" /\ base \in {"float", "double", "bool"}

LongOfAny(base, lls) == lls = "long long" /\ base = "double"
LongOfOther(base, lls) ==
  \/ lls = "long long" /\ base \notin {"int", "unspec"}
  \/ lls = "long"      /\ base \notin {"int", "unspec", "double"}

Fatal == [ok |-> FALSE, ts |-> NoType]
merge_typespec(t1, t2) ==
  LET base == Given(t1.base, t2.base)
      lls  == MergedLls(t1.lls, t2.lls)
      sign == Given(t1.sign, t2.sign)
  IN  IF \/ Conflict(t1.base, t2.base) \/ Conflict(t1.sign, t2.sign)
         \/ Longs(t1.lls) * Longs(t2.lls) < 0
         \/ LongOfOther(base, lls) \/ NonIntegralSign(t2, base, sign)
      THEN Fatal ELSE [ok |-> TRUE, ts |-> Typespec(base, lls, sign)]

(* merge_declspec looks at the type of ds1 twice, and takes a struct after *)
(* a scalar for a scalar: the tag is where the base type would be.         *)
Punned(ts) ==
  IF ts.k = "scalar" THEN ts
  ELSE Typespec(IF ts.tag THEN "a pointer" ELSE "unspec", "unspec", "unspec")

MergedTypes(ts1, ts2) ==
  CASE ts2.k = "none"   -> [ok |-> TRUE, ts |-> ts1]
    [] ts1.k = "none" /\ ts2.k # "none" -> [ok |-> TRUE, ts |-> ts2]
    [] ts1.k = "scalar" /\ ts2.k # "none" -> merge_typespec(ts1, Punned(ts2))
    [] ts1.k = "struct" /\ ts2.k # "none" -> Fatal

(* Two storage classes are compared by their node types, which are always  *)
(* the same: the first one stays.                                          *)
merge_declspec(ds1, ds2) ==
  [ts |-> MergedTypes(ds1.ts, ds2.ts).ts, tq |-> ds1.tq \cup ds2.tq,
   sc |-> IF ds1.sc # "none" THEN ds1.sc ELSE ds2.sc]

-----------------------------------------------------------------------------
SpecInit ==
  /\ list \in Lists /\ at = 1 /\ outcome = "reading" /\ spec = Declspec(list[1])

Merge ==
  /\ outcome = "reading" /\ at < Len(list) /\ at' = at + 1
  /\ LET next == Declspec(list[at + 1])
     IN  IF MergedTypes(spec.ts, next.ts).ok
         THEN spec' = merge_declspec(spec, next) /\ UNCHANGED outcome
         ELSE outcome' = "fatal" /\ UNCHANGED spec
  /\ UNCHANGED list

(* declspec_fill_defaults; the storage class is in Decl *)
WithDefault(ts) ==
  CASE ts.k = "none"   -> Typespec("int", "unspec", "unspec")
    [] ts.k = "scalar" -> [ts EXCEPT !.base = Given(@, "int")]
    [] ts.k = "struct" -> ts
FillDefaults ==
  /\ outcome = "reading" /\ at = Len(list)
  /\ spec' = [spec EXCEPT !.ts = WithDefault(@)] /\ outcome' = "declared"
  /\ UNCHANGED <<list, at>>

Finished == outcome \in {"declared", "fatal"} /\ UNCHANGED specvars

SpecNext == Merge \/ FillDefaults \/ Finished
Spec == SpecInit /\ [][SpecNext]_specvars

-----------------------------------------------------------------------------
(* What C says of a list: how often it has each keyword decides.           *)

Count(k) == Cardinality({i \in DOMAIN list : list[i] = k})
InList(ks) == {k \in ks : Count(k) > 0}
Once(ks)   == \A k \in ks : Count(k) <= 1
TheBase == IF InList(Bases) = {} THEN "int" ELSE CHOOSE k \in InList(Bases) : TRUE
TheLls  ==
  CASE Count("short") > 0 -> "short" [] Count("long") = 1 -> "long"
    [] Count("long") > 1  -> "long long" [] OTHER -> "unspec"
TheSign == IF InList(Signs) = {} THEN "unspec" ELSE CHOOSE k \in InList(Signs) : TRUE

IsC ==
  /\ InList(Structs) = {} /\ Cardinality(InList(Bases)) <= 1 /\ Once(Bases)
  /\ Cardinality(InList(Signs)) <= 1 /\ Once(Signs) /\ Once({"short"})
  /\ CASE TheBase = "int"    -> Count("short") + Count("long") <= (IF Count("short") = 0 THEN 2 ELSE 1)
       [] TheBase = "char"   -> Count("short") + Count("long") = 0
       [] TheBase = "double" -> InList(Modifiers) \subseteq {"long"} /\ Count("long") <= 1
       [] OTHER -> InList(Modifiers) = {}

(* Sizes of gcc, by base and modifier *)
GccSize ==
  CASE TheBase = "double" -> IF TheLls = "long" THEN 16 ELSE 8
    [] TheBase = "int"  -> CASE TheLls = "short" -> 2 [] TheLls = "unspec" -> 4 [] OTHER -> 8
    [] TheBase = "float" -> 4
    [] TheBase \in {"char", "bool"} -> 1
    [] TheBase = "void" -> Rejected

(* A list that C allows is accepted, and the declaration gets its type,    *)
(* with its size, and all its qualifiers, in whatever order the keywords   *)
(* come and although each partial list is checked on its own.              *)
AcceptsC ==
  outcome # "reading" /\ IsC =>
    /\ outcome = "declared"
    /\ spec.ts = Typespec(TheBase, TheLls, TheSign)
    /\ ScalarSize(spec.ts.base, spec.ts.lls) = GccSize
    /\ spec.tq = InList(TypeQualifiers)

(* A list that contradicts itself is refused, however far apart and in     *)
(* whatever order the two keywords come: two base types, both signs, long  *)
(* and short, a sign or a long that the base type does not have, a scalar  *)
(* after a struct.  (short double, and a struct after a scalar, are not    *)
(* refused.)                                                               *)
Contradicts ==
  \/ Cardinality(InList(Bases)) > 1 \/ Cardinality(InList(Signs)) > 1
  \/ Count("long") > 0 /\ Count("short") > 0
  \/ InList(Signs) # {} /\ InList({"float", "double", "bool"}) # {}
  \/ Count("long") > 0 /\ InList({"char", "void", "float", "bool"}) # {}
  \/ Count("long") > 1 /\ Count("double") > 0
  \/ list[1] \in Structs /\ InList(Bases \cup Modifiers) # {}
RefusesContradictions == Contradicts => outcome # "declared"

(* Without structs, the list read backwards means the same. *)
Backwards ==
  LET merged[i \in 0..(Len(list) - 1)] ==   \* of the last i + 1 keywords
        IF i = 0 THEN [ok |-> TRUE, ts |-> Declspec(list[Len(list)]).ts]
        ELSE IF ~merged[i - 1].ok THEN Fatal
        ELSE MergedTypes(merged[i - 1].ts, Declspec(list[Len(list) - i]).ts)
  IN  merged[Len(list) - 1]
OrderIrrelevant ==
  outcome # "reading" /\ InList(Structs) = {} =>
    /\ outcome = "fatal" <=> ~Backwards.ok
    /\ outcome = "declared" => spec.ts = WithDefault(Backwards.ts)
=============================================================================
