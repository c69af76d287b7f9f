-------------------------- MODULE TypeSpecProofs --------------------------
(***************************************************************************)
(* Lists of declaration specifiers of any length: the lists that C allows  *)
(* get C's type, and those that contradict themselves are refused.         *)
(***************************************************************************)
EXTENDS TypeSpec, FiniteSetTheorems, SequenceTheorems, TLAPS

(* Keyword k is among the first n of the list l, once or more than once. *)
Has(l, n, k)   == \E i \in 1..n : l[i] = k
Twice(l, n, k) == \E i, j \in 1..n : i # j /\ l[i] = k /\ l[j] = k

ScalarSpecs ==
  [k : {"scalar"}, base : Bases \cup {"unspec", "a pointer"},
   lls : {"unspec", "long", "long long", "short"}, sign : Signs \cup {"unspec"}]

(* What merge_typespec checks of its result *)
Consistent(t) == ~LongOfOther(t.base, t.lls) /\ ~NonIntegralSign(t, t.base, t.sign)

(* The scalar type t says which keywords the first n of l were. *)
ScalarSums(t, l, n) ==
  /\ t \in ScalarSpecs /\ Consistent(t)
  /\ \A b \in Bases : Has(l, n, b) <=> t.base = b
  /\ t.base = "a pointer" => \E s \in Structs : Has(l, n, s)
  /\ \A s \in Signs : Has(l, n, s) <=> t.sign = s
  /\ Has(l, n, "short") <=> t.lls = "short"
  /\ Has(l, n, "long") <=> t.lls \in {"long", "long long"}
  /\ Twice(l, n, "long") <=> t.lls = "long long"

Sums(t, l, n) ==
  \/ t.k = "scalar" /\ ScalarSums(t, l, n) /\ l[1] \notin Structs
  \/ t = NoType /\ \A k \in Bases \cup Modifiers \cup Structs : ~Has(l, n, k)
  \/ /\ t.k = "struct" /\ \E s \in Structs : Has(l, n, s)
     /\ \A k \in Bases \cup Modifiers : ~Has(l, n, k)

QualifiersRead(tq, l, n) == tq = {k \in TypeQualifiers : Has(l, n, k)}

SpecInv ==
  /\ list \in Lists /\ at \in 1..Len(list) /\ outcome \in {"reading", "declared", "fatal"}
  /\ outcome = "reading" => Sums(spec.ts, list, at) /\ QualifiersRead(spec.tq, list, at)
  /\ RefusesContradictions /\ AcceptsC

-----------------------------------------------------------------------------
(* Counting keywords *)

LEMMA Two ==
  ASSUME NEW S, IsFiniteSet(S)
  PROVE  /\ Cardinality(S) \in Nat
         /\ Cardinality(S) > 0 <=> S # {}
         /\ Cardinality(S) > 1 <=> \E x, y \in S : x # y
<1>1. Cardinality(S) \in Nat /\ (Cardinality(S) = 0 <=> S = {})
  BY FS_CardinalityType, FS_EmptySet
<1>2. Cardinality(S) = 1 <=> \E x : S = {x}
  BY FS_Singleton
<1>3. ASSUME NEW x \in S, \A y \in S : y = x PROVE S = {x}
  BY <1>3
<1>4. (\E x, y \in S : x # y) <=> S # {} /\ ~(\E x : S = {x})
  BY <1>3
<1> QED
  BY <1>1, <1>2, <1>4

LEMMA Counts ==
  ASSUME list \in Seq(Keywords)
  PROVE  \A k : /\ Count(k) \in Nat
                /\ Count(k) > 0 <=> Has(list, Len(list), k)
                /\ Count(k) > 1 <=> Twice(list, Len(list), k)
<1> TAKE k
<1> DEFINE S == {i \in DOMAIN list : list[i] = k}
<1>1. DOMAIN list = 1..Len(list) /\ Len(list) \in Nat
  OBVIOUS
<1>2. IsFiniteSet(1..Len(list))
  BY <1>1, FS_Interval
<1>3. IsFiniteSet(S)
  BY <1>1, <1>2, FS_Subset
<1>4. Count(k) = Cardinality(S)
  BY DEF Count
<1> QED
  BY <1>1, <1>3, <1>4, Two DEF Has, Twice

LEMMA InLists ==
  ASSUME list \in Seq(Keywords), NEW ks, IsFiniteSet(ks)
  PROVE  /\ InList(ks) = {k \in ks : Has(list, Len(list), k)}
         /\ Cardinality(InList(ks)) > 1 <=>
              \E j, k \in ks : j # k /\ Has(list, Len(list), j) /\ Has(list, Len(list), k)
<1>1. InList(ks) = {k \in ks : Has(list, Len(list), k)}
  BY Counts DEF InList
<1>2. IsFiniteSet(InList(ks))
  BY <1>1, FS_Subset
<1> QED
  BY <1>1, <1>2, Two

LEMMA FiniteBases == IsFiniteSet(Bases) /\ IsFiniteSet(Signs)
<1>1. IsFiniteSet({})
  BY FS_EmptySet
<1>2. \A S, x : IsFiniteSet(S) => IsFiniteSet(S \cup {x})
  BY FS_AddElement
<1>3. Bases = ((((({} \cup {"char"}) \cup {"void"}) \cup {"int"}) \cup {"double"}) \cup {"float"})
              \cup {"bool"}
  BY DEF Bases
<1>4. Signs = ({} \cup {"signed"}) \cup {"unsigned"}
  BY DEF Signs
<1>5. IsFiniteSet(Bases)
  BY <1>1, <1>2, <1>3, Zenon
<1>6. IsFiniteSet(Signs)
  BY <1>1, <1>2, <1>4, Zenon
<1> QED
  BY <1>5, <1>6

(* What the n+1st keyword adds *)
LEMMA HasNext ==
  ASSUME NEW l, NEW n \in Nat
  PROVE  \A k : /\ Has(l, n + 1, k) <=> Has(l, n, k) \/ l[n + 1] = k
                /\ Twice(l, n + 1, k) <=> Twice(l, n, k) \/ (Has(l, n, k) /\ l[n + 1] = k)
<1>1. 1..(n + 1) = (1..n) \cup {n + 1} /\ n + 1 \notin 1..n
  OBVIOUS
<1> TAKE k
<1>2. Has(l, n + 1, k) <=> Has(l, n, k) \/ l[n + 1] = k
  BY <1>1 DEF Has
<1>3. Twice(l, n + 1, k) => Twice(l, n, k) \/ (Has(l, n, k) /\ l[n + 1] = k)
  BY <1>1 DEF Has, Twice
<1>4. Twice(l, n, k) \/ (Has(l, n, k) /\ l[n + 1] = k) => Twice(l, n + 1, k)
  BY <1>1 DEF Has, Twice
<1> QED
  BY <1>2, <1>3, <1>4

LEMMA HasFirst ==
  ASSUME NEW l
  PROVE  \A k : (Has(l, 1, k) <=> l[1] = k) /\ ~Twice(l, 1, k)
<1>1. 1..1 = {1}
  OBVIOUS
<1> QED
  BY <1>1 DEF Has, Twice

-----------------------------------------------------------------------------
(* The keywords *)

(* What a keyword contributes to a scalar type *)
Contribution(t, kw) ==
  \/ kw \in Bases /\ t.base = kw /\ t.lls = "unspec" /\ t.sign = "unspec"
  \/ kw \in Signs /\ t.base = "unspec" /\ t.lls = "unspec" /\ t.sign = kw
  \/ kw \in {"long", "short"} /\ t.base = "unspec" /\ t.lls = kw /\ t.sign = "unspec"
  \/ /\ kw \in Structs /\ t.base \in {"a pointer", "unspec"}
     /\ t.lls = "unspec" /\ t.sign = "unspec"

IsScalar(t, base, lls, sign) == t = Typespec(base, lls, sign)

LEMMA Fields ==
  ASSUME NEW t, NEW base, NEW lls, NEW sign, IsScalar(t, base, lls, sign)
  PROVE  /\ t.k = "scalar" /\ t.base = base /\ t.lls = lls /\ t.sign = sign
         /\ /\ base \in Bases \cup {"unspec", "a pointer"} /\ sign \in Signs \cup {"unspec"}
            /\ lls \in {"unspec", "long", "long long", "short"}
            => t \in ScalarSpecs
  BY DEF IsScalar, Typespec, ScalarSpecs

LEMMA KeywordType ==
  ASSUME NEW kw \in Keywords
  PROVE  LET t == Declspec(kw).ts IN
         \/ kw \in Bases /\ IsScalar(t, kw, "unspec", "unspec")
         \/ kw \in Signs /\ IsScalar(t, "unspec", "unspec", kw)
         \/ kw \in {"long", "short"} /\ IsScalar(t, "unspec", kw, "unspec")
         \/ kw \in Structs /\ t = StructSpec(kw = "struct t")
         \/ kw \in TypeQualifiers \cup StorageClasses /\ t = NoType
<1>1. CASE kw \in Bases
  BY <1>1 DEF Bases, Signs, Structs, Declspec, IsScalar
<1>2. CASE kw \in Signs
  BY <1>2 DEF Bases, Signs, Structs, Declspec, IsScalar
<1>3. CASE kw \in {"long", "short"}
  BY <1>3 DEF Bases, Signs, Structs, Declspec, IsScalar
<1>4. CASE kw \in Structs
  BY <1>4 DEF Bases, Signs, Structs, Declspec
<1>5. CASE kw \in TypeQualifiers \cup StorageClasses
  BY <1>5 DEF Bases, Signs, Structs, TypeQualifiers, StorageClasses, Declspec
<1> QED
  BY <1>1, <1>2, <1>3, <1>4, <1>5 DEF Keywords, Modifiers

LEMMA ScalarContribution ==
  ASSUME NEW kw, NEW t,
         \/ kw \in Bases /\ IsScalar(t, kw, "unspec", "unspec")
         \/ kw \in Signs /\ IsScalar(t, "unspec", "unspec", kw)
         \/ kw \in {"long", "short"} /\ IsScalar(t, "unspec", kw, "unspec")
  PROVE  t.k = "scalar" /\ t \in ScalarSpecs /\ t.base # "a pointer" /\ Contribution(t, kw)
<1>1. "a pointer" \notin Bases
  BY DEF Bases
<1>2. CASE kw \in Bases /\ IsScalar(t, kw, "unspec", "unspec")
  <2>1. /\ t.k = "scalar" /\ t.base = kw /\ t.lls = "unspec" /\ t.sign = "unspec"
        /\ t \in ScalarSpecs
    <3>1. t.k = "scalar" /\ t.base = kw /\ t.lls = "unspec" /\ t.sign = "unspec"
      BY ONLY <1>2, Fields
    <3>2. t \in ScalarSpecs
      BY <1>2 DEF IsScalar, Typespec, ScalarSpecs
    <3> QED
      BY ONLY <3>1, <3>2
  <2> QED
    BY <1>1, <1>2, <2>1 DEF Contribution
<1>3. CASE kw \in Signs /\ IsScalar(t, "unspec", "unspec", kw)
  <2>1. /\ t.k = "scalar" /\ t.base = "unspec" /\ t.lls = "unspec" /\ t.sign = kw
        /\ t \in ScalarSpecs
    BY ONLY <1>3, Fields
  <2> QED
    BY <1>1, <1>3, <2>1 DEF Contribution
<1>4. CASE kw \in {"long", "short"} /\ IsScalar(t, "unspec", kw, "unspec")
  <2>1. /\ t.k = "scalar" /\ t.base = "unspec" /\ t.lls = kw /\ t.sign = "unspec"
        /\ t \in ScalarSpecs
    BY ONLY <1>4, Fields
  <2> QED
    BY <1>1, <1>4, <2>1 DEF Contribution
<1> QED
  BY <1>2, <1>3, <1>4

LEMMA ScalarKeyword ==
  ASSUME NEW kw \in Bases \cup Modifiers
  PROVE  LET t == Declspec(kw).ts IN
         t.k = "scalar" /\ t \in ScalarSpecs /\ t.base # "a pointer" /\ Contribution(t, kw)
<1>1. kw \in Keywords /\ kw \notin Structs \cup TypeQualifiers \cup StorageClasses
  BY DEF Keywords, Bases, Modifiers, Signs, Structs, TypeQualifiers, StorageClasses
<1>2. LET t == Declspec(kw).ts IN
      \/ kw \in Bases /\ IsScalar(t, kw, "unspec", "unspec")
      \/ kw \in Signs /\ IsScalar(t, "unspec", "unspec", kw)
      \/ kw \in {"long", "short"} /\ IsScalar(t, "unspec", kw, "unspec")
  BY <1>1, KeywordType
<1> QED
  BY <1>2, ScalarContribution

LEMMA SingleSums ==
  ASSUME NEW kw \in Bases \cup Modifiers, NEW l, NEW n \in Nat,
         \A k \in Bases \cup Modifiers : Has(l, n, k) <=> k = kw,
         ~Twice(l, n, "long")
  PROVE  Declspec(kw).ts.k = "scalar" /\ ScalarSums(Declspec(kw).ts, l, n)
<1> DEFINE t == Declspec(kw).ts
<1>1. t.k = "scalar" /\ t \in ScalarSpecs /\ t.base # "a pointer" /\ Contribution(t, kw)
  BY ScalarKeyword
<1> HIDE DEF t
<1>2. \/ kw \in Bases /\ t.base = kw /\ t.lls = "unspec" /\ t.sign = "unspec"
      \/ kw \in Signs /\ t.base = "unspec" /\ t.lls = "unspec" /\ t.sign = kw
      \/ kw \in {"long", "short"} /\ t.base = "unspec" /\ t.lls = kw /\ t.sign = "unspec"
  BY <1>1 DEF Contribution, Bases, Modifiers, Signs, Structs
<1>4. Consistent(t)
  BY <1>2 DEF Consistent, LongOfOther, NonIntegralSign, Bases, Signs
<1>5. \A b \in Bases : Has(l, n, b) <=> t.base = b
  BY <1>2 DEF Bases, Signs, Modifiers
<1>6. \A s \in Signs : Has(l, n, s) <=> t.sign = s
  BY <1>2 DEF Bases, Signs, Modifiers
<1>7. /\ Has(l, n, "short") <=> t.lls = "short"
      /\ Has(l, n, "long") <=> t.lls \in {"long", "long long"}
  <2>1. "short" \in Bases \cup Modifiers /\ "long" \in Bases \cup Modifiers
    BY DEF Modifiers
  <2>2. (Has(l, n, "short") <=> kw = "short") /\ (Has(l, n, "long") <=> kw = "long")
    BY <2>1
  <2>3. /\ kw = "short" <=> t.lls = "short"
        /\ kw = "long" <=> t.lls \in {"long", "long long"}
    BY <1>2 DEF Bases, Signs
  <2> QED
    BY <2>2, <2>3
<1>8. t.lls # "long long"
  BY <1>2 DEF Bases, Signs
<1>9. ScalarSums(t, l, n)
  BY <1>1, <1>4, <1>5, <1>6, <1>7, <1>8 DEF ScalarSums
<1> QED
  BY <1>1, <1>9 DEF t

(* The result of a merge that is not fatal *)
LEMMA MergeFields ==
  ASSUME NEW t1, NEW t2, merge_typespec(t1, t2).ok
  PROVE  LET t == merge_typespec(t1, t2).ts IN
         /\ t = Typespec(Given(t1.base, t2.base), MergedLls(t1.lls, t2.lls), Given(t1.sign, t2.sign))
         /\ ~Conflict(t1.base, t2.base) /\ ~Conflict(t1.sign, t2.sign)
         /\ ~(Longs(t1.lls) * Longs(t2.lls) < 0)
         /\ Consistent(t)
<1> DEFINE base == Given(t1.base, t2.base)
           lls  == MergedLls(t1.lls, t2.lls)
           sign == Given(t1.sign, t2.sign)
           bad  == \/ Conflict(t1.base, t2.base) \/ Conflict(t1.sign, t2.sign)
                   \/ Longs(t1.lls) * Longs(t2.lls) < 0
                   \/ LongOfOther(base, lls) \/ NonIntegralSign(t2, base, sign)
<1>1. merge_typespec(t1, t2) = IF bad THEN Fatal ELSE [ok |-> TRUE, ts |-> Typespec(base, lls, sign)]
  BY DEF merge_typespec
<1> HIDE DEF base, lls, sign, bad
<1>2. ~bad
  BY <1>1 DEF Fatal
<1>3. merge_typespec(t1, t2).ts = Typespec(base, lls, sign)
  BY <1>1, <1>2
<1>4. ~LongOfOther(base, lls) /\ ~NonIntegralSign(t2, base, sign)
  BY <1>2 DEF bad
<1>5. Consistent(Typespec(base, lls, sign))
  BY <1>4 DEF Consistent, Typespec, NonIntegralSign
<1> QED
  BY <1>2, <1>3, <1>5 DEF base, lls, sign, bad

(* The table of the modifiers *)
LEMMA MergeUnspec ==
  /\ MergedLls("unspec", "unspec") = "unspec" /\ MergedLls("long", "unspec") = "long"
  /\ MergedLls("long long", "unspec") = "long long" /\ MergedLls("short", "unspec") = "short"
  BY DEF MergedLls, Longs

LEMMA MergeLong ==
  /\ MergedLls("unspec", "long") = "long" /\ MergedLls("long", "long") = "long long"
  /\ MergedLls("long long", "long") = "long long"
  /\ Longs("short") * Longs("long") < 0
  BY DEF MergedLls, Longs

LEMMA MergeShort ==
  /\ MergedLls("unspec", "short") = "short" /\ MergedLls("short", "short") = "short"
  /\ Longs("long") * Longs("short") < 0 /\ Longs("long long") * Longs("short") < 0
  BY DEF MergedLls, Longs

LEMMA LongsMerge ==
  ASSUME NEW l1 \in {"unspec", "long", "long long", "short"},
         NEW l2 \in {"unspec", "long", "short"}, ~(Longs(l1) * Longs(l2) < 0)
  PROVE  \/ l2 = "unspec" /\ MergedLls(l1, l2) = l1
         \/ l2 = "long" /\ l1 = "unspec" /\ MergedLls(l1, l2) = "long"
         \/ l2 = "long" /\ l1 \in {"long", "long long"} /\ MergedLls(l1, l2) = "long long"
         \/ l2 = "short" /\ l1 \in {"unspec", "short"} /\ MergedLls(l1, l2) = "short"
<1>1. CASE l2 = "unspec"
  BY <1>1, MergeUnspec, Zenon
<1>2. CASE l2 = "long"
  BY <1>2, MergeLong, Zenon
<1>3. CASE l2 = "short"
  BY <1>3, MergeShort, Zenon
<1> QED
  BY <1>1, <1>2, <1>3

LEMMA MergedBase ==
  ASSUME NEW l, NEW n \in Nat, NEW t1, ScalarSums(t1, l, n), NEW t2,
         Contribution(t2, l[n + 1]), ~Conflict(t1.base, t2.base)
  PROVE  LET base == Given(t1.base, t2.base) IN
         /\ base \in Bases \cup {"unspec", "a pointer"}
         /\ \A b \in Bases : Has(l, n + 1, b) <=> base = b
         /\ base = "a pointer" => \E s \in Structs : Has(l, n + 1, s)
<1>1. \A k : Has(l, n + 1, k) <=> Has(l, n, k) \/ l[n + 1] = k
  BY HasNext
<1>2. /\ t1.base \in Bases \cup {"unspec", "a pointer"}
      /\ \A b \in Bases : Has(l, n, b) <=> t1.base = b
      /\ t1.base = "a pointer" => \E s \in Structs : Has(l, n, s)
  BY DEF ScalarSums, ScalarSpecs
<1>3. \/ l[n + 1] \in Bases /\ t2.base = l[n + 1]
      \/ l[n + 1] \notin Bases /\ t2.base = "unspec"
      \/ l[n + 1] \in Structs /\ l[n + 1] \notin Bases /\ t2.base = "a pointer"
  BY DEF Contribution, Bases, Signs, Structs
<1>4. "unspec" \notin Bases /\ "a pointer" \notin Bases
  BY DEF Bases
<1>5. CASE l[n + 1] \in Bases /\ t2.base = l[n + 1]
  BY <1>1, <1>2, <1>4, <1>5 DEF Given, Conflict
<1>6. CASE l[n + 1] \notin Bases /\ t2.base = "unspec"
  BY <1>1, <1>2, <1>4, <1>6 DEF Given, Conflict
<1>7. CASE l[n + 1] \in Structs /\ l[n + 1] \notin Bases /\ t2.base = "a pointer"
  BY <1>1, <1>2, <1>4, <1>7 DEF Given, Conflict
<1> QED
  BY <1>3, <1>5, <1>6, <1>7

LEMMA MergedSign ==
  ASSUME NEW l, NEW n \in Nat, NEW t1, ScalarSums(t1, l, n), NEW t2,
         Contribution(t2, l[n + 1]), ~Conflict(t1.sign, t2.sign)
  PROVE  LET sign == Given(t1.sign, t2.sign) IN
         /\ sign \in Signs \cup {"unspec"}
         /\ \A s \in Signs : Has(l, n + 1, s) <=> sign = s
<1>1. \A k : Has(l, n + 1, k) <=> Has(l, n, k) \/ l[n + 1] = k
  BY HasNext
<1>2. t1.sign \in Signs \cup {"unspec"} /\ \A s \in Signs : Has(l, n, s) <=> t1.sign = s
  BY DEF ScalarSums, ScalarSpecs
<1>3. \/ l[n + 1] \in Signs /\ t2.sign = l[n + 1]
      \/ l[n + 1] \notin Signs /\ t2.sign = "unspec"
  BY DEF Contribution, Bases, Signs, Structs
<1>4. "unspec" \notin Signs
  BY DEF Signs
<1> QED
  BY <1>1, <1>2, <1>3, <1>4 DEF Given, Conflict

LEMMA MergedLong ==
  ASSUME NEW l, NEW n \in Nat, NEW t1, ScalarSums(t1, l, n), NEW t2,
         Contribution(t2, l[n + 1]), ~(Longs(t1.lls) * Longs(t2.lls) < 0)
  PROVE  LET lls == MergedLls(t1.lls, t2.lls) IN
         /\ lls \in {"unspec", "long", "long long", "short"}
         /\ Has(l, n + 1, "short") <=> lls = "short"
         /\ Has(l, n + 1, "long") <=> lls \in {"long", "long long"}
         /\ Twice(l, n + 1, "long") <=> lls = "long long"
<1> DEFINE kw == l[n + 1]
<1>1. /\ Has(l, n + 1, "short") <=> Has(l, n, "short") \/ kw = "short"
      /\ Has(l, n + 1, "long") <=> Has(l, n, "long") \/ kw = "long"
      /\ Twice(l, n + 1, "long") <=> Twice(l, n, "long") \/ (Has(l, n, "long") /\ kw = "long")
  BY HasNext
<1>2. /\ t1.lls \in {"unspec", "long", "long long", "short"}
      /\ Has(l, n, "short") <=> t1.lls = "short"
      /\ Has(l, n, "long") <=> t1.lls \in {"long", "long long"}
      /\ Twice(l, n, "long") <=> t1.lls = "long long"
  BY DEF ScalarSums, ScalarSpecs
<1>3. \/ kw \in {"long", "short"} /\ t2.lls = kw
      \/ kw \notin {"long", "short"} /\ t2.lls = "unspec"
  BY DEF Contribution, Bases, Signs, Structs
<1> HIDE DEF kw
<1>4. \/ t2.lls = "unspec" /\ MergedLls(t1.lls, t2.lls) = t1.lls
      \/ t2.lls = "long" /\ t1.lls = "unspec" /\ MergedLls(t1.lls, t2.lls) = "long"
      \/ /\ t2.lls = "long" /\ t1.lls \in {"long", "long long"}
         /\ MergedLls(t1.lls, t2.lls) = "long long"
      \/ /\ t2.lls = "short" /\ t1.lls \in {"unspec", "short"}
         /\ MergedLls(t1.lls, t2.lls) = "short"
  BY <1>2, <1>3, LongsMerge
<1> QED
  BY <1>1, <1>2, <1>3, <1>4

(* A merge that is not fatal keeps account of the keywords. *)
LEMMA ScalarStep ==
  ASSUME NEW l, NEW n \in Nat, NEW t1, ScalarSums(t1, l, n), NEW t2,
         Contribution(t2, l[n + 1]), merge_typespec(t1, t2).ok
  PROVE  /\ merge_typespec(t1, t2).ts.k = "scalar"
         /\ ScalarSums(merge_typespec(t1, t2).ts, l, n + 1)
<1> DEFINE t == merge_typespec(t1, t2).ts
           base == Given(t1.base, t2.base)
           lls  == MergedLls(t1.lls, t2.lls)
           sign == Given(t1.sign, t2.sign)
<1>1. /\ IsScalar(t, base, lls, sign)
      /\ ~Conflict(t1.base, t2.base) /\ ~Conflict(t1.sign, t2.sign)
      /\ ~(Longs(t1.lls) * Longs(t2.lls) < 0)
      /\ Consistent(t)
  BY MergeFields DEF IsScalar
<1>2. /\ base \in Bases \cup {"unspec", "a pointer"}
      /\ \A b \in Bases : Has(l, n + 1, b) <=> base = b
      /\ base = "a pointer" => \E s \in Structs : Has(l, n + 1, s)
  BY <1>1, MergedBase
<1>3. sign \in Signs \cup {"unspec"} /\ \A s \in Signs : Has(l, n + 1, s) <=> sign = s
  BY <1>1, MergedSign
<1>4. /\ lls \in {"unspec", "long", "long long", "short"}
      /\ Has(l, n + 1, "short") <=> lls = "short"
      /\ Has(l, n + 1, "long") <=> lls \in {"long", "long long"}
      /\ Twice(l, n + 1, "long") <=> lls = "long long"
  BY <1>1, MergedLong
<1> HIDE DEF t, base, lls, sign
<1>5. t.k = "scalar" /\ t.base = base /\ t.lls = lls /\ t.sign = sign
  BY ONLY <1>1, Fields
<1>6. t \in ScalarSpecs
  BY ONLY <1>1, <1>2, <1>3, <1>4, Fields
<1>7. ScalarSums(t, l, n + 1)
  BY ONLY <1>1, <1>2, <1>3, <1>4, <1>5, <1>6 DEF ScalarSums
<1> QED
  BY <1>5, <1>7 DEF t

TypeKeywords == Bases \cup Modifiers \cup Structs

LEMMA SameSums ==
  ASSUME NEW l, NEW n, NEW m, NEW t, Sums(t, l, n),
         \A k \in TypeKeywords : Has(l, m, k) <=> Has(l, n, k),
         Twice(l, m, "long") <=> Twice(l, n, "long")
  PROVE  Sums(t, l, m)
<1>1. /\ \A b \in Bases : Has(l, m, b) <=> Has(l, n, b)
      /\ \A s \in Signs : Has(l, m, s) <=> Has(l, n, s)
      /\ \A s \in Structs : Has(l, m, s) <=> Has(l, n, s)
      /\ \A k \in Bases \cup Modifiers : Has(l, m, k) <=> Has(l, n, k)
      /\ \A k \in Bases \cup Modifiers \cup Structs : Has(l, m, k) <=> Has(l, n, k)
      /\ Has(l, m, "short") <=> Has(l, n, "short")
      /\ Has(l, m, "long") <=> Has(l, n, "long")
  BY DEF TypeKeywords, Modifiers
<1>2. ScalarSums(t, l, n) => ScalarSums(t, l, m)
  BY <1>1 DEF ScalarSums
<1> QED
  BY <1>1, <1>2 DEF Sums

Merges(t1, t2, t) == MergedTypes(t1, t2).ok /\ t = MergedTypes(t1, t2).ts

LEMMA MergeCases ==
  ASSUME NEW t1, NEW t2, NEW t, Merges(t1, t2, t)
  PROVE  /\ t2.k = "none" => t = t1
         /\ t2.k # "none" /\ t1.k = "none" => t = t2
         /\ t2.k # "none" /\ t1.k = "scalar" =>
              merge_typespec(t1, Punned(t2)).ok /\ t = merge_typespec(t1, Punned(t2)).ts
         /\ t2.k # "none" => t1.k # "struct"
<1>1. CASE t2.k = "none"
  BY <1>1 DEF Merges, MergedTypes
<1>2. CASE t2.k # "none" /\ t1.k = "none"
  BY <1>2 DEF Merges, MergedTypes
<1>3. CASE t2.k # "none" /\ t1.k = "scalar"
  BY <1>3 DEF Merges, MergedTypes
<1>4. CASE t2.k # "none" /\ t1.k = "struct"
  BY <1>4 DEF Merges, MergedTypes, Fatal
<1> QED
  BY <1>1, <1>2, <1>3, <1>4

LEMMA PunnedKeyword ==
  ASSUME NEW kw \in TypeKeywords
  PROVE  /\ Declspec(kw).ts.k # "none" /\ Contribution(Punned(Declspec(kw).ts), kw)
         /\ kw \in Structs => Declspec(kw).ts.k = "struct"
<1>1. CASE kw \in Bases \cup Modifiers
  <2>1. Declspec(kw).ts.k = "scalar" /\ Contribution(Declspec(kw).ts, kw)
    BY <1>1, ScalarKeyword
  <2>2. kw \notin Structs
    BY <1>1 DEF Bases, Modifiers, Signs, Structs
  <2> QED
    BY <2>1, <2>2 DEF Punned
<1>2. CASE kw \in Structs
  <2>1. kw \in Keywords /\ kw \notin Bases \cup Modifiers \cup TypeQualifiers \cup StorageClasses
    BY <1>2 DEF Keywords, Bases, Modifiers, Signs, Structs, TypeQualifiers, StorageClasses
  <2>2. Declspec(kw).ts = StructSpec(kw = "struct t")
    BY <2>1, KeywordType DEF Modifiers
  <2>3. ASSUME NEW t, t.k = "struct" PROVE Contribution(Punned(t), kw)
    BY <1>2, <2>3 DEF Punned, Typespec, Contribution
  <2>4. StructSpec(kw = "struct t").k = "struct"
    BY DEF StructSpec
  <2> QED
    BY <2>2, <2>3, <2>4
<1> QED
  BY <1>1, <1>2 DEF TypeKeywords

LEMMA NextSums ==
  ASSUME NEW l \in Seq(Keywords), NEW n \in Nat, n + 1 <= Len(l), NEW t1, Sums(t1, l, n),
         NEW t, Merges(t1, Declspec(l[n + 1]).ts, t)
  PROVE  Sums(t, l, n + 1)
<1> DEFINE kw == l[n + 1]
           t2 == Declspec(kw).ts
<1>1. kw \in Keywords
  BY ElementOfSeq
<1>2. \A k : /\ Has(l, n + 1, k) <=> Has(l, n, k) \/ kw = k
             /\ Twice(l, n + 1, k) <=> Twice(l, n, k) \/ (Has(l, n, k) /\ kw = k)
  BY HasNext
<1>3. /\ t2.k = "none" => t = t1
      /\ t2.k # "none" /\ t1.k = "none" => t = t2
      /\ t2.k # "none" /\ t1.k = "scalar" =>
           merge_typespec(t1, Punned(t2)).ok /\ t = merge_typespec(t1, Punned(t2)).ts
      /\ t2.k # "none" => t1.k # "struct"
  BY MergeCases
<1>4. CASE kw \in TypeQualifiers \cup StorageClasses
  <2>1. kw \notin TypeKeywords /\ kw # "long"
    BY <1>4 DEF TypeKeywords, Bases, Modifiers, Signs, Structs, TypeQualifiers, StorageClasses
  <2>2. t2 = NoType
    BY <1>1, <1>4, <2>1, KeywordType DEF TypeKeywords, Modifiers
  <2>3. NoType.k = "none"
    BY DEF NoType
  <2>4. t = t1
    BY <1>3, <2>2, <2>3
  <2>5. Sums(t1, l, n + 1)
    BY <1>2, <2>1, SameSums
  <2> QED
    BY <2>4, <2>5
<1>5. CASE kw \in TypeKeywords
  <2>1. t2.k # "none" /\ Contribution(Punned(t2), kw) /\ (kw \in Structs => t2.k = "struct")
    BY <1>5, PunnedKeyword
  <2> HIDE DEF t2, kw
  <2>2. CASE t1.k = "scalar" /\ ScalarSums(t1, l, n) /\ l[1] \notin Structs
    <3>1. merge_typespec(t1, Punned(t2)).ok /\ t = merge_typespec(t1, Punned(t2)).ts
      BY <1>3, <2>1, <2>2
    <3>2. /\ merge_typespec(t1, Punned(t2)).ts.k = "scalar"
          /\ ScalarSums(merge_typespec(t1, Punned(t2)).ts, l, n + 1)
      BY <2>1, <2>2, <3>1, ScalarStep DEF kw
    <3> QED
      BY <2>2, <3>1, <3>2 DEF Sums
  <2>3. CASE t1 = NoType /\ \A k \in Bases \cup Modifiers \cup Structs : ~Has(l, n, k)
    <3>1. t = t2
      BY <1>3, <2>1, <2>3 DEF NoType
    <3>2. \A k \in TypeKeywords : Has(l, n + 1, k) <=> k = kw
      BY <1>2, <2>3 DEF TypeKeywords
    <3>3. CASE kw \in Structs
      <4>1. kw \notin Bases \cup Modifiers
        BY <3>3 DEF Bases, Modifiers, Signs, Structs
      <4> QED
        BY <2>1, <3>1, <3>2, <3>3, <4>1 DEF Sums, TypeKeywords
    <3>4. CASE kw \in Bases \cup Modifiers
      <4>1. "long" \in TypeKeywords
        BY DEF TypeKeywords, Modifiers
      <4>2. ~Twice(l, n + 1, "long")
        BY <1>2, <2>3, <4>1 DEF TypeKeywords, Twice, Has
      <4>3. t2.k = "scalar" /\ ScalarSums(t2, l, n + 1)
        BY <3>2, <3>4, <4>2, SingleSums DEF t2, TypeKeywords
      <4>4. kw \notin Structs
        BY <3>4 DEF Bases, Modifiers, Signs, Structs
      <4>5. l[1] \notin Structs
        <5>1. Has(l, n + 1, l[1])
          BY DEF Has
        <5> QED
          BY <3>2, <4>4, <5>1 DEF TypeKeywords
      <4> QED
        BY <3>1, <4>3, <4>5 DEF Sums
    <3> QED
      BY <1>5, <3>3, <3>4 DEF TypeKeywords
  <2> QED
    BY <1>3, <2>1, <2>2, <2>3 DEF Sums
<1> QED
  BY <1>1, <1>4, <1>5 DEF Keywords, TypeKeywords

-----------------------------------------------------------------------------
(* What C says of a list, by which keywords it has *)

InAll(k)   == Has(list, Len(list), k)
TwoInAll(k) == Twice(list, Len(list), k)

BaseOfC ==
  /\ \A s \in Structs : ~InAll(s)
  /\ TheBase \in Bases
  /\ \A b \in Bases : InAll(b) => TheBase = b
  /\ (\A b \in Bases : ~InAll(b)) => TheBase = "int"
SignOfC ==
  /\ \A s \in Signs : InAll(s) => TheSign = s
  /\ (\A s \in Signs : ~InAll(s)) => TheSign = "unspec"
ModifiersOfC ==
  /\ ~(InAll("long") /\ InAll("short"))
  /\ TheBase = "char" => ~InAll("long") /\ ~InAll("short")
  /\ TheBase = "double" => ~TwoInAll("long") /\ \A m \in Modifiers : InAll(m) => m = "long"
  /\ TheBase \in {"void", "float", "bool"} => \A m \in Modifiers : ~InAll(m)
LongOfC ==
  /\ InAll("short") => TheLls = "short"
  /\ InAll("long") => TheLls = IF TwoInAll("long") THEN "long long" ELSE "long"
  /\ ~InAll("short") /\ ~InAll("long") => TheLls = "unspec"

LEMMA BaseIsC ==
  ASSUME list \in Seq(Keywords), IsC PROVE BaseOfC
<1>1. IsFiniteSet(Structs) /\ IsFiniteSet(Bases)
  <2>1. IsFiniteSet({"struct t"} \cup {"struct"})
    BY FS_Singleton, FS_AddElement
  <2>2. Structs = {"struct t"} \cup {"struct"}
    BY DEF Structs
  <2> QED
    BY <2>1, <2>2, FiniteBases
<1>2. /\ InList(Structs) = {k \in Structs : InAll(k)} /\ InList(Bases) = {k \in Bases : InAll(k)}
      /\ ~(\E j, k \in Bases : j # k /\ InAll(j) /\ InAll(k))
  <2>1. Cardinality(InList(Bases)) \in Nat
    <3>1. IsFiniteSet(InList(Bases))
      BY <1>1, FS_Subset DEF InList
    <3> QED
      BY <3>1, FS_CardinalityType
  <2>2. ~(Cardinality(InList(Bases)) > 1)
    BY <2>1 DEF IsC
  <2> QED
    BY <1>1, <2>2, InLists DEF InAll
<1>3. \A s \in Structs : ~InAll(s)
  BY <1>2 DEF IsC
<1>4. CASE InList(Bases) = {}
  <2>1. TheBase = "int" /\ "int" \in Bases
    BY <1>4 DEF TheBase, Bases
  <2> QED
    BY <1>2, <1>3, <1>4, <2>1 DEF BaseOfC
<1>5. CASE InList(Bases) # {}
  <2>1. TheBase = CHOOSE k \in InList(Bases) : TRUE
    BY <1>5 DEF TheBase
  <2>2. TheBase \in InList(Bases)
    BY <1>5, <2>1
  <2> QED
    BY <1>2, <1>3, <2>2 DEF BaseOfC
<1> QED
  BY <1>4, <1>5

LEMMA SignIsC ==
  ASSUME list \in Seq(Keywords), IsC PROVE SignOfC
<1>1. /\ InList(Signs) = {k \in Signs : InAll(k)}
      /\ ~(\E j, k \in Signs : j # k /\ InAll(j) /\ InAll(k))
  <2>1. Cardinality(InList(Signs)) \in Nat
    <3>1. IsFiniteSet(InList(Signs))
      BY FiniteBases, FS_Subset DEF InList
    <3> QED
      BY <3>1, FS_CardinalityType
  <2>2. ~(Cardinality(InList(Signs)) > 1)
    BY <2>1 DEF IsC
  <2> QED
    BY FiniteBases, <2>2, InLists DEF InAll
<1>2. CASE InList(Signs) = {}
  <2>1. TheSign = "unspec"
    BY <1>2 DEF TheSign
  <2> QED
    BY <1>1, <1>2, <2>1 DEF SignOfC
<1>3. CASE InList(Signs) # {}
  <2>1. TheSign = CHOOSE k \in InList(Signs) : TRUE
    BY <1>3 DEF TheSign
  <2>2. TheSign \in InList(Signs)
    BY <1>3, <2>1
  <2> QED
    BY <1>1, <2>2 DEF SignOfC
<1> QED
  BY <1>2, <1>3

LEMMA CountsInAll ==
  ASSUME list \in Seq(Keywords)
  PROVE  \A k : /\ Count(k) \in Nat
                /\ Count(k) > 0 <=> InAll(k)
                /\ Count(k) > 1 <=> TwoInAll(k)
  BY Counts DEF InAll, TwoInAll

LEMMA ModifiersIsC ==
  ASSUME list \in Seq(Keywords), IsC PROVE ModifiersOfC
<1>1. /\ Count("long") \in Nat /\ Count("short") \in Nat
      /\ Count("long") > 0 <=> InAll("long")
      /\ Count("short") > 0 <=> InAll("short")
      /\ Count("long") > 1 <=> TwoInAll("long")
  BY CountsInAll
<1>2. InList(Modifiers) = {k \in Modifiers : InAll(k)}
  BY CountsInAll DEF InList
<1>3. "long" \in Modifiers /\ "short" \in Modifiers
  BY DEF Modifiers
<1>4. CASE TheBase = "int"
  <2>1. Count("short") + Count("long") <= (IF Count("short") = 0 THEN 2 ELSE 1)
    BY <1>4 DEF IsC
  <2> QED
    BY <1>1, <1>4, <2>1 DEF ModifiersOfC
<1>5. CASE TheBase = "char"
  <2>1. Count("short") + Count("long") = 0
    BY <1>5 DEF IsC
  <2> QED
    BY <1>1, <1>5, <2>1 DEF ModifiersOfC
<1>6. CASE TheBase = "double"
  <2>1. InList(Modifiers) \subseteq {"long"} /\ Count("long") <= 1
    BY <1>6 DEF IsC
  <2> QED
    BY <1>1, <1>2, <1>3, <1>6, <2>1 DEF ModifiersOfC
<1>7. CASE TheBase \notin {"int", "char", "double"}
  <2>1. InList(Modifiers) = {}
    BY <1>7 DEF IsC
  <2>2. \A m \in Modifiers : ~InAll(m)
    BY <1>2, <2>1
  <2> QED
    BY <1>3, <1>7, <2>2 DEF ModifiersOfC
<1> QED
  BY <1>4, <1>5, <1>6, <1>7

LEMMA LongIsC ==
  ASSUME list \in Seq(Keywords), IsC PROVE LongOfC
<1>1. /\ Count("long") \in Nat /\ Count("short") \in Nat
      /\ Count("long") > 0 <=> InAll("long")
      /\ Count("short") > 0 <=> InAll("short")
      /\ Count("long") > 1 <=> TwoInAll("long")
  BY CountsInAll
<1>2. ~(InAll("long") /\ InAll("short"))
  BY ModifiersIsC DEF ModifiersOfC
<1>3. CASE InAll("short")
  <2>1. TheLls = "short"
    BY <1>1, <1>2, <1>3 DEF TheLls
  <2> QED
    BY <1>2, <1>3, <2>1 DEF LongOfC
<1>4. CASE InAll("long") /\ ~TwoInAll("long")
  <2>1. TheLls = "long"
    BY <1>1, <1>2, <1>4 DEF TheLls
  <2> QED
    BY <1>2, <1>4, <2>1 DEF LongOfC
<1>5. CASE InAll("long") /\ TwoInAll("long")
  <2>1. TheLls = "long long"
    BY <1>1, <1>2, <1>5 DEF TheLls
  <2> QED
    BY <1>2, <1>5, <2>1 DEF LongOfC
<1>6. CASE ~InAll("short") /\ ~InAll("long")
  <2>1. TheLls = "unspec"
    BY <1>1, <1>6 DEF TheLls
  <2> QED
    BY <1>6, <2>1 DEF LongOfC
<1> QED
  BY <1>3, <1>4, <1>5, <1>6

-----------------------------------------------------------------------------
(* What C allows, every merge accepts. *)

LEMMA SameSigns ==
  /\ ~(Longs("unspec") * Longs("unspec") < 0) /\ ~(Longs("long") * Longs("unspec") < 0)
  /\ ~(Longs("long long") * Longs("unspec") < 0) /\ ~(Longs("short") * Longs("unspec") < 0)
  /\ ~(Longs("unspec") * Longs("long") < 0) /\ ~(Longs("long") * Longs("long") < 0)
  /\ ~(Longs("long long") * Longs("long") < 0)
  /\ ~(Longs("unspec") * Longs("short") < 0) /\ ~(Longs("short") * Longs("short") < 0)
  BY DEF Longs

LEMMA NegativeLongs ==
  ASSUME NEW l1 \in {"unspec", "long", "long long", "short"},
         NEW l2 \in {"unspec", "long", "short"}, Longs(l1) * Longs(l2) < 0
  PROVE  \/ l1 \in {"long", "long long"} /\ l2 = "short"
         \/ l1 = "short" /\ l2 = "long"
<1>4. CASE l2 = "unspec"
  BY <1>4, SameSigns, Zenon
<1>5. CASE l2 = "long"
  BY <1>5, SameSigns, Zenon
<1>6. CASE l2 = "short"
  BY <1>6, SameSigns, Zenon
<1> QED
  BY <1>4, <1>5, <1>6

LEMMA HasLater ==
  ASSUME NEW l, NEW n \in Nat, NEW m \in Nat, n <= m
  PROVE  \A k : (Has(l, n, k) => Has(l, m, k)) /\ (Twice(l, n, k) => Twice(l, m, k))
<1>1. 1..n \subseteq 1..m
  OBVIOUS
<1> QED
  BY <1>1 DEF Has, Twice

(* No type is contradictory of which C allows the parts. *)
PartsInAll(base, lls, sign) ==
  /\ base \in Bases \cup {"unspec"} /\ (base # "unspec" => InAll(base))
  /\ lls \in {"long", "long long"} => InAll("long")
  /\ lls = "long long" => TwoInAll("long")
  /\ sign \in Signs \cup {"unspec"} /\ (sign # "unspec" => InAll(sign))

LEMMA PartsOfC ==
  ASSUME BaseOfC, ModifiersOfC, NEW base, NEW lls, NEW sign, PartsInAll(base, lls, sign), NEW t
  PROVE  ~LongOfOther(base, lls) /\ ~NonIntegralSign(t, base, sign)
<1> USE DEF PartsInAll
<1>1. base # "unspec" => TheBase = base
  BY DEF BaseOfC
<1>2. "long" \in Modifiers /\ Signs \subseteq Modifiers /\ "long" \notin Signs
  BY DEF Modifiers, Signs
<1>3. ~LongOfOther(base, lls)
  <2>1. CASE base \in {"void", "float", "bool"}
    BY <1>1, <1>2, <2>1 DEF ModifiersOfC, LongOfOther
  <2>2. CASE base = "char"
    BY <1>1, <1>2, <2>2 DEF ModifiersOfC, LongOfOther
  <2>3. CASE base = "double"
    BY <1>1, <1>2, <2>3 DEF ModifiersOfC, LongOfOther
  <2>4. CASE base \in {"int", "unspec"}
    BY <2>4 DEF LongOfOther
  <2> QED
    BY <2>1, <2>2, <2>3, <2>4 DEF Bases
<1>4. ~NonIntegralSign(t, base, sign)
  <2>1. SUFFICES ASSUME base \in {"float", "double", "bool"}, sign # "unspec" PROVE FALSE
    BY DEF NonIntegralSign
  <2>2. InAll(sign) /\ sign \in Modifiers /\ sign # "long" /\ TheBase = base
    BY <1>1, <1>2, <2>1
  <2> QED
    BY <2>1, <2>2 DEF ModifiersOfC
<1> QED
  BY <1>3, <1>4

LEMMA MergeOfC ==
  ASSUME list \in Seq(Keywords), BaseOfC, SignOfC, ModifiersOfC,
         \A j, k \in Signs : InAll(j) /\ InAll(k) => j = k,
         NEW n \in Nat, n + 1 <= Len(list), NEW t1, ScalarSums(t1, list, n),
         NEW t2, Contribution(t2, list[n + 1])
  PROVE  merge_typespec(t1, t2).ok
<1> DEFINE kw == list[n + 1]
           base == Given(t1.base, t2.base)
           lls  == MergedLls(t1.lls, t2.lls)
           sign == Given(t1.sign, t2.sign)
<1>1. Len(list) \in Nat /\ n + 1 \in Nat /\ n <= Len(list) /\ n + 1 \in 1..Len(list)
  OBVIOUS
<1>2. /\ \A k : Has(list, n, k) => InAll(k)
      /\ \A k : Has(list, n + 1, k) => InAll(k)
      /\ \A k : Twice(list, n + 1, k) => TwoInAll(k)
  BY <1>1, HasLater DEF InAll, TwoInAll
<1>3. InAll(kw)
  BY <1>1 DEF InAll, Has
<1>4. kw \notin Structs
  BY <1>3 DEF BaseOfC
<1>5. \/ kw \in Bases /\ t2.base = kw /\ t2.lls = "unspec" /\ t2.sign = "unspec"
      \/ kw \in Signs /\ t2.base = "unspec" /\ t2.lls = "unspec" /\ t2.sign = kw
      \/ kw \in {"long", "short"} /\ t2.base = "unspec" /\ t2.lls = kw /\ t2.sign = "unspec"
  BY <1>4 DEF Contribution
<1>6. /\ t1.base \in Bases \cup {"unspec", "a pointer"} /\ t1.sign \in Signs \cup {"unspec"}
      /\ t1.lls \in {"unspec", "long", "long long", "short"}
      /\ t1.base \in Bases => Has(list, n, t1.base)
      /\ t1.sign \in Signs => Has(list, n, t1.sign)
      /\ t1.lls = "short" => Has(list, n, "short")
      /\ t1.lls \in {"long", "long long"} => Has(list, n, "long")
      /\ t1.base # "a pointer"
  BY <1>2 DEF ScalarSums, ScalarSpecs, BaseOfC
<1>7. ~Conflict(t1.base, t2.base)
  <2>1. SUFFICES ASSUME t1.base # "unspec", t2.base # "unspec", t1.base # t2.base PROVE FALSE
    BY DEF Conflict
  <2>2. InAll(t1.base) /\ t1.base \in Bases /\ InAll(t2.base) /\ t2.base \in Bases
    BY <1>2, <1>3, <1>5, <1>6, <2>1
  <2> QED
    BY <2>1, <2>2 DEF BaseOfC
<1>8. ~Conflict(t1.sign, t2.sign)
  <2>1. SUFFICES ASSUME t1.sign # "unspec", t2.sign # "unspec", t1.sign # t2.sign PROVE FALSE
    BY DEF Conflict
  <2>2. InAll(t1.sign) /\ t1.sign \in Signs /\ InAll(t2.sign) /\ t2.sign \in Signs
    BY <1>2, <1>3, <1>5, <1>6, <2>1
  <2> QED
    BY <2>1, <2>2
<1>9. ~(Longs(t1.lls) * Longs(t2.lls) < 0)
  <2>1. SUFFICES ASSUME Longs(t1.lls) * Longs(t2.lls) < 0 PROVE FALSE
    OBVIOUS
  <2>2. t2.lls \in {"unspec", "long", "short"} /\ (t2.lls # "unspec" => kw = t2.lls)
    BY <1>5
  <2>3. \/ t1.lls \in {"long", "long long"} /\ t2.lls = "short"
        \/ t1.lls = "short" /\ t2.lls = "long"
    BY <1>6, <2>1, <2>2, NegativeLongs
  <2>4. InAll("long") /\ InAll("short")
    BY <1>2, <1>3, <1>6, <2>2, <2>3
  <2> QED
    BY <2>4 DEF ModifiersOfC
<1>10. /\ base \in Bases \cup {"unspec", "a pointer"}
       /\ \A b \in Bases : Has(list, n + 1, b) <=> base = b
       /\ base = "a pointer" => \E s \in Structs : Has(list, n + 1, s)
  BY <1>7, MergedBase
<1>11. sign \in Signs \cup {"unspec"} /\ \A s \in Signs : Has(list, n + 1, s) <=> sign = s
  BY <1>8, MergedSign
<1>12. /\ Has(list, n + 1, "long") <=> lls \in {"long", "long long"}
       /\ Twice(list, n + 1, "long") <=> lls = "long long"
  BY <1>9, MergedLong
<1> HIDE DEF base, lls, sign
<1>13. base \in Bases \cup {"unspec"} /\ (base # "unspec" => InAll(base))
  BY <1>2, <1>10 DEF BaseOfC
<1>14. sign # "unspec" => InAll(sign)
  BY <1>2, <1>11
<1>15. /\ lls \in {"long", "long long"} => InAll("long")
       /\ lls = "long long" => TwoInAll("long")
  BY <1>2, <1>12
<1>16. ~LongOfOther(base, lls) /\ ~NonIntegralSign(t2, base, sign)
  <2>1. PartsInAll(base, lls, sign)
    BY <1>11, <1>13, <1>14, <1>15 DEF PartsInAll
  <2> QED
    BY <2>1, PartsOfC
<1> QED
  BY <1>7, <1>8, <1>9, <1>16 DEF merge_typespec, base, lls, sign

(* Of a list that C allows, no keyword is refused. *)
LEMMA NoneRefused ==
  ASSUME list \in Seq(Keywords), IsC,
         NEW n \in Nat, n + 1 <= Len(list), NEW t1, Sums(t1, list, n)
  PROVE  MergedTypes(t1, Declspec(list[n + 1]).ts).ok
<1> DEFINE kw == list[n + 1]
           t2 == Declspec(kw).ts
<1>1. BaseOfC /\ SignOfC /\ ModifiersOfC
  BY BaseIsC, SignIsC, ModifiersIsC
<1>2. \A j, k \in Signs : InAll(j) /\ InAll(k) => j = k
  BY <1>1 DEF SignOfC
<1>3. kw \in Keywords /\ n + 1 \in 1..Len(list)
  BY ElementOfSeq
<1>4. InAll(kw)
  BY <1>3 DEF InAll, Has
<1>5. kw \notin Structs
  BY <1>1, <1>4 DEF BaseOfC
<1>6. \A s \in Structs : ~Has(list, n, s)
  BY <1>1, <1>3, HasLater DEF BaseOfC, InAll
<1>7. CASE kw \in TypeQualifiers \cup StorageClasses
  <2>1. t2 = NoType
    <3>1. kw \notin TypeKeywords
      BY <1>7 DEF TypeKeywords, Bases, Modifiers, Signs, Structs, TypeQualifiers, StorageClasses
    <3> QED
      BY <1>3, <1>7, <3>1, KeywordType DEF TypeKeywords, Modifiers
  <2> HIDE DEF t2
  <2>2. t2.k = "none"
    BY <2>1 DEF NoType
  <2>3. MergedTypes(t1, t2).ok
    BY <2>2 DEF MergedTypes
  <2> QED
    BY <2>3 DEF t2
<1>8. CASE kw \in Bases \cup Modifiers
  <2>1. t2.k = "scalar" /\ Contribution(t2, kw)
    BY <1>8, ScalarKeyword
  <2>2. Punned(t2) = t2
    BY <2>1 DEF Punned
  <2>3. ScalarSums(t1, list, n) => merge_typespec(t1, t2).ok
    BY <1>1, <1>2, <2>1, MergeOfC
  <2>4. \/ t1.k = "scalar" /\ ScalarSums(t1, list, n)
        \/ t1.k = "none"
    BY <1>6 DEF Sums, NoType
  <2> HIDE DEF t2
  <2>5. CASE t1.k = "scalar" /\ ScalarSums(t1, list, n)
    <3>1. MergedTypes(t1, t2) = merge_typespec(t1, Punned(t2))
      BY <2>1, <2>5 DEF MergedTypes
    <3> QED
      BY <2>2, <2>3, <2>5, <3>1 DEF t2
  <2>6. CASE t1.k = "none"
    <3>1. MergedTypes(t1, t2).ok
      BY <2>1, <2>6 DEF MergedTypes
    <3> QED
      BY <3>1 DEF t2
  <2> QED
    BY <2>4, <2>5, <2>6
<1> QED
  BY <1>3, <1>5, <1>7, <1>8 DEF Keywords

-----------------------------------------------------------------------------
(* What has been read when the list is at its end *)

LEMMA NotContradictory ==
  ASSUME list \in Seq(Keywords), list # <<>>, NEW t, Sums(t, list, Len(list))
  PROVE  ~Contradicts
<1>1. /\ Count("long") \in Nat /\ Count("short") \in Nat /\ Count("double") \in Nat
      /\ Count("long") > 0 <=> InAll("long")
      /\ Count("short") > 0 <=> InAll("short")
      /\ Count("double") > 0 <=> InAll("double")
      /\ Count("long") > 1 <=> TwoInAll("long")
  BY CountsInAll
<1>2. \A ks : InList(ks) = {k \in ks : InAll(k)}
  BY CountsInAll DEF InList
<1>3. /\ Cardinality(InList(Bases)) > 1 <=> \E j, k \in Bases : j # k /\ InAll(j) /\ InAll(k)
      /\ Cardinality(InList(Signs)) > 1 <=> \E j, k \in Signs : j # k /\ InAll(j) /\ InAll(k)
  BY FiniteBases, InLists DEF InAll
<1>4. /\ "long" \in Modifiers /\ "short" \in Modifiers /\ Signs \subseteq Modifiers
      /\ {"char", "void", "float", "bool", "double"} \subseteq Bases
  BY DEF Modifiers, Bases
<1>5. CASE ScalarSums(t, list, Len(list)) /\ list[1] \notin Structs
  <2>1. /\ \A b \in Bases : InAll(b) => t.base = b
        /\ \A s \in Signs : InAll(s) => t.sign = s
        /\ InAll("short") => t.lls = "short"
        /\ InAll("long") => t.lls \in {"long", "long long"}
        /\ TwoInAll("long") => t.lls = "long long"
        /\ Consistent(t)
    BY <1>5 DEF ScalarSums, InAll, TwoInAll
  <2>2. ~(Cardinality(InList(Bases)) > 1) /\ ~(Cardinality(InList(Signs)) > 1)
    BY <1>3, <2>1
  <2>3. ~(Count("long") > 0 /\ Count("short") > 0)
    BY <1>1, <2>1
  <2>4. ~(InList(Signs) # {} /\ InList({"float", "double", "bool"}) # {})
    <3>1. SUFFICES ASSUME NEW s \in Signs, InAll(s), NEW b \in {"float", "double", "bool"}, InAll(b)
                   PROVE  FALSE
      BY <1>2
    <3>2. b \in Bases /\ s # "unspec"
      BY DEF Bases, Signs
    <3>3. t.sign = s /\ t.base = b
      BY <2>1, <3>1, <3>2
    <3> QED
      BY <2>1, <3>2, <3>3 DEF Consistent, NonIntegralSign
  <2>5. ~(Count("long") > 0 /\ InList({"char", "void", "float", "bool"}) # {})
    <3>1. SUFFICES ASSUME InAll("long"), NEW b \in {"char", "void", "float", "bool"}, InAll(b)
                   PROVE  FALSE
      BY <1>1, <1>2
    <3>2. b \in Bases
      BY DEF Bases
    <3>3. t.lls \in {"long", "long long"} /\ t.base = b
      BY <2>1, <3>1, <3>2
    <3> QED
      BY <2>1, <3>3 DEF Consistent, LongOfOther
  <2>6. ~(Count("long") > 1 /\ Count("double") > 0)
    <3>1. SUFFICES ASSUME TwoInAll("long"), InAll("double") PROVE FALSE
      BY <1>1
    <3>2. t.lls = "long long" /\ t.base = "double"
      BY <1>4, <2>1, <3>1
    <3> QED
      BY <2>1, <3>2 DEF Consistent, LongOfOther
  <2> QED
    BY <1>5, <2>2, <2>3, <2>4, <2>5, <2>6 DEF Contradicts
<1>6. CASE \A k \in Bases \cup Modifiers : ~InAll(k)
  <2>1. ~InAll("long") /\ ~InAll("double")
    BY <1>4, <1>6
  <2>2. ~(Cardinality(InList(Bases)) > 1) /\ ~(Cardinality(InList(Signs)) > 1)
    BY <1>3, <1>4, <1>6
  <2>3. InList(Signs) = {} /\ InList(Bases \cup Modifiers) = {}
    BY <1>2, <1>4, <1>6
  <2> QED
    BY <1>1, <2>1, <2>2, <2>3 DEF Contradicts
<1> QED
  BY <1>5, <1>6 DEF Sums, InAll

LEMMA TypeOfC ==
  ASSUME list \in Seq(Keywords), IsC, NEW t, Sums(t, list, Len(list))
  PROVE  WithDefault(t) = Typespec(TheBase, TheLls, TheSign)
<1>1. BaseOfC /\ SignOfC /\ LongOfC /\ ModifiersOfC
  BY BaseIsC, SignIsC, LongIsC, ModifiersIsC
<1>2. CASE t.k = "scalar" /\ ScalarSums(t, list, Len(list))
  <2>1. /\ t \in ScalarSpecs
        /\ \A b \in Bases : InAll(b) <=> t.base = b
        /\ t.base # "a pointer"
        /\ \A s \in Signs : InAll(s) <=> t.sign = s
        /\ InAll("short") <=> t.lls = "short"
        /\ InAll("long") <=> t.lls \in {"long", "long long"}
        /\ TwoInAll("long") <=> t.lls = "long long"
    BY <1>1, <1>2 DEF ScalarSums, InAll, TwoInAll, BaseOfC
  <2>2. Given(t.base, "int") = TheBase
    <3>1. t.base \in Bases \cup {"unspec"} /\ "unspec" \notin Bases
      BY <2>1 DEF ScalarSpecs, Bases
    <3>2. CASE t.base \in Bases
      <4>1. TheBase = t.base
        BY <1>1, <2>1, <3>2 DEF BaseOfC
      <4> QED
        BY <3>1, <3>2, <4>1 DEF Given
    <3>3. CASE t.base = "unspec"
      <4>1. \A b \in Bases : ~InAll(b)
        BY <2>1, <3>1, <3>3
      <4>2. TheBase = "int"
        BY <1>1, <4>1 DEF BaseOfC
      <4> QED
        BY <3>3, <4>2 DEF Given
    <3> QED
      BY <3>1, <3>2, <3>3
  <2>3. t.sign = TheSign
    BY <1>1, <2>1 DEF SignOfC, ScalarSpecs
  <2>4. t.lls = TheLls
    BY <1>1, <2>1 DEF LongOfC, ModifiersOfC, ScalarSpecs
  <2>5. WithDefault(t) = [t EXCEPT !.base = Given(@, "int")]
    BY <1>2 DEF WithDefault
  <2>6. t = [k |-> "scalar", base |-> t.base, lls |-> t.lls, sign |-> t.sign]
    BY <2>1 DEF ScalarSpecs
  <2> QED
    BY <2>2, <2>3, <2>4, <2>5, <2>6 DEF Typespec
<1>3. CASE t = NoType /\ \A k \in Bases \cup Modifiers \cup Structs : ~InAll(k)
  <2>1. TheBase = "int" /\ TheSign = "unspec" /\ TheLls = "unspec"
    BY <1>1, <1>3 DEF BaseOfC, SignOfC, LongOfC, Modifiers
  <2>2. WithDefault(t) = Typespec("int", "unspec", "unspec")
    BY <1>3 DEF WithDefault, NoType
  <2> QED
    BY <2>1, <2>2
<1>4. ~(\E s \in Structs : InAll(s))
  BY <1>1 DEF BaseOfC
<1> QED
  BY <1>2, <1>3, <1>4 DEF Sums, InAll

LEMMA SizeOfC ==
  ASSUME list \in Seq(Keywords), IsC PROVE ScalarSize(TheBase, TheLls) = GccSize
<1>1. BaseOfC /\ LongOfC /\ ModifiersOfC
  BY BaseIsC, LongIsC, ModifiersIsC
<1>2. "long" \in Modifiers /\ "short" \in Modifiers
  BY DEF Modifiers
<1>3. TheLls \in {"unspec", "long", "long long", "short"}
  BY <1>1 DEF LongOfC
<1>4. CASE TheBase = "int"
  <2>1. CASE TheLls = "unspec"
    BY <1>4, <2>1 DEF ScalarSize, GccSize
  <2>2. CASE TheLls = "short"
    BY <1>4, <2>2 DEF ScalarSize, GccSize
  <2>3. CASE TheLls = "long"
    BY <1>4, <2>3 DEF ScalarSize, GccSize
  <2>4. CASE TheLls = "long long"
    BY <1>4, <2>4 DEF ScalarSize, GccSize
  <2> QED
    BY <1>3, <2>1, <2>2, <2>3, <2>4
<1>5. CASE TheBase = "double"
  <2>1. TheLls \in {"unspec", "long"}
    BY <1>1, <1>2, <1>5 DEF LongOfC, ModifiersOfC
  <2>2. CASE TheLls = "unspec"
    BY <1>5, <2>2 DEF ScalarSize, GccSize
  <2>3. CASE TheLls = "long"
    BY <1>5, <2>3 DEF ScalarSize, GccSize
  <2> QED
    BY <2>1, <2>2, <2>3
<1>6. CASE TheBase \notin {"int", "double"}
  <2>1. TheBase \in {"char", "void", "float", "bool"}
    BY <1>1, <1>6 DEF BaseOfC, Bases
  <2>2. TheLls = "unspec"
    BY <1>1, <1>2, <2>1 DEF LongOfC, ModifiersOfC
  <2>3. CASE TheBase = "char"
    BY <2>2, <2>3 DEF ScalarSize, GccSize
  <2>4. CASE TheBase = "void"
    BY <2>2, <2>4 DEF ScalarSize, GccSize
  <2>5. CASE TheBase = "float"
    BY <2>2, <2>5 DEF ScalarSize, GccSize
  <2>6. CASE TheBase = "bool"
    BY <2>2, <2>6 DEF ScalarSize, GccSize
  <2> QED
    BY <2>1, <2>3, <2>4, <2>5, <2>6
<1> QED
  BY <1>4, <1>5, <1>6

-----------------------------------------------------------------------------
(* The invariant *)

LEMMA SameList ==
  ASSUME list' = list
  PROVE  /\ IsC' <=> IsC
         /\ Contradicts' <=> Contradicts
         /\ TheBase' = TheBase /\ TheLls' = TheLls /\ TheSign' = TheSign
         /\ GccSize' = GccSize
         /\ InList(TypeQualifiers)' = InList(TypeQualifiers)
<1>1. TheBase' = TheBase /\ TheLls' = TheLls /\ TheSign' = TheSign
  BY DEF TheBase, TheLls, TheSign, InList, Count
<1>2. GccSize' = GccSize
  BY <1>1 DEF GccSize
<1>3. IsC' <=> IsC
  BY <1>1 DEF IsC, Once, InList, Count
<1>4. Contradicts' <=> Contradicts
  BY DEF Contradicts, InList, Count
<1> QED
  BY <1>1, <1>2, <1>3, <1>4 DEF InList, Count

LEMMA ListFacts ==
  ASSUME list \in Lists
  PROVE  list \in Seq(Keywords) /\ list # <<>> /\ Len(list) \in Nat /\ 1 <= Len(list)
<1>1. list \in Seq(Keywords) /\ list # <<>>
  BY ListsAssumption
<1> QED
  BY <1>1, EmptySeq

LEMMA SpecStarts == SpecInit => SpecInv
<1> SUFFICES ASSUME SpecInit PROVE SpecInv
  OBVIOUS
<1>1. list \in Seq(Keywords) /\ list # <<>> /\ Len(list) \in Nat /\ 1 <= Len(list)
  BY ListFacts DEF SpecInit
<1>2. \A k : ~Has(list, 0, k)
  BY DEF Has
<1>3. Sums(NoType, list, 0)
  BY <1>2 DEF Sums
<1>4. list[1] \in Keywords
  BY <1>1, ElementOfSeq
<1>5. Merges(NoType, Declspec(list[1]).ts, Declspec(list[1]).ts)
  <2>1. ASSUME NEW t, t.k = "none" => t = NoType PROVE Merges(NoType, t, t)
    BY <2>1 DEF Merges, MergedTypes, NoType
  <2>2. ASSUME NEW t, \/ \E a, b, c : IsScalar(t, a, b, c)
                      \/ \E a : t = StructSpec(a)
                      \/ t = NoType
        PROVE  t.k = "none" => t = NoType
    <3>1. ASSUME NEW a, NEW b, NEW c, IsScalar(t, a, b, c) PROVE t.k # "none"
      BY ONLY <3>1 DEF IsScalar, Typespec
    <3>2. ASSUME NEW a, t = StructSpec(a) PROVE t.k # "none"
      BY ONLY <3>2 DEF StructSpec
    <3> QED
      BY <2>2, <3>1, <3>2
  <2>3. LET t == Declspec(list[1]).ts IN
        \/ \E a, b, c : IsScalar(t, a, b, c)
        \/ \E a : t = StructSpec(a)
        \/ t = NoType
    BY <1>4, KeywordType
  <2> QED
    BY <2>1, <2>2, <2>3
<1>6. Sums(Declspec(list[1]).ts, list, 0 + 1)
  BY <1>1, <1>3, <1>5, NextSums
<1>7. QualifiersRead(Declspec(list[1]).tq, list, 1)
  BY HasFirst DEF QualifiersRead, Declspec
<1> QED
  BY <1>1, <1>6, <1>7 DEF SpecInit, SpecInv, RefusesContradictions, AcceptsC

LEMMA MergeKeeps == ASSUME SpecInv, Merge PROVE SpecInv'
<1>1. list \in Lists /\ at \in 1..Len(list) /\ outcome = "reading" /\ at < Len(list)
      /\ list' = list /\ at' = at + 1
      /\ Sums(spec.ts, list, at) /\ QualifiersRead(spec.tq, list, at)
  BY DEF SpecInv, Merge
<1>2. list \in Seq(Keywords) /\ list # <<>> /\ Len(list) \in Nat
  BY <1>1, ListFacts
<1> DEFINE next == Declspec(list[at + 1])
<1>3. CASE MergedTypes(spec.ts, next.ts).ok
  <2>1. spec' = merge_declspec(spec, next) /\ outcome' = "reading"
    BY <1>1, <1>3 DEF Merge
  <2>2. spec'.ts = MergedTypes(spec.ts, next.ts).ts /\ spec'.tq = spec.tq \cup next.tq
    BY <2>1 DEF merge_declspec
  <2>3. Merges(spec.ts, next.ts, spec'.ts)
    BY <1>3, <2>2 DEF Merges
  <2>4. Sums(spec'.ts, list, at + 1)
    BY <1>1, <1>2, <2>3, NextSums
  <2>5. QualifiersRead(spec'.tq, list, at + 1)
    <3>1. next.tq = {list[at + 1]} \cap TypeQualifiers
      BY DEF Declspec
    <3>2. \A k : Has(list, at + 1, k) <=> Has(list, at, k) \/ list[at + 1] = k
      BY <1>1, HasNext
    <3> QED
      BY <1>1, <2>2, <3>1, <3>2 DEF QualifiersRead
  <2> QED
    BY <1>1, <1>2, <2>1, <2>4, <2>5 DEF SpecInv, RefusesContradictions, AcceptsC
<1>4. CASE ~MergedTypes(spec.ts, next.ts).ok
  <2>1. outcome' = "fatal"
    BY <1>4 DEF Merge
  <2>2. ~IsC
    BY <1>1, <1>2, <1>4, NoneRefused
  <2>3. ~IsC'
    BY <1>1, <2>2, SameList
  <2> QED
    BY <1>1, <1>2, <2>1, <2>3 DEF SpecInv, RefusesContradictions, AcceptsC
<1> QED
  BY <1>3, <1>4

LEMMA FillKeeps == ASSUME SpecInv, FillDefaults PROVE SpecInv'
<1>1. /\ list \in Lists /\ at \in 1..Len(list) /\ at = Len(list)
      /\ list' = list /\ at' = at /\ outcome' = "declared"
      /\ Sums(spec.ts, list, Len(list)) /\ QualifiersRead(spec.tq, list, Len(list))
  BY DEF SpecInv, FillDefaults
<1>2. list \in Seq(Keywords) /\ list # <<>>
  BY <1>1, ListFacts
<1>3. spec'.ts = WithDefault(spec.ts) /\ spec'.tq = spec.tq
  BY DEF FillDefaults
<1>4. ~Contradicts'
  BY <1>1, <1>2, NotContradictory, SameList
<1>5. ASSUME IsC'
      PROVE  /\ spec'.ts = Typespec(TheBase', TheLls', TheSign')
             /\ ScalarSize(spec'.ts.base, spec'.ts.lls) = GccSize'
             /\ spec'.tq = InList(TypeQualifiers)'
  <2>1. IsC
    BY <1>1, <1>5, SameList
  <2>2. IsScalar(spec'.ts, TheBase, TheLls, TheSign)
    BY <1>1, <1>2, <1>3, <2>1, TypeOfC DEF IsScalar
  <2>3. spec'.ts.base = TheBase /\ spec'.ts.lls = TheLls
    BY ONLY <2>2, Fields
  <2>4. ScalarSize(TheBase, TheLls) = GccSize
    BY <1>2, <2>1, SizeOfC
  <2>5. spec'.tq = InList(TypeQualifiers)
    BY <1>1, <1>2, <1>3, CountsInAll DEF QualifiersRead, InList, InAll
  <2> QED
    BY <1>1, <2>2, <2>3, <2>4, <2>5, SameList DEF IsScalar
<1> QED
  BY <1>1, <1>4, <1>5 DEF SpecInv, RefusesContradictions, AcceptsC

LEMMA SpecKeeps == SpecInv /\ [SpecNext]_specvars => SpecInv'
<1> SUFFICES ASSUME SpecInv, [SpecNext]_specvars PROVE SpecInv'
  OBVIOUS
<1>1. CASE Merge
  BY <1>1, MergeKeeps
<1>2. CASE FillDefaults
  BY <1>2, FillKeeps
<1>3. CASE UNCHANGED specvars
  <2>1. list' = list /\ at' = at /\ spec' = spec /\ outcome' = outcome
    BY <1>3 DEF specvars
  <2> QED
    BY <2>1, SameList DEF SpecInv, RefusesContradictions, AcceptsC
<1> QED
  BY <1>1, <1>2, <1>3 DEF SpecNext, Finished

LEMMA SpecIsInv == Spec => []SpecInv
  BY SpecStarts, SpecKeeps, PTL DEF Spec

(* merge_declspec finds two keywords that contradict each other in lists   *)
(* of any length, with whatever between them: what was merged before is    *)
(* still known when the second one comes.                                  *)
THEOREM ContradictionsRefused == Spec => []RefusesContradictions
<1>1. SpecInv => RefusesContradictions
  BY DEF SpecInv
<1> QED
  BY <1>1, SpecIsInv, PTL

(* A list that C allows, of any length and in any order, passes every      *)
(* check on the way and is given C's type, size and qualifiers by          *)
(* declspec_fill_defaults.                                                 *)
THEOREM CListsAccepted == Spec => []AcceptsC
<1>1. SpecInv => AcceptsC
  BY DEF SpecInv
<1> QED
  BY <1>1, SpecIsInv, PTL
=============================================================================
