-------------------------- MODULE RefinementProofs --------------------------
(***************************************************************************)
(* Translate implements LexicalScopes, for all programs whose declarators  *)
(* keep to what the rest of the compiler can take: with the hypotheses of  *)
(* Conforming every step of the compiler is a step of C's scoping.         *)
(***************************************************************************)
EXTENDS TranslateRefinement, FrontEndProofs, WellFoundedInduction

-----------------------------------------------------------------------------
(* Numbers: a nonempty bounded set has a maximum. *)
LEMMA Minimum ==
  ASSUME NEW T \in SUBSET Nat, T # {}
  PROVE  \E x \in T : \A y \in T : x <= y
<1>1. PICK x \in T : \A y \in T : ~ (<<y, x>> \in OpToRel(<, Nat))
  BY NatLessThanWellFounded, WFMin
<1>2. \A y \in T : ~(y < x)
  BY <1>1 DEF OpToRel
<1> QED
  BY <1>2

LEMMA Maximum ==
  ASSUME NEW n \in Nat, NEW D \in SUBSET (1..n), D # {}
  PROVE  \E i \in D : \A j \in D : j <= i
<1> DEFINE T == {k \in Nat : \E i \in D : k = n - i}
<1>1. PICK d \in D : TRUE
  OBVIOUS
<1>2. d \in 1..n /\ n - d \in Nat
  OBVIOUS
<1>3. T \in SUBSET Nat /\ n - d \in T
  BY <1>2
<1>4. PICK x \in T : \A y \in T : x <= y
  <2> HIDE DEF T
  <2> QED
    BY <1>3, Minimum
<1>5. PICK i \in D : x = n - i
  OBVIOUS
<1>6. ASSUME NEW j \in D PROVE j <= i
  <2>1. j \in 1..n /\ i \in 1..n /\ n - j \in Nat
    OBVIOUS
  <2>2. n - j \in T
    BY <2>1
  <2>3. n - i <= n - j
    BY <1>4, <1>5, <2>2
  <2> QED
    BY <2>1, <2>3
<1> QED
  BY <1>6

-----------------------------------------------------------------------------
(* The scopes as C sees them *)
ScopeContents == [tags : [TagNames -> Nat], ids : [Idents -> Entry]]
Bare(s) == [i \in 1..Len(s) |-> Contents(s[i])]

LEMMA ContentsType ==
  ASSUME NEW scope \in Scopes PROVE Contents(scope) \in ScopeContents
  BY DEF Contents, Scopes, ScopeContents

LEMMA BareFacts ==
  ASSUME NEW s \in Seq(Scopes)
  PROVE  /\ Bare(s) \in Seq(ScopeContents) /\ Len(Bare(s)) = Len(s)
         /\ \A i \in 1..Len(s) : Bare(s)[i] = Contents(s[i])
<1>1. Len(s) \in Nat /\ \A i \in 1..Len(s) : s[i] \in Scopes
  BY LenProperties, ElementOfSeq
<1>2. \A i \in 1..Len(s) : Contents(s[i]) \in ScopeContents
  BY <1>1, ContentsType
<1>3. DOMAIN Bare(s) = 1..Len(s)
  BY DEF Bare
<1> QED
  BY <1>1, <1>2 DEF Bare

LEMMA EnvironmentIs ==
  ASSUME NEW S \in State, StackOK(S)
  PROVE  /\ OpenScopes(S) \in Seq(Scopes) /\ Len(OpenScopes(S)) = Vis(S)
         /\ Vis(S) \in Nat /\ Vis(S) # 0
         /\ S.hold \in BOOLEAN /\ (~S.hold => OpenScopes(S) = S.stack)
         /\ Environment(S) = Bare(OpenScopes(S))
<1>1. S.stack \in Seq(Scopes) /\ Len(S.stack) \in Nat /\ Len(S.stack) # 0 /\ S.hold \in BOOLEAN
  BY LenProperties DEF State, StackOK
<1>2. /\ OpenScopes(S) \in Seq(Scopes) /\ Len(OpenScopes(S)) = Vis(S)
      /\ Vis(S) \in Nat /\ Vis(S) # 0
  BY <1>1, FrontFacts DEF OpenScopes, Vis, StackOK
<1> DEFINE s == OpenScopes(S)
<1>3. SubSeq(Bare(s), 1, Len(s)) = Bare(s)
  <2>1. Bare(s) \in Seq(ScopeContents) /\ Len(Bare(s)) = Len(s)
    BY <1>2, BareFacts
  <2> QED
    BY <2>1, SubSeqFull
<1> QED
  BY <1>1, <1>2, <1>3 DEF Environment, Bare, OpenScopes

LEMMA BareAppend ==
  ASSUME NEW s \in Seq(Scopes), NEW type \in ScopeTypes
  PROVE  Bare(Append(s, NewScope(type))) = Append(Bare(s), LS!Empty)
<1> DEFINE e == NewScope(type)
<1>1. e \in Scopes /\ Contents(e) = LS!Empty
  BY NewScopeType DEF NewScope, Contents, LS!Empty, LS!NoEntry, LS!TagNames, LS!Untagged,
     TagNames, Untagged, NoEntry, Absent
<1> HIDE DEF e
<1>2. /\ Append(s, e) \in Seq(Scopes) /\ Len(Append(s, e)) = Len(s) + 1 /\ Len(s) \in Nat
      /\ \A k \in 1..Len(s) : Append(s, e)[k] = s[k]
      /\ Append(s, e)[Len(s) + 1] = e
  BY <1>1, AppendFacts, LenProperties
<1>3. /\ Bare(s) \in Seq(ScopeContents) /\ Len(Bare(s)) = Len(s)
      /\ \A i \in 1..Len(s) : Bare(s)[i] = Contents(s[i])
  BY BareFacts
<1>4. /\ Bare(Append(s, e)) \in Seq(ScopeContents) /\ Len(Bare(Append(s, e))) = Len(s) + 1
      /\ \A i \in 1..Len(s) + 1 : Bare(Append(s, e))[i] = Contents(Append(s, e)[i])
  BY <1>2, BareFacts
<1>5. Contents(e) \in ScopeContents
  BY <1>1, ContentsType
<1>6. /\ Append(Bare(s), Contents(e)) \in Seq(ScopeContents)
      /\ Len(Append(Bare(s), Contents(e))) = Len(s) + 1
      /\ \A k \in 1..Len(s) : Append(Bare(s), Contents(e))[k] = Bare(s)[k]
      /\ Append(Bare(s), Contents(e))[Len(s) + 1] = Contents(e)
  BY <1>3, <1>5, AppendFacts
<1>7. \A i \in 1..Len(s) + 1 : i \in 1..Len(s) \/ i = Len(s) + 1
  BY <1>2
<1>8. \A i \in 1..Len(s) + 1 : Bare(Append(s, e))[i] = Append(Bare(s), Contents(e))[i]
  BY <1>2, <1>3, <1>4, <1>6, <1>7
<1>9. Bare(Append(s, e)) = Append(Bare(s), Contents(e))
  BY <1>4, <1>6, <1>8, SeqEqual
<1> QED
  BY <1>1, <1>9 DEF e

LEMMA BareFront ==
  ASSUME NEW s \in Seq(Scopes), Len(s) # 0
  PROVE  Bare(Front(s)) = Front(Bare(s))
<1>1. Len(s) \in Nat /\ Len(s) # 0
  BY LenProperties
<1>2. /\ Front(s) \in Seq(Scopes) /\ Len(Front(s)) = Len(s) - 1
      /\ \A k \in 1..Len(s) - 1 : Front(s)[k] = s[k]
  BY FrontFacts
<1>3. /\ Bare(s) \in Seq(ScopeContents) /\ Len(Bare(s)) = Len(s)
      /\ \A i \in 1..Len(s) : Bare(s)[i] = Contents(s[i])
  BY BareFacts
<1>4. /\ Bare(Front(s)) \in Seq(ScopeContents) /\ Len(Bare(Front(s))) = Len(s) - 1
      /\ \A i \in 1..Len(s) - 1 : Bare(Front(s))[i] = Contents(Front(s)[i])
  BY <1>2, BareFacts
<1>5. /\ Front(Bare(s)) \in Seq(ScopeContents) /\ Len(Front(Bare(s))) = Len(s) - 1
      /\ \A i \in 1..Len(s) - 1 : Front(Bare(s))[i] = Bare(s)[i]
  BY <1>1, <1>3, FrontFacts
<1>6. \A i \in 1..Len(s) - 1 : i \in 1..Len(s)
  BY <1>1
<1>7. \A i \in 1..Len(s) - 1 : Bare(Front(s))[i] = Front(Bare(s))[i]
  BY <1>2, <1>3, <1>4, <1>5, <1>6
<1> QED
  BY <1>4, <1>5, <1>7, SeqEqual

(* A scope is replaced by one with other contents. *)
LEMMA BareReplace ==
  ASSUME NEW s \in Seq(Scopes), NEW l \in 1..Len(s), NEW e \in Scopes
  PROVE  Bare([s EXCEPT ![l] = e]) = [Bare(s) EXCEPT ![l] = Contents(e)]
<1>1. /\ [s EXCEPT ![l] = e] \in Seq(Scopes) /\ Len([s EXCEPT ![l] = e]) = Len(s)
      /\ \A j \in 1..Len(s) : [s EXCEPT ![l] = e][j] = IF j = l THEN e ELSE s[j]
  BY ExceptSeq
<1>2. /\ Bare(s) \in Seq(ScopeContents) /\ Len(Bare(s)) = Len(s)
      /\ \A i \in 1..Len(s) : Bare(s)[i] = Contents(s[i])
  BY BareFacts
<1> DEFINE t == [s EXCEPT ![l] = e]
           b == Bare(s)
           d == [b EXCEPT ![l] = Contents(e)]
<1>3. t \in Seq(Scopes) /\ Len(t) = Len(s)
      /\ \A j \in 1..Len(s) : t[j] = IF j = l THEN e ELSE s[j]
  BY <1>1
<1> HIDE DEF t
<1>4. /\ Bare(t) \in Seq(ScopeContents) /\ Len(Bare(t)) = Len(s)
      /\ \A i \in 1..Len(s) : Bare(t)[i] = Contents(t[i])
  BY <1>3, BareFacts
<1>5. b \in Seq(ScopeContents) /\ l \in 1..Len(b) /\ Contents(e) \in ScopeContents
  BY <1>2, ContentsType
<1> HIDE DEF b
<1>6. /\ d \in Seq(ScopeContents) /\ Len(d) = Len(b)
      /\ \A i \in 1..Len(b) : d[i] = IF i = l THEN Contents(e) ELSE b[i]
  BY <1>5, ExceptSeq
<1> HIDE DEF d
<1>7. \A i \in 1..Len(s) : Bare(t)[i] = d[i]
  BY <1>2, <1>3, <1>4, <1>6 DEF b
<1>8. Bare(t) = d
  BY <1>2, <1>4, <1>6, <1>7, SeqEqual DEF b
<1> QED
  BY <1>8 DEF t, d, b

-----------------------------------------------------------------------------
(* The struct types as C sees them *)
StructType == [complete : BOOLEAN, members : SUBSET Members]
Types(q)   == [s \in 1..Len(q) |-> TypeOf(q[s])]

LEMMA TypeOfType ==
  ASSUME NEW su \in Struct PROVE TypeOf(su) \in StructType
  BY DEF TypeOf, Struct, StructType

LEMMA HeapIs == ASSUME NEW S PROVE Heap(S) = Types(S.sus)
  BY DEF Heap, Types

LEMMA TypesFacts ==
  ASSUME NEW q \in Seq(Struct)
  PROVE  /\ Types(q) \in Seq(StructType) /\ Len(Types(q)) = Len(q)
         /\ \A s \in 1..Len(q) : Types(q)[s] = TypeOf(q[s])
<1>1. Len(q) \in Nat /\ \A s \in 1..Len(q) : q[s] \in Struct
  BY LenProperties, ElementOfSeq
<1>2. \A s \in 1..Len(q) : TypeOf(q[s]) \in StructType
  BY <1>1, TypeOfType
<1>3. DOMAIN Types(q) = 1..Len(q)
  BY DEF Types
<1> QED
  BY <1>1, <1>2 DEF Types

LEMMA TypesAppend ==
  ASSUME NEW q \in Seq(Struct), NEW defining \in BOOLEAN
  PROVE  Types(Append(q, NewStruct(defining))) = Append(Types(q), LS!NewStruct)
<1> DEFINE e == NewStruct(defining)
           f == LS!NewStruct
<1>1. e \in Struct /\ TypeOf(e) = f /\ f \in StructType
  BY DEF NewStruct, TypeOf, LS!NewStruct, Struct, StructType
<1> HIDE DEF e, f
<1>2. /\ Append(q, e) \in Seq(Struct) /\ Len(Append(q, e)) = Len(q) + 1 /\ Len(q) \in Nat
      /\ \A k \in 1..Len(q) : Append(q, e)[k] = q[k]
      /\ Append(q, e)[Len(q) + 1] = e
  BY <1>1, AppendFacts, LenProperties
<1>3. /\ Types(q) \in Seq(StructType) /\ Len(Types(q)) = Len(q)
      /\ \A i \in 1..Len(q) : Types(q)[i] = TypeOf(q[i])
  BY TypesFacts
<1>4. /\ Types(Append(q, e)) \in Seq(StructType) /\ Len(Types(Append(q, e))) = Len(q) + 1
      /\ \A i \in 1..Len(q) + 1 : Types(Append(q, e))[i] = TypeOf(Append(q, e)[i])
  BY <1>2, TypesFacts
<1>5. /\ Append(Types(q), f) \in Seq(StructType)
      /\ Len(Append(Types(q), f)) = Len(q) + 1
      /\ \A k \in 1..Len(q) : Append(Types(q), f)[k] = Types(q)[k]
      /\ Append(Types(q), f)[Len(q) + 1] = f
  BY <1>1, <1>3, AppendFacts
<1>6. \A i \in 1..Len(q) + 1 : i \in 1..Len(q) \/ i = Len(q) + 1
  BY <1>2
<1>7. \A i \in 1..Len(q) + 1 : Types(Append(q, e))[i] = Append(Types(q), f)[i]
  BY <1>1, <1>2, <1>3, <1>4, <1>5, <1>6
<1> QED
  BY <1>4, <1>5, <1>7, SeqEqual DEF e, f

LEMMA TypesReplace ==
  ASSUME NEW q \in Seq(Struct), NEW s \in 1..Len(q), NEW e \in Struct
  PROVE  Types([q EXCEPT ![s] = e]) = [Types(q) EXCEPT ![s] = TypeOf(e)]
<1> DEFINE p == [q EXCEPT ![s] = e]
           b == Types(q)
           d == [b EXCEPT ![s] = TypeOf(e)]
<1>1. p \in Seq(Struct) /\ Len(p) = Len(q)
      /\ \A j \in 1..Len(q) : p[j] = IF j = s THEN e ELSE q[j]
  BY ExceptSeq
<1>2. /\ b \in Seq(StructType) /\ Len(b) = Len(q) /\ s \in 1..Len(b)
      /\ \A i \in 1..Len(q) : b[i] = TypeOf(q[i])
  BY TypesFacts
<1> HIDE DEF p, b
<1>3. /\ Types(p) \in Seq(StructType) /\ Len(Types(p)) = Len(q)
      /\ \A i \in 1..Len(q) : Types(p)[i] = TypeOf(p[i])
  BY <1>1, TypesFacts
<1>4. /\ d \in Seq(StructType) /\ Len(d) = Len(b)
      /\ \A i \in 1..Len(b) : d[i] = IF i = s THEN TypeOf(e) ELSE b[i]
  BY <1>2, TypeOfType, ExceptSeq
<1> HIDE DEF d
<1>5. \A i \in 1..Len(q) : Types(p)[i] = d[i]
  BY <1>1, <1>2, <1>3, <1>4
<1>6. Types(p) = d
  BY <1>2, <1>3, <1>4, <1>5, SeqEqual
<1> QED
  BY <1>6 DEF p, d, b

(* A mark for the structs being defined is none of C's. *)
LEMMA TypesMarked ==
  ASSUME NEW q \in Seq(Struct), NEW s \in 1..Len(q), NEW b \in BOOLEAN
  PROVE  Types([q EXCEPT ![s] = Marked(@, b)]) = Types(q)
<1>1. q[s] \in Struct
  BY ElementOfSeq
<1>2. Marked(q[s], b) \in Struct /\ TypeOf(Marked(q[s], b)) = TypeOf(q[s])
  BY <1>1 DEF Marked, Struct, TypeOf
<1>3. Types([q EXCEPT ![s] = Marked(@, b)]) = [Types(q) EXCEPT ![s] = TypeOf(q[s])]
  BY <1>2, TypesReplace
<1>4. Types(q)[s] = TypeOf(q[s]) /\ Types(q) \in Seq(StructType)
  BY TypesFacts
<1>5. Types(q) = [i \in DOMAIN Types(q) |-> Types(q)[i]]
  BY DEF Types
<1> QED
  BY <1>3, <1>4, <1>5

LEMMA ChangedType ==
  ASSUME NEW c, NEW x
  PROVE  /\ [TypeOf(c) EXCEPT !.complete = x] = [complete |-> x, members |-> c.members]
         /\ [TypeOf(c) EXCEPT !.members = x] = [complete |-> c.complete, members |-> x]
         /\ TypeOf(c) = [complete |-> c.complete, members |-> c.members]
  BY DEF TypeOf

LEMMA TypesCompleted ==
  ASSUME NEW q \in Seq(Struct), NEW s \in 1..Len(q)
  PROVE  Types([q EXCEPT ![s] = Completed(@)]) = [Types(q) EXCEPT ![s].complete = TRUE]
<1>1. q[s] \in Struct
  BY ElementOfSeq
<1>2. Completed(q[s]) \in Struct
      /\ TypeOf(Completed(q[s])) = [TypeOf(q[s]) EXCEPT !.complete = TRUE]
  <2> DEFINE c == q[s]
             d == Completed(c)
  <2>1. d \in Struct /\ d.complete = TRUE /\ d.members = c.members
    BY <1>1 DEF Completed, Struct
  <2> HIDE DEF c, d
  <2>2. TypeOf(d) = [TypeOf(c) EXCEPT !.complete = TRUE]
    <3>1. [TypeOf(c) EXCEPT !.complete = TRUE] = [complete |-> TRUE, members |-> c.members]
      BY ChangedType
    <3>2. TypeOf(d) = [complete |-> d.complete, members |-> d.members]
      BY ChangedType
    <3>3. d.complete = TRUE /\ d.members = c.members
      BY <2>1
    <3> QED
      BY ONLY <3>1, <3>2, <3>3, Zenon
  <2> QED
    BY <2>1, <2>2 DEF c, d
<1>3. Types([q EXCEPT ![s] = Completed(@)]) = [Types(q) EXCEPT ![s] = TypeOf(Completed(q[s]))]
  BY <1>2, TypesReplace
<1>4. Types(q)[s] = TypeOf(q[s])
  BY TypesFacts
<1> QED
  BY <1>2, <1>3, <1>4

MemberIn(q, s, ident) == [q EXCEPT ![s] = WithMember(@, ident)]

LEMMA TypesMember ==
  ASSUME NEW q \in Seq(Struct), NEW s \in 1..Len(q), NEW ident \in Members
  PROVE  Types(MemberIn(q, s, ident)) = [Types(q) EXCEPT ![s].members = @ \cup {ident}]
<1>1. q[s] \in Struct
  BY ElementOfSeq
<1>2. WithMember(q[s], ident) \in Struct
      /\ TypeOf(WithMember(q[s], ident)) = [TypeOf(q[s]) EXCEPT !.members = @ \cup {ident}]
  <2> DEFINE c == q[s]
             d == WithMember(c, ident)
  <2>1. d \in Struct /\ d.complete = c.complete /\ d.members = c.members \cup {ident}
    BY <1>1 DEF WithMember, Struct
  <2> HIDE DEF c, d
  <2>2. TypeOf(d) = [TypeOf(c) EXCEPT !.members = c.members \cup {ident}]
    <3> DEFINE m == c.members \cup {ident}
    <3>1. [TypeOf(c) EXCEPT !.members = m] = [complete |-> c.complete, members |-> m]
      BY ChangedType
    <3>2. TypeOf(d) = [complete |-> d.complete, members |-> d.members]
      BY ChangedType
    <3>3. d.complete = c.complete /\ d.members = m
      BY <2>1
    <3> HIDE DEF m
    <3>4. TypeOf(d) = [TypeOf(c) EXCEPT !.members = m]
      BY ONLY <3>1, <3>2, <3>3, Zenon
    <3> QED
      BY <3>4 DEF m
  <2>3. TypeOf(c).members = c.members
    BY DEF TypeOf
  <2> QED
    BY <2>1, <2>2, <2>3 DEF c, d
<1>3. Types([q EXCEPT ![s] = WithMember(@, ident)])
        = [Types(q) EXCEPT ![s] = TypeOf(WithMember(q[s], ident))]
  BY <1>2, TypesReplace
<1>4. Types(q)[s] = TypeOf(q[s])
  BY TypesFacts
<1> QED
  BY <1>2, <1>3, <1>4 DEF MemberIn

-----------------------------------------------------------------------------
(* Tags and identifiers in a table *)
WithTag(scope, t, node) == [scope EXCEPT !.tags[t] = node]
WithId(scope, n, e)     == [scope EXCEPT !.ids[n] = e]
TagIn(s, l, t, node)    == [s EXCEPT ![l] = WithTag(@, t, node)]
IdIn(s, l, n, e)        == [s EXCEPT ![l] = WithId(@, n, e)]

LEMMA BareTag ==
  ASSUME NEW s \in Seq(Scopes), NEW l \in 1..Len(s), NEW t \in TagNames, NEW node \in Nat
  PROVE  /\ TagIn(s, l, t, node) \in Seq(Scopes)
         /\ Bare(TagIn(s, l, t, node)) = [Bare(s) EXCEPT ![l].tags[t] = node]
<1>1. s[l] \in Scopes
  BY ElementOfSeq
<1>2. WithTag(s[l], t, node) \in Scopes
      /\ Contents(WithTag(s[l], t, node)) = [Contents(s[l]) EXCEPT !.tags[t] = node]
  <2> DEFINE c == s[l]
             d == WithTag(c, t, node)
  <2>1. d \in Scopes /\ d.tags = [c.tags EXCEPT ![t] = node] /\ d.ids = c.ids
    BY <1>1 DEF WithTag, Scopes
  <2> HIDE DEF c, d
  <2>2. Contents(d) = [Contents(c) EXCEPT !.tags[t] = node]
    BY <2>1 DEF Contents
  <2> QED
    BY <2>1, <2>2 DEF c, d
<1>3. Bare([s EXCEPT ![l] = WithTag(@, t, node)])
        = [Bare(s) EXCEPT ![l] = Contents(WithTag(s[l], t, node))]
  BY <1>2, BareReplace
<1>4. Bare(s)[l] = Contents(s[l])
  BY BareFacts
<1>5. [s EXCEPT ![l] = WithTag(@, t, node)] \in Seq(Scopes)
  BY <1>2, ExceptSeq
<1> QED
  BY <1>2, <1>3, <1>4, <1>5 DEF TagIn

LEMMA BareId ==
  ASSUME NEW s \in Seq(Scopes), NEW l \in 1..Len(s), NEW n \in Idents, NEW e \in Entry
  PROVE  /\ IdIn(s, l, n, e) \in Seq(Scopes)
         /\ Bare(IdIn(s, l, n, e)) = [Bare(s) EXCEPT ![l].ids[n] = e]
<1>1. s[l] \in Scopes
  BY ElementOfSeq
<1>2. WithId(s[l], n, e) \in Scopes
      /\ Contents(WithId(s[l], n, e)) = [Contents(s[l]) EXCEPT !.ids[n] = e]
  <2> DEFINE c == s[l]
             d == WithId(c, n, e)
  <2>1. d \in Scopes /\ d.tags = c.tags /\ d.ids = [c.ids EXCEPT ![n] = e]
    BY <1>1 DEF WithId, Scopes
  <2> HIDE DEF c, d
  <2>2. Contents(d) = [Contents(c) EXCEPT !.ids[n] = e]
    BY <2>1 DEF Contents
  <2> QED
    BY <2>1, <2>2 DEF c, d
<1>3. Bare([s EXCEPT ![l] = WithId(@, n, e)]) = [Bare(s) EXCEPT ![l] = Contents(WithId(s[l], n, e))]
  BY <1>2, BareReplace
<1>4. Bare(s)[l] = Contents(s[l])
  BY BareFacts
<1>5. [s EXCEPT ![l] = WithId(@, n, e)] \in Seq(Scopes)
  BY <1>2, ExceptSeq
<1> QED
  BY <1>2, <1>3, <1>4, <1>5 DEF IdIn

-----------------------------------------------------------------------------
(* The mapping, for each form of the stack that a handler leaves *)

(* While nothing is on hold, every scope is open. *)
LEMMA Unheld ==
  ASSUME NEW S, S.stack \in Seq(Scopes), S.hold = FALSE
  PROVE  Environment(S) = Bare(S.stack) /\ Prototype(S) = <<>>
<1> DEFINE s == S.stack
<1>1. OpenScopes(S) = s
  BY DEF OpenScopes
<1>2. Bare(s) \in Seq(ScopeContents) /\ Len(Bare(s)) = Len(s)
  BY BareFacts
<1>3. SubSeq(Bare(s), 1, Len(s)) = Bare(s)
  BY <1>2, SubSeqFull
<1> QED
  BY <1>1, <1>3 DEF Environment, Prototype, Bare

LEMMA Holding ==
  ASSUME NEW S, S.stack \in Seq(Scopes), S.hold = TRUE, Len(S.stack) # 0
  PROVE  /\ Environment(S) = Front(Bare(S.stack))
         /\ Prototype(S) = <<Bare(S.stack)[Len(S.stack)]>>
<1> DEFINE s == S.stack
<1>1. OpenScopes(S) = Front(s)
  BY DEF OpenScopes
<1>2. Len(s) \in Nat /\ Front(s) \in Seq(Scopes) /\ Bare(Front(s)) = Front(Bare(s))
  BY LenProperties, FrontFacts, BareFront
<1>3. Bare(Front(s)) \in Seq(ScopeContents) /\ Len(Bare(Front(s))) = Len(Front(s))
  BY <1>2, BareFacts
<1>4. SubSeq(Bare(Front(s)), 1, Len(Front(s))) = Bare(Front(s))
  BY <1>3, SubSeqFull
<1>5. Environment(S) = Bare(Front(s))
  BY <1>1, <1>4 DEF Environment, Bare
<1>6. Len(s) \in 1..Len(s)
  BY <1>2
<1>7. Bare(s)[Len(s)] = Contents(s[Len(s)])
  BY <1>6, BareFacts
<1>8. Prototype(S) = <<Contents(s[Len(s)])>>
  BY DEF Prototype, Last
<1> QED
  BY <1>2, <1>5, <1>7, <1>8

(* What the state becomes, and what C sees of it *)
Alike(S, N) ==
  /\ Environment(N) = Environment(S) /\ Prototype(N) = Prototype(S) /\ Heap(N) = Heap(S)

LEMMA ReduceShows ==
  ASSUME M \in State, NEW N, NEW c, Reduce(N, c)
  PROVE  \/ N.fatal = Running /\ M' = N /\ ctx' = c
         \/ /\ N.fatal # Running /\ M'.fatal = N.fatal /\ UNCHANGED ctx
            /\ M'.stack = M.stack /\ M'.hold = M.hold /\ M'.sus = M.sus
            /\ UNCHANGED <<Environment(M), Prototype(M), Heap(M)>>
<1>1. CASE N.fatal = Running
  BY <1>1 DEF Reduce
<1>2. CASE N.fatal # Running
  <2>1. M' = [M EXCEPT !.fatal = N.fatal] /\ ctx' = ctx
    BY <1>2 DEF Reduce
  <2>2. /\ M'.fatal = N.fatal /\ M'.stack = M.stack /\ M'.hold = M.hold /\ M'.sus = M.sus
    BY <2>1 DEF State
  <2>3. /\ Environment(M)' = Environment(M) /\ Prototype(M)' = Prototype(M)
        /\ Heap(M)' = Heap(M)
    BY <2>2 DEF Environment, Prototype, Heap, OpenScopes
  <2> QED
    BY <1>2, <2>1, <2>2, <2>3
<1> QED
  BY <1>1, <1>2

LEMMA Shown ==
  ASSUME NEW N, M' = N
  PROVE  /\ Environment(M)' = Environment(N) /\ Prototype(M)' = Prototype(N)
         /\ Heap(M)' = Heap(N)
  OBVIOUS

-----------------------------------------------------------------------------
(* The grammar is the same for both: the instance has a copy of it. *)
LEMMA SameGrammar ==
  /\ \A c : LS!Top(c) = Top(c) /\ LS!Below(c) = Below(c)
  /\ \A c, n : LS!Room(c, n) <=> Room(c, n)
  /\ \A c, sc : LS!MayDeclare(c, sc) <=> MayDeclare(c, sc)
  /\ \A c, tag, sc : LS!MayOpenMembers(c, tag, sc) <=> MayOpenMembers(c, tag, sc)
  /\ \A c : LS!MayCloseMembers(c) <=> MayCloseMembers(c)
  /\ \A c, star : LS!MayName(c, star) <=> MayName(c, star)
  /\ \A c, star : LS!MayOmitName(c, star) <=> MayOmitName(c, star)
  /\ \A c : LS!NamesHere(c) = NamesHere(c)
  /\ \A c : LS!MayOpenList(c) <=> MayOpenList(c)
  /\ \A c : LS!MayCloseList(c) <=> MayCloseList(c)
  /\ \A c, more : LS!MayEndDeclarator(c, more) <=> MayEndDeclarator(c, more)
  /\ \A c : LS!MayEndEmpty(c) <=> MayEndEmpty(c)
  /\ \A c : LS!MayDefine(c) <=> MayDefine(c)
  /\ \A c : LS!AtStmt(c) <=> AtStmt(c)
  /\ \A c : LS!MayCloseBlock(c) <=> MayCloseBlock(c)
  /\ \A c : LS!MayEndFor(c) <=> MayEndFor(c)
  /\ \A f : LS!IsFunction(f) <=> IsFunction(f)
<1>1. \A c : LS!Top(c) = Top(c) /\ LS!Below(c) = Below(c)
  BY DEF LS!Top, LS!Below, Top, Below
<1>2. \A c, n : LS!Room(c, n) <=> Room(c, n)
  BY DEF LS!Room, Room
<1>3. \A c, sc : LS!MayDeclare(c, sc) <=> MayDeclare(c, sc)
  BY <1>1 DEF LS!MayDeclare, MayDeclare
<1>4. \A c, tag, sc : LS!MayOpenMembers(c, tag, sc) <=> MayOpenMembers(c, tag, sc)
  BY <1>3 DEF LS!MayOpenMembers, MayOpenMembers, LS!Untagged, Untagged
<1>5. \A c, p : LS!Reading(c, p) <=> Reading(c, p)
  BY <1>1 DEF LS!Reading, Reading
<1>6. \A c : LS!MayCloseMembers(c) <=> MayCloseMembers(c)
  BY <1>1 DEF LS!MayCloseMembers, MayCloseMembers
<1>7. \A c, star : LS!MayName(c, star) <=> MayName(c, star)
  BY <1>1, <1>5 DEF LS!MayName, MayName
<1>8. \A c, star : LS!MayOmitName(c, star) <=> MayOmitName(c, star)
  BY <1>1, <1>7 DEF LS!MayOmitName, MayOmitName
<1>9. \A c : LS!NamesHere(c) = NamesHere(c)
  BY <1>1 DEF LS!NamesHere, NamesHere
<1>10. \A c : LS!MayOpenList(c) <=> MayOpenList(c)
  BY <1>1, <1>5 DEF LS!MayOpenList, MayOpenList, LS!NoName, NoName
<1>11. \A c : LS!MayCloseList(c) <=> MayCloseList(c)
  BY <1>1 DEF LS!MayCloseList, MayCloseList
<1>12. \A c, more : LS!MayEndDeclarator(c, more) <=> MayEndDeclarator(c, more)
  BY <1>1, <1>5 DEF LS!MayEndDeclarator, MayEndDeclarator
<1>13. \A c : LS!MayEndEmpty(c) <=> MayEndEmpty(c)
  BY <1>1, <1>5 DEF LS!MayEndEmpty, MayEndEmpty
<1>14. \A c : LS!MayDefine(c) <=> MayDefine(c)
  BY <1>1, <1>5 DEF LS!MayDefine, MayDefine
<1>15. \A c : LS!AtStmt(c) <=> AtStmt(c)
  BY <1>1 DEF LS!AtStmt, AtStmt
<1>16. \A c : LS!MayCloseBlock(c) <=> MayCloseBlock(c)
  BY <1>1 DEF LS!MayCloseBlock, MayCloseBlock
<1>17. \A c : LS!MayEndFor(c) <=> MayEndFor(c)
  BY <1>1 DEF LS!MayEndFor, MayEndFor
<1>18. \A f : LS!IsFunction(f) <=> IsFunction(f)
  BY DEF LS!IsFunction, IsFunction
<1> QED
  BY <1>1, <1>2, <1>3, <1>4, <1>6, <1>7, <1>8, <1>9, <1>10, <1>11, <1>12, <1>13,
     <1>14, <1>15, <1>16, <1>17, <1>18

LEMMA SameConstructs ==
  /\ \A c, node, tag, sc : LS!Specifiers(c, node, tag, sc) = Specifiers(c, node, tag, sc)
  /\ \A c, node, tag, sc : LS!OpenMembers(c, node, tag, sc) = OpenMembers(c, node, tag, sc)
  /\ \A c : LS!CloseMembers(c) = CloseMembers(c)
  /\ \A c, n, inner, star : LS!Named(c, n, inner, star) = Named(c, n, inner, star)
  /\ \A c : LS!OpenList(c) = OpenList(c)
  /\ \A c : LS!CloseList(c) = CloseList(c)
  /\ \A c : LS!EmptyList(c) = EmptyList(c)
  /\ \A c, more : LS!EndDeclarator(c, more) = EndDeclarator(c, more)
  /\ \A c : LS!EndEmpty(c) = EndEmpty(c)
  /\ \A c : LS!OpenBody(c) = OpenBody(c)
  /\ \A c : LS!EmptyBody(c) = EmptyBody(c)
  /\ \A c, kind, at : LS!Push(c, kind, at) = Push(c, kind, at)
  /\ \A c : LS!StmtDone(c) = StmtDone(c)
  /\ \A c : LS!CloseBlock(c) = CloseBlock(c)
  /\ \A c : LS!EndFor(c) = EndFor(c)
  /\ LS!NoTag = NoTag /\ LS!NoName = NoName /\ LS!Untagged = Untagged
  /\ LS!NoEntry = NoEntry /\ LS!Accepted = Running /\ LS!TagNames = TagNames
<1>1. \A c : LS!Top(c) = Top(c) /\ LS!Below(c) = Below(c) /\ LS!Front(c) = Front(c)
  BY DEF LS!Top, LS!Below, LS!Front, Top, Below, Front
<1>2. \A kind, depth, at : LS!Frame(kind, depth, at) = Frame(kind, depth, at)
  BY DEF LS!Frame, Frame, LS!NoTag, NoTag, LS!NoName, NoName
<1>3. \A c, f : LS!ReplaceTop(c, f) = ReplaceTop(c, f)
  BY DEF LS!ReplaceTop, ReplaceTop
<1>4. \A c, node, tag, sc : LS!SpecFrame(c, node, tag, sc) = SpecFrame(c, node, tag, sc)
  BY <1>1, <1>2 DEF LS!SpecFrame, SpecFrame
<1>5. \A c, node, tag, sc : LS!Specifiers(c, node, tag, sc) = Specifiers(c, node, tag, sc)
  BY <1>4 DEF LS!Specifiers, Specifiers
<1>6. \A c, node, tag, sc : LS!OpenMembers(c, node, tag, sc) = OpenMembers(c, node, tag, sc)
  BY <1>1, <1>2, <1>5 DEF LS!OpenMembers, OpenMembers
<1>7. \A c : LS!CloseMembers(c) = CloseMembers(c) /\ LS!EmptyBody(c) = EmptyBody(c)
  BY <1>1 DEF LS!CloseMembers, CloseMembers, LS!EmptyBody, EmptyBody
<1>8. \A c, n, inner, star : LS!Named(c, n, inner, star) = Named(c, n, inner, star)
  BY <1>1, <1>3 DEF LS!Named, Named
<1>9. \A c, kind, at : LS!Push(c, kind, at) = Push(c, kind, at)
  BY <1>1, <1>2 DEF LS!Push, Push, LS!OpensScope, OpensScope
<1>10. \A c : LS!OpenList(c) = OpenList(c)
  BY <1>1, <1>9 DEF LS!OpenList, OpenList, LS!NoName, NoName
<1>11. \A f, names, nameless : LS!WithList(f, names, nameless) = WithList(f, names, nameless)
  BY DEF LS!WithList, WithList
<1>12. \A c : LS!CloseList(c) = CloseList(c) /\ LS!EmptyList(c) = EmptyList(c)
  BY <1>1, <1>3, <1>11 DEF LS!CloseList, CloseList, LS!EmptyList, EmptyList
<1>13. \A h, f : LS!HostAfter(h, f) = HostAfter(h, f)
  BY DEF LS!HostAfter, HostAfter, LS!NoName, NoName
<1>14. \A c, more : LS!EndDeclarator(c, more) = EndDeclarator(c, more)
  BY <1>1, <1>3, <1>4, <1>13 DEF LS!EndDeclarator, EndDeclarator
<1>15. \A c : LS!EndEmpty(c) = EndEmpty(c)
  BY <1>1, <1>3, <1>13 DEF LS!EndEmpty, EndEmpty
<1>16. \A c : LS!OpenBody(c) = OpenBody(c)
  BY <1>1, <1>2 DEF LS!OpenBody, OpenBody
<1>17. \A c : LS!StmtDone(c) = StmtDone(c)
  BY <1>1 DEF LS!StmtDone, StmtDone
<1>18. \A c : LS!CloseBlock(c) = CloseBlock(c) /\ LS!EndFor(c) = EndFor(c)
  BY <1>1, <1>17 DEF LS!CloseBlock, CloseBlock, LS!EndFor, EndFor
<1>19. /\ LS!NoTag = NoTag /\ LS!NoName = NoName /\ LS!Untagged = Untagged
       /\ LS!NoEntry = NoEntry /\ LS!Accepted = Running /\ LS!TagNames = TagNames
  BY DEF LS!NoTag, NoTag, LS!NoName, NoName, LS!Untagged, Untagged, LS!NoEntry, NoEntry,
     LS!Accepted, Running, LS!TagNames, TagNames
<1> QED
  BY <1>5, <1>6, <1>7, <1>8, <1>9, <1>10, <1>12, <1>14, <1>15, <1>16, <1>17, <1>18, <1>19

-----------------------------------------------------------------------------
(* The invariant.  A refinement needs more than the compiler's own checks:  *)
(* a prototype is on hold only for a declarator of the translation unit     *)
(* that has read its parameters, ...                                       *)
HoldOnly(S, c) ==
  S.hold => Reading(c, {"name"}) /\ Below(c).kind = "file" /\ Top(c).lists # 0

(* ... a parameter list declares nothing but parameters, ... *)
ProtoIds(s) ==
  \A k \in 1..Len(s), n \in Idents :
    s[k].type = "proto" /\ s[k].ids[n] # NoEntry => s[k].ids[n].proto

(* ... and the structs the constructs are about exist, and the parameter    *)
(* lists outside functions and other lists belong to declarators of the    *)
(* translation unit.                                                       *)
ListsAtFile(c) ==
  \A i \in 3..Len(c) : c[i].kind = "params" /\ c[i-1].depth = 1 => c[i-2].kind = "file"
CtxInv(m, c) == (\A i \in 1..Len(c) : c[i].node \in 0..m) /\ ListsAtFile(c)

Extra(S, c) ==
  HoldOnly(S, c) /\ ProtoIds(S.stack) /\ CtxInv(Len(S.sus), c)

RInv == SInv /\ OwnInv(M, ctx) /\ Extra(M, ctx)

Conforming ==
  MaxLists <= 1 /\ ~AbstractFns /\ ~NestedSameTag /\ ~FnPtrMembers /\ ~ParamNamedAsFn

(* Nothing is on hold between two declarators. *)
Free(S) == Ready(S) /\ S.hold = FALSE /\ S.stack \in Seq(Scopes) /\ S.sus \in Seq(Struct)

LEMMA LiveFacts ==
  ASSUME RInv, Live
  PROVE  /\ SInv /\ BInv /\ IInv /\ Ready(M) /\ M \in State
         /\ FramesOK(ctx) /\ ctx \in Seq(Frames) /\ Len(ctx) \in Nat /\ Len(ctx) >= 1
         /\ Top(ctx) = ctx[Len(ctx)] /\ Top(ctx) \in Frames /\ Match(M, ctx)
         /\ M.stack \in Seq(Scopes) /\ Len(M.stack) \in Nat /\ Len(M.stack) # 0
         /\ M.sus \in Seq(Struct) /\ Len(M.sus) \in Nat /\ M.hold \in BOOLEAN
         /\ ~M.fndef /\ M.fatal = Running
         /\ HoldOnly(M, ctx) /\ ProtoIds(M.stack) /\ CtxInv(Len(M.sus), ctx)
         /\ StructInv(M, ctx) /\ PlainFrames(ctx)
<1>1. SInv /\ BInv /\ IInv /\ OwnInv(M, ctx)
  BY DEF RInv, SInv, BInv
<1>2. /\ Ready(M) /\ M \in State /\ FramesOK(ctx) /\ ctx \in Seq(Frames) /\ Match(M, ctx)
      /\ PlainFrames(ctx)
  BY <1>1, OwnReady DEF IInv
<1>3. /\ Len(ctx) \in Nat /\ Len(ctx) >= 1 /\ Top(ctx) = ctx[Len(ctx)] /\ Top(ctx) \in Frames
  BY <1>2, FrameFacts
<1>4. /\ M.stack \in Seq(Scopes) /\ Len(M.stack) \in Nat /\ Len(M.stack) # 0
      /\ M.sus \in Seq(Struct) /\ Len(M.sus) \in Nat /\ M.hold \in BOOLEAN
      /\ ~M.fndef /\ M.fatal = Running
  BY <1>2, LenProperties DEF State, Ready, StackOK
<1>5. /\ HoldOnly(M, ctx) /\ ProtoIds(M.stack) /\ CtxInv(Len(M.sus), ctx)
      /\ StructInv(M, ctx)
  BY DEF RInv, Extra, SInv
<1> QED
  BY <1>1, <1>2, <1>3, <1>4, <1>5

LEMMA LiveFree ==
  ASSUME RInv, Live,
         ~Reading(ctx, {"name"}) \/ Top(ctx).lists = 0 \/ Below(ctx).kind # "file"
  PROVE  Free(M)
  BY LiveFacts DEF HoldOnly, Free

LEMMA NodesMore ==
  ASSUME NEW m \in Nat, NEW k \in Nat, k <= m, NEW c, CtxInv(k, c)
  PROVE  CtxInv(m, c)
<1>1. ASSUME NEW i \in 1..Len(c) PROVE c[i].node \in 0..m
  <2>1. c[i].node \in 0..k
    BY DEF CtxInv
  <2> QED
    BY <2>1
<1> QED
  BY <1>1 DEF CtxInv

LEMMA NodesPush ==
  ASSUME NEW m, NEW c \in Seq(Frames), CtxInv(m, c), NEW f \in Frames, f.node \in 0..m,
         f.kind = "params" /\ Top(c).depth = 1 => Below(c).kind = "file"
  PROVE  CtxInv(m, Append(c, f))
<1> DEFINE d == Append(c, f)
           n == Len(c)
<1>1. /\ Len(d) = n + 1 /\ n \in Nat /\ d[n + 1] = f
      /\ \A k \in 1..n : d[k] = c[k]
  BY AppendFacts, LenProperties
<1>2. \A i \in 1..n + 1 : i \in 1..n \/ i = n + 1
  BY <1>1
<1>3. Top(c) = c[n] /\ Below(c) = c[n - 1]
  BY DEF Top, Below
<1>4. /\ \A i \in 1..n : c[i].node \in 0..m
      /\ \A i \in 3..n : c[i].kind = "params" /\ c[i-1].depth = 1 => c[i-2].kind = "file"
  BY DEF CtxInv, ListsAtFile
<1> HIDE DEF d, n
<1>5. \A i \in 1..Len(d) : d[i].node \in 0..m
  BY <1>1, <1>2, <1>4
<1>6. ASSUME NEW i \in 3..Len(d), d[i].kind = "params", d[i-1].depth = 1
      PROVE  d[i-2].kind = "file"
  <2>1. i \in 1..n + 1 /\ i - 1 \in 1..n /\ i - 2 \in 1..n
    BY <1>1
  <2>2. d[i-1] = c[i-1] /\ d[i-2] = c[i-2]
    BY <1>1, <2>1
  <2>3. CASE i = n + 1
    <3>1. d[i] = f /\ c[i-1] = Top(c) /\ c[i-2] = Below(c)
      BY <1>1, <1>3, <2>3
    <3> QED
      BY <1>6, <2>2, <3>1
  <2>4. CASE i \in 1..n
    BY <1>1, <1>4, <1>6, <2>2, <2>4
  <2> QED
    BY <1>2, <2>1, <2>3, <2>4
<1> QED
  BY <1>5, <1>6 DEF CtxInv, ListsAtFile, d

LEMMA NodesDrop ==
  ASSUME NEW m, NEW c \in Seq(Frames), Len(c) # 0, CtxInv(m, c)
  PROVE  CtxInv(m, Front(c))
<1>1. /\ Len(Front(c)) = Len(c) - 1 /\ Len(c) \in Nat
      /\ \A k \in 1..Len(c) - 1 : Front(c)[k] = c[k]
  BY FrontFacts, LenProperties
<1>2. \A i \in 1..Len(c) - 1 : i \in 1..Len(c)
  BY <1>1
<1>3. \A i \in 3..Len(c) - 1 : /\ i \in 3..Len(c) /\ i \in 1..Len(c) - 1
                               /\ i - 1 \in 1..Len(c) - 1 /\ i - 2 \in 1..Len(c) - 1
  BY <1>1
<1> QED
  BY <1>1, <1>2, <1>3 DEF CtxInv, ListsAtFile

LEMMA NodesSwap ==
  ASSUME NEW m, NEW c \in Seq(Frames), Len(c) # 0, CtxInv(m, c),
         NEW f \in Frames, f.node \in 0..m, f.kind = Top(c).kind
  PROVE  CtxInv(m, ReplaceTop(c, f))
<1> DEFINE n == Len(c)
           d == ReplaceTop(c, f)
<1>1. n \in 1..n /\ n \in Nat
  BY LenProperties
<1>2. Len(d) = n /\ \A i \in 1..n : d[i] = IF i = n THEN f ELSE c[i]
  BY <1>1, ExceptSeq DEF ReplaceTop
<1>3. Top(c) = c[n]
  BY DEF Top
<1>4. /\ \A i \in 1..n : c[i].node \in 0..m
      /\ \A i \in 3..n : c[i].kind = "params" /\ c[i-1].depth = 1 => c[i-2].kind = "file"
  BY DEF CtxInv, ListsAtFile
<1> HIDE DEF d, n
<1>5. \A i \in 3..n : /\ i \in 1..n /\ i - 1 \in 1..n /\ i - 2 \in 1..n
                      /\ i - 1 # n /\ i - 2 # n
  BY <1>1
<1>6. \A i \in 3..n : /\ d[i].kind = c[i].kind
                      /\ d[i-1] = c[i-1] /\ d[i-2] = c[i-2]
  BY <1>2, <1>3, <1>5
<1>7. \A i \in 1..n : d[i].node \in 0..m
  BY <1>2, <1>4
<1> QED
  BY <1>2, <1>4, <1>6, <1>7 DEF CtxInv, ListsAtFile, d

LEMMA NodesAt ==
  ASSUME NEW m, NEW c, Len(c) \in Nat, Len(c) # 0, CtxInv(m, c)
  PROVE  Top(c).node \in 0..m
<1>1. Len(c) \in 1..Len(c)
  OBVIOUS
<1> QED
  BY <1>1 DEF CtxInv, Top

(* An accepted production, a rejected one *)
LEMMA ExtraKept ==
  ASSUME NEW S, Extra(M, ctx), S.hold = FALSE, ProtoIds(S.stack),
         NEW c, CtxInv(Len(S.sus), c), M' = S, ctx' = c
  PROVE  Extra(M', ctx')
  BY DEF Extra, HoldOnly

LEMMA Rejected ==
  ASSUME RInv, Live, NEW reasons, M'.fatal \in reasons, UNCHANGED ctx,
         M'.stack = M.stack, M'.hold = M.hold, M'.sus = M.sus,
         UNCHANGED <<Environment(M), Prototype(M), Heap(M)>>
  PROVE  LS!Reject(reasons) /\ Extra(M', ctx')
<1>1. LS!Reject(reasons)
  BY DEF LS!Reject
<1>2. Extra(M', ctx')
  BY LiveFacts DEF Extra, HoldOnly
<1> QED
  BY <1>1, <1>2

(* Scopes stay as they are, open, close or change their tables. *)
LEMMA ProtoPush ==
  ASSUME NEW s \in Seq(Scopes), ProtoIds(s), NEW type \in ScopeTypes
  PROVE  ProtoIds(Append(s, NewScope(type)))
<1>1. NewScope(type) \in Scopes /\ \A n \in Idents : NewScope(type).ids[n] = NoEntry
  BY NewScopeType DEF NewScope
<1>2. /\ Len(Append(s, NewScope(type))) = Len(s) + 1 /\ Len(s) \in Nat
      /\ Append(s, NewScope(type))[Len(s) + 1] = NewScope(type)
      /\ \A k \in 1..Len(s) : Append(s, NewScope(type))[k] = s[k]
  BY <1>1, AppendFacts, LenProperties
<1>3. \A i \in 1..Len(s) + 1 : i \in 1..Len(s) \/ i = Len(s) + 1
  BY <1>2
<1> QED
  BY <1>1, <1>2, <1>3 DEF ProtoIds

LEMMA ProtoFront ==
  ASSUME NEW s \in Seq(Scopes), Len(s) # 0, ProtoIds(s) PROVE ProtoIds(Front(s))
<1>1. /\ Len(Front(s)) = Len(s) - 1 /\ Len(s) \in Nat
      /\ \A k \in 1..Len(s) - 1 : Front(s)[k] = s[k]
  BY FrontFacts, LenProperties
<1>2. \A i \in 1..Len(s) - 1 : i \in 1..Len(s)
  BY <1>1
<1> QED
  BY <1>1, <1>2 DEF ProtoIds

LEMMA ProtoReplace ==
  ASSUME NEW s \in Seq(Scopes), ProtoIds(s), NEW l \in 1..Len(s), NEW e \in Scopes,
         \A n \in Idents : e.type = "proto" /\ e.ids[n] # NoEntry => e.ids[n].proto
  PROVE  ProtoIds([s EXCEPT ![l] = e])
<1>1. /\ Len([s EXCEPT ![l] = e]) = Len(s)
      /\ \A i \in 1..Len(s) : [s EXCEPT ![l] = e][i] = IF i = l THEN e ELSE s[i]
  BY ExceptSeq
<1> QED
  BY <1>1 DEF ProtoIds

LEMMA ProtoTag ==
  ASSUME NEW s \in Seq(Scopes), ProtoIds(s), NEW l \in 1..Len(s), NEW t \in TagNames,
         NEW node \in Nat
  PROVE  ProtoIds(TagIn(s, l, t, node))
<1> DEFINE e == WithTag(s[l], t, node)
<1>1. s[l] \in Scopes
  BY ElementOfSeq
<1>2. e \in Scopes /\ e.type = s[l].type /\ e.ids = s[l].ids
  BY <1>1 DEF WithTag, Scopes
<1> HIDE DEF e
<1>3. ProtoIds([s EXCEPT ![l] = e])
  BY <1>2, ProtoReplace DEF ProtoIds
<1> QED
  BY <1>3 DEF e, TagIn

LEMMA ProtoId ==
  ASSUME NEW s \in Seq(Scopes), ProtoIds(s), NEW l \in 1..Len(s), NEW n \in Idents,
         NEW d \in Entry, s[l].type = "proto" => d.proto
  PROVE  ProtoIds(IdIn(s, l, n, d))
<1> DEFINE e == WithId(s[l], n, d)
<1>1. s[l] \in Scopes
  BY ElementOfSeq
<1>2. /\ e \in Scopes /\ e.type = s[l].type
      /\ \A m \in Idents : e.ids[m] = IF m = n THEN d ELSE s[l].ids[m]
  BY <1>1 DEF WithId, Scopes
<1> HIDE DEF e
<1>3. ProtoIds([s EXCEPT ![l] = e])
  BY <1>2, ProtoReplace DEF ProtoIds
<1> QED
  BY <1>3 DEF e, IdIn

-----------------------------------------------------------------------------
(* Declaration specifiers and declarators *)

LEMMA SpecNodes ==
  ASSUME NEW m \in Nat, NEW c, FramesOK(c), CtxInv(m, c), NEW node \in 0..m,
         NEW tag \in TagNames \cup {NoTag}, NEW sc \in StorageClasses
  PROVE  CtxInv(m, Specifiers(c, node, tag, sc))
<1>1. node \in Nat /\ c \in Seq(Frames)
  BY DEF FramesOK
<1>2. /\ SpecFrame(c, node, tag, sc) \in Frames
      /\ SpecFrame(c, node, tag, sc).node = node
      /\ SpecFrame(c, node, tag, sc).kind = "decl"
  BY <1>1, SpecIsFrame
<1> HIDE DEF SpecFrame
<1> QED
  BY <1>1, <1>2, NodesPush DEF Specifiers

LEMMA ScalarRefines ==
  ASSUME Conforming, RInv, Live, NEW sc \in StorageClasses, Scalar(sc)
  PROVE  LS!Scalar(sc) /\ Extra(M', ctx')
<1> DEFINE c == Specifiers(ctx, 0, NoTag, sc)
<1>1. MayDeclare(ctx, sc) /\ Room(ctx, 1) /\ Reduce(M, c)
  BY DEF Scalar
<1>2. M' = M /\ ctx' = c
  BY <1>1 DEF Reduce, Live
<1>3. ~Reading(ctx, {"name"})
  BY <1>1, DeclarationStarts DEF Reading
<1>4. Free(M)
  BY <1>3, LiveFree
<1>5. CtxInv(Len(M.sus), c)
  <2>1. 0 \in 0..Len(M.sus) /\ FramesOK(ctx) /\ Len(M.sus) \in Nat /\ CtxInv(Len(M.sus), ctx)
    BY LiveFacts
  <2> QED
    BY <2>1, SpecNodes
<1>6. Extra(M', ctx')
  BY <1>2, <1>4, <1>5, LiveFacts, ExtraKept DEF Free, RInv
<1>7. LS!Scalar(sc)
  <2>1. ctx' = LS!Specifiers(ctx, 0, LS!NoTag, sc)
    BY <1>2, SameConstructs
  <2>2. LS!MayDeclare(ctx, sc) /\ LS!Room(ctx, 1)
    BY <1>1, SameGrammar
  <2>3. M'.fatal = LS!Accepted
    BY <1>2, SameConstructs DEF Live
  <2>4. UNCHANGED <<Environment(M), Prototype(M), Heap(M)>>
    BY <1>2
  <2> QED
    BY <2>1, <2>2, <2>3, <2>4 DEF LS!Scalar, LS!Accept, LS!Forget
<1> QED
  BY <1>6, <1>7

(* A name is read, or omitted: nothing is declared yet. *)
LEMMA NamingNodes ==
  ASSUME RInv, Live, NEW n \in Idents \cup Members \cup {NoName}, NEW inner \in BOOLEAN,
         NEW star \in BOOLEAN
  PROVE  CtxInv(Len(M.sus), Named(ctx, n, inner, star))
<1> DEFINE t == Top(ctx)
           f == [t EXCEPT !.at = "name", !.name = n, !.inner = inner, !.star = star]
<1>1. t \in Frames /\ ctx \in Seq(Frames) /\ Len(ctx) \in Nat /\ Len(ctx) # 0
      /\ CtxInv(Len(M.sus), ctx)
  BY LiveFacts
<1>2. t.node \in 0..Len(M.sus)
  BY <1>1, NodesAt
<1>3. f \in Frames /\ f.node = t.node /\ f.kind = Top(ctx).kind
  BY <1>1 DEF Frames
<1>4. Named(ctx, n, inner, star) = ReplaceTop(ctx, f)
  BY DEF Named
<1> HIDE DEF f
<1> QED
  BY <1>1, <1>2, <1>3, <1>4, NodesSwap

LEMMA NameRefines ==
  ASSUME Conforming, RInv, Live, NEW n \in Idents \cup Members, NEW inner \in BOOLEAN,
         NEW star \in BOOLEAN, Name(n, inner, star)
  PROVE  LS!Name(n, inner, star) /\ Extra(M', ctx')
<1> DEFINE c == Named(ctx, n, inner, star)
<1>1. MayName(ctx, star) /\ n \in NamesHere(ctx) /\ Reduce(M, c)
  BY DEF Name
<1>2. M' = M /\ ctx' = c
  BY <1>1 DEF Reduce, Live
<1>3. Free(M)
  BY <1>1, LiveFree DEF MayName, Reading
<1>4. CtxInv(Len(M.sus), c)
  BY NamingNodes
<1>5. Extra(M', ctx')
  BY <1>2, <1>3, <1>4, LiveFacts, ExtraKept DEF Free, RInv
<1>6. LS!Name(n, inner, star)
  <2>1. ctx' = LS!Named(ctx, n, inner, star)
    BY <1>2, SameConstructs
  <2>2. LS!MayName(ctx, star) /\ n \in LS!NamesHere(ctx)
    BY <1>1, SameGrammar
  <2>3. M'.fatal = LS!Accepted
    BY <1>2, SameConstructs DEF Live
  <2>4. UNCHANGED <<Environment(M), Prototype(M), Heap(M)>>
    BY <1>2
  <2> QED
    BY <2>1, <2>2, <2>3, <2>4 DEF LS!Name, LS!Accept, LS!Forget
<1> QED
  BY <1>5, <1>6

LEMMA OmitNameRefines ==
  ASSUME Conforming, RInv, Live, NEW star \in BOOLEAN, OmitName(star)
  PROVE  LS!OmitName(star) /\ Extra(M', ctx')
<1> DEFINE c == Named(ctx, NoName, FALSE, star)
<1>1. MayOmitName(ctx, star) /\ Reduce(M, c)
  BY DEF OmitName
<1>2. M' = M /\ ctx' = c
  BY <1>1 DEF Reduce, Live
<1>3. Free(M)
  BY <1>1, LiveFree DEF MayOmitName, MayName, Reading
<1>4. CtxInv(Len(M.sus), c)
  BY NamingNodes
<1>5. Extra(M', ctx')
  BY <1>2, <1>3, <1>4, LiveFacts, ExtraKept DEF Free, RInv
<1>6. LS!OmitName(star)
  <2>1. ctx' = LS!Named(ctx, LS!NoName, FALSE, star)
    BY <1>2, SameConstructs
  <2>2. LS!MayOmitName(ctx, star)
    BY <1>1, SameGrammar
  <2>3. M'.fatal = LS!Accepted
    BY <1>2, SameConstructs DEF Live
  <2>4. UNCHANGED <<Environment(M), Prototype(M), Heap(M)>>
    BY <1>2
  <2> QED
    BY <2>1, <2>2, <2>3, <2>4 DEF LS!OmitName, LS!Accept, LS!Forget
<1> QED
  BY <1>5, <1>6

-----------------------------------------------------------------------------
(* scope_push and scope_pop, exactly *)

(* Where the rest of the state stays *)
Rest(S, N) ==
  N.sus = S.sus /\ N.decls = S.decls /\ N.fatal = S.fatal /\ N.fndef = S.fndef

LEMMA PushIs ==
  ASSUME NEW S, Free(S), NEW type \in ScopeTypes, NEW N,
         N = scope_push(S, type) \/ (type = "block" /\ N = scope_push_auto(S))
  PROVE  /\ N \in State /\ N.hold = FALSE /\ Rest(S, N)
         /\ N.stack = Append(S.stack, NewScope(type))
<1>1. S \in State /\ S.hold = FALSE /\ S.fatal = Running /\ S.stack \in Seq(Scopes)
  BY DEF Free, Ready
<1>2. Append(S.stack, NewScope(type)) \in Seq(Scopes)
  BY <1>1, NewScopeType, AppendFacts
<1> DEFINE s == Append(S.stack, NewScope(type))
<1>3. N = [S EXCEPT !.stack = s]
  BY <1>1 DEF scope_push, scope_push_auto, After
<1> HIDE DEF s
<1>4. N \in State /\ N.hold = FALSE /\ Rest(S, N) /\ N.stack = s
  BY <1>1, <1>2, <1>3 DEF State, Rest, s
<1> QED
  BY <1>4 DEF s

LEMMA PopIs ==
  ASSUME NEW S \in State, S.hold = FALSE, Len(S.stack) # 1, Len(S.stack) # 0,
         NEW N, N = scope_pop(S)
  PROVE  /\ Rest(S, N)
         /\ IF Len(S.stack) = 2 /\ S.stack[2].type = "proto"
            THEN N.stack = S.stack /\ N.hold = TRUE
            ELSE N.stack = Front(S.stack) /\ N.hold = FALSE
<1>1. CASE Len(S.stack) = 2 /\ S.stack[2].type = "proto"
  <2>1. N = [S EXCEPT !.hold = TRUE]
    BY <1>1 DEF scope_pop, current
  <2> QED
    BY <1>1, <2>1 DEF State, Rest
<1>2. CASE ~(Len(S.stack) = 2 /\ S.stack[2].type = "proto")
  <2>1. N = [S EXCEPT !.stack = Front(S.stack)]
    BY <1>2 DEF scope_pop, current
  <2> QED
    BY <1>2, <2>1 DEF State, Rest
<1> QED
  BY <1>1, <1>2

LEMMA PushPopIs ==
  ASSUME NEW S, Free(S), NEW type \in ScopeTypes, NEW P, NEW N, N = scope_pop(P),
         P = scope_push(S, type) \/ (type = "block" /\ P = scope_push_auto(S))
  PROVE  /\ Rest(S, N)
         /\ IF Len(S.stack) = 1 /\ type = "proto"
            THEN N.stack = Append(S.stack, NewScope(type)) /\ N.hold = TRUE
            ELSE N.stack = S.stack /\ N.hold = FALSE
<1>1. /\ P \in State /\ P.hold = FALSE /\ Rest(S, P)
      /\ P.stack = Append(S.stack, NewScope(type))
  BY PushIs
<1>2. S.stack \in Seq(Scopes) /\ Len(S.stack) \in Nat /\ Len(S.stack) # 0
  BY LenProperties DEF Free, Ready, StackOK
<1>3. NewScope(type) \in Scopes /\ NewScope(type).type = type
  BY NewScopeType
<1>4. Len(P.stack) = Len(S.stack) + 1 /\ P.stack[Len(S.stack) + 1] = NewScope(type)
      /\ Front(P.stack) = S.stack
  BY <1>1, <1>2, <1>3, AppendFacts, FrontAppend
<1>5. /\ Len(P.stack) # 1 /\ Len(P.stack) # 0
      /\ Len(P.stack) = 2 => Len(S.stack) = 1
      /\ Len(S.stack) = 1 => Len(P.stack) = 2
  <2> DEFINE n == Len(S.stack)
             p == Len(P.stack)
  <2>1. n \in Nat /\ n # 0 /\ p = n + 1
    BY <1>2, <1>4
  <2> HIDE DEF n, p
  <2>2. p # 1 /\ p # 0 /\ (p = 2 => n = 1) /\ (n = 1 => p = 2)
    BY ONLY <2>1
  <2> QED
    BY <2>2 DEF n, p
<1>6. /\ Rest(P, N)
      /\ IF Len(P.stack) = 2 /\ P.stack[2].type = "proto"
         THEN N.stack = P.stack /\ N.hold = TRUE
         ELSE N.stack = Front(P.stack) /\ N.hold = FALSE
  BY <1>1, <1>5, PopIs
<1>7. Len(P.stack) = 2 => (P.stack[2].type = "proto" <=> type = "proto")
  BY <1>3, <1>4, <1>5
<1> QED
  BY <1>1, <1>4, <1>5, <1>6, <1>7 DEF Rest

(* What C sees of a scope that opens *)
LEMMA PushShows ==
  ASSUME NEW S, Free(S), NEW type \in ScopeTypes, NEW N,
         N.hold = FALSE, N.stack = Append(S.stack, NewScope(type)), N.sus = S.sus
  PROVE  /\ Environment(N) = Append(Environment(S), LS!Empty)
         /\ Prototype(N) = <<>> /\ Prototype(S) = <<>> /\ Heap(N) = Heap(S)
<1>1. S.stack \in Seq(Scopes) /\ S.hold = FALSE /\ N.stack \in Seq(Scopes)
  BY NewScopeType, AppendFacts DEF Free
<1>2. /\ Environment(S) = Bare(S.stack) /\ Prototype(S) = <<>>
      /\ Environment(N) = Bare(N.stack) /\ Prototype(N) = <<>>
  BY <1>1, Unheld
<1>3. Bare(N.stack) = Append(Bare(S.stack), LS!Empty)
  BY <1>1, BareAppend
<1>4. Heap(N) = Heap(S)
  BY DEF Heap
<1> QED
  BY <1>2, <1>3, <1>4

LEMMA FreeLength ==
  ASSUME NEW S, Free(S)
  PROVE  /\ Environment(S) = Bare(S.stack) /\ Prototype(S) = <<>>
         /\ Len(Environment(S)) = Len(S.stack) /\ Len(S.stack) \in Nat /\ Len(S.stack) # 0
         /\ \A i \in 1..Len(S.stack) : Environment(S)[i] = Contents(S.stack[i])
         /\ Environment(S) \in Seq(ScopeContents)
<1>1. S.stack \in Seq(Scopes) /\ S.hold = FALSE /\ Len(S.stack) \in Nat /\ Len(S.stack) # 0
  BY LenProperties DEF Free, Ready, StackOK
<1>2. Environment(S) = Bare(S.stack) /\ Prototype(S) = <<>>
  BY <1>1, Unheld
<1> QED
  BY <1>1, <1>2, BareFacts

(* A scope that closes, and one that is put on hold *)
LEMMA PopShows ==
  ASSUME NEW S, Free(S), NEW N, N.hold = FALSE, N.stack = Front(S.stack), N.sus = S.sus
  PROVE  /\ Environment(N) = Front(Environment(S))
         /\ Prototype(N) = <<>> /\ Prototype(S) = <<>> /\ Heap(N) = Heap(S)
<1>1. S.stack \in Seq(Scopes) /\ Len(S.stack) # 0 /\ N.stack \in Seq(Scopes)
  BY FrontFacts DEF Free, Ready, StackOK
<1>2. Environment(N) = Bare(N.stack) /\ Prototype(N) = <<>>
  BY <1>1, Unheld
<1>3. Bare(N.stack) = Front(Bare(S.stack))
  BY <1>1, BareFront
<1>4. Heap(N) = Heap(S)
  BY DEF Heap
<1> QED
  BY <1>2, <1>3, <1>4, FreeLength

LEMMA HoldShows ==
  ASSUME NEW S, Free(S), NEW N, N.hold = TRUE, N.stack = S.stack, N.sus = S.sus
  PROVE  /\ Environment(N) = Front(Environment(S))
         /\ Prototype(N) = <<Environment(S)[Len(Environment(S))]>>
         /\ Prototype(S) = <<>> /\ Heap(N) = Heap(S)
<1>1. S.stack \in Seq(Scopes) /\ Len(S.stack) # 0
  BY DEF Free, Ready, StackOK
<1>2. /\ Environment(N) = Front(Bare(N.stack))
      /\ Prototype(N) = <<Bare(N.stack)[Len(N.stack)]>>
  BY <1>1, Holding
<1>3. Heap(N) = Heap(S)
  BY DEF Heap
<1> QED
  BY <1>2, <1>3, FreeLength

LEMMA SameShows ==
  ASSUME NEW S, NEW N, N.hold = S.hold, N.stack = S.stack, Types(N.sus) = Types(S.sus)
  PROVE  Alike(S, N)
  BY HeapIs DEF Alike, Environment, Prototype, OpenScopes

-----------------------------------------------------------------------------
(* Scopes that open and close with a construct *)

LEMMA OpenedStep ==
  ASSUME RInv, Live, Free(M), NEW type \in ScopeTypes, NEW N,
         N = scope_push(M, type) \/ (type = "block" /\ N = scope_push_auto(M)),
         NEW c, Reduce(N, c), CtxInv(Len(M.sus), c)
  PROVE  /\ ctx' = c /\ M'.fatal = LS!Accepted
         /\ Environment(M)' = Append(Environment(M), LS!Empty)
         /\ UNCHANGED <<Prototype(M), Heap(M)>> /\ Extra(M', ctx')
<1>1. /\ N \in State /\ N.hold = FALSE /\ Rest(M, N)
      /\ N.stack = Append(M.stack, NewScope(type))
  BY PushIs
<1>2. M' = N /\ ctx' = c /\ N.fatal = Running
  BY <1>1 DEF Reduce, Rest, Live
<1>3. /\ Environment(N) = Append(Environment(M), LS!Empty)
      /\ Prototype(N) = <<>> /\ Prototype(M) = <<>> /\ Heap(N) = Heap(M)
  BY <1>1, PushShows DEF Rest
<1>4. /\ Environment(M)' = Environment(N) /\ Prototype(M)' = Prototype(N)
      /\ Heap(M)' = Heap(N)
  BY <1>2, Shown
<1>5. ProtoIds(N.stack)
  BY <1>1, LiveFacts, ProtoPush
<1>6. CtxInv(Len(N.sus), c)
  BY <1>1 DEF Rest
<1>7. Extra(M', ctx')
  BY <1>1, <1>2, <1>5, <1>6, ExtraKept DEF RInv
<1>8. M'.fatal = LS!Accepted
  BY <1>2, SameConstructs
<1> QED
  BY <1>2, <1>3, <1>4, <1>7, <1>8

LEMMA ClosedStep ==
  ASSUME RInv, Live, Free(M), Len(M.stack) # 1,
         ~(Len(M.stack) = 2 /\ M.stack[2].type = "proto"),
         NEW c, Reduce(scope_pop(M), c), CtxInv(Len(M.sus), c)
  PROVE  /\ ctx' = c /\ M'.fatal = LS!Accepted
         /\ Environment(M)' = Front(Environment(M))
         /\ UNCHANGED <<Prototype(M), Heap(M)>> /\ Extra(M', ctx')
<1> DEFINE N == scope_pop(M)
<1>1. M \in State /\ M.hold = FALSE /\ Len(M.stack) # 0 /\ M.stack \in Seq(Scopes)
  BY LiveFacts DEF Free
<1>2. Rest(M, N) /\ N.hold = FALSE /\ N.stack = Front(M.stack)
  BY <1>1, PopIs
<1> HIDE DEF N
<1>3. M' = N /\ ctx' = c /\ N.fatal = Running
  BY <1>2 DEF Reduce, Rest, Live, N
<1>4. /\ Environment(N) = Front(Environment(M))
      /\ Prototype(N) = <<>> /\ Prototype(M) = <<>> /\ Heap(N) = Heap(M)
  BY <1>2, PopShows DEF Rest
<1>5. /\ Environment(M)' = Environment(N) /\ Prototype(M)' = Prototype(N)
      /\ Heap(M)' = Heap(N)
  BY <1>3, Shown
<1>6. ProtoIds(N.stack)
  BY <1>1, <1>2, LiveFacts, ProtoFront
<1>7. CtxInv(Len(N.sus), c)
  BY <1>2 DEF Rest
<1>8. Extra(M', ctx')
  BY <1>2, <1>3, <1>6, <1>7, ExtraKept DEF RInv
<1>9. M'.fatal = LS!Accepted
  BY <1>3, SameConstructs
<1> QED
  BY <1>3, <1>4, <1>5, <1>8, <1>9

(* Nothing that C sees changes. *)
LEMMA SilentStep ==
  ASSUME RInv, Live, Free(M), NEW N, N.hold = FALSE, N.stack = M.stack, N.fatal = Running,
         Types(N.sus) = Types(M.sus), Len(N.sus) = Len(M.sus),
         NEW c, Reduce(N, c), CtxInv(Len(M.sus), c)
  PROVE  /\ ctx' = c /\ M'.fatal = LS!Accepted
         /\ UNCHANGED <<Environment(M), Prototype(M), Heap(M)>> /\ Extra(M', ctx')
<1>1. M' = N /\ ctx' = c
  BY DEF Reduce
<1>2. Alike(M, N)
  BY SameShows DEF Free
<1>3. /\ Environment(M)' = Environment(N) /\ Prototype(M)' = Prototype(N)
      /\ Heap(M)' = Heap(N)
  BY <1>1, Shown
<1>4. ProtoIds(N.stack)
  BY LiveFacts
<1>5. Extra(M', ctx')
  BY <1>1, <1>4, ExtraKept DEF RInv
<1>6. M'.fatal = LS!Accepted
  BY <1>1, SameConstructs
<1> QED
  BY <1>1, <1>2, <1>3, <1>5, <1>6 DEF Alike

LEMMA PushNodes ==
  ASSUME RInv, Live, NEW kind \in FrameKinds, NEW at \in {"items", "head", "empty"},
         kind = "params" /\ Top(ctx).depth = 1 => Below(ctx).kind = "file"
  PROVE  CtxInv(Len(M.sus), Push(ctx, kind, at))
<1> DEFINE d == Top(ctx).depth + (IF kind \in OpensScope THEN 1 ELSE 0)
           f == Frame(kind, d, at)
<1>1. /\ Top(ctx).depth \in Nat /\ ctx \in Seq(Frames) /\ CtxInv(Len(M.sus), ctx)
      /\ Len(M.sus) \in Nat
  BY LiveFacts, FrameFacts
<1>2. d \in Nat
  BY <1>1
<1>3. Push(ctx, kind, at) = Append(ctx, f)
  BY DEF Push
<1> HIDE DEF d
<1>4. f \in Frames /\ f.node = 0 /\ f.kind = kind
  BY <1>2, NewFrame
<1> HIDE DEF f
<1>5. f.node \in 0..Len(M.sus)
  BY <1>1, <1>4
<1> QED
  BY <1>1, <1>3, <1>4, <1>5, NodesPush

(* At depth 1 are the translation unit and, in it, struct definitions. *)
LEMMA AtDepthOne ==
  ASSUME RInv, Live, Reading(ctx, {"name"}), Top(ctx).depth = 1, Below(ctx).kind # "su"
  PROVE  Below(ctx).kind = "file"
<1> DEFINE b == Front(ctx)
<1>1. /\ Len(ctx) # 1 /\ Fits(Below(ctx), Top(ctx)) /\ Below(ctx) \in Frames
      /\ Below(ctx).kind \notin {"aparams", "decl"} /\ FramesOK(b) /\ Top(b) = Below(ctx)
      /\ Below(ctx).depth = 1
  BY LiveFacts, DeclaratorFacts
<1> HIDE DEF b
<1>2. Below(ctx).kind \in FrameKinds
  BY <1>1 DEF Frames
<1>3. Top(b).kind \notin OpensScope
  <2> SUFFICES ASSUME Top(b).kind \in OpensScope PROVE FALSE
    OBVIOUS
  <2>1. Len(b) \in Nat /\ Len(b) >= 1 /\ Top(b).kind # "file" /\ Top(b) = b[Len(b)]
    BY <1>1, FrameFacts DEF OpensScope
  <2>2. Len(b) # 1
    BY <1>1, <2>1, FrameFacts
  <2>3. Fits(b[Len(b) - 1], b[Len(b)]) /\ Len(b) - 1 \in 1..Len(b)
    BY <1>1, <2>1, <2>2 DEF FramesOK
  <2>4. b[Len(b) - 1].depth \in Nat /\ b[Len(b) - 1].depth # 0
    BY <1>1, <2>3, FrameFacts
  <2>5. Top(b).depth = b[Len(b) - 1].depth + 1
    BY <2>1, <2>3 DEF Fits
  <2> QED
    BY <1>1, <2>4, <2>5
<1> QED
  BY <1>1, <1>2, <1>3 DEF FrameKinds

LEMMA OpenParamsRefines ==
  ASSUME Conforming, RInv, Live, OpenParams
  PROVE  LS!OpenParams /\ Extra(M', ctx')
<1>1. BInv /\ OneList
  BY LiveFacts DEF Conforming, OneList
<1>2. MayOpenList(ctx) /\ Room(ctx, 2) /\ Top(ctx).name # NoName /\ Top(ctx).lists = 0
  BY <1>1, FirstList DEF OpenParams
<1>3. Reduce(scope_push(M, "proto"), OpenList(ctx))
  BY <1>2 DEF OpenParams
<1>4. Free(M)
  BY <1>2, LiveFree
<1>5. OpenList(ctx) = Push(ctx, "params", "empty")
  BY <1>2 DEF OpenList
<1>6. CtxInv(Len(M.sus), OpenList(ctx))
  <2>1. Top(ctx).depth = 1 => Below(ctx).kind # "su"
    BY <1>2 DEF MayOpenList, Conforming
  <2>2. Reading(ctx, {"name"})
    BY <1>2 DEF MayOpenList
  <2>3. Top(ctx).depth = 1 => Below(ctx).kind = "file"
    BY <2>1, <2>2, AtDepthOne
  <2>4. "params" \in FrameKinds
    BY DEF FrameKinds, OpensScope
  <2> QED
    BY <1>5, <2>3, <2>4, PushNodes
<1>7. /\ ctx' = OpenList(ctx) /\ M'.fatal = LS!Accepted
      /\ Environment(M)' = Append(Environment(M), LS!Empty)
      /\ UNCHANGED <<Prototype(M), Heap(M)>> /\ Extra(M', ctx')
  BY <1>3, <1>4, <1>6, OpenedStep DEF ScopeTypes
<1>8. LS!MayOpenList(ctx) /\ LS!Room(ctx, 2) /\ ctx' = LS!OpenList(ctx)
  BY <1>2, <1>7, SameGrammar, SameConstructs
<1>9. LS!OpenParams
  BY <1>7, <1>8 DEF LS!OpenParams, LS!Accept, LS!Forget
<1> QED
  BY <1>7, <1>9

LEMMA AtStmtFree ==
  ASSUME RInv, Live, AtStmt(ctx) PROVE Free(M)
  BY LiveFree DEF AtStmt, Reading

LEMMA BeginBlockRefines ==
  ASSUME RInv, Live, BeginBlock
  PROVE  LS!BeginBlock /\ Extra(M', ctx')
<1> DEFINE c == Push(ctx, "block", "items")
<1>1. AtStmt(ctx) /\ Room(ctx, 1) /\ Reduce(scope_push_auto(M), c) /\ Free(M)
  BY AtStmtFree DEF BeginBlock
<1>2. CtxInv(Len(M.sus), c)
  BY PushNodes DEF FrameKinds, OpensScope
<1>3. /\ ctx' = c /\ M'.fatal = LS!Accepted
      /\ Environment(M)' = Append(Environment(M), LS!Empty)
      /\ UNCHANGED <<Prototype(M), Heap(M)>> /\ Extra(M', ctx')
  BY <1>1, <1>2, OpenedStep DEF ScopeTypes
<1>4. LS!AtStmt(ctx) /\ LS!Room(ctx, 1) /\ ctx' = LS!Push(ctx, "block", "items")
  BY <1>1, <1>3, SameGrammar, SameConstructs
<1>5. LS!BeginBlock
  BY <1>3, <1>4 DEF LS!BeginBlock, LS!Accept, LS!Forget
<1> QED
  BY <1>3, <1>5

LEMMA BeginForRefines ==
  ASSUME RInv, Live, BeginFor
  PROVE  LS!BeginFor /\ Extra(M', ctx')
<1> DEFINE c == Push(ctx, "for", "head")
<1>1. AtStmt(ctx) /\ Room(ctx, 2) /\ Reduce(scope_push_auto(M), c) /\ Free(M)
  BY AtStmtFree DEF BeginFor
<1>2. CtxInv(Len(M.sus), c)
  BY PushNodes DEF FrameKinds, OpensScope
<1>3. /\ ctx' = c /\ M'.fatal = LS!Accepted
      /\ Environment(M)' = Append(Environment(M), LS!Empty)
      /\ UNCHANGED <<Prototype(M), Heap(M)>> /\ Extra(M', ctx')
  BY <1>1, <1>2, OpenedStep DEF ScopeTypes
<1>4. LS!AtStmt(ctx) /\ LS!Room(ctx, 2) /\ ctx' = LS!Push(ctx, "for", "head")
  BY <1>1, <1>3, SameGrammar, SameConstructs
<1>5. LS!BeginFor
  BY <1>3, <1>4 DEF LS!BeginFor, LS!Accept, LS!Forget
<1> QED
  BY <1>3, <1>5

LEMMA StmtDoneNodes ==
  ASSUME NEW m, NEW c \in Seq(Frames), Len(c) # 0, CtxInv(m, c)
  PROVE  CtxInv(m, StmtDone(c))
<1> DEFINE f == [Top(c) EXCEPT !.at = "tail"]
<1>1. Len(c) \in Nat /\ Len(c) \in 1..Len(c)
  BY LenProperties
<1>2. Top(c) \in Frames /\ Top(c).node \in 0..m
  BY <1>1, ElementOfSeq, NodesAt DEF Top
<1>3. f \in Frames /\ f.node = Top(c).node /\ f.kind = Top(c).kind
  BY <1>2 DEF Frames
<1>4. [c EXCEPT ![Len(c)].at = "tail"] = ReplaceTop(c, f)
  BY DEF ReplaceTop, Top
<1> HIDE DEF f
<1>5. CtxInv(m, ReplaceTop(c, f))
  BY <1>2, <1>3, NodesSwap
<1> QED
  BY <1>4, <1>5 DEF StmtDone

LEMMA SimpleStmtRefines ==
  ASSUME RInv, Live, SimpleStmt
  PROVE  LS!SimpleStmt /\ Extra(M', ctx')
<1> DEFINE c == StmtDone(ctx)
           P == scope_push_auto(M)
           N == scope_pop(P)
<1>1. AtStmt(ctx) /\ Top(ctx).kind = "for" /\ Reduce(N, c) /\ Free(M)
  BY AtStmtFree DEF SimpleStmt
<1>2. Rest(M, N) /\ N.stack = M.stack /\ N.hold = FALSE
  <2>1. "block" \in ScopeTypes
    BY DEF ScopeTypes
  <2>2. P = scope_push_auto(M)
    OBVIOUS
  <2> HIDE DEF P
  <2>3. /\ Rest(M, N)
        /\ IF Len(M.stack) = 1 /\ "block" = "proto"
           THEN N.stack = Append(M.stack, NewScope("block")) /\ N.hold = TRUE
           ELSE N.stack = M.stack /\ N.hold = FALSE
    BY ONLY <1>1, <2>1, <2>2, PushPopIs
  <2>4. "block" # "proto"
    OBVIOUS
  <2> QED
    BY ONLY <2>3, <2>4
<1> HIDE DEF N
<1>3. CtxInv(Len(M.sus), c)
  BY LiveFacts, StmtDoneNodes
<1>4. /\ N.fatal = Running /\ Types(N.sus) = Types(M.sus) /\ Len(N.sus) = Len(M.sus)
  BY <1>2 DEF Rest, Live
<1>5. /\ ctx' = c /\ M'.fatal = LS!Accepted
      /\ UNCHANGED <<Environment(M), Prototype(M), Heap(M)>> /\ Extra(M', ctx')
  BY <1>1, <1>2, <1>3, <1>4, SilentStep
<1>6. LS!AtStmt(ctx) /\ LS!Top(ctx).kind = "for" /\ ctx' = LS!StmtDone(ctx)
  BY <1>1, <1>5, SameGrammar, SameConstructs
<1>7. LS!SimpleStmt
  BY <1>5, <1>6 DEF LS!SimpleStmt, LS!Accept, LS!Forget
<1> QED
  BY <1>5, <1>7

LEMMA SameFront == \A s : LS!Front(s) = Front(s)
  BY DEF LS!Front, Front

(* '}' of a body or block, the end of a FOR *)
LEMMA StmtEnds ==
  ASSUME RInv, Live, Top(ctx).kind \in {"body", "block", "for"},
         Reduce(scope_pop(M), StmtDone(Front(ctx)))
  PROVE  /\ ctx' = StmtDone(Front(ctx)) /\ M'.fatal = LS!Accepted
         /\ Environment(M)' = LS!Front(Environment(M))
         /\ UNCHANGED <<Prototype(M), Heap(M)>> /\ Extra(M', ctx')
<1> DEFINE b == Front(ctx)
<1>1. Free(M) /\ IInv
  BY LiveFree, LiveFacts DEF Reading
<1>2. Top(ctx).kind \in OpensScope /\ TypeOfScope(Top(ctx).kind) # "proto"
  BY DEF OpensScope, TypeOfScope
<1>3. /\ Len(M.stack) # 1 /\ M.stack[Len(M.stack)].type # "proto"
      /\ Len(ctx) # 1
  BY <1>1, <1>2, InConstruct
<1>4. /\ ctx \in Seq(Frames) /\ Len(ctx) \in Nat /\ Len(ctx) # 0 /\ FramesOK(ctx)
      /\ CtxInv(Len(M.sus), ctx)
  BY LiveFacts
<1>5. FramesOK(b)
  BY <1>3, <1>4, DropFrame
<1>6. b \in Seq(Frames) /\ Len(b) # 0
  BY <1>5 DEF FramesOK
<1>7. CtxInv(Len(M.sus), b)
  BY <1>4, NodesDrop
<1> HIDE DEF b
<1>8. CtxInv(Len(M.sus), StmtDone(b))
  BY <1>6, <1>7, StmtDoneNodes
<1>9. /\ ctx' = StmtDone(b) /\ M'.fatal = LS!Accepted
      /\ Environment(M)' = Front(Environment(M))
      /\ UNCHANGED <<Prototype(M), Heap(M)>> /\ Extra(M', ctx')
  BY <1>1, <1>3, <1>8, ClosedStep DEF b
<1> QED
  BY <1>9, SameFront DEF b

LEMMA EndBlockRefines ==
  ASSUME RInv, Live, EndBlock PROVE LS!Leave /\ Extra(M', ctx')
<1>1. MayCloseBlock(ctx) /\ Reduce(scope_pop(M), StmtDone(Front(ctx)))
  BY DEF EndBlock, CloseBlock
<1>2. /\ ctx' = StmtDone(Front(ctx)) /\ M'.fatal = LS!Accepted
      /\ Environment(M)' = LS!Front(Environment(M))
      /\ UNCHANGED <<Prototype(M), Heap(M)>> /\ Extra(M', ctx')
  BY <1>1, StmtEnds DEF MayCloseBlock
<1>3. LS!MayCloseBlock(ctx) /\ ctx' = LS!CloseBlock(ctx)
  BY <1>1, <1>2, SameGrammar, SameConstructs DEF CloseBlock
<1> QED
  BY <1>2, <1>3 DEF LS!Leave, LS!Accept, LS!Forget

LEMMA FinishForRefines ==
  ASSUME RInv, Live, FinishFor PROVE LS!Leave /\ Extra(M', ctx')
<1>1. MayEndFor(ctx) /\ Reduce(scope_pop(M), StmtDone(Front(ctx)))
  BY DEF FinishFor, EndFor
<1>2. /\ ctx' = StmtDone(Front(ctx)) /\ M'.fatal = LS!Accepted
      /\ Environment(M)' = LS!Front(Environment(M))
      /\ UNCHANGED <<Prototype(M), Heap(M)>> /\ Extra(M', ctx')
  BY <1>1, StmtEnds DEF MayEndFor
<1>3. LS!MayEndFor(ctx) /\ ctx' = LS!EndFor(ctx)
  BY <1>1, <1>2, SameGrammar, SameConstructs DEF EndFor
<1> QED
  BY <1>2, <1>3 DEF LS!Leave, LS!Accept, LS!Forget

-----------------------------------------------------------------------------
(* Parameter lists *)

(* A list that has been read leaves the declarator in its place. *)
LEMMA ListNodes ==
  ASSUME NEW m, NEW c \in Seq(Frames), Len(c) # 0, CtxInv(m, c),
         NEW names \in SUBSET Idents, NEW nameless \in BOOLEAN
  PROVE  CtxInv(m, ReplaceTop(c, WithList(Top(c), names, nameless)))
<1> DEFINE f == WithList(Top(c), names, nameless)
<1>1. Top(c) \in Frames /\ Top(c).node \in 0..m
  BY LenProperties, ElementOfSeq, NodesAt DEF Top
<1>2. f \in Frames /\ f.kind = Top(c).kind /\ f.node = Top(c).node
  BY <1>1, WithListFrame
<1> HIDE DEF f
<1>3. f.node \in 0..m
  BY <1>1, <1>2
<1> QED
  BY <1>2, <1>3, NodesSwap DEF f

LEMMA ListHolds ==
  ASSUME NEW c, FramesOK(c), Reading(c, {"name"}), Below(c).kind = "file",
         NEW names \in SUBSET Idents, NEW nameless \in BOOLEAN, NEW S
  PROVE  HoldOnly(S, ReplaceTop(c, WithList(Top(c), names, nameless)))
<1> DEFINE f == WithList(Top(c), names, nameless)
           d == ReplaceTop(c, f)
<1>1. Top(c) \in Frames /\ Len(c) # 1
  BY FrameFacts, AtFileLevel DEF Reading
<1>2. /\ f \in Frames /\ f.kind = "decl" /\ f.at = "name" /\ f.lists = Top(c).lists + 1
      /\ Top(c).lists \in Nat /\ f.depth = Top(c).depth
  <2> DEFINE t == Top(c)
             g == WithList(t, names, nameless)
  <2>1. t \in Frames /\ t.kind = "decl" /\ t.at = "name"
    BY <1>1 DEF Reading
  <2> HIDE DEF t
  <2>2. t.lists \in Nat
    BY <2>1 DEF Frames
  <2>3. g \in Frames /\ g.kind = t.kind
    BY <2>1, WithListFrame
  <2>4. g.at = t.at /\ g.depth = t.depth /\ g.lists = t.lists + 1
    BY <2>1 DEF WithList, Frames
  <2> QED
    BY <2>1, <2>2, <2>3, <2>4 DEF t
<1>3. c \in Seq(Frames) /\ Len(c) # 0 /\ Len(c) \in 1..Len(c)
  BY LenProperties DEF FramesOK
<1>4. Top(d) = f /\ Below(d) = Below(c)
  <2> HIDE DEF f
  <2>1. /\ Len(d) = Len(c)
        /\ \A i \in 1..Len(c) : d[i] = IF i = Len(c) THEN f ELSE c[i]
    BY <1>2, <1>3, ExceptSeq DEF ReplaceTop
  <2>2. Len(c) - 1 \in 1..Len(c) /\ Len(c) - 1 # Len(c)
    <3> DEFINE n == Len(c)
    <3>1. n \in Nat /\ n # 1 /\ n # 0
      BY <1>1, <1>3, LenProperties
    <3> HIDE DEF n
    <3>2. n - 1 \in 1..n /\ n - 1 # n
      BY ONLY <3>1
    <3> QED
      BY ONLY <3>2 DEF n
  <2> QED
    BY <1>3, <2>1, <2>2 DEF Top, Below
<1> HIDE DEF f
<1>5. f.lists # 0
  BY <1>2
<1> QED
  BY <1>2, <1>4, <1>5 DEF HoldOnly, Reading, d, f

(* The list whose scope is directly above the file's belongs to a          *)
(* declarator of the translation unit.                                     *)
LEMMA ListHost ==
  ASSUME RInv, Live, MayCloseList(ctx)
  PROVE  LET b == Front(ctx) IN
         /\ Free(M) /\ Top(ctx).kind = "params" /\ FramesOK(b) /\ b \in Seq(Frames)
         /\ Top(b) = Below(ctx) /\ Reading(b, {"name"}) /\ Below(ctx).lists = 0
         /\ Len(b) # 0
         /\ Len(M.stack) # 1 /\ M.stack[Len(M.stack)].type = "proto"
         /\ Len(M.stack) = 2 => Below(b).kind = "file"
         /\ Top(ctx).own \in SUBSET Idents /\ Top(ctx).nameless \in BOOLEAN
<1> DEFINE b == Front(ctx)
<1>1. /\ FramesOK(ctx) /\ PlainFrames(ctx) /\ Len(ctx) \in Nat /\ Top(ctx) \in Frames
      /\ IInv /\ BInv /\ ctx \in Seq(Frames) /\ CtxInv(Len(M.sus), ctx)
      /\ Top(ctx) = ctx[Len(ctx)]
  BY LiveFacts
<1>2. Top(ctx).kind \in {"params", "aparams"} /\ Len(ctx) # 1
  <2>1. Top(ctx).kind # "file"
    BY DEF MayCloseList
  <2> QED
    BY <1>1, <2>1, FrameFacts DEF MayCloseList
<1>3. Plain(Below(ctx), Top(ctx))
  BY <1>1, <1>2, OwnDrop
<1>4. Top(ctx).kind = "params" /\ Below(ctx).lists = 0
  BY <1>2, <1>3 DEF Plain
<1>5. /\ ~M.hold /\ Len(M.stack) = Top(ctx).depth /\ Len(M.stack) # 1
      /\ M.stack[Len(M.stack)].type = "proto"
      /\ FramesOK(b) /\ Top(b) = Below(ctx) /\ Fits(Below(ctx), Top(ctx))
      /\ Top(ctx).depth = Below(ctx).depth + 1 /\ Below(ctx) \in Frames
  BY <1>1, <1>4, InConstruct DEF OpensScope, TypeOfScope
<1>6. Reading(b, {"name"})
  BY <1>4, <1>5 DEF Fits, Reading
<1>7. Len(b) \in Nat /\ Len(b) # 0 /\ b \in Seq(Frames) /\ Len(b) = Len(ctx) - 1
      /\ \A k \in 1..Len(ctx) - 1 : b[k] = ctx[k]
  BY <1>1, <1>5, FrameFacts, FrontFacts DEF FramesOK
<1>8. ASSUME Len(M.stack) = 2 PROVE Below(b).kind = "file"
  <2>1. Below(ctx).depth = 1
    <3>1. Below(ctx).depth \in Nat
      BY <1>5 DEF Frames
    <3> QED
      BY <1>5, <1>8, <3>1
  <2>2. Len(b) # 1
    <3>1. Top(b).kind # "file"
      BY <1>6 DEF Reading
    <3> QED
      BY <1>5, <3>1, FrameFacts
  <2>3. Len(ctx) \in 3..Len(ctx) /\ Len(ctx) - 2 \in 1..Len(ctx) - 1
    BY <1>1, <1>7, <2>2
  <2>4. Below(ctx) = ctx[Len(ctx) - 1]
    BY DEF Below
  <2>5. ctx[Len(ctx) - 2].kind = "file"
    BY <1>1, <1>4, <2>1, <2>3, <2>4 DEF CtxInv, ListsAtFile
  <2>6. Len(b) - 1 = Len(ctx) - 2
    BY <1>1, <1>7
  <2> QED
    BY <1>7, <2>3, <2>5, <2>6 DEF Below
<1>9. Top(ctx).own \in SUBSET Idents /\ Top(ctx).nameless \in BOOLEAN
  BY <1>1 DEF Frames
<1>10. Free(M)
  BY <1>4, LiveFree DEF Reading
<1> QED
  BY <1>4, <1>5, <1>6, <1>7, <1>8, <1>9, <1>10

LEMMA CloseParamsRefines ==
  ASSUME RInv, Live, CloseParams PROVE LS!CloseParams /\ Extra(M', ctx')
<1> DEFINE b == Front(ctx)
           N == scope_pop(M)
           c == CloseList(ctx)
<1>1. MayCloseList(ctx) /\ Reduce(IF Top(ctx).kind = "aparams" THEN M ELSE N, c)
  BY DEF CloseParams
<1>2. /\ Free(M) /\ Top(ctx).kind = "params" /\ FramesOK(b) /\ b \in Seq(Frames)
      /\ Top(b) = Below(ctx) /\ Reading(b, {"name"}) /\ Below(ctx).lists = 0
      /\ Len(b) # 0
      /\ Len(M.stack) # 1 /\ M.stack[Len(M.stack)].type = "proto"
      /\ Len(M.stack) = 2 => Below(b).kind = "file"
      /\ Top(ctx).own \in SUBSET Idents /\ Top(ctx).nameless \in BOOLEAN
  BY <1>1, ListHost
<1>3. Reduce(N, c)
  BY <1>1, <1>2
<1>4. /\ M \in State /\ M.hold = FALSE /\ Len(M.stack) \in Nat /\ Len(M.stack) # 0
      /\ ctx \in Seq(Frames) /\ Len(ctx) \in Nat /\ Len(ctx) # 0 /\ CtxInv(Len(M.sus), ctx)
      /\ ProtoIds(M.stack) /\ M.fatal = Running
  BY <1>2, LiveFacts DEF Free
<1>5. CtxInv(Len(M.sus), b)
  BY <1>4, NodesDrop
<1>6. c = ReplaceTop(b, WithList(Top(b), Top(ctx).own, Top(ctx).nameless))
  BY <1>2 DEF CloseList
<1> HIDE DEF b
<1>7. CtxInv(Len(M.sus), c)
  BY <1>2, <1>5, <1>6, ListNodes
<1>8. LS!MayCloseList(ctx) /\ c = LS!CloseList(ctx)
  BY <1>1, SameGrammar, SameConstructs
<1>9. Len(Environment(M)) = Len(M.stack)
  BY <1>2, FreeLength
<1>10. CASE Len(M.stack) = 2
  <2>1. Rest(M, N) /\ N.stack = M.stack /\ N.hold = TRUE
    BY <1>2, <1>4, <1>10, PopIs
  <2> HIDE DEF N
  <2>2. M' = N /\ ctx' = c /\ N.fatal = Running
    BY <1>3, <1>4, <2>1 DEF Reduce, Rest
  <2>3. /\ Environment(N) = Front(Environment(M))
        /\ Prototype(N) = <<Environment(M)[Len(Environment(M))]>>
        /\ Prototype(M) = <<>> /\ Heap(N) = Heap(M)
    BY <1>2, <2>1, HoldShows DEF Rest
  <2>4. /\ Environment(M)' = Environment(N) /\ Prototype(M)' = Prototype(N)
        /\ Heap(M)' = Heap(N)
    BY <2>2, Shown
  <2>5. HoldOnly(N, c)
    BY <1>2, <1>6, <1>10, ListHolds
  <2>6. Extra(N, c)
    BY <1>4, <1>7, <2>1, <2>5 DEF Extra, Rest
  <2>7. ~(Len(Environment(M)) > 2)
    BY <1>9, <1>10
  <2>8. LS!Below(ctx).lists = 0
    BY <1>2, SameGrammar
  <2>9. LS!KeepProto(LS!Below(ctx), LS!Here)
    BY <2>3, <2>4, <2>8 DEF LS!KeepProto, LS!Here
  <2>10. M'.fatal = LS!Accepted
    BY <2>2, SameConstructs
  <2>11. Environment(M)' = LS!Front(Environment(M))
    BY <2>3, <2>4, SameFront
  <2>12. Heap(M)' = Heap(M)
    BY <2>3, <2>4
  <2>13. LS!CloseParams
    BY <1>8, <2>2, <2>7, <2>9, <2>10, <2>11, <2>12 DEF LS!CloseParams, LS!Accept
  <2> QED
    BY <2>2, <2>6, <2>13
<1>11. CASE Len(M.stack) # 2
  <2>1. /\ ctx' = c /\ M'.fatal = LS!Accepted
        /\ Environment(M)' = Front(Environment(M))
        /\ UNCHANGED <<Prototype(M), Heap(M)>> /\ Extra(M', ctx')
    BY <1>2, <1>3, <1>7, <1>11, ClosedStep
  <2>2. Len(Environment(M)) > 2
    <3> DEFINE n == Len(M.stack)
    <3>1. n \in Nat /\ n # 0 /\ n # 1 /\ n # 2
      BY <1>2, <1>4, <1>11
    <3> HIDE DEF n
    <3>2. n > 2
      BY ONLY <3>1
    <3> QED
      BY <1>9, <3>2 DEF n
  <2>3. Environment(M)' = LS!Front(Environment(M))
    BY <2>1, SameFront
  <2> QED
    BY <1>8, <2>1, <2>2, <2>3 DEF LS!CloseParams, LS!Accept, LS!Forget
<1> QED
  BY <1>10, <1>11

LEMMA EmptyParamsRefines ==
  ASSUME Conforming, RInv, Live, EmptyParams PROVE LS!EmptyParams /\ Extra(M', ctx')
<1> DEFINE c == EmptyList(ctx)
           P == scope_push(M, "proto")
           N == scope_pop(P)
           f == Top(ctx)
<1>1. BInv /\ OneList /\ M.fatal = Running
  BY LiveFacts DEF Conforming, OneList
<1>2. /\ MayOpenList(ctx) /\ f.name # NoName /\ f.lists = 0
      /\ f.kind = "decl" /\ f.at = "name" /\ Reading(ctx, {"name"})
  BY <1>1, FirstList DEF EmptyParams, MayOpenList
<1>3. Reduce(N, c) /\ Free(M)
  BY <1>2, LiveFree DEF EmptyParams
<1>4. /\ FramesOK(ctx) /\ ctx \in Seq(Frames) /\ Len(ctx) \in Nat /\ Len(ctx) # 0
      /\ CtxInv(Len(M.sus), ctx) /\ ProtoIds(M.stack) /\ M.stack \in Seq(Scopes)
      /\ Len(M.stack) \in Nat /\ Len(M.stack) # 0 /\ Match(M, ctx)
  BY LiveFacts
<1>5. /\ Rest(M, N)
      /\ IF Len(M.stack) = 1
         THEN N.stack = Append(M.stack, NewScope("proto")) /\ N.hold = TRUE
         ELSE N.stack = M.stack /\ N.hold = FALSE
  <2>1. "proto" \in ScopeTypes
    BY DEF ScopeTypes
  <2>2. P = scope_push(M, "proto")
    OBVIOUS
  <2> HIDE DEF P
  <2>3. /\ Rest(M, N)
        /\ IF Len(M.stack) = 1 /\ "proto" = "proto"
           THEN N.stack = Append(M.stack, NewScope("proto")) /\ N.hold = TRUE
           ELSE N.stack = M.stack /\ N.hold = FALSE
    BY ONLY <1>3, <2>1, <2>2, PushPopIs
  <2> QED
    BY ONLY <2>3
<1> HIDE DEF N
<1>6. c = ReplaceTop(ctx, WithList(Top(ctx), {}, FALSE))
  BY DEF EmptyList
<1>7. CtxInv(Len(M.sus), c)
  BY <1>4, <1>6, ListNodes
<1>8. LS!MayOpenList(ctx) /\ c = LS!EmptyList(ctx) /\ LS!Top(ctx).lists = 0
  BY <1>2, SameGrammar, SameConstructs
<1>9. Len(Environment(M)) = Len(M.stack)
  BY <1>3, FreeLength
<1>10. CASE Len(M.stack) = 1
  <2>1. N.stack = Append(M.stack, NewScope("proto")) /\ N.hold = TRUE
    BY <1>5, <1>10
  <2>2. M' = N /\ ctx' = c /\ N.fatal = Running
    BY <1>1, <1>3, <1>5 DEF Reduce, Rest
  <2>3. /\ Environment(N) = Environment(M) /\ Prototype(N) = <<LS!Empty>>
        /\ Prototype(M) = <<>> /\ Heap(N) = Heap(M)
    <3> DEFINE b == Bare(M.stack)
    <3>1. N.stack \in Seq(Scopes) /\ Len(N.stack) = 2
      <4>1. NewScope("proto") \in Scopes
        BY NewScopeType DEF ScopeTypes
      <4>2. N.stack \in Seq(Scopes) /\ Len(N.stack) = Len(M.stack) + 1
        BY <1>4, <2>1, <4>1, AppendFacts
      <4> QED
        BY <1>10, <4>2
    <3>2. /\ Environment(N) = Front(Bare(N.stack))
          /\ Prototype(N) = <<Bare(N.stack)[Len(N.stack)]>>
      <4>1. Len(N.stack) # 0
        BY <3>1
      <4> QED
        BY <2>1, <3>1, <4>1, Holding
    <3>3. Bare(N.stack) = Append(b, LS!Empty)
      BY <1>4, <2>1, BareAppend DEF ScopeTypes
    <3>4. b \in Seq(ScopeContents) /\ Len(b) = 1
      BY <1>4, <1>10, BareFacts
    <3> HIDE DEF b
    <3>5. LS!Empty \in ScopeContents
      <4>1. NewScope("proto") \in Scopes
        BY NewScopeType DEF ScopeTypes
      <4>2. Contents(NewScope("proto")) = LS!Empty
        BY DEF NewScope, Contents, LS!Empty, LS!NoEntry, LS!TagNames, LS!Untagged,
               TagNames, Untagged, NoEntry, Absent
      <4> QED
        BY <4>1, <4>2, ContentsType
    <3>6. Front(Append(b, LS!Empty)) = b /\ Append(b, LS!Empty)[2] = LS!Empty
      <4>1. b \in Seq(ScopeContents)
        BY <3>4
      <4>2. Front(Append(b, LS!Empty)) = b
        BY ONLY <3>5, <4>1, FrontAppend
      <4>3. Append(b, LS!Empty)[Len(b) + 1] = LS!Empty
        BY ONLY <3>5, <4>1, AppendFacts
      <4>4. Len(b) + 1 = 2
        BY <3>4
      <4> QED
        BY ONLY <4>2, <4>3, <4>4
    <3>7. Environment(M) = b /\ Prototype(M) = <<>>
      BY <1>3, FreeLength DEF b
    <3>8. Heap(N) = Heap(M)
      BY <1>5 DEF Heap, Rest
    <3>9. /\ Environment(N) = Front(Append(b, LS!Empty))
          /\ Prototype(N) = <<Append(b, LS!Empty)[2]>>
      BY ONLY <3>1, <3>2, <3>3
    <3> QED
      BY ONLY <3>6, <3>7, <3>8, <3>9
  <2>4. /\ Environment(M)' = Environment(N) /\ Prototype(M)' = Prototype(N)
        /\ Heap(M)' = Heap(N)
    BY <2>2, Shown
  <2>5. Below(ctx).kind = "file"
    <3>1. Top(ctx).depth = 1
      <4>1. Vis(M) = 1
        BY <1>3, <1>10 DEF Vis, Free
      <4> QED
        BY <1>4, <4>1 DEF Match
    <3>2. Below(ctx).kind # "su"
      BY <1>2, <3>1 DEF MayOpenList, Conforming
    <3> QED
      BY <1>2, <3>1, <3>2, AtDepthOne
  <2>6. HoldOnly(N, c)
    BY <1>2, <1>4, <1>6, <2>5, ListHolds
  <2>7. ProtoIds(N.stack)
    BY <1>4, <2>1, ProtoPush DEF ScopeTypes
  <2>8. Extra(N, c)
    BY <1>5, <1>7, <2>6, <2>7 DEF Extra, Rest
  <2>9. ~(Len(Environment(M)) > 1)
    BY <1>9, <1>10
  <2>10. LS!KeepProto(LS!Top(ctx), LS!Empty)
    BY <1>8, <2>3, <2>4 DEF LS!KeepProto
  <2>11. M'.fatal = LS!Accepted
    BY <2>2, SameConstructs
  <2>12. UNCHANGED <<Environment(M), Heap(M)>>
    BY <2>3, <2>4
  <2>13. LS!EmptyParams
    BY <1>8, <2>2, <2>9, <2>10, <2>11, <2>12 DEF LS!EmptyParams, LS!Accept
  <2> QED
    BY <2>2, <2>8, <2>13
<1>11. CASE Len(M.stack) # 1
  <2>1. N.hold = FALSE /\ N.stack = M.stack /\ N.fatal = Running /\ N.sus = M.sus
    BY <1>1, <1>5, <1>11 DEF Rest
  <2>2. Types(N.sus) = Types(M.sus) /\ Len(N.sus) = Len(M.sus)
    BY <2>1
  <2>3. /\ ctx' = c /\ M'.fatal = LS!Accepted
        /\ UNCHANGED <<Environment(M), Prototype(M), Heap(M)>> /\ Extra(M', ctx')
    BY <1>3, <1>7, <2>1, <2>2, SilentStep
  <2>4. Len(Environment(M)) > 1
    <3> DEFINE n == Len(M.stack)
    <3>1. n \in Nat /\ n # 0 /\ n # 1
      BY <1>4, <1>11
    <3> HIDE DEF n
    <3>2. n > 1
      BY ONLY <3>1
    <3> QED
      BY <1>9, <3>2 DEF n
  <2> QED
    BY <1>8, <2>3, <2>4 DEF LS!EmptyParams, LS!Accept, LS!Forget
<1> QED
  BY <1>10, <1>11

-----------------------------------------------------------------------------
(* Tags *)

(* The innermost scope with a tag *)
LEMMA InnermostIs ==
  ASSUME NEW n \in Nat, NEW D \in SUBSET (1..n)
  PROVE  /\ D = {} => Innermost(D) = 0
         /\ D # {} => /\ Innermost(D) \in D /\ \A j \in D : j <= Innermost(D)
                      /\ (CHOOSE i \in D : \A j \in D : j <= i) = Innermost(D)
         /\ n \in D <=> Innermost(D) = n /\ D # {}
<1>1. CASE D = {}
  BY <1>1 DEF Innermost, IsInnermost
<1>2. CASE D # {}
  <2>1. PICK m \in D : \A j \in D : j <= m
    BY <1>2, Maximum
  <2>2. \A i \in D : (\A j \in D : j <= i) => i = m
    <3> SUFFICES ASSUME NEW i \in D, \A j \in D : j <= i PROVE i = m
      OBVIOUS
    <3>1. i <= m /\ m <= i /\ i \in Nat /\ m \in Nat
      BY <2>1
    <3> QED
      BY <3>1
  <2>3. IsInnermost(m, D) /\ \A i : IsInnermost(i, D) => i = m
    BY <2>1, <2>2 DEF IsInnermost
  <2>4. \E i \in D : IsInnermost(i, D)
    BY <2>3 DEF IsInnermost
  <2>5. (CHOOSE i \in D : IsInnermost(i, D)) = m
    BY <2>3
  <2>6. Innermost(D) = m
    BY <2>4, <2>5 DEF Innermost
  <2>7. (CHOOSE i \in D : \A j \in D : j <= i) = m
    BY <2>1, <2>2
  <2>8. n \in D <=> m = n
    <3>1. m <= n /\ m \in Nat
      OBVIOUS
    <3>2. n \in D => n <= m
      BY <2>1
    <3> QED
      BY <3>1, <3>2
  <2> QED
    BY <1>2, <2>1, <2>6, <2>7, <2>8
<1> QED
  BY <1>1, <1>2

(* scope_lookup finds what C's rules say. *)
LEMMA SameLookup ==
  ASSUME Free(M), NEW t \in TagNames
  PROVE  LET node == scope_lookup_tag(M, t) IN
         /\ LS!Visible(t) <=> node # Absent
         /\ node # Absent => LS!NodeOf(t) = node
         /\ LS!Here.tags[t] # 0 <=> node # Absent /\ get_scope_tag(M, t) = current(M)
         /\ LS!Here.tags[t] # 0 => LS!Here.tags[t] = node
<1> DEFINE n == Len(M.stack)
           e == Environment(M)
           D == {i \in 1..n : M.stack[i].tags[t] # Absent}
<1>1. /\ Len(e) = n /\ n \in Nat /\ n # 0
      /\ \A i \in 1..n : e[i] = Contents(M.stack[i])
  BY FreeLength
<1>2. \A i \in 1..n : e[i].tags[t] = M.stack[i].tags[t]
  <2>1. \A scope : Contents(scope).tags = scope.tags
    BY DEF Contents
  <2> HIDE DEF e, n
  <2> QED
    BY <1>1, <2>1
<1>3. D = LS!Depth(t) /\ D \in SUBSET (1..n)
  BY <1>1, <1>2 DEF LS!Depth, Absent
<1>4. get_scope_tag(M, t) = Innermost(D) /\ current(M) = n
  BY DEF get_scope_tag, current
<1>5. LS!Here = e[n]
  BY <1>1 DEF LS!Here
<1>6. n \in 1..n
  BY <1>1
<1>7. n \in D <=> LS!Here.tags[t] # 0
  BY <1>2, <1>5, <1>6 DEF Absent
<1>8. \A i \in D : i # 0 /\ M.stack[i].tags[t] # Absent /\ e[i].tags[t] = M.stack[i].tags[t]
  BY <1>1, <1>2
<1>10. LS!NodeOf(t) = e[CHOOSE i \in D : \A j \in D : j <= i].tags[t]
  BY <1>3 DEF LS!NodeOf
<1>11. LS!Visible(t) <=> D # {}
  BY <1>3 DEF LS!Visible
<1> HIDE DEF D, n, e
<1>12. /\ D = {} => Innermost(D) = 0
       /\ D # {} => /\ Innermost(D) \in D /\ \A j \in D : j <= Innermost(D)
                    /\ (CHOOSE i \in D : \A j \in D : j <= i) = Innermost(D)
       /\ n \in D <=> Innermost(D) = n /\ D # {}
  BY <1>1, <1>3, InnermostIs
<1>13. CASE D = {}
  <2>1. scope_lookup_tag(M, t) = Absent
    BY <1>4, <1>12, <1>13 DEF scope_lookup_tag
  <2> QED
    BY <1>7, <1>11, <1>13, <2>1
<1>14. CASE D # {}
  <2> DEFINE k == Innermost(D)
  <2>1. k \in D /\ k # 0 /\ M.stack[k].tags[t] # Absent /\ e[k].tags[t] = M.stack[k].tags[t]
    BY <1>8, <1>12, <1>14
  <2>2. scope_lookup_tag(M, t) = M.stack[k].tags[t]
    BY <1>4, <2>1 DEF scope_lookup_tag
  <2>3. LS!NodeOf(t) = e[k].tags[t]
    BY <1>10, <1>12, <1>14
  <2>4. n \in D <=> k = n
    BY <1>12, <1>14
  <2>5. k = n => LS!Here.tags[t] = e[k].tags[t]
    BY <1>5
  <2> HIDE DEF k
  <2> QED
    BY <1>4, <1>7, <1>11, <1>14, <2>1, <2>2, <2>3, <2>4, <2>5 DEF k
<1> QED
  BY <1>13, <1>14

(* scope_insert of a tag, when the scope does not have it and nothing is    *)
(* on hold                                                                 *)
LEMMA InsertTagIs ==
  ASSUME NEW S \in State, S.hold = FALSE, S.fndef = FALSE, S.fatal = Running,
         NEW l, l = Len(S.stack), l # 0, NEW t \in TagNames, NEW node \in Nat,
         S.stack[l].tags[t] = Absent, NEW N, N = scope_insert_tag(S, t, node)
  PROVE  N.stack = TagIn(S.stack, l, t, node) /\ N.hold = FALSE /\ Rest(S, N)
<1>1. insert_state(S) = S /\ insert_level(S) = l
  BY DEF insert_state, insert_level, current
<1>2. N = [S EXCEPT !.stack[l].tags[t] = node, !.fndef = FALSE]
  BY <1>1 DEF scope_insert_tag, After
<1> DEFINE s == TagIn(S.stack, l, t, node)
<1>3. N = [S EXCEPT !.stack = s, !.fndef = FALSE]
  BY <1>2 DEF WithTag, TagIn
<1> HIDE DEF s
<1>4. /\ N.stack = s /\ N.hold = S.hold /\ N.fndef = FALSE /\ N.fatal = S.fatal
      /\ N.sus = S.sus /\ N.decls = S.decls
  BY <1>3 DEF State
<1> QED
  BY <1>4 DEF s, Rest

LEMMA KeepNewIs ==
  ASSUME NEW S, Free(S), NEW tag \in TagNames, NEW defining \in BOOLEAN,
         (tag = Untagged /\ defining) \/ S.stack[Len(S.stack)].tags[tag] = Absent,
         NEW N, N = KeepNew(S, tag, defining)
  PROVE  /\ N.hold = FALSE /\ N.fndef = FALSE /\ N.fatal = Running
         /\ N.sus = Append(S.sus, NewStruct(defining))
         /\ N.decls = Append(S.decls, Len(S.sus) + 1)
         /\ N.stack = IF tag = Untagged /\ defining THEN S.stack
                      ELSE TagIn(S.stack, Len(S.stack), tag, Len(S.sus) + 1)
<1> DEFINE q == Append(S.sus, NewStruct(defining))
           d == Append(S.decls, Len(S.sus) + 1)
           P == [S EXCEPT !.sus = q, !.decls = d]
<1>1. /\ S \in State /\ S.hold = FALSE /\ S.fndef = FALSE /\ S.fatal = Running
      /\ S.sus \in Seq(Struct) /\ Len(S.sus) \in Nat /\ Len(S.stack) # 0
      /\ S.decls \in Seq(Nat) /\ S.fndef \in BOOLEAN
  BY LenProperties DEF Free, Ready, State, StackOK
<1>2. NewStruct(defining) \in Struct
  BY DEF NewStruct, Struct
<1>3. q \in Seq(Struct) /\ Len(q) = Len(S.sus) + 1
  BY <1>1, <1>2, AppendFacts
<1>4. d \in Seq(Nat)
  <2>1. Len(S.sus) + 1 \in Nat
    BY <1>1
  <2> QED
    BY <1>1, <2>1, AppendFacts
<1>5. N = IF tag = Untagged /\ defining THEN P ELSE scope_insert_tag(P, tag, Len(P.sus))
  BY DEF KeepNew
<1> HIDE DEF q, d
<1>6. /\ P \in State /\ P.sus = q /\ P.decls = d /\ P.stack = S.stack /\ P.hold = FALSE
      /\ P.fndef = FALSE /\ P.fatal = Running
  BY <1>1, <1>3, <1>4 DEF State
<1> HIDE DEF P
<1>7. CASE tag = Untagged /\ defining
  BY <1>5, <1>6, <1>7 DEF q, d
<1>8. CASE ~(tag = Untagged /\ defining)
  <2> DEFINE k == Len(S.sus) + 1
             l == Len(P.stack)
  <2>1. k \in Nat /\ Len(P.sus) = k
    BY <1>1, <1>3, <1>6
  <2>2. l # 0 /\ P.stack[l].tags[tag] = Absent /\ l = Len(S.stack)
    BY <1>1, <1>6, <1>8
  <2>3. N = scope_insert_tag(P, tag, k)
    BY <1>5, <1>8, <2>1
  <2>5. l = Len(P.stack)
    OBVIOUS
  <2> HIDE DEF k, l
  <2>4. N.stack = TagIn(P.stack, l, tag, k) /\ N.hold = FALSE /\ Rest(P, N)
    <3>1. /\ P \in State /\ P.hold = FALSE /\ P.fndef = FALSE /\ P.fatal = Running
          /\ l = Len(P.stack) /\ l # 0 /\ tag \in TagNames /\ k \in Nat
          /\ P.stack[l].tags[tag] = Absent /\ N = scope_insert_tag(P, tag, k)
      BY <1>6, <2>1, <2>2, <2>3, <2>5
    <3> QED
      BY ONLY <3>1, InsertTagIs
  <2> QED
    BY <1>6, <1>8, <2>2, <2>4 DEF q, d, k, Rest
<1> QED
  BY <1>7, <1>8

(* A new tag in the current scope, for a new struct *)
LEMMA TagStep ==
  ASSUME RInv, Live, Free(M), NEW tag \in TagNames, NEW defining \in BOOLEAN, NEW N,
         N.hold = FALSE, N.fatal = Running, N.sus = Append(M.sus, NewStruct(defining)),
         N.stack = TagIn(M.stack, Len(M.stack), tag, Len(M.sus) + 1),
         NEW c, Reduce(N, c), CtxInv(Len(M.sus) + 1, c)
  PROVE  /\ ctx' = c /\ M'.fatal = LS!Accepted /\ LS!NewTag(tag)
         /\ UNCHANGED Prototype(M) /\ Extra(M', ctx')
<1> DEFINE l == Len(M.stack)
           k == Len(M.sus) + 1
<1>1. M' = N /\ ctx' = c
  BY DEF Reduce
<1>2. /\ M.stack \in Seq(Scopes) /\ l \in Nat /\ l # 0 /\ l \in 1..l
      /\ M.sus \in Seq(Struct) /\ Len(M.sus) \in Nat /\ k \in Nat /\ ProtoIds(M.stack)
  BY LiveFacts
<1>3. /\ Environment(M) = Bare(M.stack) /\ Prototype(M) = <<>>
      /\ Len(Environment(M)) = l
  BY FreeLength
<1>4. Heap(M) = Types(M.sus) /\ Len(Heap(M)) = Len(M.sus) /\ Heap(N) = Types(N.sus)
  BY <1>2, HeapIs, TypesFacts
<1>5. Types(N.sus) = Append(Types(M.sus), LS!NewStruct)
  BY <1>2, TypesAppend
<1>6. LS!NewNode = k
  BY <1>4 DEF LS!NewNode
<1>7. Len(N.sus) = k
  <2>1. NewStruct(defining) \in Struct
    BY DEF NewStruct, Struct
  <2> QED
    BY <1>2, <2>1, AppendFacts
<1> HIDE DEF k, l
<1>8. /\ N.stack \in Seq(Scopes)
      /\ Bare(N.stack) = [Bare(M.stack) EXCEPT ![l].tags[tag] = k]
      /\ ProtoIds(N.stack)
  <2> DEFINE s == M.stack
             z == TagIn(s, l, tag, k)
  <2>1. s \in Seq(Scopes) /\ l \in 1..Len(s) /\ k \in Nat /\ ProtoIds(s) /\ tag \in TagNames
    BY <1>2 DEF l
  <2>2. N.stack = z
    BY DEF l, k
  <2> HIDE DEF s
  <2>3. z \in Seq(Scopes) /\ Bare(z) = [Bare(s) EXCEPT ![l].tags[tag] = k]
    BY ONLY <2>1, BareTag
  <2>4. ProtoIds(z)
    BY ONLY <2>1, ProtoTag
  <2> HIDE DEF z
  <2> QED
    BY <2>2, <2>3, <2>4 DEF s
<1>9. Environment(N) = Bare(N.stack) /\ Prototype(N) = <<>>
  BY <1>8, Unheld
<1>10. /\ Environment(M)' = Environment(N) /\ Prototype(M)' = Prototype(N)
       /\ Heap(M)' = Heap(N)
  BY <1>1, Shown
<1>11. LS!NewTag(tag)
  BY <1>3, <1>4, <1>5, <1>6, <1>8, <1>9, <1>10 DEF LS!NewTag
<1>12. Extra(M', ctx')
  <2>1. CtxInv(Len(N.sus), c) /\ Extra(M, ctx)
    BY <1>7 DEF k, RInv
  <2> QED
    BY <1>1, <1>8, <2>1, ExtraKept
<1>13. M'.fatal = LS!Accepted
  BY <1>1, SameConstructs
<1> QED
  BY <1>1, <1>3, <1>9, <1>10, <1>11, <1>12, <1>13

(* A tag names a struct that exists. *)
LEMMA FoundNode ==
  ASSUME RInv, Live, NEW t \in TagNames, scope_lookup_tag(M, t) # Absent
  PROVE  scope_lookup_tag(M, t) \in 1..Len(M.sus)
<1>1. TagFrom(M, t, scope_lookup_tag(M, t))
  BY LookupTag
<1>2. NodesKnown(M) /\ Len(M.sus) \in Nat
  BY LiveFacts DEF StructInv
<1>3. scope_lookup_tag(M, t) \in 0..Len(M.sus)
  BY <1>1, <1>2, TagKnown
<1> QED
  BY <1>2, <1>3 DEF Absent

(* structunion_done after a reference only takes the struct off the stack. *)
LEMMA DoneIs ==
  ASSUME NEW S \in State, S.fatal = Running, NEW P, P = structunion_done(S, FALSE)
  PROVE  P.stack = S.stack /\ P.hold = S.hold /\ P.sus = S.sus /\ P.fatal = Running
<1>1. P = [S EXCEPT !.decls = Front(@)]
  BY DEF structunion_done, After
<1> QED
  BY <1>1 DEF State

(* structunion_set_name with a tag that is there already *)
LEMMA FoundIs ==
  ASSUME Free(M), NEW node, NEW b \in BOOLEAN, node \in 1..Len(M.sus), NEW N,
         \/ N = [M EXCEPT !.decls = Append(@, node)]
         \/ N = [M EXCEPT !.decls = Append(@, node), !.sus[node].defining = b]
  PROVE  /\ N.stack = M.stack /\ N.hold = FALSE /\ N.fatal = Running
         /\ TopStruct(N) = node
         /\ Types(N.sus) = Types(M.sus) /\ Len(N.sus) = Len(M.sus)
<1>1. /\ M \in State /\ M.hold = FALSE /\ M.fatal = Running /\ M.sus \in Seq(Struct)
      /\ M.decls \in Seq(Nat) /\ Len(M.sus) \in Nat
  BY LenProperties DEF Free, Ready, State
<1> DEFINE d == Append(M.decls, node)
           q == [M.sus EXCEPT ![node] = Marked(@, b)]
<1>2. d \in Seq(Nat) /\ Len(d) = Len(M.decls) + 1 /\ d[Len(M.decls) + 1] = node
  <2>1. node \in Nat
    BY <1>1
  <2> QED
    BY <1>1, <2>1, AppendFacts
<1>3. Types(q) = Types(M.sus) /\ Len(q) = Len(M.sus)
  <2>1. Types(q) = Types(M.sus)
    BY <1>1, TypesMarked
  <2>2. Marked(M.sus[node], b) \in Struct
    <3>1. M.sus[node] \in Struct
      BY <1>1, ElementOfSeq
    <3> QED
      BY <3>1 DEF Marked, Struct
  <2>3. Len(q) = Len(M.sus)
    BY <1>1, <2>2, ExceptSeq
  <2> QED
    BY <2>1, <2>3
<1>4. N = [M EXCEPT !.decls = d] \/ N = [M EXCEPT !.decls = d, !.sus = q]
  BY DEF Marked
<1> HIDE DEF q, d
<1>5. /\ N.stack = M.stack /\ N.hold = M.hold /\ N.fatal = M.fatal
      /\ N.decls = d /\ (N.sus = M.sus \/ N.sus = q)
  BY <1>1, <1>4 DEF State
<1>6. TopStruct(N) = node
  BY <1>2, <1>5 DEF TopStruct, Last
<1> QED
  BY <1>1, <1>3, <1>5, <1>6

LEMMA StructReferenceRefines ==
  ASSUME RInv, Live, NEW sc \in StorageClasses, NEW tag \in Tags, StructReference(tag, sc)
  PROVE  LS!StructReference(tag, sc) /\ Extra(M', ctx')
<1> DEFINE N == structunion_set_name(M, tag, FALSE)
           P == structunion_done(N, FALSE)
           c == Specifiers(ctx, TopStruct(N), tag, sc)
           node == scope_lookup_tag(M, tag)
<1>1. MayDeclare(ctx, sc) /\ Room(ctx, 1) /\ Reduce(After(N, P), c)
  BY DEF StructReference
<1>2. Free(M) /\ M \in State /\ Ready(M) /\ FramesOK(ctx) /\ Len(M.sus) \in Nat
      /\ CtxInv(Len(M.sus), ctx) /\ Len(M.stack) # 0
  <2>1. ~Reading(ctx, {"name"})
    BY <1>1, DeclarationStarts DEF Reading
  <2> QED
    BY <2>1, LiveFree, LiveFacts
<1>3. tag \in TagNames /\ tag # Untagged
  BY NamesAssumption DEF TagNames
<1>4. N \in State
  BY <1>2, <1>3, SetName DEF Keeps, Sound
<1>5. LS!MayDeclare(ctx, sc) /\ LS!Room(ctx, 1)
  BY <1>1, SameGrammar
<1>6. /\ LS!Visible(tag) <=> node # Absent
      /\ node # Absent => LS!NodeOf(tag) = node
  BY <1>2, <1>3, SameLookup
<1>7. CASE node # Absent
  <2>1. node \in 1..Len(M.sus)
    BY <1>3, <1>7, FoundNode
  <2>2. \/ N = [M EXCEPT !.decls = Append(@, node)]
        \/ N = [M EXCEPT !.decls = Append(@, node), !.sus[node].defining = FALSE]
    BY <1>3, <1>7 DEF structunion_set_name
  <2> HIDE DEF node, N
  <2>3. /\ N.stack = M.stack /\ N.hold = FALSE /\ N.fatal = Running
        /\ TopStruct(N) = node
        /\ Types(N.sus) = Types(M.sus) /\ Len(N.sus) = Len(M.sus)
    BY <1>2, <2>1, <2>2, FoundIs
  <2>4. P.stack = N.stack /\ P.hold = N.hold /\ P.sus = N.sus /\ P.fatal = Running
    BY <1>4, <2>3, DoneIs
  <2>5. Reduce(P, c)
    BY <1>1, <2>3 DEF After, N
  <2>6. CtxInv(Len(M.sus), c)
    <3>1. node \in 0..Len(M.sus)
      BY <1>2, <2>1
    <3> QED
      BY <1>2, <1>3, <2>3, <3>1, SpecNodes
  <2> HIDE DEF P
  <2>7. /\ ctx' = c /\ M'.fatal = LS!Accepted
        /\ UNCHANGED <<Environment(M), Prototype(M), Heap(M)>> /\ Extra(M', ctx')
    BY <1>2, <2>3, <2>4, <2>5, <2>6, SilentStep
  <2>8. ctx' = LS!Specifiers(ctx, LS!NodeOf(tag), tag, sc) /\ LS!Visible(tag)
    BY <1>6, <1>7, <2>3, <2>7, SameConstructs
  <2> QED
    BY <1>5, <2>7, <2>8 DEF LS!StructReference, LS!Accept, LS!Forget
<1>8. CASE node = Absent
  <2>1. N = KeepNew(M, tag, FALSE)
    BY <1>3, <1>8 DEF structunion_set_name
  <2>2. M.stack[Len(M.stack)].tags[tag] = Absent
    <3>1. LS!Here.tags[tag] = 0
      BY <1>2, <1>3, <1>8, SameLookup
    <3>2. LS!Here = Contents(M.stack[Len(M.stack)])
      <4>1. Len(M.stack) \in 1..Len(M.stack)
        BY <1>2, FreeLength
      <4> QED
        BY <1>2, <4>1, FreeLength DEF LS!Here
    <3> QED
      BY <3>1, <3>2 DEF Contents, Absent
  <2> HIDE DEF N
  <2>3. /\ N.hold = FALSE /\ N.fatal = Running
        /\ N.sus = Append(M.sus, NewStruct(FALSE))
        /\ N.decls = Append(M.decls, Len(M.sus) + 1)
        /\ N.stack = TagIn(M.stack, Len(M.stack), tag, Len(M.sus) + 1)
    BY <1>2, <1>3, <2>1, <2>2, KeepNewIs
  <2>4. P.stack = N.stack /\ P.hold = N.hold /\ P.sus = N.sus /\ P.fatal = Running
    BY <1>4, <2>3, DoneIs
  <2>5. Reduce(P, c)
    BY <1>1, <2>3 DEF After, N
  <2>6. TopStruct(N) = Len(M.sus) + 1
    <3> DEFINE k == Len(M.sus) + 1
    <3>1. M.decls \in Seq(Nat) /\ k \in Nat
      BY <1>2 DEF State
    <3> HIDE DEF k
    <3>2. Len(Append(M.decls, k)) = Len(M.decls) + 1 /\ Append(M.decls, k)[Len(M.decls) + 1] = k
      BY <3>1, AppendFacts
    <3> QED
      BY <2>3, <3>2 DEF TopStruct, Last, k
  <2>7. CtxInv(Len(M.sus) + 1, c)
    <3> DEFINE k == Len(M.sus) + 1
    <3>1. k \in Nat /\ k \in 0..k /\ Len(M.sus) <= k
      BY <1>2
    <3> HIDE DEF k
    <3>2. CtxInv(k, ctx)
      BY <1>2, <3>1, NodesMore
    <3>3. CtxInv(k, Specifiers(ctx, k, tag, sc))
      BY <1>2, <1>3, <3>1, <3>2, SpecNodes
    <3> QED
      BY <2>6, <3>3 DEF k
  <2> HIDE DEF P
  <2>8. /\ ctx' = c /\ M'.fatal = LS!Accepted /\ LS!NewTag(tag)
        /\ UNCHANGED Prototype(M) /\ Extra(M', ctx')
    BY <1>2, <1>3, <2>3, <2>4, <2>5, <2>7, TagStep
  <2>9. LS!NewNode = Len(M.sus) + 1
    BY <1>2, HeapIs, TypesFacts DEF Free, LS!NewNode
  <2>10. ctx' = LS!Specifiers(ctx, LS!NewNode, tag, sc) /\ ~LS!Visible(tag)
    BY <1>6, <1>8, <2>6, <2>8, <2>9, SameConstructs
  <2> QED
    BY <1>5, <2>8, <2>10 DEF LS!StructReference, LS!Accept, LS!Forget
<1> QED
  BY <1>7, <1>8

(* Every struct on su_decl_stack is the one of an open construct. *)
LEMMA LevelOnto ==
  ASSUME NEW c, NEW n \in Nat, NEW k \in 1..Level(c, n)
  PROVE  \E i \in 1..n : c[i].kind = "su" /\ Level(c, i) = k
<1> DEFINE Reached(m) == \A j \in 1..Level(c, m) : \E i \in 1..m : c[i].kind = "su" /\ Level(c, i) = j
           T == {m \in Nat : ~Reached(m)}
<1>1. Reached(0)
  <2>1. StructsUpTo(c, 0) = {}
    BY DEF StructsUpTo
  <2>2. Level(c, 0) = 0
    BY <2>1, FS_EmptySet DEF Level
  <2> QED
    BY <2>2
<1>2. ASSUME NEW m \in Nat, Reached(m) PROVE Reached(m + 1)
  <2> SUFFICES ASSUME NEW j \in 1..Level(c, m + 1)
               PROVE  \E i \in 1..m + 1 : c[i].kind = "su" /\ Level(c, i) = j
    OBVIOUS
  <2>1. Level(c, m + 1) = Level(c, m) + (IF c[m + 1].kind = "su" THEN 1 ELSE 0)
    BY LevelNext
  <2>2. Level(c, m) \in Nat
    BY LevelType
  <2>3. CASE j \in 1..Level(c, m)
    <3>1. PICK i \in 1..m : c[i].kind = "su" /\ Level(c, i) = j
      BY <1>2, <2>3
    <3>2. i \in 1..m + 1
      OBVIOUS
    <3> QED
      BY <3>1, <3>2
  <2>4. CASE j \notin 1..Level(c, m)
    <3>1. c[m + 1].kind = "su" /\ j = Level(c, m + 1)
      BY <2>1, <2>2, <2>4
    <3>2. m + 1 \in 1..m + 1
      OBVIOUS
    <3> QED
      BY <3>1, <3>2
  <2> QED
    BY <2>3, <2>4
<1> HIDE DEF Reached
<1>3. T = {}
  <2> SUFFICES ASSUME T # {} PROVE FALSE
    OBVIOUS
  <2>1. PICK x \in T : \A y \in T : x <= y
    <3>1. T \in SUBSET Nat
      OBVIOUS
    <3> HIDE DEF T
    <3> QED
      BY <3>1, Minimum
  <2>2. x \in Nat /\ ~Reached(x) /\ x # 0
    BY <1>1
  <2>3. x - 1 \in Nat /\ x - 1 \notin T
    BY <2>1, <2>2
  <2>4. Reached(x - 1)
    BY <2>3
  <2>5. Reached((x - 1) + 1)
    BY <1>2, <2>3, <2>4
  <2>6. (x - 1) + 1 = x
    BY <2>2
  <2> QED
    BY <2>2, <2>5, <2>6
<1>4. Reached(n)
  BY <1>3
<1> QED
  BY <1>4 DEF Reached

(* A definition inside another has another tag, so that the struct it       *)
(* completes is not being defined.                                         *)
LEMMA NotBeingDefined ==
  ASSUME Conforming, RInv, Live, Free(M), NEW tag \in TagNames, tag # Untagged, NEW sc,
         MayOpenMembers(ctx, tag, sc), NEW s \in 1..Len(M.sus), TagFrom(M, tag, s)
  PROVE  ~LS!BeingDefined(s) /\ ~M.sus[s].defining
<1>1. /\ StructInv(M, ctx) /\ Len(ctx) \in Nat /\ Len(M.sus) \in Nat
      /\ \A i \in 1..Len(ctx) : ~(ctx[i].kind = "su" /\ ctx[i].tag = tag)
  BY LiveFacts DEF MayOpenMembers, Conforming
<1>2. s # Absent
  BY <1>1 DEF Absent
<1>3. ~LS!BeingDefined(s)
  BY <1>1, <1>2 DEF LS!BeingDefined, StructInv, TagsOfOpen, TagFrom
<1>4. ASSUME M.sus[s].defining PROVE FALSE
  <2>1. PICK k \in 1..Len(M.decls) : M.decls[k] = s
    BY <1>1, <1>4 DEF StructInv, DefiningOpen
  <2>2. Len(M.decls) = Level(ctx, Len(ctx))
    BY <1>1 DEF StructInv, DeclsMatch
  <2>3. PICK i \in 1..Len(ctx) : ctx[i].kind = "su" /\ Level(ctx, i) = k
    BY <1>1, <2>2, LevelOnto
  <2>4. ctx[i].node = s
    BY <1>1, <2>1, <2>3 DEF StructInv, DeclsMatch
  <2> QED
    BY <1>3, <2>3, <2>4 DEF LS!BeingDefined
<1> QED
  BY <1>3, <1>4

LEMMA MemberNodes ==
  ASSUME NEW m \in Nat, NEW c, FramesOK(c), CtxInv(m, c), NEW node \in 0..m,
         NEW tag \in TagNames, NEW sc \in StorageClasses
  PROVE  CtxInv(m, OpenMembers(c, node, tag, sc))
<1> DEFINE d == Specifiers(c, node, tag, sc)
           g == Frame("su", Top(c).depth, "empty")
           f == [g EXCEPT !.node = node, !.tag = tag]
<1>1. CtxInv(m, d)
  BY SpecNodes
<1>2. d \in Seq(Frames) /\ node \in Nat
  BY SpecIsFrame
<1>3. g \in Frames /\ g.kind = "su"
  <2>1. Top(c).depth \in Nat
    BY FrameFacts
  <2>2. "su" \in FrameKinds
    BY DEF FrameKinds
  <2> QED
    BY <2>1, <2>2, NewFrame
<1> HIDE DEF d, g
<1>4. f \in Frames /\ f.node = node /\ f.kind = "su"
  BY <1>2, <1>3 DEF Frames
<1>5. CtxInv(m, Append(d, f))
  <2> HIDE DEF f
  <2> QED
    BY <1>1, <1>2, <1>4, NodesPush
<1> QED
  BY <1>5 DEF OpenMembers, d, g

(* A struct without a tag *)
LEMMA UntaggedStep ==
  ASSUME RInv, Live, Free(M), NEW defining \in BOOLEAN, NEW N,
         N.hold = FALSE, N.fatal = Running, N.sus = Append(M.sus, NewStruct(defining)),
         N.stack = M.stack, NEW c, Reduce(N, c), CtxInv(Len(M.sus) + 1, c)
  PROVE  /\ ctx' = c /\ M'.fatal = LS!Accepted
         /\ Heap(M)' = Append(Heap(M), LS!NewStruct)
         /\ UNCHANGED <<Environment(M), Prototype(M)>> /\ Extra(M', ctx')
<1>1. M' = N /\ ctx' = c
  BY DEF Reduce
<1>2. /\ M.stack \in Seq(Scopes) /\ M.sus \in Seq(Struct) /\ ProtoIds(M.stack)
  BY LiveFacts
<1>3. /\ Environment(M) = Bare(M.stack) /\ Prototype(M) = <<>>
      /\ Environment(N) = Bare(M.stack) /\ Prototype(N) = <<>>
  BY <1>2, FreeLength, Unheld
<1>4. Heap(N) = Append(Heap(M), LS!NewStruct)
  BY <1>2, HeapIs, TypesAppend
<1>5. /\ Environment(M)' = Environment(N) /\ Prototype(M)' = Prototype(N)
      /\ Heap(M)' = Heap(N)
  BY <1>1, Shown
<1>6. CtxInv(Len(N.sus), c)
  <2>1. NewStruct(defining) \in Struct
    BY DEF NewStruct, Struct
  <2>2. Len(N.sus) = Len(M.sus) + 1
    BY <1>2, <2>1, AppendFacts
  <2> QED
    BY <2>2
<1>7. Extra(M', ctx')
  BY <1>1, <1>2, <1>6, ExtraKept DEF RInv
<1>8. M'.fatal = LS!Accepted
  BY <1>1, SameConstructs
<1> QED
  BY <1>1, <1>3, <1>4, <1>5, <1>7, <1>8

LEMMA HereIs ==
  ASSUME Free(M)
  PROVE  LS!Here = Contents(M.stack[Len(M.stack)])
<1>1. Len(M.stack) \in 1..Len(M.stack)
  BY FreeLength
<1> QED
  BY <1>1, FreeLength DEF LS!Here

LEMMA TopOfNew ==
  ASSUME NEW S \in State, NEW N, N.decls = Append(S.decls, Len(S.sus) + 1)
  PROVE  TopStruct(N) = Len(S.sus) + 1
<1> DEFINE k == Len(S.sus) + 1
<1>1. S.decls \in Seq(Nat) /\ S.sus \in Seq(Struct)
  BY DEF State
<1>2. k \in Nat
  BY <1>1, LenProperties
<1> HIDE DEF k
<1>3. Len(Append(S.decls, k)) = Len(S.decls) + 1 /\ Append(S.decls, k)[Len(S.decls) + 1] = k
  BY <1>1, <1>2, AppendFacts
<1> QED
  BY <1>3 DEF TopStruct, Last, k

(* '{' after a tag that this scope has *)
LEMMA OpenOldRefines ==
  ASSUME Conforming, RInv, Live, Free(M), NEW sc \in StorageClasses, NEW tag \in TagNames,
         tag # Untagged, LS!Here.tags[tag] # 0, OpenStruct(tag, sc)
  PROVE  LS!OpenStruct(tag, sc) /\ Extra(M', ctx')
<1> DEFINE N == structunion_set_name(M, tag, TRUE)
           c == OpenMembers(ctx, TopStruct(N), tag, sc)
           s == LS!Here.tags[tag]
           reasons == LS!Why(Heap(M)[s].complete, "struct/union redefinition") \cup
                      LS!Why(LS!BeingDefined(s), "nested struct/union redefinition")
<1>1. MayOpenMembers(ctx, tag, sc) /\ Room(ctx, 3) /\ Reduce(N, c)
  BY DEF OpenStruct
<1>2. LS!MayOpenMembers(ctx, tag, sc) /\ LS!Room(ctx, 3) /\ LS!Untagged = Untagged
  BY <1>1, SameGrammar, SameConstructs
<1>3. /\ s = scope_lookup_tag(M, tag) /\ scope_lookup_tag(M, tag) # Absent
      /\ get_scope_tag(M, tag) = current(M)
  BY SameLookup
<1>4. s \in 1..Len(M.sus) /\ TagFrom(M, tag, s)
  BY <1>3, FoundNode, LookupTag
<1>5. /\ M \in State /\ FramesOK(ctx) /\ CtxInv(Len(M.sus), ctx) /\ Len(M.sus) \in Nat
      /\ M.sus \in Seq(Struct)
  BY LiveFacts
<1>6. Heap(M)[s].complete = M.sus[s].complete
  <2>1. Heap(M)[s] = TypeOf(M.sus[s])
    BY <1>4, <1>5, HeapIs, TypesFacts
  <2> QED
    BY <2>1 DEF TypeOf
<1>7. N = IF M.sus[s].complete THEN Fatal(M, "struct/union redefinition")
          ELSE IF M.sus[s].defining THEN Fatal(M, "nested struct/union redefinition")
          ELSE [M EXCEPT !.decls = Append(@, s), !.sus[s].defining = TRUE]
  BY <1>3 DEF structunion_set_name
<1> HIDE DEF s, N, c
<1>8. ~LS!BeingDefined(s) /\ ~M.sus[s].defining
  BY <1>1, <1>4, NotBeingDefined
<1>9. CASE M.sus[s].complete
  <2>1. N.fatal = "struct/union redefinition" /\ N.fatal # Running
    BY <1>5, <1>7, <1>9 DEF Fatal, State, Running
  <2>2. /\ M'.fatal = N.fatal /\ UNCHANGED ctx
        /\ M'.stack = M.stack /\ M'.hold = M.hold /\ M'.sus = M.sus
        /\ UNCHANGED <<Environment(M), Prototype(M), Heap(M)>>
    BY <1>1, <1>5, <2>1, ReduceShows
  <2>3. M'.fatal \in reasons
    BY <1>6, <1>9, <2>1, <2>2 DEF LS!Why
  <2> HIDE DEF reasons
  <2>4. LS!Reject(reasons) /\ Extra(M', ctx')
    BY <2>2, <2>3, Rejected
  <2>5. Heap(M)[s].complete
    BY <1>6, <1>9
  <2> QED
    BY <1>2, <2>4, <2>5 DEF LS!OpenStruct, reasons, s
<1>10. CASE ~M.sus[s].complete
  <2>1. N = [M EXCEPT !.decls = Append(@, s), !.sus[s].defining = TRUE]
    BY <1>7, <1>8, <1>10
  <2>2. /\ N.stack = M.stack /\ N.hold = FALSE /\ N.fatal = Running
        /\ TopStruct(N) = s
        /\ Types(N.sus) = Types(M.sus) /\ Len(N.sus) = Len(M.sus)
    BY <1>4, <2>1, FoundIs
  <2>3. CtxInv(Len(M.sus), c)
    <3>1. s \in 0..Len(M.sus)
      BY <1>4, <1>5
    <3> QED
      BY <1>5, <2>2, <3>1, MemberNodes DEF c
  <2>4. /\ ctx' = c /\ M'.fatal = LS!Accepted
        /\ UNCHANGED <<Environment(M), Prototype(M), Heap(M)>> /\ Extra(M', ctx')
    BY <1>1, <2>2, <2>3, SilentStep
  <2>5. ctx' = LS!OpenMembers(ctx, s, tag, sc)
    BY <2>2, <2>4, SameConstructs DEF c
  <2>6. ~(Heap(M)[s].complete \/ LS!BeingDefined(s))
    BY <1>6, <1>8, <1>10
  <2> QED
    BY <1>2, <2>4, <2>5, <2>6 DEF LS!OpenStruct, LS!Accept, LS!Forget, s
<1> QED
  BY <1>9, <1>10

(* '{' of a struct that this scope does not have *)
LEMMA OpenNewRefines ==
  ASSUME RInv, Live, Free(M), NEW sc \in StorageClasses, NEW tag \in TagNames,
         tag = Untagged \/ LS!Here.tags[tag] = 0, OpenStruct(tag, sc)
  PROVE  LS!OpenStruct(tag, sc) /\ Extra(M', ctx')
<1> DEFINE N == structunion_set_name(M, tag, TRUE)
           c == OpenMembers(ctx, TopStruct(N), tag, sc)
           k == Len(M.sus) + 1
<1>1. MayOpenMembers(ctx, tag, sc) /\ Room(ctx, 3) /\ Reduce(N, c)
  BY DEF OpenStruct
<1>2. LS!MayOpenMembers(ctx, tag, sc) /\ LS!Room(ctx, 3) /\ LS!Untagged = Untagged
  BY <1>1, SameGrammar, SameConstructs
<1>3. N = KeepNew(M, tag, TRUE)
  <2>1. CASE tag = Untagged
    BY <2>1 DEF structunion_set_name
  <2>2. CASE tag # Untagged
    <3>1. ~(scope_lookup_tag(M, tag) # Absent /\ get_scope_tag(M, tag) = current(M))
      BY <2>2, SameLookup
    <3> QED
      BY <2>2, <3>1 DEF structunion_set_name
  <2> QED
    BY <2>1, <2>2
<1>4. (tag = Untagged /\ TRUE) \/ M.stack[Len(M.stack)].tags[tag] = Absent
  BY HereIs DEF Contents, Absent
<1>5. /\ M \in State /\ FramesOK(ctx) /\ CtxInv(Len(M.sus), ctx) /\ Len(M.sus) \in Nat
      /\ M.sus \in Seq(Struct)
  BY LiveFacts
<1> HIDE DEF N
<1>6. /\ N.hold = FALSE /\ N.fatal = Running
      /\ N.sus = Append(M.sus, NewStruct(TRUE))
      /\ N.decls = Append(M.decls, Len(M.sus) + 1)
      /\ N.stack = IF tag = Untagged /\ TRUE THEN M.stack
                   ELSE TagIn(M.stack, Len(M.stack), tag, Len(M.sus) + 1)
  BY <1>3, <1>4, KeepNewIs
<1>7. TopStruct(N) = k
  BY <1>5, <1>6, TopOfNew
<1>8. CtxInv(k, c)
  <2>1. k \in Nat /\ k \in 0..k /\ Len(M.sus) <= k
    BY <1>5
  <2> HIDE DEF k
  <2>2. CtxInv(k, ctx)
    BY <1>5, <2>1, NodesMore
  <2>3. CtxInv(k, OpenMembers(ctx, k, tag, sc))
    BY <1>5, <2>1, <2>2, MemberNodes
  <2> QED
    BY <1>7, <2>3
<1>9. LS!NewNode = k
  BY <1>5, HeapIs, TypesFacts DEF LS!NewNode
<1> HIDE DEF c
<1>10. CASE tag = Untagged
  <2>1. /\ ctx' = c /\ M'.fatal = LS!Accepted
        /\ Heap(M)' = Append(Heap(M), LS!NewStruct)
        /\ UNCHANGED <<Environment(M), Prototype(M)>> /\ Extra(M', ctx')
    BY <1>1, <1>6, <1>8, <1>10, UntaggedStep
  <2>2. ctx' = LS!OpenMembers(ctx, LS!NewNode, tag, sc)
    BY <1>7, <1>9, <2>1, SameConstructs DEF c
  <2> QED
    BY <1>2, <1>10, <2>1, <2>2 DEF LS!OpenStruct, LS!Accept, LS!Forget
<1>11. CASE tag # Untagged
  <2>1. /\ ctx' = c /\ M'.fatal = LS!Accepted /\ LS!NewTag(tag)
        /\ UNCHANGED Prototype(M) /\ Extra(M', ctx')
    BY <1>1, <1>6, <1>8, <1>11, TagStep
  <2>2. ctx' = LS!OpenMembers(ctx, LS!NewNode, tag, sc)
    BY <1>7, <1>9, <2>1, SameConstructs DEF c
  <2> QED
    BY <1>2, <1>11, <2>1, <2>2 DEF LS!OpenStruct, LS!Accept, LS!Forget
<1> QED
  BY <1>10, <1>11

LEMMA OpenStructRefines ==
  ASSUME Conforming, RInv, Live, NEW sc \in StorageClasses, NEW tag \in TagNames,
         OpenStruct(tag, sc)
  PROVE  LS!OpenStruct(tag, sc) /\ Extra(M', ctx')
<1>1. Free(M)
  <2>1. MayDeclare(ctx, sc)
    BY DEF OpenStruct, MayOpenMembers
  <2>2. ~Reading(ctx, {"name"})
    BY <2>1, DeclarationStarts DEF Reading
  <2> QED
    BY <2>2, LiveFree
<1>2. CASE tag # Untagged /\ LS!Here.tags[tag] # 0
  BY <1>1, <1>2, OpenOldRefines
<1>3. CASE tag = Untagged \/ LS!Here.tags[tag] = 0
  BY <1>1, <1>3, OpenNewRefines
<1> QED
  BY <1>2, <1>3

(* '}': the dummy scope that is printed comes and goes. *)
LEMMA DoneCompletes ==
  ASSUME NEW S, Free(S), NEW N, N = structunion_done(S, TRUE)
  PROVE  /\ N.stack = S.stack /\ N.hold = FALSE /\ N.fatal = Running
         /\ N.sus = [S.sus EXCEPT ![TopStruct(S)] = Completed(@)]
<1> DEFINE D == scope_pop(scope_push(S, "structunion"))
           su == TopStruct(S)
           P == IF S.sus[su].defining THEN D ELSE S
<1>1. Ready(S) /\ S \in State /\ S.hold = FALSE /\ S.fatal = Running
  BY DEF Free, Ready
<1>2. D \in State /\ D.stack = S.stack /\ D.hold = FALSE /\ D.fatal = Running
  <2>1. "structunion" \in ScopeTypes /\ "structunion" # "proto"
    BY DEF ScopeTypes
  <2>2. D.stack = S.stack /\ D.hold = FALSE
    BY <2>1, PushPopIs
  <2> QED
    BY <1>1, <2>2, DummyScope DEF Keeps, Sound
<1>3. P \in State /\ P.stack = S.stack /\ P.hold = FALSE /\ P.fatal = Running
  BY <1>1, <1>2
<1>4. N = [[P EXCEPT !.sus[su].defining = FALSE, !.sus[su].complete = TRUE]
             EXCEPT !.decls = Front(@)]
  BY <1>3 DEF structunion_done, After
<1> HIDE DEF P, D
<1>5. N.stack = P.stack /\ N.hold = P.hold /\ N.fatal = P.fatal
  BY <1>3, <1>4 DEF State
<1>6. N.sus = [S.sus EXCEPT ![TopStruct(S)] = Completed(@)]
  BY <1>1, DoneLeaves
<1> QED
  BY <1>3, <1>5, <1>6

LEMMA CloseStructRefines ==
  ASSUME RInv, Live, CloseStruct PROVE LS!CloseStruct /\ Extra(M', ctx')
<1> DEFINE N == structunion_done(M, TRUE)
           s == Top(ctx).node
           c == CloseMembers(ctx)
<1>1. MayCloseMembers(ctx) /\ Top(ctx).kind = "su" /\ Reduce(N, c)
  BY DEF CloseStruct, MayCloseMembers
<1>2. LS!MayCloseMembers(ctx) /\ LS!Top(ctx) = Top(ctx)
  BY <1>1, SameGrammar
<1>3. Free(M)
  BY <1>1, LiveFree DEF Reading
<1>4. /\ M.stack \in Seq(Scopes) /\ M.sus \in Seq(Struct) /\ ProtoIds(M.stack)
      /\ ctx \in Seq(Frames) /\ Len(ctx) \in Nat /\ Len(ctx) # 0 /\ CtxInv(Len(M.sus), ctx)
      /\ StructInv(M, ctx)
  BY LiveFacts
<1>5. TopStruct(M) = s /\ s \in 1..Len(M.sus)
  BY <1>1, <1>4, TopIsInnermost DEF StructInv
<1> HIDE DEF N, s
<1>6. /\ N.stack = M.stack /\ N.hold = FALSE /\ N.fatal = Running
      /\ N.sus = [M.sus EXCEPT ![s] = Completed(@)]
  BY <1>3, <1>5, DoneCompletes DEF N
<1>7. M' = N /\ ctx' = c
  BY <1>1, <1>6 DEF Reduce
<1>8. /\ Environment(M) = Bare(M.stack) /\ Prototype(M) = <<>>
      /\ Environment(N) = Bare(M.stack) /\ Prototype(N) = <<>>
  BY <1>3, <1>4, <1>6, FreeLength, Unheld
<1>9. Heap(N) = [Heap(M) EXCEPT ![s].complete = TRUE]
  <2> DEFINE q == M.sus
             z == [q EXCEPT ![s] = Completed(@)]
  <2>1. q \in Seq(Struct) /\ s \in 1..Len(q) /\ N.sus = z
    BY <1>4, <1>5, <1>6
  <2>2. Heap(M) = Types(q) /\ Heap(N) = Types(z)
    BY <2>1, HeapIs
  <2> HIDE DEF q
  <2>3. Types(z) = [Types(q) EXCEPT ![s].complete = TRUE]
    BY ONLY <2>1, TypesCompleted
  <2> QED
    BY <2>2, <2>3
<1>10. /\ Environment(M)' = Environment(N) /\ Prototype(M)' = Prototype(N)
       /\ Heap(M)' = Heap(N)
  BY <1>7, Shown
<1>11. CtxInv(Len(N.sus), c)
  <2>1. Completed(M.sus[s]) \in Struct
    <3>1. M.sus[s] \in Struct
      BY <1>4, <1>5, ElementOfSeq
    <3> QED
      BY <3>1 DEF Completed, Struct
  <2>2. Len(N.sus) = Len(M.sus)
    BY <1>4, <1>5, <1>6, <2>1, ExceptSeq
  <2>3. CtxInv(Len(M.sus), Front(ctx))
    BY <1>4, NodesDrop
  <2> QED
    BY <2>2, <2>3 DEF CloseMembers
<1>12. Extra(M', ctx')
  BY <1>4, <1>6, <1>7, <1>11, ExtraKept DEF RInv
<1>13. M'.fatal = LS!Accepted /\ ctx' = LS!CloseMembers(ctx)
  BY <1>6, <1>7, SameConstructs
<1> QED
  BY <1>2, <1>8, <1>9, <1>10, <1>12, <1>13 DEF LS!CloseStruct, LS!Accept, LS!Forget, s

(* The end of a declaration keeps the nodes. *)
LEMMA EndNodes ==
  ASSUME NEW m, NEW c, FramesOK(c), Top(c).kind = "decl", CtxInv(m, c)
  PROVE  CtxInv(m, ReplaceTop(Front(c), HostAfter(Below(c), Top(c))))
<1> DEFINE b == Front(c)
           f == HostAfter(Below(c), Top(c))
<1>1. Len(c) \in Nat /\ Len(c) # 0 /\ c \in Seq(Frames) /\ Top(c) \in Frames /\ Len(c) # 1
  BY FrameFacts DEF FramesOK
<1>2. /\ FramesOK(b) /\ Top(b) = Below(c) /\ Below(c) \in Frames /\ Fits(Below(c), Top(c))
  BY <1>1, DropFrame
<1>3. b \in Seq(Frames) /\ Len(b) \in Nat /\ Len(b) # 0 /\ CtxInv(m, b)
  BY <1>1, <1>2, NodesDrop, FrameFacts DEF FramesOK
<1>4. Top(b).node \in 0..m
  BY <1>3, NodesAt
<1>5. f \in Frames /\ f.kind = Below(c).kind
  BY <1>1, <1>2, HostShape
<1>6. f.node = Below(c).node
  <2> DEFINE h == Below(c)
  <2> HIDE DEF h
  <2>1. h \in Frames => HostAfter(h, Top(c)).node = h.node
    BY DEF HostAfter, Frames
  <2> QED
    BY <1>2, <2>1 DEF h
<1> HIDE DEF b, f
<1> QED
  BY <1>2, <1>3, <1>4, <1>5, <1>6, NodesSwap DEF b, f

(* struct t; *)
LEMMA EmptyDeclarationRefines ==
  ASSUME RInv, Live, EmptyDeclaration PROVE LS!EmptyDeclaration /\ Extra(M', ctx')
<1> DEFINE f == Top(ctx)
           N == declspec_check_empty(M, f.node, f.tag, f.sc)
           K == KeepNew(M, f.tag, FALSE)
           P == structunion_done(K, FALSE)
           c == EndEmpty(ctx)
<1>1. MayEndEmpty(ctx) /\ Reduce(N, c)
  BY DEF EmptyDeclaration
<1>2. LS!MayEndEmpty(ctx) /\ LS!Top(ctx) = Top(ctx)
  BY <1>1, SameGrammar
<1>3. f.kind = "decl" /\ ~Reading(ctx, {"name"})
  BY <1>1 DEF MayEndEmpty, Reading
<1>4. Free(M)
  BY <1>3, LiveFree
<1>5. /\ M \in State /\ Ready(M) /\ FramesOK(ctx) /\ Len(ctx) \in Nat /\ Len(ctx) >= 1
      /\ CtxInv(Len(M.sus), ctx) /\ Len(M.sus) \in Nat /\ M.sus \in Seq(Struct)
  BY LiveFacts
<1>6. CtxInv(Len(M.sus), c)
  BY <1>3, <1>5, EndNodes DEF EndEmpty
<1>7. f.node # 0 => f.tag \in TagNames
  <2>1. Len(ctx) # 1
    BY <1>3, <1>5, FrameFacts
  <2>2. Fits(Below(ctx), f)
    BY <1>5, <2>1, DropFrame
  <2> QED
    BY <1>3, <2>2 DEF Fits
<1>8. ctx' = c => ctx' = LS!EndEmpty(ctx)
  BY SameConstructs
<1> HIDE DEF f, c
<1>9. CASE f.sc = "none" /\ f.node # 0 /\ LS!Here.tags[f.tag] = 0
  <2>1. f.tag \in TagNames
    BY <1>7, <1>9
  <2>2. ~(scope_lookup_tag(M, f.tag) # Absent /\ get_scope_tag(M, f.tag) = current(M))
    BY <1>4, <1>9, <2>1, SameLookup
  <2>3. N = After(K, P)
    BY <1>9, <2>2 DEF declspec_check_empty, structunion_forward_declare, Absent
  <2>4. M.stack[Len(M.stack)].tags[f.tag] = Absent
    BY <1>4, <1>9, HereIs DEF Contents, Absent
  <2>5. K \in State
    BY <1>5, <2>1, KeepNewKeeps DEF Keeps, Sound
  <2> HIDE DEF N, K
  <2>6. /\ K.hold = FALSE /\ K.fatal = Running
        /\ K.sus = Append(M.sus, NewStruct(FALSE))
        /\ K.stack = TagIn(M.stack, Len(M.stack), f.tag, Len(M.sus) + 1)
    BY <1>4, <2>1, <2>4, KeepNewIs DEF K
  <2>7. P.stack = K.stack /\ P.hold = K.hold /\ P.sus = K.sus /\ P.fatal = Running
    BY <2>5, <2>6, DoneIs
  <2>8. Reduce(P, c)
    BY <1>1, <2>3, <2>6 DEF After
  <2>9. CtxInv(Len(M.sus) + 1, c)
    <3> DEFINE m == Len(M.sus)
    <3>1. m \in Nat /\ m + 1 \in Nat /\ m <= m + 1 /\ CtxInv(m, c)
      BY <1>5, <1>6
    <3> HIDE DEF m
    <3>2. CtxInv(m + 1, c)
      BY <3>1, NodesMore
    <3> QED
      BY <3>2 DEF m
  <2> HIDE DEF P
  <2>10. /\ ctx' = c /\ M'.fatal = LS!Accepted /\ LS!NewTag(f.tag)
         /\ UNCHANGED Prototype(M) /\ Extra(M', ctx')
    BY <1>4, <2>1, <2>6, <2>7, <2>8, <2>9, TagStep
  <2> QED
    BY <1>2, <1>8, <1>9, <2>10 DEF LS!EmptyDeclaration, LS!Accept, LS!Forget, f
<1>10. CASE ~(f.sc = "none" /\ f.node # 0 /\ LS!Here.tags[f.tag] = 0)
  <2>1. N = M
    <3>1. CASE ~(f.sc = "none" /\ f.node # 0)
      BY <3>1 DEF declspec_check_empty, Absent
    <3>2. CASE f.sc = "none" /\ f.node # 0
      <4>1. f.tag \in TagNames
        BY <1>7, <3>2
      <4>2. scope_lookup_tag(M, f.tag) # Absent /\ get_scope_tag(M, f.tag) = current(M)
        BY <1>4, <1>10, <3>2, <4>1, SameLookup
      <4> QED
        BY <3>2, <4>2 DEF declspec_check_empty, structunion_forward_declare
    <3> QED
      BY <3>1, <3>2
  <2>2. Reduce(M, c) /\ M.hold = FALSE /\ M.fatal = Running
    BY <1>1, <1>4, <2>1 DEF Free, Live
  <2>3. /\ ctx' = c /\ M'.fatal = LS!Accepted
        /\ UNCHANGED <<Environment(M), Prototype(M), Heap(M)>> /\ Extra(M', ctx')
    BY <1>4, <1>6, <2>2, SilentStep
  <2> QED
    BY <1>2, <1>8, <1>10, <2>3 DEF LS!EmptyDeclaration, LS!Accept, LS!Forget, f
<1> QED
  BY <1>9, <1>10

-----------------------------------------------------------------------------
(* Identifiers *)

LEMMA IdInFacts ==
  ASSUME NEW s \in Seq(Scopes), NEW l \in 1..Len(s), NEW n \in Idents, NEW e \in Entry
  PROVE  LET z == IdIn(s, l, n, e) IN
         /\ z \in Seq(Scopes) /\ Len(z) = Len(s)
         /\ \A k \in 1..Len(s) : /\ z[k].type = s[k].type
                                 /\ z[k].ids[n] = IF k = l THEN e ELSE s[k].ids[n]
<1> DEFINE w == WithId(s[l], n, e)
           z == IdIn(s, l, n, e)
<1>1. s[l] \in Scopes
  BY ElementOfSeq
<1>2. w \in Scopes /\ w.type = s[l].type /\ w.ids[n] = e
  BY <1>1 DEF WithId, Scopes
<1>3. z = [s EXCEPT ![l] = w]
  BY DEF IdIn
<1> HIDE DEF w, z
<1>4. /\ z \in Seq(Scopes) /\ Len(z) = Len(s)
      /\ \A k \in 1..Len(s) : z[k] = IF k = l THEN w ELSE s[k]
  BY <1>2, <1>3, ExceptSeq
<1> QED
  BY <1>2, <1>4 DEF z

LEMMA IdInTwice ==
  ASSUME NEW s \in Seq(Scopes), NEW l \in 1..Len(s), NEW n \in Idents,
         NEW d \in Entry, NEW e \in Entry
  PROVE  IdIn(IdIn(s, l, n, d), l, n, e) = IdIn(s, l, n, e)
<1> DEFINE x == WithId(s[l], n, d)
           y == WithId(x, n, e)
           w == WithId(s[l], n, e)
<1>1. s[l] \in Scopes
  BY ElementOfSeq
<1>2. y = w /\ x \in Scopes /\ w \in Scopes
  BY <1>1 DEF WithId, Scopes
<1> HIDE DEF x, y, w
<1>3. IdIn(s, l, n, d) = [s EXCEPT ![l] = x] /\ IdIn(s, l, n, e) = [s EXCEPT ![l] = w]
  BY DEF IdIn, x, w
<1> DEFINE p == [s EXCEPT ![l] = x]
           q == [s EXCEPT ![l] = w]
           r == [p EXCEPT ![l] = y]
<1>4. /\ p \in Seq(Scopes) /\ Len(p) = Len(s)
      /\ \A k \in 1..Len(s) : p[k] = IF k = l THEN x ELSE s[k]
  BY <1>2, ExceptSeq
<1>5. /\ q \in Seq(Scopes) /\ Len(q) = Len(s)
      /\ \A k \in 1..Len(s) : q[k] = IF k = l THEN w ELSE s[k]
  BY <1>2, ExceptSeq
<1> HIDE DEF p, q
<1>6. /\ r \in Seq(Scopes) /\ Len(r) = Len(s)
      /\ \A k \in 1..Len(s) : r[k] = IF k = l THEN y ELSE p[k]
  BY <1>2, <1>4, ExceptSeq
<1>7. IdIn(p, l, n, e) = r
  <2>1. WithId(p[l], n, e) = y
    BY <1>4 DEF y
  <2> QED
    BY <2>1 DEF IdIn
<1> HIDE DEF r
<1>8. r = q
  <2>1. \A k \in 1..Len(s) : r[k] = q[k]
    BY <1>2, <1>4, <1>5, <1>6
  <2> QED
    BY <1>5, <1>6, <2>1, SeqEqual
<1> QED
  BY <1>3, <1>7, <1>8 DEF p, q

(* What decl_install makes of a name *)
NewEntry(s, l, sc) ==
  [sc |-> IF sc # "none" THEN sc ELSE IF l = 1 THEN "extern" ELSE "auto",
   proto |-> s[l].type = "proto"]
Linked(l, sc) == sc = "extern" \/ (sc = "none" /\ l = 1)

Unmarked(S)  == [S EXCEPT !.fndef = FALSE]
Tabled(S, s) == [S EXCEPT !.stack = s, !.fndef = FALSE]

Insertion(S, R, l, n, sc, e, I) ==
  LET old == R.stack[l].ids[n] # NoEntry IN
  /\ is_redeclaration(S, n, sc) <=> old /\ Linked(l, sc)
  /\ old /\ Linked(l, sc) => I = Unmarked(R)
  /\ old /\ ~Linked(l, sc) => I = Fatal(R, "symbol already exists in symbol table")
  /\ ~old => I = Tabled(R, IdIn(R.stack, l, n, e))

(* An insertion of a name, as decl_install asks for it *)
LEMMA InsertIdIs ==
  ASSUME NEW S, NEW R \in State, R = insert_state(S), R.fatal = Running,
         NEW l, l = insert_level(S), l \in 1..Len(R.stack),
         NEW n \in Idents, NEW sc, NEW e \in Entry,
         NEW I, I = scope_insert_id(S, n, sc, e)
  PROVE  Insertion(S, R, l, n, sc, e, I)
<1> DEFINE old == R.stack[l].ids[n] # NoEntry
<1>1. (current(R) = 1 \/ S.fndef) <=> l = 1
  BY DEF insert_level, current
<1>2. is_redeclaration(S, n, sc) <=> old /\ Linked(l, sc)
  BY <1>1 DEF is_redeclaration, Linked
<1>3. I = IF is_redeclaration(S, n, sc) THEN [R EXCEPT !.fndef = FALSE]
          ELSE IF old THEN Fatal(R, "symbol already exists in symbol table")
          ELSE [R EXCEPT !.stack[l].ids[n] = e, !.fndef = FALSE]
  BY DEF scope_insert_id, After
<1>4. [R EXCEPT !.stack[l].ids[n] = e, !.fndef = FALSE]
        = [R EXCEPT !.stack = IdIn(R.stack, l, n, e), !.fndef = FALSE]
  BY DEF IdIn, WithId
<1> QED
  BY <1>2, <1>3, <1>4 DEF Unmarked, Tabled, Insertion

(* declspec_fill_defaults: the innermost scope with the name is the one it  *)
(* was just inserted in.                                                   *)
LEMMA DefaultIs ==
  ASSUME NEW I, I.stack \in Seq(Scopes), NEW l \in 1..Len(I.stack), NEW n \in Idents,
         NEW sc, I.stack[l].ids[n] # NoEntry,
         \A k \in 1..Len(I.stack) : k > l => I.stack[k].ids[n] = NoEntry,
         I.stack[l].type = "file" <=> l = 1
  PROVE  default_sc(I, n, sc) = NewEntry(I.stack, l, sc).sc
<1> DEFINE m == Len(I.stack)
           D == {i \in 1..m : I.stack[i].ids[n] # NoEntry}
<1>1. m \in Nat /\ l \in 1..m
  BY LenProperties
<1>2. l \in D /\ D \in SUBSET (1..m) /\ D # {}
  OBVIOUS
<1>3. \A j \in D : j <= l /\ j \in Nat
  BY <1>1
<1>4. get_scope_id(I, n) = Innermost(D)
  BY DEF get_scope_id, current
<1> HIDE DEF D, m
<1>5. Innermost(D) \in D /\ \A j \in D : j <= Innermost(D)
  BY <1>1, <1>2, InnermostIs
<1>6. Innermost(D) = l
  <2>1. l <= Innermost(D) /\ Innermost(D) <= l /\ Innermost(D) \in Nat /\ l \in Nat
    BY <1>2, <1>3, <1>5
  <2> QED
    BY <2>1
<1> QED
  BY <1>4, <1>6 DEF default_sc, NewEntry

(* A name that is new in the scope, or linked to what is there *)
Declared(s, l, n, sc) ==
  IF s[l].ids[n] # NoEntry THEN s ELSE IdIn(s, l, n, NewEntry(s, l, sc))
Installed(R, l, n, sc, N) ==
  IF R.stack[l].ids[n] # NoEntry /\ ~Linked(l, sc)
  THEN N.fatal = "symbol already exists in symbol table"
  ELSE /\ N \in State /\ N.fatal = Running /\ ~N.fndef /\ N.hold = R.hold /\ N.sus = R.sus
       /\ N.stack = Declared(R.stack, l, n, sc)

(* decl_install, when the type is complete enough *)
LEMMA InstallIs ==
  ASSUME NEW S, S.fatal = Running, NEW R \in State, R = insert_state(S), R.fatal = Running,
         NEW l, l = insert_level(S), l \in 1..Len(R.stack), R.stack[l].type = "file" <=> l = 1,
         NEW n \in Idents, \A k \in 1..Len(R.stack) : k > l => R.stack[k].ids[n] = NoEntry,
         NEW sc \in {"none", "extern", "static"}, NEW is_fn, NEW node, NEW behind,
         decl_finalize(S, node, behind) = S,
         NEW N, N = decl_install(S, n, sc, is_fn, node, behind), N.fatal \notin InternalErrors
  PROVE  Installed(R, l, n, sc, N)
<1> DEFINE e0 == [sc |-> sc, proto |-> FALSE]
           e == NewEntry(R.stack, l, sc)
           I == scope_insert_id(S, n, sc, e0)
           old == R.stack[l].ids[n] # NoEntry
<1>1. e0 \in Entry /\ e \in Entry /\ e0 # NoEntry
  BY DEF Entry, NewEntry, NoEntry
<1>2. N = IF is_redeclaration(S, n, sc) \/ I.fatal # Running THEN I
          ELSE install_entry(I, l, n, sc, is_fn)
  BY DEF decl_install, After
<1> HIDE DEF e0
<1>3. /\ is_redeclaration(S, n, sc) <=> old /\ Linked(l, sc)
      /\ old /\ Linked(l, sc) => I = Unmarked(R)
      /\ old /\ ~Linked(l, sc) => I = Fatal(R, "symbol already exists in symbol table")
      /\ ~old => I = Tabled(R, IdIn(R.stack, l, n, e0))
  <2> HIDE DEF e
  <2>1. /\ R \in State /\ R = insert_state(S) /\ R.fatal = Running /\ l = insert_level(S)
        /\ l \in 1..Len(R.stack) /\ n \in Idents /\ e0 \in Entry
        /\ I = scope_insert_id(S, n, sc, e0)
    BY <1>1
  <2> HIDE DEF I
  <2>2. Insertion(S, R, l, n, sc, e0, I)
    BY ONLY <2>1, InsertIdIs
  <2> QED
    BY <2>2 DEF Insertion
<1>4. R.stack \in Seq(Scopes)
  BY DEF State
<1> HIDE DEF I, e
<1>5. CASE old /\ Linked(l, sc)
  <2>1. N = [R EXCEPT !.fndef = FALSE]
    BY <1>2, <1>3, <1>5 DEF Unmarked
  <2>2. N \in State /\ N.fatal = R.fatal /\ N.hold = R.hold /\ N.sus = R.sus
        /\ N.fndef = FALSE /\ N.stack = R.stack
    BY <2>1 DEF State
  <2> QED
    BY <1>5, <2>2 DEF Installed, Declared
<1>6. CASE old /\ ~Linked(l, sc)
  <2>1. I.fatal = "symbol already exists in symbol table" /\ I.fatal # Running
    BY <1>3, <1>6 DEF Fatal, State, Running
  <2>2. N = I
    BY <1>2, <2>1
  <2> QED
    BY <1>6, <2>1, <2>2 DEF Installed
<1>7. CASE ~old
  <2> DEFINE s == IdIn(R.stack, l, n, e0)
             z == IdIn(R.stack, l, n, e)
             d == [sc |-> default_sc(I, n, sc), proto |-> I.stack[l].type = "proto"]
             E == [I EXCEPT !.stack[l].ids[n] = d]
  <2>1. I = [R EXCEPT !.stack = s, !.fndef = FALSE]
    BY <1>3, <1>7 DEF Tabled
  <2>2. /\ s \in Seq(Scopes) /\ Len(s) = Len(R.stack)
        /\ \A k \in 1..Len(R.stack) : /\ s[k].type = R.stack[k].type
                                      /\ s[k].ids[n] = IF k = l THEN e0 ELSE R.stack[k].ids[n]
    <3> DEFINE t == R.stack
    <3>1. t \in Seq(Scopes) /\ l \in 1..Len(t) /\ n \in Idents /\ e0 \in Entry
      BY <1>1, <1>4
    <3>2. s = IdIn(t, l, n, e0)
      OBVIOUS
    <3> HIDE DEF t, s
    <3>3. /\ s \in Seq(Scopes) /\ Len(s) = Len(t)
          /\ \A k \in 1..Len(t) : /\ s[k].type = t[k].type
                                  /\ s[k].ids[n] = IF k = l THEN e0 ELSE t[k].ids[n]
      BY ONLY <3>1, <3>2, IdInFacts
    <3> QED
      BY <3>3 DEF t
  <2>3. IdIn(s, l, n, e) = z
    BY <1>1, <1>4, IdInTwice
  <2>11. z \in Seq(Scopes)
    BY <1>1, <1>4, IdInFacts
  <2> HIDE DEF s, z
  <2>4. /\ I \in State /\ I.stack = s /\ I.fatal = Running /\ I.hold = R.hold /\ I.sus = R.sus
        /\ I.fndef = FALSE
    BY <2>1, <2>2 DEF State
  <2>5. l \in 1..Len(s) /\ s[l].ids[n] # NoEntry /\ (s[l].type = "file" <=> l = 1)
        /\ \A k \in 1..Len(s) : k > l => s[k].ids[n] = NoEntry
    BY <1>1, <2>2
  <2>6. default_sc(I, n, sc) = NewEntry(s, l, sc).sc
    BY <2>2, <2>4, <2>5, DefaultIs
  <2>7. d = e
    BY <2>2, <2>4, <2>6 DEF NewEntry, e
  <2>8. ~is_redeclaration(S, n, sc)
    BY <1>3, <1>7
  <2>9. N = E
    <3>1. N = install_entry(I, l, n, sc, is_fn)
      BY <1>2, <2>4, <2>8
    <3>2. N = E \/ N = Fatal(E, "null function scope")
      BY <3>1 DEF install_entry
    <3>3. N # Fatal(E, "null function scope")
      <4>1. Fatal(E, "null function scope").fatal = "null function scope"
        BY <2>4 DEF Fatal, State
      <4> QED
        BY <4>1 DEF InternalErrors
    <3> QED
      BY <3>2, <3>3
  <2>10. N = [I EXCEPT !.stack = z]
    <3>1. N = [I EXCEPT !.stack = IdIn(@, l, n, d)]
      BY <2>9 DEF IdIn, WithId
    <3> HIDE DEF d
    <3> QED
      BY <2>3, <2>4, <2>7, <3>1
  <2>12. /\ N \in State /\ N.stack = z /\ N.fatal = I.fatal /\ N.hold = I.hold
         /\ N.sus = I.sus /\ N.fndef = I.fndef
    BY <2>4, <2>10, <2>11 DEF State
  <2> QED
    BY <1>7, <2>4, <2>12 DEF z, e, Installed, Declared
<1> QED
  BY <1>5, <1>6, <1>7

(* A declarator ends, and another may follow. *)
LEMMA DeclaratorNodes ==
  ASSUME NEW m, NEW c, FramesOK(c), Top(c).kind = "decl", CtxInv(m, c), NEW more \in BOOLEAN
  PROVE  CtxInv(m, EndDeclarator(c, more))
<1> DEFINE t == Top(c)
           g == SpecFrame(c, t.node, t.tag, t.sc)
           f == [g EXCEPT !.at = "more", !.first = FALSE]
<1>1. Len(c) \in Nat /\ Len(c) # 0 /\ c \in Seq(Frames) /\ t \in Frames
  BY FrameFacts DEF FramesOK
<1>2. CASE ~more
  BY <1>2, EndNodes DEF EndDeclarator
<1>3. CASE more
  <2>1. t.node \in Nat /\ t.tag \in TagNames \cup {NoTag} /\ t.sc \in StorageClasses
        /\ t.node \in 0..m
    <3>1. t.node \in 0..m
      BY <1>1, NodesAt
    <3> HIDE DEF t
    <3> QED
      BY <1>1, <3>1 DEF Frames
  <2>2. g \in Frames /\ g.kind = "decl" /\ g.node = t.node
    <3> DEFINE nd == t.node
               tg == t.tag
               s == t.sc
    <3>1. FramesOK(c) /\ nd \in Nat /\ tg \in TagNames \cup {NoTag} /\ s \in StorageClasses
          /\ g = SpecFrame(c, nd, tg, s)
      BY <2>1
    <3>2. t.node = nd
      OBVIOUS
    <3> HIDE DEF g, nd, tg, s
    <3>3. g \in Frames /\ g.kind = "decl" /\ g.node = nd
      BY ONLY <3>1, SpecIsFrame
    <3> QED
      BY ONLY <3>2, <3>3
  <2> HIDE DEF g
  <2>3. f \in Frames /\ f.kind = "decl" /\ f.node = t.node
    BY <2>2 DEF Frames
  <2>4. EndDeclarator(c, more) = ReplaceTop(c, f)
    BY <1>3 DEF EndDeclarator, g
  <2> HIDE DEF f
  <2> QED
    BY <1>1, <2>1, <2>3, <2>4, NodesSwap
<1> QED
  BY <1>2, <1>3

(* decl_finalize objects to what C objects to. *)
LEMMA FinalizeIs ==
  ASSUME NEW f, M.sus \in Seq(Struct), f.node \in 0..Len(M.sus), NEW S, S.sus = M.sus
  PROVE  decl_finalize(S, f.node, BehindPointer(f)) =
           IF LS!Incomplete(f) THEN Fatal(S, "incomplete type in non-pointer declaration") ELSE S
<1>1. Len(M.sus) \in Nat
  BY LenProperties
<1>2. f.node # 0 => Heap(M)[f.node].complete = M.sus[f.node].complete
  <2> SUFFICES ASSUME f.node # 0 PROVE Heap(M)[f.node].complete = M.sus[f.node].complete
    OBVIOUS
  <2>1. f.node \in 1..Len(M.sus)
    BY <1>1
  <2>2. Heap(M)[f.node] = TypeOf(M.sus[f.node])
    BY <2>1, HeapIs, TypesFacts
  <2> QED
    BY <2>2 DEF TypeOf
<1> QED
  BY <1>2 DEF decl_finalize, LS!Incomplete, BehindPointer, Absent

(* A program is turned away. *)
LEMMA RejectsWith ==
  ASSUME RInv, Live, NEW N, NEW c, Reduce(N, c), N.fatal # Running,
         NEW reasons, N.fatal \in reasons
  PROVE  LS!Reject(reasons) /\ Extra(M', ctx') /\ reasons # {}
<1>1. M \in State
  BY LiveFacts
<1>2. /\ M'.fatal = N.fatal /\ UNCHANGED ctx
      /\ M'.stack = M.stack /\ M'.hold = M.hold /\ M'.sus = M.sus
      /\ UNCHANGED <<Environment(M), Prototype(M), Heap(M)>>
  BY <1>1, ReduceShows
<1> QED
  BY <1>2, Rejected

LEMMA MemberRefines ==
  ASSUME RInv, Live, NEW more \in BOOLEAN, Declarator(more), Below(ctx).kind = "su"
  PROVE  LS!Declarator(more) /\ Extra(M', ctx')
<1> DEFINE f == Top(ctx)
           s == Below(ctx).node
           c == EndDeclarator(ctx, more)
           N == structunion_install_member(M, f.name, f.node, BehindPointer(f))
           wrong == LS!BadType(f) \cup
                    LS!Why(f.name \in Heap(M)[s].members, "duplicate member")
<1>1. MayEndDeclarator(ctx, more) /\ Reading(ctx, {"name"}) /\ Reduce(N, c)
  BY DEF Declarator, MayEndDeclarator, Install
<1>2. LS!MayEndDeclarator(ctx, more) /\ LS!Top(ctx) = f /\ LS!Below(ctx) = Below(ctx)
  BY <1>1, SameGrammar
<1>3. BInv
  BY LiveFacts
<1>4. /\ f.kind = "decl" /\ f.at = "name" /\ f \in Frames /\ Fits(Below(ctx), f)
      /\ Len(ctx) # 1 /\ FramesOK(Front(ctx)) /\ Top(Front(ctx)) = Below(ctx)
  BY <1>1, <1>3, DeclaratorFacts
<1>5. f.name \in Members
  BY <1>4 DEF Fits
<1>6. Free(M)
  BY LiveFree
<1>7. /\ M \in State /\ M.stack \in Seq(Scopes) /\ M.sus \in Seq(Struct) /\ ProtoIds(M.stack)
      /\ ctx \in Seq(Frames) /\ Len(ctx) \in Nat /\ Len(ctx) # 0 /\ CtxInv(Len(M.sus), ctx)
      /\ StructInv(M, ctx) /\ FramesOK(ctx)
  BY LiveFacts
<1>8. f.node \in 0..Len(M.sus)
  BY <1>7, NodesAt
<1>9. TopStruct(M) = s /\ s \in 1..Len(M.sus)
  <2> DEFINE b == Front(ctx)
  <2>1. SameOpen(b, ctx)
    BY <1>4, <1>7, SameOpenDrop
  <2>2. StructInv(M, b)
    BY <1>7, <2>1, UntouchedSelf, UntouchedInv
  <2>3. Len(b) \in Nat /\ Len(b) # 0 /\ Top(b).kind = "su" /\ Top(b).node = s
    BY <1>4, FrameFacts
  <2> HIDE DEF b
  <2> QED
    BY <2>2, <2>3, TopIsInnermost DEF StructInv
<1>10. decl_finalize(M, f.node, BehindPointer(f)) =
         IF LS!Incomplete(f) THEN Fatal(M, "incomplete type in non-pointer declaration") ELSE M
  BY <1>7, <1>8, FinalizeIs
<1>11. Heap(M)[s].members = M.sus[s].members
  <2>1. Heap(M)[s] = TypeOf(M.sus[s])
    BY <1>7, <1>9, HeapIs, TypesFacts
  <2> QED
    BY <2>1 DEF TypeOf
<1>12. N = IF LS!Incomplete(f) THEN Fatal(M, "incomplete type in non-pointer declaration")
           ELSE IF f.name \in M.sus[s].members THEN Fatal(M, "duplicate member")
           ELSE [M EXCEPT !.sus[s].members = @ \cup {f.name}]
  <2>1. Fatal(M, "incomplete type in non-pointer declaration").fatal # Running
    BY <1>7 DEF Fatal, State, Running
  <2> DEFINE i == f.name
             F == decl_finalize(M, f.node, BehindPointer(f))
  <2>2. N = After(F, IF i \in F.sus[s].members THEN Fatal(F, "duplicate member")
                     ELSE [F EXCEPT !.sus[s].members = @ \cup {i}])
    BY <1>9 DEF structunion_install_member
  <2> HIDE DEF F, N, s, i
  <2>3. CASE LS!Incomplete(f)
    BY <1>10, <2>1, <2>2, <2>3 DEF After, F
  <2>4. CASE ~LS!Incomplete(f)
    <3>1. F = M
      BY <1>10, <2>4 DEF F
    <3> QED
      BY <2>2, <2>4, <3>1 DEF After, Live, i
  <2> QED
    BY <2>3, <2>4
<1> HIDE DEF N, s, f, c
<1>13. LS!Member(f, more) <=>
         IF wrong # {} THEN LS!Reject(wrong)
         ELSE /\ LS!Accept(LS!EndDeclarator(ctx, more)) /\ LS!Forget /\ UNCHANGED Environment(M)
              /\ Heap(M)' = [Heap(M) EXCEPT ![s].members = @ \cup {f.name}]
  BY <1>2 DEF LS!Member, s
<1>14. CASE LS!Incomplete(f)
  <2>1. N.fatal = "incomplete type in non-pointer declaration"
    BY <1>7, <1>12, <1>14 DEF Fatal, State
  <2>2. N.fatal # Running /\ N.fatal \in wrong
    BY <1>14, <2>1 DEF LS!BadType, LS!Why, Running
  <2> HIDE DEF wrong
  <2>3. LS!Reject(wrong) /\ Extra(M', ctx') /\ wrong # {}
    BY <1>1, <2>2, RejectsWith
  <2> QED
    BY <1>2, <1>13, <2>3 DEF LS!Declarator
<1>15. CASE ~LS!Incomplete(f) /\ f.name \in M.sus[s].members
  <2>1. N.fatal = "duplicate member"
    BY <1>7, <1>12, <1>15 DEF Fatal, State
  <2>2. N.fatal # Running /\ N.fatal \in wrong
    BY <1>11, <1>15, <2>1 DEF LS!Why, Running
  <2> HIDE DEF wrong
  <2>3. LS!Reject(wrong) /\ Extra(M', ctx') /\ wrong # {}
    BY <1>1, <2>2, RejectsWith
  <2> QED
    BY <1>2, <1>13, <2>3 DEF LS!Declarator
<1>16. CASE ~LS!Incomplete(f) /\ f.name \notin M.sus[s].members
  <2> DEFINE q == M.sus
             n == f.name
             z == MemberIn(q, s, n)
  <2>1. N = [M EXCEPT !.sus = z]
    BY <1>12, <1>16 DEF WithMember, MemberIn
  <2>2. q \in Seq(Struct) /\ s \in 1..Len(q) /\ n \in Members
    BY <1>5, <1>7, <1>9
  <2>3. Heap(M) = Types(q)
    BY HeapIs
  <2> HIDE DEF q, n
  <2>4. Types(z) = [Types(q) EXCEPT ![s].members = @ \cup {n}]
    BY ONLY <2>2, TypesMember
  <2>5. z \in Seq(Struct) /\ Len(z) = Len(q)
    <3>1. q[s] \in Struct
      BY <2>2, ElementOfSeq
    <3>2. WithMember(q[s], n) \in Struct
      BY <2>2, <3>1 DEF WithMember, Struct
    <3> QED
      BY <2>2, <3>2, ExceptSeq DEF MemberIn
  <2> HIDE DEF z
  <2>6. N.stack = M.stack /\ N.hold = FALSE /\ N.fatal = Running /\ N.sus = z
    BY <1>6, <1>7, <2>1 DEF State, Free, Live
  <2>7. M' = N /\ ctx' = c
    BY <1>1, <2>6 DEF Reduce
  <2>8. /\ Environment(M) = Bare(M.stack) /\ Prototype(M) = <<>>
        /\ Environment(N) = Bare(M.stack) /\ Prototype(N) = <<>>
    BY <1>6, <1>7, <2>6, FreeLength, Unheld
  <2>9. Heap(N) = Types(z)
    BY <2>6, HeapIs
  <2>10. /\ Environment(M)' = Environment(N) /\ Prototype(M)' = Prototype(N)
         /\ Heap(M)' = Heap(N)
    BY <2>7, Shown
  <2>11. CtxInv(Len(N.sus), c)
    BY <1>4, <1>7, <2>5, <2>6, DeclaratorNodes DEF q, f, c
  <2>12. Extra(M', ctx')
    BY <1>7, <2>6, <2>7, <2>11, ExtraKept DEF RInv
  <2>13. M'.fatal = LS!Accepted /\ ctx' = LS!EndDeclarator(ctx, more)
    BY <2>6, <2>7, SameConstructs DEF c
  <2>14. wrong = {}
    BY <1>11, <1>16 DEF LS!BadType, LS!Why
  <2>15. LS!Member(f, more)
    BY <1>13, <2>3, <2>4, <2>8, <2>9, <2>10, <2>13, <2>14 DEF LS!Accept, LS!Forget, n
  <2> QED
    BY <1>2, <2>12, <2>15 DEF LS!Declarator
<1> QED
  BY <1>14, <1>15, <1>16

LEMMA FrontChanged ==
  ASSUME NEW q \in Seq(Scopes), Len(q) = 2, NEW e \in Scopes
  PROVE  Front([q EXCEPT ![2] = e]) = Front(q)
<1> DEFINE z == [q EXCEPT ![2] = e]
           x == Front(z)
           y == Front(q)
<1>1. /\ z \in Seq(Scopes) /\ Len(z) = Len(q)
      /\ \A k \in 1..Len(q) : z[k] = IF k = 2 THEN e ELSE q[k]
  BY ExceptSeq
<1>2. 1 \in 1..Len(q) /\ Len(q) - 1 = 1 /\ Len(q) # 0 /\ 1 \in 1..(Len(q) - 1)
  OBVIOUS
<1>3. z[1] = q[1] /\ Len(z) - 1 = 1 /\ Len(z) # 0 /\ 1 \in 1..(Len(z) - 1)
  BY <1>1, <1>2
<1> HIDE DEF z
<1>4. y \in Seq(Scopes) /\ Len(y) = 1 /\ y[1] = q[1]
  BY <1>2, FrontFacts
<1>5. x \in Seq(Scopes) /\ Len(x) = 1 /\ x[1] = z[1]
  BY <1>1, <1>3, FrontFacts
<1> HIDE DEF x, y
<1>6. \A k \in 1..Len(x) : x[k] = y[k]
  BY <1>3, <1>4, <1>5
<1>7. x = y
  BY <1>4, <1>5, <1>6, SeqEqual
<1> QED
  BY <1>7 DEF x, y, z

(* A held prototype that an insertion finds is dropped. *)
LEMMA ClearedStack ==
  ASSUME NEW S, Ready(S), S.hold
  PROVE  clear_held(S).stack = Front(S.stack)
<1> DEFINE R == [S EXCEPT !.stack[2].type = "file"]
           C == clear_held(S)
           e == [S.stack[2] EXCEPT !.type = "file"]
<1>1. Len(S.stack) = 2 /\ S \in State /\ S.stack \in Seq(Scopes) /\ 2 \in 1..Len(S.stack)
  BY DEF Ready, StackOK, State
<1>2. R \in State
  BY <1>1, Retype DEF ScopeTypes
<1>3. R.stack = [S.stack EXCEPT ![2] = e]
  BY <1>1 DEF State
<1>4. e \in Scopes
  <2>1. S.stack[2] \in Scopes
    BY <1>1, ElementOfSeq
  <2> QED
    BY <2>1 DEF Scopes, ScopeTypes
<1> HIDE DEF e
<1> HIDE DEF R
<1>5. C = [R EXCEPT !.stack = Front(R.stack), !.hold = FALSE]
  <2>1. scope_pop(R) = [R EXCEPT !.stack = Front(R.stack)]
    <3>1. R.stack[2].type = "file" /\ Len(R.stack) = 2
      BY <1>1, Retype DEF ScopeTypes, R
    <3> QED
      BY <3>1 DEF scope_pop, current
  <2> QED
    BY <1>1, <2>1 DEF clear_held, current, R
<1>6. C.stack = Front(R.stack)
  BY <1>2, <1>5 DEF State
<1>7. Front(R.stack) = Front(S.stack)
  BY <1>1, <1>3, <1>4, FrontChanged
<1> QED
  BY <1>6, <1>7

(* The scopes an insertion sees are those of the open constructs. *)
LEMMA InsertSees ==
  ASSUME NEW S, Ready(S), NEW R, R = insert_state(S)
  PROVE  /\ R \in State /\ R.fatal = Running /\ R.hold = FALSE /\ R.sus = S.sus
         /\ R.stack = IF S.hold THEN Front(S.stack) ELSE S.stack
         /\ Environment(S) = Bare(R.stack) /\ Len(R.stack) \in 1..Len(R.stack)
         /\ insert_level(S) = Len(R.stack)
         /\ \A k \in 1..Len(R.stack) : R.stack[k].type = "file" <=> k = 1
<1>1. /\ Keeps(S, R) /\ R.fatal = Running /\ ~R.hold /\ R.sus = S.sus
      /\ insert_level(S) = Len(R.stack) /\ Len(R.stack) \in 1..Len(R.stack)
  BY InsertState
<1>2. R \in State /\ StackOK(R) /\ R.hold = FALSE
  BY <1>1 DEF Keeps, Stays, Ready, State
<1>3. R.stack = IF S.hold THEN Front(S.stack) ELSE S.stack
  BY ClearedStack DEF insert_state, Ready
<1>4. S.stack \in Seq(Scopes) /\ Len(S.stack) # 0 /\ S.hold \in BOOLEAN
  BY DEF Ready, State, StackOK
<1>5. Environment(S) = Bare(R.stack)
  <2>1. CASE S.hold
    <3>1. Environment(S) = Front(Bare(S.stack))
      BY <1>4, <2>1, Holding
    <3>2. Bare(Front(S.stack)) = Front(Bare(S.stack))
      BY <1>4, BareFront
    <3> QED
      BY <1>3, <2>1, <3>1, <3>2
  <2>2. CASE ~S.hold
    BY <1>3, <1>4, <2>2, Unheld
  <2> QED
    BY <2>1, <2>2
<1>6. ASSUME NEW k \in 1..Len(R.stack) PROVE R.stack[k].type = "file" <=> k = 1
  <2>1. Len(R.stack) \in Nat
    BY <1>2, LenProperties DEF State
  <2>2. k = 1 \/ k \in 2..Len(R.stack)
    BY <2>1
  <2> QED
    BY <1>2, <2>2 DEF StackOK
<1> QED
  BY <1>1, <1>2, <1>3, <1>5, <1>6

(* Only a parameter is declared in a prototype's scope. *)
LEMMA InsertsIn ==
  ASSUME RInv, Live, Reading(ctx, {"name"}), Below(ctx).kind # "su", NEW R, R = insert_state(M)
  PROVE  R.stack[Len(R.stack)].type = "proto" <=> Below(ctx).kind = "params"
<1>1. BInv /\ Ready(M) /\ HoldOnly(M, ctx) /\ M.hold \in BOOLEAN
  BY LiveFacts
<1>2. Below(ctx).kind \in {"file", "params", "body", "block", "for"}
  BY <1>1, DeclaratorFacts DEF Frames, FrameKinds, OpensScope
<1>3. Below(ctx).kind \in Scoped
  BY <1>2 DEF Scoped, OpensScope
<1>4. CASE M.hold
  <2>1. Below(ctx).kind = "file"
    BY <1>1, <1>4 DEF HoldOnly
  <2>2. Len(M.stack) = 2 /\ M.stack \in Seq(Scopes)
    BY <1>1, <1>4 DEF Ready, StackOK, State
  <2>3. R.stack = Front(M.stack)
    BY <1>1, <1>4, InsertSees
  <2>4. Len(R.stack) = 1
    <3> DEFINE q == M.stack
    <3>1. q \in Seq(Scopes) /\ Len(q) # 0 /\ Len(q) = 2 /\ R.stack = Front(q)
      BY <2>2, <2>3
    <3> HIDE DEF q
    <3>2. Len(Front(q)) = Len(q) - 1
      BY ONLY <3>1, FrontFacts
    <3> QED
      BY ONLY <3>1, <3>2
  <2>5. R.stack[1].type = "file"
    BY <1>1, <2>4, InsertSees
  <2> QED
    BY <2>1, <2>4, <2>5
<1>5. CASE ~M.hold
  <2>1. R.stack = M.stack
    BY <1>1, <1>5, InsertSees
  <2>2. M.stack[Len(M.stack)].type = TypeOfScope(Below(ctx).kind)
    BY <1>1, <1>3, <1>5, DeclaredIn
  <2> QED
    BY <1>2, <2>1, <2>2 DEF TypeOfScope
<1> QED
  BY <1>4, <1>5

(* What C objects to in a declaration, and what it adds to the scope. *)
LEMMA DeclareIs ==
  ASSUME NEW s \in Seq(Scopes), NEW l \in 1..Len(s), Environment(M) = Bare(s),
         NEW n \in Idents, NEW sc \in {"none", "extern", "static"},
         s[l].type = "proto" <=> l = Len(s) /\ Below(ctx).kind = "params"
  PROVE  /\ LS!Declare(n, sc, l) = Bare(Declared(s, l, n, sc))
         /\ LS!Clash(n, sc, l) =
              LS!Why(s[l].ids[n] # NoEntry /\ ~Linked(l, sc),
                     "symbol already exists in symbol table")
         /\ NewEntry(s, l, sc) \in Entry
         /\ Declared(s, l, n, sc) \in Seq(Scopes)
<1> DEFINE env == Environment(M)
           e == NewEntry(s, l, sc)
           inside == l = Len(env) /\ Below(ctx).kind = "params"
<1>1. Len(env) = Len(s) /\ env[l] = Contents(s[l])
  BY BareFacts
<1>2. env[l].ids[n] = s[l].ids[n]
  BY <1>1 DEF Contents
<1>3. n # NoName
  BY NamesAssumption
<1>4. LS!Below(ctx) = Below(ctx) /\ LS!NoEntry = NoEntry /\ LS!NoName = NoName
  BY SameGrammar, SameConstructs
<1>5. e \in Entry
  BY DEF NewEntry, Entry
<1>6. LS!Clash(n, sc, l) = LS!Why(s[l].ids[n] # NoEntry /\ ~Linked(l, sc),
                                  "symbol already exists in symbol table")
  BY <1>2, <1>3, <1>4 DEF LS!Clash, LS!Linkage, Linked
<1>7. e = [sc |-> IF sc # "none" THEN sc ELSE IF l = 1 THEN "extern" ELSE "auto",
           proto |-> inside]
  BY <1>1 DEF NewEntry
<1>8. LS!Declare(n, sc, l) =
        IF s[l].ids[n] # NoEntry THEN env ELSE [env EXCEPT ![l].ids[n] = e]
  <2> HIDE DEF e
  <2> QED
    BY <1>2, <1>4, <1>7 DEF LS!Declare
<1> HIDE DEF e
<1>9. /\ IdIn(s, l, n, e) \in Seq(Scopes)
      /\ Bare(IdIn(s, l, n, e)) = [Bare(s) EXCEPT ![l].ids[n] = e]
  BY <1>5, BareId
<1> QED
  BY <1>5, <1>6, <1>8, <1>9 DEF Declared, e

(* A declarator without a name declares nothing. *)
LEMMA NamelessRefines ==
  ASSUME RInv, Live, NEW more \in BOOLEAN, Declarator(more), Below(ctx).kind # "su",
         Top(ctx).name = NoName
  PROVE  LS!Declarator(more) /\ Extra(M', ctx')
<1> DEFINE f == Top(ctx)
           c == EndDeclarator(ctx, more)
           N == decl_finalize(M, f.node, BehindPointer(f))
           wrong == LS!BadType(f) \cup LS!Clash(f.name, f.sc, Len(Environment(M)))
<1>1. MayEndDeclarator(ctx, more) /\ Reading(ctx, {"name"}) /\ Reduce(N, c)
  BY DEF Declarator, MayEndDeclarator, Install
<1>2. /\ LS!MayEndDeclarator(ctx, more) /\ LS!Top(ctx) = f /\ LS!Below(ctx) = Below(ctx)
      /\ LS!NoName = NoName /\ LS!EndDeclarator(ctx, more) = c
  BY <1>1, SameGrammar, SameConstructs
<1>3. BInv
  BY LiveFacts
<1>4. f.kind = "decl" /\ f.at = "name" /\ Fits(Below(ctx), f)
  BY <1>1, <1>3, DeclaratorFacts
<1>5. Below(ctx).kind # "file"
  BY <1>4 DEF Fits
<1>6. Free(M)
  BY <1>5, LiveFree
<1>7. /\ M.sus \in Seq(Struct) /\ Len(ctx) \in Nat /\ Len(ctx) # 0
      /\ CtxInv(Len(M.sus), ctx) /\ FramesOK(ctx) /\ M \in State
  BY LiveFacts
<1>8. f.node \in 0..Len(M.sus)
  BY <1>7, NodesAt
<1>9. N = IF LS!Incomplete(f) THEN Fatal(M, "incomplete type in non-pointer declaration")
          ELSE M
  BY <1>7, <1>8, FinalizeIs
<1>10. LS!Clash(f.name, f.sc, Len(Environment(M))) = {}
  BY <1>2 DEF LS!Clash, LS!Why
<1>11. CtxInv(Len(M.sus), c)
  BY <1>4, <1>7, DeclaratorNodes
<1> HIDE DEF N, c
<1>12. LS!Declarator(more) <=>
         IF wrong # {} THEN LS!Reject(wrong)
         ELSE LS!Accept(c) /\ LS!Forget /\ UNCHANGED Heap(M) /\ UNCHANGED Environment(M)
  BY <1>2 DEF LS!Declarator
<1>13. CASE LS!Incomplete(f)
  <2>1. N.fatal = "incomplete type in non-pointer declaration"
    BY <1>7, <1>9, <1>13 DEF Fatal, State
  <2>2. N.fatal # Running /\ N.fatal \in wrong
    BY <1>13, <2>1 DEF LS!BadType, LS!Why, Running
  <2> HIDE DEF wrong
  <2>3. LS!Reject(wrong) /\ Extra(M', ctx') /\ wrong # {}
    BY <1>1, <2>2, RejectsWith
  <2> QED
    BY <1>12, <2>3
<1>14. CASE ~LS!Incomplete(f)
  <2>1. N = M /\ M.hold = FALSE /\ M.fatal = Running
    BY <1>6, <1>9, <1>14 DEF Free, Live
  <2>2. wrong = {}
    BY <1>10, <1>14 DEF LS!BadType, LS!Why
  <2>3. /\ ctx' = c /\ M'.fatal = LS!Accepted
        /\ UNCHANGED <<Environment(M), Prototype(M), Heap(M)>> /\ Extra(M', ctx')
    BY <1>1, <1>6, <1>11, <2>1, SilentStep
  <2> QED
    BY <1>12, <2>2, <2>3 DEF LS!Accept, LS!Forget
<1> QED
  BY <1>13, <1>14

LEMMA DeclaredProto ==
  ASSUME NEW s \in Seq(Scopes), ProtoIds(s), NEW l \in 1..Len(s), NEW n \in Idents, NEW sc,
         NewEntry(s, l, sc) \in Entry
  PROVE  ProtoIds(Declared(s, l, n, sc))
<1> DEFINE e == NewEntry(s, l, sc)
<1>1. s[l].type = "proto" => e.proto
  BY DEF NewEntry
<1> HIDE DEF e
<1>2. ProtoIds(IdIn(s, l, n, e))
  BY <1>1, ProtoId DEF e
<1> QED
  BY <1>2 DEF Declared, e

(* A type that is not complete stops decl_install first. *)
LEMMA InstallStops ==
  ASSUME NEW S \in State, NEW node, NEW behind, NEW why \in ProgramErrors,
         decl_finalize(S, node, behind) = Fatal(S, why),
         NEW n, NEW sc, NEW is_fn, NEW N, N = decl_install(S, n, sc, is_fn, node, behind)
  PROVE  N.fatal = why /\ why # Running
<1> DEFINE F == Fatal(S, why)
           I == scope_insert_id(F, n, sc, [sc |-> sc, proto |-> FALSE])
<1>1. F.fatal = why /\ why # Running
  BY FatalSound DEF Fatal, State, Sound
<1> HIDE DEF F
<1>2. N = After(F, I)
  BY <1>1 DEF decl_install, F
<1> QED
  BY <1>1, <1>2 DEF After

(* An object, a function or a parameter *)
LEMMA ObjectRefines ==
  ASSUME RInv, Live, NEW more \in BOOLEAN, Declarator(more), Below(ctx).kind # "su",
         Top(ctx).name # NoName
  PROVE  LS!Declarator(more) /\ Extra(M', ctx')
<1> DEFINE f == Top(ctx)
           n == f.name
           sc == f.sc
           c == EndDeclarator(ctx, more)
           N == Install(f)
           R == insert_state(M)
           l == Len(R.stack)
           env == Environment(M)
           clash == LS!Clash(n, sc, Len(env))
           wrong == LS!BadType(f) \cup clash
           z == Declared(R.stack, l, n, sc)
<1>1. MayEndDeclarator(ctx, more) /\ Reading(ctx, {"name"}) /\ Reduce(N, c)
  BY DEF Declarator, MayEndDeclarator
<1>2. /\ LS!MayEndDeclarator(ctx, more) /\ LS!Top(ctx) = f /\ LS!Below(ctx) = Below(ctx)
      /\ LS!NoName = NoName /\ LS!EndDeclarator(ctx, more) = c
  BY <1>1, SameGrammar, SameConstructs
<1>3. /\ BInv /\ IInv /\ Ready(M) /\ M.sus \in Seq(Struct) /\ Len(ctx) \in Nat /\ Len(ctx) # 0
      /\ CtxInv(Len(M.sus), ctx) /\ FramesOK(ctx) /\ M \in State /\ ProtoIds(M.stack)
      /\ M.stack \in Seq(Scopes) /\ Len(M.stack) # 0
  BY LiveFacts
<1>4. /\ f.kind = "decl" /\ f.at = "name" /\ Fits(Below(ctx), f)
      /\ sc \in {"none", "extern", "static"}
  BY <1>1, <1>3, DeclaratorFacts
<1>5. n \in Idents
  BY <1>4 DEF Fits
<1>6. f.node \in 0..Len(M.sus)
  BY <1>3, NodesAt
<1>7. N = decl_install(M, n, sc, IsFunction(f), f.node, BehindPointer(f))
  BY DEF Install
<1>8. N.fatal \notin InternalErrors
  BY <1>1, <1>3, InstallKeeps DEF Keeps, Sound
<1>9. decl_finalize(M, f.node, BehindPointer(f)) =
        IF LS!Incomplete(f) THEN Fatal(M, "incomplete type in non-pointer declaration") ELSE M
  BY <1>3, <1>6, FinalizeIs
<1>10. CtxInv(Len(M.sus), c)
  BY <1>3, <1>4, DeclaratorNodes
<1>11. /\ R \in State /\ R.fatal = Running /\ R.hold = FALSE /\ R.sus = M.sus
       /\ R.stack = IF M.hold THEN Front(M.stack) ELSE M.stack
       /\ env = Bare(R.stack) /\ l \in 1..l /\ insert_level(M) = l
       /\ \A k \in 1..l : R.stack[k].type = "file" <=> k = 1
  BY <1>3, InsertSees
<1>12. R.stack[l].type = "proto" <=> Below(ctx).kind = "params"
  BY <1>1, InsertsIn
<1>13. R.stack \in Seq(Scopes) /\ l \in Nat /\ Len(env) = l
  <2>1. R.stack \in Seq(Scopes)
    BY <1>11 DEF State
  <2> QED
    BY <1>11, <2>1, BareFacts, LenProperties
<1>14. ProtoIds(R.stack)
  BY <1>3, <1>11, ProtoFront
<1>15. /\ LS!Declare(n, sc, l) = Bare(z)
       /\ clash = LS!Why(R.stack[l].ids[n] # NoEntry /\ ~Linked(l, sc),
                         "symbol already exists in symbol table")
       /\ NewEntry(R.stack, l, sc) \in Entry /\ z \in Seq(Scopes)
  <2> DEFINE s == R.stack
  <2>1. /\ s \in Seq(Scopes) /\ l \in 1..Len(s) /\ env = Bare(s) /\ n \in Idents
        /\ sc \in {"none", "extern", "static"}
        /\ s[l].type = "proto" <=> l = Len(s) /\ Below(ctx).kind = "params"
    BY <1>4, <1>5, <1>11, <1>12, <1>13
  <2>2. Len(env) = l
    BY <1>13
  <2> HIDE DEF s, l, n, sc
  <2>3. /\ LS!Declare(n, sc, l) = Bare(Declared(s, l, n, sc))
        /\ LS!Clash(n, sc, l) =
              LS!Why(s[l].ids[n] # NoEntry /\ ~Linked(l, sc),
                     "symbol already exists in symbol table")
        /\ NewEntry(s, l, sc) \in Entry
        /\ Declared(s, l, n, sc) \in Seq(Scopes)
    BY <2>1, DeclareIs
  <2> QED
    BY <2>2, <2>3 DEF s
<1>16. ProtoIds(z)
  <2> DEFINE s == R.stack
  <2>1. s \in Seq(Scopes) /\ ProtoIds(s) /\ l \in 1..Len(s) /\ n \in Idents
        /\ NewEntry(s, l, sc) \in Entry /\ z = Declared(s, l, n, sc)
    BY <1>5, <1>11, <1>14, <1>13, <1>15
  <2> HIDE DEF s, l, n, sc, z
  <2> QED
    BY ONLY <2>1, DeclaredProto
<1>17. ~LS!Incomplete(f) => Installed(R, l, n, sc, N)
  <2> SUFFICES ASSUME ~LS!Incomplete(f) PROVE Installed(R, l, n, sc, N)
    OBVIOUS
  <2> DEFINE nd == f.node
             bp == BehindPointer(f)
             fn == IsFunction(f)
  <2>1. /\ M.fatal = Running /\ R \in State /\ R = insert_state(M) /\ R.fatal = Running
        /\ l = insert_level(M) /\ l \in 1..Len(R.stack) /\ (R.stack[l].type = "file" <=> l = 1)
        /\ n \in Idents /\ sc \in {"none", "extern", "static"}
        /\ decl_finalize(M, nd, bp) = M
        /\ N = decl_install(M, n, sc, fn, nd, bp) /\ N.fatal \notin InternalErrors
    BY <1>4, <1>5, <1>7, <1>8, <1>9, <1>11 DEF Live
  <2>2. \A k \in 1..Len(R.stack) : k > l => R.stack[k].ids[n] = NoEntry
    BY <1>13
  <2> HIDE DEF R, l, n, sc, N, nd, bp, fn, f
  <2> QED
    BY ONLY <2>1, <2>2, InstallIs
<1> HIDE DEF c, N, z, clash, R, l
<1>18. LS!Declarator(more) <=>
         IF wrong # {} THEN LS!Reject(wrong)
         ELSE /\ LS!Accept(c) /\ LS!Forget /\ UNCHANGED Heap(M)
              /\ Environment(M)' = LS!Declare(n, sc, Len(env))
  BY <1>2 DEF LS!Declarator, clash
<1>19. CASE LS!Incomplete(f)
  <2> DEFINE why == "incomplete type in non-pointer declaration"
  <2>1. why \in ProgramErrors
    BY DEF ProgramErrors
  <2>2. N.fatal = why /\ why # Running
    <3> HIDE DEF why
    <3>1. decl_finalize(M, f.node, BehindPointer(f)) = Fatal(M, why)
      BY <1>9, <1>19 DEF why
    <3> QED
      BY <1>3, <1>7, <2>1, <3>1, InstallStops
  <2>3. N.fatal # Running /\ N.fatal \in wrong
    BY <1>19, <2>2 DEF LS!BadType, LS!Why
  <2> HIDE DEF wrong
  <2>4. LS!Reject(wrong) /\ Extra(M', ctx') /\ wrong # {}
    BY <1>1, <2>3, RejectsWith
  <2> QED
    BY <1>18, <2>4
<1>20. CASE ~LS!Incomplete(f) /\ R.stack[l].ids[n] # NoEntry /\ ~Linked(l, sc)
  <2>1. N.fatal = "symbol already exists in symbol table"
    BY <1>17, <1>20 DEF Installed
  <2>2. N.fatal # Running /\ N.fatal \in wrong
    BY <1>15, <1>20, <2>1 DEF LS!Why, Running
  <2> HIDE DEF wrong
  <2>3. LS!Reject(wrong) /\ Extra(M', ctx') /\ wrong # {}
    BY <1>1, <2>2, RejectsWith
  <2> QED
    BY <1>18, <2>3
<1>21. CASE ~LS!Incomplete(f) /\ ~(R.stack[l].ids[n] # NoEntry /\ ~Linked(l, sc))
  <2>1. wrong = {}
    BY <1>15, <1>21 DEF LS!BadType, LS!Why
  <2>2. N.fatal = Running /\ N.hold = FALSE /\ N.sus = M.sus /\ N.stack = z
    BY <1>11, <1>17, <1>21 DEF Installed, z
  <2>3. M' = N /\ ctx' = c
    BY <1>1, <2>2 DEF Reduce
  <2>4. Environment(N) = Bare(z) /\ Prototype(N) = <<>>
    BY <1>15, <2>2, Unheld
  <2>5. Heap(N) = Heap(M)
    BY <2>2, HeapIs
  <2>6. /\ Environment(M)' = Environment(N) /\ Prototype(M)' = Prototype(N)
        /\ Heap(M)' = Heap(N)
    BY <2>3, Shown
  <2>7. Extra(M', ctx')
    BY <1>10, <1>16, <2>2, <2>3, ExtraKept DEF RInv
  <2>8. M'.fatal = LS!Accepted
    BY <2>2, <2>3, SameConstructs
  <2> QED
    BY <1>13, <1>15, <1>18, <2>1, <2>3, <2>4, <2>5, <2>6, <2>7, <2>8 DEF LS!Accept, LS!Forget
<1> QED
  BY <1>19, <1>20, <1>21

LEMMA DeclaratorRefines ==
  ASSUME RInv, Live, NEW more \in BOOLEAN, Declarator(more)
  PROVE  LS!Declarator(more) /\ Extra(M', ctx')
  BY MemberRefines, NamelessRefines, ObjectRefines

-----------------------------------------------------------------------------
(* Function definitions *)
LEMMA ReplacedAt ==
  ASSUME NEW q \in Seq(Scopes), NEW l \in 1..Len(q), NEW d \in Scopes,
         NEW z, z = [q EXCEPT ![l] = d]
  PROVE  /\ z \in Seq(Scopes) /\ Len(z) = Len(q)
         /\ \A k \in 1..Len(q) : z[k] = IF k = l THEN d ELSE q[k]
  BY ExceptSeq

(* The scopes below a held prototype get the same declaration. *)
LEMMA FrontDeclared ==
  ASSUME NEW q \in Seq(Scopes), Len(q) = 2, NEW n \in Idents,
         NEW sc \in {"none", "extern", "static"}
  PROVE  /\ Front(q) \in Seq(Scopes) /\ Len(Front(q)) = 1 /\ Front(q)[1] = q[1]
         /\ Declared(q, 1, n, sc) \in Seq(Scopes) /\ Len(Declared(q, 1, n, sc)) = 2
         /\ Declared(q, 1, n, sc)[2] = q[2]
         /\ Front(Declared(q, 1, n, sc)) = Declared(Front(q), 1, n, sc)
<1> DEFINE s == Front(q)
           e == NewEntry(q, 1, sc)
           d == WithId(q[1], n, e)
           z == IdIn(q, 1, n, e)
           y == IdIn(s, 1, n, e)
<1>1. Len(q) - 1 = 1 /\ Len(q) # 0 /\ 1 \in 1..(Len(q) - 1) /\ 1 \in 1..Len(q) /\ 2 \in 1..Len(q)
  OBVIOUS
<1>2. s \in Seq(Scopes) /\ Len(s) = 1 /\ s[1] = q[1]
  BY <1>1, FrontFacts
<1>3. NewEntry(s, 1, sc) = e /\ e \in Entry
  BY <1>2 DEF NewEntry, Entry
<1>4. d \in Scopes
  <2>1. q[1] \in Scopes
    BY <1>1, ElementOfSeq
  <2> HIDE DEF e
  <2> QED
    BY <1>3, <2>1 DEF WithId, Scopes
<1>5. z = [q EXCEPT ![1] = d] /\ y = [s EXCEPT ![1] = d]
  <2> HIDE DEF e, s
  <2> QED
    BY <1>2 DEF IdIn
<1> HIDE DEF e, d, s, z, y
<1>6. z \in Seq(Scopes) /\ Len(z) = 2 /\ z[1] = d /\ z[2] = q[2]
  <2>1. /\ z \in Seq(Scopes) /\ Len(z) = Len(q)
        /\ \A k \in 1..Len(q) : z[k] = IF k = 1 THEN d ELSE q[k]
    BY <1>1, <1>4, <1>5, ReplacedAt
  <2> QED
    BY <1>1, <2>1
<1>7. y \in Seq(Scopes) /\ Len(y) = 1 /\ y[1] = d
  <2>1. 1 \in 1..Len(s)
    BY <1>2
  <2>2. /\ y \in Seq(Scopes) /\ Len(y) = Len(s)
        /\ \A k \in 1..Len(s) : y[k] = IF k = 1 THEN d ELSE s[k]
    <3>1. s \in Seq(Scopes) /\ 1 \in 1..Len(s) /\ d \in Scopes /\ y = [s EXCEPT ![1] = d]
      BY <1>2, <1>4, <1>5, <2>1
    <3> QED
      BY ONLY <3>1, ReplacedAt
  <2> QED
    BY <1>2, <2>1, <2>2
<1>8. Front(z) = y
  <2>1. Len(z) # 0 /\ Len(z) - 1 = 1 /\ 1 \in 1..(Len(z) - 1)
    BY <1>6
  <2>2. Front(z) \in Seq(Scopes) /\ Len(Front(z)) = 1 /\ Front(z)[1] = z[1]
    BY <1>6, <2>1, FrontFacts
  <2> DEFINE x == Front(z)
  <2>3. x \in Seq(Scopes) /\ Len(x) = Len(y) /\ \A k \in 1..Len(x) : x[k] = y[k]
    BY <1>6, <1>7, <2>2
  <2> HIDE DEF x
  <2>4. x = y
    BY <1>7, <2>3, SeqEqual
  <2> QED
    BY <2>4 DEF x
<1>9. /\ Declared(q, 1, n, sc) = IF q[1].ids[n] # NoEntry THEN q ELSE z
      /\ Declared(s, 1, n, sc) = IF q[1].ids[n] # NoEntry THEN s ELSE y
  BY <1>2, <1>3 DEF Declared, z, y, e
<1> QED
  BY <1>2, <1>6, <1>8, <1>9 DEF s

(* A held prototype becomes the scope of the body. *)
LEMMA PromoteIs ==
  ASSUME NEW S \in State, S.hold = TRUE, Len(S.stack) = 2, S.fatal = Running,
         ProtoIds(S.stack), NEW P, P = scope_push_auto(S), NEW Q, Q = scope_pop(P)
  PROVE  /\ P.stack \in Seq(Scopes) /\ P.hold = FALSE /\ P.fatal = Running /\ P.sus = S.sus
         /\ ProtoIds(P.stack) /\ Bare(P.stack) = Bare(S.stack)
         /\ Q.stack \in Seq(Scopes) /\ Q.hold = FALSE /\ Q.fatal = Running /\ Q.sus = S.sus
         /\ ProtoIds(Q.stack) /\ Bare(Q.stack) = Front(Bare(S.stack))
<1> DEFINE s == S.stack
           e == [s[2] EXCEPT !.type = "func"]
           z == [s EXCEPT ![2] = e]
<1>1. s \in Seq(Scopes) /\ 2 \in 1..Len(s) /\ Len(s) # 0 /\ S.prev \in SUBSET Idents
  BY DEF State
<1>2. s[2] \in Scopes
  BY <1>1, ElementOfSeq
<1>3. e \in Scopes /\ e.type = "func" /\ e.ids = s[2].ids /\ e.tags = s[2].tags
  BY <1>2 DEF Scopes, ScopeTypes
<1>4. P = [S EXCEPT !.stack = z, !.hold = FALSE, !.prev = Params(s[2])]
  BY DEF scope_push_auto, current
<1> HIDE DEF e
<1>5. /\ z \in Seq(Scopes) /\ Len(z) = Len(s)
      /\ \A k \in 1..Len(s) : z[k] = IF k = 2 THEN e ELSE s[k]
  BY <1>1, <1>3, ExceptSeq
<1>6. Contents(e) = Contents(s[2])
  BY <1>3 DEF Contents
<1>7. Bare(z) = Bare(s)
  <2>1. /\ Bare(z) \in Seq(ScopeContents) /\ Len(Bare(z)) = Len(s)
        /\ \A i \in 1..Len(s) : Bare(z)[i] = Contents(z[i])
    BY <1>5, BareFacts
  <2>2. /\ Bare(s) \in Seq(ScopeContents) /\ Len(Bare(s)) = Len(s)
        /\ \A i \in 1..Len(s) : Bare(s)[i] = Contents(s[i])
    BY <1>1, BareFacts
  <2>3. \A i \in 1..Len(s) : Bare(z)[i] = Bare(s)[i]
    BY <1>5, <1>6, <2>1, <2>2
  <2> HIDE DEF z, s
  <2> QED
    BY <2>1, <2>2, <2>3, SeqEqual
<1>8. ProtoIds(z)
  BY <1>1, <1>3, ProtoReplace
<1> HIDE DEF z
<1>9. P.stack = z /\ P.hold = FALSE /\ P.fatal = Running /\ P.sus = S.sus
  BY <1>4 DEF State
<1>10. z[2].type = "func" /\ Len(z) = 2
  BY <1>1, <1>3, <1>5
<1>11. Q = [P EXCEPT !.stack = Front(@)]
  BY <1>9, <1>10 DEF scope_pop, current
<1>12. Q.stack = Front(z) /\ Q.hold = FALSE /\ Q.fatal = Running /\ Q.sus = S.sus
  BY <1>4, <1>9, <1>11 DEF State
<1>13. Len(z) # 0
  BY <1>10
<1>14. Front(z) \in Seq(Scopes) /\ ProtoIds(Front(z)) /\ Bare(Front(z)) = Front(Bare(z))
  BY <1>5, <1>8, <1>13, FrontFacts, ProtoFront, BareFront
<1> QED
  BY <1>5, <1>7, <1>8, <1>9, <1>12, <1>14

(* What C objects to in the head of a function definition *)
Objections(f) ==
  LS!BadType(f) \cup LS!Clash(f.name, f.sc, 1) \cup
  LS!Why(~IsFunction(f), "expected function declarator before function definition") \cup
  LS!Why(f.nameless, "abstract declarator in parameter list of function definition")

(* The held prototype does not have the function's own name. *)
LEMMA NotOwnParameter ==
  ASSUME Conforming, RInv, Live, MayDefine(ctx), IsFunction(Top(ctx))
  PROVE  /\ M.hold = TRUE /\ Len(M.stack) = 2 /\ Top(ctx).name \in Idents
         /\ M.stack[2].ids[Top(ctx).name] = NoEntry
         /\ Params(M.stack[2]) = Top(ctx).own
<1> DEFINE f == Top(ctx)
<1>1. /\ IInv /\ BInv /\ Ready(M) /\ HeldOwn(M, ctx) /\ ProtoIds(M.stack) /\ f \in Frames
      /\ M.hold \in BOOLEAN /\ Held(M, ctx)
  BY LiveFacts, OwnReady DEF IInv
<1>2. Reading(ctx, {"name"}) /\ Below(ctx).kind = "file" /\ f.name \notin f.own
  BY DEF MayDefine, Conforming
<1>3. f.kind = "decl" /\ f.at = "name" /\ Fits(Below(ctx), f)
  BY <1>1, <1>2, DeclaratorFacts
<1>4. f.name \in Idents
  BY <1>2, <1>3 DEF Fits
<1>5. f.lists # 0
  BY <1>1 DEF IsFunction, Frames
<1>6. M.hold
  BY <1>1, <1>2, <1>5 DEF Held
<1>7. Len(M.stack) = 2 /\ M.stack[2].type = "proto" /\ 2 \in 1..Len(M.stack)
  BY <1>1, <1>6 DEF Ready, StackOK
<1>8. Params(M.stack[2]) = f.own
  BY <1>1, <1>2 DEF HeldOwn
<1>9. ~M.stack[2].ids[f.name].proto
  BY <1>2, <1>4, <1>8 DEF Params
<1>10. M.stack[2].ids[f.name] = NoEntry
  BY <1>1, <1>4, <1>7, <1>9 DEF ProtoIds
<1> QED
  BY <1>1, <1>4, <1>6, <1>7, <1>8, <1>10

(* Define objects to what C objects to, or declares the function in the    *)
(* file scope and keeps its parameters on hold.                            *)
LEMMA DefineIs ==
  ASSUME Conforming, RInv, Live, MayDefine(ctx), NEW N, N = Define(Top(ctx))
  PROVE  \/ N.fatal \in Objections(Top(ctx)) /\ N.fatal # Running
         \/ /\ Objections(Top(ctx)) = {}
            /\ IsFunction(Top(ctx)) /\ N \in State /\ N.fatal = Running
            /\ N.hold = TRUE /\ N.sus = M.sus
            /\ N.stack = Declared(M.stack, 1, Top(ctx).name, Top(ctx).sc)
<1> DEFINE f == Top(ctx)
           n == f.name
           sc == f.sc
           fn == IsFunction(f)
           bp == BehindPointer(f)
           S == scope_set_fndef(M)
           C == decl_check_fndef(M, fn, f.nameless)
           D == decl_install(scope_set_fndef(C), n, sc, fn, f.node, bp)
           q == M.stack
           s == Front(q)
<1>1. /\ IInv /\ BInv /\ Ready(M) /\ M \in State /\ M.fatal = Running /\ q \in Seq(Scopes)
      /\ Len(q) # 0 /\ M.sus \in Seq(Struct) /\ Len(ctx) \in Nat /\ Len(ctx) # 0
      /\ CtxInv(Len(M.sus), ctx)
  BY LiveFacts
<1>2. Reading(ctx, {"name"}) /\ Below(ctx).kind = "file"
  BY DEF MayDefine
<1>3. sc \in {"none", "extern", "static"} /\ f \in Frames
  BY <1>1, <1>2, DeclaratorFacts
<1>4. N = After(C, D)
  BY DEF Define
<1>5. N.fatal \notin InternalErrors
  BY <1>1, DefineKeeps DEF Keeps, Sound
<1>6. CASE ~fn
  <2> DEFINE why == "expected function declarator before function definition"
  <2>1. C = Fatal(M, why)
    BY <1>6 DEF decl_check_fndef
  <2>2. C.fatal = why /\ why # Running
    BY <1>1, <2>1 DEF Fatal, State, Running
  <2>3. N.fatal = why
    BY <1>4, <2>2 DEF After
  <2>4. why \in Objections(f)
    BY <1>6 DEF Objections, LS!Why
  <2> QED
    BY <2>2, <2>3, <2>4
<1>7. CASE fn /\ f.nameless
  <2> DEFINE why == "abstract declarator in parameter list of function definition"
  <2>1. C = Fatal(M, why)
    BY <1>7 DEF decl_check_fndef
  <2>2. C.fatal = why /\ why # Running
    BY <1>1, <2>1 DEF Fatal, State, Running
  <2>3. N.fatal = why
    BY <1>4, <2>2 DEF After
  <2>4. why \in Objections(f)
    BY <1>7 DEF Objections, LS!Why
  <2> QED
    BY <2>2, <2>3, <2>4
<1>8. CASE fn /\ ~f.nameless
  <2>1. C = M
    BY <1>8 DEF decl_check_fndef
  <2>2. N = decl_install(S, n, sc, fn, f.node, bp)
    BY <1>1, <1>4, <2>1 DEF After
  <2>3. M.hold = TRUE /\ Len(q) = 2 /\ n \in Idents /\ q[2].ids[n] = NoEntry
    BY <1>8, NotOwnParameter
  <2>4. /\ S \in State /\ S.stack = q /\ S.fatal = Running /\ S.hold = TRUE /\ S.sus = M.sus
        /\ S.fndef = TRUE
    BY <1>1, <2>3 DEF scope_set_fndef, State
  <2>5. insert_state(S) = S /\ insert_level(S) = 1
    BY <2>4 DEF insert_state, insert_level
  <2>6. f.node \in 0..Len(M.sus)
    BY <1>1, NodesAt
  <2>7. decl_finalize(S, f.node, bp) =
          IF LS!Incomplete(f) THEN Fatal(S, "incomplete type in non-pointer declaration") ELSE S
    BY <1>1, <2>4, <2>6, FinalizeIs
  <2>8. q[1].type = "file" /\ 1 \in 1..Len(q) /\ \A k \in 1..Len(q) : k > 1 => k = 2
    BY <1>1, <2>3 DEF Ready, StackOK
  <2>9. /\ s \in Seq(Scopes) /\ Len(s) = 1 /\ s[1] = q[1]
    BY <1>1, <1>3, <2>3, FrontDeclared
  <2>10. Environment(M) = Bare(s)
    BY <1>1, <2>3, Holding, BareFront
  <2>11. LS!Clash(n, sc, 1) = LS!Why(q[1].ids[n] # NoEntry /\ ~Linked(1, sc),
                                     "symbol already exists in symbol table")
    <3>1. /\ s \in Seq(Scopes) /\ 1 \in 1..Len(s) /\ Environment(M) = Bare(s) /\ n \in Idents
          /\ sc \in {"none", "extern", "static"}
          /\ s[1].type = "proto" <=> 1 = Len(s) /\ Below(ctx).kind = "params"
      BY <1>2, <1>3, <2>3, <2>8, <2>9, <2>10
    <3> HIDE DEF s, n, sc
    <3>2. LS!Clash(n, sc, 1) =
              LS!Why(s[1].ids[n] # NoEntry /\ ~Linked(1, sc),
                     "symbol already exists in symbol table")
      BY <3>1, DeclareIs
    <3> QED
      BY <2>9, <3>2
  <2>12. CASE LS!Incomplete(f)
    <3> DEFINE why == "incomplete type in non-pointer declaration"
    <3>1. why \in ProgramErrors
      BY DEF ProgramErrors
    <3>2. N.fatal = why /\ why # Running
      <4> HIDE DEF why, S
      <4>1. decl_finalize(S, f.node, bp) = Fatal(S, why)
        BY <2>7, <2>12 DEF why
      <4> QED
        BY <2>2, <2>4, <3>1, <4>1, InstallStops
    <3>3. why \in Objections(f)
      BY <2>12 DEF Objections, LS!BadType, LS!Why
    <3> QED
      BY <3>2, <3>3
  <2>13. CASE ~LS!Incomplete(f)
    <3>1. Installed(S, 1, n, sc, N)
      <4> DEFINE nd == f.node
      <4>1. /\ S.fatal = Running /\ S \in State /\ S = insert_state(S)
            /\ 1 = insert_level(S) /\ 1 \in 1..Len(S.stack) /\ (S.stack[1].type = "file" <=> 1 = 1)
            /\ n \in Idents /\ sc \in {"none", "extern", "static"}
            /\ decl_finalize(S, nd, bp) = S
            /\ N = decl_install(S, n, sc, fn, nd, bp) /\ N.fatal \notin InternalErrors
        BY <1>3, <1>5, <2>2, <2>3, <2>4, <2>5, <2>7, <2>8, <2>13
      <4>2. \A k \in 1..Len(S.stack) : k > 1 => S.stack[k].ids[n] = NoEntry
        BY <2>3, <2>4, <2>8
      <4> HIDE DEF S, n, sc, nd, bp, fn, f
      <4> QED
        BY ONLY <4>1, <4>2, InstallIs
    <3>2. CASE q[1].ids[n] # NoEntry /\ ~Linked(1, sc)
      <4>1. N.fatal = "symbol already exists in symbol table"
        BY <2>4, <3>1, <3>2 DEF Installed
      <4>2. N.fatal \in Objections(f)
        BY <2>11, <3>2, <4>1 DEF Objections, LS!Why
      <4> QED
        BY <4>1, <4>2 DEF Running
    <3>3. CASE ~(q[1].ids[n] # NoEntry /\ ~Linked(1, sc))
      <4>1. Objections(f) = {}
        BY <1>8, <2>11, <2>13, <3>3 DEF Objections, LS!BadType, LS!Why
      <4>2. /\ N \in State /\ N.fatal = Running /\ N.hold = TRUE /\ N.sus = M.sus
            /\ N.stack = Declared(q, 1, n, sc)
        BY <2>4, <3>1, <3>3 DEF Installed
      <4> QED
        BY <1>8, <4>1, <4>2
    <3> QED
      BY <3>2, <3>3
  <2> QED
    BY <2>12, <2>13
<1> QED
  BY <1>6, <1>7, <1>8

LEMMA FrontAndLast ==
  ASSUME NEW T, NEW x \in Seq(T), Len(x) = 2
  PROVE  Front(x) \o <<x[2]>> = x
<1> DEFINE y == Front(x)
           p == <<x[2]>>
           z == y \o p
<1>1. Len(x) # 0 /\ Len(x) - 1 = 1 /\ 1 \in 1..(Len(x) - 1) /\ 2 \in 1..Len(x)
  OBVIOUS
<1>2. y \in Seq(T) /\ Len(y) = 1 /\ y[1] = x[1]
  BY <1>1, FrontFacts
<1>3. x[2] \in T
  BY <1>1, ElementOfSeq
<1>4. p \in Seq(T) /\ Len(p) = 1 /\ p[1] = x[2]
  BY <1>3
<1> HIDE DEF y, p
<1>5. /\ z \in Seq(T) /\ Len(z) = Len(y) + Len(p)
      /\ \A i \in 1..(Len(y) + Len(p)) : z[i] = IF i <= Len(y) THEN y[i] ELSE p[i - Len(y)]
  BY <1>2, <1>4, ConcatProperties
<1> HIDE DEF z
<1>6. Len(z) = Len(x) /\ \A k \in 1..Len(x) : z[k] = x[k]
  <2>1. Len(z) = 2 /\ Len(x) = 2
    BY <1>2, <1>4, <1>5
  <2>2. z[1] = x[1] /\ z[2] = x[2]
    BY <1>2, <1>4, <1>5
  <2> QED
    BY <2>1, <2>2
<1>7. z = x
  BY <1>5, <1>6, SeqEqual
<1> QED
  BY <1>7 DEF z, y, p

LEMMA DefinedIs ==
  ASSUME Conforming, RInv, Live, MayDefine(ctx), NEW N, N = Define(Top(ctx)), N.fatal = Running
  PROVE  /\ Objections(Top(ctx)) = {} /\ IsFunction(Top(ctx))
         /\ N \in State /\ N.hold = TRUE /\ Len(N.stack) = 2 /\ ProtoIds(N.stack)
         /\ N.sus = M.sus /\ N.stack[2] = M.stack[2]
         /\ LS!Declare(Top(ctx).name, Top(ctx).sc, 1) = Front(Bare(N.stack))
<1> DEFINE f == Top(ctx)
           n == f.name
           sc == f.sc
           q == M.stack
           s == Front(q)
<1>1. /\ Objections(f) = {} /\ IsFunction(f) /\ N \in State /\ N.hold = TRUE /\ N.sus = M.sus
      /\ N.stack = Declared(q, 1, n, sc)
  BY DefineIs
<1>2. M.hold = TRUE /\ Len(q) = 2 /\ n \in Idents
  BY <1>1, NotOwnParameter
<1>12. Len(q) # 0
  BY <1>2
<1>3. /\ BInv /\ Ready(M) /\ q \in Seq(Scopes) /\ ProtoIds(q)
  BY LiveFacts
<1>4. Reading(ctx, {"name"}) /\ Below(ctx).kind = "file"
  BY DEF MayDefine
<1>5. sc \in {"none", "extern", "static"}
  BY <1>3, <1>4, DeclaratorFacts
<1>6. /\ s \in Seq(Scopes) /\ Len(s) = 1 /\ s[1] = q[1]
      /\ N.stack \in Seq(Scopes) /\ Len(N.stack) = 2 /\ N.stack[2] = q[2]
      /\ Front(N.stack) = Declared(s, 1, n, sc)
  <2> DEFINE t == N.stack
  <2>1. q \in Seq(Scopes) /\ Len(q) = 2 /\ n \in Idents /\ sc \in {"none", "extern", "static"}
        /\ t = Declared(q, 1, n, sc)
    BY <1>1, <1>2, <1>3, <1>5
  <2> HIDE DEF q, n, sc, t
  <2>2. /\ Front(q) \in Seq(Scopes) /\ Len(Front(q)) = 1 /\ Front(q)[1] = q[1]
        /\ Declared(q, 1, n, sc) \in Seq(Scopes) /\ Len(Declared(q, 1, n, sc)) = 2
        /\ Declared(q, 1, n, sc)[2] = q[2]
        /\ Front(Declared(q, 1, n, sc)) = Declared(Front(q), 1, n, sc)
    BY ONLY <2>1, FrontDeclared
  <2> QED
    BY <2>1, <2>2 DEF t
<1>7. q[1].type = "file"
  BY <1>3 DEF Ready, StackOK
<1>8. Environment(M) = Bare(s)
  BY <1>2, <1>12, <1>3, Holding, BareFront
<1>9. LS!Declare(n, sc, 1) = Bare(Declared(s, 1, n, sc))
  <2>1. /\ s \in Seq(Scopes) /\ 1 \in 1..Len(s) /\ Environment(M) = Bare(s) /\ n \in Idents
        /\ sc \in {"none", "extern", "static"}
        /\ s[1].type = "proto" <=> 1 = Len(s) /\ Below(ctx).kind = "params"
    BY <1>2, <1>4, <1>5, <1>6, <1>7, <1>8
  <2> HIDE DEF s, n, sc
  <2> QED
    BY <2>1, DeclareIs
<1>10. Bare(Front(N.stack)) = Front(Bare(N.stack))
  <2>1. Len(N.stack) # 0
    BY <1>6
  <2> QED
    BY <1>6, <2>1, BareFront
<1>11. ProtoIds(N.stack)
  <2> DEFINE e == NewEntry(q, 1, sc)
  <2>1. e \in Entry
    BY <1>5 DEF NewEntry, Entry
  <2>2. 1 \in 1..Len(q)
    BY <1>2
  <2> HIDE DEF q, n, sc
  <2>3. ProtoIds(Declared(q, 1, n, sc))
    BY <1>2, <1>3, <2>1, <2>2, DeclaredProto
  <2> QED
    BY <1>1, <2>3 DEF q, n, sc
<1> QED
  BY <1>1, <1>6, <1>9, <1>10, <1>11

LEMMA DefinitionRefines ==
  ASSUME Conforming, RInv, Live, MayDefine(ctx), NEW N, N = Define(Top(ctx)),
         NEW P, NEW c, Reduce(After(N, P), c), CtxInv(Len(M.sus), c), NEW body,
         N.fatal = Running =>
           /\ P.stack \in Seq(Scopes) /\ P.hold = FALSE /\ P.fatal = Running /\ P.sus = N.sus
           /\ ProtoIds(P.stack) /\ Bare(P.stack) = Front(Bare(N.stack)) \o body
  PROVE  LS!Definition(c, body) /\ Extra(M', ctx')
<1> DEFINE f == Top(ctx)
           wrong == Objections(f)
           R == After(N, P)
<1>1. /\ LS!MayDefine(ctx) /\ LS!Top(ctx) = f /\ (LS!IsFunction(f) <=> IsFunction(f))
  BY SameGrammar
<1>2. LS!Definition(c, body) <=>
        IF wrong # {} THEN LS!Reject(wrong)
        ELSE /\ Prototype(M) # <<>>
             /\ {n \in Idents : Prototype(M)[1].ids[n].proto} = f.own
             /\ LS!Accept(c) /\ LS!Forget /\ UNCHANGED Heap(M)
             /\ Environment(M)' = LS!Declare(f.name, f.sc, 1) \o body
  BY <1>1 DEF LS!Definition, Objections
<1>3. CASE N.fatal # Running
  <2>1. N.fatal \in wrong
    BY <1>3, DefineIs
  <2>2. R = N
    BY <1>3 DEF After
  <2> HIDE DEF wrong, R
  <2>3. Reduce(N, c)
    BY <2>2 DEF R
  <2>4. LS!Reject(wrong) /\ Extra(M', ctx') /\ wrong # {}
    BY <1>3, <2>1, <2>3, RejectsWith
  <2> QED
    BY <1>2, <2>4
<1>4. CASE N.fatal = Running
  <2>1. /\ wrong = {} /\ IsFunction(f) /\ N.sus = M.sus
        /\ LS!Declare(f.name, f.sc, 1) = Front(Bare(N.stack))
    BY <1>4, DefinedIs
  <2>2. /\ M.hold = TRUE /\ Len(M.stack) = 2 /\ Params(M.stack[2]) = f.own
    BY <2>1, NotOwnParameter
  <2>3. M.stack \in Seq(Scopes) /\ Len(M.stack) # 0
    BY LiveFacts
  <2>4. Prototype(M) = <<Contents(M.stack[2])>>
    <3>1. Bare(M.stack)[2] = Contents(M.stack[2])
      BY <2>2, <2>3, BareFacts
    <3> QED
      BY <2>2, <2>3, <3>1, Holding
  <2>5. Prototype(M) # <<>> /\ Prototype(M)[1].ids = M.stack[2].ids
    BY <2>4 DEF Contents
  <2>6. {n \in Idents : Prototype(M)[1].ids[n].proto} = f.own
    BY <2>2, <2>5 DEF Params
  <2>7. R = P
    BY <1>4 DEF After
  <2>8. M' = P /\ ctx' = c
    BY <1>4, <2>7 DEF Reduce
  <2>9. Environment(P) = Bare(P.stack) /\ Prototype(P) = <<>>
    BY <1>4, Unheld
  <2>10. Heap(P) = Heap(M)
    BY <1>4, <2>1, HeapIs
  <2>11. /\ Environment(M)' = Environment(P) /\ Prototype(M)' = Prototype(P)
         /\ Heap(M)' = Heap(P)
    BY <2>8, Shown
  <2>12. Extra(M', ctx')
    BY <1>4, <2>1, <2>8, ExtraKept DEF RInv
  <2>13. M'.fatal = LS!Accepted
    BY <1>4, <2>8, SameConstructs
  <2> HIDE DEF wrong, R
  <2>14. /\ LS!Accept(c) /\ LS!Forget /\ UNCHANGED Heap(M)
    BY <2>8, <2>9, <2>10, <2>11, <2>13 DEF LS!Accept, LS!Forget
  <2>15. Environment(M)' = LS!Declare(f.name, f.sc, 1) \o body
    BY <1>4, <2>1, <2>9, <2>11
  <2> QED
    BY <1>2, <2>1, <2>5, <2>6, <2>12, <2>14, <2>15
<1> QED
  BY <1>3, <1>4

LEMMA FileNodes ==
  ASSUME RInv, Live, MayDefine(ctx)
  PROVE  CtxInv(Len(M.sus), OpenBody(ctx)) /\ CtxInv(Len(M.sus), EmptyBody(ctx))
<1> DEFINE b == Front(ctx)
           f == [Frame("body", 2, "items") EXCEPT !.own = Top(ctx).own]
           m == Len(M.sus)
<1>1. /\ BInv /\ ctx \in Seq(Frames) /\ Len(ctx) # 0 /\ CtxInv(m, ctx) /\ m \in Nat
      /\ Top(ctx) \in Frames
  BY LiveFacts
<1>2. b \in Seq(Frames) /\ CtxInv(m, b)
  BY <1>1, AtFile, NodesDrop
<1>3. f \in Frames /\ f.node = 0 /\ f.kind = "body"
  <2>1. Top(ctx).own \in SUBSET Idents
    BY <1>1 DEF Frames
  <2>2. "none" \in StorageClasses
    BY GrammarAssumption
  <2> QED
    BY <2>1, <2>2 DEF Frame, Frames, FrameKinds, OpensScope
<1> HIDE DEF f, b
<1>4. CtxInv(m, Append(b, f))
  BY <1>1, <1>2, <1>3, NodesPush
<1> QED
  BY <1>2, <1>4 DEF b, f, OpenBody, EmptyBody

LEMMA BeginBodyRefines ==
  ASSUME Conforming, RInv, Live, BeginBody
  PROVE  LS!BeginBody /\ Extra(M', ctx')
<1> DEFINE N == Define(Top(ctx))
           P == scope_push_auto(N)
           c == OpenBody(ctx)
           body == Prototype(M)
<1>1. MayDefine(ctx) /\ Reduce(After(N, P), c)
  BY DEF BeginBody
<1>2. CtxInv(Len(M.sus), c)
  BY <1>1, FileNodes
<1> HIDE DEF N, c
<1>3. ASSUME N.fatal = Running
      PROVE  /\ P.stack \in Seq(Scopes) /\ P.hold = FALSE /\ P.fatal = Running /\ P.sus = N.sus
             /\ ProtoIds(P.stack) /\ Bare(P.stack) = Front(Bare(N.stack)) \o body
  <2>1. /\ N \in State /\ N.hold = TRUE /\ Len(N.stack) = 2 /\ ProtoIds(N.stack)
        /\ N.stack[2] = M.stack[2] /\ IsFunction(Top(ctx))
    BY <1>1, <1>3, DefinedIs DEF N
  <2>2. /\ P.stack \in Seq(Scopes) /\ P.hold = FALSE /\ P.fatal = Running /\ P.sus = N.sus
        /\ ProtoIds(P.stack) /\ Bare(P.stack) = Bare(N.stack)
    BY <1>3, <2>1, PromoteIs
  <2>3. N.stack \in Seq(Scopes) /\ M.stack \in Seq(Scopes)
    BY <2>1, LiveFacts DEF State
  <2>4. M.hold = TRUE /\ Len(M.stack) = 2 /\ Len(M.stack) # 0
    <3>1. M.hold = TRUE /\ Len(M.stack) = 2
      BY <1>1, <2>1, NotOwnParameter
    <3> QED
      BY <3>1
  <2> DEFINE x == Bare(N.stack)
  <2>5. x \in Seq(ScopeContents) /\ Len(x) = 2 /\ x[2] = Contents(M.stack[2])
    BY <2>1, <2>3, BareFacts
  <2>6. body = <<x[2]>>
    <3>1. Bare(M.stack)[2] = Contents(M.stack[2])
      BY <2>3, <2>4, BareFacts
    <3> QED
      BY <2>3, <2>4, <2>5, <3>1, Holding
  <2> HIDE DEF x, body
  <2>8. Front(x) \o <<x[2]>> = x
    BY <2>5, FrontAndLast
  <2> QED
    BY <2>2, <2>6, <2>8 DEF x
<1> HIDE DEF P, body
<1>4. LS!Definition(c, body) /\ Extra(M', ctx')
  BY <1>1, <1>2, <1>3, DefinitionRefines DEF N
<1> QED
  BY <1>4, SameConstructs DEF LS!BeginBody, c, body

LEMMA WholeBodyRefines ==
  ASSUME Conforming, RInv, Live, WholeBody
  PROVE  LS!WholeBody /\ Extra(M', ctx')
<1> DEFINE N == Define(Top(ctx))
           P == scope_pop(scope_push_auto(N))
           c == EmptyBody(ctx)
           body == <<>>
<1>1. MayDefine(ctx) /\ Reduce(After(N, P), c)
  BY DEF WholeBody
<1>2. CtxInv(Len(M.sus), c)
  BY <1>1, FileNodes
<1> HIDE DEF N, c
<1>3. ASSUME N.fatal = Running
      PROVE  /\ P.stack \in Seq(Scopes) /\ P.hold = FALSE /\ P.fatal = Running /\ P.sus = N.sus
             /\ ProtoIds(P.stack) /\ Bare(P.stack) = Front(Bare(N.stack)) \o body
  <2>1. N \in State /\ N.hold = TRUE /\ Len(N.stack) = 2 /\ ProtoIds(N.stack)
    BY <1>1, <1>3, DefinedIs DEF N
  <2>2. /\ P.stack \in Seq(Scopes) /\ P.hold = FALSE /\ P.fatal = Running /\ P.sus = N.sus
        /\ ProtoIds(P.stack) /\ Bare(P.stack) = Front(Bare(N.stack))
    BY <1>3, <2>1, PromoteIs
  <2> DEFINE x == Bare(N.stack)
  <2>3. N.stack \in Seq(Scopes)
    BY <2>1 DEF State
  <2>4. x \in Seq(ScopeContents) /\ Len(x) = 2
    BY <2>1, <2>3, BareFacts
  <2> HIDE DEF x
  <2>7. Len(x) # 0
    BY <2>4
  <2>5. Front(x) \in Seq(ScopeContents)
    BY <2>4, <2>7, FrontFacts
  <2>6. Front(x) \o <<>> = Front(x)
    BY <2>5, ConcatEmptySeq
  <2> QED
    BY <2>2, <2>6 DEF x
<1> HIDE DEF P, body
<1>4. LS!Definition(c, body) /\ Extra(M', ctx')
  BY <1>1, <1>2, <1>3, DefinitionRefines DEF N
<1> QED
  BY <1>4, SameConstructs DEF LS!WholeBody, c, body

-----------------------------------------------------------------------------
(* The refinement *)
LEMMA InitRefines == ASSUME Init PROVE LS!Init /\ RInv
<1>1. /\ ctx = <<FileFrame>> /\ M.stack = <<NewScope("file")>> /\ M.hold = FALSE
      /\ M.fatal = Running /\ M.sus = <<>>
  BY DEF Init, InitScopes
<1>2. BInv /\ StructInv(M, ctx)
  BY InitOwn, InitStructs
<1>3. FileFrame.kind = "file" /\ FileFrame.node = 0
  BY DEF FileFrame, Frame
<1>4. M.stack \in Seq(Scopes) /\ Len(M.stack) = 1 /\ M.stack[1] = NewScope("file")
  <2>1. NewScope("file") \in Scopes
    BY NewScopeType DEF ScopeTypes
  <2> DEFINE e == NewScope("file")
  <2> HIDE DEF e
  <2>2. <<e>> \in Seq(Scopes) /\ Len(<<e>>) = 1 /\ <<e>>[1] = e
    BY <2>1 DEF e
  <2> QED
    BY <1>1, <2>2 DEF e
<1>5. Environment(M) = <<LS!Empty>> /\ Prototype(M) = <<>>
  <2>1. Environment(M) = Bare(M.stack) /\ Prototype(M) = <<>>
    BY <1>1, <1>4, Unheld
  <2> DEFINE b == Bare(M.stack)
  <2>2. b \in Seq(ScopeContents) /\ Len(b) = 1 /\ b[1] = Contents(NewScope("file"))
    BY <1>4, BareFacts
  <2>3. Contents(NewScope("file")) = LS!Empty
    BY SameConstructs DEF Contents, NewScope, LS!Empty, NoEntry, LS!NoEntry, Absent
  <2> DEFINE e == LS!Empty
  <2> HIDE DEF b, e
  <2>4. e \in ScopeContents
    BY <2>2, <2>3, ElementOfSeq DEF e
  <2>5. <<e>> \in Seq(ScopeContents) /\ Len(<<e>>) = 1 /\ <<e>>[1] = e
    BY <2>4
  <2>6. b = <<e>>
    <3> DEFINE z == <<e>>
    <3>1. z \in Seq(ScopeContents) /\ Len(b) = Len(z) /\ \A k \in 1..Len(b) : b[k] = z[k]
      BY <2>2, <2>3, <2>5 DEF e
    <3> HIDE DEF z
    <3>2. b = z
      BY <2>2, <3>1, SeqEqual
    <3> QED
      BY <3>2 DEF z
  <2> QED
    BY <2>1, <2>6 DEF b, e
<1>6. Heap(M) = <<>>
  <2> DEFINE h == Types(M.sus)
  <2>1. h \in Seq(StructType) /\ Len(h) = 0
    <3> DEFINE q == M.sus
    <3>1. q \in Seq(Struct) /\ Len(q) = 0
      BY <1>1
    <3> HIDE DEF q
    <3> QED
      BY <3>1, TypesFacts DEF q
  <2>2. Heap(M) = h
    BY HeapIs
  <2> HIDE DEF h
  <2>3. h = <<>>
    BY <2>1, EmptySeq
  <2> QED
    BY <2>2, <2>3
<1>7. LS!Init
  <2>1. LS!FileFrame = FileFrame
    BY DEF LS!FileFrame, LS!Frame, FileFrame, Frame, LS!NoTag, LS!NoName, NoTag, NoName
  <2> QED
    BY <1>1, <1>5, <1>6, <2>1, SameConstructs DEF LS!Init
<1>8. Extra(M, ctx)
  <2>1. Len(ctx) = 1 /\ ctx[1].node = 0 /\ \A i \in 1..Len(ctx) : i = 1
    BY <1>1, <1>3
  <2>2. CtxInv(Len(M.sus), ctx)
    <3>1. \A i \in 1..Len(ctx) : ctx[i].node \in 0..Len(M.sus)
      BY <1>1, <2>1
    <3>2. ListsAtFile(ctx)
      BY <2>1 DEF ListsAtFile
    <3> QED
      BY <3>1, <3>2 DEF CtxInv
  <2>3. \A n \in Idents : M.stack[1].ids[n] = NoEntry
    <3>1. \A n \in Idents : NewScope("file").ids[n] = NoEntry
      BY DEF NewScope
    <3> QED
      BY <1>4, <3>1
  <2>4. ProtoIds(M.stack)
    <3>1. \A k \in 1..Len(M.stack) : k = 1
      BY <1>4
    <3> QED
      BY <2>3, <3>1 DEF ProtoIds
  <2> QED
    BY <1>1, <2>2, <2>4 DEF Extra, HoldOnly
<1> QED
  BY <1>2, <1>7, <1>8 DEF RInv, SInv, BInv

LEMMA StepRefines ==
  ASSUME Conforming, RInv, Live, Step PROVE LS!Step /\ Extra(M', ctx')
<1> DEFINE Done == LS!Step /\ Extra(M', ctx')
<1>1. ASSUME NEW sc \in StorageClasses, Scalar(sc) PROVE Done
  BY <1>1, ScalarRefines DEF LS!Step
<1>2. ASSUME NEW sc \in StorageClasses, NEW tag \in Tags, StructReference(tag, sc) PROVE Done
  BY <1>2, StructReferenceRefines DEF LS!Step
<1>3. ASSUME NEW sc \in StorageClasses, NEW tag \in TagNames, OpenStruct(tag, sc) PROVE Done
  BY <1>3, OpenStructRefines, SameConstructs DEF LS!Step
<1>4. ASSUME NEW n \in Idents \cup Members, NEW inner \in BOOLEAN, NEW star \in BOOLEAN,
             Name(n, inner, star)
      PROVE  Done
  BY <1>4, NameRefines DEF LS!Step
<1>5. ASSUME NEW star \in BOOLEAN, OmitName(star) PROVE Done
  BY <1>5, OmitNameRefines DEF LS!Step
<1>6. ASSUME NEW more \in BOOLEAN, Declarator(more) PROVE Done
  BY <1>6, DeclaratorRefines DEF LS!Step
<1>7. CASE CloseStruct
  BY <1>7, CloseStructRefines DEF LS!Step
<1>8. CASE OpenParams
  BY <1>8, OpenParamsRefines DEF LS!Step
<1>9. CASE CloseParams
  BY <1>9, CloseParamsRefines DEF LS!Step
<1>10. CASE EmptyParams
  BY <1>10, EmptyParamsRefines DEF LS!Step
<1>11. CASE EmptyDeclaration
  BY <1>11, EmptyDeclarationRefines DEF LS!Step
<1>12. CASE BeginBody
  BY <1>12, BeginBodyRefines DEF LS!Step
<1>13. CASE WholeBody
  BY <1>13, WholeBodyRefines DEF LS!Step
<1>14. CASE BeginBlock
  BY <1>14, BeginBlockRefines DEF LS!Step
<1>15. CASE EndBlock
  BY <1>15, EndBlockRefines DEF LS!Step
<1>16. CASE BeginFor
  BY <1>16, BeginForRefines DEF LS!Step
<1>17. CASE SimpleStmt
  BY <1>17, SimpleStmtRefines DEF LS!Step
<1>18. CASE FinishFor
  BY <1>18, FinishForRefines DEF LS!Step
<1> HIDE DEF Done
<1>19. /\ (\E sc \in StorageClasses : Scalar(sc)) => Done
       /\ (\E sc \in StorageClasses, tag \in Tags : StructReference(tag, sc)) => Done
       /\ (\E sc \in StorageClasses, tag \in TagNames : OpenStruct(tag, sc)) => Done
  BY <1>1, <1>2, <1>3
<1>20. /\ (\E n \in Idents \cup Members, inner, star \in BOOLEAN : Name(n, inner, star)) => Done
       /\ (\E star \in BOOLEAN : OmitName(star)) => Done
       /\ (\E more \in BOOLEAN : Declarator(more)) => Done
  BY <1>4, <1>5, <1>6
<1> QED
  BY <1>7, <1>8, <1>9, <1>10, <1>11, <1>12, <1>13, <1>14, <1>15, <1>16, <1>17, <1>18,
     <1>19, <1>20 DEF Step, Done

LEMMA NextRefines ==
  ASSUME Conforming PROVE RInv /\ [Next]_vars => RInv' /\ [LS!Next]_(LS!vars)
<1> SUFFICES ASSUME RInv, [Next]_vars PROVE RInv' /\ [LS!Next]_(LS!vars)
  OBVIOUS
<1>1. CASE Live /\ Step
  <2>1. LS!Step /\ Extra(M', ctx')
    BY <1>1, StepRefines
  <2>2. OneList /\ SInv /\ BInv
    BY DEF Conforming, OneList, RInv, SInv, BInv
  <2>3. IInv'
    BY <2>2, NextInv DEF SInv
  <2>4. StructInv(M', ctx')
    BY <2>2, NextStructs DEF StructStep
  <2>5. OwnInv(M', ctx')
    BY <1>1, <2>2, StepOwn
  <2>6. LS!Next
    BY <1>1, <2>1, SameConstructs DEF LS!Next, Live
  <2> QED
    BY <2>1, <2>3, <2>4, <2>5, <2>6 DEF RInv, SInv
<1>2. CASE UNCHANGED vars
  <2>1. M' = M /\ ctx' = ctx
    BY <1>2 DEF vars
  <2>2. UNCHANGED LS!vars
    BY <2>1 DEF LS!vars
  <2>3. RInv'
    BY <2>1 DEF RInv, SInv, IInv, TypeOK, NoInternalError
  <2> QED
    BY <2>2, <2>3
<1> QED
  BY <1>1, <1>2 DEF Next, Exited

(* The compiler is correct about names: for every program, of any size and *)
(* nesting, the scope stack of scope.c with its held prototype and is_fndef *)
(* flag, and the struct stack of structunion.c, give at each semantic      *)
(* action the scopes, the struct types and the verdict of C's rules, so    *)
(* that a declaration, a tag and a function body mean what C says.  The    *)
(* hypotheses are on the programs: a declarator has one parameter list, no *)
(* abstract declarator is a function, no struct is defined inside one of   *)
(* its own tag, no member outside functions is a function pointer, and no  *)
(* parameter has its function's name.  Elsewhere the code departs from C.  *)
THEOREM ScopingRefined ==
  ASSUME MaxLists <= 1, ~AbstractFns, ~NestedSameTag, ~FnPtrMembers, ~ParamNamedAsFn
  PROVE  Spec => LexicalScoping
<1>1. Conforming
  BY DEF Conforming
<1>2. Init => LS!Init /\ RInv
  BY InitRefines
<1>3. RInv /\ [Next]_vars => RInv' /\ [LS!Next]_(LS!vars)
  BY <1>1, NextRefines
<1> QED
  BY <1>2, <1>3, PTL DEF Spec, LS!Spec, LexicalScoping
=============================================================================
