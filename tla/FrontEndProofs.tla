--------------------------- MODULE FrontEndProofs ---------------------------
(***************************************************************************)
(* The struct types of structunion.c and the scopes of function bodies,    *)
(* for all programs.  su_decl_stack holds the structs whose braces are     *)
(* open, and a complete struct is never changed again.  The scope of a     *)
(* body is the one its own parameters were declared in, in programs whose  *)
(* declarators have one parameter list at most and whose abstract          *)
(* declarators have none.                                                  *)
(***************************************************************************)
EXTENDS TranslateProofs, FiniteSetTheorems

-----------------------------------------------------------------------------
(* Structs *)

(* The position on su_decl_stack of the i-th construct, if it is a struct *)
Level(c, i) == Cardinality(StructsUpTo(c, i))

(* The stack of structs is that of the open braces. *)
DeclsMatch(S, c) ==
  /\ Len(S.decls) = Level(c, Len(c))
  /\ \A i \in 1..Len(c) : c[i].kind = "su" => S.decls[Level(c, i)] = c[i].node

DefiningOpen(S) ==
  \A s \in 1..Len(S.sus) :
    S.sus[s].defining => \E i \in 1..Len(S.decls) : S.decls[i] = s

(* The struct stack and the tag tables hold structs that were created. *)
NodesKnown(S) ==
  /\ \A i \in 1..Len(S.decls) : S.decls[i] \in 1..Len(S.sus)
  /\ \A l \in 1..Len(S.stack), t \in TagNames : S.stack[l].tags[t] \in 0..Len(S.sus)

CompleteDone(S) ==
  \A s \in 1..Len(S.sus) : S.sus[s].complete => ~S.sus[s].defining

(* A struct goes by one tag, in whatever scopes it is found, ... *)
TagsUnique(S) ==
  \A k, l \in 1..Len(S.stack), t, u \in TagNames :
    S.stack[k].tags[t] = S.stack[l].tags[u] /\ S.stack[k].tags[t] # Absent => t = u

(* ... which is the tag of the braces it is being defined in. *)
TagsOfOpen(S, c) ==
  \A i \in 1..Len(c), l \in 1..Len(S.stack), t \in TagNames :
    c[i].kind = "su" /\ S.stack[l].tags[t] = c[i].node /\ c[i].node # Absent
      => t = c[i].tag

(* The structs whose braces are open are different and not complete. *)
OpenIncomplete(S, c) ==
  /\ \A i \in 1..Len(c) : c[i].kind = "su" => ~S.sus[c[i].node].complete
  /\ \A i, j \in 1..Len(c) :
       c[i].kind = "su" /\ c[j].kind = "su" /\ c[i].node = c[j].node => i = j

StructInv(S, c) ==
  /\ DeclsMatch(S, c) /\ DefiningOpen(S) /\ NodesKnown(S) /\ CompleteDone(S)
  /\ TagsUnique(S) /\ TagsOfOpen(S, c)
  /\ ~NestedSameTag => OpenIncomplete(S, c)

-----------------------------------------------------------------------------
(* Counting the open structs *)

LEMMA LevelType ==
  ASSUME NEW c, NEW i \in Nat
  PROVE  IsFiniteSet(StructsUpTo(c, i)) /\ Level(c, i) \in Nat
<1>1. IsFiniteSet(1..i)
  BY FS_Interval
<1>2. StructsUpTo(c, i) \in SUBSET (1..i)
  BY DEF StructsUpTo
<1>3. IsFiniteSet(StructsUpTo(c, i))
  BY <1>1, <1>2, FS_Subset
<1> QED
  BY <1>3, FS_CardinalityType DEF Level

LEMMA LevelSame ==
  ASSUME NEW c, NEW d, NEW i, \A j \in 1..i : d[j].kind = "su" <=> c[j].kind = "su"
  PROVE  Level(d, i) = Level(c, i)
<1>1. StructsUpTo(d, i) = StructsUpTo(c, i)
  BY DEF StructsUpTo
<1> QED
  BY <1>1 DEF Level

LEMMA LevelNext ==
  ASSUME NEW c, NEW i \in Nat
  PROVE  Level(c, i + 1) = Level(c, i) + (IF c[i + 1].kind = "su" THEN 1 ELSE 0)
<1>1. IsFiniteSet(StructsUpTo(c, i)) /\ Level(c, i) \in Nat
  BY LevelType
<1>2. i + 1 \notin StructsUpTo(c, i)
  BY DEF StructsUpTo
<1>3. CASE c[i + 1].kind = "su"
  <2>1. StructsUpTo(c, i + 1) = StructsUpTo(c, i) \cup {i + 1}
    BY <1>3 DEF StructsUpTo
  <2> QED
    BY <1>1, <1>2, <1>3, <2>1, FS_AddElement DEF Level
<1>4. CASE c[i + 1].kind # "su"
  <2>1. StructsUpTo(c, i + 1) = StructsUpTo(c, i)
    BY <1>4 DEF StructsUpTo
  <2> QED
    BY <1>1, <1>4, <2>1 DEF Level
<1> QED
  BY <1>3, <1>4

LEMMA LevelMonotone ==
  ASSUME NEW c, NEW i \in Nat, NEW j \in Nat, i <= j
  PROVE  Level(c, i) <= Level(c, j)
<1>1. StructsUpTo(c, i) \in SUBSET StructsUpTo(c, j)
  BY DEF StructsUpTo
<1> QED
  BY <1>1, LevelType, FS_Subset DEF Level

(* Open structs have different positions, all on the stack. *)
LEMMA LevelOrder ==
  ASSUME NEW c, NEW j \in Nat, NEW i \in 1..j, c[i].kind = "su"
  PROVE  Level(c, i) \in 1..Level(c, j)
<1>1. i - 1 \in Nat /\ i \in Nat /\ (i - 1) + 1 = i /\ i <= j
  OBVIOUS
<1>2. Level(c, i) = Level(c, i - 1) + 1
  BY <1>1, LevelNext
<1>3. Level(c, i - 1) \in Nat /\ Level(c, i) \in Nat /\ Level(c, j) \in Nat
  BY <1>1, LevelType
<1>4. Level(c, i) <= Level(c, j)
  BY <1>1, LevelMonotone
<1> QED
  BY <1>2, <1>3, <1>4

LEMMA LevelBefore ==
  ASSUME NEW c, NEW j \in Nat, NEW i \in 1..j - 1, c[i].kind = "su", c[j].kind = "su"
  PROVE  Level(c, i) \in 1..Level(c, j) - 1
<1>1. j - 1 \in Nat /\ i \in 1..j - 1 /\ (j - 1) + 1 = j
  OBVIOUS
<1>2. Level(c, j) = Level(c, j - 1) + 1 /\ Level(c, j - 1) \in Nat
  BY <1>1, LevelNext, LevelType
<1>3. Level(c, i) \in 1..Level(c, j - 1)
  BY <1>1, LevelOrder
<1> QED
  BY <1>2, <1>3

(* The structs open in d are those open in c. *)
SameOpen(d, c) ==
  /\ Level(d, Len(d)) = Level(c, Len(c))
  /\ \A i \in 1..Len(d) : d[i].kind = "su" =>
       /\ i \in 1..Len(c) /\ c[i].kind = "su" /\ Level(d, i) = Level(c, i)
       /\ d[i].node = c[i].node /\ d[i].tag = c[i].tag

LEMMA SameOpenSelf == ASSUME NEW c PROVE SameOpen(c, c)
  BY DEF SameOpen

LEMMA SameOpenTransitive ==
  ASSUME NEW c, NEW d, NEW e, SameOpen(d, c), SameOpen(e, d) PROVE SameOpen(e, c)
  BY DEF SameOpen

LEMMA SameOpenPush ==
  ASSUME NEW c \in Seq(Frames), NEW f \in Frames, f.kind # "su"
  PROVE  SameOpen(Append(c, f), c)
<1> DEFINE d == Append(c, f)
           n == Len(c)
<1>1. /\ Len(d) = n + 1 /\ n \in Nat /\ d[n + 1] = f
      /\ \A k \in 1..n : d[k] = c[k]
  BY AppendFacts, LenProperties
<1>2. n = Len(c)
  OBVIOUS
<1> HIDE DEF d, n
<1>3. ASSUME NEW i \in 0..n PROVE Level(d, i) = Level(c, i)
  <2>1. \A j \in 1..i : j \in 1..n
    BY <1>1
  <2> QED
    BY <1>1, <2>1, LevelSame
<1>4. Level(d, n + 1) = Level(d, n) + 0 /\ Level(d, n) \in Nat
  BY <1>1, LevelNext, LevelType
<1>5. Level(d, n + 1) = Level(c, n)
  BY <1>1, <1>3, <1>4
<1>6. \A i \in 1..n + 1 : i = n + 1 \/ (i \in 1..n /\ i \in 0..n)
  BY <1>1
<1> QED
  BY <1>1, <1>2, <1>3, <1>5, <1>6 DEF SameOpen, d

LEMMA SameOpenDrop ==
  ASSUME NEW c \in Seq(Frames), Len(c) # 0, Top(c).kind # "su"
  PROVE  SameOpen(Front(c), c)
<1> DEFINE d == Front(c)
           n == Len(c)
<1>1. /\ Len(d) = n - 1 /\ n \in Nat /\ n # 0 /\ c[n].kind # "su"
      /\ \A k \in 1..n - 1 : d[k] = c[k]
  BY FrontFacts, LenProperties DEF Top
<1>2. n = Len(c)
  OBVIOUS
<1> HIDE DEF d, n
<1>3. ASSUME NEW i \in 0..n - 1 PROVE Level(d, i) = Level(c, i)
  <2>1. \A j \in 1..i : j \in 1..n - 1
    BY <1>1
  <2> QED
    BY <1>1, <2>1, LevelSame
<1>4. n - 1 \in Nat /\ (n - 1) + 1 = n /\ n - 1 \in 0..n - 1
      /\ \A i \in 1..n - 1 : i \in 0..n - 1 /\ i \in 1..n
  BY <1>1
<1>5. Level(c, n) = Level(c, n - 1) + 0 /\ Level(c, n - 1) \in Nat
  <2>1. Level(c, (n - 1) + 1) = Level(c, n - 1) + 0
    BY <1>1, <1>4, LevelNext
  <2> QED
    BY <1>4, <2>1, LevelType
<1>6. Level(c, n) = Level(d, n - 1)
  BY <1>3, <1>4, <1>5
<1> QED
  BY <1>1, <1>2, <1>3, <1>4, <1>6 DEF SameOpen, d

LEMMA SameOpenSwap ==
  ASSUME NEW c \in Seq(Frames), Len(c) # 0, NEW f \in Frames,
         f.kind = Top(c).kind, f.node = Top(c).node, f.tag = Top(c).tag
  PROVE  SameOpen(ReplaceTop(c, f), c)
<1> DEFINE d == ReplaceTop(c, f)
           n == Len(c)
<1>1. /\ Len(d) = n /\ n \in Nat /\ n # 0
      /\ \A k \in 1..n : d[k] = IF k = n THEN f ELSE c[k]
  BY ExceptSeq, LenProperties DEF ReplaceTop
<1>2. n = Len(c)
  OBVIOUS
<1> HIDE DEF d, n
<1>3. \A k \in 1..n : d[k].kind = c[k].kind /\ d[k].node = c[k].node /\ d[k].tag = c[k].tag
  BY <1>1, <1>2 DEF Top
<1>4. ASSUME NEW i \in 1..n PROVE Level(d, i) = Level(c, i)
  <2>1. \A j \in 1..i : j \in 1..n
    BY <1>1
  <2> QED
    BY <1>3, <2>1, LevelSame
<1>5. n \in 1..n
  BY <1>1
<1> QED
  BY <1>1, <1>2, <1>3, <1>4, <1>5 DEF SameOpen, d

-----------------------------------------------------------------------------
(* What the handlers leave alone: the structs, and which struct a tag      *)
(* means where it means one.                                               *)
TagFrom(S, t, node) == \E k \in 1..Len(S.stack) : S.stack[k].tags[t] = node

SameTags(S, N) ==
  \A l \in 1..Len(N.stack), t \in TagNames :
    N.stack[l].tags[t] # Absent => TagFrom(S, t, N.stack[l].tags[t])

Untouched(S, N) == N.sus = S.sus /\ N.decls = S.decls /\ SameTags(S, N)

LEMMA UntouchedSelf == ASSUME NEW S PROVE Untouched(S, S)
  BY DEF Untouched, SameTags, TagFrom

LEMMA UntouchedTransitive ==
  ASSUME NEW S, NEW N, NEW P, Untouched(S, N), Untouched(N, P)
  PROVE  Untouched(S, P)
<1>1. P.sus = S.sus /\ P.decls = S.decls
  BY DEF Untouched
<1>2. ASSUME NEW l \in 1..Len(P.stack), NEW t \in TagNames, P.stack[l].tags[t] # Absent
      PROVE  TagFrom(S, t, P.stack[l].tags[t])
  <2>1. PICK k \in 1..Len(N.stack) : N.stack[k].tags[t] = P.stack[l].tags[t]
    BY <1>2 DEF Untouched, SameTags, TagFrom
  <2> QED
    BY <1>2, <2>1 DEF Untouched, SameTags
<1> QED
  BY <1>1, <1>2 DEF Untouched, SameTags

(* The scopes are there with the same tags, but for one new or one gone. *)
LEMMA SameTables ==
  ASSUME NEW S, NEW N, N.sus = S.sus, N.decls = S.decls,
         \A l \in 1..Len(N.stack) :
           \/ l \in 1..Len(S.stack) /\ N.stack[l].tags = S.stack[l].tags
           \/ \A t \in TagNames : N.stack[l].tags[t] = Absent
  PROVE  Untouched(S, N)
  BY DEF Untouched, SameTags, TagFrom

LEMMA RetypeUntouched ==
  ASSUME NEW S \in State, NEW l \in 1..Len(S.stack), NEW type \in ScopeTypes,
         NEW R, R = [S EXCEPT !.stack[l].type = type]
  PROVE  Untouched(S, R)
<1> DEFINE e == [S.stack[l] EXCEPT !.type = type]
           s == [S.stack EXCEPT ![l] = e]
<1>1. S.stack \in Seq(Scopes) /\ S.stack[l] \in Scopes
  BY ElementOfSeq DEF State
<1>2. e \in Scopes /\ e.tags = S.stack[l].tags
  BY <1>1 DEF Scopes
<1>3. /\ Len(s) = Len(S.stack)
      /\ \A k \in 1..Len(S.stack) : s[k] = IF k = l THEN e ELSE S.stack[k]
  BY <1>1, <1>2, ExceptSeq
<1>4. R.stack = s /\ R.sus = S.sus /\ R.decls = S.decls
  BY DEF State
<1> HIDE DEF s, e
<1>5. \A k \in 1..Len(R.stack) : k \in 1..Len(S.stack) /\ R.stack[k].tags = S.stack[k].tags
  BY <1>2, <1>3, <1>4
<1> QED
  BY <1>4, <1>5, SameTables

LEMMA FrontUntouched ==
  ASSUME NEW S \in State, Len(S.stack) # 0, NEW N,
         N.stack = Front(S.stack), N.sus = S.sus, N.decls = S.decls
  PROVE  Untouched(S, N)
<1> DEFINE n == Len(S.stack)
<1>1. /\ Len(N.stack) = n - 1 /\ n \in Nat
      /\ \A k \in 1..n - 1 : N.stack[k] = S.stack[k]
  BY FrontFacts, LenProperties DEF State
<1>2. n = Len(S.stack) /\ \A k \in 1..n - 1 : k \in 1..n
  BY <1>1
<1> HIDE DEF n
<1> QED
  BY <1>1, <1>2, SameTables

LEMMA AppendUntouched ==
  ASSUME NEW S \in State, NEW type \in ScopeTypes, NEW N,
         N.stack = Append(S.stack, NewScope(type)), N.sus = S.sus, N.decls = S.decls
  PROVE  Untouched(S, N)
<1> DEFINE n == Len(S.stack)
<1>1. NewScope(type) \in Scopes /\ \A t \in TagNames : NewScope(type).tags[t] = Absent
  BY NewScopeType DEF NewScope
<1>2. /\ Len(N.stack) = n + 1 /\ n \in Nat /\ N.stack[n + 1] = NewScope(type)
      /\ \A k \in 1..n : N.stack[k] = S.stack[k]
  BY <1>1, AppendFacts, LenProperties DEF State
<1>3. n = Len(S.stack) /\ \A k \in 1..n + 1 : k = n + 1 \/ k \in 1..n
  BY <1>2
<1> HIDE DEF n
<1> QED
  BY <1>1, <1>2, <1>3, SameTables

LEMMA ClearUntouched ==
  ASSUME NEW S, Ready(S), S.hold PROVE Untouched(S, clear_held(S))
<1> DEFINE R == [S EXCEPT !.stack[2].type = "file"]
           C == clear_held(S)
<1>1. Len(S.stack) = 2 /\ S \in State
  BY DEF Ready, StackOK
<1>2. R \in State /\ Len(R.stack) = 2 /\ R.stack[2].type = "file" /\ Untouched(S, R)
  BY <1>1, Retype, RetypeUntouched DEF ScopeTypes
<1> HIDE DEF R
<1>3. C = [R EXCEPT !.stack = Front(R.stack), !.hold = FALSE]
  <2>1. scope_pop(R) = [R EXCEPT !.stack = Front(R.stack)]
    BY <1>2 DEF scope_pop, current
  <2> QED
    BY <1>1, <2>1 DEF clear_held, current, R
<1>4. C.stack = Front(R.stack) /\ C.sus = R.sus /\ C.decls = R.decls
  BY <1>2, <1>3 DEF State
<1> QED
  BY <1>2, <1>4, FrontUntouched, UntouchedTransitive

LEMMA PushUntouched ==
  ASSUME NEW S, Ready(S), NEW type \in ScopeTypes
  PROVE  Untouched(S, scope_push(S, type))
<1> DEFINE R == IF S.hold THEN clear_held(S) ELSE S
           N == scope_push(S, type)
<1>1. Untouched(S, R) /\ R \in State /\ R.fatal = Running
  BY ClearHeld, ClearUntouched, UntouchedSelf DEF Ready, Keeps, Stays
<1>2. N = [R EXCEPT !.stack = Append(R.stack, NewScope(type))]
  BY <1>1 DEF scope_push, After
<1> HIDE DEF R
<1>3. /\ N.stack = Append(R.stack, NewScope(type))
      /\ N.sus = R.sus /\ N.decls = R.decls
  BY <1>1, <1>2 DEF State
<1> QED
  BY <1>1, <1>3, AppendUntouched, UntouchedTransitive

LEMMA AutoUntouched ==
  ASSUME NEW S, Ready(S) PROVE Untouched(S, scope_push_auto(S))
<1> DEFINE R == [S EXCEPT !.stack[2].type = "func"]
           N == scope_push_auto(S)
<1>1. S \in State
  BY DEF Ready
<1>2. CASE Len(S.stack) = 2 /\ S.hold
  <2>1. R \in State /\ Untouched(S, R)
    BY <1>1, <1>2, Retype, RetypeUntouched DEF ScopeTypes
  <2>2. N = [R EXCEPT !.hold = FALSE, !.prev = Params(S.stack[2])]
    BY <1>2 DEF scope_push_auto, current
  <2> HIDE DEF R
  <2>3. N.stack = R.stack /\ N.sus = R.sus /\ N.decls = R.decls
    BY <2>1, <2>2 DEF State
  <2>4. Untouched(R, N)
    BY <2>3, SameTables
  <2> QED
    BY <2>1, <2>4, UntouchedTransitive
<1>3. CASE ~(Len(S.stack) = 2 /\ S.hold)
  <2>1. N = [S EXCEPT !.stack = Append(S.stack, NewScope("block"))]
    BY <1>3 DEF scope_push_auto, current
  <2>2. N.stack = Append(S.stack, NewScope("block")) /\ N.sus = S.sus /\ N.decls = S.decls
    BY <1>1, <2>1 DEF State
  <2> QED
    BY <1>1, <2>2, AppendUntouched DEF ScopeTypes
<1> QED
  BY <1>2, <1>3

LEMMA PopUntouched ==
  ASSUME NEW S \in State, Len(S.stack) \notin {0, 1} PROVE Untouched(S, scope_pop(S))
<1> DEFINE N == scope_pop(S)
<1>1. CASE Len(S.stack) = 2 /\ S.stack[2].type = "proto"
  <2>1. N = [S EXCEPT !.hold = TRUE]
    BY <1>1 DEF scope_pop, current
  <2>2. N.stack = S.stack /\ N.sus = S.sus /\ N.decls = S.decls
    BY <2>1 DEF State
  <2> QED
    BY <2>2, SameTables
<1>2. CASE ~(Len(S.stack) = 2 /\ S.stack[2].type = "proto")
  <2>1. N = [S EXCEPT !.stack = Front(S.stack)]
    BY <1>2 DEF scope_pop, current
  <2>2. N.stack = Front(S.stack) /\ N.sus = S.sus /\ N.decls = S.decls
    BY <2>1 DEF State
  <2> QED
    BY <2>2, FrontUntouched
<1> QED
  BY <1>1, <1>2

LEMMA DummyUntouched ==
  ASSUME NEW S, Ready(S)
  PROVE  Untouched(S, scope_pop(scope_push(S, "structunion")))
<1> DEFINE R == IF S.hold THEN clear_held(S) ELSE S
           P == [R EXCEPT !.stack = Append(R.stack, NewScope("structunion"))]
<1>1. R \in State /\ R.fatal = Running /\ Len(R.stack) # 0
  BY ClearHeld DEF Ready, Keeps, Stays, StackOK
<1>2. scope_push(S, "structunion") = P
  BY <1>1 DEF scope_push, After
<1>3. Untouched(S, P)
  BY <1>2, PushUntouched DEF ScopeTypes
<1> HIDE DEF R
<1>4. NewScope("structunion") \in Scopes
  BY NewScopeType DEF ScopeTypes
<1>5. P \in State /\ Len(P.stack) = Len(R.stack) + 1
  <2>1. R.stack \in Seq(Scopes)
    BY <1>1 DEF State
  <2>2. Append(R.stack, NewScope("structunion")) \in Seq(Scopes)
    BY <1>4, <2>1, AppendFacts
  <2>3. P \in State
    BY <1>1, <2>2 DEF State
  <2>4. P.stack = Append(R.stack, NewScope("structunion"))
    BY <1>1 DEF State
  <2> QED
    BY <1>4, <2>1, <2>3, <2>4, AppendFacts
<1>6. Len(P.stack) \notin {0, 1}
  BY <1>1, <1>5, LenProperties DEF State
<1> HIDE DEF P
<1> QED
  BY <1>2, <1>3, <1>5, <1>6, PopUntouched, UntouchedTransitive

-----------------------------------------------------------------------------
(* Identifiers have tables of their own. *)

LEMMA PutUntouched ==
  ASSUME NEW S \in State, NEW l \in 1..Len(S.stack), NEW n, NEW e \in Entry
  PROVE  Untouched(S, PutId(S, l, n, e))
<1> DEFINE N == PutId(S, l, n, e)
           d == [S.stack[l] EXCEPT !.ids[n] = e]
           s == [S.stack EXCEPT ![l] = d]
<1>1. S.stack[l] \in Scopes /\ S.stack \in Seq(Scopes)
  BY ElementOfSeq DEF State
<1>2. d \in Scopes /\ d.tags = S.stack[l].tags
  BY <1>1 DEF Scopes
<1>3. N.stack = s /\ N.sus = S.sus /\ N.decls = S.decls
  BY DEF State, PutId
<1>4. /\ Len(s) = Len(S.stack)
      /\ \A k \in 1..Len(S.stack) : s[k] = IF k = l THEN d ELSE S.stack[k]
  BY <1>1, <1>2, ExceptSeq
<1> HIDE DEF d, N, s
<1> QED
  BY <1>2, <1>3, <1>4, SameTables DEF N

LEMMA InsertStateUntouched ==
  ASSUME NEW S, Ready(S) PROVE Untouched(S, insert_state(S))
  BY ClearUntouched, UntouchedSelf DEF insert_state

(* scope_insert of an identifier, with is_fndef set or not *)
LEMMA InsertIdUntouched ==
  ASSUME NEW S, NEW n, NEW sc, NEW e \in Entry,
         NEW R \in State, R = insert_state(S), R.fatal = Running,
         Untouched(S, R), insert_level(S) \in 1..Len(R.stack),
         NEW I, I = scope_insert_id(S, n, sc, e), I.fatal = Running
  PROVE  Untouched(S, I)
<1> DEFINE l == insert_level(S)
           F == [R EXCEPT !.fndef = FALSE]
           P == PutId(F, l, n, e)
<1>1. F \in State /\ F.stack = R.stack /\ Untouched(R, F)
  <2>1. F \in State /\ F.stack = R.stack /\ F.sus = R.sus /\ F.decls = R.decls
    BY DEF State
  <2> QED
    BY <2>1, SameTables
<1>2. [R EXCEPT !.stack[l].ids[n] = e, !.fndef = FALSE] = P
  BY DEF State, PutId
<1>3. Fatal(R, "symbol already exists in symbol table").fatal # Running
  BY DEF Fatal, State, Running
<1>4. I = F \/ I = P
  BY <1>2, <1>3 DEF scope_insert_id, After
<1> HIDE DEF F
<1>5. Untouched(F, P)
  BY <1>1, PutUntouched
<1> HIDE DEF P
<1> QED
  BY <1>1, <1>4, <1>5, UntouchedTransitive

LEMMA InstallEntryUntouched ==
  ASSUME NEW S, Ready(S), NEW l \in 1..Len(S.stack), NEW n,
         NEW sc \in {"none", "extern", "static"}, NEW is_fn,
         NEW N, N = install_entry(S, l, n, sc, is_fn), N.fatal = Running
  PROVE  Untouched(S, N)
<1> DEFINE e == [sc |-> default_sc(S, n, sc), proto |-> S.stack[l].type = "proto"]
           E == PutId(S, l, n, e)
<1>1. e \in Entry
  BY DEF Entry, default_sc
<1>2. S \in State
  BY DEF Ready
<1> HIDE DEF e
<1>3. Untouched(S, E)
  BY <1>1, <1>2, PutUntouched
<1>4. N = Fatal(E, "null function scope") \/ N = E
  BY DEF install_entry, PutId, e
<1>5. Fatal(E, "null function scope").fatal # Running
  BY <1>2 DEF Fatal, PutId, State, Running
<1> QED
  BY <1>3, <1>4, <1>5

LEMMA InstallUntouched ==
  ASSUME NEW S, Ready(S), NEW n, NEW sc \in {"none", "extern", "static"},
         NEW is_fn, NEW node, NEW behind,
         NEW N, N = decl_install(S, n, sc, is_fn, node, behind), N.fatal = Running
  PROVE  Untouched(S, N)
<1> DEFINE F == decl_finalize(S, node, behind)
           d == [sc |-> sc, proto |-> FALSE]
           I == scope_insert_id(S, n, sc, d)
           R == insert_state(S)
<1>1. S \in State /\ S.fatal = Running /\ Checked(S, F)
  BY FinalizeChecks DEF Ready
<1>2. F = S
  BY <1>1 DEF decl_install, Checked, After
<1>3. d \in Entry
  BY DEF Entry
<1> HIDE DEF d
<1>4. /\ Keeps(S, I)
      /\ I.fatal = Running => insert_level(S) = Len(I.stack)
  BY <1>3, InsertId
<1>5. /\ R \in State /\ R.fatal = Running /\ Untouched(S, R)
      /\ insert_level(S) \in 1..Len(R.stack)
  BY InsertState, InsertStateUntouched DEF Keeps, Stays, Ready
<1>6. N = IF is_redeclaration(S, n, sc) \/ I.fatal # Running THEN I
          ELSE install_entry(I, insert_level(S), n, sc, is_fn)
  BY <1>1, <1>2 DEF decl_install, After, d
<1> HIDE DEF I
<1>7. I.fatal = Running
  BY <1>6
<1>8. Untouched(S, I)
  BY <1>3, <1>5, <1>7, InsertIdUntouched DEF I
<1>9. CASE N = install_entry(I, insert_level(S), n, sc, is_fn)
  <2>1. Ready(I)
    BY <1>4, <1>7 DEF Keeps, Stays, I
  <2>2. insert_level(S) \in 1..Len(I.stack)
    <3>1. Len(I.stack) \in Nat /\ Len(I.stack) # 0
      BY <2>1, LenProperties DEF Ready, StackOK, State
    <3>2. Len(I.stack) \in 1..Len(I.stack)
      BY ONLY <3>1
    <3> QED
      BY <3>2, <1>4, <1>7 DEF I
  <2>3. Untouched(I, N)
    BY <1>9, <2>1, <2>2, InstallEntryUntouched
  <2> QED
    BY <1>8, <2>3, UntouchedTransitive
<1> QED
  BY <1>6, <1>8, <1>9

LEMMA InstallDefinedUntouched ==
  ASSUME NEW S, Ready(S), NEW n, NEW sc \in {"none", "extern", "static"},
         NEW is_fn, NEW node, NEW behind,
         NEW N, N = decl_install(scope_set_fndef(S), n, sc, is_fn, node, behind),
         N.fatal = Running
  PROVE  Untouched(S, N)
<1> DEFINE D == scope_set_fndef(S)
           F == decl_finalize(D, node, behind)
           d == [sc |-> sc, proto |-> FALSE]
           I == scope_insert_id(D, n, sc, d)
<1>1. /\ D \in State /\ D.fatal = Running /\ D.fndef /\ D.stack = S.stack
      /\ Untouched(S, D) /\ 1 \in 1..Len(D.stack)
  <2>1. /\ D \in State /\ D.fatal = Running /\ D.fndef /\ D.stack = S.stack
        /\ D.sus = S.sus /\ D.decls = S.decls
    BY DEF scope_set_fndef, Ready, State
  <2>2. Len(S.stack) \in Nat /\ Len(S.stack) # 0
    BY LenProperties DEF Ready, StackOK, State
  <2>3. 1 \in 1..Len(S.stack)
    BY ONLY <2>2
  <2> QED
    BY <2>1, <2>3, SameTables
<1>2. Checked(D, F)
  BY <1>1, FatalSound DEF Checked, decl_finalize, ProgramErrors
<1>3. F = D
  BY <1>1, <1>2 DEF decl_install, Checked, After
<1>4. d \in Entry
  BY DEF Entry
<1> HIDE DEF d
<1>5. Keeps(S, I) /\ insert_level(D) = 1
  BY <1>4, InsertFunction
<1>6. insert_state(D) = D
  BY <1>1 DEF insert_state
<1>7. N = IF is_redeclaration(D, n, sc) \/ I.fatal # Running THEN I
          ELSE install_entry(I, 1, n, sc, is_fn)
  BY <1>1, <1>3, <1>5 DEF decl_install, After, d
<1> HIDE DEF I, D
<1>8. I.fatal = Running
  BY <1>7
<1>9. Untouched(S, I)
  <2>1. Untouched(D, I)
    BY <1>1, <1>4, <1>5, <1>6, <1>8, UntouchedSelf, InsertIdUntouched DEF I
  <2> QED
    BY <1>1, <2>1, UntouchedTransitive
<1>10. CASE N = install_entry(I, 1, n, sc, is_fn)
  <2>1. Ready(I)
    BY <1>5, <1>8 DEF Keeps, Stays, I
  <2>2. 1 \in 1..Len(I.stack)
    <3>1. Len(I.stack) \in Nat /\ Len(I.stack) # 0
      BY <2>1, LenProperties DEF Ready, StackOK, State
    <3> QED
      BY ONLY <3>1
  <2>3. Untouched(I, N)
    BY <1>10, <2>1, <2>2, InstallEntryUntouched
  <2> QED
    BY <1>9, <2>3, UntouchedTransitive
<1> QED
  BY <1>7, <1>9, <1>10

-----------------------------------------------------------------------------
(* What the handlers of structunion.c change *)

(* N has at most one tag more than S, t for the struct node. *)
TagAdded(S, N, t, node) ==
  \A l \in 1..Len(N.stack), u \in TagNames :
    N.stack[l].tags[u] # Absent =>
      TagFrom(S, u, N.stack[l].tags[u]) \/ (u = t /\ N.stack[l].tags[u] = node)

LEMMA InsertTagAdds ==
  ASSUME NEW S, Ready(S), NEW t \in TagNames, NEW node \in Nat,
         NEW N, N = scope_insert_tag(S, t, node), N.fatal = Running
  PROVE  N.sus = S.sus /\ N.decls = S.decls /\ TagAdded(S, N, t, node)
<1> DEFINE R == insert_state(S)
           l == Len(R.stack)
           e == [R.stack[l] EXCEPT !.tags[t] = node]
           s == [R.stack EXCEPT ![l] = e]
<1>1. /\ R \in State /\ R.fatal = Running /\ l \in 1..Len(R.stack)
      /\ insert_level(S) = l /\ Untouched(S, R)
  BY InsertState, InsertStateUntouched DEF Keeps, Stays, Ready
<1>2. N = Fatal(R, "symbol already exists in symbol table")
        \/ N = [R EXCEPT !.stack[l].tags[t] = node, !.fndef = FALSE]
  BY <1>1 DEF scope_insert_tag, After
<1> HIDE DEF R, l
<1>3. N = [R EXCEPT !.stack[l].tags[t] = node, !.fndef = FALSE]
  BY <1>1, <1>2 DEF Fatal, State, Running
<1>4. R.stack \in Seq(Scopes) /\ R.stack[l] \in Scopes
  BY <1>1, ElementOfSeq DEF State
<1>5. e \in Scopes /\ \A u \in TagNames : e.tags[u] = IF u = t THEN node ELSE R.stack[l].tags[u]
  BY <1>4 DEF Scopes
<1>6. N.stack = s /\ N.sus = R.sus /\ N.decls = R.decls
  BY <1>1, <1>3 DEF State
<1>7. /\ Len(s) = Len(R.stack)
      /\ \A k \in 1..Len(R.stack) : s[k] = IF k = l THEN e ELSE R.stack[k]
  BY <1>1, <1>4, <1>5, ExceptSeq
<1> HIDE DEF e, s
<1>8. TagAdded(S, N, t, node)
  <2> SUFFICES ASSUME NEW k \in 1..Len(N.stack), NEW u \in TagNames,
                      N.stack[k].tags[u] # Absent, ~(u = t /\ N.stack[k].tags[u] = node)
               PROVE  TagFrom(S, u, N.stack[k].tags[u])
    BY DEF TagAdded
  <2>1. k \in 1..Len(R.stack) /\ N.stack[k].tags[u] = R.stack[k].tags[u]
    BY <1>5, <1>6, <1>7
  <2> QED
    BY <1>1, <2>1 DEF Untouched, SameTags
<1> QED
  BY <1>1, <1>6, <1>8 DEF Untouched

(* A new struct, on the stack and under its tag *)
Created(S, N, tag, defining) ==
  /\ N.sus = Append(S.sus, NewStruct(defining))
  /\ N.decls = Append(S.decls, Len(S.sus) + 1)
  /\ TagAdded(S, N, tag, Len(S.sus) + 1)

LEMMA KeepNewCreates ==
  ASSUME NEW S, Ready(S), NEW tag \in TagNames, NEW defining \in BOOLEAN,
         NEW N, N = KeepNew(S, tag, defining), N.fatal = Running
  PROVE  Created(S, N, tag, defining)
<1> DEFINE su == NewStruct(defining)
           d == Len(S.sus) + 1
           P == [S EXCEPT !.sus = Append(S.sus, su), !.decls = Append(S.decls, d)]
<1>1. S \in State /\ S.sus \in Seq(Struct) /\ S.decls \in Seq(Nat) /\ su \in Struct
  BY DEF Ready, State, Struct, NewStruct
<1>2. d \in Nat
  BY <1>1, LenProperties
<1> HIDE DEF su
<1>3. /\ Append(S.sus, su) \in Seq(Struct) /\ Len(Append(S.sus, su)) = d
      /\ Append(S.decls, d) \in Seq(Nat)
  BY <1>1, <1>2, AppendFacts
<1> HIDE DEF d
<1>4. /\ P \in State /\ P.stack = S.stack /\ P.hold = S.hold /\ P.fndef = S.fndef
      /\ P.fatal = S.fatal /\ P.decls = Append(S.decls, d)
      /\ P.sus = Append(S.sus, su)
  BY <1>1, <1>3 DEF State
<1>5. N = IF tag = Untagged /\ defining THEN P ELSE scope_insert_tag(P, tag, Len(P.sus))
  BY DEF KeepNew, su, d
<1> HIDE DEF P
<1>6. Ready(P)
  BY <1>4, ChangeStructs DEF Keeps, Stays, Ready
<1>7. ASSUME N = P PROVE TagAdded(S, N, tag, d)
  BY <1>4, <1>7 DEF TagAdded, TagFrom
<1>8. ASSUME N = scope_insert_tag(P, tag, d)
      PROVE  N.sus = P.sus /\ N.decls = P.decls /\ TagAdded(S, N, tag, d)
  <2>1. N.sus = P.sus /\ N.decls = P.decls /\ TagAdded(P, N, tag, d)
    BY <1>2, <1>6, <1>8, InsertTagAdds
  <2> QED
    BY <1>4, <2>1 DEF TagAdded, TagFrom
<1> QED
  BY <1>3, <1>4, <1>5, <1>7, <1>8 DEF Created, su, d

LEMMA InnermostIn ==
  ASSUME NEW C, Innermost(C) # 0 PROVE Innermost(C) \in C
<1>1. \E i \in C : IsInnermost(i, C)
  BY DEF Innermost
<1> QED
  BY <1>1 DEF Innermost

LEMMA LookupTag ==
  ASSUME NEW S, NEW tag, scope_lookup_tag(S, tag) # Absent
  PROVE  TagFrom(S, tag, scope_lookup_tag(S, tag))
<1> DEFINE C == {i \in 1..Len(S.stack) : S.stack[i].tags[tag] # Absent}
           k == get_scope_tag(S, tag)
<1>1. k = Innermost(C) /\ k # 0 /\ scope_lookup_tag(S, tag) = S.stack[k].tags[tag]
  BY DEF get_scope_tag, current, scope_lookup_tag, Absent
<1>2. C \subseteq 1..Len(S.stack)
  OBVIOUS
<1> HIDE DEF C, k
<1>3. k \in C
  BY <1>1, InnermostIn
<1> QED
  BY <1>1, <1>2, <1>3 DEF TagFrom

Marked(su, begin_def) == [su EXCEPT !.defining = begin_def]

(* The struct that a tag stands for, on the stack again *)
Entered(S, N, tag, begin_def) ==
  \E node : 
    /\ tag # Untagged /\ node # Absent /\ TagFrom(S, tag, node)
    /\ N.stack = S.stack /\ N.decls = Append(S.decls, node)
    /\ \/ ~begin_def /\ N.sus = S.sus
       \/ /\ N.sus = [S.sus EXCEPT ![node] = Marked(@, begin_def)]
          /\ begin_def => ~S.sus[node].complete /\ ~S.sus[node].defining

LEMMA SetNameEnters ==
  ASSUME NEW S, Ready(S), NEW tag \in TagNames, NEW begin_def \in BOOLEAN,
         NEW N, N = structunion_set_name(S, tag, begin_def), N.fatal = Running
  PROVE  Created(S, N, tag, begin_def) \/ Entered(S, N, tag, begin_def)
<1> DEFINE node == IF tag = Untagged THEN Absent ELSE scope_lookup_tag(S, tag)
           D == [S EXCEPT !.decls = Append(S.decls, node)]
           E == [S EXCEPT !.decls = Append(S.decls, node),
                          !.sus[node].defining = begin_def]
<1>1. S \in State
  BY DEF Ready
<1>2. \A why : why # Running => Fatal(S, why).fatal # Running
  BY <1>1 DEF Fatal, State
<1>3. \/ N = KeepNew(S, tag, begin_def)
      \/ N = D /\ node # Absent /\ ~begin_def
      \/ /\ N = E /\ node # Absent
         /\ begin_def => ~S.sus[node].complete /\ ~S.sus[node].defining
  <2>1. "struct/union redefinition" # Running /\ "nested struct/union redefinition" # Running
    BY DEF Running
  <2> QED
    BY <1>2, <2>1 DEF structunion_set_name
<1>4. CASE N = KeepNew(S, tag, begin_def)
  BY <1>4, KeepNewCreates
<1>5. ASSUME node # Absent PROVE tag # Untagged /\ TagFrom(S, tag, node)
  BY <1>5, LookupTag
<1> HIDE DEF node
<1>6. /\ D.stack = S.stack /\ D.decls = Append(S.decls, node) /\ D.sus = S.sus
      /\ E.stack = S.stack /\ E.decls = Append(S.decls, node)
      /\ E.sus = [S.sus EXCEPT ![node] = Marked(@, begin_def)]
  BY <1>1 DEF State, Marked
<1> QED
  BY <1>3, <1>4, <1>5, <1>6 DEF Entered

Completed(su) == [su EXCEPT !.defining = FALSE, !.complete = TRUE]

LEMMA DoneLeaves ==
  ASSUME NEW S, Ready(S), NEW is_complete \in BOOLEAN,
         NEW N, N = structunion_done(S, is_complete)
  PROVE  /\ N.decls = Front(S.decls) /\ SameTags(S, N)
         /\ N.sus = IF is_complete
                    THEN [S.sus EXCEPT ![TopStruct(S)] = Completed(@)] ELSE S.sus
<1> DEFINE su == TopStruct(S)
           P == IF S.sus[su].defining /\ is_complete
                THEN scope_pop(scope_push(S, "structunion")) ELSE S
           Q == IF is_complete
                THEN [P EXCEPT !.sus[su].defining = FALSE, !.sus[su].complete = TRUE]
                ELSE P
<1>1. Untouched(S, P) /\ P \in State /\ P.fatal = Running
  BY DummyScope, DummyUntouched, UntouchedSelf DEF Ready, Keeps, Stays
<1>2. N = [Q EXCEPT !.decls = Front(Q.decls)]
  <2> HIDE DEF P
  <2> QED
    BY <1>1 DEF structunion_done, After, P
<1> HIDE DEF P, su
<1>3. /\ Q.stack = P.stack /\ Q.decls = P.decls
      /\ Q.sus = IF is_complete THEN [P.sus EXCEPT ![su] = Completed(@)] ELSE P.sus
  BY <1>1 DEF State, Completed
<1>4. DOMAIN Q = DOMAIN P
  OBVIOUS
<1> HIDE DEF Q
<1>5. N.stack = Q.stack /\ N.sus = Q.sus /\ N.decls = Front(Q.decls)
  BY <1>1, <1>2, <1>4 DEF State
<1> QED
  BY <1>1, <1>3, <1>5 DEF Untouched, SameTags, su

WithMember(su, ident) == [su EXCEPT !.members = @ \cup {ident}]

LEMMA MemberAdds ==
  ASSUME NEW S, Ready(S), NEW ident, NEW node, NEW behind,
         NEW N, N = structunion_install_member(S, ident, node, behind), N.fatal = Running
  PROVE  /\ N.stack = S.stack /\ N.decls = S.decls
         /\ N.sus = [S.sus EXCEPT ![TopStruct(S)] = WithMember(@, ident)]
<1> DEFINE F == decl_finalize(S, node, behind)
           su == TopStruct(S)
<1>1. S \in State /\ S.fatal = Running /\ Checked(S, F)
  BY FinalizeChecks DEF Ready
<1>2. F = S
  BY <1>1 DEF structunion_install_member, Checked, After
<1>3. N = Fatal(S, "duplicate member") \/ N = [S EXCEPT !.sus[su].members = @ \cup {ident}]
  BY <1>1, <1>2 DEF structunion_install_member, After
<1>4. Fatal(S, "duplicate member").fatal # Running
  BY <1>1 DEF Fatal, State, Running
<1> HIDE DEF su
<1> QED
  BY <1>1, <1>3, <1>4 DEF State, su, WithMember

-----------------------------------------------------------------------------
(* The invariant through each kind of change *)

LEMMA NodeOfOpen ==
  ASSUME NEW S, NEW c, Len(c) \in Nat, DeclsMatch(S, c), NodesKnown(S),
         NEW i \in 1..Len(c), c[i].kind = "su"
  PROVE  /\ Level(c, i) \in 1..Len(S.decls) /\ S.decls[Level(c, i)] = c[i].node
         /\ c[i].node \in 1..Len(S.sus)
<1>1. Level(c, i) \in 1..Level(c, Len(c))
  BY LevelOrder
<1> QED
  BY <1>1 DEF DeclsMatch, NodesKnown

(* No struct is completed, and none is marked as being defined. *)
Milder(S, N) ==
  /\ Len(N.sus) = Len(S.sus)
  /\ \A s \in 1..Len(S.sus) :
       /\ N.sus[s].complete = S.sus[s].complete
       /\ N.sus[s].defining => S.sus[s].defining

(* What the inherited tags say of the structs carries over. *)
LEMMA TagsUniqueKept ==
  ASSUME NEW S, NEW N, TagsUnique(S), SameTags(S, N)
  PROVE  TagsUnique(N)
<1> SUFFICES ASSUME NEW k \in 1..Len(N.stack), NEW l \in 1..Len(N.stack),
                    NEW t \in TagNames, NEW u \in TagNames,
                    N.stack[k].tags[t] = N.stack[l].tags[u], N.stack[k].tags[t] # Absent
             PROVE  t = u
  BY DEF TagsUnique
<1>1. PICK i \in 1..Len(S.stack) : S.stack[i].tags[t] = N.stack[k].tags[t]
  BY DEF SameTags, TagFrom
<1>2. PICK j \in 1..Len(S.stack) : S.stack[j].tags[u] = N.stack[k].tags[t]
  BY DEF SameTags, TagFrom
<1> QED
  BY <1>1, <1>2 DEF TagsUnique

LEMMA TagKnown ==
  ASSUME NEW S, NEW t \in TagNames, NEW node, NodesKnown(S), TagFrom(S, t, node)
  PROVE  node \in 0..Len(S.sus)
<1>1. PICK k \in 1..Len(S.stack) : S.stack[k].tags[t] = node
  BY DEF TagFrom
<1> QED
  BY <1>1 DEF NodesKnown

LEMMA KeptInv ==
  ASSUME NEW S, NEW N, NEW c, NEW d, Len(c) \in Nat, StructInv(S, c), SameOpen(d, c),
         N.decls = S.decls, SameTags(S, N), Milder(S, N)
  PROVE  StructInv(N, d)
<1>1. DeclsMatch(N, d)
  BY DEF StructInv, DeclsMatch, SameOpen
<1>2. DefiningOpen(N) /\ CompleteDone(N)
  <2>1. DefiningOpen(S) /\ CompleteDone(S)
    BY DEF StructInv
  <2>2. DefiningOpen(N)
    BY <2>1 DEF DefiningOpen, Milder
  <2>3. CompleteDone(N)
    BY <2>1 DEF CompleteDone, Milder
  <2> QED
    BY <2>2, <2>3
<1>3. NodesKnown(N)
  <2>1. ASSUME NEW l \in 1..Len(N.stack), NEW t \in TagNames
        PROVE  N.stack[l].tags[t] \in 0..Len(N.sus)
    <3>1. CASE N.stack[l].tags[t] = Absent
      BY <3>1 DEF Absent
    <3>2. CASE N.stack[l].tags[t] # Absent
      <4>1. TagFrom(S, t, N.stack[l].tags[t]) /\ NodesKnown(S)
        BY <3>2 DEF SameTags, StructInv
      <4> QED
        BY <4>1, TagKnown DEF Milder
    <3> QED
      BY <3>1, <3>2
  <2> QED
    BY <2>1 DEF StructInv, NodesKnown, Milder
<1>4. TagsUnique(N)
  BY TagsUniqueKept DEF StructInv
<1>5. TagsOfOpen(N, d)
  <2> SUFFICES ASSUME NEW i \in 1..Len(d), NEW l \in 1..Len(N.stack), NEW t \in TagNames,
                      d[i].kind = "su", N.stack[l].tags[t] = d[i].node, d[i].node # Absent
               PROVE  t = d[i].tag
    BY DEF TagsOfOpen
  <2>1. i \in 1..Len(c) /\ c[i].kind = "su" /\ d[i].node = c[i].node /\ d[i].tag = c[i].tag
    BY DEF SameOpen
  <2>2. PICK k \in 1..Len(S.stack) : S.stack[k].tags[t] = d[i].node
    BY DEF SameTags, TagFrom
  <2> QED
    BY <2>1, <2>2 DEF StructInv, TagsOfOpen
<1>6. ASSUME ~NestedSameTag PROVE OpenIncomplete(N, d)
  <2>1. \A i \in 1..Len(c) : c[i].kind = "su" => c[i].node \in 1..Len(S.sus)
    BY NodeOfOpen DEF StructInv
  <2>2. OpenIncomplete(S, c)
    BY <1>6 DEF StructInv
  <2> QED
    BY <2>1, <2>2 DEF OpenIncomplete, SameOpen, Milder
<1> QED
  BY <1>1, <1>2, <1>3, <1>4, <1>5, <1>6 DEF StructInv

LEMMA UntouchedInv ==
  ASSUME NEW S, NEW N, NEW c, NEW d, Len(c) \in Nat, StructInv(S, c), SameOpen(d, c),
         Untouched(S, N)
  PROVE  StructInv(N, d)
<1>1. N.decls = S.decls /\ SameTags(S, N) /\ Milder(S, N)
  BY DEF Untouched, Milder
<1> QED
  BY <1>1, KeptInv

(* A change of one struct *)
LEMMA OneStruct ==
  ASSUME NEW S \in State, NEW k, NEW e \in Struct, NEW s, s = [S.sus EXCEPT ![k] = e]
  PROVE  /\ Len(s) = Len(S.sus)
         /\ \A i \in 1..Len(S.sus) : s[i] = IF i = k THEN e ELSE S.sus[i]
<1>1. S.sus \in Seq(Struct) /\ DOMAIN S.sus = 1..Len(S.sus)
  <2>1. S.sus \in Seq(Struct)
    BY DEF State
  <2> QED
    BY <2>1, LenProperties
<1>2. CASE k \in 1..Len(S.sus)
  BY <1>1, <1>2, ExceptSeq
<1>3. CASE k \notin 1..Len(S.sus)
  <2>1. s = S.sus
    BY <1>1, <1>3
  <2> QED
    BY <1>3, <2>1
<1> QED
  BY <1>2, <1>3

(* A new struct that is not being defined: a reference, which takes it off  *)
(* the stack again, and "struct tag ;"                                     *)
LEMMA DeclaredInv ==
  ASSUME NEW S \in State, NEW N, NEW c, NEW d, NEW tag, Len(c) \in Nat,
         StructInv(S, c), SameOpen(d, c),
         N.decls = S.decls, N.sus = Append(S.sus, NewStruct(FALSE)),
         TagAdded(S, N, tag, Len(S.sus) + 1)
  PROVE  StructInv(N, d)
<1> DEFINE m == Len(S.sus)
           su == NewStruct(FALSE)
<1>1. /\ m \in Nat /\ S.sus \in Seq(Struct) /\ su \in Struct /\ ~su.complete /\ ~su.defining
      /\ N.sus = Append(S.sus, su)
  BY LenProperties DEF State, NewStruct, Struct
<1> HIDE DEF su
<1>2. /\ Len(N.sus) = m + 1 /\ N.sus[m + 1] = su
      /\ \A s \in 1..m : N.sus[s] = S.sus[s]
  <2>1. /\ Len(Append(S.sus, su)) = m + 1 /\ Append(S.sus, su)[m + 1] = su
        /\ \A s \in 1..m : Append(S.sus, su)[s] = S.sus[s]
    BY <1>1, AppendFacts
  <2> QED
    BY ONLY <1>1, <2>1
<1>3. m = Len(S.sus) /\ \A s \in 1..m + 1 : s = m + 1 \/ s \in 1..m
  BY <1>1
<1> HIDE DEF m
<1>4. ASSUME NEW l \in 1..Len(N.stack), NEW t \in TagNames, N.stack[l].tags[t] # Absent
      PROVE  \/ /\ N.stack[l].tags[t] \in 1..m
                /\ TagFrom(S, t, N.stack[l].tags[t])
             \/ t = tag /\ N.stack[l].tags[t] = m + 1
  <2>1. CASE TagFrom(S, t, N.stack[l].tags[t])
    <3>1. N.stack[l].tags[t] \in 0..m
      BY <1>3, <2>1 DEF TagFrom, StructInv, NodesKnown
    <3> QED
      BY <1>1, <1>4, <2>1, <3>1 DEF Absent
  <2>2. CASE t = tag /\ N.stack[l].tags[t] = m + 1
    BY <2>2
  <2> QED
    BY <1>3, <1>4, <2>1, <2>2 DEF TagAdded
<1>5. \A i \in 1..Len(c) : c[i].kind = "su" => c[i].node \in 1..m /\ c[i].node # m + 1
  BY <1>1, <1>3, NodeOfOpen DEF StructInv
<1>6. DeclsMatch(N, d)
  BY DEF StructInv, DeclsMatch, SameOpen
<1>7. DefiningOpen(N) /\ CompleteDone(N)
  <2>1. DefiningOpen(S) /\ CompleteDone(S)
    BY DEF StructInv
  <2>2. DefiningOpen(N)
    <3>1. ASSUME NEW s \in 1..Len(N.sus), N.sus[s].defining
          PROVE  \E i \in 1..Len(S.decls) : S.decls[i] = s
      <4>1. s \in 1..m
        BY <1>1, <1>2, <1>3, <3>1
      <4>2. S.sus[s].defining
        BY <1>2, <3>1, <4>1
      <4> QED
        BY <1>3, <2>1, <4>1, <4>2 DEF DefiningOpen
    <3> QED
      BY <3>1 DEF DefiningOpen
  <2>3. CompleteDone(N)
    BY <1>1, <1>2, <1>3, <2>1 DEF CompleteDone
  <2> QED
    BY <2>2, <2>3
<1>8. NodesKnown(N)
  <2>1. \A x \in 0..m : x \in 0..m + 1
    BY <1>1
  <2>2. m + 1 \in 0..m + 1 /\ 0 \in 0..m + 1
    BY <1>1
  <2>3. \A x \in 1..m : x \in 1..m + 1 /\ x \in 0..m + 1
    BY <1>1
  <2> QED
    BY <1>2, <1>3, <1>4, <2>1, <2>2, <2>3 DEF NodesKnown, StructInv, Absent
<1>9. TagsUnique(N)
  <2> SUFFICES ASSUME NEW k \in 1..Len(N.stack), NEW l \in 1..Len(N.stack),
                      NEW t \in TagNames, NEW u \in TagNames,
                      N.stack[k].tags[t] = N.stack[l].tags[u], N.stack[k].tags[t] # Absent
               PROVE  t = u
    BY DEF TagsUnique
  <2>1. CASE N.stack[k].tags[t] = m + 1
    <3>1. m + 1 \notin 1..m
      BY <1>1
    <3> QED
      BY <1>4, <2>1, <3>1
  <2>2. CASE N.stack[k].tags[t] # m + 1
    <3>1. TagFrom(S, t, N.stack[k].tags[t]) /\ TagFrom(S, u, N.stack[k].tags[t])
      BY <1>4, <2>2
    <3>2. PICK i \in 1..Len(S.stack) : S.stack[i].tags[t] = N.stack[k].tags[t]
      BY <3>1 DEF TagFrom
    <3>3. PICK j \in 1..Len(S.stack) : S.stack[j].tags[u] = N.stack[k].tags[t]
      BY <3>1 DEF TagFrom
    <3> QED
      BY <3>2, <3>3 DEF StructInv, TagsUnique
  <2> QED
    BY <2>1, <2>2
<1>10. TagsOfOpen(N, d)
  <2> SUFFICES ASSUME NEW i \in 1..Len(d), NEW l \in 1..Len(N.stack), NEW t \in TagNames,
                      d[i].kind = "su", N.stack[l].tags[t] = d[i].node, d[i].node # Absent
               PROVE  t = d[i].tag
    BY DEF TagsOfOpen
  <2>1. /\ i \in 1..Len(c) /\ c[i].kind = "su" /\ d[i].node = c[i].node
        /\ d[i].tag = c[i].tag
    BY DEF SameOpen
  <2>2. TagFrom(S, t, c[i].node)
    BY <1>4, <1>5, <2>1
  <2> QED
    BY <2>1, <2>2 DEF TagFrom, StructInv, TagsOfOpen
<1>11. ASSUME ~NestedSameTag PROVE OpenIncomplete(N, d)
  <2>1. OpenIncomplete(S, c)
    BY <1>11 DEF StructInv
  <2>2. \A i \in 1..Len(c) : c[i].kind = "su" => N.sus[c[i].node] = S.sus[c[i].node]
    BY ONLY <1>2, <1>5
  <2>3. ASSUME NEW i \in 1..Len(d), d[i].kind = "su" PROVE ~N.sus[d[i].node].complete
    <3>1. i \in 1..Len(c) /\ c[i].kind = "su" /\ d[i].node = c[i].node
      BY <2>3 DEF SameOpen
    <3> QED
      BY <2>1, <2>2, <3>1 DEF OpenIncomplete
  <2>4. \A i, j \in 1..Len(d) :
          d[i].kind = "su" /\ d[j].kind = "su" /\ d[i].node = d[j].node => i = j
    BY <2>1 DEF OpenIncomplete, SameOpen
  <2> QED
    BY <2>3, <2>4 DEF OpenIncomplete
<1> QED
  BY <1>6, <1>7, <1>8, <1>9, <1>10, <1>11 DEF StructInv

LEMMA PushStruct ==
  ASSUME NEW c \in Seq(Frames), NEW f \in Frames, f.kind = "su"
  PROVE  LET d == Append(c, f)
             n == Len(c)
         IN  /\ n \in Nat /\ Len(d) = n + 1 /\ d[n + 1] = f
             /\ Level(c, n) \in Nat /\ Level(d, n + 1) = Level(c, n) + 1
             /\ \A i \in 1..n : d[i] = c[i] /\ Level(d, i) = Level(c, i)
             /\ \A i \in 1..n + 1 : i \in 1..n \/ i = n + 1
<1> DEFINE d == Append(c, f)
           n == Len(c)
<1>1. /\ Len(d) = n + 1 /\ n \in Nat /\ d[n + 1] = f
      /\ \A k \in 1..n : d[k] = c[k]
  BY AppendFacts, LenProperties
<1> HIDE DEF d, n
<1>2. ASSUME NEW i \in 0..n PROVE Level(d, i) = Level(c, i)
  <2>1. \A j \in 1..i : j \in 1..n
    BY <1>1
  <2> QED
    BY <1>1, <2>1, LevelSame
<1>3. Level(d, n + 1) = Level(d, n) + 1 /\ Level(c, n) \in Nat
  BY <1>1, LevelNext, LevelType
<1>4. n \in 0..n /\ \A i \in 1..n : i \in 0..n
  BY <1>1
<1>5. \A i \in 1..n + 1 : i \in 1..n \/ i = n + 1
  BY <1>1
<1> QED
  BY <1>1, <1>2, <1>3, <1>4, <1>5 DEF d, n

(* '{' of a struct: its node, new or found, goes on the stack. *)
LEMMA MatchPushed ==
  ASSUME NEW S \in State, NEW N, NEW node \in Nat, N.decls = Append(S.decls, node),
         NEW c \in Seq(Frames), DeclsMatch(S, c),
         NEW f \in Frames, f.kind = "su", f.node = TopStruct(N)
  PROVE  /\ DeclsMatch(N, Append(c, f)) /\ f.node = node
         /\ \A i \in 1..Len(S.decls) : i \in 1..Len(N.decls) /\ N.decls[i] = S.decls[i]
         /\ \E i \in 1..Len(N.decls) : N.decls[i] = node
         /\ \A i \in 1..Len(N.decls) :
              N.decls[i] = node \/ (i \in 1..Len(S.decls) /\ N.decls[i] = S.decls[i])
<1> DEFINE d == Append(c, f)
           n == Len(c)
           q == Len(S.decls)
<1>1. /\ n \in Nat /\ Len(d) = n + 1 /\ d[n + 1] = f
      /\ Level(c, n) \in Nat /\ Level(d, n + 1) = Level(c, n) + 1
      /\ \A i \in 1..n : d[i] = c[i] /\ Level(d, i) = Level(c, i)
      /\ \A i \in 1..n + 1 : i \in 1..n \/ i = n + 1
  BY PushStruct
<1>2. /\ q \in Nat /\ Len(N.decls) = q + 1 /\ N.decls[q + 1] = node
      /\ \A k \in 1..q : N.decls[k] = S.decls[k]
  <2>1. S.decls \in Seq(Nat)
    BY DEF State
  <2>2. /\ Len(Append(S.decls, node)) = q + 1 /\ Append(S.decls, node)[q + 1] = node
        /\ \A k \in 1..q : Append(S.decls, node)[k] = S.decls[k]
    BY <2>1, AppendFacts
  <2>3. q \in Nat
    BY <2>1, LenProperties
  <2> QED
    BY ONLY <2>2, <2>3, N.decls = Append(S.decls, node)
<1>3. n = Len(c) /\ q = Len(S.decls) /\ d = Append(c, f)
  OBVIOUS
<1> HIDE DEF d, n, q
<1>4. f.node = node
  BY <1>2 DEF TopStruct, Last
<1>5. q = Level(c, n)
  BY <1>3 DEF DeclsMatch
<1>6. ASSUME NEW i \in 1..n, c[i].kind = "su" PROVE N.decls[Level(c, i)] = c[i].node
  <2>1. Level(c, i) \in 1..q
    BY <1>1, <1>5, <1>6, LevelOrder
  <2>2. S.decls[Level(c, i)] = c[i].node
    BY <1>3, <1>6 DEF DeclsMatch
  <2> QED
    BY <1>2, <2>1, <2>2
<1>7. DeclsMatch(N, d)
  BY <1>1, <1>2, <1>4, <1>5, <1>6 DEF DeclsMatch
<1>8. \A i \in 1..q : i \in 1..q + 1
  BY <1>2
<1>9. q + 1 \in 1..q + 1 /\ \A i \in 1..q + 1 : i = q + 1 \/ i \in 1..q
  BY <1>2
<1> QED
  BY <1>2, <1>3, <1>4, <1>7, <1>8, <1>9

LEMMA OpenNewInv ==
  ASSUME NEW S \in State, NEW N, NEW tag, Created(S, N, tag, TRUE),
         NEW c \in Seq(Frames), StructInv(S, c),
         NEW f \in Frames, f.kind = "su", f.node = TopStruct(N), f.tag = tag
  PROVE  StructInv(N, Append(c, f))
<1> DEFINE d == Append(c, f)
           n == Len(c)
           m == Len(S.sus)
           su == NewStruct(TRUE)
<1>1. m \in Nat /\ su \in Struct /\ ~su.complete /\ su.defining
  BY LenProperties DEF State, NewStruct, Struct
<1>2. N.sus = Append(S.sus, su) /\ N.decls = Append(S.decls, m + 1) /\ TagAdded(S, N, tag, m + 1)
  BY DEF Created
<1> HIDE DEF su
<1>3. /\ Len(N.sus) = m + 1 /\ N.sus[m + 1] = su
      /\ \A s \in 1..m : N.sus[s] = S.sus[s]
  <2>1. /\ Len(Append(S.sus, su)) = m + 1 /\ Append(S.sus, su)[m + 1] = su
        /\ \A s \in 1..m : Append(S.sus, su)[s] = S.sus[s]
    BY <1>1, AppendFacts DEF State
  <2> QED
    BY ONLY <1>2, <2>1
<1>4. /\ n \in Nat /\ Len(d) = n + 1 /\ d[n + 1] = f
      /\ \A i \in 1..n : d[i] = c[i]
      /\ \A i \in 1..n + 1 : i \in 1..n \/ i = n + 1
  BY PushStruct
<1>5. /\ m = Len(S.sus) /\ n = Len(c) /\ m + 1 \in Nat /\ m + 1 # 0
      /\ \A s \in 1..m + 1 : s = m + 1 \/ s \in 1..m
  BY <1>1
<1>6. /\ DeclsMatch(N, d) /\ f.node = m + 1
      /\ \A i \in 1..Len(S.decls) : i \in 1..Len(N.decls) /\ N.decls[i] = S.decls[i]
      /\ \E i \in 1..Len(N.decls) : N.decls[i] = m + 1
      /\ \A i \in 1..Len(N.decls) :
           N.decls[i] = m + 1 \/ (i \in 1..Len(S.decls) /\ N.decls[i] = S.decls[i])
  <2> DEFINE q == m + 1
  <2>1. q \in Nat /\ N.decls = Append(S.decls, q) /\ DeclsMatch(S, c)
    BY <1>2, <1>5 DEF StructInv
  <2> HIDE DEF q
  <2>2. /\ DeclsMatch(N, d) /\ f.node = q
        /\ \A i \in 1..Len(S.decls) : i \in 1..Len(N.decls) /\ N.decls[i] = S.decls[i]
        /\ \E i \in 1..Len(N.decls) : N.decls[i] = q
        /\ \A i \in 1..Len(N.decls) :
             N.decls[i] = q \/ (i \in 1..Len(S.decls) /\ N.decls[i] = S.decls[i])
    BY <2>1, MatchPushed
  <2> QED
    BY <2>2 DEF q
<1> HIDE DEF m, d, n
<1>7. ASSUME NEW l \in 1..Len(N.stack), NEW t \in TagNames, N.stack[l].tags[t] # Absent
      PROVE  \/ /\ N.stack[l].tags[t] \in 1..m /\ N.stack[l].tags[t] # m + 1
                /\ TagFrom(S, t, N.stack[l].tags[t])
             \/ t = tag /\ N.stack[l].tags[t] = m + 1
  <2>1. CASE TagFrom(S, t, N.stack[l].tags[t])
    <3>1. N.stack[l].tags[t] \in 0..m
      BY <1>5, <2>1 DEF TagFrom, StructInv, NodesKnown
    <3> QED
      BY <1>1, <1>7, <2>1, <3>1 DEF Absent
  <2>2. CASE t = tag /\ N.stack[l].tags[t] = m + 1
    BY <2>2
  <2> QED
    BY <1>2, <1>7, <2>1, <2>2 DEF TagAdded
<1>8. \A i \in 1..n : c[i].kind = "su" => c[i].node \in 1..m /\ c[i].node # m + 1
  BY <1>1, <1>4, <1>5, NodeOfOpen DEF StructInv
<1>9. DefiningOpen(N) /\ CompleteDone(N)
  <2>1. ASSUME NEW s \in 1..Len(N.sus)
        PROVE  /\ N.sus[s].defining => \E i \in 1..Len(N.decls) : N.decls[i] = s
               /\ N.sus[s].complete => ~N.sus[s].defining
    <3>1. CASE s = m + 1
      BY <1>1, <1>3, <1>6, <3>1
    <3>2. CASE s \in 1..m
      <4>1. N.sus[s] = S.sus[s]
        BY <1>3, <3>2
      <4>2. S.sus[s].complete => ~S.sus[s].defining
        BY <1>5, <3>2 DEF StructInv, CompleteDone
      <4>3. ASSUME S.sus[s].defining PROVE \E i \in 1..Len(N.decls) : N.decls[i] = s
        <5>1. PICK i \in 1..Len(S.decls) : S.decls[i] = s
          BY <1>5, <3>2, <4>3 DEF StructInv, DefiningOpen
        <5> QED
          BY <1>6, <5>1
      <4> QED
        BY <4>1, <4>2, <4>3
    <3> QED
      BY <1>3, <1>5, <3>1, <3>2
  <2> QED
    BY <2>1 DEF DefiningOpen, CompleteDone
<1>10. NodesKnown(N)
  <2>1. \A x \in 1..m : x \in 1..m + 1 /\ x \in 0..m + 1
    BY <1>1
  <2>2. m + 1 \in 0..m + 1 /\ 0 \in 0..m + 1 /\ m + 1 \in 1..m + 1
    BY <1>1
  <2> QED
    BY <1>3, <1>5, <1>6, <1>7, <2>1, <2>2 DEF NodesKnown, StructInv, Absent
<1>11. TagsUnique(N)
  <2> SUFFICES ASSUME NEW k \in 1..Len(N.stack), NEW l \in 1..Len(N.stack),
                      NEW t \in TagNames, NEW u \in TagNames,
                      N.stack[k].tags[t] = N.stack[l].tags[u], N.stack[k].tags[t] # Absent
               PROVE  t = u
    BY DEF TagsUnique
  <2>1. CASE N.stack[k].tags[t] = m + 1
    BY <1>7, <2>1
  <2>2. CASE N.stack[k].tags[t] # m + 1
    <3>1. TagFrom(S, t, N.stack[k].tags[t]) /\ TagFrom(S, u, N.stack[k].tags[t])
      BY <1>7, <2>2
    <3> QED
      BY <3>1 DEF TagFrom, StructInv, TagsUnique
  <2> QED
    BY <2>1, <2>2
<1>12. TagsOfOpen(N, d)
  <2> SUFFICES ASSUME NEW i \in 1..Len(d), NEW l \in 1..Len(N.stack), NEW t \in TagNames,
                      d[i].kind = "su", N.stack[l].tags[t] = d[i].node, d[i].node # Absent
               PROVE  t = d[i].tag
    BY DEF TagsOfOpen
  <2>1. CASE i = n + 1
    BY <1>4, <1>6, <1>7, <2>1
  <2>2. CASE i \in 1..n
    <3>1. TagFrom(S, t, c[i].node) /\ d[i] = c[i]
      BY <1>4, <1>7, <1>8, <2>2
    <3> QED
      BY <1>5, <2>2, <3>1 DEF TagFrom, StructInv, TagsOfOpen
  <2> QED
    BY <1>4, <2>1, <2>2
<1>13. ASSUME ~NestedSameTag PROVE OpenIncomplete(N, d)
  <2>1. OpenIncomplete(S, c)
    BY <1>13 DEF StructInv
  <2>2. \A i \in 1..n : c[i].kind = "su" => N.sus[c[i].node] = S.sus[c[i].node]
    BY ONLY <1>3, <1>8
  <2>3. \A i \in 1..n : c[i].kind = "su" => ~N.sus[c[i].node].complete
    BY <1>5, <2>1, <2>2 DEF OpenIncomplete
  <2>4. \A i \in 1..n + 1 : d[i].kind = "su" => ~N.sus[d[i].node].complete
    BY <1>1, <1>3, <1>4, <1>6, <2>3
  <2>5. \A i, j \in 1..n + 1 :
          d[i].kind = "su" /\ d[j].kind = "su" /\ d[i].node = d[j].node => i = j
    BY <1>4, <1>5, <1>6, <1>8, <2>1 DEF OpenIncomplete
  <2> QED
    BY <1>4, <2>4, <2>5 DEF OpenIncomplete
<1> QED
  BY <1>6, <1>9, <1>10, <1>11, <1>12, <1>13 DEF StructInv, d

LEMMA OpenFoundInv ==
  ASSUME NEW S \in State, NEW N, NEW tag \in TagNames, Entered(S, N, tag, TRUE),
         NEW c \in Seq(Frames), StructInv(S, c),
         NEW f \in Frames, f.kind = "su", f.node = TopStruct(N), f.tag = tag,
         NestedSameTag \/
           \A i \in 1..Len(c) : ~(c[i].kind = "su" /\ c[i].tag = tag /\ tag # Untagged)
  PROVE  StructInv(N, Append(c, f))
<1> DEFINE d == Append(c, f)
           n == Len(c)
           m == Len(S.sus)
<1>1. PICK node :
        /\ tag # Untagged /\ node # Absent /\ TagFrom(S, tag, node)
        /\ N.stack = S.stack /\ N.decls = Append(S.decls, node)
        /\ N.sus = [S.sus EXCEPT ![node] = Marked(@, TRUE)]
        /\ ~S.sus[node].complete /\ ~S.sus[node].defining
  BY DEF Entered
<1>2. m \in Nat /\ node \in 1..m /\ node \in Nat
  <2>1. node \in 0..m
    BY <1>1 DEF TagFrom, StructInv, NodesKnown
  <2> QED
    BY <1>1, <2>1, LenProperties DEF State, Absent
<1>3. S.sus[node] \in Struct
  BY <1>2, ElementOfSeq DEF State
<1> DEFINE e == Marked(S.sus[node], TRUE)
<1>4. e \in Struct /\ ~e.complete /\ e.defining /\ N.sus = [S.sus EXCEPT ![node] = e]
  BY <1>1, <1>3 DEF Marked, Struct
<1> HIDE DEF e
<1>5. /\ Len(N.sus) = m
      /\ \A i \in 1..m : N.sus[i] = IF i = node THEN e ELSE S.sus[i]
  BY <1>4, OneStruct
<1>6. /\ n \in Nat /\ Len(d) = n + 1 /\ d[n + 1] = f
      /\ \A i \in 1..n : d[i] = c[i]
      /\ \A i \in 1..n + 1 : i \in 1..n \/ i = n + 1
  BY PushStruct
<1>7. /\ DeclsMatch(N, d) /\ f.node = node
      /\ \A i \in 1..Len(S.decls) : i \in 1..Len(N.decls) /\ N.decls[i] = S.decls[i]
      /\ \E i \in 1..Len(N.decls) : N.decls[i] = node
      /\ \A i \in 1..Len(N.decls) :
           N.decls[i] = node \/ (i \in 1..Len(S.decls) /\ N.decls[i] = S.decls[i])
  <2>1. DeclsMatch(S, c)
    BY DEF StructInv
  <2>2. N.decls = Append(S.decls, node)
    BY <1>1
  <2> QED
    BY <1>2, <2>1, <2>2, MatchPushed
<1>8. m = Len(S.sus) /\ n = Len(c)
  OBVIOUS
<1> HIDE DEF m, d, n
<1>9. DefiningOpen(N) /\ CompleteDone(N)
  <2>1. ASSUME NEW s \in 1..Len(N.sus)
        PROVE  /\ N.sus[s].defining => \E i \in 1..Len(N.decls) : N.decls[i] = s
               /\ N.sus[s].complete => ~N.sus[s].defining
    <3>1. CASE s = node
      BY <1>2, <1>4, <1>5, <1>7, <3>1
    <3>2. CASE s # node
      <4>1. N.sus[s] = S.sus[s]
        BY <1>5, <3>2
      <4>2. s \in 1..Len(S.sus)
        BY <1>5, <1>8
      <4>3. S.sus[s].complete => ~S.sus[s].defining
        BY <4>2 DEF StructInv, CompleteDone
      <4>4. ASSUME S.sus[s].defining PROVE \E i \in 1..Len(N.decls) : N.decls[i] = s
        <5>1. PICK i \in 1..Len(S.decls) : S.decls[i] = s
          BY <4>2, <4>4 DEF StructInv, DefiningOpen
        <5> QED
          BY <1>7, <5>1
      <4> QED
        BY <4>1, <4>3, <4>4
    <3> QED
      BY <3>1, <3>2
  <2> QED
    BY <2>1 DEF DefiningOpen, CompleteDone
<1>10. NodesKnown(N)
  BY <1>1, <1>2, <1>5, <1>7, <1>8 DEF NodesKnown, StructInv
<1>11. TagsUnique(N)
  BY <1>1 DEF TagsUnique, StructInv
<1>12. TagsOfOpen(N, d)
  <2> SUFFICES ASSUME NEW i \in 1..Len(d), NEW l \in 1..Len(S.stack), NEW t \in TagNames,
                      d[i].kind = "su", S.stack[l].tags[t] = d[i].node, d[i].node # Absent
               PROVE  t = d[i].tag
    BY <1>1 DEF TagsOfOpen
  <2>1. CASE i = n + 1
    <3>1. PICK k \in 1..Len(S.stack) : S.stack[k].tags[tag] = node
      BY <1>1 DEF TagFrom
    <3> QED
      BY <1>1, <1>6, <1>7, <2>1, <3>1 DEF StructInv, TagsUnique
  <2>2. CASE i \in 1..n
    BY <1>6, <1>8, <2>2 DEF StructInv, TagsOfOpen
  <2> QED
    BY <1>6, <2>1, <2>2
<1>13. ASSUME ~NestedSameTag PROVE OpenIncomplete(N, d)
  <2>1. OpenIncomplete(S, c)
    BY <1>13 DEF StructInv
  <2>2. \A i \in 1..n : c[i].kind = "su" => c[i].node # node
    <3> SUFFICES ASSUME NEW i \in 1..n, c[i].kind = "su", c[i].node = node PROVE FALSE
      OBVIOUS
    <3>1. PICK k \in 1..Len(S.stack) : S.stack[k].tags[tag] = node
      BY <1>1 DEF TagFrom
    <3>2. c[i].tag = tag
      BY <1>1, <1>8, <3>1 DEF StructInv, TagsOfOpen
    <3> QED
      BY <1>1, <1>8, <1>13, <3>2
  <2>3. \A i \in 1..n : c[i].kind = "su" => c[i].node \in 1..m
    BY <1>6, <1>8, NodeOfOpen DEF StructInv
  <2>4. \A i \in 1..n : c[i].kind = "su" => ~N.sus[c[i].node].complete
    BY <1>5, <1>8, <2>1, <2>2, <2>3 DEF OpenIncomplete
  <2>5. \A i \in 1..n + 1 : d[i].kind = "su" => ~N.sus[d[i].node].complete
    BY <1>2, <1>4, <1>5, <1>6, <1>7, <2>4
  <2>6. \A i, j \in 1..n + 1 :
          d[i].kind = "su" /\ d[j].kind = "su" /\ d[i].node = d[j].node => i = j
    <3> SUFFICES ASSUME NEW i \in 1..n + 1, NEW j \in 1..n + 1,
                        d[i].kind = "su", d[j].kind = "su", d[i].node = d[j].node
                 PROVE  i = j
      OBVIOUS
    <3>1. (i \in 1..n \/ i = n + 1) /\ (j \in 1..n \/ j = n + 1)
      BY <1>6
    <3>2. CASE i \in 1..n /\ j \in 1..n
      <4>1. d[i] = c[i] /\ d[j] = c[j]
        BY <1>6, <3>2
      <4> QED
        BY <1>8, <2>1, <3>2, <4>1 DEF OpenIncomplete
    <3>3. CASE i \in 1..n /\ j = n + 1
      BY <1>6, <1>7, <2>2, <3>3
    <3>4. CASE i = n + 1 /\ j \in 1..n
      BY <1>6, <1>7, <2>2, <3>4
    <3> QED
      BY <3>1, <3>2, <3>3, <3>4
  <2> QED
    BY <1>6, <2>5, <2>6 DEF OpenIncomplete
<1> QED
  BY <1>7, <1>9, <1>10, <1>11, <1>12, <1>13 DEF StructInv, d

(* '}' of a struct: the innermost one is complete. *)
LEMMA TopIsInnermost ==
  ASSUME NEW S, NEW c, Len(c) \in Nat, Len(c) # 0, DeclsMatch(S, c), NodesKnown(S),
         Top(c).kind = "su"
  PROVE  /\ Len(S.decls) \in Nat /\ Len(S.decls) # 0
         /\ TopStruct(S) = Top(c).node /\ TopStruct(S) \in 1..Len(S.sus)
<1> DEFINE n == Len(c)
<1>1. n \in 1..n /\ n \in Nat
  OBVIOUS
<1>2. Level(c, n) \in 1..Len(S.decls) /\ S.decls[Level(c, n)] = c[n].node
      /\ c[n].node \in 1..Len(S.sus)
  BY <1>1, NodeOfOpen DEF Top
<1>3. Level(c, n) \in Nat /\ Len(S.decls) = Level(c, n)
  BY <1>1, LevelType DEF DeclsMatch
<1> QED
  BY <1>2, <1>3 DEF TopStruct, Last, Top

LEMMA CloseInv ==
  ASSUME NEW S \in State, NEW N, NEW c \in Seq(Frames), Len(c) # 0, StructInv(S, c),
         Top(c).kind = "su", N.decls = Front(S.decls), SameTags(S, N),
         N.sus = [S.sus EXCEPT ![TopStruct(S)] = Completed(@)]
  PROVE  StructInv(N, Front(c))
<1> DEFINE d == Front(c)
           n == Len(c)
           m == Len(S.sus)
           q == Len(S.decls)
           su == TopStruct(S)
<1>1. n \in Nat /\ n # 0 /\ m \in Nat /\ n \in 1..n
  BY LenProperties DEF State
<1>2. /\ q \in Nat /\ q # 0 /\ su = c[n].node /\ su \in 1..m /\ su = S.decls[q]
      /\ c[n].kind = "su" /\ q = Level(c, n)
  BY <1>1, TopIsInnermost DEF StructInv, Top, TopStruct, Last, DeclsMatch
<1>3. /\ Len(d) = n - 1 /\ \A i \in 1..n - 1 : d[i] = c[i]
      /\ Len(N.decls) = q - 1 /\ \A k \in 1..q - 1 : N.decls[k] = S.decls[k]
  <2>1. c \in Seq(Frames) /\ S.decls \in Seq(Nat)
    BY DEF State
  <2>2. Len(d) = n - 1 /\ \A i \in 1..n - 1 : d[i] = c[i]
    BY <2>1, FrontFacts
  <2>3. N.decls = Front(S.decls) /\ Len(S.decls) # 0
    BY <1>2
  <2>4. Len(N.decls) = q - 1 /\ \A k \in 1..q - 1 : N.decls[k] = S.decls[k]
    <3> HIDE DEF su, m, n, d
    <3> QED
      BY ONLY <2>1, <2>3, FrontFacts DEF q
  <2> QED
    BY <2>2, <2>4
<1>4. S.sus[su] \in Struct /\ Completed(S.sus[su]) \in Struct
      /\ ~Completed(S.sus[su]).defining
  <2>1. S.sus[su] \in Struct
    BY <1>2, ElementOfSeq DEF State
  <2> HIDE DEF su
  <2> QED
    BY <2>1 DEF Completed, Struct
<1>5. /\ Len(N.sus) = m
      /\ \A i \in 1..m : N.sus[i] = IF i = su THEN Completed(S.sus[su]) ELSE S.sus[i]
  BY <1>4, OneStruct
<1>6. m = Len(S.sus) /\ n = Len(c) /\ q = Len(S.decls)
  OBVIOUS
<1> HIDE DEF m, d, n, q, su
<1>7. /\ \A i \in 1..n - 1 : i \in 1..n /\ i # n
      /\ \A k \in 1..q - 1 : k \in 1..q
      /\ \A k \in 1..q : k = q \/ k \in 1..q - 1
      /\ n - 1 \in Nat /\ n - 1 \in 0..n - 1
  BY <1>1, <1>2
<1>8. ASSUME NEW i \in 0..n - 1 PROVE Level(d, i) = Level(c, i)
  <2>1. \A j \in 1..i : j \in 1..n - 1
    BY <1>1
  <2> QED
    BY <1>3, <2>1, LevelSame
<1>9. DeclsMatch(N, d)
  <2>1. Level(c, (n - 1) + 1) = Level(c, n - 1) + 1 /\ Level(c, n - 1) \in Nat /\ (n - 1) + 1 = n
    <3>1. (n - 1) + 1 = n /\ n - 1 \in Nat
      BY <1>1, <1>7
    <3>2. c[(n - 1) + 1].kind = "su"
      BY <1>2, <3>1
    <3>3. Level(c, (n - 1) + 1) = Level(c, n - 1) + 1
      BY <3>1, <3>2, LevelNext
    <3>4. Level(c, n - 1) \in Nat
      BY <3>1, LevelType
    <3> QED
      BY <3>1, <3>3, <3>4
  <2>2. q - 1 = Level(c, n - 1)
    BY <1>2, <2>1
  <2>3. Level(d, n - 1) = q - 1
    BY <1>7, <1>8, <2>2
  <2>4. ASSUME NEW i \in 1..n - 1, c[i].kind = "su"
        PROVE  N.decls[Level(d, i)] = c[i].node
    <3>1. Level(c, i) \in 1..q - 1
      BY <1>1, <1>2, <2>4, LevelBefore
    <3>2. S.decls[Level(c, i)] = c[i].node
      BY <1>6, <1>7, <2>4 DEF StructInv, DeclsMatch
    <3>3. i \in 0..n - 1
      OBVIOUS
    <3> QED
      BY <1>3, <1>8, <3>1, <3>2, <3>3
  <2> QED
    BY <1>3, <2>3, <2>4 DEF DeclsMatch
<1>10. DefiningOpen(N) /\ CompleteDone(N)
  <2>1. ASSUME NEW s \in 1..m
        PROVE  /\ N.sus[s].defining => \E i \in 1..Len(N.decls) : N.decls[i] = s
               /\ N.sus[s].complete => ~N.sus[s].defining
    <3>1. CASE s = su
      BY <1>4, <1>5, <3>1
    <3>2. CASE s # su
      <4>1. N.sus[s] = S.sus[s]
        BY <1>5, <3>2
      <4>2. ASSUME S.sus[s].defining PROVE \E i \in 1..q - 1 : N.decls[i] = s
        <5>1. PICK i \in 1..q : S.decls[i] = s
          BY <1>6, <4>2 DEF StructInv, DefiningOpen
        <5>2. i \in 1..q - 1
          BY <1>2, <1>7, <3>2, <5>1
        <5> QED
          BY <1>3, <5>1, <5>2
      <4> QED
        BY <1>3, <1>6, <4>1, <4>2 DEF StructInv, CompleteDone
    <3> QED
      BY <3>1, <3>2
  <2> QED
    BY <1>5, <2>1 DEF DefiningOpen, CompleteDone
<1>11. NodesKnown(N)
  <2>1. ASSUME NEW l \in 1..Len(N.stack), NEW t \in TagNames
        PROVE  N.stack[l].tags[t] \in 0..m
    <3>1. CASE N.stack[l].tags[t] = Absent
      BY <1>1, <3>1 DEF Absent
    <3>2. CASE N.stack[l].tags[t] # Absent
      <4>1. TagFrom(S, t, N.stack[l].tags[t]) /\ NodesKnown(S)
        BY <3>2 DEF SameTags, StructInv
      <4> QED
        BY <1>6, <4>1, TagKnown
    <3> QED
      BY <3>1, <3>2
  <2>2. \A i \in 1..q - 1 : N.decls[i] \in 1..m
    BY <1>3, <1>6, <1>7 DEF StructInv, NodesKnown
  <2> QED
    BY <1>3, <1>5, <2>1, <2>2 DEF NodesKnown
<1>12. TagsUnique(N)
  BY TagsUniqueKept DEF StructInv
<1>13. TagsOfOpen(N, d)
  <2> SUFFICES ASSUME NEW i \in 1..Len(d), NEW l \in 1..Len(N.stack), NEW t \in TagNames,
                      d[i].kind = "su", N.stack[l].tags[t] = d[i].node, d[i].node # Absent
               PROVE  t = d[i].tag
    BY DEF TagsOfOpen
  <2>1. d[i] = c[i] /\ i \in 1..Len(c)
    BY <1>3, <1>6, <1>7
  <2>2. TagFrom(S, t, c[i].node)
    BY <2>1 DEF SameTags
  <2> QED
    BY <2>1, <2>2 DEF TagFrom, StructInv, TagsOfOpen
<1>14. ASSUME ~NestedSameTag PROVE OpenIncomplete(N, d)
  <2>1. OpenIncomplete(S, c)
    BY <1>14 DEF StructInv
  <2>2. \A i \in 1..n - 1 : c[i].kind = "su" => c[i].node # su /\ c[i].node \in 1..m
    BY <1>1, <1>2, <1>6, <1>7, <2>1, NodeOfOpen DEF OpenIncomplete, StructInv
  <2>3. \A i \in 1..n - 1 : c[i].kind = "su" => ~S.sus[c[i].node].complete
    BY <1>6, <1>7, <2>1 DEF OpenIncomplete
  <2>4. \A i \in 1..n - 1 : c[i].kind = "su" => ~N.sus[c[i].node].complete
    BY <1>5, <2>2, <2>3
  <2> QED
    BY <1>3, <1>6, <1>7, <2>1, <2>4 DEF OpenIncomplete
<1> QED
  BY <1>9, <1>10, <1>11, <1>12, <1>13, <1>14 DEF StructInv, d

-----------------------------------------------------------------------------
(* The productions.  A step keeps the invariant and leaves complete structs *)
(* as they are.                                                            *)
SInv == IInv /\ StructInv(M, ctx)

KeepsComplete(S, N) == \A s \in 1..Len(S.sus) : S.sus[s].complete => N.sus[s] = S.sus[s]

StructStep ==
  StructInv(M', ctx') /\ (~NestedSameTag => KeepsComplete(M, M'))

LEMMA ReduceStructs ==
  ASSUME SInv, NEW N, NEW c, Reduce(N, c),
         N.fatal = Running =>
           StructInv(N, c) /\ (~NestedSameTag => KeepsComplete(M, N))
  PROVE  StructStep
<1>1. CASE N.fatal = Running
  BY <1>1 DEF Reduce, StructStep
<1>2. CASE N.fatal # Running
  <2>1. M' = [M EXCEPT !.fatal = N.fatal] /\ ctx' = ctx
    BY <1>2 DEF Reduce
  <2>2. M'.stack = M.stack /\ M'.sus = M.sus /\ M'.decls = M.decls
    BY <2>1 DEF SInv, IInv, TypeOK, State
  <2>3. Untouched(M, M')
    BY <2>2, SameTables
  <2>4. Len(ctx) \in Nat
    BY FrameFacts DEF SInv, IInv
  <2>5. StructInv(M', ctx')
    BY <2>1, <2>3, <2>4, SameOpenSelf, UntouchedInv DEF SInv
  <2> QED
    BY <2>2, <2>5 DEF StructStep, KeepsComplete
<1> QED
  BY <1>1, <1>2

(* A production that leaves the structs alone *)
LEMMA QuietStep ==
  ASSUME SInv, NEW N, NEW c, Reduce(N, c),
         N.fatal = Running => Untouched(M, N) /\ SameOpen(c, ctx)
  PROVE  StructStep
<1> SUFFICES ASSUME N.fatal = Running
             PROVE  StructInv(N, c) /\ (~NestedSameTag => KeepsComplete(M, N))
  BY ReduceStructs
<1>1. Len(ctx) \in Nat
  BY FrameFacts DEF SInv, IInv
<1> QED
  BY <1>1, UntouchedInv DEF SInv, Untouched, KeepsComplete

LEMMA StructReady ==
  ASSUME SInv, Live
  PROVE  /\ IInv /\ Ready(M) /\ M \in State /\ FramesOK(ctx) /\ ctx \in Seq(Frames)
         /\ Len(ctx) \in Nat /\ Len(ctx) # 0 /\ Top(ctx) \in Frames
  BY LiveReady, FrameFacts DEF SInv, IInv, Ready, FramesOK

LEMMA SpecIsFrame ==
  ASSUME NEW c, FramesOK(c),
         NEW node \in Nat, NEW tag \in TagNames \cup {NoTag}, NEW sc \in StorageClasses
  PROVE  /\ SpecFrame(c, node, tag, sc) \in Frames
         /\ SpecFrame(c, node, tag, sc).kind = "decl"
         /\ SpecFrame(c, node, tag, sc).node = node
         /\ SpecFrame(c, node, tag, sc).tag = tag
         /\ Specifiers(c, node, tag, sc) \in Seq(Frames)
         /\ SameOpen(Specifiers(c, node, tag, sc), c)
<1> DEFINE f == SpecFrame(c, node, tag, sc)
<1>1. Top(c).depth \in Nat /\ c \in Seq(Frames)
  BY FrameFacts DEF FramesOK
<1>2. f \in Frames /\ f.kind = "decl" /\ f.node = node /\ f.tag = tag
  BY <1>1, GrammarAssumption DEF SpecFrame, Frame, Frames, FrameKinds, OpensScope
<1> HIDE DEF f
<1> QED
  BY <1>1, <1>2, SameOpenPush, AppendFacts DEF Specifiers, f

LEMMA ScalarStructs ==
  ASSUME SInv, Live, NEW sc \in StorageClasses, Scalar(sc) PROVE StructStep
<1>1. Reduce(M, Specifiers(ctx, 0, NoTag, sc))
  BY DEF Scalar
<1>2. SameOpen(Specifiers(ctx, 0, NoTag, sc), ctx)
  BY StructReady, SpecIsFrame
<1> QED
  BY <1>1, <1>2, UntouchedSelf, QuietStep

(* A struct entered under its tag by a reference, or found by it *)
LEMMA ReferenceMild ==
  ASSUME NEW S \in State, NEW c, StructInv(S, c), NEW N, NEW tag \in TagNames,
         Entered(S, N, tag, FALSE)
  PROVE  /\ N.stack = S.stack /\ Milder(S, N) /\ KeepsComplete(S, N)
         /\ \E node \in Nat : N.decls = Append(S.decls, node)
<1>1. PICK node :
        /\ node # Absent /\ TagFrom(S, tag, node) /\ tag # Untagged
        /\ N.stack = S.stack /\ N.decls = Append(S.decls, node)
        /\ N.sus = S.sus \/ N.sus = [S.sus EXCEPT ![node] = Marked(@, FALSE)]
  BY DEF Entered
<1>2. node \in 1..Len(S.sus) /\ node \in Nat
  <2>1. node \in 0..Len(S.sus) /\ Len(S.sus) \in Nat
    BY <1>1, LenProperties DEF TagFrom, StructInv, NodesKnown, State
  <2> QED
    BY <1>1, <2>1 DEF Absent
<1>3. Milder(S, N) /\ KeepsComplete(S, N)
  <2>1. CASE N.sus = S.sus
    BY <2>1 DEF Milder, KeepsComplete
  <2>2. CASE N.sus = [S.sus EXCEPT ![node] = Marked(@, FALSE)]
    <3> DEFINE e == Marked(S.sus[node], FALSE)
    <3>1. S.sus[node] \in Struct
      BY <1>2, ElementOfSeq DEF State
    <3>2. /\ e \in Struct /\ e.complete = S.sus[node].complete /\ ~e.defining
          /\ S.sus[node].defining = FALSE => e = S.sus[node]
      BY <3>1 DEF Marked, Struct
    <3>3. N.sus = [S.sus EXCEPT ![node] = e]
      BY <2>2
    <3> HIDE DEF e
    <3>4. /\ Len(N.sus) = Len(S.sus)
          /\ \A i \in 1..Len(S.sus) : N.sus[i] = IF i = node THEN e ELSE S.sus[i]
      BY <3>2, <3>3, OneStruct
    <3>5. S.sus[node].complete => S.sus[node].defining = FALSE
      BY <1>2, <3>1 DEF StructInv, CompleteDone, Struct
    <3> QED
      BY <3>2, <3>4, <3>5 DEF Milder, KeepsComplete
  <2> QED
    BY <1>1, <2>1, <2>2
<1> QED
  BY <1>1, <1>2, <1>3

LEMMA OldStructs ==
  ASSUME NEW S \in State, NEW N, NEW defining \in BOOLEAN,
         N.sus = Append(S.sus, NewStruct(defining))
  PROVE  KeepsComplete(S, N)
<1>1. NewStruct(defining) \in Struct /\ S.sus \in Seq(Struct)
  BY DEF NewStruct, Struct, State
<1>2. \A i \in 1..Len(S.sus) : Append(S.sus, NewStruct(defining))[i] = S.sus[i]
  BY <1>1, AppendFacts
<1>3. \A i \in 1..Len(S.sus) : N.sus[i] = S.sus[i]
  BY ONLY <1>2, N.sus = Append(S.sus, NewStruct(defining))
<1> QED
  BY <1>3 DEF KeepsComplete

(* A new struct that is only referred to leaves the stack again. *)
LEMMA ReferenceDone ==
  ASSUME NEW S \in State, NEW N, NEW P, NEW c, NEW d, NEW tag,
         Len(c) \in Nat, StructInv(S, c), SameOpen(d, c), Created(S, N, tag, FALSE),
         P.decls = Front(N.decls), SameTags(N, P), P.sus = N.sus
  PROVE  StructInv(P, d) /\ KeepsComplete(S, P)
<1> DEFINE m == Len(S.sus)
<1>1. S.decls \in Seq(Nat) /\ m + 1 \in Nat
  BY LenProperties DEF State
<1>2. /\ N.sus = Append(S.sus, NewStruct(FALSE)) /\ TagAdded(S, N, tag, m + 1)
      /\ N.decls = Append(S.decls, m + 1)
  BY DEF Created
<1> HIDE DEF m
<1>3. P.decls = S.decls
  BY <1>1, <1>2, FrontAppend
<1>4. TagAdded(S, P, tag, m + 1)
  <2> SUFFICES ASSUME NEW l \in 1..Len(P.stack), NEW u \in TagNames,
                      P.stack[l].tags[u] # Absent,
                      ~(u = tag /\ P.stack[l].tags[u] = m + 1)
               PROVE  TagFrom(S, u, P.stack[l].tags[u])
    BY DEF TagAdded
  <2>1. PICK k \in 1..Len(N.stack) : N.stack[k].tags[u] = P.stack[l].tags[u]
    BY DEF SameTags, TagFrom
  <2>2. TagFrom(S, u, N.stack[k].tags[u])
    BY <1>2, <2>1 DEF TagAdded
  <2> QED
    BY <2>1, <2>2
<1>5. StructInv(P, d)
  BY <1>2, <1>3, <1>4, DeclaredInv DEF m
<1> QED
  BY <1>2, <1>5, OldStructs

LEMMA StructReferenceStructs ==
  ASSUME SInv, Live, NEW sc \in StorageClasses, NEW tag \in Tags,
         StructReference(tag, sc)
  PROVE  StructStep
<1> DEFINE N == structunion_set_name(M, tag, FALSE)
           P == After(N, structunion_done(N, FALSE))
           c == Specifiers(ctx, TopStruct(N), tag, sc)
           m == Len(M.sus)
<1>1. Reduce(P, c)
  BY DEF StructReference
<1>2. tag \in TagNames /\ Ready(M) /\ M \in State
  BY StructReady DEF TagNames
<1>3. Keeps(M, N) /\ (N.fatal = Running => Enters(M, N))
  BY <1>2, SetName
<1>4. N.fatal = Running => Created(M, N, tag, FALSE) \/ Entered(M, N, tag, FALSE)
  BY <1>2, SetNameEnters
<1> HIDE DEF N
<1> SUFFICES ASSUME P.fatal = Running
             PROVE  StructInv(P, c) /\ (~NestedSameTag => KeepsComplete(M, P))
  BY <1>1, ReduceStructs
<1>5. N.fatal = Running /\ P = structunion_done(N, FALSE) /\ Ready(N)
  BY <1>3 DEF After, Keeps, Stays
<1>6. P.decls = Front(N.decls) /\ SameTags(N, P) /\ P.sus = N.sus
  BY <1>5, DoneLeaves
<1> HIDE DEF P
<1>7. SameOpen(c, ctx) /\ Len(ctx) \in Nat
  <2>1. TopStruct(N) \in Nat
    BY <1>2, <1>3, <1>5, TopOfEntered
  <2> QED
    BY <1>2, <2>1, StructReady, SpecIsFrame
<1> HIDE DEF c
<1>8. StructInv(M, ctx)
  BY DEF SInv
<1>9. M.decls \in Seq(Nat) /\ m \in Nat /\ m + 1 \in Nat
  BY <1>2, LenProperties DEF State
<1>10. CASE Created(M, N, tag, FALSE)
  BY <1>2, <1>6, <1>7, <1>8, <1>10, ReferenceDone
<1>11. CASE Entered(M, N, tag, FALSE)
  <2>1. N.stack = M.stack /\ Milder(M, N) /\ KeepsComplete(M, N)
    BY <1>2, <1>8, <1>11, ReferenceMild
  <2>2. PICK node \in Nat : N.decls = Append(M.decls, node)
    BY <1>2, <1>8, <1>11, ReferenceMild
  <2>3. P.decls = M.decls
    BY <1>6, <1>9, <2>2, FrontAppend
  <2>4. SameTags(M, P) /\ Milder(M, P) /\ KeepsComplete(M, P)
    BY <1>6, <2>1 DEF SameTags, TagFrom, Milder, KeepsComplete
  <2> QED
    BY <1>7, <1>8, <2>3, <2>4, KeptInv
<1> QED
  BY <1>4, <1>5, <1>10, <1>11

LEMMA OpenStructStructs ==
  ASSUME SInv, Live, NEW sc \in StorageClasses, NEW tag \in TagNames,
         OpenStruct(tag, sc)
  PROVE  StructStep
<1> DEFINE N == structunion_set_name(M, tag, TRUE)
           d == Specifiers(ctx, TopStruct(N), tag, sc)
           f == [Frame("su", Top(ctx).depth, "empty") EXCEPT
                   !.node = TopStruct(N), !.tag = tag]
           c == Append(d, f)
<1>1. /\ Reduce(N, c)
      /\ NestedSameTag \/ \A i \in 1..Len(ctx) :
                            ~(ctx[i].kind = "su" /\ ctx[i].tag = tag /\ tag # Untagged)
  BY DEF OpenStruct, MayOpenMembers, OpenMembers
<1>2. Ready(M) /\ M \in State /\ StructInv(M, ctx)
  BY StructReady DEF SInv
<1>3. Keeps(M, N) /\ (N.fatal = Running => Enters(M, N))
  BY <1>2, SetName
<1>4. N.fatal = Running => Created(M, N, tag, TRUE) \/ Entered(M, N, tag, TRUE)
  BY <1>2, SetNameEnters
<1> HIDE DEF N
<1> SUFFICES ASSUME N.fatal = Running
             PROVE  StructInv(N, c) /\ (~NestedSameTag => KeepsComplete(M, N))
  BY <1>1, ReduceStructs
<1>5. TopStruct(N) \in Nat
  BY <1>2, <1>3, TopOfEntered
<1>6. d \in Seq(Frames) /\ SameOpen(d, ctx)
  BY <1>5, StructReady, SpecIsFrame
<1>7. StructInv(M, d)
  BY <1>2, <1>6, StructReady, UntouchedSelf, UntouchedInv
<1>8. f \in Frames /\ f.kind = "su" /\ f.node = TopStruct(N) /\ f.tag = tag
  <2>1. Top(ctx).depth \in Nat
    BY StructReady, FrameFacts
  <2> QED
    BY <1>5, <2>1, GrammarAssumption DEF Frame, Frames, FrameKinds, OpensScope
<1> HIDE DEF d, f
<1>9. CASE Created(M, N, tag, TRUE)
  <2>1. StructInv(N, c)
    BY <1>2, <1>6, <1>7, <1>8, <1>9, OpenNewInv
  <2>2. KeepsComplete(M, N)
    BY <1>2, <1>9, OldStructs DEF Created
  <2> QED
    BY <2>1, <2>2
<1>10. CASE Entered(M, N, tag, TRUE)
  <2>1. NestedSameTag \/
          \A i \in 1..Len(d) : ~(d[i].kind = "su" /\ d[i].tag = tag /\ tag # Untagged)
    BY <1>1, <1>6 DEF SameOpen
  <2>2. StructInv(N, c)
    BY <1>2, <1>6, <1>7, <1>8, <1>10, <2>1, OpenFoundInv
  <2>3. PICK node :
          /\ N.sus = [M.sus EXCEPT ![node] = Marked(@, TRUE)]
          /\ ~M.sus[node].complete
    BY <1>10 DEF Entered
  <2>4. \A i \in 1..Len(M.sus) : i # node => N.sus[i] = M.sus[i]
    BY <1>2, <2>3 DEF State
  <2> QED
    BY <2>2, <2>3, <2>4 DEF KeepsComplete
<1> QED
  BY <1>4, <1>9, <1>10

LEMMA CloseStructStructs == ASSUME SInv, Live, CloseStruct PROVE StructStep
<1> DEFINE N == structunion_done(M, TRUE)
           c == Front(ctx)
           su == TopStruct(M)
<1>1. Top(ctx).kind = "su" /\ Reduce(N, c)
  BY DEF CloseStruct, MayCloseMembers, CloseMembers
<1>2. Ready(M) /\ M \in State /\ StructInv(M, ctx) /\ ctx \in Seq(Frames) /\ Len(ctx) # 0
  BY StructReady DEF SInv
<1>3. /\ N.decls = Front(M.decls) /\ SameTags(M, N)
      /\ N.sus = [M.sus EXCEPT ![su] = Completed(@)]
  BY <1>2, DoneLeaves
<1> HIDE DEF N
<1>4. StructInv(N, c)
  BY <1>1, <1>2, <1>3, CloseInv
<1>5. ASSUME ~NestedSameTag PROVE KeepsComplete(M, N)
  <2>1. ~M.sus[su].complete
    <3>1. Len(ctx) \in Nat /\ Len(ctx) \in 1..Len(ctx)
      BY <1>2, StructReady
    <3>2. su = ctx[Len(ctx)].node
      BY <1>1, <1>2, <3>1, TopIsInnermost DEF StructInv, Top
    <3> QED
      BY <1>1, <1>2, <1>5, <3>1, <3>2 DEF StructInv, OpenIncomplete, Top
  <2>2. \A i \in 1..Len(M.sus) : i # su => N.sus[i] = M.sus[i]
    BY <1>2, <1>3 DEF State
  <2> QED
    BY <2>1, <2>2 DEF KeepsComplete
<1> QED
  BY <1>1, <1>4, <1>5, ReduceStructs

(* Declarators leave the structs alone. *)
LEMMA NamingStructs ==
  ASSUME SInv, Live, NEW n, NEW inner \in BOOLEAN, NEW star \in BOOLEAN,
         n \in Idents \cup Members \cup {NoName},
         Reduce(M, Named(ctx, n, inner, star))
  PROVE  StructStep
<1> DEFINE t == Top(ctx)
           f == [t EXCEPT !.at = "name", !.name = n, !.inner = inner, !.star = star]
<1>1. t \in Frames /\ ctx \in Seq(Frames) /\ Len(ctx) # 0
  BY StructReady
<1> HIDE DEF t
<1>2. f \in Frames /\ f.kind = t.kind /\ f.node = t.node /\ f.tag = t.tag
  BY <1>1 DEF Frames
<1> HIDE DEF f
<1>3. SameOpen(Named(ctx, n, inner, star), ctx)
  BY <1>1, <1>2, SameOpenSwap DEF Named, f, t
<1> QED
  BY <1>3, UntouchedSelf, QuietStep

LEMMA NameStructs ==
  ASSUME SInv, Live, NEW n \in Idents \cup Members, NEW inner \in BOOLEAN,
         NEW star \in BOOLEAN, Name(n, inner, star)
  PROVE  StructStep
  BY NamingStructs DEF Name

LEMMA OmitNameStructs ==
  ASSUME SInv, Live, NEW star \in BOOLEAN, OmitName(star) PROVE StructStep
  BY NamingStructs DEF OmitName

LEMMA OpenParamsStructs == ASSUME SInv, Live, OpenParams PROVE StructStep
<1> DEFINE kind == IF Top(ctx).name = NoName THEN "aparams" ELSE "params"
           depth == Top(ctx).depth + (IF kind \in OpensScope THEN 1 ELSE 0)
           f == Frame(kind, depth, "empty")
           N == IF Top(ctx).name = NoName THEN M ELSE scope_push(M, "proto")
<1>1. Reduce(N, OpenList(ctx))
  BY DEF OpenParams
<1>2. Untouched(M, N)
  BY StructReady, UntouchedSelf, PushUntouched DEF ScopeTypes
<1> HIDE DEF N
<1>3. kind \in FrameKinds /\ kind # "su" /\ depth \in Nat
  <2>1. Top(ctx).depth \in Nat
    BY StructReady, FrameFacts
  <2> QED
    BY <2>1 DEF FrameKinds, OpensScope
<1>4. OpenList(ctx) = Append(ctx, f)
  BY DEF OpenList, Push
<1> HIDE DEF kind, depth
<1>5. f \in Frames /\ f.kind # "su"
  BY <1>3, NewFrame
<1>6. SameOpen(OpenList(ctx), ctx)
  BY <1>4, <1>5, StructReady, SameOpenPush
<1> QED
  BY <1>1, <1>2, <1>6, QuietStep

(* A construct without a struct is closed and the one below takes note. *)
LEMMA DropAndSwap ==
  ASSUME NEW c, FramesOK(c), Len(c) # 1, Top(c).kind # "su", NEW f \in Frames,
         f.kind = Below(c).kind, f.node = Below(c).node, f.tag = Below(c).tag
  PROVE  SameOpen(ReplaceTop(Front(c), f), c)
<1>1. FramesOK(Front(c)) /\ Top(Front(c)) = Below(c)
  BY DropFrame
<1>2. c \in Seq(Frames) /\ Len(c) # 0 /\ Front(c) \in Seq(Frames) /\ Len(Front(c)) # 0
  BY <1>1 DEF FramesOK
<1> QED
  BY <1>1, <1>2, SameOpenDrop, SameOpenSwap, SameOpenTransitive

LEMMA WithListFrame ==
  ASSUME NEW t \in Frames, NEW names \in SUBSET Idents, NEW nameless \in BOOLEAN
  PROVE  LET f == WithList(t, names, nameless) IN
         f \in Frames /\ f.kind = t.kind /\ f.node = t.node /\ f.tag = t.tag
<1> DEFINE o == IF t.lists = 0 /\ ~t.inner THEN names ELSE t.own
           a == IF t.lists = 0 /\ ~t.inner THEN nameless ELSE t.nameless
           k == t.lists + 1
           f == [t EXCEPT !.lists = k, !.own = o, !.nameless = a]
<1>1. o \in SUBSET Idents /\ a \in BOOLEAN
  BY DEF Frames
<1>2. k \in Nat
  BY DEF Frames
<1>3. WithList(t, names, nameless) = f
  BY DEF WithList
<1> HIDE DEF o, a, k
<1>4. f \in Frames /\ f.kind = t.kind /\ f.node = t.node /\ f.tag = t.tag
  BY <1>1, <1>2 DEF Frames
<1> HIDE DEF f
<1> QED
  BY <1>3, <1>4

LEMMA CloseParamsStructs == ASSUME SInv, Live, CloseParams PROVE StructStep
<1> DEFINE t == Top(ctx)
           f == WithList(Below(ctx), t.own, t.nameless)
           N == IF t.kind = "aparams" THEN M ELSE scope_pop(M)
<1>1. t.kind \in {"params", "aparams"} /\ Reduce(N, CloseList(ctx))
  BY DEF CloseParams, MayCloseList
<1>2. IInv /\ M \in State /\ FramesOK(ctx) /\ Len(ctx) # 1 /\ t \in Frames
  BY <1>1, StructReady, FrameFacts
<1>3. Untouched(M, N)
  <2>1. CASE t.kind = "aparams"
    BY <2>1, UntouchedSelf
  <2>2. CASE t.kind = "params"
    <3>1. Len(M.stack) \notin {0, 1}
      BY <1>2, <2>2, InConstruct DEF OpensScope, Ready, StackOK
    <3> QED
      BY <1>2, <2>2, <3>1, PopUntouched
  <2> QED
    BY <1>1, <2>1, <2>2
<1> HIDE DEF N
<1>4. Below(ctx) \in Frames /\ t.own \in SUBSET Idents /\ t.nameless \in BOOLEAN
  BY <1>2, DropFrame DEF Frames
<1>5. f \in Frames /\ f.kind = Below(ctx).kind /\ f.node = Below(ctx).node
      /\ f.tag = Below(ctx).tag
  BY <1>4, WithListFrame
<1> HIDE DEF f
<1>6. SameOpen(CloseList(ctx), ctx)
  BY <1>1, <1>2, <1>5, DropAndSwap DEF CloseList, f
<1> QED
  BY <1>1, <1>3, <1>6, QuietStep

LEMMA EmptyParamsStructs == ASSUME SInv, Live, EmptyParams PROVE StructStep
<1> DEFINE t == Top(ctx)
           f == WithList(t, {}, FALSE)
           P == scope_push(M, "proto")
           N == IF t.name = NoName THEN M ELSE scope_pop(P)
<1>1. Reduce(N, EmptyList(ctx))
  BY DEF EmptyParams
<1>2. Untouched(M, N)
  <2>1. Untouched(M, P) /\ Opens(M, P, "proto")
    BY StructReady, PushUntouched, PushPrototype DEF ScopeTypes
  <2> HIDE DEF P
  <2>2. P \in State /\ Len(P.stack) \notin {0, 1}
    <3>1. P.stack[1].type = "file" /\ P.stack[Vis(P)].type = "proto" /\ Ready(P) /\ ~P.hold
      BY <2>1 DEF Opens, Ready, StackOK
    <3>2. Vis(P) = Len(P.stack)
      BY <3>1, LenProperties DEF Vis, Ready, State
    <3> QED
      BY <3>1, <3>2 DEF Ready, StackOK
  <2>3. Untouched(M, scope_pop(P))
    BY <2>1, <2>2, PopUntouched, UntouchedTransitive
  <2> QED
    BY <2>3, UntouchedSelf
<1> HIDE DEF N
<1>3. SameOpen(EmptyList(ctx), ctx)
  BY StructReady, WithListFrame, SameOpenSwap DEF EmptyList
<1> QED
  BY <1>1, <1>2, <1>3, QuietStep

-----------------------------------------------------------------------------
(* Declarations *)

LEMMA DeclarationEndsSame ==
  ASSUME NEW c, FramesOK(c), Top(c).kind = "decl"
  PROVE  SameOpen(ReplaceTop(Front(c), HostAfter(Below(c), Top(c))), c)
<1> DEFINE h == Below(c)
           t == Top(c)
           f == HostAfter(h, t)
<1>1. Len(c) # 1 /\ t \in Frames
  BY FrameFacts
<1>2. h \in Frames /\ Fits(h, t)
  BY <1>1, DropFrame
<1> HIDE DEF h, t
<1>3. f \in Frames /\ f.kind = h.kind
  BY <1>1, <1>2, HostShape DEF t
<1>4. f.node = h.node /\ f.tag = h.tag
  BY <1>2 DEF HostAfter, Frames
<1> HIDE DEF f
<1> QED
  BY <1>1, <1>3, <1>4, DropAndSwap DEF f, h, t

(* A member is added to the struct it is written in, which is still open. *)
LEMMA MemberStructs ==
  ASSUME SInv, Live, Top(ctx).kind = "decl", Below(ctx).kind = "su",
         NEW ident \in Members, NEW node, NEW behind,
         NEW N, N = structunion_install_member(M, ident, node, behind), N.fatal = Running
  PROVE  /\ N.decls = M.decls /\ SameTags(M, N) /\ Milder(M, N)
         /\ ~NestedSameTag => KeepsComplete(M, N)
<1> DEFINE b == Front(ctx)
           su == TopStruct(M)
           e == WithMember(M.sus[su], ident)
<1>1. /\ Ready(M) /\ M \in State /\ FramesOK(ctx) /\ Len(ctx) # 1 /\ Len(ctx) \in Nat
      /\ ctx \in Seq(Frames) /\ Len(ctx) # 0
  BY StructReady, FrameFacts
<1>2. FramesOK(b) /\ Top(b) = Below(ctx) /\ Len(b) \in Nat /\ Len(b) # 0
      /\ Len(b) \in 1..Len(b)
  <2>1. FramesOK(b) /\ Top(b) = Below(ctx)
    BY <1>1, DropFrame
  <2> HIDE DEF b
  <2>2. Len(b) \in Nat /\ Len(b) # 0
    BY <2>1, FrameFacts DEF FramesOK
  <2> QED
    BY <2>1, <2>2
<1>3. StructInv(M, b)
  <2>1. SameOpen(b, ctx)
    BY <1>1, SameOpenDrop
  <2> QED
    BY <1>1, <2>1, UntouchedSelf, UntouchedInv DEF SInv
<1> HIDE DEF b
<1>4. su = b[Len(b)].node /\ su \in 1..Len(M.sus)
  BY <1>2, <1>3, TopIsInnermost DEF StructInv, Top
<1>5. N.stack = M.stack /\ N.decls = M.decls /\ N.sus = [M.sus EXCEPT ![su] = WithMember(@, ident)]
  BY <1>1, MemberAdds
<1> HIDE DEF su
<1>6. M.sus[su] \in Struct
  BY <1>1, <1>4, ElementOfSeq DEF State
<1>7. /\ e \in Struct /\ e.complete = M.sus[su].complete /\ e.defining = M.sus[su].defining
      /\ N.sus = [M.sus EXCEPT ![su] = e]
  BY <1>5, <1>6 DEF WithMember, Struct
<1> HIDE DEF e
<1>8. /\ Len(N.sus) = Len(M.sus)
      /\ \A i \in 1..Len(M.sus) : N.sus[i] = IF i = su THEN e ELSE M.sus[i]
  BY <1>1, <1>7, OneStruct
<1>9. SameTags(M, N) /\ Milder(M, N)
  BY <1>5, <1>7, <1>8 DEF SameTags, TagFrom, Milder
<1>10. ASSUME ~NestedSameTag PROVE KeepsComplete(M, N)
  <2>1. ~M.sus[su].complete
    BY <1>2, <1>3, <1>4, <1>10 DEF StructInv, OpenIncomplete, Top
  <2> QED
    BY <1>8, <2>1 DEF KeepsComplete
<1> QED
  BY <1>5, <1>9, <1>10

LEMMA DeclaratorStructs ==
  ASSUME SInv, Live, NEW more \in BOOLEAN, Declarator(more) PROVE StructStep
<1> DEFINE t == Top(ctx)
           N == Install(t)
           c == EndDeclarator(ctx, more)
<1>1. Reading(ctx, {"name"}) /\ t.kind = "decl" /\ Reduce(N, c)
  BY DEF Declarator, MayEndDeclarator, Reading
<1>2. /\ Ready(M) /\ M \in State /\ FramesOK(ctx) /\ Len(ctx) # 1 /\ Len(ctx) \in Nat
      /\ ctx \in Seq(Frames) /\ Len(ctx) # 0 /\ t \in Frames
  BY <1>1, StructReady, FrameFacts
<1>3. Fits(Below(ctx), t) /\ t.at = "name"
  BY <1>1, <1>2, DropFrame DEF Reading
<1>4. SameOpen(c, ctx)
  <2>1. CASE more
    <3> DEFINE s == SpecFrame(ctx, t.node, t.tag, t.sc)
               f == [s EXCEPT !.at = "more", !.first = FALSE]
    <3>1. s \in Frames /\ s.kind = "decl" /\ s.node = t.node /\ s.tag = t.tag
      <4>1. t.node \in Nat /\ t.tag \in TagNames \cup {NoTag} /\ t.sc \in StorageClasses
        BY <1>2 DEF Frames
      <4>2. ASSUME NEW node \in Nat, NEW tag \in TagNames \cup {NoTag},
                   NEW sc \in StorageClasses
            PROVE  /\ SpecFrame(ctx, node, tag, sc) \in Frames
                   /\ SpecFrame(ctx, node, tag, sc).kind = "decl"
                   /\ SpecFrame(ctx, node, tag, sc).node = node
                   /\ SpecFrame(ctx, node, tag, sc).tag = tag
        BY <1>2, SpecIsFrame
      <4> QED
        BY ONLY <4>1, <4>2
    <3>2. c = ReplaceTop(ctx, f)
      BY <2>1 DEF EndDeclarator
    <3> HIDE DEF s
    <3>3. f \in Frames /\ f.kind = "decl" /\ f.node = t.node /\ f.tag = t.tag
      BY <3>1 DEF Frames
    <3> HIDE DEF f
    <3> QED
      BY <1>1, <1>2, <3>2, <3>3, SameOpenSwap
  <2>2. CASE ~more
    BY <1>1, <1>2, <2>2, DeclarationEndsSame DEF EndDeclarator
  <2> QED
    BY <2>1, <2>2
<1> HIDE DEF c
<1>5. CASE Below(ctx).kind = "su"
  <2>1. t.name \in Members
    BY <1>1, <1>3, <1>5 DEF Fits
  <2>2. N = structunion_install_member(M, t.name, t.node, BehindPointer(t))
    BY <1>5 DEF Install
  <2> HIDE DEF N
  <2>3. N.fatal = Running =>
          /\ N.decls = M.decls /\ SameTags(M, N) /\ Milder(M, N)
          /\ ~NestedSameTag => KeepsComplete(M, N)
    BY <1>1, <1>5, <2>1, <2>2, MemberStructs
  <2> QED
    BY <1>1, <1>2, <1>4, <2>3, KeptInv, ReduceStructs DEF SInv
<1>6. CASE Below(ctx).kind # "su" /\ t.name = NoName
  <2>1. Checked(M, N)
    BY <1>2, <1>6, FinalizeChecks DEF Install
  <2> QED
    BY <1>1, <1>4, <2>1, UntouchedSelf, QuietStep DEF Checked
<1>7. CASE Below(ctx).kind # "su" /\ t.name # NoName
  <2>1. t.sc \in {"none", "extern", "static"}
    BY <1>2, GrammarAssumption DEF Frames
  <2>2. N.fatal = Running => Untouched(M, N)
    BY <1>2, <1>7, <2>1, InstallUntouched DEF Install
  <2> QED
    BY <1>1, <1>4, <2>2, QuietStep
<1> QED
  BY <1>5, <1>6, <1>7

(* "struct tag ;" declares a tag that the current scope does not have. *)
LEMMA ForwardStructs ==
  ASSUME NEW S, Ready(S), NEW c, NEW d, Len(c) \in Nat, StructInv(S, c), SameOpen(d, c),
         NEW tag \in TagNames,
         NEW P, P = structunion_forward_declare(S, tag), P.fatal = Running
  PROVE  StructInv(P, d) /\ KeepsComplete(S, P)
<1> DEFINE N == KeepNew(S, tag, FALSE)
<1>1. CASE P = S
  BY <1>1, UntouchedSelf, UntouchedInv DEF KeepsComplete
<1>2. CASE P = After(N, structunion_done(N, FALSE))
  <2>1. Keeps(S, N)
    BY KeepNewKeeps
  <2>2. N.fatal = Running => Created(S, N, tag, FALSE)
    BY KeepNewCreates
  <2> HIDE DEF N
  <2>3. N.fatal = Running /\ P = structunion_done(N, FALSE)
    BY <1>2 DEF After
  <2>4. Ready(N) /\ S \in State
    BY <2>1, <2>3 DEF Keeps, Stays, Ready
  <2>5. P.decls = Front(N.decls) /\ SameTags(N, P) /\ P.sus = N.sus
    BY <2>3, <2>4, DoneLeaves
  <2> QED
    BY <2>2, <2>3, <2>4, <2>5, ReferenceDone
<1> QED
  BY <1>1, <1>2 DEF structunion_forward_declare

LEMMA EmptyDeclarationStructs == ASSUME SInv, Live, EmptyDeclaration PROVE StructStep
<1> DEFINE t == Top(ctx)
           N == declspec_check_empty(M, t.node, t.tag, t.sc)
           c == EndEmpty(ctx)
<1>1. t.kind = "decl" /\ Reduce(N, c)
  BY DEF EmptyDeclaration, MayEndEmpty, Reading
<1>2. Ready(M) /\ FramesOK(ctx) /\ Len(ctx) # 1 /\ Len(ctx) \in Nat /\ StructInv(M, ctx)
  BY <1>1, StructReady, FrameFacts DEF SInv
<1>3. SameOpen(c, ctx)
  BY <1>1, <1>2, DeclarationEndsSame DEF EndEmpty
<1> HIDE DEF c
<1>4. CASE N = M
  BY <1>1, <1>3, <1>4, UntouchedSelf, QuietStep
<1>5. CASE N = structunion_forward_declare(M, t.tag) /\ t.node # 0
  <2>1. t.tag \in TagNames
    BY <1>1, <1>2, <1>5, DropFrame DEF Fits
  <2> HIDE DEF N
  <2>2. N.fatal = Running => StructInv(N, c) /\ KeepsComplete(M, N)
    BY <1>2, <1>3, <1>5, <2>1, ForwardStructs
  <2> QED
    BY <1>1, <2>2, ReduceStructs
<1> QED
  BY <1>4, <1>5 DEF declspec_check_empty, Absent

(* The head of a function definition is checked and installed. *)
LEMMA DefineUntouched ==
  ASSUME SInv, Live, MayDefine(ctx), Define(Top(ctx)).fatal = Running
  PROVE  Untouched(M, Define(Top(ctx)))
<1> DEFINE f == Top(ctx)
           C == decl_check_fndef(M, IsFunction(f), f.nameless)
           D == decl_install(scope_set_fndef(C), f.name, f.sc, IsFunction(f),
                             f.node, BehindPointer(f))
<1>1. f \in Frames /\ Ready(M)
  BY StructReady
<1>2. Checked(M, C)
  BY <1>1, CheckFndef
<1> HIDE DEF C
<1>3. Define(f) = IF C.fatal = Running THEN D ELSE C
  BY DEF Define, After, C
<1>4. C.fatal = Running /\ Define(f) = D
  BY <1>3
<1>5. C = M
  BY <1>2, <1>4 DEF Checked
<1>6. f.sc \in {"none", "extern", "static"}
  BY <1>1, GrammarAssumption DEF Frames
<1> QED
  BY <1>1, <1>4, <1>5, <1>6, InstallDefinedUntouched

(* The construct a declarator or a body ends in is closed and another, not *)
(* a struct, takes its place.                                              *)
LEMMA DropAndPush ==
  ASSUME NEW c, FramesOK(c), Len(c) # 1, Top(c).kind # "su", NEW f \in Frames, f.kind # "su"
  PROVE  SameOpen(Append(Front(c), f), c)
<1>1. FramesOK(Front(c))
  BY DropFrame
<1>2. c \in Seq(Frames) /\ Len(c) # 0 /\ Front(c) \in Seq(Frames)
  BY <1>1 DEF FramesOK
<1> QED
  BY <1>2, SameOpenDrop, SameOpenPush, SameOpenTransitive

LEMMA BeginBodyStructs == ASSUME SInv, Live, BeginBody PROVE StructStep
<1> DEFINE t == Top(ctx)
           f == [Frame("body", 2, "items") EXCEPT !.own = t.own]
           N == Define(t)
           R == After(N, scope_push_auto(N))
<1>1. MayDefine(ctx) /\ Reduce(R, OpenBody(ctx))
  BY DEF BeginBody
<1>2. IInv /\ FramesOK(ctx) /\ Len(ctx) # 1 /\ t.kind = "decl" /\ t \in Frames
  BY <1>1, StructReady, FrameFacts DEF MayDefine, Reading
<1>3. Keeps(M, N) /\ (N.fatal = Running => Ready(N) /\ Untouched(M, N))
  BY <1>1, <1>2, DefineKeeps, DefineUntouched
<1> HIDE DEF N
<1>4. R.fatal = Running => Untouched(M, R)
  BY <1>3, AutoUntouched, UntouchedTransitive DEF After
<1>5. f \in Frames /\ f.kind = "body"
  <2>1. t.own \in SUBSET Idents
    BY <1>2 DEF Frames
  <2> HIDE DEF t
  <2> QED
    BY <2>1, GrammarAssumption DEF Frame, Frames, FrameKinds, OpensScope
<1> HIDE DEF f, R
<1>6. SameOpen(OpenBody(ctx), ctx)
  BY <1>2, <1>5, DropAndPush DEF OpenBody, f
<1> QED
  BY <1>1, <1>4, <1>6, QuietStep

LEMMA WholeBodyStructs == ASSUME SInv, Live, WholeBody PROVE StructStep
<1> DEFINE N == Define(Top(ctx))
           P == scope_push_auto(N)
           R == After(N, scope_pop(P))
<1>1. MayDefine(ctx) /\ Reduce(R, EmptyBody(ctx))
  BY DEF WholeBody
<1>2. IInv /\ FramesOK(ctx) /\ Len(ctx) # 1 /\ Top(ctx).kind = "decl" /\ ctx \in Seq(Frames)
      /\ Len(ctx) # 0
  BY <1>1, StructReady, FrameFacts DEF MayDefine, Reading
<1>3. N.fatal = Running => N.hold /\ Ready(N) /\ Untouched(M, N)
  BY <1>1, <1>2, DefineKeeps, DefineUntouched
<1> HIDE DEF N
<1>4. ASSUME N.fatal = Running PROVE Untouched(M, scope_pop(P))
  <2>1. Opens(N, P, "func") /\ Untouched(N, P)
    BY <1>3, <1>4, Promote, AutoUntouched
  <2> HIDE DEF P
  <2>2. P \in State /\ Len(P.stack) \notin {0, 1}
    <3>1. P.stack[1].type = "file" /\ P.stack[Vis(P)].type = "func" /\ Ready(P) /\ ~P.hold
      BY <2>1 DEF Opens, Ready, StackOK
    <3>2. Vis(P) = Len(P.stack)
      BY <3>1, LenProperties DEF Vis, Ready, State
    <3> QED
      BY <3>1, <3>2 DEF Ready, StackOK
  <2> QED
    BY <1>3, <1>4, <2>1, <2>2, PopUntouched, UntouchedTransitive
<1>5. R.fatal = Running => Untouched(M, R)
  BY <1>4 DEF After
<1> HIDE DEF R
<1>6. SameOpen(EmptyBody(ctx), ctx)
  BY <1>2, SameOpenDrop DEF EmptyBody
<1> QED
  BY <1>1, <1>5, <1>6, QuietStep

-----------------------------------------------------------------------------
(* Blocks and FOR *)

LEMMA StmtDoneSame ==
  ASSUME NEW c \in Seq(Frames), Len(c) # 0 PROVE SameOpen(StmtDone(c), c)
<1> DEFINE f == [Top(c) EXCEPT !.at = "tail"]
<1>1. CASE Top(c).kind = "for"
  <2>1. Len(c) \in 1..Len(c)
    BY LenProperties
  <2>2. Top(c) \in Frames
    BY <2>1, ElementOfSeq DEF Top
  <2>3. f \in Frames /\ f.kind = Top(c).kind /\ f.node = Top(c).node /\ f.tag = Top(c).tag
    BY <2>2 DEF Frames
  <2>4. StmtDone(c) = ReplaceTop(c, f)
    BY <1>1 DEF StmtDone, ReplaceTop, Top
  <2> HIDE DEF f
  <2> QED
    BY <2>3, <2>4, SameOpenSwap
<1>2. CASE Top(c).kind # "for"
  BY <1>2, SameOpenSelf DEF StmtDone
<1> QED
  BY <1>1, <1>2

LEMMA BlockStructs ==
  ASSUME SInv, Live, NEW kind \in {"block", "for"}, NEW at \in {"items", "head"},
         Reduce(scope_push_auto(M), Push(ctx, kind, at))
  PROVE  StructStep
<1> DEFINE d == Top(ctx).depth + 1
           f == Frame(kind, d, at)
<1>1. d \in Nat /\ kind \in FrameKinds /\ kind \in OpensScope
  BY StructReady, FrameFacts DEF FrameKinds, OpensScope
<1>2. Push(ctx, kind, at) = Append(ctx, f)
  BY <1>1 DEF Push
<1> HIDE DEF d
<1>3. f \in Frames /\ f.kind # "su"
  BY <1>1, NewFrame
<1> HIDE DEF f
<1>4. SameOpen(Push(ctx, kind, at), ctx)
  BY <1>2, <1>3, StructReady, SameOpenPush
<1> QED
  BY <1>4, StructReady, AutoUntouched, QuietStep

LEMMA BeginBlockStructs == ASSUME SInv, Live, BeginBlock PROVE StructStep
  BY BlockStructs DEF BeginBlock

LEMMA BeginForStructs == ASSUME SInv, Live, BeginFor PROVE StructStep
  BY BlockStructs DEF BeginFor

LEMMA EndStmtStructs ==
  ASSUME SInv, Live, Top(ctx).kind \in {"body", "block", "for"},
         Reduce(scope_pop(M), StmtDone(Front(ctx)))
  PROVE  StructStep
<1> DEFINE b == Front(ctx)
<1>1. IInv /\ M \in State /\ ctx \in Seq(Frames) /\ Len(ctx) # 0 /\ Ready(M)
  BY StructReady
<1>2. Len(M.stack) \notin {0, 1} /\ FramesOK(b)
  BY <1>1, InConstruct DEF OpensScope, Ready, StackOK
<1>3. Untouched(M, scope_pop(M))
  BY <1>1, <1>2, PopUntouched
<1>4. SameOpen(b, ctx)
  BY <1>1, SameOpenDrop
<1> HIDE DEF b
<1>5. SameOpen(StmtDone(b), ctx)
  BY <1>2, <1>4, StmtDoneSame, SameOpenTransitive DEF FramesOK
<1> QED
  BY <1>3, <1>5, QuietStep DEF b

LEMMA EndBlockStructs == ASSUME SInv, Live, EndBlock PROVE StructStep
  BY EndStmtStructs DEF EndBlock, MayCloseBlock, CloseBlock

LEMMA FinishForStructs == ASSUME SInv, Live, FinishFor PROVE StructStep
  BY EndStmtStructs DEF FinishFor, MayEndFor, EndFor

LEMMA SimpleStmtStructs == ASSUME SInv, Live, SimpleStmt PROVE StructStep
<1> DEFINE P == scope_push_auto(M)
<1>1. Reduce(scope_pop(P), StmtDone(ctx)) /\ AtStmt(ctx)
  BY DEF SimpleStmt
<1>2. IInv /\ Ready(M) /\ ctx \in Seq(Frames) /\ Len(ctx) # 0
  BY StructReady
<1>3. Opens(M, P, "block") /\ Untouched(M, P)
  BY <1>1, <1>2, AtStmtReady, AutoUntouched
<1> HIDE DEF P
<1>4. P \in State /\ Len(P.stack) \notin {0, 1}
  <2>1. P.stack[1].type = "file" /\ P.stack[Vis(P)].type = "block" /\ Ready(P) /\ ~P.hold
    BY <1>3 DEF Opens, Ready, StackOK
  <2>2. Vis(P) = Len(P.stack)
    BY <2>1, LenProperties DEF Vis, Ready, State
  <2> QED
    BY <2>1, <2>2 DEF Ready, StackOK
<1>5. Untouched(M, scope_pop(P))
  BY <1>3, <1>4, PopUntouched, UntouchedTransitive
<1> QED
  BY <1>1, <1>2, <1>5, StmtDoneSame, QuietStep

-----------------------------------------------------------------------------
LEMMA InitStructs == Init => StructInv(M, ctx)
<1> SUFFICES ASSUME Init PROVE StructInv(M, ctx)
  OBVIOUS
<1>1. /\ M.sus = <<>> /\ M.decls = <<>> /\ Len(M.sus) = 0 /\ Len(M.decls) = 0
      /\ M.stack = InitScopes /\ ctx = <<FileFrame>>
  BY DEF Init
<1>2. Len(ctx) = 1 /\ ctx[1].kind # "su" /\ \A i \in 1..Len(ctx) : i = 1
  BY <1>1 DEF FileFrame, Frame
<1>3. \A i \in 1..Len(ctx) : ctx[i].kind # "su"
  BY ONLY <1>2
<1>4. Level(ctx, Len(ctx)) = 0
  <2>1. StructsUpTo(ctx, Len(ctx)) = {}
    BY <1>3 DEF StructsUpTo
  <2> QED
    BY <2>1, FS_EmptySet DEF Level
<1>5. \A l \in 1..Len(M.stack), t \in TagNames : M.stack[l].tags[t] = Absent
  <2>1. M.stack = <<NewScope("file")>> /\ Len(M.stack) = 1 /\ \A l \in 1..1 : l = 1
    BY <1>1 DEF InitScopes
  <2>2. \A t \in TagNames : NewScope("file").tags[t] = Absent
    BY DEF NewScope
  <2> QED
    BY <2>1, <2>2
<1> QED
  BY <1>1, <1>3, <1>4, <1>5
     DEF StructInv, DeclsMatch, DefiningOpen, NodesKnown, CompleteDone, TagsUnique,
         TagsOfOpen, OpenIncomplete, Absent

LEMMA StepStructs == ASSUME SInv, Live, Step PROVE StructStep
<1>1. ASSUME NEW sc \in StorageClasses, Scalar(sc) PROVE StructStep
  BY <1>1, ScalarStructs
<1>2. ASSUME NEW sc \in StorageClasses, NEW tag \in Tags, StructReference(tag, sc)
      PROVE  StructStep
  BY <1>2, StructReferenceStructs
<1>3. ASSUME NEW sc \in StorageClasses, NEW tag \in TagNames, OpenStruct(tag, sc)
      PROVE  StructStep
  BY <1>3, OpenStructStructs
<1>4. ASSUME NEW n \in Idents \cup Members, NEW inner \in BOOLEAN, NEW star \in BOOLEAN,
             Name(n, inner, star)
      PROVE  StructStep
  BY <1>4, NameStructs
<1>5. ASSUME NEW star \in BOOLEAN, OmitName(star) PROVE StructStep
  BY <1>5, OmitNameStructs
<1>6. ASSUME NEW more \in BOOLEAN, Declarator(more) PROVE StructStep
  BY <1>6, DeclaratorStructs
<1> QED
  BY <1>1, <1>2, <1>3, <1>4, <1>5, <1>6, CloseStructStructs, OpenParamsStructs,
     CloseParamsStructs, EmptyParamsStructs, EmptyDeclarationStructs, BeginBodyStructs,
     WholeBodyStructs, BeginBlockStructs, EndBlockStructs, BeginForStructs,
     SimpleStmtStructs, FinishForStructs
     DEF Step

LEMMA NextStructs == ASSUME SInv, [Next]_vars PROVE StructStep
<1>1. CASE Live /\ Step
  BY <1>1, StepStructs
<1>2. CASE UNCHANGED vars
  <2>1. M' = M /\ ctx' = ctx
    BY <1>2 DEF vars
  <2> QED
    BY <2>1 DEF SInv, StructStep, KeepsComplete
<1> QED
  BY <1>1, <1>2 DEF Next, Exited

LEMMA StructInvHolds == Spec => []SInv
<1>1. Init => SInv
  BY InitInv, InitStructs DEF SInv
<1>2. SInv /\ [Next]_vars => SInv'
  <2> SUFFICES ASSUME SInv, [Next]_vars PROVE SInv'
    OBVIOUS
  <2>1. IInv'
    BY NextInv DEF SInv
  <2>2. StructInv(M', ctx')
    BY NextStructs DEF StructStep
  <2> QED
    BY <2>1, <2>2 DEF SInv
<1> QED
  BY <1>1, <1>2, PTL DEF Spec

-----------------------------------------------------------------------------
(* su_decl_stack is the stack of the open struct braces, whatever the       *)
(* nesting of structs, functions and blocks: a member is installed in the   *)
(* struct it is written in, and a struct marked as being defined is one of  *)
(* them.                                                                   *)
THEOREM StructsMatch == Spec => []StructsMatchConstructs
<1>1. SInv => StructsMatchConstructs
  BY DEF SInv, StructInv, DeclsMatch, DefiningOpen, StructsMatchConstructs, Level,
         StructsUpTo
<1> QED
  BY <1>1, StructInvHolds, PTL

(* A complete struct keeps its members for good in every program in which   *)
(* no definition contains one of its own tag: structunion_set_name rejects  *)
(* a second definition, a reference only stores the flag the struct has,    *)
(* and members and '}' reach none but the innermost open struct.            *)
THEOREM CompleteStructsFinal ==
  ASSUME ~NestedSameTag
  PROVE  Spec => CompleteIsFinal
<1>1. SInv /\ [Next]_vars =>
        [\A s \in 1..Len(M.sus) : M.sus[s].complete => M'.sus[s] = M.sus[s]]_vars
  BY NextStructs DEF StructStep, KeepsComplete
<1> QED
  BY <1>1, StructInvHolds, PTL DEF Spec, CompleteIsFinal

-----------------------------------------------------------------------------
(* Bodies *)

(* While nothing is on hold, N has the identifiers and the parameter table  *)
(* of S; its scopes up to the k-th have S's parameters.                    *)
SameIds(S, N) ==
  ~S.hold => /\ N.prev = S.prev /\ Len(N.stack) = Len(S.stack)
             /\ \A l \in 1..Len(S.stack) : N.stack[l].ids = S.stack[l].ids
SameParams(S, N, k) ==
  ~S.hold => /\ N.prev = S.prev
             /\ \A l \in 1..k : Params(N.stack[l]) = Params(S.stack[l])

LEMMA SameIdsSelf == ASSUME NEW S PROVE SameIds(S, S)
  BY DEF SameIds

LEMMA SameIdsTransitive ==
  ASSUME NEW S, NEW N, NEW P, SameIds(S, N), N.hold => S.hold, SameIds(N, P)
  PROVE  SameIds(S, P)
  BY DEF SameIds

LEMMA IdsParams ==
  ASSUME NEW S, NEW N, SameIds(S, N) PROVE SameParams(S, N, Len(S.stack))
  BY DEF SameIds, SameParams, Params

(* A new scope declares nothing, and the scopes below it stay. *)
LEMMA PushedParams ==
  ASSUME NEW S \in State, NEW type \in ScopeTypes, NEW N,
         N.stack = Append(S.stack, NewScope(type)), N.prev = S.prev
  PROVE  /\ SameParams(S, N, Len(S.stack))
         /\ Len(N.stack) = Len(S.stack) + 1 /\ Params(N.stack[Len(S.stack) + 1]) = {}
<1>1. S.stack \in Seq(Scopes) /\ NewScope(type) \in Scopes
  BY NewScopeType DEF State
<1>2. /\ Len(N.stack) = Len(S.stack) + 1 /\ N.stack[Len(S.stack) + 1] = NewScope(type)
      /\ \A l \in 1..Len(S.stack) : N.stack[l] = S.stack[l]
  BY <1>1, AppendFacts
<1>3. Params(NewScope(type)) = {}
  BY DEF Params, NewScope, NoEntry
<1> QED
  BY <1>2, <1>3 DEF SameParams

(* scope_push, over a held prototype or not *)
LEMMA PushParams ==
  ASSUME NEW S, Ready(S), NEW type \in ScopeTypes,
         NEW N, N = scope_push(S, type)
  PROVE  /\ SameParams(S, N, Len(S.stack))
         /\ Len(N.stack) = Vis(S) + 1 /\ Params(N.stack[Vis(S) + 1]) = {}
<1> DEFINE R == IF S.hold THEN clear_held(S) ELSE S
<1>1. R \in State /\ R.fatal = Running /\ Len(R.stack) = Vis(S)
      /\ (~S.hold => R.prev = S.prev /\ R.stack = S.stack)
  <2>1. CASE S.hold
    <3>1. Keeps(S, R) /\ R.fatal = Running /\ Len(R.stack) = 1
      BY <2>1, ClearHeld
    <3>2. Vis(S) = 1
      BY <2>1 DEF Ready, StackOK, Vis
    <3> QED
      BY <2>1, <3>1, <3>2 DEF Keeps, Stays, Ready
  <2>2. CASE ~S.hold
    <3>1. Len(S.stack) \in Nat /\ Len(S.stack) - 0 = Vis(S)
      BY <2>2, LenProperties DEF Ready, State, Vis
    <3> QED
      BY <2>2, <3>1 DEF Ready
  <2> QED
    BY <2>1, <2>2
<1> HIDE DEF R
<1>2. N.stack = Append(R.stack, NewScope(type)) /\ N.prev = R.prev
  BY <1>1 DEF scope_push, After, R, State
<1>3. /\ SameParams(R, N, Len(R.stack))
      /\ Len(N.stack) = Len(R.stack) + 1 /\ Params(N.stack[Len(R.stack) + 1]) = {}
  BY <1>1, <1>2, PushedParams
<1>4. ~S.hold => SameParams(S, N, Len(S.stack))
  BY <1>1, <1>3 DEF SameParams, R
<1> QED
  BY <1>1, <1>3, <1>4 DEF SameParams

LEMMA AutoParams ==
  ASSUME NEW S \in State, ~S.hold, NEW N, N = scope_push_auto(S)
  PROVE  SameParams(S, N, Len(S.stack))
<1>1. N.stack = Append(S.stack, NewScope("block")) /\ N.prev = S.prev
  BY DEF scope_push_auto, State
<1> QED
  BY <1>1, PushedParams DEF ScopeTypes

(* scope_pop removes the top scope, or leaves it for a function. *)
LEMMA PopParams ==
  ASSUME NEW S \in State, Len(S.stack) \notin {0, 1}, NEW N, N = scope_pop(S)
  PROVE  /\ SameParams(S, N, Len(S.stack) - 1)
         /\ Len(S.stack) = 2 /\ S.stack[2].type = "proto" => N.stack = S.stack
<1>1. S.stack \in Seq(Scopes) /\ Len(S.stack) # 0 /\ Len(S.stack) \in Nat
  BY LenProperties DEF State
<1>2. \A l \in 1..Len(S.stack) - 1 : Front(S.stack)[l] = S.stack[l]
  BY <1>1, FrontFacts
<1>3. N.prev = S.prev /\ N.stack \in {S.stack, Front(S.stack)}
  BY DEF scope_pop, current, State
<1>4. Len(S.stack) = 2 /\ S.stack[2].type = "proto" => N.stack = S.stack
  BY DEF scope_pop, current, State
<1> QED
  BY <1>1, <1>2, <1>3, <1>4 DEF SameParams

(* The dummy scope of structunion_done *)
LEMMA DummyIds ==
  ASSUME NEW S, Ready(S)
  PROVE  SameIds(S, scope_pop(scope_push(S, "structunion")))
<1> SUFFICES ASSUME ~S.hold
             PROVE  SameIds(S, scope_pop(scope_push(S, "structunion")))
  BY DEF SameIds
<1> DEFINE P == scope_push(S, "structunion")
<1>1. S \in State /\ S.fatal = Running /\ S.stack \in Seq(Scopes)
  BY DEF Ready, State
<1>2. NewScope("structunion") \in Scopes /\ NewScope("structunion").type = "structunion"
  BY NewScopeType DEF ScopeTypes
<1>3. P = [S EXCEPT !.stack = Append(S.stack, NewScope("structunion"))]
  BY <1>1 DEF scope_push, After
<1>4. P.stack = Append(S.stack, NewScope("structunion")) /\ P.prev = S.prev /\ P \in State
  <2>1. Append(S.stack, NewScope("structunion")) \in Seq(Scopes)
    BY <1>1, <1>2, AppendFacts
  <2> HIDE DEF P
  <2> QED
    BY <1>1, <1>3, <2>1 DEF State
<1> HIDE DEF P
<1>5. /\ Len(P.stack) = Len(S.stack) + 1 /\ P.stack[Len(S.stack) + 1].type = "structunion"
      /\ Front(P.stack) = S.stack
  BY <1>1, <1>2, <1>4, AppendFacts, FrontAppend
<1>6. Len(S.stack) \in Nat /\ Len(S.stack) # 0
  BY <1>1, LenProperties DEF Ready, StackOK
<1>7. scope_pop(P) = [P EXCEPT !.stack = S.stack]
  <2>1. current(P) # 1 /\ (current(P) = 2 => P.stack[2].type = "structunion")
    BY <1>5, <1>6 DEF current
  <2> QED
    BY <1>5, <2>1 DEF scope_pop
<1>8. scope_pop(P).stack = S.stack /\ scope_pop(P).prev = S.prev
  BY <1>4, <1>7 DEF State
<1> QED
  BY <1>8 DEF SameIds, P

-----------------------------------------------------------------------------
(* structunion.c changes no table of identifiers. *)

LEMMA InsertTagIds ==
  ASSUME NEW S, Ready(S), NEW t \in TagNames, NEW node \in Nat,
         NEW N, N = scope_insert_tag(S, t, node), N.fatal = Running
  PROVE  SameIds(S, N)
<1> SUFFICES ASSUME ~S.hold PROVE SameIds(S, N)
  BY DEF SameIds
<1> DEFINE l == Len(S.stack)
           e == [S.stack[l] EXCEPT !.tags[t] = node]
           s == [S.stack EXCEPT ![l] = e]
<1>1. S \in State /\ S.stack \in Seq(Scopes) /\ ~S.fndef /\ S.fatal = Running
      /\ l \in Nat /\ l # 0
  BY LenProperties DEF Ready, State, StackOK
<1>2. l \in 1..l
  BY <1>1
<1>3. insert_state(S) = S /\ insert_level(S) = l
  BY <1>1 DEF insert_state, insert_level, current
<1>4. S.stack[l] \in Scopes
  BY <1>1, <1>2, ElementOfSeq
<1>5. e \in Scopes /\ e.ids = S.stack[l].ids
  BY <1>4 DEF Scopes
<1>6. /\ Len(s) = l
      /\ \A k \in 1..l : s[k] = IF k = l THEN e ELSE S.stack[k]
  BY <1>1, <1>2, <1>5, ExceptSeq
<1>7. Fatal(S, "symbol already exists in symbol table").fatal # Running
  BY <1>1 DEF Fatal, State, Running
<1>8. N = [S EXCEPT !.stack = s, !.fndef = FALSE]
  BY <1>1, <1>3, <1>7 DEF scope_insert_tag, After
<1> HIDE DEF e, s
<1>9. N.stack = s /\ N.prev = S.prev
  BY <1>1, <1>8 DEF State
<1> QED
  BY <1>5, <1>6, <1>9 DEF SameIds

LEMMA KeepNewIds ==
  ASSUME NEW S, Ready(S), NEW tag \in TagNames, NEW defining \in BOOLEAN,
         NEW N, N = KeepNew(S, tag, defining), N.fatal = Running
  PROVE  SameIds(S, N)
<1> DEFINE P == [S EXCEPT !.sus = Append(S.sus, NewStruct(defining)),
                          !.decls = Append(S.decls, Len(S.sus) + 1)]
<1>1. S \in State /\ NewStruct(defining) \in Struct /\ S.sus \in Seq(Struct)
      /\ S.decls \in Seq(Nat)
  BY DEF Ready, State, Struct, NewStruct
<1>2. /\ Append(S.sus, NewStruct(defining)) \in Seq(Struct)
      /\ Len(Append(S.sus, NewStruct(defining))) = Len(S.sus) + 1
      /\ Append(S.decls, Len(S.sus) + 1) \in Seq(Nat) /\ Len(S.sus) + 1 \in Nat
  BY <1>1, AppendFacts, LenProperties
<1>3. /\ P \in State /\ P.stack = S.stack /\ P.hold = S.hold /\ P.fndef = S.fndef
      /\ P.fatal = S.fatal /\ P.prev = S.prev /\ Len(P.sus) = Len(S.sus) + 1
  BY <1>1, <1>2 DEF State
<1>4. N = P \/ N = scope_insert_tag(P, tag, Len(P.sus))
  BY DEF KeepNew
<1> HIDE DEF P
<1>5. Ready(P) /\ SameIds(S, P)
  BY <1>3 DEF Ready, StackOK, SameIds
<1>6. N = scope_insert_tag(P, tag, Len(P.sus)) => SameIds(P, N)
  BY <1>2, <1>3, <1>5, InsertTagIds
<1> QED
  BY <1>3, <1>4, <1>5, <1>6, SameIdsTransitive

LEMMA SetNameIds ==
  ASSUME NEW S, Ready(S), NEW tag \in TagNames, NEW begin_def \in BOOLEAN,
         NEW N, N = structunion_set_name(S, tag, begin_def), N.fatal = Running
  PROVE  SameIds(S, N)
<1>1. S \in State
  BY DEF Ready
<1>2. CASE N = KeepNew(S, tag, begin_def)
  BY <1>2, KeepNewIds
<1>3. CASE N # KeepNew(S, tag, begin_def)
  <2>1. /\ Fatal(S, "struct/union redefinition").fatal # Running
        /\ Fatal(S, "nested struct/union redefinition").fatal # Running
    BY <1>1 DEF Fatal, State, Running
  <2>2. N.stack = S.stack /\ N.prev = S.prev
    BY <1>1, <1>3, <2>1 DEF structunion_set_name, State
  <2> QED
    BY <2>2 DEF SameIds
<1> QED
  BY <1>2, <1>3

LEMMA DoneIds ==
  ASSUME NEW S, Ready(S), NEW is_complete \in BOOLEAN,
         NEW N, N = structunion_done(S, is_complete)
  PROVE  SameIds(S, N)
<1> DEFINE su == TopStruct(S)
           P == IF S.sus[su].defining /\ is_complete
                THEN scope_pop(scope_push(S, "structunion")) ELSE S
           C == IF is_complete
                THEN [P EXCEPT !.sus[su].defining = FALSE, !.sus[su].complete = TRUE]
                ELSE P
<1>1. SameIds(S, P) /\ P \in State /\ P.fatal = Running
  BY DummyIds, DummyScope, SameIdsSelf DEF Keeps, Stays, Ready
<1>2. N = [C EXCEPT !.decls = Front(@)]
  BY <1>1 DEF structunion_done, After
<1> HIDE DEF P
<1>3. C.stack = P.stack /\ C.prev = P.prev /\ N.stack = C.stack /\ N.prev = C.prev
  BY <1>1, <1>2 DEF State
<1> QED
  BY <1>1, <1>3 DEF SameIds

LEMMA ForwardIds ==
  ASSUME NEW S, Ready(S), NEW tag \in TagNames,
         NEW P, P = structunion_forward_declare(S, tag), P.fatal = Running
  PROVE  SameIds(S, P)
<1> DEFINE N == KeepNew(S, tag, FALSE)
<1>1. P = S \/ P = After(N, structunion_done(N, FALSE))
  BY DEF structunion_forward_declare
<1>2. Keeps(S, N)
  BY KeepNewKeeps
<1>3. CASE P # S
  <2>1. N.fatal = Running /\ P = structunion_done(N, FALSE)
    BY <1>1, <1>3 DEF After
  <2>2. SameIds(S, N)
    BY <2>1, KeepNewIds
  <2> HIDE DEF N
  <2>3. Ready(N) /\ (N.hold => S.hold)
    BY <1>2, <2>1 DEF Keeps, Stays
  <2>4. SameIds(N, P)
    BY <2>1, <2>3, DoneIds
  <2> QED
    BY <2>2, <2>3, <2>4, SameIdsTransitive
<1> QED
  BY <1>3, SameIdsSelf

LEMMA MemberIds ==
  ASSUME NEW S, Ready(S), NEW ident, NEW node, NEW behind,
         NEW N, N = structunion_install_member(S, ident, node, behind), N.fatal = Running
  PROVE  SameIds(S, N)
<1> DEFINE F == decl_finalize(S, node, behind)
<1>1. S \in State /\ S.fatal = Running /\ Checked(S, F)
  BY FinalizeChecks DEF Ready
<1>2. F = S
  BY <1>1 DEF structunion_install_member, Checked, After
<1>3. Fatal(S, "duplicate member").fatal # Running
  BY <1>1 DEF Fatal, State, Running
<1>4. N.stack = S.stack /\ N.prev = S.prev
  BY <1>1, <1>2, <1>3 DEF structunion_install_member, After, State
<1> QED
  BY <1>4 DEF SameIds

-----------------------------------------------------------------------------
(* Declarations *)

(* P is S with the entry e for n in scope l. *)
Puts(S, P, l, n, e) ==
  /\ P \in State /\ P.prev = S.prev /\ Len(P.stack) = Len(S.stack)
  /\ P.fatal = S.fatal /\ P.hold = S.hold /\ P.fndef = S.fndef
  /\ \A k \in 1..Len(S.stack) :
       /\ P.stack[k].type = S.stack[k].type
       /\ P.stack[k].ids = IF k = l THEN [S.stack[l].ids EXCEPT ![n] = e]
                           ELSE S.stack[k].ids

LEMMA PutIds ==
  ASSUME NEW S \in State, NEW l \in 1..Len(S.stack), NEW n, NEW e \in Entry
  PROVE  Puts(S, PutId(S, l, n, e), l, n, e)
<1> DEFINE P == PutId(S, l, n, e)
           d == [S.stack[l] EXCEPT !.ids[n] = e]
           s == [S.stack EXCEPT ![l] = d]
<1>1. S.stack \in Seq(Scopes) /\ S.stack[l] \in Scopes
  BY ElementOfSeq DEF State
<1>2. d \in Scopes /\ d.type = S.stack[l].type /\ d.ids = [S.stack[l].ids EXCEPT ![n] = e]
  BY <1>1 DEF Scopes
<1>3. P = [S EXCEPT !.stack = s]
  BY <1>1 DEF State, PutId
<1> HIDE DEF d, P
<1>4. /\ s \in Seq(Scopes) /\ Len(s) = Len(S.stack)
      /\ \A k \in 1..Len(S.stack) : s[k] = IF k = l THEN d ELSE S.stack[k]
  BY <1>1, <1>2, ExceptSeq
<1> HIDE DEF s
<1>5. P \in State /\ P.stack = s /\ P.hold = S.hold /\ P.fatal = S.fatal /\ P.prev = S.prev
      /\ P.fndef = S.fndef
  BY <1>3, <1>4 DEF State
<1>6. Puts(S, P, l, n, e)
  BY <1>2, <1>4, <1>5 DEF Puts
<1> QED
  BY <1>6 DEF P

LEMMA IdsType ==
  ASSUME NEW S \in State, NEW l \in 1..Len(S.stack)
  PROVE  S.stack[l].ids \in [Idents -> Entry]
<1>1. S.stack \in Seq(Scopes)
  BY DEF State
<1>2. S.stack[l] \in Scopes
  BY <1>1, ElementOfSeq
<1> QED
  BY <1>2 DEF Scopes

(* decl_install, after scope_insert: the entry is replaced once more. *)
EntryPut(S, N, l, n) ==
  \E e \in Entry : e.proto = (S.stack[l].type = "proto") /\ N = PutId(S, l, n, e)

LEMMA InstallEntryPuts ==
  ASSUME NEW S \in State, S.fatal = Running, NEW l \in 1..Len(S.stack), NEW n,
         NEW sc \in {"none", "extern", "static"}, NEW is_fn,
         NEW N, N = install_entry(S, l, n, sc, is_fn), N.fatal = Running
  PROVE  EntryPut(S, N, l, n)
<1> DEFINE e == [sc |-> default_sc(S, n, sc), proto |-> S.stack[l].type = "proto"]
           E == PutId(S, l, n, e)
<1>1. e \in Entry /\ e.proto = (S.stack[l].type = "proto")
  BY DEF Entry, default_sc
<1>2. N = Fatal(E, "null function scope") \/ N = E
  BY DEF install_entry, PutId
<1>3. Fatal(E, "null function scope").fatal # Running
  BY DEF Fatal, PutId, State, Running
<1> QED
  BY <1>1, <1>2, <1>3 DEF EntryPut

(* S gets the name n in scope l, which did not have it. *)
Declares(S, N, l, n) ==
  /\ S.stack[l].ids[n] = NoEntry
  /\ N.prev = S.prev /\ Len(N.stack) = Len(S.stack)
  /\ \E e \in Entry :
       /\ e.proto = (S.stack[l].type = "proto")
       /\ \A k \in 1..Len(S.stack) :
            N.stack[k].ids = IF k = l THEN [S.stack[l].ids EXCEPT ![n] = e]
                             ELSE S.stack[k].ids

(* A redeclaration changes nothing; other names are new in their scope. *)
Same(S, N) ==
  /\ N.prev = S.prev /\ Len(N.stack) = Len(S.stack)
  /\ \A l \in 1..Len(S.stack) : N.stack[l].ids = S.stack[l].ids

LEMMA InstallDeclares ==
  ASSUME NEW S, S \in State, S.fatal = Running, insert_state(S) = S,
         NEW l, l = insert_level(S), l \in 1..Len(S.stack),
         NEW n \in Idents, NEW sc \in {"none", "extern", "static"},
         NEW is_fn, NEW node, NEW behind,
         NEW N, N = decl_install(S, n, sc, is_fn, node, behind), N.fatal = Running
  PROVE  \/ is_redeclaration(S, n, sc) /\ Same(S, N)
         \/ Declares(S, N, l, n)
<1> DEFINE F == decl_finalize(S, node, behind)
           d == [sc |-> sc, proto |-> FALSE]
           I == scope_insert_id(S, n, sc, d)
           R == [S EXCEPT !.fndef = FALSE]
           D == PutId(R, l, n, d)
<1>1. F = S
  <2>1. F = S \/ F.fatal # Running
    BY DEF decl_finalize, Fatal, State, Running
  <2> QED
    BY <2>1 DEF decl_install, After
<1>2. d \in Entry
  BY DEF Entry
<1> HIDE DEF d
<1>3. R \in State /\ R.stack = S.stack /\ R.prev = S.prev /\ R.fatal = Running
  BY DEF State
<1>4. [S EXCEPT !.stack[l].ids[n] = d, !.fndef = FALSE] = D
  BY DEF State, PutId
<1>5. I = IF is_redeclaration(S, n, sc) THEN R
          ELSE IF S.stack[l].ids[n] # NoEntry
          THEN Fatal(S, "symbol already exists in symbol table") ELSE D
  BY <1>4 DEF scope_insert_id, After
<1>6. Fatal(S, "symbol already exists in symbol table").fatal # Running
  BY DEF Fatal, State, Running
<1>7. N = IF is_redeclaration(S, n, sc) \/ I.fatal # Running THEN I
          ELSE install_entry(I, l, n, sc, is_fn)
  BY <1>1 DEF decl_install, After, d
<1> HIDE DEF R, I, F
<1>8. CASE is_redeclaration(S, n, sc)
  BY <1>3, <1>5, <1>7, <1>8 DEF Same
<1>9. CASE ~is_redeclaration(S, n, sc)
  <2>1. I = D /\ S.stack[l].ids[n] = NoEntry
    BY <1>5, <1>6, <1>7, <1>9
  <2> HIDE DEF D
  <2>2. /\ D \in State /\ D.prev = S.prev /\ Len(D.stack) = Len(S.stack)
        /\ D.fatal = Running /\ l \in 1..Len(D.stack)
        /\ \A k \in 1..Len(S.stack) :
             /\ D.stack[k].type = S.stack[k].type
             /\ D.stack[k].ids = IF k = l THEN [S.stack[l].ids EXCEPT ![n] = d]
                                 ELSE S.stack[k].ids
    <3>1. l \in 1..Len(R.stack)
      BY <1>3
    <3>2. Puts(R, D, l, n, d)
      BY <1>2, <1>3, <3>1, PutIds DEF D
    <3> QED
      BY <1>3, <3>1, <3>2 DEF Puts
  <2>3. N = install_entry(D, l, n, sc, is_fn)
    BY <1>7, <1>9, <2>1, <2>2
  <2>4. PICK e \in Entry : /\ e.proto = (D.stack[l].type = "proto")
                           /\ N = PutId(D, l, n, e)
    <3>1. EntryPut(D, N, l, n)
      BY <2>2, <2>3, InstallEntryPuts
    <3> QED
      BY <3>1 DEF EntryPut
  <2>5. Puts(D, N, l, n, e)
    BY <2>2, <2>4, PutIds
  <2>6. S.stack[l].ids \in [Idents -> Entry]
    BY IdsType
  <2>7. [[S.stack[l].ids EXCEPT ![n] = d] EXCEPT ![n] = e] = [S.stack[l].ids EXCEPT ![n] = e]
    BY <2>6
  <2>8. \A k \in 1..Len(S.stack) :
          N.stack[k].ids = IF k = l THEN [S.stack[l].ids EXCEPT ![n] = e]
                           ELSE S.stack[k].ids
    BY <2>2, <2>5, <2>7 DEF Puts
  <2>9. e.proto = (S.stack[l].type = "proto")
    BY <2>2, <2>4
  <2> QED
    BY <2>1, <2>2, <2>5, <2>8, <2>9 DEF Declares, Puts
<1> QED
  BY <1>8, <1>9

(* A parameter joins those of its list; no other name becomes one. *)
LEMMA DeclaredParams ==
  ASSUME NEW S \in State, NEW N, NEW l \in 1..Len(S.stack), NEW n \in Idents,
         Declares(S, N, l, n)
  PROVE  /\ N.prev = S.prev
         /\ \A k \in 1..Len(S.stack) : k # l => Params(N.stack[k]) = Params(S.stack[k])
         /\ Params(N.stack[l]) = IF S.stack[l].type = "proto" THEN Params(S.stack[l]) \cup {n}
                                 ELSE Params(S.stack[l])
<1>1. PICK e \in Entry :
        /\ e.proto = (S.stack[l].type = "proto")
        /\ \A k \in 1..Len(S.stack) :
             N.stack[k].ids = IF k = l THEN [S.stack[l].ids EXCEPT ![n] = e]
                              ELSE S.stack[k].ids
  BY DEF Declares
<1>2. S.stack[l].ids \in [Idents -> Entry] /\ ~S.stack[l].ids[n].proto
  BY IdsType DEF Declares, NoEntry
<1>3. N.stack[l].ids = [S.stack[l].ids EXCEPT ![n] = e]
  BY <1>1
<1>4. \A m \in Idents : N.stack[l].ids[m] = IF m = n THEN e ELSE S.stack[l].ids[m]
  BY <1>2, <1>3
<1>5. Params(N.stack[l]) = IF S.stack[l].type = "proto" THEN Params(S.stack[l]) \cup {n}
                           ELSE Params(S.stack[l])
  BY <1>1, <1>2, <1>4 DEF Params
<1>6. \A k \in 1..Len(S.stack) : k # l => Params(N.stack[k]) = Params(S.stack[k])
  BY <1>1 DEF Params
<1> QED
  BY <1>5, <1>6 DEF Declares

(* decl_install in the top scope: only a prototype's gets a parameter. *)
LEMMA InstallParams ==
  ASSUME NEW S, Ready(S), NEW n \in Idents, NEW sc \in {"none", "extern", "static"},
         NEW is_fn, NEW node, NEW behind,
         NEW N, N = decl_install(S, n, sc, is_fn, node, behind), N.fatal = Running
  PROVE  LET l == Len(S.stack) IN
         /\ SameParams(S, N, l - 1)
         /\ S.stack[l].type # "proto" => SameParams(S, N, l)
         /\ ~S.hold /\ S.stack[l].type = "proto" /\ sc = "none" =>
              Params(N.stack[l]) = Params(S.stack[l]) \cup {n}
<1> SUFFICES ASSUME ~S.hold
             PROVE  LET l == Len(S.stack) IN
                    /\ SameParams(S, N, l - 1)
                    /\ S.stack[l].type # "proto" => SameParams(S, N, l)
                    /\ S.stack[l].type = "proto" /\ sc = "none" =>
                         Params(N.stack[l]) = Params(S.stack[l]) \cup {n}
  BY DEF SameParams
<1> DEFINE l == Len(S.stack)
<1>1. /\ S \in State /\ S.fatal = Running /\ ~S.fndef /\ l \in Nat /\ l # 0
      /\ S.stack[1].type = "file"
  BY LenProperties DEF Ready, State, StackOK
<1>2. insert_state(S) = S /\ insert_level(S) = l
  BY <1>1 DEF insert_state, insert_level, current
<1>3. l = Len(S.stack)
  OBVIOUS
<1> HIDE DEF l
<1>4. l \in 1..Len(S.stack) /\ \A k \in 1..l - 1 : k \in 1..Len(S.stack) /\ k # l
  BY <1>1, <1>3
<1>5. (is_redeclaration(S, n, sc) /\ Same(S, N)) \/ Declares(S, N, l, n)
  BY <1>1, <1>2, <1>4, InstallDeclares
<1>6. CASE is_redeclaration(S, n, sc) /\ Same(S, N)
  <2>1. S.stack[l].type = "proto" => sc # "none"
    BY <1>1, <1>2, <1>3, <1>6 DEF is_redeclaration, current
  <2> QED
    BY <1>3, <1>4, <1>6, <2>1 DEF Same, SameParams, Params
<1>7. CASE Declares(S, N, l, n)
  <2>1. /\ N.prev = S.prev
        /\ \A k \in 1..Len(S.stack) : k # l => Params(N.stack[k]) = Params(S.stack[k])
        /\ Params(N.stack[l]) = IF S.stack[l].type = "proto" THEN Params(S.stack[l]) \cup {n}
                                ELSE Params(S.stack[l])
    BY <1>1, <1>4, <1>7, DeclaredParams
  <2> QED
    BY <1>3, <1>4, <2>1 DEF SameParams
<1> QED
  BY <1>5, <1>6, <1>7 DEF l

GetsParam(S, N, n, sc) ==
  ~S.hold /\ S.stack[Len(S.stack)].type = "proto" /\ sc = "none" =>
    /\ SameParams(S, N, Len(S.stack) - 1)
    /\ Params(N.stack[Len(S.stack)]) = Params(S.stack[Len(S.stack)]) \cup {n}

LEMMA ParameterParams ==
  ASSUME NEW S, Ready(S), NEW n \in Idents, NEW sc \in {"none", "extern", "static"},
         NEW is_fn, NEW node, NEW behind,
         NEW N, N = decl_install(S, n, sc, is_fn, node, behind), N.fatal = Running
  PROVE  GetsParam(S, N, n, sc)
  BY InstallParams DEF GetsParam

(* The head of a function definition goes to the file scope, whatever its   *)
(* parameters are called.                                                  *)
LEMMA DefinedParams ==
  ASSUME NEW S, Ready(S), S.hold, NEW n \in Idents,
         NEW sc \in {"none", "extern", "static"}, NEW is_fn, NEW node, NEW behind,
         NEW N, N = decl_install(scope_set_fndef(S), n, sc, is_fn, node, behind),
         N.fatal = Running
  PROVE  Params(N.stack[2]) = Params(S.stack[2])
<1> DEFINE D == scope_set_fndef(S)
<1>1. /\ D \in State /\ D.fatal = Running /\ D.fndef /\ D.stack = S.stack
      /\ Len(S.stack) = 2
  BY DEF scope_set_fndef, Ready, StackOK, State
<1> HIDE DEF D
<1>2. insert_state(D) = D /\ insert_level(D) = 1 /\ 1 \in 1..Len(D.stack) /\ 2 \in 1..Len(D.stack)
  BY <1>1 DEF insert_state, insert_level
<1>3. N = decl_install(D, n, sc, is_fn, node, behind)
  BY DEF D
<1>4. Same(D, N) \/ Declares(D, N, 1, n)
  BY <1>1, <1>2, <1>3, InstallDeclares
<1>5. Params(N.stack[2]) = Params(D.stack[2])
  <2>1. CASE Same(D, N)
    BY <1>2, <2>1 DEF Same, Params
  <2>2. CASE Declares(D, N, 1, n)
    <3>1. \A k \in 1..Len(D.stack) : k # 1 => Params(N.stack[k]) = Params(D.stack[k])
      BY <1>1, <1>2, <2>2, DeclaredParams
    <3> QED
      BY <1>2, <3>1
  <2> QED
    BY <1>4, <2>1, <2>2
<1> QED
  BY <1>1, <1>5

-----------------------------------------------------------------------------
(* The constructs *)

(* What the grammar lets be inside what, when declarators have one          *)
(* parameter list and abstract ones none: the only list of a declarator is  *)
(* its first, and parameters have no storage class.                        *)
Plain(g, f) ==
  /\ f.kind # "aparams"
  /\ f.kind = "params" => g.lists = 0
  /\ f.kind = "decl" /\ g.kind = "params" => f.sc = "none"

PlainFrames(c) == \A i \in 2..Len(c) : Plain(c[i-1], c[i])

(* The constructs with parameters, open lists and bodies, have their scope: *)
(* it declares the names the construct has noted, ...                      *)
HasParams(f) == f.kind \in {"params", "body"}

Owned(S, c) ==
  \A i \in 1..Len(c) : HasParams(c[i]) =>
    /\ Params(S.stack[c[i].depth]) = c[i].own
    /\ c[i].kind = "body" => S.prev = c[i].own

(* ... and so does the prototype on hold for a function declarator.        *)
HeldOwn(S, c) ==
  Reading(c, {"name"}) /\ Below(c).kind = "file" /\ IsFunction(Top(c)) =>
    Params(S.stack[2]) = Top(c).own

OwnInv(S, c) == PlainFrames(c) /\ Owned(S, c) /\ HeldOwn(S, c)

(* The constructs of d with parameters are constructs of c. *)
WithinOwn(d, c) ==
  \A i \in 1..Len(d) : HasParams(d[i]) =>
    \E j \in 1..Len(c) :
      c[j].kind = d[i].kind /\ c[j].depth = d[i].depth /\ c[j].own = d[i].own

LEMMA WithinOwnTransitive ==
  ASSUME NEW c, NEW d, NEW e, WithinOwn(d, c), WithinOwn(e, d) PROVE WithinOwn(e, c)
  BY DEF WithinOwn, HasParams

LEMMA OwnPush ==
  ASSUME NEW c, FramesOK(c), PlainFrames(c), NEW f \in Frames, Plain(Top(c), f)
  PROVE  /\ PlainFrames(Append(c, f))
         /\ ~HasParams(f) => WithinOwn(Append(c, f), c)
<1> DEFINE n == Len(c)
           d == Append(c, f)
<1>1. c \in Seq(Frames) /\ n \in Nat /\ n >= 1 /\ Top(c) = c[n]
  BY FrameFacts DEF FramesOK
<1>2. Len(d) = n + 1 /\ d[n + 1] = f /\ \A i \in 1..n : d[i] = c[i]
  BY <1>1, AppendFacts
<1>3. n = Len(c)
  OBVIOUS
<1> HIDE DEF n, d
<1>4. ASSUME NEW i \in 2..n + 1 PROVE Plain(d[i-1], d[i])
  <2>1. CASE i = n + 1
    <3>1. i - 1 = n /\ n \in 1..n
      BY ONLY <2>1, <1>1
    <3> QED
      BY <2>1, <3>1, <1>1, <1>2
  <2>2. CASE i # n + 1
    <3>1. i \in 2..n /\ i \in 1..n /\ i - 1 \in 1..n
      BY ONLY <2>2, <1>1, i \in 2..n + 1
    <3> QED
      BY <3>1, <1>2, <1>3 DEF PlainFrames
  <2> QED
    BY <2>1, <2>2
<1>5. \A i \in 1..n + 1 : i = n + 1 \/ i \in 1..n
  BY ONLY <1>1
<1>6. ~HasParams(f) => WithinOwn(d, c)
  BY <1>2, <1>3, <1>5 DEF WithinOwn
<1> QED
  BY <1>2, <1>4, <1>6 DEF PlainFrames, d

LEMMA OwnDrop ==
  ASSUME NEW c, FramesOK(c), PlainFrames(c), Len(c) # 1
  PROVE  /\ PlainFrames(Front(c)) /\ WithinOwn(Front(c), c) /\ Plain(Below(c), Top(c))
<1> DEFINE n == Len(c)
           d == Front(c)
<1>1. c \in Seq(Frames) /\ n \in Nat /\ n # 0 /\ n # 1 /\ Top(c) = c[n] /\ Below(c) = c[n-1]
  BY FrameFacts DEF FramesOK, Below
<1>2. Len(d) = n - 1 /\ \A i \in 1..n - 1 : d[i] = c[i]
  BY <1>1, FrontFacts
<1>3. n = Len(c)
  OBVIOUS
<1> HIDE DEF n, d
<1>4. /\ n \in 2..n
      /\ \A i \in 1..n - 1 : i \in 1..n
      /\ \A i \in 2..n - 1 : i \in 2..n /\ i \in 1..n - 1 /\ i - 1 \in 1..n - 1
  BY ONLY <1>1
<1>5. PlainFrames(d)
  BY <1>2, <1>3, <1>4 DEF PlainFrames
<1>6. Plain(c[n - 1], c[n])
  BY <1>3, <1>4 DEF PlainFrames
<1>7. WithinOwn(d, c)
  BY <1>2, <1>3, <1>4 DEF WithinOwn
<1> QED
  BY <1>1, <1>5, <1>6, <1>7 DEF d

LEMMA OwnSwap ==
  ASSUME NEW c, FramesOK(c), PlainFrames(c), NEW f \in Frames,
         Len(c) # 1 => Plain(Below(c), f)
  PROVE  /\ PlainFrames(ReplaceTop(c, f))
         /\ Top(ReplaceTop(c, f)) = f /\ Len(ReplaceTop(c, f)) = Len(c)
         /\ \A i \in 1..Len(c) : ReplaceTop(c, f)[i] = IF i = Len(c) THEN f ELSE c[i]
         /\ f.kind = Top(c).kind /\ f.depth = Top(c).depth /\ (HasParams(f) => f.own = Top(c).own)
              => WithinOwn(ReplaceTop(c, f), c)
<1> DEFINE n == Len(c)
           d == ReplaceTop(c, f)
<1>1. /\ c \in Seq(Frames) /\ n \in Nat /\ n # 0 /\ Top(c) = c[n] /\ Below(c) = c[n-1]
  BY FrameFacts DEF FramesOK, Below
<1>2. n \in 1..n
  BY ONLY <1>1
<1>3. Len(d) = n /\ \A i \in 1..n : d[i] = IF i = n THEN f ELSE c[i]
  BY <1>1, <1>2, ExceptSeq DEF ReplaceTop
<1>4. n = Len(c)
  OBVIOUS
<1> HIDE DEF n, d
<1>5. ASSUME NEW i \in 2..n PROVE Plain(d[i-1], d[i])
  <2>1. i - 1 \in 1..n /\ i - 1 # n /\ i \in 1..n /\ n # 1
    BY ONLY <1>1, i \in 2..n
  <2>2. CASE i = n
    BY <2>1, <2>2, <1>1, <1>3, <1>4
  <2>3. CASE i # n
    BY <2>1, <2>3, <1>3, <1>4 DEF PlainFrames
  <2> QED
    BY <2>2, <2>3
<1>6. f.kind = Top(c).kind /\ f.depth = Top(c).depth /\ (HasParams(f) => f.own = Top(c).own)
        => WithinOwn(d, c)
  BY <1>1, <1>2, <1>3, <1>4 DEF WithinOwn
<1>7. Top(d) = f
  BY <1>2, <1>3 DEF Top
<1> QED
  BY <1>3, <1>4, <1>5, <1>6, <1>7 DEF PlainFrames, d

-----------------------------------------------------------------------------
(* The productions *)

BInv == IInv /\ OwnInv(M, ctx)

LEMMA ReduceOwn ==
  ASSUME BInv, NEW N, NEW c, Reduce(N, c), N.fatal = Running => OwnInv(N, c)
  PROVE  OwnInv(M', ctx')
<1>1. CASE N.fatal = Running
  BY <1>1 DEF Reduce
<1>2. CASE N.fatal # Running
  <2>1. M' = [M EXCEPT !.fatal = N.fatal] /\ ctx' = ctx /\ M \in State
    BY <1>2 DEF Reduce, BInv, IInv, TypeOK
  <2>2. M'.stack = M.stack /\ M'.prev = M.prev
    BY <2>1 DEF State
  <2>3. OwnInv(M, ctx)
    BY DEF BInv
  <2> QED
    BY <2>1, <2>2, <2>3 DEF OwnInv, Owned, HeldOwn
<1> QED
  BY <1>1, <1>2

LEMMA OwnReady ==
  ASSUME BInv, Live
  PROVE  /\ IInv /\ Ready(M) /\ M \in State /\ FramesOK(ctx) /\ ctx \in Seq(Frames)
         /\ Len(ctx) \in Nat /\ Len(ctx) # 0 /\ Top(ctx) \in Frames
         /\ PlainFrames(ctx) /\ Owned(M, ctx) /\ HeldOwn(M, ctx)
  BY LiveReady, FrameFacts DEF BInv, IInv, OwnInv, FramesOK, TypeOK

(* The scope of a construct with parameters is a visible one above the      *)
(* file's; there is none while a prototype is on hold.                     *)
LEMMA OwnLevel ==
  ASSUME NEW S, Ready(S), NEW c, FramesOK(c), Match(S, c),
         NEW i \in 1..Len(c), HasParams(c[i])
  PROVE  ~S.hold /\ c[i].depth \in 1..Len(S.stack)
<1> DEFINE n == Len(c)
<1>1. /\ n \in Nat /\ \A j \in 1..n : c[j] \in Frames /\ c[j].depth \in 1..c[n].depth
      /\ Top(c) = c[n] /\ c[n].depth \in Nat
  BY FrameFacts
<1>2. n = Len(c)
  OBVIOUS
<1> HIDE DEF n
<1>3. i # 1
  BY DEF HasParams, FramesOK
<1>4. i - 1 \in 1..n /\ i \in 2..n /\ i \in 1..n
  BY ONLY <1>1, <1>2, <1>3, i \in 1..Len(c)
<1>5. Fits(c[i-1], c[i])
  BY <1>2, <1>4 DEF FramesOK
<1>6. c[i].depth = c[i-1].depth + 1 /\ c[i-1].depth \in Nat /\ c[i-1].depth >= 1
  BY <1>1, <1>4, <1>5 DEF Fits, HasParams, OpensScope
<1>7. c[i].depth \in 1..Vis(S) /\ Vis(S) # 1
  BY <1>1, <1>4, <1>6 DEF Match
<1>8. ~S.hold
  BY <1>7 DEF Vis, Ready, StackOK
<1>9. Vis(S) = Len(S.stack)
  <2>1. Len(S.stack) \in Nat
    BY LenProperties DEF Ready, State
  <2> QED
    BY <1>8, <2>1 DEF Vis
<1> QED
  BY <1>7, <1>8, <1>9

LEMMA OwnedKept ==
  ASSUME NEW S, Ready(S), NEW c, FramesOK(c), Match(S, c), Owned(S, c),
         NEW N, SameParams(S, N, Len(S.stack)), NEW d, WithinOwn(d, c)
  PROVE  Owned(N, d)
<1> SUFFICES ASSUME NEW i \in 1..Len(d), HasParams(d[i])
             PROVE  /\ Params(N.stack[d[i].depth]) = d[i].own
                    /\ d[i].kind = "body" => N.prev = d[i].own
  BY DEF Owned
<1>1. PICK j \in 1..Len(c) :
        c[j].kind = d[i].kind /\ c[j].depth = d[i].depth /\ c[j].own = d[i].own
  BY DEF WithinOwn
<1>2. HasParams(c[j])
  BY <1>1 DEF HasParams
<1>3. ~S.hold /\ c[j].depth \in 1..Len(S.stack)
  BY <1>2, OwnLevel
<1>4. /\ Params(S.stack[c[j].depth]) = c[j].own
      /\ c[j].kind = "body" => S.prev = c[j].own
  BY <1>2 DEF Owned
<1> QED
  BY <1>1, <1>3, <1>4 DEF SameParams

LEMMA OwnedClosed ==
  ASSUME NEW S, Ready(S), NEW c, FramesOK(c), Match(S, c), Owned(S, c), PlainFrames(c),
         Len(c) # 1, Top(c).kind \in OpensScope,
         NEW N, SameParams(S, N, Len(S.stack) - 1), NEW d, WithinOwn(d, Front(c))
  PROVE  Owned(N, d)
<1> DEFINE b == Front(c)
<1>1. /\ FramesOK(b) /\ Top(b) = Below(c) /\ Fits(Below(c), Top(c)) /\ Below(c) \in Frames
  BY DropFrame
<1>2. WithinOwn(b, c)
  BY OwnDrop
<1>3. Below(c).depth \in Nat /\ Top(c).depth = Below(c).depth + 1 /\ Top(c).depth = Vis(S)
  BY <1>1 DEF Fits, Frames, Match
<1> HIDE DEF b
<1> SUFFICES ASSUME NEW i \in 1..Len(d), HasParams(d[i])
             PROVE  /\ Params(N.stack[d[i].depth]) = d[i].own
                    /\ d[i].kind = "body" => N.prev = d[i].own
  BY DEF Owned
<1>4. PICK k \in 1..Len(b) :
        b[k].kind = d[i].kind /\ b[k].depth = d[i].depth /\ b[k].own = d[i].own
  BY DEF WithinOwn, b
<1>5. HasParams(b[k])
  BY <1>4 DEF HasParams
<1>6. PICK j \in 1..Len(c) :
        c[j].kind = b[k].kind /\ c[j].depth = b[k].depth /\ c[j].own = b[k].own
  BY <1>2, <1>5 DEF WithinOwn
<1>7. HasParams(c[j])
  BY <1>5, <1>6 DEF HasParams
<1>8. ~S.hold /\ c[j].depth \in 1..Len(S.stack)
  BY <1>7, OwnLevel
<1>9. c[j].depth \in 1..Len(S.stack) - 1
  <2>1. b[k].depth \in 1..Below(c).depth
    BY <1>1, FrameFacts
  <2>2. Len(S.stack) \in Nat /\ Vis(S) = Len(S.stack) - 0
    BY <1>8, LenProperties DEF Ready, State, Vis
  <2>3. Below(c).depth = Len(S.stack) - 1
    BY ONLY <1>3, <2>2
  <2> QED
    BY <1>6, <2>1, <2>3
<1>10. /\ Params(S.stack[c[j].depth]) = c[j].own
       /\ c[j].kind = "body" => S.prev = c[j].own
  BY <1>7 DEF Owned
<1> QED
  BY <1>4, <1>6, <1>8, <1>9, <1>10 DEF SameParams

LEMMA OwnedPushed ==
  ASSUME NEW S, Ready(S), NEW c, FramesOK(c), Match(S, c), Owned(S, c), PlainFrames(c),
         NEW N, SameParams(S, N, Len(S.stack)),
         NEW f \in Frames, Plain(Top(c), f),
         HasParams(f) => /\ f.kind = "params"
                         /\ Params(N.stack[f.depth]) = f.own
  PROVE  Owned(N, Append(c, f))
<1> DEFINE n == Len(c)
           d == Append(c, f)
<1>1. c \in Seq(Frames) /\ n \in Nat
  BY FrameFacts DEF FramesOK
<1>2. Len(d) = n + 1 /\ d[n + 1] = f /\ \A i \in 1..n : d[i] = c[i]
  BY <1>1, AppendFacts
<1>3. WithinOwn(c, c)
  BY DEF WithinOwn
<1>4. Owned(N, c)
  BY <1>3, OwnedKept
<1>5. n = Len(c)
  OBVIOUS
<1> HIDE DEF n, d
<1>6. \A i \in 1..n + 1 : i = n + 1 \/ i \in 1..n
  BY ONLY <1>1
<1> QED
  BY <1>2, <1>4, <1>5, <1>6 DEF Owned, d

LEMMA KeptStep ==
  ASSUME BInv, Live, NEW N, NEW c, Reduce(N, c),
         N.fatal = Running => /\ SameParams(M, N, Len(M.stack))
                              /\ PlainFrames(c) /\ WithinOwn(c, ctx) /\ HeldOwn(N, c)
  PROVE  OwnInv(M', ctx')
<1>1. N.fatal = Running => Owned(N, c)
  BY OwnReady, OwnedKept DEF IInv
<1> QED
  BY <1>1, ReduceOwn DEF OwnInv

(* Declaration specifiers *)
LEMMA SpecOwn ==
  ASSUME NEW c, FramesOK(c), PlainFrames(c), NEW node \in Nat,
         NEW tag \in TagNames \cup {NoTag}, NEW sc \in StorageClasses,
         node # 0 => tag \in TagNames, MayDeclare(c, sc)
  PROVE  LET d == Specifiers(c, node, tag, sc) IN
         /\ FramesOK(d) /\ PlainFrames(d) /\ WithinOwn(d, c)
         /\ Top(d).kind = "decl" /\ Top(d).at = "spec"
<1> DEFINE f == SpecFrame(c, node, tag, sc)
<1>1. Top(c).kind # "decl" /\ Top(c).depth \in Nat
  BY DeclarationStarts, FrameFacts
<1>2. f \in Frames /\ f.kind = "decl" /\ f.sc = sc
  BY <1>1, GrammarAssumption DEF SpecFrame, Frame, Frames, FrameKinds
<1>3. Specifiers(c, node, tag, sc) = Append(c, f)
  BY DEF Specifiers
<1> HIDE DEF f
<1>4. Plain(Top(c), f) /\ ~HasParams(f)
  BY <1>2 DEF Plain, HasParams, MayDeclare
<1>5. PlainFrames(Append(c, f)) /\ WithinOwn(Append(c, f), c)
  BY <1>2, <1>4, OwnPush
<1>6. LET d == Specifiers(c, node, tag, sc) IN
      FramesOK(d) /\ Top(d).kind = "decl" /\ Top(d).at = "spec"
  BY <1>1, SpecFits
<1> QED
  BY <1>3, <1>5, <1>6

LEMMA SelfParams == ASSUME NEW S PROVE SameParams(S, S, Len(S.stack))
  BY DEF SameParams

LEMMA ScalarOwn ==
  ASSUME BInv, Live, NEW sc \in StorageClasses, Scalar(sc) PROVE OwnInv(M', ctx')
<1> DEFINE c == Specifiers(ctx, 0, NoTag, sc)
<1>1. MayDeclare(ctx, sc) /\ Reduce(M, c)
  BY DEF Scalar
<1>2. PlainFrames(c) /\ WithinOwn(c, ctx) /\ Top(c).at = "spec"
  BY <1>1, OwnReady, SpecOwn
<1>3. HeldOwn(M, c)
  BY <1>2 DEF HeldOwn, Reading
<1> QED
  BY <1>1, <1>2, <1>3, SelfParams, KeptStep

LEMMA StructReferenceOwn ==
  ASSUME BInv, Live, NEW sc \in StorageClasses, NEW tag \in Tags,
         StructReference(tag, sc)
  PROVE  OwnInv(M', ctx')
<1> DEFINE N == structunion_set_name(M, tag, FALSE)
           P == After(N, structunion_done(N, FALSE))
           c == Specifiers(ctx, TopStruct(N), tag, sc)
<1>1. MayDeclare(ctx, sc) /\ Reduce(P, c) /\ Ready(M) /\ M \in State /\ tag \in TagNames
  BY OwnReady DEF StructReference, TagNames
<1>2. Keeps(M, N) /\ (N.fatal = Running => Enters(M, N) /\ SameIds(M, N))
  BY <1>1, SetName, SetNameIds
<1> HIDE DEF N
<1>3. ASSUME P.fatal = Running
      PROVE  /\ SameParams(M, P, Len(M.stack))
             /\ PlainFrames(c) /\ WithinOwn(c, ctx) /\ HeldOwn(P, c)
  <2>1. N.fatal = Running /\ P = structunion_done(N, FALSE)
    BY <1>3 DEF After
  <2> HIDE DEF P
  <2>2. Ready(N) /\ (N.hold => M.hold) /\ TopStruct(N) \in Nat
    BY <1>1, <1>2, <2>1, TopOfEntered DEF Keeps, Stays
  <2>3. SameIds(N, P)
    BY <2>1, <2>2, DoneIds
  <2>4. SameParams(M, P, Len(M.stack))
    BY <1>2, <2>1, <2>2, <2>3, SameIdsTransitive, IdsParams
  <2>5. PlainFrames(c) /\ WithinOwn(c, ctx) /\ Top(c).at = "spec"
    BY <1>1, <2>2, OwnReady, SpecOwn
  <2> QED
    BY <2>4, <2>5 DEF HeldOwn, Reading
<1> QED
  BY <1>1, <1>3, KeptStep

LEMMA OpenStructOwn ==
  ASSUME BInv, Live, NEW sc \in StorageClasses, NEW tag \in TagNames,
         OpenStruct(tag, sc)
  PROVE  OwnInv(M', ctx')
<1> DEFINE N == structunion_set_name(M, tag, TRUE)
           d == Specifiers(ctx, TopStruct(N), tag, sc)
           f == [Frame("su", Top(ctx).depth, "empty") EXCEPT
                   !.node = TopStruct(N), !.tag = tag]
           c == Append(d, f)
<1>1. MayDeclare(ctx, sc) /\ Reduce(N, c) /\ Ready(M) /\ M \in State
  BY OwnReady DEF OpenStruct, MayOpenMembers, OpenMembers
<1>2. Keeps(M, N) /\ (N.fatal = Running => Enters(M, N) /\ SameIds(M, N))
  BY <1>1, SetName, SetNameIds
<1> HIDE DEF N
<1>3. ASSUME N.fatal = Running
      PROVE  /\ SameParams(M, N, Len(M.stack))
             /\ PlainFrames(c) /\ WithinOwn(c, ctx) /\ HeldOwn(N, c)
  <2>1. TopStruct(N) \in Nat /\ Top(ctx).depth \in Nat
    BY <1>1, <1>2, <1>3, TopOfEntered, OwnReady, FrameFacts
  <2>2. FramesOK(d) /\ PlainFrames(d) /\ WithinOwn(d, ctx) /\ Top(d).kind = "decl"
    BY <1>1, <2>1, OwnReady, SpecOwn
  <2>3. f \in Frames /\ f.kind = "su"
    BY <2>1, GrammarAssumption DEF Frame, Frames, FrameKinds, OpensScope
  <2> HIDE DEF d, f
  <2>4. Plain(Top(d), f) /\ ~HasParams(f)
    BY <2>3 DEF Plain, HasParams
  <2>5. PlainFrames(c) /\ WithinOwn(c, d)
    BY <2>2, <2>3, <2>4, OwnPush
  <2>6. Top(c) = f
    <3>1. d \in Seq(Frames)
      BY <2>2 DEF FramesOK
    <3>2. Len(c) = Len(d) + 1 /\ c[Len(d) + 1] = f
      BY <2>3, <3>1, AppendFacts
    <3> QED
      BY <3>2 DEF Top
  <2>7. HeldOwn(N, c)
    BY <2>3, <2>6 DEF HeldOwn, Reading
  <2> QED
    BY <1>2, <1>3, <2>2, <2>5, <2>7, WithinOwnTransitive, IdsParams
<1> QED
  BY <1>1, <1>3, KeptStep

LEMMA CloseStructOwn == ASSUME BInv, Live, CloseStruct PROVE OwnInv(M', ctx')
<1> DEFINE N == structunion_done(M, TRUE)
           c == Front(ctx)
<1>1. Top(ctx).kind = "su" /\ Reduce(N, c) /\ FramesOK(ctx) /\ Ready(M) /\ PlainFrames(ctx)
  BY OwnReady DEF CloseStruct, MayCloseMembers, CloseMembers
<1>2. Len(ctx) # 1
  BY <1>1, FrameFacts
<1>3. Top(c) = Below(ctx) /\ Fits(Below(ctx), Top(ctx))
  BY <1>1, <1>2, DropFrame
<1>4. PlainFrames(c) /\ WithinOwn(c, ctx)
  BY <1>1, <1>2, OwnDrop
<1>5. Top(c).at = "spec"
  BY <1>1, <1>3 DEF Fits
<1>6. HeldOwn(N, c)
  BY <1>5 DEF HeldOwn, Reading
<1>7. SameParams(M, N, Len(M.stack))
  BY <1>1, DoneIds, IdsParams
<1> QED
  BY <1>1, <1>4, <1>6, <1>7, KeptStep

-----------------------------------------------------------------------------
(* Declarators and their parameter lists *)

LEMMA NamingOwn ==
  ASSUME BInv, Live, NEW inner \in BOOLEAN, NEW star \in BOOLEAN, NEW n,
         Reading(ctx, {"spec", "more"}), Reduce(M, Named(ctx, n, inner, star)),
         \/ n \in NamesHere(ctx)
         \/ n = NoName /\ Below(ctx).kind \in {"params", "aparams"}
  PROVE  OwnInv(M', ctx')
<1> DEFINE t == Top(ctx)
           f == [t EXCEPT !.at = "name", !.name = n, !.inner = inner, !.star = star]
           c == Named(ctx, n, inner, star)
<1>1. /\ t.kind = "decl" /\ t \in Frames /\ FramesOK(ctx) /\ PlainFrames(ctx) /\ Len(ctx) # 1
  BY OwnReady, FrameFacts DEF Reading
<1>2. Plain(Below(ctx), t)
  BY <1>1, OwnDrop
<1>3. n \in Idents \cup Members \cup {NoName}
  BY DEF NamesHere
<1>4. c = ReplaceTop(ctx, f)
  BY DEF Named
<1>5. Top(c).lists = 0
  BY <1>1, NamedFits
<1> HIDE DEF t
<1>6. f \in Frames /\ f.kind = "decl" /\ f.depth = t.depth /\ f.sc = t.sc
  BY <1>1, <1>3 DEF Frames
<1> HIDE DEF f
<1>7. Plain(Below(ctx), f) /\ ~HasParams(f)
  BY <1>1, <1>2, <1>6 DEF Plain, HasParams
<1>8. PlainFrames(c) /\ WithinOwn(c, ctx)
  BY <1>1, <1>4, <1>6, <1>7, OwnSwap DEF t
<1>9. HeldOwn(M, c)
  BY <1>5 DEF HeldOwn, IsFunction
<1> QED
  BY <1>8, <1>9, SelfParams, KeptStep

LEMMA NameOwn ==
  ASSUME BInv, Live, NEW n, NEW inner \in BOOLEAN, NEW star \in BOOLEAN,
         Name(n, inner, star)
  PROVE  OwnInv(M', ctx')
  BY NamingOwn DEF Name, MayName

LEMMA OmitNameOwn ==
  ASSUME BInv, Live, NEW star \in BOOLEAN, OmitName(star) PROVE OwnInv(M', ctx')
  BY NamingOwn DEF OmitName, MayOmitName, MayName

(* The programs the theorem is about: no function returns a function        *)
(* pointer, and no type without a name is a function.                      *)
OneList == MaxLists <= 1 /\ ~AbstractFns

(* The list that is opened is then the first of a named declarator. *)
LEMMA FirstList ==
  ASSUME OneList, BInv, Live, MayOpenList(ctx)
  PROVE  Top(ctx).name # NoName /\ Top(ctx).lists = 0 /\ Top(ctx).kind = "decl"
         /\ Top(ctx).at = "name"
<1>1. Top(ctx).lists \in Nat /\ MaxLists \in Nat
  BY OwnReady, GrammarAssumption DEF Frames
<1>2. Top(ctx).lists < MaxLists /\ MaxLists <= 1
  BY DEF MayOpenList, OneList
<1> QED
  BY <1>1, <1>2 DEF MayOpenList, OneList, Reading

LEMMA OpenParamsOwn ==
  ASSUME OneList, BInv, Live, OpenParams PROVE OwnInv(M', ctx')
<1> DEFINE t == Top(ctx)
           f == Frame("params", t.depth + 1, "empty")
           c == Append(ctx, f)
           N == scope_push(M, "proto")
<1>1. t.name # NoName /\ t.lists = 0 /\ t.kind = "decl"
  BY FirstList DEF OpenParams
<1>2. /\ Ready(M) /\ M \in State /\ FramesOK(ctx) /\ PlainFrames(ctx) /\ t.depth \in Nat
      /\ Owned(M, ctx) /\ Match(M, ctx)
  BY OwnReady, FrameFacts DEF IInv
<1>3. Reduce(N, c)
  BY <1>1 DEF OpenParams, OpenList, Push, OpensScope
<1>4. f \in Frames /\ f.kind = "params" /\ f.depth = t.depth + 1 /\ f.own = {}
  BY <1>2, GrammarAssumption DEF Frame, Frames, FrameKinds, OpensScope
<1>5. t.depth = Vis(M)
  BY <1>2 DEF Match
<1>6. SameParams(M, N, Len(M.stack)) /\ Params(N.stack[f.depth]) = f.own
  BY <1>2, <1>4, <1>5, PushParams DEF ScopeTypes
<1> HIDE DEF f, N
<1>7. Plain(t, f)
  BY <1>1, <1>4 DEF Plain
<1>8. PlainFrames(c)
  BY <1>2, <1>4, <1>7, OwnPush
<1>9. Owned(N, c)
  BY <1>2, <1>4, <1>6, <1>7, OwnedPushed
<1>10. Top(c) = f
  <2>1. ctx \in Seq(Frames)
    BY OwnReady
  <2>2. Len(c) = Len(ctx) + 1 /\ c[Len(ctx) + 1] = f
    BY <1>4, <2>1, AppendFacts
  <2> QED
    BY <2>2 DEF Top
<1>11. HeldOwn(N, c)
  BY <1>4, <1>10 DEF HeldOwn, Reading
<1> QED
  BY <1>3, <1>8, <1>9, <1>11, ReduceOwn DEF OwnInv

LEMMA WithFirstList ==
  ASSUME NEW t \in Frames, t.lists = 0, NEW names \in SUBSET Idents,
         NEW nameless \in BOOLEAN
  PROVE  LET f == WithList(t, names, nameless) IN
         /\ f \in Frames /\ f.kind = t.kind /\ f.depth = t.depth /\ f.sc = t.sc
         /\ f.inner = t.inner /\ (~t.inner => f.own = names)
<1> DEFINE o == IF t.lists = 0 /\ ~t.inner THEN names ELSE t.own
           a == IF t.lists = 0 /\ ~t.inner THEN nameless ELSE t.nameless
           f == [t EXCEPT !.lists = @ + 1, !.own = o, !.nameless = a]
<1>1. WithList(t, names, nameless) = f
  BY DEF WithList
<1>2. o \in SUBSET Idents /\ a \in BOOLEAN /\ t.lists + 1 \in Nat /\ (~t.inner => o = names)
  BY DEF Frames
<1> HIDE DEF o, a
<1>3. /\ f \in Frames /\ f.kind = t.kind /\ f.depth = t.depth /\ f.sc = t.sc
      /\ f.inner = t.inner /\ f.own = o
  BY <1>2 DEF Frames
<1> QED
  BY <1>1, <1>2, <1>3

LEMMA CloseParamsOwn ==
  ASSUME BInv, Live, CloseParams PROVE OwnInv(M', ctx')
<1> DEFINE t == Top(ctx)
           b == Front(ctx)
           g == Below(ctx)
           f == WithList(g, t.own, t.nameless)
           c == ReplaceTop(b, f)
           N == scope_pop(M)
<1>1. /\ Ready(M) /\ M \in State /\ FramesOK(ctx) /\ PlainFrames(ctx) /\ t \in Frames
      /\ Owned(M, ctx) /\ Match(M, ctx) /\ IInv
  BY OwnReady DEF IInv
<1>2. t.kind \in {"params", "aparams"} /\ Len(ctx) # 1
  BY <1>1, FrameFacts DEF CloseParams, MayCloseList
<1>3. Plain(g, t) /\ PlainFrames(b)
  BY <1>1, <1>2, OwnDrop
<1>4. t.kind = "params" /\ g.lists = 0 /\ t.kind \in OpensScope
  BY <1>2, <1>3 DEF Plain, OpensScope
<1>5. Reduce(N, c)
  BY <1>4 DEF CloseParams, CloseList
<1>6. /\ FramesOK(b) /\ Top(b) = g /\ g \in Frames /\ Fits(g, t)
  BY <1>1, <1>2, DropFrame
<1>7. g.kind = "decl" /\ g.at = "name"
  BY <1>4, <1>6 DEF Fits
<1>8. t.own \in SUBSET Idents /\ t.nameless \in BOOLEAN
  BY <1>1 DEF Frames
<1>9. /\ ~M.hold /\ Len(M.stack) # 1 /\ Len(M.stack) = t.depth
      /\ M.stack[Len(M.stack)].type = "proto" /\ t.depth = g.depth + 1
  BY <1>1, <1>4, InConstruct DEF TypeOfScope
<1>10. Len(M.stack) # 0
  BY <1>1 DEF Ready, StackOK
<1>11. /\ SameParams(M, N, Len(M.stack) - 1)
       /\ Len(M.stack) = 2 => N.stack = M.stack
  BY <1>1, <1>9, <1>10, PopParams
<1>12. Params(M.stack[t.depth]) = t.own
  <2>1. Len(ctx) \in 1..Len(ctx) /\ t = ctx[Len(ctx)]
    BY <1>1, FrameFacts
  <2> QED
    BY <1>1, <1>4, <2>1 DEF Owned, HasParams
<1>13. /\ f \in Frames /\ f.kind = g.kind /\ f.depth = g.depth /\ f.sc = g.sc
       /\ f.inner = g.inner /\ (~g.inner => f.own = t.own)
  <2> HIDE DEF t, g
  <2> QED
    BY <1>4, <1>6, <1>8, WithFirstList
<1> HIDE DEF f, N, b
<1>14. Len(b) # 1 => Plain(Below(b), f)
  <2> SUFFICES ASSUME Len(b) # 1 PROVE Plain(Below(b), f)
    OBVIOUS
  <2>1. Plain(Below(b), g)
    BY <1>3, <1>6, OwnDrop
  <2> QED
    BY <1>7, <1>13, <2>1 DEF Plain
<1>15. PlainFrames(c) /\ WithinOwn(c, b)
  BY <1>3, <1>6, <1>7, <1>13, <1>14, OwnSwap DEF HasParams
<1>16. Owned(N, c)
  BY <1>1, <1>2, <1>4, <1>11, <1>15, OwnedClosed DEF b
<1>17. HeldOwn(N, c)
  <2> SUFFICES ASSUME Below(c).kind = "file", IsFunction(Top(c))
               PROVE  Params(N.stack[2]) = Top(c).own
    BY DEF HeldOwn
  <2>1. Top(c) = f /\ Below(c) = Below(b)
    <3>1. Top(c) = f
      BY <1>3, <1>6, <1>13, <1>14, OwnSwap
    <3>2. Reading(b, {"name"})
      BY <1>6, <1>7 DEF Reading
    <3>3. c = ReplaceTop(b, WithList(Top(b), t.own, t.nameless))
      BY <1>6 DEF f
    <3> QED
      BY <1>6, <1>8, <3>1, <3>2, <3>3, ListRead
  <2>2. Len(b) # 1
    BY <1>6, <1>7, FrameFacts
  <2>3. g.depth = 1
    BY <1>6, <1>7, <2>1, <2>2, AtFileLevel
  <2>4. Len(M.stack) = 2 /\ f.own = t.own
    BY <1>9, <1>13, <2>1, <2>3 DEF IsFunction
  <2> QED
    BY <1>9, <1>11, <1>12, <2>1, <2>4
<1> QED
  BY <1>5, <1>15, <1>16, <1>17, ReduceOwn DEF OwnInv

LEMMA EmptyParamsOwn ==
  ASSUME OneList, BInv, Live, EmptyParams PROVE OwnInv(M', ctx')
<1> DEFINE t == Top(ctx)
           f == WithList(t, {}, FALSE)
           c == ReplaceTop(ctx, f)
           P == scope_push(M, "proto")
           N == scope_pop(P)
<1>1. t.name # NoName /\ t.lists = 0 /\ t.kind = "decl" /\ t.at = "name"
  BY FirstList DEF EmptyParams
<1>2. /\ Ready(M) /\ M \in State /\ FramesOK(ctx) /\ PlainFrames(ctx) /\ t \in Frames
      /\ Owned(M, ctx) /\ Match(M, ctx)
  BY OwnReady DEF IInv
<1>3. Reduce(N, c)
  BY <1>1 DEF EmptyParams, EmptyList
<1>4. Opens(M, P, "proto") /\ Ready(P) /\ P \in State /\ ~P.hold
  BY <1>2, PushPrototype DEF Opens, Ready
<1>5. SameParams(M, P, Len(M.stack)) /\ Len(P.stack) = Vis(M) + 1
      /\ Params(P.stack[Vis(M) + 1]) = {}
  BY <1>2, PushParams DEF ScopeTypes
<1> HIDE DEF P
<1>6. Vis(M) \in Nat /\ Vis(M) # 0 /\ Vis(M) = t.depth
  <2>1. t.depth \in Nat /\ t.depth \in 1..t.depth
    BY <1>2, FrameFacts
  <2> QED
    BY <1>2, <2>1 DEF Match
<1>7. Len(P.stack) \notin {0, 1} /\ Len(P.stack) - 1 = Vis(M)
  BY <1>5, <1>6
<1>8. /\ SameParams(P, N, Len(P.stack) - 1)
      /\ Len(P.stack) = 2 /\ P.stack[2].type = "proto" => N.stack = P.stack
  BY <1>4, <1>7, PopParams
<1>9. SameParams(M, N, Len(M.stack))
  <2>1. ~M.hold => Vis(M) = Len(M.stack)
    BY <1>2, LenProperties DEF Vis, State
  <2> QED
    BY <1>4, <1>5, <1>7, <1>8, <2>1 DEF SameParams
<1>10. /\ f \in Frames /\ f.kind = t.kind /\ f.depth = t.depth /\ f.sc = t.sc
       /\ f.inner = t.inner /\ (~t.inner => f.own = {})
  <2> HIDE DEF t
  <2> QED
    BY <1>1, <1>2, WithFirstList
<1> HIDE DEF f, N
<1>11. Len(ctx) # 1 /\ Plain(Below(ctx), t)
  BY <1>1, <1>2, FrameFacts, OwnDrop
<1>12. Plain(Below(ctx), f) /\ ~HasParams(f)
  BY <1>1, <1>10, <1>11 DEF Plain, HasParams
<1>13. PlainFrames(c) /\ WithinOwn(c, ctx) /\ Top(c) = f
  BY <1>2, <1>10, <1>12, OwnSwap
<1>14. Below(c) = Below(ctx)
  BY <1>1, <1>2, ListRead DEF Reading, f
<1>15. HeldOwn(N, c)
  <2> SUFFICES ASSUME Below(c).kind = "file", IsFunction(Top(c))
               PROVE  Params(N.stack[2]) = Top(c).own
    BY DEF HeldOwn
  <2>1. t.depth = 1
    BY <1>1, <1>2, <1>14, AtFileLevel
  <2>2. Vis(M) = 1 /\ Len(P.stack) = 2 /\ Params(P.stack[2]) = {}
    BY <1>5, <1>6, <2>1
  <2>3. P.stack[2].type = "proto"
    <3>1. Vis(P) = Vis(M) + 1 /\ P.stack[Vis(P)].type = "proto"
      BY <1>4 DEF Opens
    <3> QED
      BY <2>2, <3>1
  <2>4. f.own = {}
    BY <1>10, <1>13 DEF IsFunction
  <2> QED
    BY <1>8, <1>13, <2>2, <2>3, <2>4
<1> QED
  BY <1>3, <1>9, <1>13, <1>15, KeptStep

-----------------------------------------------------------------------------
(* Declarations *)

(* A host other than a parameter list keeps its names. *)
LEMMA HostOwn ==
  ASSUME NEW h \in Frames, NEW f, h.kind # "aparams"
  PROVE  LET g == HostAfter(h, f) IN
         /\ h.kind = "params" => g.own = h.own \cup ({f.name} \ {NoName})
         /\ h.kind # "params" => g.own = h.own
         /\ g.sc = h.sc /\ g.lists = h.lists
<1> DEFINE names == h.own \cup ({f.name} \ {NoName})
           anon  == h.nameless \/ f.name = NoName
<1>1. CASE h.kind = "params"
  <2>1. HostAfter(h, f) = [h EXCEPT !.at = "some", !.own = names, !.nameless = anon]
    BY <1>1 DEF HostAfter
  <2> HIDE DEF names, anon
  <2>2. HostAfter(h, f).own = names /\ HostAfter(h, f).sc = h.sc
        /\ HostAfter(h, f).lists = h.lists
    BY <2>1 DEF Frames
  <2> QED
    BY <1>1, <2>2 DEF names
<1>2. CASE h.kind # "params"
  BY <1>2 DEF HostAfter, Frames
<1> QED
  BY <1>1, <1>2

(* A declaration that is not a parameter ends. *)
LEMMA EndOwn ==
  ASSUME NEW c, FramesOK(c), PlainFrames(c), Top(c).kind = "decl"
  PROVE  LET d == ReplaceTop(Front(c), HostAfter(Below(c), Top(c))) IN
         /\ PlainFrames(d) /\ Top(d) = HostAfter(Below(c), Top(c))
         /\ Below(c).kind # "params" => WithinOwn(d, c)
<1> DEFINE b == Front(c)
           g == Below(c)
           f == HostAfter(g, Top(c))
           d == ReplaceTop(b, f)
<1>1. Len(c) # 1 /\ Top(c) \in Frames
  BY FrameFacts
<1>2. /\ FramesOK(b) /\ Top(b) = g /\ g \in Frames /\ Fits(g, Top(c))
  BY <1>1, DropFrame
<1>3. PlainFrames(b) /\ WithinOwn(b, c) /\ Plain(g, Top(c))
  BY <1>1, OwnDrop
<1>4. f \in Frames /\ f.kind = g.kind /\ f.depth = g.depth
  BY <1>1, <1>2, HostShape
<1>5. Len(b) # 1 => Plain(Below(b), g) /\ Fits(Below(b), g)
  BY <1>2, <1>3, OwnDrop, DropFrame
<1>6. g.kind # "aparams" /\ g.kind # "decl"
  <2>1. g.kind # "decl"
    BY <1>2 DEF Fits
  <2>2. CASE Len(b) = 1
    BY <1>2, <2>1, <2>2, FrameFacts
  <2>3. CASE Len(b) # 1
    BY <1>5, <2>1, <2>3 DEF Plain
  <2> QED
    BY <2>2, <2>3
<1>7. (g.kind # "params" => f.own = g.own) /\ f.lists = g.lists
  <2> HIDE DEF g
  <2> QED
    BY <1>2, <1>6, HostOwn
<1> HIDE DEF f, b, g
<1>8. Len(b) # 1 => Plain(Below(b), f)
  BY <1>4, <1>5, <1>6 DEF Plain
<1>9. /\ PlainFrames(d) /\ Top(d) = f
      /\ g.kind # "params" => WithinOwn(d, b)
  BY <1>2, <1>3, <1>4, <1>7, <1>8, OwnSwap
<1> QED
  BY <1>3, <1>9, WithinOwnTransitive DEF f, b, g

LEMMA DeclaratorFacts ==
  ASSUME BInv, Live, Reading(ctx, {"name"})
  PROVE  /\ Top(ctx).kind = "decl" /\ Top(ctx).at = "name" /\ Top(ctx) \in Frames
         /\ Len(ctx) # 1 /\ FramesOK(ctx) /\ Fits(Below(ctx), Top(ctx))
         /\ Below(ctx) \in Frames /\ Below(ctx).kind \notin {"aparams", "decl"}
         /\ Plain(Below(ctx), Top(ctx)) /\ Top(ctx).sc \in {"none", "extern", "static"}
         /\ FramesOK(Front(ctx)) /\ Top(Front(ctx)) = Below(ctx)
         /\ Below(ctx).depth = Top(ctx).depth
<1>1. Top(ctx).kind = "decl" /\ Top(ctx).at = "name" /\ FramesOK(ctx) /\ PlainFrames(ctx)
      /\ Top(ctx) \in Frames
  BY OwnReady DEF Reading
<1>2. Len(ctx) # 1
  BY <1>1, FrameFacts
<1>3. /\ FramesOK(Front(ctx)) /\ Top(Front(ctx)) = Below(ctx)
      /\ Below(ctx) \in Frames /\ Fits(Below(ctx), Top(ctx))
  BY <1>1, <1>2, DropFrame
<1>4. Plain(Below(ctx), Top(ctx)) /\ PlainFrames(Front(ctx))
  BY <1>1, <1>2, OwnDrop
<1>5. Below(ctx).kind # "aparams"
  <2>1. CASE Len(Front(ctx)) = 1
    BY <1>3, <2>1, FrameFacts
  <2>2. CASE Len(Front(ctx)) # 1
    BY <1>3, <1>4, <2>2, OwnDrop DEF Plain
  <2> QED
    BY <2>1, <2>2
<1>6. Top(ctx).sc \in {"none", "extern", "static"}
  BY <1>1, GrammarAssumption DEF Frames
<1>7. Below(ctx).depth = Top(ctx).depth /\ Below(ctx).kind # "decl"
  <2>1. Below(ctx).depth \in Nat
    BY <1>3 DEF Frames
  <2> QED
    BY <1>1, <1>3, <2>1 DEF Fits, OpensScope
<1> QED
  BY <1>1, <1>2, <1>3, <1>4, <1>5, <1>6, <1>7

(* The constructs below a declarator, and the scope it is declared in *)
LEMMA DeclaredIn ==
  ASSUME BInv, Live, Reading(ctx, {"name"})
  PROVE  LET b == Front(ctx) IN
         /\ Match(M, b) /\ Owned(M, b) /\ PlainFrames(b) /\ WithinOwn(b, ctx)
         /\ ~M.hold /\ Below(ctx).kind \in Scoped =>
              M.stack[Len(M.stack)].type = TypeOfScope(Below(ctx).kind)
<1> DEFINE b == Front(ctx)
<1>1. /\ IInv /\ Ready(M) /\ M \in State /\ FramesOK(ctx) /\ PlainFrames(ctx)
      /\ Owned(M, ctx) /\ Match(M, ctx)
  BY OwnReady DEF IInv
<1>2. /\ FramesOK(b) /\ Top(b) = Below(ctx) /\ Below(ctx).depth = Top(ctx).depth
      /\ Len(ctx) # 1
  BY DeclaratorFacts
<1>3. Within(b, ctx) /\ Stays(M, M)
  BY <1>1, <1>2, DropFrame DEF Stays
<1>4. Match(M, b)
  BY <1>1, <1>2, <1>3, MatchStays
<1>5. PlainFrames(b) /\ WithinOwn(b, ctx)
  BY <1>1, <1>2, OwnDrop
<1>6. Owned(M, b)
  BY <1>1, <1>5, SelfParams, OwnedKept
<1> HIDE DEF b
<1>7. ASSUME ~M.hold, Below(ctx).kind \in Scoped
      PROVE  M.stack[Len(M.stack)].type = TypeOfScope(Below(ctx).kind)
  <2>1. Len(b) \in 1..Len(b) /\ Top(b) = b[Len(b)]
    BY <1>2, FrameFacts
  <2>2. Len(M.stack) \in Nat /\ Vis(M) = Len(M.stack) - 0
    BY <1>1, <1>7, LenProperties DEF Vis, State
  <2>3. Top(b).depth = Len(M.stack)
    BY <1>4, <2>2 DEF Match
  <2> QED
    BY <1>2, <1>4, <1>7, <2>1, <2>3 DEF Match
<1> QED
  BY <1>4, <1>5, <1>6, <1>7 DEF b

(* Outside a parameter list no scope gets a parameter. *)
LEMMA InstallKept ==
  ASSUME BInv, Live, Reading(ctx, {"name"}), Below(ctx).kind # "params",
         NEW N, N = Install(Top(ctx)), N.fatal = Running
  PROVE  SameParams(M, N, Len(M.stack))
<1> DEFINE t == Top(ctx)
           g == Below(ctx)
<1>1. /\ t.at = "name" /\ g \in Frames /\ Fits(g, t) /\ g.kind \notin {"aparams", "decl"}
      /\ t.kind = "decl" /\ t.sc \in {"none", "extern", "static"} /\ t \in Frames
  BY DeclaratorFacts
<1>2. Ready(M)
  BY OwnReady
<1>3. CASE g.kind = "su"
  BY <1>2, <1>3, MemberIds, IdsParams DEF Install
<1>4. CASE g.kind # "su"
  <2>1. t.name # NoName /\ t.name \in Idents
    BY <1>1, <1>4 DEF Fits
  <2>2. N = decl_install(M, t.name, t.sc, IsFunction(t), t.node, BehindPointer(t))
    BY <1>4, <2>1 DEF Install
  <2>3. M.hold \/ M.stack[Len(M.stack)].type # "proto"
    <3>1. g.kind \in Scoped /\ TypeOfScope(g.kind) # "proto"
      BY <1>1, <1>4 DEF Scoped, OpensScope, Frames, FrameKinds, TypeOfScope
    <3> QED
      BY <3>1, DeclaredIn
  <2> HIDE DEF t
  <2>4. M.stack[Len(M.stack)].type # "proto" => SameParams(M, N, Len(M.stack))
    BY <1>1, <1>2, <2>1, <2>2, InstallParams
  <2> QED
    BY <2>3, <2>4 DEF SameParams
<1> QED
  BY <1>3, <1>4

(* A parameter is declared in the scope of its list, and noted there. *)
LEMMA ParameterOwned ==
  ASSUME BInv, Live, Reading(ctx, {"name"}), Below(ctx).kind = "params",
         NEW N, N = Install(Top(ctx)), N.fatal = Running
  PROVE  Owned(N, ReplaceTop(Front(ctx), HostAfter(Below(ctx), Top(ctx))))
<1> DEFINE t == Top(ctx)
           g == Below(ctx)
           b == Front(ctx)
           f == HostAfter(g, t)
           d == ReplaceTop(b, f)
           l == Len(M.stack)
<1>1. /\ t.at = "name" /\ g \in Frames /\ Fits(g, t) /\ Plain(g, t) /\ t.kind = "decl"
      /\ t.sc \in {"none", "extern", "static"} /\ t \in Frames
      /\ FramesOK(b) /\ Top(b) = g /\ Len(ctx) # 1
  BY DeclaratorFacts
<1>2. Ready(M) /\ M \in State
  BY OwnReady
<1>3. Match(M, b) /\ Owned(M, b) /\ PlainFrames(b)
  BY DeclaredIn
<1>4. g.kind \in OpensScope /\ g.kind # "file" /\ HasParams(g) /\ g.kind \in Scoped
  BY DEF OpensScope, HasParams, Scoped
<1>5. Len(b) # 1 /\ Len(b) \in 1..Len(b) /\ g = b[Len(b)] /\ Len(b) \in Nat
  BY <1>1, <1>4, FrameFacts
<1> HIDE DEF b, t, g
<1>6. ~M.hold /\ g.depth \in 1..l
  BY <1>1, <1>2, <1>3, <1>4, <1>5, OwnLevel
<1>7. g.depth = l
  <2>1. Len(M.stack) \in Nat /\ Vis(M) = Len(M.stack) - 0
    BY <1>2, <1>6, LenProperties DEF Vis, State
  <2> QED
    BY <1>1, <1>3, <2>1 DEF Match
<1>8. M.stack[l].type = "proto"
  <2>1. TypeOfScope(g.kind) = "proto"
    BY DEF TypeOfScope, g
  <2> QED
    BY <1>3, <1>4, <1>5, <1>7, <2>1 DEF Match
<1>9. Params(M.stack[l]) = g.own
  BY <1>3, <1>4, <1>5, <1>7 DEF Owned
<1>10. g.kind = "params"
  BY DEF g
<1>11. SameParams(M, N, l - 1) /\ Params(N.stack[l]) = g.own \cup ({t.name} \ {NoName})
  <2>1. CASE t.name = NoName
    <3>1. N = decl_finalize(M, t.node, BehindPointer(t))
      BY <1>10, <2>1 DEF Install, t, g
    <3>2. N = M
      BY <1>2, <3>1, FinalizeChecks DEF Checked
    <3> QED
      BY <1>9, <2>1, <3>2 DEF SameParams
  <2>2. CASE t.name # NoName
    <3>1. N = decl_install(M, t.name, t.sc, IsFunction(t), t.node, BehindPointer(t))
      BY <1>10, <2>2 DEF Install, t, g
    <3>2. t.name \in Idents /\ t.sc = "none"
      BY <1>1, <1>10, <2>2 DEF Fits, Plain
    <3>3. GetsParam(M, N, t.name, t.sc)
      BY <1>1, <1>2, <3>1, <3>2, ParameterParams
    <3>4. SameParams(M, N, l - 1) /\ Params(N.stack[l]) = Params(M.stack[l]) \cup {t.name}
      BY <1>6, <1>8, <3>2, <3>3 DEF GetsParam
    <3> QED
      BY <1>9, <2>2, <3>4
  <2> QED
    BY <2>1, <2>2
<1>12. Owned(N, Front(b))
  <2>1. WithinOwn(Front(b), Front(b))
    BY DEF WithinOwn
  <2> QED
    BY <1>1, <1>2, <1>3, <1>4, <1>5, <1>11, <2>1, OwnedClosed
<1>13. f \in Frames /\ f.kind = "params" /\ f.depth = l
       /\ f.own = g.own \cup ({t.name} \ {NoName})
  BY <1>1, <1>7, <1>10, HostShape, HostOwn
<1> HIDE DEF f, l
<1>14. /\ Len(d) = Len(b)
       /\ \A i \in 1..Len(b) : d[i] = IF i = Len(b) THEN f ELSE b[i]
  <2>1. b \in Seq(Frames)
    BY <1>1 DEF FramesOK
  <2> QED
    BY <1>5, <1>13, <2>1, ExceptSeq DEF ReplaceTop
<1>15. /\ Len(Front(b)) = Len(b) - 1
       /\ \A i \in 1..Len(b) - 1 : Front(b)[i] = b[i]
  <2>1. b \in Seq(Frames) /\ Len(b) # 0
    BY <1>1 DEF FramesOK
  <2> QED
    BY <2>1, FrontFacts
<1> HIDE DEF d
<1>16. \A i \in 1..Len(b) : i # Len(b) => i \in 1..Len(b) - 1
  BY <1>5
<1>17. ASSUME NEW i \in 1..Len(d), HasParams(d[i])
       PROVE  /\ Params(N.stack[d[i].depth]) = d[i].own
              /\ d[i].kind = "body" => N.prev = d[i].own
  <2>1. CASE i = Len(b)
    BY <1>11, <1>13, <1>14, <2>1
  <2>2. CASE i # Len(b)
    BY <1>12, <1>14, <1>15, <1>16, <1>17, <2>2 DEF Owned
  <2> QED
    BY <2>1, <2>2
<1>18. Owned(N, d)
  BY <1>17 DEF Owned
<1> QED
  BY <1>18 DEF b, d, f, g, t

LEMMA DeclaratorOwn ==
  ASSUME BInv, Live, NEW more \in BOOLEAN, Declarator(more) PROVE OwnInv(M', ctx')
<1> DEFINE t == Top(ctx)
           N == Install(t)
           c == EndDeclarator(ctx, more)
<1>1. /\ Reading(ctx, {"name"}) /\ Reduce(N, c)
      /\ more => Below(ctx).kind # "params"
  BY DEF Declarator, MayEndDeclarator
<1>2. /\ t.kind = "decl" /\ t \in Frames /\ Len(ctx) # 1 /\ FramesOK(ctx)
      /\ Plain(Below(ctx), t) /\ PlainFrames(ctx)
  BY <1>1, DeclaratorFacts, OwnReady
<1>3. N.fatal = Running /\ Below(ctx).kind # "params" => SameParams(M, N, Len(M.stack))
  BY <1>1, InstallKept
<1>4. CASE more
  <2> DEFINE s == SpecFrame(ctx, t.node, t.tag, t.sc)
             f == [s EXCEPT !.at = "more", !.first = FALSE]
  <2>1. s \in Frames /\ s.kind = "decl" /\ s.depth = t.depth /\ s.sc = t.sc
    BY <1>2, GrammarAssumption DEF SpecFrame, Frame, Frames, FrameKinds
  <2>2. c = ReplaceTop(ctx, f)
    BY <1>4 DEF EndDeclarator
  <2> HIDE DEF s
  <2>3. f \in Frames /\ f.kind = "decl" /\ f.depth = t.depth /\ f.sc = t.sc /\ f.at = "more"
    BY <2>1 DEF Frames
  <2> HIDE DEF f, N
  <2>4. Plain(Below(ctx), f) /\ ~HasParams(f)
    BY <1>2, <2>3 DEF Plain, HasParams
  <2>5. PlainFrames(c) /\ WithinOwn(c, ctx) /\ Top(c) = f
    BY <1>2, <2>2, <2>3, <2>4, OwnSwap
  <2>6. HeldOwn(N, c)
    BY <2>3, <2>5 DEF HeldOwn, Reading
  <2> QED
    BY <1>1, <1>3, <1>4, <2>5, <2>6, KeptStep
<1>5. CASE ~more
  <2>1. c = ReplaceTop(Front(ctx), HostAfter(Below(ctx), t))
    BY <1>5 DEF EndDeclarator
  <2>2. Top(c).kind # "decl"
    BY <1>2, <2>1, DeclarationEnds
  <2>3. /\ PlainFrames(c)
        /\ Below(ctx).kind # "params" => WithinOwn(c, ctx)
    BY <1>2, <2>1, EndOwn
  <2>4. HeldOwn(N, c)
    BY <2>2 DEF HeldOwn, Reading
  <2>5. CASE Below(ctx).kind = "params"
    <3>1. N.fatal = Running => Owned(N, c)
      BY <1>1, <2>1, <2>5, ParameterOwned
    <3> QED
      BY <1>1, <2>3, <2>4, <3>1, ReduceOwn DEF OwnInv
  <2>6. CASE Below(ctx).kind # "params"
    BY <1>1, <1>3, <2>3, <2>4, <2>6, KeptStep
  <2> QED
    BY <2>5, <2>6
<1> QED
  BY <1>4, <1>5

LEMMA EmptyDeclarationOwn ==
  ASSUME BInv, Live, EmptyDeclaration PROVE OwnInv(M', ctx')
<1> DEFINE t == Top(ctx)
           N == declspec_check_empty(M, t.node, t.tag, t.sc)
           c == EndEmpty(ctx)
<1>1. /\ t.kind = "decl" /\ FramesOK(ctx) /\ PlainFrames(ctx) /\ Ready(M) /\ Len(ctx) # 1
      /\ Reduce(N, c) /\ Below(ctx).kind # "params"
  BY OwnReady, FrameFacts DEF EmptyDeclaration, MayEndEmpty, Reading
<1>2. Fits(Below(ctx), t)
  BY <1>1, DropFrame
<1>3. c = ReplaceTop(Front(ctx), HostAfter(Below(ctx), t))
  BY DEF EndEmpty
<1>4. Top(c).kind # "decl"
  BY <1>1, <1>3, DeclarationEnds
<1>5. PlainFrames(c) /\ WithinOwn(c, ctx)
  BY <1>1, <1>3, EndOwn
<1>6. HeldOwn(N, c)
  BY <1>4 DEF HeldOwn, Reading
<1>7. N.fatal = Running => SameParams(M, N, Len(M.stack))
  <2>1. CASE N = M
    BY <2>1, SelfParams
  <2>2. CASE N # M
    <3>1. N = structunion_forward_declare(M, t.tag) /\ t.node # 0
      BY <2>2 DEF declspec_check_empty, Absent
    <3>2. t.tag \in TagNames
      BY <1>1, <1>2, <3>1 DEF Fits
    <3> QED
      BY <1>1, <3>1, <3>2, ForwardIds, IdsParams
  <2> QED
    BY <2>1, <2>2
<1> HIDE DEF N
<1> QED
  BY <1>1, <1>5, <1>6, <1>7, KeptStep

-----------------------------------------------------------------------------
(* Function definitions *)

(* The function's own name joins the file scope, not its parameters. *)
LEMMA DefineOwn ==
  ASSUME BInv, Live, MayDefine(ctx), NEW N, N = Define(Top(ctx)), N.fatal = Running
  PROVE  Params(N.stack[2]) = Top(ctx).own
<1> DEFINE t == Top(ctx)
           C == decl_check_fndef(M, IsFunction(t), t.nameless)
           D == decl_install(scope_set_fndef(C), t.name, t.sc, IsFunction(t),
                             t.node, BehindPointer(t))
<1>1. /\ Ready(M) /\ M \in State /\ t \in Frames /\ HeldOwn(M, ctx) /\ IInv
      /\ Reading(ctx, {"name"}) /\ Below(ctx).kind = "file"
  BY OwnReady DEF MayDefine
<1>2. t.sc \in {"none", "extern", "static"} /\ t.kind = "decl" /\ t.at = "name"
      /\ Fits(Below(ctx), t)
  BY <1>1, DeclaratorFacts
<1>3. Checked(M, C) /\ (C.fatal = Running => IsFunction(t))
  BY <1>1, CheckFndef
<1> HIDE DEF C
<1>4. C.fatal = Running /\ N = D
  <2>1. N = IF C.fatal = Running THEN D ELSE C
    BY DEF Define, After, C
  <2> QED
    BY <2>1
<1>5. C = M /\ IsFunction(t)
  BY <1>3, <1>4 DEF Checked
<1>6. Params(M.stack[2]) = t.own
  BY <1>1, <1>5 DEF HeldOwn
<1>7. M.hold
  <2>1. t.lists # 0
    BY <1>1, <1>5 DEF IsFunction, Frames
  <2> QED
    BY <1>1, <2>1 DEF IInv, Held
<1>8. t.name \in Idents
  <2>1. t.name \in Idents \cup {NoName} /\ (t.name = NoName => FALSE)
    BY <1>1, <1>2 DEF Fits
  <2> QED
    BY <2>1
<1>9. N = decl_install(scope_set_fndef(M), t.name, t.sc, IsFunction(t), t.node,
                       BehindPointer(t))
  BY <1>4, <1>5
<1> HIDE DEF t, D
<1>10. Params(N.stack[2]) = Params(M.stack[2])
  BY <1>1, <1>2, <1>7, <1>8, <1>9, DefinedParams
<1> QED
  BY <1>6, <1>10 DEF t

(* Below a definition is only the translation unit. *)
LEMMA AtFile ==
  ASSUME BInv, Live, MayDefine(ctx)
  PROVE  LET b == Front(ctx) IN
         /\ FramesOK(b) /\ PlainFrames(b) /\ b \in Seq(Frames) /\ Len(b) = 1
         /\ b[1].kind = "file" /\ Top(b).kind = "file"
<1> DEFINE b == Front(ctx)
<1>1. /\ FramesOK(ctx) /\ PlainFrames(ctx) /\ Top(ctx).kind = "decl"
      /\ Below(ctx).kind = "file"
  BY OwnReady DEF MayDefine, Reading
<1>2. Len(ctx) # 1
  BY <1>1, FrameFacts
<1>3. FramesOK(b) /\ Top(b) = Below(ctx)
  BY <1>1, <1>2, DropFrame
<1>4. PlainFrames(b)
  BY <1>1, <1>2, OwnDrop
<1> HIDE DEF b
<1>5. Len(b) = 1
  BY <1>1, <1>3, FrameFacts
<1> QED
  BY <1>1, <1>3, <1>4, <1>5 DEF FramesOK, b

(* The held prototype becomes the scope of the body. *)
LEMMA PromotedParams ==
  ASSUME NEW S, Ready(S), S.hold, NEW P, P = scope_push_auto(S)
  PROVE  Params(P.stack[2]) = Params(S.stack[2]) /\ P.prev = Params(S.stack[2])
<1> DEFINE e == [S.stack[2] EXCEPT !.type = "func"]
           s == [S.stack EXCEPT ![2] = e]
<1>1. S \in State /\ Len(S.stack) = 2 /\ S.stack \in Seq(Scopes) /\ 2 \in 1..Len(S.stack)
  BY DEF Ready, StackOK, State
<1>2. S.stack[2] \in Scopes
  BY <1>1, ElementOfSeq
<1>3. e \in Scopes /\ e.ids = S.stack[2].ids
  BY <1>2 DEF Scopes, ScopeTypes
<1> HIDE DEF e
<1>4. s[2] = e
  BY <1>1, <1>3, ExceptSeq
<1>5. P = [S EXCEPT !.stack = s, !.hold = FALSE, !.prev = Params(S.stack[2])]
  BY <1>1 DEF scope_push_auto, current, State, e
<1> HIDE DEF s
<1>6. P.stack = s /\ P.prev = Params(S.stack[2])
  BY <1>1, <1>5 DEF State
<1> QED
  BY <1>3, <1>4, <1>6 DEF Params

LEMMA BeginBodyOwn == ASSUME BInv, Live, BeginBody PROVE OwnInv(M', ctx')
<1> DEFINE t == Top(ctx)
           b == Front(ctx)
           N == Define(t)
           P == scope_push_auto(N)
           f == [Frame("body", 2, "items") EXCEPT !.own = t.own]
           c == Append(b, f)
           R == After(N, P)
<1>1. MayDefine(ctx) /\ Reduce(R, c) /\ IInv
  BY OwnReady DEF BeginBody, OpenBody
<1>2. N.fatal = Running => /\ N.hold /\ Ready(N)
                           /\ Params(N.stack[2]) = t.own
  BY <1>1, DefineKeeps, DefineOwn
<1> HIDE DEF N
<1>3. N.fatal = Running =>
        Params(P.stack[2]) = t.own /\ P.prev = t.own
  BY <1>2, PromotedParams
<1> HIDE DEF P
<1>4. (N.fatal # Running => R = N) /\ (N.fatal = Running => R = P)
  BY DEF After
<1> HIDE DEF R
<1>5. /\ FramesOK(b) /\ PlainFrames(b) /\ b \in Seq(Frames) /\ Len(b) = 1
      /\ b[1].kind = "file"
  BY <1>1, AtFile
<1>6. f \in Frames /\ f.kind = "body" /\ f.depth = 2 /\ f.own = t.own
  <2>1. t.own \in SUBSET Idents
    BY OwnReady DEF Frames
  <2> HIDE DEF t
  <2> QED
    BY <2>1, GrammarAssumption DEF Frame, Frames, FrameKinds, OpensScope
<1> HIDE DEF b, f
<1>7. PlainFrames(c)
  <2>1. Plain(Top(b), f)
    BY <1>6 DEF Plain
  <2> QED
    BY <1>5, <1>6, <2>1, OwnPush
<1>8. Len(c) = 2 /\ c[2] = f /\ c[1].kind = "file"
  <2>1. /\ Len(c) = Len(b) + 1 /\ c[Len(b) + 1] = f
        /\ \A i \in 1..Len(b) : c[i] = b[i]
    <3>1. b \in Seq(Frames) /\ f \in Frames
      BY <1>5, <1>6
    <3> QED
      BY <3>1, AppendFacts
  <2> QED
    BY <1>5, <2>1
<1> HIDE DEF c
<1>9. Top(c).kind = "body"
  BY <1>6, <1>8 DEF Top
<1>10. HeldOwn(R, c)
  BY <1>9 DEF HeldOwn, Reading
<1>11. R.fatal = Running => Params(R.stack[2]) = t.own /\ R.prev = t.own
  BY <1>3, <1>4
<1>12. R.fatal = Running => Owned(R, c)
  BY <1>6, <1>8, <1>11 DEF Owned, HasParams
<1> QED
  BY <1>1, <1>7, <1>10, <1>12, ReduceOwn DEF OwnInv

LEMMA WholeBodyOwn == ASSUME BInv, Live, WholeBody PROVE OwnInv(M', ctx')
<1> DEFINE N == Define(Top(ctx))
           R == After(N, scope_pop(scope_push_auto(N)))
           c == Front(ctx)
<1>1. MayDefine(ctx) /\ Reduce(R, c)
  BY DEF WholeBody, EmptyBody
<1>2. /\ PlainFrames(c) /\ Len(c) = 1 /\ c[1].kind = "file" /\ Top(c).kind = "file"
  BY <1>1, AtFile
<1> HIDE DEF R, c
<1>3. Owned(R, c) /\ HeldOwn(R, c)
  BY <1>2 DEF Owned, HasParams, HeldOwn, Reading
<1> QED
  BY <1>1, <1>2, <1>3, ReduceOwn DEF OwnInv

-----------------------------------------------------------------------------
(* Statements *)

LEMMA BlockOwn ==
  ASSUME BInv, Live, AtStmt(ctx), NEW kind \in {"block", "for"},
         NEW at \in {"items", "head"}, Reduce(scope_push_auto(M), Push(ctx, kind, at))
  PROVE  OwnInv(M', ctx')
<1> DEFINE N == scope_push_auto(M)
           d == Top(ctx).depth + 1
           f == Frame(kind, d, at)
           c == Append(ctx, f)
<1>1. IInv /\ M \in State /\ FramesOK(ctx) /\ PlainFrames(ctx) /\ ctx \in Seq(Frames)
  BY OwnReady
<1>2. /\ Top(ctx).kind \in {"body", "block", "for"} /\ Top(ctx).kind \in OpensScope
      /\ d \in Nat
  BY <1>1, AtStmtReady DEF OpensScope
<1>3. ~M.hold
  BY <1>1, <1>2, InConstruct
<1>4. kind \in OpensScope /\ kind \in FrameKinds
  BY DEF OpensScope, FrameKinds
<1>5. Push(ctx, kind, at) = c
  BY <1>4 DEF Push
<1> HIDE DEF d
<1>6. f \in Frames /\ f.kind = kind
  BY <1>2, <1>4, NewFrame
<1> HIDE DEF f, N
<1>7. Plain(Top(ctx), f) /\ ~HasParams(f) /\ f.kind # "decl"
  BY <1>6 DEF Plain, HasParams
<1>8. PlainFrames(c) /\ WithinOwn(c, ctx)
  BY <1>1, <1>6, <1>7, OwnPush
<1>9. Len(c) = Len(ctx) + 1 /\ c[Len(ctx) + 1] = f
  BY <1>1, <1>6, AppendFacts
<1>10. HeldOwn(N, c)
  BY <1>7, <1>9 DEF HeldOwn, Reading, Top
<1>11. SameParams(M, N, Len(M.stack))
  BY <1>1, <1>3, AutoParams DEF N
<1> QED
  BY <1>5, <1>8, <1>10, <1>11, KeptStep DEF N

LEMMA BeginBlockOwn == ASSUME BInv, Live, BeginBlock PROVE OwnInv(M', ctx')
  BY BlockOwn DEF BeginBlock

LEMMA BeginForOwn == ASSUME BInv, Live, BeginFor PROVE OwnInv(M', ctx')
  BY BlockOwn DEF BeginFor

LEMMA StmtDoneOwn ==
  ASSUME NEW c, FramesOK(c), PlainFrames(c),
         Top(c).kind \in {"file", "body", "block", "for"}
  PROVE  LET d == StmtDone(c) IN
         PlainFrames(d) /\ WithinOwn(d, c) /\ Top(d).kind = Top(c).kind
<1>1. CASE Top(c).kind # "for"
  <2>1. StmtDone(c) = c
    BY <1>1 DEF StmtDone
  <2> QED
    BY <2>1 DEF WithinOwn
<1>2. CASE Top(c).kind = "for"
  <2> DEFINE f == [Top(c) EXCEPT !.at = "tail"]
  <2>1. Top(c) \in Frames
    BY FrameFacts
  <2>2. StmtDone(c) = ReplaceTop(c, f)
    BY <1>2 DEF StmtDone, ReplaceTop, Top
  <2>3. f \in Frames /\ f.kind = "for" /\ f.depth = Top(c).depth
    BY <1>2, <2>1 DEF Frames
  <2> HIDE DEF f
  <2>4. Plain(Below(c), f) /\ ~HasParams(f)
    BY <2>3 DEF Plain, HasParams
  <2> QED
    BY <1>2, <2>2, <2>3, <2>4, OwnSwap
<1> QED
  BY <1>1, <1>2

LEMMA EndStmtOwn ==
  ASSUME BInv, Live, Top(ctx).kind \in {"body", "block", "for"},
         Reduce(scope_pop(M), StmtDone(Front(ctx)))
  PROVE  OwnInv(M', ctx')
<1> DEFINE b == Front(ctx)
           c == StmtDone(b)
           N == scope_pop(M)
<1>1. /\ IInv /\ M \in State /\ Ready(M) /\ FramesOK(ctx) /\ PlainFrames(ctx)
      /\ Owned(M, ctx) /\ Match(M, ctx)
  BY OwnReady DEF IInv
<1>2. Top(ctx).kind \in OpensScope
  BY DEF OpensScope
<1>3. /\ Len(M.stack) # 1 /\ FramesOK(b) /\ Top(b) = Below(ctx)
      /\ Fits(Below(ctx), Top(ctx)) /\ Len(ctx) # 1
  BY <1>1, <1>2, InConstruct
<1>4. Len(M.stack) # 0
  BY <1>1 DEF Ready, StackOK
<1>5. SameParams(M, N, Len(M.stack) - 1)
  BY <1>1, <1>3, <1>4, PopParams
<1>6. Top(b).kind \in {"file", "body", "block", "for"}
  BY <1>3 DEF Fits
<1>7. PlainFrames(b)
  BY <1>1, <1>3, OwnDrop
<1>8. PlainFrames(c) /\ WithinOwn(c, b) /\ Top(c).kind = Top(b).kind
  BY <1>3, <1>6, <1>7, StmtDoneOwn
<1> HIDE DEF N, c
<1>9. Owned(N, c)
  BY <1>1, <1>2, <1>3, <1>5, <1>8, OwnedClosed
<1>10. HeldOwn(N, c)
  BY <1>6, <1>8 DEF HeldOwn, Reading
<1> QED
  BY <1>8, <1>9, <1>10, ReduceOwn DEF OwnInv, N, c

LEMMA EndBlockOwn == ASSUME BInv, Live, EndBlock PROVE OwnInv(M', ctx')
  BY EndStmtOwn DEF EndBlock, MayCloseBlock, CloseBlock

LEMMA FinishForOwn == ASSUME BInv, Live, FinishFor PROVE OwnInv(M', ctx')
  BY EndStmtOwn DEF FinishFor, MayEndFor, EndFor

LEMMA SimpleStmtOwn == ASSUME BInv, Live, SimpleStmt PROVE OwnInv(M', ctx')
<1> DEFINE P == scope_push_auto(M)
           N == scope_pop(P)
           c == StmtDone(ctx)
<1>1. /\ AtStmt(ctx) /\ Top(ctx).kind = "for" /\ Reduce(N, c)
      /\ IInv /\ M \in State /\ Ready(M) /\ FramesOK(ctx) /\ PlainFrames(ctx)
  BY OwnReady DEF SimpleStmt
<1>2. Opens(M, P, "block") /\ ~M.hold
  BY <1>1, AtStmtReady, InConstruct DEF OpensScope
<1>3. SameParams(M, P, Len(M.stack))
  BY <1>1, <1>2, AutoParams
<1> HIDE DEF P
<1>4. Ready(P) /\ P \in State /\ ~P.hold /\ Vis(P) = Vis(M) + 1
  BY <1>2 DEF Opens, Ready
<1>5. Len(P.stack) = Len(M.stack) + 1 /\ Len(M.stack) \in Nat /\ Len(M.stack) # 0
  <2>1. Len(P.stack) \in Nat /\ Len(M.stack) \in Nat /\ Len(M.stack) # 0
    BY <1>1, <1>4, LenProperties DEF State, Ready, StackOK
  <2>2. Vis(P) = Len(P.stack) - 0 /\ Vis(M) = Len(M.stack) - 0
    BY <1>2, <1>4 DEF Vis
  <2> QED
    BY <1>4, <2>1, <2>2
<1>6. Len(P.stack) \notin {0, 1} /\ Len(P.stack) - 1 = Len(M.stack)
  BY ONLY <1>5
<1>7. SameParams(P, N, Len(P.stack) - 1)
  BY <1>4, <1>6, PopParams
<1> HIDE DEF N
<1>8. SameParams(M, N, Len(M.stack))
  BY <1>3, <1>4, <1>6, <1>7 DEF SameParams
<1>9. PlainFrames(c) /\ WithinOwn(c, ctx) /\ Top(c).kind = Top(ctx).kind
  BY <1>1, StmtDoneOwn
<1>10. HeldOwn(N, c)
  BY <1>1, <1>9 DEF HeldOwn, Reading
<1> QED
  BY <1>1, <1>8, <1>9, <1>10, KeptStep

-----------------------------------------------------------------------------
LEMMA InitOwn == Init => BInv
<1> SUFFICES ASSUME Init PROVE BInv
  OBVIOUS
<1>1. ctx = <<FileFrame>>
  BY DEF Init
<1>2. FileFrame.kind = "file"
  BY DEF FileFrame, Frame
<1>3. Len(ctx) = 1 /\ ctx[1].kind = "file"
  BY <1>1, <1>2
<1>4. PlainFrames(ctx) /\ Owned(M, ctx) /\ HeldOwn(M, ctx)
  BY <1>3 DEF PlainFrames, Owned, HasParams, HeldOwn, Reading, Top
<1> QED
  BY <1>4, InitInv DEF BInv, OwnInv

LEMMA StepOwn == ASSUME OneList, BInv, Live, Step PROVE OwnInv(M', ctx')
<1>1. ASSUME NEW sc \in StorageClasses, Scalar(sc) PROVE OwnInv(M', ctx')
  BY <1>1, ScalarOwn
<1>2. ASSUME NEW sc \in StorageClasses, NEW tag \in Tags, StructReference(tag, sc)
      PROVE  OwnInv(M', ctx')
  BY <1>2, StructReferenceOwn
<1>3. ASSUME NEW sc \in StorageClasses, NEW tag \in TagNames, OpenStruct(tag, sc)
      PROVE  OwnInv(M', ctx')
  BY <1>3, OpenStructOwn
<1>4. ASSUME NEW n \in Idents \cup Members, NEW inner \in BOOLEAN, NEW star \in BOOLEAN,
             Name(n, inner, star)
      PROVE  OwnInv(M', ctx')
  BY <1>4, NameOwn
<1>5. ASSUME NEW star \in BOOLEAN, OmitName(star) PROVE OwnInv(M', ctx')
  BY <1>5, OmitNameOwn
<1>6. ASSUME NEW more \in BOOLEAN, Declarator(more) PROVE OwnInv(M', ctx')
  BY <1>6, DeclaratorOwn
<1> QED
  BY <1>1, <1>2, <1>3, <1>4, <1>5, <1>6, CloseStructOwn, OpenParamsOwn,
     CloseParamsOwn, EmptyParamsOwn, EmptyDeclarationOwn, BeginBodyOwn,
     WholeBodyOwn, BeginBlockOwn, EndBlockOwn, BeginForOwn, SimpleStmtOwn,
     FinishForOwn
     DEF Step

LEMMA NextOwn == ASSUME OneList PROVE BInv /\ [Next]_vars => BInv'
<1> SUFFICES ASSUME BInv, [Next]_vars PROVE BInv'
  OBVIOUS
<1>1. IInv'
  BY NextInv DEF BInv
<1>2. CASE Live /\ Step
  BY <1>1, <1>2, StepOwn DEF BInv
<1>3. CASE UNCHANGED vars
  BY <1>1, <1>3 DEF vars, BInv, OwnInv, PlainFrames, Owned, HeldOwn
<1> QED
  BY <1>2, <1>3 DEF Next, Exited

LEMMA OwnHolds == ASSUME OneList PROVE Spec => []BInv
  BY InitOwn, NextOwn, PTL DEF Spec

-----------------------------------------------------------------------------
(* The scope of a function's body, which associate_fn_with_scope gives the  *)
(* function for code generation and whose table prev_fn_scope hands on, is  *)
(* the scope its own parameters were declared in: for every program in     *)
(* which no declarator has two parameter lists and no abstract declarator  *)
(* has one.  With two lists it is false, as the run                        *)
(* returned_function_pointer shows.                                        *)
THEOREM BodyIsOwn ==
  ASSUME MaxLists <= 1, ~AbstractFns PROVE Spec => []BodyScopeIsOwn
<1>1. OneList
  BY DEF OneList
<1>2. BInv => BodyScopeIsOwn
  <2> SUFFICES ASSUME BInv, NEW i \in 1..Len(ctx), ctx[i].kind = "body"
               PROVE  Params(M.stack[2]) = ctx[i].own /\ M.prev = ctx[i].own
    BY DEF BodyScopeIsOwn
  <2>1. FramesOK(ctx) /\ Owned(M, ctx)
    BY DEF BInv, IInv, OwnInv
  <2>2. ctx[i].depth = 2
    <3>1. i # 1 /\ Len(ctx) \in Nat
      BY <2>1, FrameFacts DEF FramesOK
    <3>2. i \in 2..Len(ctx) /\ i - 1 \in 1..Len(ctx) /\ (i - 1 # 1 => i - 1 \in 2..Len(ctx))
      BY ONLY <3>1, i \in 1..Len(ctx)
    <3>3. Fits(ctx[i-1], ctx[i]) /\ (i - 1 # 1 => Fits(ctx[i-1-1], ctx[i-1]))
      BY <2>1, <3>2 DEF FramesOK
    <3>4. ctx[i-1].kind = "file" /\ i - 1 = 1
      BY <3>3 DEF Fits
    <3> QED
      BY <2>1, <3>3, <3>4 DEF Fits, OpensScope, FramesOK
  <2> QED
    BY <2>1, <2>2 DEF Owned, HasParams
<1> QED
  BY <1>1, <1>2, OwnHolds, PTL
=============================================================================
