---------------------------- MODULE ScopeProofs ----------------------------
(***************************************************************************)
(* What the operators of Scope, StructUnion and Decl do to the scope stack: *)
(* scope_push and scope_pop open and close one visible scope, and every    *)
(* other operator keeps the visible scopes, at most dropping a held        *)
(* prototype.  None of them reports an internal error.                     *)
(***************************************************************************)
EXTENDS Decl, Integers, SequenceTheorems, TLAPS

(* Sequences used as stacks: Front, which scope_pop and every closing      *)
(* production use, and Append                                              *)
LEMMA FrontFacts ==
  ASSUME NEW T, NEW s \in Seq(T), Len(s) # 0
  PROVE  /\ Front(s) \in Seq(T) /\ Len(Front(s)) = Len(s) - 1
         /\ \A k \in 1..Len(s) - 1 : Front(s)[k] = s[k]
<1> DEFINE n == Len(s)
<1>1. n \in Nat /\ n # 0
  BY LenProperties
<1>2. n = Len(s)
  OBVIOUS
<1> HIDE DEF n
<1>3. /\ Front(s) \in Seq(T) /\ Len(Front(s)) = n - 1
      /\ \A k \in 1..n - 1 : Front(s)[k] = s[k]
  BY <1>1, <1>2 DEF Front
<1> QED
  BY <1>3, <1>2

LEMMA AppendFacts ==
  ASSUME NEW T, NEW s \in Seq(T), NEW e \in T
  PROVE  /\ Append(s, e) \in Seq(T) /\ Len(Append(s, e)) = Len(s) + 1
         /\ \A k \in 1..Len(s) : Append(s, e)[k] = s[k]
         /\ Append(s, e)[Len(s) + 1] = e
  BY AppendProperties

LEMMA FrontAppend ==
  ASSUME NEW T, NEW s \in Seq(T), NEW e \in T
  PROVE  Front(Append(s, e)) = s
<1>1. /\ Append(s, e) \in Seq(T) /\ Len(Append(s, e)) = Len(s) + 1
      /\ \A k \in 1..Len(s) : Append(s, e)[k] = s[k]
  BY AppendFacts
<1>2. Len(s) \in Nat /\ Len(Append(s, e)) # 0 /\ Len(Append(s, e)) - 1 = Len(s)
  BY <1>1, LenProperties
<1>3. /\ Front(Append(s, e)) \in Seq(T) /\ Len(Front(Append(s, e))) = Len(s)
      /\ \A k \in 1..Len(s) : Front(Append(s, e))[k] = s[k]
  BY <1>1, <1>2, FrontFacts
<1> QED
  BY <1>3, SeqEqual

-----------------------------------------------------------------------------
(* The number of scopes of open constructs: a held prototype is no more.   *)
Vis(S) == Len(S.stack) - (IF S.hold THEN 1 ELSE 0)

(* The stack between two semantic actions *)
StackOK(S) ==
  /\ Len(S.stack) # 0 /\ S.stack[1].type = "file"
  /\ \A k \in 2..Len(S.stack) : S.stack[k].type \in {"proto", "func", "block"}
  /\ (\E k \in 2..Len(S.stack) : S.stack[k].type \in {"func", "block"})
       => S.stack[2].type = "func"
  /\ S.hold => Len(S.stack) = 2 /\ S.stack[2].type = "proto"

Ready(S) == S \in State /\ StackOK(S) /\ S.fatal = Running /\ ~S.fndef

(* N is a state in which the process goes on or has reported an error of   *)
(* the program, ... *)
Sound(N) == N \in State /\ N.fatal \notin InternalErrors

Stays(S, N) ==
  /\ Ready(N) /\ Vis(N) = Vis(S)
  /\ \A k \in 1..Vis(S) : N.stack[k].type = S.stack[k].type

(* ... and if it goes on, with the same visible scopes. *)
Keeps(S, N) ==
  /\ Sound(N)
  /\ N.fatal = Running => Stays(S, N) /\ (N.hold => S.hold)

(* N has one more visible scope than S, of the given type; one less. *)
Opens(S, N, type) ==
  /\ Ready(N) /\ ~N.hold /\ Vis(N) = Vis(S) + 1 /\ N.stack[Vis(N)].type = type
  /\ \A k \in 1..Vis(S) : N.stack[k].type = S.stack[k].type
Closes(S, N) ==
  /\ Ready(N) /\ Vis(N) = Vis(S) - 1
  /\ \A k \in 1..Vis(N) : N.stack[k].type = S.stack[k].type

-----------------------------------------------------------------------------
LEMMA KeepsSelf == ASSUME NEW S, Ready(S) PROVE Keeps(S, S)
  BY DEF Keeps, Stays, Ready, Sound, Running, InternalErrors

LEMMA KeepsTransitive ==
  ASSUME NEW S, NEW N, NEW P, Keeps(S, N), N.fatal = Running, Keeps(N, P)
  PROVE  Keeps(S, P)
  BY DEF Keeps, Stays

(* An error of the program *)
LEMMA FatalSound ==
  ASSUME NEW S \in State, NEW why \in ProgramErrors
  PROVE  Sound(Fatal(S, why)) /\ Fatal(S, why).fatal # Running
<1>1. why \in Messages /\ why \notin InternalErrors /\ why # Running
  BY DEF Messages, ProgramErrors, InternalErrors, Running
<1>2. Fatal(S, why) \in State /\ Fatal(S, why).fatal = why
  BY <1>1 DEF Fatal, State
<1> QED
  BY <1>1, <1>2 DEF Sound

LEMMA NewScopeType ==
  ASSUME NEW type \in ScopeTypes
  PROVE  NewScope(type) \in Scopes /\ NewScope(type).type = type
  BY DEF NewScope, Scopes, Entry, NoEntry, Absent

(* Retyping a scope, as clear_held and the promotion do *)
LEMMA Retype ==
  ASSUME NEW S \in State, NEW l \in 1..Len(S.stack), NEW type \in ScopeTypes,
         NEW R, R = [S EXCEPT !.stack[l].type = type]
  PROVE  /\ R \in State /\ R = [S EXCEPT !.stack = R.stack]
         /\ Len(R.stack) = Len(S.stack)
         /\ \A k \in 1..Len(S.stack) :
              R.stack[k].type = IF k = l THEN type ELSE S.stack[k].type
<1> DEFINE e == [S.stack[l] EXCEPT !.type = type]
           s == [S.stack EXCEPT ![l] = e]
<1>1. S.stack \in Seq(Scopes) /\ S.stack[l] \in Scopes
  BY ElementOfSeq DEF State
<1>2. e \in Scopes /\ e.type = type
  BY <1>1 DEF Scopes
<1>3. /\ s \in Seq(Scopes) /\ Len(s) = Len(S.stack)
      /\ \A k \in 1..Len(S.stack) : s[k] = IF k = l THEN e ELSE S.stack[k]
  BY <1>1, <1>2, ExceptSeq
<1>4. R = [S EXCEPT !.stack = s]
  BY DEF State
<1> HIDE DEF s, e
<1>5. R \in State /\ R.stack = s
  BY <1>3, <1>4 DEF State
<1> QED
  BY <1>2, <1>3, <1>4, <1>5

(* The block that scope_push and scope_insert share *)
LEMMA ClearHeld ==
  ASSUME NEW S, Ready(S), S.hold
  PROVE  /\ Keeps(S, clear_held(S))
         /\ clear_held(S).fatal = Running /\ ~clear_held(S).hold
         /\ Len(clear_held(S).stack) = 1
         /\ clear_held(S).sus = S.sus /\ clear_held(S).decls = S.decls
<1> DEFINE R == [S EXCEPT !.stack[2].type = "file"]
           C == clear_held(S)
<1>1. Len(S.stack) = 2 /\ S \in State /\ S.fatal = Running /\ ~S.fndef
  BY DEF Ready, StackOK
<1>2. R \in State /\ R = [S EXCEPT !.stack = R.stack] /\ Len(R.stack) = 2
      /\ R.stack[2].type = "file" /\ R.stack[1].type = S.stack[1].type
  BY <1>1, Retype DEF ScopeTypes
<1> HIDE DEF R
<1>3. C = [R EXCEPT !.stack = Front(R.stack), !.hold = FALSE]
  <2>1. scope_pop(R) = [R EXCEPT !.stack = Front(R.stack)]
    BY <1>2 DEF scope_pop, current
  <2> QED
    BY <1>1, <2>1 DEF clear_held, current, R
<1>4. Front(R.stack) \in Seq(Scopes) /\ Len(Front(R.stack)) = 1
      /\ Front(R.stack)[1] = R.stack[1]
  <2>1. R.stack \in Seq(Scopes) /\ Len(R.stack) # 0
    BY <1>2 DEF State
  <2>2. 1 \in 1..Len(R.stack) - 1 /\ Len(R.stack) - 1 = 1
    BY <1>2
  <2> QED
    BY <2>1, <2>2, FrontFacts
<1>5. /\ C \in State /\ C.stack = Front(R.stack) /\ ~C.hold
      /\ C.fatal = Running /\ ~C.fndef /\ C.sus = S.sus /\ C.decls = S.decls
  BY <1>1, <1>2, <1>3, <1>4 DEF State
<1>6. StackOK(C) /\ Vis(C) = 1 /\ Vis(S) = 1 /\ C.stack[1].type = S.stack[1].type
  BY <1>1, <1>2, <1>4, <1>5 DEF Ready, StackOK, Vis
<1> QED
  BY <1>1, <1>4, <1>5, <1>6 DEF Keeps, Stays, Ready, Sound, Running, InternalErrors

-----------------------------------------------------------------------------
(* scope_push and scope_pop *)

LEMMA AppendScope ==
  ASSUME NEW S, Ready(S), ~S.hold, NEW type \in {"proto", "block"},
         type = "block" => S.stack[Len(S.stack)].type \in {"func", "block"},
         NEW N, N = [S EXCEPT !.stack = Append(S.stack, NewScope(type))]
  PROVE  Opens(S, N, type)
<1> DEFINE n == Len(S.stack)
<1>1. S \in State /\ S.stack \in Seq(Scopes) /\ n \in Nat /\ n # 0 /\ StackOK(S)
  BY LenProperties DEF Ready, StackOK, State
<1>2. NewScope(type) \in Scopes /\ NewScope(type).type = type
  BY NewScopeType DEF ScopeTypes
<1>3. /\ N \in State /\ Len(N.stack) = n + 1 /\ N.stack[n + 1].type = type
      /\ \A k \in 1..n : N.stack[k] = S.stack[k]
      /\ N.hold = S.hold /\ N.fatal = S.fatal /\ N.fndef = S.fndef
  <2> DEFINE s == Append(S.stack, NewScope(type))
  <2>1. /\ s \in Seq(Scopes) /\ Len(s) = n + 1 /\ s[n + 1] = NewScope(type)
        /\ \A k \in 1..n : s[k] = S.stack[k]
    BY <1>1, <1>2, AppendFacts
  <2> HIDE DEF s
  <2>2. N \in State /\ N.stack = s /\ N.hold = S.hold /\ N.fatal = S.fatal
        /\ N.fndef = S.fndef
    BY <1>1, <2>1 DEF State, s
  <2> QED
    BY <1>2, <2>1, <2>2
<1>4. type = "block" => n >= 2 /\ S.stack[2].type = "func"
  BY <1>1 DEF StackOK
<1>5. n = Len(S.stack)
  OBVIOUS
<1> HIDE DEF n
<1>6. StackOK(N)
  <2>1. N.stack[1].type = "file"
    BY <1>1, <1>3, <1>5 DEF StackOK
  <2>2. \A k \in 2..n + 1 : N.stack[k].type \in {"proto", "func", "block"}
    BY <1>1, <1>3, <1>5 DEF StackOK
  <2>3. ASSUME NEW k \in 2..n + 1, N.stack[k].type \in {"func", "block"}
        PROVE  N.stack[2].type = "func"
    <3>1. CASE k = n + 1
      BY <3>1, <2>3, <1>1, <1>3, <1>4
    <3>2. CASE k \in 2..n
      BY <3>2, <2>3, <1>1, <1>3, <1>5 DEF StackOK
    <3>3. k = n + 1 \/ k \in 2..n
      BY ONLY <1>1, <2>3
    <3> QED
      BY <3>1, <3>2, <3>3
  <2> QED
    BY <2>1, <2>2, <2>3, <1>1, <1>3 DEF StackOK
<1>7. Vis(S) = n /\ Vis(N) = n + 1
  <2>1. ~N.hold /\ ~S.hold
    BY <1>3
  <2>2. Vis(S) = n - 0 /\ Vis(N) = (n + 1) - 0
    BY <2>1, <1>3, <1>5 DEF Vis
  <2> QED
    BY <1>1, <2>2
<1> QED
  BY <1>1, <1>3, <1>6, <1>7 DEF Opens, Ready

LEMMA PushPrototype ==
  ASSUME NEW S, Ready(S)
  PROVE  Opens(S, scope_push(S, "proto"), "proto")
<1>1. CASE ~S.hold
  <2>1. scope_push(S, "proto") = [S EXCEPT !.stack = Append(S.stack, NewScope("proto"))]
    BY <1>1 DEF scope_push, After, Ready
  <2> QED
    BY <2>1, <1>1, AppendScope
<1>2. CASE S.hold
  <2> DEFINE R == clear_held(S)
  <2>1. Stays(S, R) /\ R.fatal = Running /\ ~R.hold
    BY <1>2, ClearHeld DEF Keeps
  <2>2. scope_push(S, "proto") = [R EXCEPT !.stack = Append(R.stack, NewScope("proto"))]
    BY <1>2, <2>1 DEF scope_push, After
  <2> HIDE DEF R
  <2>3. Opens(R, scope_push(S, "proto"), "proto")
    BY <2>1, <2>2, AppendScope DEF Stays
  <2> QED
    BY <2>1, <2>3 DEF Opens, Stays
<1> QED
  BY <1>1, <1>2

(* A body takes over the held prototype. *)
LEMMA Promote ==
  ASSUME NEW S, Ready(S), S.hold
  PROVE  Opens(S, scope_push_auto(S), "func")
<1> DEFINE R == [S EXCEPT !.stack[2].type = "func"]
           N == scope_push_auto(S)
<1>1. Len(S.stack) = 2 /\ S \in State /\ S.fatal = Running /\ ~S.fndef
  BY DEF Ready, StackOK
<1>2. R \in State /\ R = [S EXCEPT !.stack = R.stack] /\ Len(R.stack) = 2
      /\ R.stack[2].type = "func" /\ R.stack[1].type = S.stack[1].type
  BY <1>1, Retype DEF ScopeTypes
<1>3. N = [R EXCEPT !.hold = FALSE, !.prev = Params(S.stack[2])]
  BY <1>1 DEF scope_push_auto, current
<1> HIDE DEF R
<1>4. Params(S.stack[2]) \in SUBSET Idents
  BY DEF Params
<1>5. /\ N \in State /\ N.stack = R.stack /\ ~N.hold /\ N.fatal = Running /\ ~N.fndef
  BY <1>1, <1>2, <1>3, <1>4 DEF State
<1>6. StackOK(N) /\ Vis(N) = 2 /\ Vis(S) = 1
  BY <1>1, <1>2, <1>5 DEF Ready, StackOK, Vis
<1> QED
  BY <1>1, <1>2, <1>5, <1>6 DEF Opens, Ready

LEMMA PushBlock ==
  ASSUME NEW S, Ready(S), ~S.hold, S.stack[Len(S.stack)].type \in {"func", "block"}
  PROVE  Opens(S, scope_push_auto(S), "block")
<1>1. scope_push_auto(S) = [S EXCEPT !.stack = Append(S.stack, NewScope("block"))]
  BY DEF scope_push_auto
<1> QED
  BY <1>1, AppendScope

(* '}' and ')': the top scope is popped, or a prototype put on hold. *)
LEMMA Pop ==
  ASSUME NEW S, Ready(S), ~S.hold, Len(S.stack) # 1
  PROVE  /\ Closes(S, scope_pop(S))
         /\ Len(S.stack) = 2 /\ S.stack[2].type = "proto" => scope_pop(S).hold
<1> DEFINE n == Len(S.stack)
           N == scope_pop(S)
<1>1. S \in State /\ S.stack \in Seq(Scopes) /\ n \in Nat /\ n # 0 /\ StackOK(S)
  BY LenProperties DEF Ready, StackOK, State
<1>2. Vis(S) = n
  BY <1>1 DEF Vis
<1>3. CASE n = 2 /\ S.stack[2].type = "proto"
  <2>1. N = [S EXCEPT !.hold = TRUE]
    BY <1>3 DEF scope_pop, current
  <2>2. N \in State /\ N.stack = S.stack /\ N.hold /\ N.fatal = S.fatal /\ N.fndef = S.fndef
    BY <1>1, <2>1 DEF State
  <2>3. StackOK(N) /\ Vis(N) = 1
    BY <1>1, <1>3, <2>2 DEF StackOK, Vis
  <2> QED
    BY <1>2, <1>3, <2>2, <2>3 DEF Closes, Ready
<1>4. CASE ~(n = 2 /\ S.stack[2].type = "proto")
  <2>1. N = [S EXCEPT !.stack = Front(S.stack)]
    BY <1>4 DEF scope_pop, current
  <2>2. /\ Front(S.stack) \in Seq(Scopes) /\ Len(Front(S.stack)) = n - 1
        /\ \A k \in 1..n - 1 : Front(S.stack)[k] = S.stack[k]
    BY <1>1, FrontFacts
  <2>3. N \in State /\ N.stack = Front(S.stack) /\ ~N.hold /\ N.fatal = S.fatal
        /\ N.fndef = S.fndef
    BY <1>1, <2>1, <2>2 DEF State
  <2>5. n = Len(S.stack) /\ n # 1
    OBVIOUS
  <2> HIDE DEF n, N
  <2>4. n - 1 \in Nat /\ n - 1 # 0 /\ 1 \in 1..n - 1 /\ 2..n - 1 \subseteq 2..n
        /\ 2..n - 1 \subseteq 1..n - 1
    <3>1. n \in Nat /\ n # 0 /\ n # 1
      BY <1>1, <2>5
    <3> QED
      BY ONLY <3>1
  <2>6. ASSUME NEW k \in 2..n - 1, N.stack[k].type \in {"func", "block"}
        PROVE  N.stack[2].type = "func"
    <3>1. S.stack[2].type = "func"
      <4>1. k \in 2..n /\ S.stack[k].type \in {"func", "block"}
        BY <2>2, <2>3, <2>4, <2>6
      <4> QED
        BY <1>1, <2>5, <4>1 DEF StackOK
    <3>2. 2 \in 1..n - 1
      BY <1>1
    <3> QED
      BY <3>1, <3>2, <2>2, <2>3
  <2>7. StackOK(N)
    <3>1. \A k \in 2..Len(S.stack) : S.stack[k].type \in {"proto", "func", "block"}
      BY <1>1 DEF StackOK
    <3>2. \A k \in 2..n - 1 : N.stack[k].type \in {"proto", "func", "block"}
      BY <2>2, <2>3, <2>4, <2>5, <3>1
    <3>3. N.stack[1].type = "file" /\ Len(N.stack) = n - 1
      BY <1>1, <2>2, <2>3, <2>4 DEF StackOK
    <3> QED
      BY <2>3, <2>4, <2>6, <3>2, <3>3 DEF StackOK
  <2>8. Vis(N) = n - 1
    BY <2>2, <2>3 DEF Vis
  <2> QED
    BY <1>2, <1>4, <2>2, <2>3, <2>5, <2>7, <2>8 DEF Closes, Ready, N
<1> QED
  BY <1>3, <1>4

(* structunion_done's dummy scope leaves the stack as it was. *)
LEMMA DummyScope ==
  ASSUME NEW S, Ready(S)
  PROVE  /\ Keeps(S, scope_pop(scope_push(S, "structunion")))
         /\ scope_pop(scope_push(S, "structunion")).fatal = Running
         /\ scope_pop(scope_push(S, "structunion")).sus = S.sus
         /\ scope_pop(scope_push(S, "structunion")).decls = S.decls
<1> DEFINE R == IF S.hold THEN clear_held(S) ELSE S
           P == [R EXCEPT !.stack = Append(R.stack, NewScope("structunion"))]
<1>1. Keeps(S, R) /\ Ready(R) /\ ~R.hold /\ R.sus = S.sus /\ R.decls = S.decls
  BY ClearHeld, KeepsSelf DEF Keeps, Stays
<1> HIDE DEF R
<1>2. scope_push(S, "structunion") = P
  BY <1>1 DEF scope_push, After, Ready, R
<1>3. R \in State /\ R.stack \in Seq(Scopes) /\ Len(R.stack) \in Nat /\ Len(R.stack) # 0
  BY <1>1, LenProperties DEF Ready, StackOK, State
<1>4. NewScope("structunion") \in Scopes /\ NewScope("structunion").type = "structunion"
  BY NewScopeType DEF ScopeTypes
<1>5. /\ P.stack = Append(R.stack, NewScope("structunion"))
      /\ [P EXCEPT !.stack = R.stack] = R
  BY <1>3 DEF State
<1>6. /\ Len(P.stack) = Len(R.stack) + 1 /\ P.stack[Len(R.stack) + 1].type = "structunion"
      /\ Front(P.stack) = R.stack
  BY <1>3, <1>4, <1>5, AppendFacts, FrontAppend
<1> HIDE DEF P
<1>7. Len(P.stack) # 1 /\ ~(Len(P.stack) = 2 /\ P.stack[2].type = "proto")
  <2>1. Len(R.stack) + 1 # 1
    BY <1>3
  <2>2. Len(R.stack) + 1 = 2 => P.stack[2].type = "structunion"
    BY <1>6
  <2> QED
    BY <2>1, <2>2, <1>6
<1>8. scope_pop(P) = [P EXCEPT !.stack = Front(P.stack)]
  BY <1>7 DEF scope_pop, current
<1> QED
  BY <1>1, <1>2, <1>5, <1>6, <1>8 DEF Ready

-----------------------------------------------------------------------------
(* scope_insert and its callers *)

(* A change of what the scopes contain, not of their types *)
LEMMA SameTypes ==
  ASSUME NEW S, Ready(S), NEW N \in State,
         N.fatal = Running, ~N.fndef, N.hold = S.hold,
         Len(N.stack) = Len(S.stack),
         \A k \in 1..Len(S.stack) : N.stack[k].type = S.stack[k].type
  PROVE  Keeps(S, N)
<1> DEFINE n == Len(S.stack)
<1>1. n \in Nat /\ StackOK(S) /\ n # 0
  BY LenProperties DEF Ready, State, StackOK
<1>2. n = Len(S.stack) /\ \A k \in 1..n : N.stack[k].type = S.stack[k].type
  OBVIOUS
<1> HIDE DEF n
<1>3. n = 1 \/ 2 \in 1..n
  BY ONLY <1>1
<1>4. StackOK(N)
  <2>1. N.stack[1].type = "file"
    BY <1>1, <1>2 DEF StackOK
  <2>2. \A k \in 2..n : k \in 1..n /\ 2 \in 1..n
    BY ONLY <1>1
  <2> QED
    BY <1>1, <1>2, <2>1, <2>2 DEF StackOK
<1>5. Vis(N) = Vis(S) /\ \A k \in 1..Vis(S) : k \in 1..n
  <2>1. CASE S.hold
    BY <2>1, <1>1, <1>2 DEF Vis
  <2>2. CASE ~S.hold
    BY <2>2, <1>1, <1>2 DEF Vis
  <2> QED
    BY <2>1, <2>2
<1> QED
  BY <1>2, <1>4, <1>5 DEF Keeps, Stays, Ready, Sound, Running, InternalErrors

(* Changing what the tables of scope l hold *)
LEMMA ChangeTables ==
  ASSUME NEW S, Ready(S), NEW l \in 1..Len(S.stack), NEW e \in Scopes,
         e.type = S.stack[l].type,
         NEW N, N = [S EXCEPT !.stack = [S.stack EXCEPT ![l] = e], !.fndef = FALSE]
  PROVE  Keeps(S, N) /\ N.fatal = Running /\ N.hold = S.hold
         /\ Len(N.stack) = Len(S.stack)
<1> DEFINE s == [S.stack EXCEPT ![l] = e]
<1>1. S \in State /\ S.stack \in Seq(Scopes) /\ S.fatal = Running
  BY DEF Ready, State
<1>2. /\ s \in Seq(Scopes) /\ Len(s) = Len(S.stack)
      /\ \A k \in 1..Len(S.stack) : s[k] = IF k = l THEN e ELSE S.stack[k]
  BY <1>1, ExceptSeq
<1> HIDE DEF s
<1>3. N \in State /\ N.stack = s /\ N.hold = S.hold /\ N.fatal = Running /\ ~N.fndef
  BY <1>1, <1>2 DEF State, s
<1>4. \A k \in 1..Len(S.stack) : N.stack[k].type = S.stack[k].type
  BY <1>2, <1>3
<1> QED
  BY <1>2, <1>3, <1>4, SameTypes

LEMMA InsertState ==
  ASSUME NEW S, Ready(S)
  PROVE  /\ Keeps(S, insert_state(S)) /\ insert_state(S).fatal = Running
         /\ ~insert_state(S).hold /\ insert_state(S).decls = S.decls
         /\ insert_state(S).sus = S.sus
         /\ insert_level(S) = Len(insert_state(S).stack)
         /\ Len(insert_state(S).stack) \in 1..Len(insert_state(S).stack)
<1>1. /\ Keeps(S, insert_state(S)) /\ insert_state(S).fatal = Running
      /\ ~insert_state(S).hold /\ insert_state(S).decls = S.decls
      /\ insert_state(S).sus = S.sus
  BY ClearHeld, KeepsSelf DEF insert_state, Ready
<1>2. insert_level(S) = Len(insert_state(S).stack)
  BY DEF insert_level, current, Ready
<1>3. Len(insert_state(S).stack) \in Nat /\ Len(insert_state(S).stack) # 0
  BY <1>1, LenProperties DEF Keeps, Stays, Ready, StackOK, State
<1> QED
  BY <1>1, <1>2, <1>3

LEMMA InsertTag ==
  ASSUME NEW S, Ready(S), NEW t \in TagNames, NEW node \in Nat
  PROVE  /\ Keeps(S, scope_insert_tag(S, t, node))
         /\ scope_insert_tag(S, t, node).fatal = Running =>
              scope_insert_tag(S, t, node).decls = S.decls
<1> DEFINE R == insert_state(S)
           l == Len(R.stack)
           e == [R.stack[l] EXCEPT !.tags[t] = node]
           N == scope_insert_tag(S, t, node)
           P == [R EXCEPT !.stack = [R.stack EXCEPT ![l] = e], !.fndef = FALSE]
<1>1. /\ Keeps(S, R) /\ R.fatal = Running /\ l \in 1..Len(R.stack) /\ insert_level(S) = l
      /\ R.decls = S.decls
  BY InsertState
<1>2. R.stack[l] \in Scopes /\ Ready(R)
  BY <1>1, ElementOfSeq DEF Keeps, Stays, Ready, State
<1>3. e \in Scopes /\ e.type = R.stack[l].type
  BY <1>2 DEF Scopes
<1>4. N = IF R.stack[l].tags[t] # Absent
          THEN Fatal(R, "symbol already exists in symbol table")
          ELSE [R EXCEPT !.stack[l].tags[t] = node, !.fndef = FALSE]
  BY <1>1 DEF scope_insert_tag, After
<1>5. [R EXCEPT !.stack[l].tags[t] = node, !.fndef = FALSE] = P
  BY <1>2 DEF Ready, State
<1>6. P.decls = R.decls
  BY <1>2 DEF Ready, State
<1> HIDE DEF e, R, l, P
<1>7. Keeps(R, P)
  BY <1>1, <1>2, <1>3, ChangeTables DEF P
<1>8. CASE R.stack[l].tags[t] # Absent
  <2>1. Sound(N) /\ N.fatal # Running
    BY <1>2, <1>4, <1>8, FatalSound DEF ProgramErrors, Ready
  <2> QED
    BY <2>1 DEF Keeps
<1>9. CASE R.stack[l].tags[t] = Absent
  BY <1>1, <1>4, <1>5, <1>6, <1>7, <1>9, KeepsTransitive
<1> QED
  BY <1>8, <1>9

(* Setting an entry changes no scope's type. *)
PutId(S, l, n, e) == [S EXCEPT !.stack[l].ids[n] = e]

LEMMA PutEntry ==
  ASSUME NEW S, Ready(S), NEW l \in 1..Len(S.stack), NEW n, NEW e \in Entry
  PROVE  /\ Keeps(S, PutId(S, l, n, e)) /\ PutId(S, l, n, e).fatal = Running
         /\ PutId(S, l, n, e).hold = S.hold
         /\ Len(PutId(S, l, n, e).stack) = Len(S.stack)
<1> DEFINE N == PutId(S, l, n, e)
           d == [S.stack[l] EXCEPT !.ids[n] = e]
           s == [S.stack EXCEPT ![l] = d]
<1>1. S.stack[l] \in Scopes /\ S \in State /\ ~S.fndef /\ S.stack \in Seq(Scopes)
      /\ S.fatal = Running
  BY ElementOfSeq DEF Ready, State
<1>2. d \in Scopes /\ d.type = S.stack[l].type
  BY <1>1 DEF Scopes
<1>3. N = [S EXCEPT !.stack = s]
  BY <1>1 DEF State, PutId
<1> HIDE DEF d, N
<1>4. /\ s \in Seq(Scopes) /\ Len(s) = Len(S.stack)
      /\ \A k \in 1..Len(S.stack) : s[k] = IF k = l THEN d ELSE S.stack[k]
  BY <1>1, <1>2, ExceptSeq
<1> HIDE DEF s
<1>5. N \in State /\ N.stack = s /\ N.hold = S.hold /\ N.fatal = Running /\ ~N.fndef
  BY <1>1, <1>3, <1>4 DEF State
<1>6. \A k \in 1..Len(S.stack) : N.stack[k].type = S.stack[k].type
  BY <1>2, <1>4, <1>5
<1> QED
  BY <1>4, <1>5, <1>6, SameTypes DEF N

LEMMA InsertId ==
  ASSUME NEW S, Ready(S), NEW n, NEW sc, NEW e \in Entry
  PROVE  LET I == scope_insert_id(S, n, sc, e) IN
         /\ Keeps(S, I)
         /\ I.fatal = Running => ~I.hold /\ insert_level(S) = Len(I.stack)
<1> DEFINE R == insert_state(S)
           l == Len(R.stack)
           I == scope_insert_id(S, n, sc, e)
           N == PutId(R, l, n, e)
<1>1. /\ Keeps(S, R) /\ R.fatal = Running /\ ~R.hold /\ l \in 1..Len(R.stack)
      /\ insert_level(S) = l
  BY InsertState
<1>2. Ready(R) /\ R \in State /\ ~R.fndef
  BY <1>1 DEF Keeps, Stays, Ready
<1>3. I = IF is_redeclaration(S, n, sc) THEN [R EXCEPT !.fndef = FALSE]
          ELSE IF R.stack[l].ids[n] # NoEntry
          THEN Fatal(R, "symbol already exists in symbol table")
          ELSE [R EXCEPT !.stack[l].ids[n] = e, !.fndef = FALSE]
  BY <1>1 DEF scope_insert_id, After
<1>4. [R EXCEPT !.fndef = FALSE] = R
  BY <1>2 DEF State
<1>5. [R EXCEPT !.stack[l].ids[n] = e, !.fndef = FALSE] = N
  BY <1>2 DEF State, PutId
<1> HIDE DEF R, l, I, N
<1>6. Keeps(R, N) /\ N.fatal = Running /\ N.hold = R.hold /\ Len(N.stack) = l
  BY <1>1, <1>2, PutEntry DEF N, l
<1>7. CASE I = R
  BY <1>7, <1>1 DEF I, l
<1>8. CASE I = Fatal(R, "symbol already exists in symbol table")
  <2>1. Sound(I) /\ I.fatal # Running
    BY <1>2, <1>8, FatalSound DEF ProgramErrors
  <2> QED
    BY <2>1 DEF Keeps, I
<1>9. CASE I = N
  BY <1>1, <1>6, <1>9, KeepsTransitive DEF I
<1> QED
  BY <1>3, <1>4, <1>5, <1>7, <1>8, <1>9

(* The name of a function with a body goes to the file scope, and a held   *)
(* prototype stays for the body to take.                                   *)
LEMMA InsertFunction ==
  ASSUME NEW S, Ready(S), NEW n, NEW sc, NEW e \in Entry
  PROVE  LET I == scope_insert_id(scope_set_fndef(S), n, sc, e) IN
         /\ Keeps(S, I) /\ insert_level(scope_set_fndef(S)) = 1
         /\ I.fatal = Running => I.hold = S.hold /\ Len(I.stack) = Len(S.stack)
<1> DEFINE F == scope_set_fndef(S)
           I == scope_insert_id(F, n, sc, e)
           N == PutId(S, 1, n, e)
<1>1. S \in State /\ ~S.fndef /\ S.fatal = Running
  BY DEF Ready
<1>2. F = [S EXCEPT !.fndef = TRUE] /\ F.fndef /\ F.stack = S.stack /\ F.fatal = Running
      /\ F \in State
  BY <1>1 DEF scope_set_fndef, State
<1>3. insert_level(F) = 1 /\ insert_state(F) = F
  BY <1>2 DEF insert_level, insert_state
<1>4. I = IF is_redeclaration(F, n, sc) THEN [F EXCEPT !.fndef = FALSE]
          ELSE IF F.stack[1].ids[n] # NoEntry
          THEN Fatal(F, "symbol already exists in symbol table")
          ELSE [F EXCEPT !.stack[1].ids[n] = e, !.fndef = FALSE]
  BY <1>2, <1>3 DEF scope_insert_id, After
<1>5. [F EXCEPT !.fndef = FALSE] = S
  BY <1>1, <1>2 DEF State
<1>6. [F EXCEPT !.stack[1].ids[n] = e, !.fndef = FALSE] = N
  BY <1>1, <1>2 DEF State, PutId
<1>7. 1 \in 1..Len(S.stack)
  <2>1. Len(S.stack) \in Nat /\ Len(S.stack) # 0
    BY LenProperties DEF Ready, StackOK, State
  <2> QED
    BY ONLY <2>1
<1> HIDE DEF F, I, N
<1>8. Keeps(S, N) /\ N.fatal = Running /\ N.hold = S.hold /\ Len(N.stack) = Len(S.stack)
  BY <1>7, PutEntry DEF N
<1>9. CASE I = S
  BY <1>9, <1>3, KeepsSelf DEF I, F
<1>10. CASE I = Fatal(F, "symbol already exists in symbol table")
  <2>1. Sound(I) /\ I.fatal # Running
    BY <1>2, <1>10, FatalSound DEF ProgramErrors
  <2> QED
    BY <1>3, <2>1 DEF Keeps, I, F
<1>11. CASE I = N
  BY <1>3, <1>8, <1>11 DEF I, F
<1> QED
  BY <1>4, <1>5, <1>6, <1>9, <1>10, <1>11

-----------------------------------------------------------------------------
(* decl.c *)

(* A failed check ends the process with an error of the program. *)
Checked(S, F) == F = S \/ (Sound(F) /\ F.fatal # Running)

LEMMA FinalizeChecks ==
  ASSUME NEW S, Ready(S), NEW node, NEW behind
  PROVE  Checked(S, decl_finalize(S, node, behind))
  BY FatalSound DEF Checked, decl_finalize, ProgramErrors, Ready

(* A name gets its entry; the function scope that a local object needs is   *)
(* there.                                                                  *)
LEMMA InstallEntry ==
  ASSUME NEW S, Ready(S), NEW l \in 1..Len(S.stack),
         l = 1 \/ (~S.hold /\ l = Len(S.stack)),
         NEW n, NEW sc \in {"none", "extern", "static"}, NEW is_fn
  PROVE  LET N == install_entry(S, l, n, sc, is_fn) IN
         Keeps(S, N) /\ N.fatal = Running /\ N.hold = S.hold
<1> DEFINE e == [sc |-> default_sc(S, n, sc), proto |-> S.stack[l].type = "proto"]
           E == PutId(S, l, n, e)
           N == install_entry(S, l, n, sc, is_fn)
<1>1. e \in Entry
  BY DEF Entry, default_sc
<1> HIDE DEF e
<1>2. /\ Keeps(S, E) /\ E.fatal = Running /\ E.hold = S.hold
      /\ Len(E.stack) = Len(S.stack)
  BY <1>1, PutEntry
<1>3. N = IF NeedsFnScope(E.stack[l], e.sc, is_fn) /\ get_fn_scope(E) = 0
          THEN Fatal(E, "null function scope") ELSE E
  BY DEF install_entry, PutId, e
<1>4. Len(S.stack) \in Nat /\ Len(S.stack) # 0 /\ StackOK(E)
  BY <1>2, LenProperties DEF Ready, StackOK, State, Keeps, Stays
<1> HIDE DEF E
<1>5. ~(NeedsFnScope(E.stack[l], e.sc, is_fn) /\ get_fn_scope(E) = 0)
  <2> SUFFICES ASSUME E.stack[l].type \notin {"file", "proto"} PROVE get_fn_scope(E) # 0
    BY DEF NeedsFnScope
  <2>1. l # 1
    BY <1>4 DEF StackOK
  <2>2. l \in 2..Len(E.stack) /\ Len(E.stack) >= 2
    <3>1. l \in 1..Len(S.stack) /\ Len(S.stack) \in Nat /\ l # 1
      BY <1>4, <2>1
    <3>2. l \in 2..Len(S.stack) /\ Len(S.stack) >= 2
      BY ONLY <3>1
    <3> QED
      BY <3>2, <1>2
  <2>3. E.stack[l].type \in {"func", "block"}
    BY <1>4, <2>2 DEF StackOK
  <2>4. E.stack[2].type = "func"
    BY <1>4, <2>2, <2>3 DEF StackOK
  <2> QED
    BY <2>2, <2>4 DEF get_fn_scope, current
<1> QED
  BY <1>2, <1>3, <1>5

LEMMA InstallObject ==
  ASSUME NEW S, Ready(S), NEW n, NEW sc \in {"none", "extern", "static"},
         NEW is_fn, NEW node, NEW behind
  PROVE  Keeps(S, decl_install(S, n, sc, is_fn, node, behind))
<1> DEFINE F == decl_finalize(S, node, behind)
           N == decl_install(S, n, sc, is_fn, node, behind)
           d == [sc |-> sc, proto |-> FALSE]
           I == scope_insert_id(S, n, sc, d)
<1>1. Checked(S, F) /\ S.fatal = Running
  BY FinalizeChecks DEF Ready
<1>2. CASE F # S
  BY <1>1, <1>2 DEF decl_install, Checked, After, Keeps
<1>3. CASE F = S
  <2>1. d \in Entry
    BY DEF Entry
  <2> HIDE DEF d
  <2>2. /\ Keeps(S, I)
        /\ I.fatal = Running => ~I.hold /\ insert_level(S) = Len(I.stack)
    BY <2>1, InsertId
  <2>3. N = IF is_redeclaration(S, n, sc) \/ I.fatal # Running THEN I
            ELSE install_entry(I, insert_level(S), n, sc, is_fn)
    BY <1>1, <1>3 DEF decl_install, After, d
  <2> HIDE DEF N, I
  <2>4. CASE I.fatal # Running \/ N = I
    BY <2>2, <2>3, <2>4 DEF N
  <2>5. CASE I.fatal = Running /\ N = install_entry(I, insert_level(S), n, sc, is_fn)
    <3>1. Ready(I) /\ insert_level(S) = Len(I.stack) /\ ~I.hold
      BY <2>2, <2>5 DEF Keeps, Stays
    <3>2. Len(I.stack) \in 1..Len(I.stack)
      <4>1. Len(I.stack) \in Nat /\ Len(I.stack) # 0
        BY <3>1, LenProperties DEF Ready, StackOK, State
      <4> QED
        BY ONLY <4>1
    <3>3. Keeps(I, N)
      BY <2>5, <3>1, <3>2, InstallEntry
    <3> QED
      BY <2>2, <2>5, <3>3, KeepsTransitive DEF N
  <2> QED
    BY <2>3, <2>4, <2>5
<1> QED
  BY <1>2, <1>3

(* The definition of a function leaves the prototype on hold. *)
LEMMA InstallDefined ==
  ASSUME NEW S, Ready(S), NEW n, NEW sc \in {"none", "extern", "static"},
         NEW is_fn, NEW node, NEW behind
  PROVE  LET N == decl_install(scope_set_fndef(S), n, sc, is_fn, node, behind) IN
         Keeps(S, N) /\ (N.fatal = Running => N.hold = S.hold)
<1> DEFINE D == scope_set_fndef(S)
           F == decl_finalize(D, node, behind)
           N == decl_install(D, n, sc, is_fn, node, behind)
           d == [sc |-> sc, proto |-> FALSE]
           I == scope_insert_id(D, n, sc, d)
<1>1. D \in State /\ D.fatal = Running
  BY DEF scope_set_fndef, Ready, State
<1>2. Checked(D, F)
  BY <1>1, FatalSound DEF Checked, decl_finalize, ProgramErrors
<1>3. CASE F # D
  <2>1. N = F /\ Sound(F) /\ F.fatal # Running
    BY <1>2, <1>3 DEF decl_install, Checked, After
  <2> QED
    BY <2>1 DEF Keeps
<1>4. CASE F = D
  <2>1. d \in Entry
    BY DEF Entry
  <2> HIDE DEF d
  <2>2. /\ Keeps(S, I) /\ insert_level(D) = 1
        /\ I.fatal = Running => I.hold = S.hold
    BY <2>1, InsertFunction
  <2>3. N = IF is_redeclaration(D, n, sc) \/ I.fatal # Running THEN I
            ELSE install_entry(I, 1, n, sc, is_fn)
    BY <1>1, <1>4, <2>2 DEF decl_install, After, d
  <2> HIDE DEF N, I, D
  <2>4. CASE I.fatal # Running \/ N = I
    BY <2>2, <2>3, <2>4 DEF N, D
  <2>5. CASE I.fatal = Running /\ N = install_entry(I, 1, n, sc, is_fn)
    <3>1. Ready(I)
      BY <2>2, <2>5 DEF Keeps, Stays
    <3>2. 1 \in 1..Len(I.stack)
      <4>1. Len(I.stack) \in Nat /\ Len(I.stack) # 0
        BY <3>1, LenProperties DEF Ready, StackOK, State
      <4> QED
        BY ONLY <4>1
    <3>3. Keeps(I, N) /\ N.hold = I.hold
      BY <2>5, <3>1, <3>2, InstallEntry
    <3> QED
      BY <2>2, <2>5, <3>3, KeepsTransitive DEF N, D
  <2> QED
    BY <2>3, <2>4, <2>5
<1> QED
  BY <1>3, <1>4

LEMMA CheckFndef ==
  ASSUME NEW S, Ready(S), NEW is_fn, NEW nameless
  PROVE  /\ Checked(S, decl_check_fndef(S, is_fn, nameless))
         /\ decl_check_fndef(S, is_fn, nameless).fatal = Running => is_fn
  BY FatalSound DEF Checked, decl_check_fndef, ProgramErrors, Ready

-----------------------------------------------------------------------------
(* structunion.c *)

(* A change of the structs and their stack only *)
LEMMA ChangeStructs ==
  ASSUME NEW S, Ready(S), NEW N \in State,
         N.stack = S.stack, N.hold = S.hold, N.fndef = S.fndef, N.fatal = S.fatal
  PROVE  Keeps(S, N)
  BY DEF Keeps, Stays, Ready, Sound, StackOK, Vis, Running, InternalErrors

(* The struct stack of N has one more struct than S's, its node a number.  *)
Enters(S, N) == \E d \in Nat : N.decls = Append(S.decls, d)

LEMMA TopOfEntered ==
  ASSUME NEW S \in State, NEW N, Enters(S, N)
  PROVE  TopStruct(N) \in Nat
<1>1. PICK d \in Nat : N.decls = Append(S.decls, d)
  BY DEF Enters
<1>2. S.decls \in Seq(Nat)
  BY DEF State
<1>3. Len(N.decls) = Len(S.decls) + 1 /\ N.decls[Len(S.decls) + 1] = d
  BY <1>1, <1>2, AppendFacts
<1> QED
  BY <1>1, <1>3 DEF TopStruct, Last

LEMMA KeepNewKeeps ==
  ASSUME NEW S, Ready(S), NEW tag \in TagNames, NEW defining \in BOOLEAN
  PROVE  LET N == KeepNew(S, tag, defining) IN
         Keeps(S, N) /\ (N.fatal = Running => Enters(S, N))
<1> DEFINE su == NewStruct(defining)
           d == Len(S.sus) + 1
           P == [S EXCEPT !.sus = Append(S.sus, su), !.decls = Append(S.decls, d)]
           N == KeepNew(S, tag, defining)
<1>1. S \in State /\ S.sus \in Seq(Struct) /\ S.decls \in Seq(Nat) /\ su \in Struct
  BY DEF Ready, State, Struct, NewStruct
<1>2. d \in Nat
  BY <1>1, LenProperties
<1> HIDE DEF su
<1>3. /\ Append(S.sus, su) \in Seq(Struct) /\ Len(Append(S.sus, su)) = d
      /\ Append(S.decls, d) \in Seq(Nat)
  BY <1>1, <1>2, AppendFacts
<1> HIDE DEF d
<1>4. /\ P \in State /\ P.stack = S.stack /\ P.hold = S.hold /\ P.fndef = S.fndef
      /\ P.fatal = S.fatal /\ P.decls = Append(S.decls, d)
      /\ P.sus = Append(S.sus, su)
  BY <1>1, <1>3 DEF State
<1>5. N = IF tag = Untagged /\ defining THEN P ELSE scope_insert_tag(P, tag, Len(P.sus))
  BY DEF KeepNew, su, d
<1> HIDE DEF P, N
<1>6. Keeps(S, P) /\ P.fatal = Running /\ Enters(S, P) /\ Ready(P)
  BY <1>2, <1>4, ChangeStructs DEF Enters, Keeps, Stays, Ready
<1>7. CASE tag = Untagged /\ defining
  BY <1>5, <1>6, <1>7 DEF N
<1>8. CASE ~(tag = Untagged /\ defining)
  <2>1. /\ Keeps(P, N) /\ (N.fatal = Running => N.decls = P.decls)
    BY <1>2, <1>3, <1>4, <1>5, <1>6, <1>8, InsertTag
  <2> QED
    BY <2>1, <1>6, KeepsTransitive DEF Enters, N
<1> QED
  BY <1>7, <1>8

LEMMA SetName ==
  ASSUME NEW S, Ready(S), NEW tag \in TagNames, NEW begin_def \in BOOLEAN
  PROVE  LET N == structunion_set_name(S, tag, begin_def) IN
         Keeps(S, N) /\ (N.fatal = Running => Enters(S, N))
<1> DEFINE N == structunion_set_name(S, tag, begin_def)
           node == IF tag = Untagged THEN Absent ELSE scope_lookup_tag(S, tag)
           D == [S EXCEPT !.decls = Append(S.decls, node)]
           E == [S EXCEPT !.decls = Append(S.decls, node),
                          !.sus[node].defining = begin_def]
<1>1. S \in State /\ S.fatal = Running /\ S.decls \in Seq(Nat) /\ S.stack \in Seq(Scopes)
  BY DEF Ready, State
<1>2. node \in Nat
  <2>1. CASE get_scope_tag(S, tag) = 0 \/ tag = Untagged
    BY <2>1 DEF scope_lookup_tag, Absent
  <2>2. CASE get_scope_tag(S, tag) # 0 /\ tag # Untagged
    <3> DEFINE C == {i \in 1..Len(S.stack) : S.stack[i].tags[tag] # Absent}
    <3>1. get_scope_tag(S, tag) \in 1..Len(S.stack)
      <4>1. get_scope_tag(S, tag) = Innermost(C) /\ C \subseteq 1..Len(S.stack)
        BY DEF get_scope_tag, current
      <4> HIDE DEF C
      <4>2. \E i \in C : IsInnermost(i, C)
        BY <4>1, <2>2 DEF Innermost
      <4>3. Innermost(C) \in C
        BY <4>2 DEF Innermost
      <4> QED
        BY <4>1, <4>3
    <3>2. S.stack[get_scope_tag(S, tag)] \in Scopes
      BY <1>1, <3>1, ElementOfSeq
    <3> QED
      BY <2>2, <3>2 DEF scope_lookup_tag, Scopes
  <2> QED
    BY <2>1, <2>2
<1>3. \/ N = Fatal(S, "struct/union redefinition")
      \/ N = Fatal(S, "nested struct/union redefinition")
      \/ N = E \/ N = D \/ N = KeepNew(S, tag, begin_def)
  BY DEF structunion_set_name
<1> HIDE DEF node, N
<1>4. Append(S.decls, node) \in Seq(Nat)
  BY <1>1, <1>2, AppendFacts
<1>5. D \in State /\ Keeps(S, D) /\ Enters(S, D)
  <2>1. D \in State /\ D.stack = S.stack /\ D.hold = S.hold /\ D.fndef = S.fndef
        /\ D.fatal = S.fatal /\ D.decls = Append(S.decls, node)
    BY <1>1, <1>4 DEF State
  <2> QED
    BY <2>1, <1>2, ChangeStructs DEF Enters
<1>6. Keeps(S, E) /\ Enters(S, E)
  <2> DEFINE s == [S.sus EXCEPT ![node].defining = begin_def]
  <2>1. s \in Seq(Struct)
    <3>1. S.sus \in Seq(Struct)
      BY <1>1 DEF State
    <3>2. CASE node \in 1..Len(S.sus)
      <4>1. S.sus[node] \in Struct
        BY <3>1, <3>2, ElementOfSeq
      <4>2. [S.sus[node] EXCEPT !.defining = begin_def] \in Struct
        BY <4>1 DEF Struct
      <4> QED
        BY <3>1, <3>2, <4>2, ExceptSeq
    <3>3. CASE node \notin 1..Len(S.sus)
      <4>1. DOMAIN S.sus = 1..Len(S.sus)
        BY <3>1, LenProperties
      <4>2. s = S.sus
        BY <3>1, <3>3, <4>1
      <4> QED
        BY <3>1, <4>2
    <3> QED
      BY <3>2, <3>3
  <2>2. E = [S EXCEPT !.decls = Append(S.decls, node), !.sus = s]
    BY <1>1 DEF State
  <2> HIDE DEF s
  <2>3. E \in State /\ E.stack = S.stack /\ E.hold = S.hold /\ E.fndef = S.fndef
        /\ E.fatal = S.fatal /\ E.decls = Append(S.decls, node)
    BY <1>1, <1>4, <2>1, <2>2 DEF State
  <2> QED
    BY <2>3, <1>2, ChangeStructs DEF Enters
<1>7. CASE N = Fatal(S, "struct/union redefinition")
           \/ N = Fatal(S, "nested struct/union redefinition")
  <2>1. Sound(N) /\ N.fatal # Running
    BY <1>1, <1>7, FatalSound DEF ProgramErrors
  <2> QED
    BY <2>1 DEF Keeps, N
<1>8. CASE N = KeepNew(S, tag, begin_def)
  BY <1>8, KeepNewKeeps DEF N
<1> HIDE DEF D, E
<1>9. CASE N = D \/ N = E
  BY <1>5, <1>6, <1>9 DEF N
<1> QED
  BY <1>3, <1>7, <1>8, <1>9


(* Setting the fields of a struct *)
LEMMA ChangeStruct ==
  ASSUME NEW S \in State, NEW k, NEW e, k \in 1..Len(S.sus) => e \in Struct
  PROVE  [S.sus EXCEPT ![k] = e] \in Seq(Struct)
<1>1. S.sus \in Seq(Struct) /\ DOMAIN S.sus = 1..Len(S.sus)
  <2>1. S.sus \in Seq(Struct)
    BY DEF State
  <2> QED
    BY <2>1, LenProperties
<1>2. CASE k \in 1..Len(S.sus)
  BY <1>1, <1>2, ExceptSeq
<1>3. CASE k \notin 1..Len(S.sus)
  <2>1. [S.sus EXCEPT ![k] = e] = S.sus
    BY <1>1, <1>3
  <2> QED
    BY <1>1, <2>1
<1> QED
  BY <1>2, <1>3

LEMMA InstallMember ==
  ASSUME NEW S, Ready(S), NEW ident \in Members, NEW node, NEW behind
  PROVE  Keeps(S, structunion_install_member(S, ident, node, behind))
<1> DEFINE F == decl_finalize(S, node, behind)
           su == TopStruct(S)
           e == [S.sus[su] EXCEPT !.members = @ \cup {ident}]
           s == [S.sus EXCEPT ![su] = e]
           N == structunion_install_member(S, ident, node, behind)
<1>1. Checked(S, F) /\ S \in State /\ S.fatal = Running
  BY FinalizeChecks DEF Ready
<1>2. CASE F # S
  BY <1>1, <1>2 DEF structunion_install_member, Checked, After, Keeps
<1>3. CASE F = S
  <2>1. N = IF ident \in S.sus[su].members THEN Fatal(S, "duplicate member")
            ELSE [S EXCEPT !.sus = s]
    BY <1>1, <1>3 DEF structunion_install_member, After, State
  <2>2. ASSUME su \in 1..Len(S.sus) PROVE e \in Struct
    <3>1. S.sus[su] \in Struct
      BY <1>1, <2>2, ElementOfSeq DEF State
    <3> QED
      BY <3>1 DEF Struct
  <2> HIDE DEF e, su, N
  <2>3. s \in Seq(Struct)
    BY <1>1, <2>2, ChangeStruct
  <2> HIDE DEF s
  <2>4. CASE N = Fatal(S, "duplicate member")
    <3>1. Sound(N) /\ N.fatal # Running
      BY <1>1, <2>4, FatalSound DEF ProgramErrors
    <3> QED
      BY <3>1 DEF Keeps, N
  <2>5. CASE N = [S EXCEPT !.sus = s]
    <3>1. N \in State /\ N.stack = S.stack /\ N.hold = S.hold /\ N.fndef = S.fndef
          /\ N.fatal = S.fatal
      BY <1>1, <2>3, <2>5 DEF State
    <3> QED
      BY <3>1, ChangeStructs DEF N
  <2> QED
    BY <2>1, <2>4, <2>5
<1> QED
  BY <1>2, <1>3

LEMMA StructDone ==
  ASSUME NEW S, Ready(S), NEW is_complete
  PROVE  Keeps(S, structunion_done(S, is_complete))
<1> DEFINE su == TopStruct(S)
           P == IF S.sus[su].defining /\ is_complete
                THEN scope_pop(scope_push(S, "structunion")) ELSE S
           e == [S.sus[su] EXCEPT !.defining = FALSE, !.complete = TRUE]
           s == IF is_complete THEN [S.sus EXCEPT ![su] = e] ELSE S.sus
           N == structunion_done(S, is_complete)
<1>1. Keeps(S, P) /\ P.fatal = Running /\ P.sus = S.sus /\ P.decls = S.decls
  BY DummyScope, KeepsSelf DEF Ready
<1>2. S \in State /\ P \in State /\ Ready(P)
  BY <1>1 DEF Keeps, Stays, Ready
<1>3. N = [P EXCEPT !.sus = s, !.decls = Front(S.decls)]
  <2> DEFINE Q == IF is_complete
                  THEN [P EXCEPT !.sus[su].defining = FALSE, !.sus[su].complete = TRUE]
                  ELSE P
  <2> HIDE DEF P
  <2>1. N = [Q EXCEPT !.decls = Front(Q.decls)]
    BY <1>1 DEF structunion_done, After, P
  <2>2. Q = [P EXCEPT !.sus = s]
    <3>1. CASE is_complete
      <4>1. [P EXCEPT !.sus[su].defining = FALSE, !.sus[su].complete = TRUE]
              = [P EXCEPT !.sus = [P.sus EXCEPT ![su] =
                                     [P.sus[su] EXCEPT !.defining = FALSE, !.complete = TRUE]]]
        BY <1>2 DEF State
      <4> QED
        BY <4>1, <3>1, <1>1
    <3>2. CASE ~is_complete
      BY <3>2, <1>1, <1>2 DEF State
    <3> QED
      BY <3>1, <3>2
  <2> HIDE DEF Q, s, N, su
  <2> QED
    BY <2>1, <2>2, <1>1, <1>2 DEF State
<1>4. ASSUME su \in 1..Len(S.sus) PROVE e \in Struct
  <2>1. S.sus[su] \in Struct
    BY <1>2, <1>4, ElementOfSeq DEF State
  <2> QED
    BY <2>1 DEF Struct
<1>5. Front(S.decls) \in Seq(Nat)
  <2>1. S.decls \in Seq(Nat)
    BY <1>2 DEF State
  <2>2. CASE Len(S.decls) # 0
    BY <2>1, <2>2, FrontFacts
  <2>3. CASE Len(S.decls) = 0
    <3>1. Front(S.decls) = << >>
      BY <2>3, SubSeqEmpty DEF Front
    <3> QED
      BY <3>1
  <2> QED
    BY <2>2, <2>3
<1> HIDE DEF e, su, P, N
<1>6. s \in Seq(Struct)
  BY <1>2, <1>4, ChangeStruct DEF State
<1> HIDE DEF s
<1>7. N \in State /\ N.stack = P.stack /\ N.hold = P.hold /\ N.fndef = P.fndef
      /\ N.fatal = P.fatal
  BY <1>2, <1>3, <1>5, <1>6 DEF State
<1>8. Keeps(P, N)
  BY <1>2, <1>7, ChangeStructs
<1> QED
  BY <1>1, <1>8, KeepsTransitive DEF N

LEMMA CheckEmpty ==
  ASSUME NEW S, Ready(S), NEW node, NEW tag \in TagNames, NEW sc
  PROVE  Keeps(S, declspec_check_empty(S, node, tag, sc))
<1> DEFINE K == KeepNew(S, tag, FALSE)
           N == declspec_check_empty(S, node, tag, sc)
<1>1. N = S \/ N = After(K, structunion_done(K, FALSE))
  BY DEF declspec_check_empty, structunion_forward_declare
<1>2. Keeps(S, K)
  BY KeepNewKeeps
<1> HIDE DEF K, N
<1>3. CASE N = S
  BY <1>3, KeepsSelf DEF N
<1>4. CASE K.fatal = Running /\ N = structunion_done(K, FALSE)
  <2>1. Ready(K)
    BY <1>2, <1>4 DEF Keeps, Stays
  <2>2. Keeps(K, N)
    BY <1>4, <2>1, StructDone
  <2> QED
    BY <1>2, <1>4, <2>2, KeepsTransitive DEF N
<1>5. CASE N = K
  BY <1>2, <1>5 DEF N
<1> QED
  BY <1>1, <1>3, <1>4, <1>5 DEF After
=============================================================================
