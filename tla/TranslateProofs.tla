-------------------------- MODULE TranslateProofs --------------------------
(***************************************************************************)
(* For all programs, however deep they nest: Translate keeps its type      *)
(* invariant, one scope per open construct, and never fails internally.    *)
(* The inductive invariant adds to these what the shape of ctx and of the  *)
(* scope stack is, and that a declarator which may still turn out to be    *)
(* the head of a function definition has its prototype on hold.            *)
(***************************************************************************)
EXTENDS Translate, ScopeProofs

-----------------------------------------------------------------------------
(* The shape of ctx, the abstraction of the bison stack: which construct   *)
(* can be inside which, and the depth of each.                             *)
Scoped == OpensScope \cup {"file"}

(* Construct f can be directly inside construct g. *)
Fits(g, f) ==
  /\ f.kind # "file"
  /\ f.depth = g.depth + (IF f.kind \in OpensScope THEN 1 ELSE 0)
  /\ f.kind = "su" => g.kind = "decl" /\ g.at = "spec"
  /\ f.kind = "params" => g.kind = "decl" /\ g.at = "name" /\ g.name # NoName
  /\ f.kind = "aparams" => g.kind = "decl" /\ g.at = "name" /\ g.name = NoName
  /\ f.kind = "body" => g.kind = "file"
  /\ f.kind \in {"block", "for"} => g.kind \in {"body", "block", "for"}
  /\ f.kind = "decl" =>
       /\ g.kind # "decl"
       /\ g.kind = "su" => f.name \in Members \cup {NoName}
       /\ g.kind # "su" => f.name \in Idents \cup {NoName}
       /\ f.at = "name" /\ f.name = NoName => g.kind \in {"params", "aparams"}
       /\ f.at \in {"spec", "more"} => f.lists = 0
       /\ f.node # 0 => f.tag \in TagNames

FramesOK(c) ==
  /\ c \in Seq(Frames) /\ Len(c) # 0 /\ c[1].kind = "file" /\ c[1].depth = 1
  /\ \A i \in 2..Len(c) : Fits(c[i-1], c[i])
  /\ \A i, j \in 1..Len(c) : i <= j => c[i].depth <= c[j].depth

(* The scopes of d's constructs are scopes of c's. *)
Within(d, c) ==
  \A i \in 1..Len(d) : d[i].kind \in Scoped =>
    \E j \in 1..Len(c) : c[j].kind = d[i].kind /\ c[j].depth = d[i].depth

-----------------------------------------------------------------------------
LEMMA FrameFacts ==
  ASSUME NEW c, FramesOK(c)
  PROVE  /\ Len(c) \in Nat /\ Len(c) >= 1 /\ Top(c) \in Frames
         /\ Top(c) = c[Len(c)] /\ Top(c).depth \in Nat
         /\ \A i \in 1..Len(c) : c[i] \in Frames /\ c[i].depth \in 1..Top(c).depth
         /\ \A i \in 1..Len(c) : c[i].depth \in Nat /\ c[i].depth <= Top(c).depth
         /\ Top(c).kind = "file" <=> Len(c) = 1
<1> DEFINE n == Len(c)
<1>1. n \in Nat /\ n # 0 /\ n = Len(c) /\ \A i \in 1..n : c[i] \in Frames
  BY LenProperties, ElementOfSeq DEF FramesOK
<1> HIDE DEF n
<1>2. n >= 1 /\ 1 \in 1..n /\ n \in 1..n /\ (n # 1 => n \in 2..n)
  BY ONLY <1>1
<1>3. ASSUME NEW i \in 1..n
      PROVE  c[1].depth <= c[i].depth /\ c[i].depth <= c[n].depth
  <2>1. i \in Nat /\ 1 <= i /\ i <= n
    BY <1>1
  <2> QED
    BY <1>1, <1>2, <2>1 DEF FramesOK
<1>4. \A i \in 1..n : c[i].depth \in Nat
  BY <1>1 DEF Frames
<1>5. ASSUME NEW i \in 1..n
      PROVE  c[i].depth \in 1..c[n].depth /\ c[i].depth <= c[n].depth
  <2>1. c[i].depth \in Nat /\ c[n].depth \in Nat /\ c[1].depth = 1
    BY <1>2, <1>4 DEF FramesOK
  <2>2. 1 <= c[i].depth /\ c[i].depth <= c[n].depth
    BY <1>3, <2>1
  <2> QED
    BY <2>1, <2>2
<1>6. c[n].kind = "file" <=> n = 1
  BY <1>1, <1>2 DEF FramesOK, Fits
<1> QED
  BY <1>1, <1>2, <1>4, <1>5, <1>6 DEF Top

LEMMA WithinTransitive ==
  ASSUME NEW c, NEW d, NEW e, Within(d, c), Within(e, d) PROVE Within(e, c)
  BY DEF Within

LEMMA PushFrame ==
  ASSUME NEW c, FramesOK(c), NEW f \in Frames, Fits(Top(c), f)
  PROVE  LET d == Append(c, f) IN
         /\ FramesOK(d) /\ Top(d) = f /\ Below(d) = Top(c) /\ Len(d) = Len(c) + 1
         /\ Front(d) = c
         /\ \A i \in 1..Len(c) : d[i] = c[i]
         /\ f.kind \notin Scoped => Within(d, c)
<1> DEFINE n == Len(c)
           d == Append(c, f)
<1>1. /\ c \in Seq(Frames) /\ n \in Nat /\ n >= 1 /\ Top(c) = c[n]
      /\ \A i \in 1..n : c[i].depth <= c[n].depth
      /\ \A i \in 1..n : c[i].depth \in Nat
  BY FrameFacts DEF FramesOK
<1>2. /\ d \in Seq(Frames) /\ Len(d) = n + 1 /\ d[n + 1] = f
      /\ \A i \in 1..n : d[i] = c[i]
  BY <1>1, AppendFacts
<1>3. Front(d) = c
  BY <1>1, FrontAppend
<1>4. n = Len(c)
  OBVIOUS
<1> HIDE DEF n, d
<1>5. Top(d) = f /\ Below(d) = c[n]
  <2>1. (n + 1) - 1 = n /\ n \in 1..n
    BY ONLY <1>1
  <2> QED
    BY <1>2, <2>1 DEF Top, Below
<1>6. f.depth \in Nat /\ c[n].depth <= f.depth
  <2>1. f.depth \in Nat /\ c[n].depth \in Nat /\ n \in 1..n
    BY <1>1 DEF Frames
  <2>2. f.depth = c[n].depth \/ f.depth = c[n].depth + 1
    BY <1>1, <2>1 DEF Fits
  <2> QED
    BY ONLY <2>1, <2>2
<1>7. \A i \in 2..n + 1 : Fits(d[i-1], d[i])
  <2> TAKE i \in 2..n + 1
  <2>1. CASE i = n + 1
    <3>1. i - 1 = n /\ n \in 1..n
      BY ONLY <2>1, <1>1
    <3> QED
      BY <2>1, <3>1, <1>1, <1>2
  <2>2. CASE i # n + 1
    <3>1. i \in 2..n /\ i \in 1..n /\ i - 1 \in 1..n
      BY ONLY <2>2, <1>1, i \in 2..n + 1
    <3> QED
      BY <3>1, <1>2, <1>4 DEF FramesOK
  <2> QED
    BY <2>1, <2>2
<1>8. \A i, j \in 1..n + 1 : i <= j => d[i].depth <= d[j].depth
  <2> SUFFICES ASSUME NEW i \in 1..n + 1, NEW j \in 1..n + 1, i <= j
               PROVE  d[i].depth <= d[j].depth
    OBVIOUS
  <2>1. CASE j # n + 1
    <3>1. i \in 1..n /\ j \in 1..n
      BY ONLY <2>1, <1>1, i <= j, i \in 1..n + 1, j \in 1..n + 1
    <3> QED
      BY <3>1, <1>2, <1>4 DEF FramesOK
  <2>2. CASE j = n + 1 /\ i = n + 1
    BY <2>2, <1>2, <1>6
  <2>3. CASE j = n + 1 /\ i # n + 1
    <3>1. i \in 1..n
      BY ONLY <2>3, <1>1, i \in 1..n + 1
    <3>2. c[i].depth \in Nat /\ c[n].depth \in Nat /\ n \in 1..n
          /\ c[i].depth <= c[n].depth
      BY <3>1, <1>1
    <3>3. c[i].depth <= f.depth
      BY ONLY <3>2, <1>6
    <3> QED
      BY <2>3, <3>1, <3>3, <1>2
  <2> QED
    BY <2>1, <2>2, <2>3
<1>9. FramesOK(d)
  <2>1. 1 \in 1..n /\ n + 1 # 0
    BY ONLY <1>1
  <2> QED
    BY <2>1, <1>2, <1>7, <1>8 DEF FramesOK
<1>10. f.kind \notin Scoped => Within(d, c)
  <2>1. \A i \in 1..n + 1 : i = n + 1 \/ i \in 1..n
    BY ONLY <1>1
  <2> QED
    BY <2>1, <1>2, <1>4 DEF Within
<1> QED
  BY <1>1, <1>2, <1>3, <1>4, <1>5, <1>9, <1>10 DEF d

LEMMA DropFrame ==
  ASSUME NEW c, FramesOK(c), Len(c) # 1
  PROVE  LET d == Front(c) IN
         /\ FramesOK(d) /\ Top(d) = Below(c) /\ Within(d, c)
         /\ Len(d) = Len(c) - 1 /\ Below(c) \in Frames /\ Fits(Below(c), Top(c))
         /\ \A i \in 1..Len(d) : d[i] = c[i]
<1> DEFINE n == Len(c)
           d == Front(c)
<1>1. c \in Seq(Frames) /\ n \in Nat /\ n # 0 /\ n # 1 /\ Top(c) = c[n] /\ Below(c) = c[n-1]
      /\ \A i \in 1..n : c[i] \in Frames
  BY FrameFacts DEF FramesOK, Below
<1>2. /\ d \in Seq(Frames) /\ Len(d) = n - 1
      /\ \A i \in 1..n - 1 : d[i] = c[i]
  BY <1>1, FrontFacts
<1>3. n = Len(c)
  OBVIOUS
<1> HIDE DEF n, d
<1>4. /\ n - 1 \in Nat /\ n - 1 # 0 /\ 1 \in 1..n - 1 /\ n - 1 \in 1..n - 1 /\ n \in 2..n
      /\ \A i \in 1..n - 1 : i \in 1..n
      /\ \A i \in 2..n - 1 : i \in 2..n /\ i \in 1..n - 1 /\ i - 1 \in 1..n - 1
  BY ONLY <1>1
<1>5. FramesOK(d)
  <2>1. \A i \in 2..n - 1 : Fits(d[i-1], d[i])
    BY <1>2, <1>3, <1>4 DEF FramesOK
  <2>2. \A i, j \in 1..n - 1 : i <= j => d[i].depth <= d[j].depth
    BY <1>2, <1>3, <1>4 DEF FramesOK
  <2> QED
    BY <2>1, <2>2, <1>2, <1>4 DEF FramesOK
<1>6. Top(d) = c[n - 1] /\ c[n - 1] \in Frames /\ Fits(c[n - 1], c[n])
  BY <1>1, <1>2, <1>3, <1>4 DEF Top, FramesOK
<1>7. Within(d, c)
  BY <1>2, <1>3, <1>4 DEF Within
<1> QED
  BY <1>1, <1>2, <1>3, <1>5, <1>6, <1>7 DEF d

LEMMA SwapFrame ==
  ASSUME NEW c, FramesOK(c), NEW f \in Frames, f.depth = Top(c).depth,
         f.kind = Top(c).kind, Len(c) # 1 => Fits(Below(c), f)
  PROVE  LET d == ReplaceTop(c, f) IN
         /\ FramesOK(d) /\ Top(d) = f /\ Within(d, c) /\ Len(d) = Len(c)
         /\ Len(c) # 1 => Below(d) = Below(c)
<1> DEFINE n == Len(c)
           d == ReplaceTop(c, f)
<1>1. /\ c \in Seq(Frames) /\ n \in Nat /\ n # 0 /\ Top(c) = c[n] /\ Below(c) = c[n-1]
  BY FrameFacts DEF FramesOK, Below
<1>2. n \in 1..n /\ 1 \in 1..n
  BY ONLY <1>1
<1>3. /\ d \in Seq(Frames) /\ Len(d) = n
      /\ \A i \in 1..n : d[i] = IF i = n THEN f ELSE c[i]
  BY <1>1, <1>2, ExceptSeq DEF ReplaceTop
<1>4. n = Len(c)
  OBVIOUS
<1> HIDE DEF n, d
<1>5. \A i \in 1..n : d[i].depth = c[i].depth /\ d[i].kind = c[i].kind
  BY <1>1, <1>3
<1>6. \A i \in 2..n : Fits(d[i-1], d[i])
  <2> TAKE i \in 2..n
  <2>1. i - 1 \in 1..n /\ i - 1 # n /\ i \in 1..n /\ n # 1
    BY ONLY <1>1, i \in 2..n
  <2>2. CASE i = n
    BY <2>1, <2>2, <1>1, <1>3, <1>4
  <2>3. CASE i # n
    BY <2>1, <2>3, <1>3, <1>4 DEF FramesOK
  <2> QED
    BY <2>2, <2>3
<1>7. FramesOK(d)
  BY <1>1, <1>2, <1>3, <1>4, <1>5, <1>6 DEF FramesOK
<1>8. Within(d, c)
  BY <1>3, <1>4, <1>5 DEF Within
<1>9. n # 1 => Below(d) = Below(c)
  <2>1. n # 1 => n - 1 \in 1..n /\ n - 1 # n
    BY ONLY <1>1
  <2> QED
    BY <2>1, <1>1, <1>3 DEF Below
<1> QED
  BY <1>1, <1>2, <1>3, <1>4, <1>7, <1>8, <1>9 DEF Top, d

(* Nothing but a declaration looks at more than the kind and the depth of   *)
(* its frame.                                                              *)
LEMMA SameShape ==
  ASSUME NEW g, NEW h, NEW f, Fits(g, h), h.kind # "decl",
         f.kind = h.kind, f.depth = h.depth
  PROVE  Fits(g, f)
  BY DEF Fits

LEMMA ReplaceLast ==
  ASSUME NEW c, FramesOK(c), Top(c).kind # "decl",
         NEW f \in Frames, f.kind = Top(c).kind, f.depth = Top(c).depth
  PROVE  LET d == ReplaceTop(c, f) IN
         FramesOK(d) /\ Within(d, c) /\ Top(d) = f /\ (Len(c) # 1 => Below(d) = Below(c))
<1>1. Len(c) # 1 => Fits(Below(c), f)
  BY DropFrame, SameShape
<1> QED
  BY <1>1, SwapFrame

LEMMA StmtDoneFits ==
  ASSUME NEW c, FramesOK(c), Top(c).kind # "decl"
  PROVE  /\ FramesOK(StmtDone(c)) /\ Within(StmtDone(c), c)
         /\ Top(StmtDone(c)).depth = Top(c).depth /\ Top(StmtDone(c)).kind = Top(c).kind
<1> DEFINE f == [Top(c) EXCEPT !.at = "tail"]
<1>1. Top(c) \in Frames
  BY FrameFacts
<1>2. f \in Frames /\ f.kind = Top(c).kind /\ f.depth = Top(c).depth
  BY <1>1 DEF Frames
<1>3. [c EXCEPT ![Len(c)].at = "tail"] = ReplaceTop(c, f)
  BY DEF ReplaceTop, Top
<1>4. Within(c, c)
  BY DEF Within
<1> HIDE DEF f
<1>5. StmtDone(c) = IF Top(c).kind = "for" THEN ReplaceTop(c, f) ELSE c
  BY <1>3 DEF StmtDone
<1>6. FramesOK(ReplaceTop(c, f)) /\ Within(ReplaceTop(c, f), c) /\ Top(ReplaceTop(c, f)) = f
  BY <1>2, ReplaceLast
<1> QED
  BY <1>2, <1>4, <1>5, <1>6

(* A declaration ends: its host records it. *)
LEMMA HostShape ==
  ASSUME NEW h \in Frames, NEW f \in Frames, Fits(h, f), f.kind = "decl"
  PROVE  /\ HostAfter(h, f) \in Frames
         /\ HostAfter(h, f).kind = h.kind /\ HostAfter(h, f).depth = h.depth
<1>1. CASE h.kind \in {"params", "aparams"}
  <2> DEFINE names == h.own \cup ({f.name} \ {NoName})
             anon  == h.nameless \/ f.name = NoName
  <2>1. names \in SUBSET Idents
    BY <1>1 DEF Fits, Frames
  <2>2. anon \in BOOLEAN
    BY DEF Frames
  <2>3. HostAfter(h, f) = [h EXCEPT !.at = "some", !.own = names, !.nameless = anon]
    BY <1>1 DEF HostAfter
  <2> HIDE DEF names, anon
  <2> QED
    BY <2>1, <2>2, <2>3 DEF Frames
<1>2. CASE h.kind = "su"
  BY <1>2 DEF HostAfter, Frames
<1>3. CASE h.kind = "for"
  BY <1>3 DEF HostAfter, Frames
<1>4. CASE h.kind \notin {"params", "aparams", "su", "for"}
  BY <1>4 DEF HostAfter
<1> QED
  BY <1>1, <1>2, <1>3, <1>4

LEMMA DeclarationEnds ==
  ASSUME NEW c, FramesOK(c), Top(c).kind = "decl"
  PROVE  LET d == ReplaceTop(Front(c), HostAfter(Below(c), Top(c))) IN
         /\ FramesOK(d) /\ Within(d, c) /\ Top(d).depth = Top(c).depth
         /\ Top(d).kind # "decl"
<1> DEFINE b == Front(c)
           f == HostAfter(Below(c), Top(c))
           d == ReplaceTop(b, f)
<1>1. Len(c) # 1 /\ Top(c) \in Frames
  BY FrameFacts
<1>2. /\ FramesOK(b) /\ Top(b) = Below(c) /\ Within(b, c)
      /\ Below(c) \in Frames /\ Fits(Below(c), Top(c))
  BY <1>1, DropFrame
<1>3. Below(c).kind # "decl" /\ Top(c).depth = Below(c).depth
  BY <1>2 DEF Fits, OpensScope, Frames
<1>4. f \in Frames /\ f.kind = Below(c).kind /\ f.depth = Below(c).depth
  BY <1>1, <1>2, HostShape
<1> HIDE DEF b, f
<1>5. FramesOK(d) /\ Within(d, b) /\ Top(d) = f
  BY <1>2, <1>3, <1>4, ReplaceLast
<1> QED
  BY <1>2, <1>3, <1>4, <1>5, WithinTransitive DEF b, f

(* A parameter list ends: its declarator counts it. *)
LEMMA ListRead ==
  ASSUME NEW c, FramesOK(c), Reading(c, {"name"}),
         NEW names \in SUBSET Idents, NEW nameless \in BOOLEAN
  PROVE  LET d == ReplaceTop(c, WithList(Top(c), names, nameless)) IN
         /\ FramesOK(d) /\ Within(d, c) /\ Top(d).depth = Top(c).depth
         /\ Below(d) = Below(c) /\ Top(d).name = Top(c).name
<1> DEFINE t == Top(c)
           o == IF t.lists = 0 /\ ~t.inner THEN names ELSE t.own
           a == IF t.lists = 0 /\ ~t.inner THEN nameless ELSE t.nameless
           f == [t EXCEPT !.lists = @ + 1, !.own = o, !.nameless = a]
<1>1. t.kind = "decl" /\ t.at = "name" /\ t \in Frames /\ Len(c) # 1
  BY FrameFacts DEF Reading
<1>2. Fits(Below(c), t)
  BY <1>1, DropFrame
<1>3. WithList(t, names, nameless) = f
  BY DEF WithList
<1> HIDE DEF t
<1>4. o \in SUBSET Idents /\ a \in BOOLEAN /\ t.lists + 1 \in Nat
  BY <1>1 DEF Frames
<1> HIDE DEF o, a
<1>5. /\ f \in Frames /\ f.kind = t.kind /\ f.depth = t.depth /\ f.at = t.at
      /\ f.name = t.name /\ f.node = t.node /\ f.tag = t.tag
  BY <1>1, <1>4 DEF Frames
<1> HIDE DEF f
<1>6. Fits(Below(c), f)
  BY <1>1, <1>2, <1>5 DEF Fits
<1> QED
  BY <1>1, <1>3, <1>5, <1>6, SwapFrame DEF t

-----------------------------------------------------------------------------
(* The scopes and the program's constructs *)
(* ScopesMatchConstructs, for any state S and constructs c *)
Match(S, c) ==
  /\ Top(c).depth = Vis(S)
  /\ \A i \in 1..Len(c) :
       c[i].kind \in Scoped => S.stack[c[i].depth].type = TypeOfScope(c[i].kind)

(* After "f(...)" at file level the parameters are on hold. *)
Held(S, c) ==
  Reading(c, {"name"}) /\ Below(c).kind = "file" /\ Top(c).lists # 0 => S.hold

IInv ==
  /\ TypeOK /\ NoInternalError /\ StackOK(M) /\ ~M.fndef
  /\ FramesOK(ctx) /\ Match(M, ctx) /\ Held(M, ctx)

-----------------------------------------------------------------------------
LEMMA LiveReady == ASSUME IInv, Live PROVE Ready(M)
  BY DEF IInv, TypeOK, Live, Ready

(* Every production keeps the invariant if its handler is sound and leaves  *)
(* a matching pair.                                                        *)
LEMMA ReduceKeeps ==
  ASSUME IInv, Live, NEW N, NEW c, Reduce(N, c), Sound(N),
         N.fatal = Running =>
           Ready(N) /\ FramesOK(c) /\ Match(N, c) /\ Held(N, c)
  PROVE  IInv'
<1>1. CASE N.fatal = Running
  <2>1. M' = N /\ ctx' = c
    BY <1>1 DEF Reduce
  <2> QED
    BY <1>1, <2>1 DEF IInv, TypeOK, NoInternalError, Ready, Sound, FramesOK
<1>2. CASE N.fatal # Running
  <2>1. M' = [M EXCEPT !.fatal = N.fatal] /\ ctx' = ctx
    BY <1>2 DEF Reduce
  <2>2. N.fatal \in Messages /\ N.fatal \notin InternalErrors
    BY DEF Sound, State
  <2>3. M \in State /\ ctx \in Seq(Frames)
    BY DEF IInv, TypeOK
  <2>4. /\ M' \in State /\ M'.fatal = N.fatal /\ M'.stack = M.stack
        /\ M'.hold = M.hold /\ M'.fndef = M.fndef
    BY <2>1, <2>2, <2>3 DEF State
  <2>5. TypeOK' /\ NoInternalError'
    BY <2>1, <2>2, <2>3, <2>4 DEF TypeOK, NoInternalError
  <2>6. StackOK(M') /\ ~M'.fndef /\ Match(M', ctx) /\ Held(M', ctx)
    BY <2>4 DEF IInv, StackOK, Match, Held, Vis
  <2> QED
    BY <2>1, <2>5, <2>6 DEF IInv
<1> QED
  BY <1>1, <1>2

(* The scopes stay, and so do the constructs that have one. *)
LEMMA MatchStays ==
  ASSUME NEW S, NEW N, NEW c, NEW d, FramesOK(c), Match(S, c), Stays(S, N),
         Within(d, c), Top(d).depth = Top(c).depth
  PROVE  Match(N, d)
<1>1. Top(d).depth = Vis(N)
  BY DEF Match, Stays
<1>2. ASSUME NEW i \in 1..Len(d), d[i].kind \in Scoped
      PROVE  N.stack[d[i].depth].type = TypeOfScope(d[i].kind)
  <2>1. PICK j \in 1..Len(c) : c[j].kind = d[i].kind /\ c[j].depth = d[i].depth
    BY <1>2 DEF Within
  <2>2. c[j].depth \in 1..Vis(S)
    BY FrameFacts DEF Match
  <2>3. S.stack[c[j].depth].type = TypeOfScope(c[j].kind)
    BY <1>2, <2>1 DEF Match
  <2> QED
    BY <2>1, <2>2, <2>3 DEF Stays
<1> QED
  BY <1>1, <1>2 DEF Match

LEMMA MatchOpens ==
  ASSUME NEW S, NEW N, NEW c, NEW f \in Frames, FramesOK(c), Match(S, c),
         Fits(Top(c), f), f.kind \in OpensScope, Opens(S, N, TypeOfScope(f.kind))
  PROVE  Match(N, Append(c, f))
<1> DEFINE d == Append(c, f)
<1>1. /\ FramesOK(d) /\ Top(d) = f /\ Len(d) = Len(c) + 1
      /\ \A i \in 1..Len(c) : d[i] = c[i]
  BY PushFrame
<1>2. Len(c) \in Nat /\ Top(d) = d[Len(c) + 1]
  BY <1>1, FrameFacts DEF Top
<1> HIDE DEF d
<1>3. f.depth = Vis(N)
  BY DEF Fits, Match, Opens
<1>4. ASSUME NEW i \in 1..Len(d), d[i].kind \in Scoped
      PROVE  N.stack[d[i].depth].type = TypeOfScope(d[i].kind)
  <2>1. i \in 1..Len(c) \/ i = Len(c) + 1
    BY <1>1, <1>2
  <2>2. CASE i \in 1..Len(c)
    <3>1. c[i].depth \in 1..Vis(S)
      BY <2>2, FrameFacts DEF Match
    <3> QED
      BY <1>1, <1>4, <2>2, <3>1 DEF Match, Opens
  <2>3. CASE i = Len(c) + 1
    BY <1>1, <1>2, <1>3, <2>3 DEF Opens
  <2> QED
    BY <2>1, <2>2, <2>3
<1> QED
  BY <1>1, <1>3, <1>4 DEF Match, d

LEMMA MatchCloses ==
  ASSUME NEW S, NEW N, NEW c, FramesOK(c), Match(S, c), Len(c) # 1,
         Top(c).kind \in OpensScope, Closes(S, N)
  PROVE  Match(N, Front(c))
<1> DEFINE d == Front(c)
<1>1. /\ FramesOK(d) /\ Top(d) = Below(c) /\ Within(d, c)
      /\ Below(c) \in Frames /\ Fits(Below(c), Top(c))
  BY DropFrame
<1> HIDE DEF d
<1>2. Top(d).depth = Vis(N)
  <2>1. Top(c).depth = Below(c).depth + 1 /\ Below(c).depth \in Nat
    BY <1>1 DEF Fits, Frames
  <2>2. Vis(S) = Below(c).depth + 1
    BY <2>1 DEF Match
  <2> QED
    BY <1>1, <2>1, <2>2 DEF Closes
<1>3. ASSUME NEW i \in 1..Len(d), d[i].kind \in Scoped
      PROVE  N.stack[d[i].depth].type = TypeOfScope(d[i].kind)
  <2>1. PICK j \in 1..Len(c) : c[j].kind = d[i].kind /\ c[j].depth = d[i].depth
    BY <1>1, <1>3 DEF Within
  <2>2. d[i].depth \in 1..Vis(N)
    BY <1>1, <1>2, FrameFacts
  <2> QED
    BY <1>3, <2>1, <2>2 DEF Match, Closes
<1> QED
  BY <1>2, <1>3 DEF Match, d

-----------------------------------------------------------------------------
(* The productions, by what they do to the scopes.  First, a handler that  *)
(* keeps them.                                                             *)
LEMMA KeepingStep ==
  ASSUME IInv, Live, NEW N, NEW c, Reduce(N, c), Keeps(M, N),
         N.fatal = Running =>
           /\ FramesOK(c) /\ Within(c, ctx) /\ Top(c).depth = Top(ctx).depth
           /\ Held(N, c)
  PROVE  IInv'
<1>1. N.fatal = Running => Ready(N) /\ FramesOK(c) /\ Match(N, c) /\ Held(N, c)
  <2> SUFFICES ASSUME N.fatal = Running
               PROVE  Ready(N) /\ FramesOK(c) /\ Match(N, c) /\ Held(N, c)
    OBVIOUS
  <2>1. Stays(M, N) /\ FramesOK(ctx) /\ Match(M, ctx)
    BY DEF Keeps, IInv
  <2> QED
    BY <2>1, MatchStays DEF Stays
<1> QED
  BY <1>1, ReduceKeeps DEF Keeps

(* A declaration's specifiers are pushed as a frame of their own. *)
LEMMA SpecFits ==
  ASSUME NEW c, FramesOK(c), Top(c).kind # "decl",
         NEW node \in Nat, NEW tag \in TagNames \cup {NoTag}, NEW sc \in StorageClasses,
         node # 0 => tag \in TagNames
  PROVE  LET d == Specifiers(c, node, tag, sc) IN
         /\ FramesOK(d) /\ Within(d, c) /\ Top(d).depth = Top(c).depth
         /\ Top(d).kind = "decl" /\ Top(d).at = "spec" /\ Len(d) # 1
<1> DEFINE f == SpecFrame(c, node, tag, sc)
<1>1. Top(c).depth \in Nat /\ Len(c) \in Nat /\ Len(c) >= 1
  BY FrameFacts
<1>2. /\ f \in Frames /\ f.kind = "decl" /\ f.at = "spec" /\ f.depth = Top(c).depth
      /\ f.name = NoName /\ f.lists = 0 /\ f.node = node /\ f.tag = tag
  BY <1>1, GrammarAssumption
     DEF SpecFrame, Frame, Frames, FrameKinds, OpensScope
<1> HIDE DEF f
<1>3. Fits(Top(c), f)
  BY <1>1, <1>2 DEF Fits, OpensScope
<1>4. f.kind \notin Scoped
  BY <1>2 DEF Scoped, OpensScope
<1>5. Len(c) + 1 # 1
  BY ONLY <1>1
<1> QED
  BY <1>2, <1>3, <1>4, <1>5, PushFrame DEF Specifiers, f

LEMMA DeclarationStarts ==
  ASSUME NEW c, NEW sc, MayDeclare(c, sc) PROVE Top(c).kind # "decl"
  BY DEF MayDeclare

LEMMA ScalarStep ==
  ASSUME IInv, Live, NEW sc \in StorageClasses, Scalar(sc) PROVE IInv'
<1> DEFINE c == Specifiers(ctx, 0, NoTag, sc)
<1>1. Top(ctx).kind # "decl" /\ Reduce(M, c)
  BY DeclarationStarts DEF Scalar
<1>2. /\ FramesOK(c) /\ Within(c, ctx) /\ Top(c).depth = Top(ctx).depth
      /\ Top(c).at = "spec"
  BY <1>1, SpecFits DEF IInv
<1>3. Held(M, c)
  BY <1>2 DEF Held, Reading
<1>4. Keeps(M, M)
  BY LiveReady, KeepsSelf
<1> QED
  BY <1>1, <1>2, <1>3, <1>4, KeepingStep

LEMMA StructReferenceStep ==
  ASSUME IInv, Live, NEW sc \in StorageClasses, NEW tag \in Tags,
         StructReference(tag, sc)
  PROVE  IInv'
<1> DEFINE N == structunion_set_name(M, tag, FALSE)
           P == After(N, structunion_done(N, FALSE))
           c == Specifiers(ctx, TopStruct(N), tag, sc)
<1>1. Top(ctx).kind # "decl" /\ Reduce(P, c)
  BY DeclarationStarts DEF StructReference
<1>2. tag \in TagNames /\ Ready(M) /\ M \in State
  BY LiveReady DEF TagNames, Ready
<1>3. Keeps(M, N) /\ (N.fatal = Running => Enters(M, N))
  BY <1>2, SetName
<1> HIDE DEF N
<1>4. Keeps(M, P)
  <2>1. CASE N.fatal = Running
    <3>1. Ready(N)
      BY <1>3, <2>1 DEF Keeps, Stays
    <3>2. Keeps(N, structunion_done(N, FALSE))
      BY <3>1, StructDone
    <3> QED
      BY <1>3, <2>1, <3>2, KeepsTransitive DEF After
  <2>2. CASE N.fatal # Running
    BY <1>3, <2>2 DEF After
  <2> QED
    BY <2>1, <2>2
<1>5. ASSUME P.fatal = Running
      PROVE  /\ FramesOK(c) /\ Within(c, ctx) /\ Top(c).depth = Top(ctx).depth
             /\ Held(P, c)
  <2>1. N.fatal = Running
    BY <1>5 DEF After
  <2>2. TopStruct(N) \in Nat
    BY <1>2, <1>3, <2>1, TopOfEntered
  <2>3. /\ FramesOK(c) /\ Within(c, ctx) /\ Top(c).depth = Top(ctx).depth
        /\ Top(c).at = "spec"
    BY <1>1, <1>2, <2>2, SpecFits DEF IInv
  <2> QED
    BY <2>3 DEF Held, Reading
<1> QED
  BY <1>1, <1>4, <1>5, KeepingStep

LEMMA OpenStructStep ==
  ASSUME IInv, Live, NEW sc \in StorageClasses, NEW tag \in TagNames,
         OpenStruct(tag, sc)
  PROVE  IInv'
<1> DEFINE N == structunion_set_name(M, tag, TRUE)
           d == Specifiers(ctx, TopStruct(N), tag, sc)
           f == [Frame("su", Top(ctx).depth, "empty") EXCEPT
                   !.node = TopStruct(N), !.tag = tag]
           c == Append(d, f)
<1>1. Top(ctx).kind # "decl" /\ Reduce(N, c)
  BY DeclarationStarts DEF OpenStruct, MayOpenMembers, OpenMembers
<1>2. Ready(M) /\ M \in State
  BY LiveReady DEF Ready
<1>3. Keeps(M, N) /\ (N.fatal = Running => Enters(M, N))
  BY <1>2, SetName
<1> HIDE DEF N
<1>4. ASSUME N.fatal = Running
      PROVE  /\ FramesOK(c) /\ Within(c, ctx) /\ Top(c).depth = Top(ctx).depth
             /\ Held(N, c)
  <2>1. TopStruct(N) \in Nat
    BY <1>2, <1>3, <1>4, TopOfEntered
  <2>2. /\ FramesOK(d) /\ Within(d, ctx) /\ Top(d).depth = Top(ctx).depth
        /\ Top(d).kind = "decl" /\ Top(d).at = "spec"
    BY <1>1, <2>1, SpecFits DEF IInv
  <2>3. Top(ctx).depth \in Nat
    BY FrameFacts DEF IInv
  <2>4. f \in Frames /\ f.kind = "su" /\ f.depth = Top(ctx).depth
    BY <2>1, <2>3, GrammarAssumption DEF Frame, Frames, FrameKinds, OpensScope
  <2> HIDE DEF d, f
  <2>5. Fits(Top(d), f) /\ f.kind \notin Scoped
    BY <2>2, <2>3, <2>4 DEF Fits, Scoped, OpensScope
  <2>6. FramesOK(c) /\ Top(c) = f /\ Within(c, d)
    BY <2>2, <2>4, <2>5, PushFrame
  <2>7. Held(N, c)
    BY <2>4, <2>6 DEF Held, Reading
  <2> QED
    BY <2>2, <2>4, <2>6, <2>7, WithinTransitive
<1> QED
  BY <1>1, <1>3, <1>4, KeepingStep

LEMMA CloseStructStep == ASSUME IInv, Live, CloseStruct PROVE IInv'
<1> DEFINE N == structunion_done(M, TRUE)
           c == Front(ctx)
<1>1. Top(ctx).kind = "su" /\ Reduce(N, c)
  BY DEF CloseStruct, MayCloseMembers, CloseMembers
<1>2. Len(ctx) # 1 /\ FramesOK(ctx)
  BY <1>1, FrameFacts DEF IInv
<1>3. /\ FramesOK(c) /\ Top(c) = Below(ctx) /\ Within(c, ctx)
      /\ Below(ctx) \in Frames /\ Fits(Below(ctx), Top(ctx))
  BY <1>2, DropFrame
<1>4. Top(c).at = "spec" /\ Top(c).depth = Top(ctx).depth
  BY <1>1, <1>3 DEF Fits, OpensScope, Frames
<1>5. Held(N, c)
  BY <1>4 DEF Held, Reading
<1>6. Keeps(M, N)
  BY LiveReady, StructDone
<1> QED
  BY <1>1, <1>3, <1>4, <1>5, <1>6, KeepingStep

(* Naming a declarator, or leaving the name out: no parameter list has     *)
(* been read for it.                                                       *)
LEMMA NamedFits ==
  ASSUME NEW c, FramesOK(c), NEW inner \in BOOLEAN, NEW star \in BOOLEAN,
         Reading(c, {"spec", "more"}), NEW n,
         \/ n \in NamesHere(c)
         \/ n = NoName /\ Below(c).kind \in {"params", "aparams"}
  PROVE  LET d == Named(c, n, inner, star) IN
         FramesOK(d) /\ Within(d, c) /\ Top(d).depth = Top(c).depth /\ Top(d).lists = 0
<1> DEFINE t == Top(c)
           f == [t EXCEPT !.at = "name", !.name = n, !.inner = inner, !.star = star]
<1>1. t.kind = "decl" /\ t.at \in {"spec", "more"} /\ t \in Frames
  BY FrameFacts DEF Reading
<1>2. Len(c) # 1 /\ Fits(Below(c), t)
  <2>1. Len(c) # 1
    BY <1>1, FrameFacts
  <2> QED
    BY <2>1, DropFrame
<1>3. n \in Idents \cup Members \cup {NoName}
  BY DEF NamesHere
<1> HIDE DEF t
<1>4. /\ f \in Frames /\ f.kind = "decl" /\ f.depth = t.depth /\ f.lists = t.lists
      /\ f.name = n /\ f.at = "name" /\ f.node = t.node /\ f.tag = t.tag
  BY <1>1, <1>3 DEF Frames
<1> HIDE DEF f
<1>5. t.lists = 0 /\ Fits(Below(c), f)
  BY <1>1, <1>2, <1>4, NamesAssumption DEF Fits, NamesHere, OpensScope
<1>6. Named(c, n, inner, star) = ReplaceTop(c, f) /\ t = Top(c)
  BY DEF Named, f, t
<1> DEFINE d == ReplaceTop(c, f)
<1>7. FramesOK(d) /\ Top(d) = f /\ Within(d, c)
  BY <1>1, <1>2, <1>4, <1>5, <1>6, SwapFrame
<1> QED
  BY <1>4, <1>5, <1>6, <1>7

LEMMA NamingStep ==
  ASSUME IInv, Live, NEW inner \in BOOLEAN, NEW star \in BOOLEAN, NEW n,
         Reading(ctx, {"spec", "more"}), Reduce(M, Named(ctx, n, inner, star)),
         \/ n \in NamesHere(ctx)
         \/ n = NoName /\ Below(ctx).kind \in {"params", "aparams"}
  PROVE  IInv'
<1> DEFINE c == Named(ctx, n, inner, star)
<1>1. FramesOK(c) /\ Within(c, ctx) /\ Top(c).depth = Top(ctx).depth /\ Top(c).lists = 0
  BY NamedFits DEF IInv
<1>2. Held(M, c)
  BY <1>1 DEF Held
<1> QED
  BY <1>1, <1>2, LiveReady, KeepsSelf, KeepingStep

LEMMA NameStep ==
  ASSUME IInv, Live, NEW n, NEW inner \in BOOLEAN, NEW star \in BOOLEAN,
         Name(n, inner, star)
  PROVE  IInv'
  BY NamingStep DEF Name, MayName

LEMMA OmitNameStep ==
  ASSUME IInv, Live, NEW star \in BOOLEAN, OmitName(star) PROVE IInv'
  BY NamingStep DEF OmitName, MayOmitName, MayName

-----------------------------------------------------------------------------
(* Inside a construct with a scope nothing is on hold, and its scope is the *)
(* top of the stack.                                                       *)
LEMMA InConstruct ==
  ASSUME IInv, Live, Top(ctx).kind \in OpensScope
  PROVE  /\ ~M.hold /\ Len(M.stack) = Top(ctx).depth /\ Len(M.stack) # 1
         /\ M.stack[Len(M.stack)].type = TypeOfScope(Top(ctx).kind)
         /\ Len(ctx) # 1 /\ Ready(M)
         /\ FramesOK(Front(ctx)) /\ Top(Front(ctx)) = Below(ctx)
         /\ Below(ctx) \in Frames /\ Fits(Below(ctx), Top(ctx))
         /\ Top(ctx).depth = Below(ctx).depth + 1
<1>1. Len(ctx) # 1 /\ FramesOK(ctx) /\ Ready(M)
  BY FrameFacts, LiveReady DEF IInv, OpensScope
<1>2. /\ FramesOK(Front(ctx)) /\ Top(Front(ctx)) = Below(ctx)
      /\ Below(ctx) \in Frames /\ Fits(Below(ctx), Top(ctx))
  BY <1>1, DropFrame
<1>3. Top(ctx).depth = Below(ctx).depth + 1
  BY <1>2 DEF Fits
<1> DEFINE n == Len(M.stack)
           d == Below(ctx).depth
<1>4. d \in Nat /\ d # 0
  <2>1. Top(Front(ctx)).depth \in 1..Top(Front(ctx)).depth
    BY <1>2, FrameFacts
  <2> QED
    BY <1>2, <2>1 DEF Frames
<1>5. n \in Nat /\ d + 1 = (n - (IF M.hold THEN 1 ELSE 0)) /\ (M.hold => n = 2)
  BY <1>1, <1>3, LenProperties DEF IInv, Match, Vis, StackOK, Ready, State
<1>6. n = Len(M.stack) /\ d = Below(ctx).depth
  OBVIOUS
<1> HIDE DEF n, d
<1>7. ~M.hold
  BY ONLY <1>4, <1>5
<1>8. n = d + 1 /\ n # 1
  BY ONLY <1>4, <1>5, <1>7
<1>9. M.stack[Top(ctx).depth].type = TypeOfScope(Top(ctx).kind)
  <2>1. Len(ctx) \in 1..Len(ctx) /\ Top(ctx) = ctx[Len(ctx)]
    BY <1>1, FrameFacts
  <2>2. ctx[Len(ctx)].kind \in Scoped
    BY <2>1 DEF Scoped
  <2> QED
    BY <2>1, <2>2 DEF IInv, Match
<1> QED
  BY <1>1, <1>2, <1>3, <1>6, <1>7, <1>8, <1>9

(* A handler that opens a scope, for a construct that has one *)
LEMMA OpeningStep ==
  ASSUME IInv, Live, NEW N, NEW f \in Frames, Reduce(N, Append(ctx, f)),
         Fits(Top(ctx), f), f.kind \in OpensScope, Opens(M, N, TypeOfScope(f.kind))
  PROVE  IInv'
<1> DEFINE c == Append(ctx, f)
<1>1. FramesOK(c) /\ Top(c) = f /\ Match(N, c)
  BY PushFrame, MatchOpens DEF IInv
<1>2. Held(N, c)
  BY <1>1 DEF Held, Reading, OpensScope
<1>3. Ready(N) /\ Sound(N)
  BY DEF Opens, Ready, Sound, InternalErrors, Running
<1> QED
  BY <1>1, <1>2, <1>3, ReduceKeeps

(* One that closes the top scope and leaves a construct like the one below *)
LEMMA ClosingStep ==
  ASSUME IInv, Live, NEW N, NEW c, Reduce(N, c), Top(ctx).kind \in OpensScope,
         Closes(M, N), FramesOK(c), Within(c, Front(ctx)),
         Top(c).depth = Below(ctx).depth, Held(N, c)
  PROVE  IInv'
<1>1. Len(ctx) # 1 /\ FramesOK(Front(ctx)) /\ Top(Front(ctx)) = Below(ctx)
  BY InConstruct
<1>2. Ready(N) /\ Sound(N)
  BY DEF Closes, Ready, Sound, InternalErrors, Running
<1>3. Match(N, Front(ctx))
  BY <1>1, MatchCloses DEF IInv
<1>4. Stays(N, N)
  BY <1>2 DEF Stays
<1>5. Match(N, c)
  BY <1>1, <1>3, <1>4, MatchStays
<1> QED
  BY <1>2, <1>5, ReduceKeeps

(* A scope that is opened and closed in the same step *)
LEMMA PushAndPop ==
  ASSUME NEW S, NEW N, NEW P, NEW type, Ready(S), Opens(S, N, type), Closes(N, P)
  PROVE  Stays(S, P) /\ Sound(P)
<1> DEFINE v == Vis(S)
           w == Vis(P)
<1>1. v \in Int /\ w = (v + 1) - 1 /\ Ready(P)
  BY LenProperties DEF Opens, Closes, Vis, Ready, State
<1>2. /\ \A k \in 1..w : P.stack[k].type = N.stack[k].type
      /\ \A k \in 1..v : N.stack[k].type = S.stack[k].type
  BY DEF Opens, Closes
<1>3. v = Vis(S) /\ w = Vis(P)
  OBVIOUS
<1> HIDE DEF v, w
<1>4. w = v
  BY ONLY <1>1
<1> QED
  BY <1>1, <1>2, <1>3, <1>4 DEF Stays, Ready, Sound, InternalErrors, Running

LEMMA StayingStep ==
  ASSUME IInv, Live, NEW N, NEW c, Reduce(N, c), Stays(M, N), Sound(N),
         FramesOK(c), Within(c, ctx), Top(c).depth = Top(ctx).depth, Held(N, c)
  PROVE  IInv'
<1>1. Match(N, c) /\ Ready(N)
  BY MatchStays DEF IInv, Stays
<1> QED
  BY <1>1, ReduceKeeps

-----------------------------------------------------------------------------
(* Parameter lists *)

(* A frame that a step pushes on a declarator or in a block *)
LEMMA NewFrame ==
  ASSUME NEW kind \in FrameKinds, NEW depth \in Nat,
         NEW at \in {"items", "head", "empty"}
  PROVE  LET f == Frame(kind, depth, at) IN
         f \in Frames /\ f.kind = kind /\ f.depth = depth /\ f.at = at /\ f.node = 0
  BY GrammarAssumption DEF Frame, Frames

LEMMA OpenParamsStep == ASSUME IInv, Live, OpenParams PROVE IInv'
<1> DEFINE t == Top(ctx)
<1>1. t.kind = "decl" /\ t.at = "name" /\ t.depth \in Nat /\ t.depth + 1 \in Nat
  BY FrameFacts DEF OpenParams, MayOpenList, Reading, IInv
<1>2. CASE t.name = NoName
  <2> DEFINE f == Frame("aparams", t.depth, "empty")
             c == Append(ctx, f)
  <2>1. f \in Frames /\ f.kind = "aparams" /\ f.depth = t.depth
    <3> HIDE DEF t
    <3>1. "aparams" \in FrameKinds
      BY DEF FrameKinds
    <3> QED
      BY <1>1, <3>1, NewFrame
  <2>2. t.depth + 0 = t.depth
    BY <1>1
  <2>3. Reduce(M, c)
    BY <1>2, <2>2 DEF OpenParams, OpenList, Push, OpensScope
  <2> HIDE DEF f
  <2>4. Fits(t, f) /\ f.kind \notin Scoped
    BY <1>1, <1>2, <2>1, <2>2 DEF Fits, Scoped, OpensScope
  <2>5. FramesOK(c) /\ Top(c) = f /\ Within(c, ctx)
    BY <2>1, <2>4, PushFrame DEF IInv
  <2>6. Held(M, c)
    BY <2>1, <2>5 DEF Held, Reading
  <2> QED
    BY <2>1, <2>3, <2>5, <2>6, LiveReady, KeepsSelf, KeepingStep
<1>3. CASE t.name # NoName
  <2> DEFINE f == Frame("params", t.depth + 1, "empty")
             c == Append(ctx, f)
             N == scope_push(M, "proto")
  <2>1. f \in Frames /\ f.kind = "params" /\ f.depth = t.depth + 1
    BY <1>1, NewFrame DEF FrameKinds, OpensScope
  <2>2. Reduce(N, c)
    BY <1>3 DEF OpenParams, OpenList, Push, OpensScope
  <2> HIDE DEF f
  <2>3. Fits(t, f)
    BY <1>1, <1>3, <2>1 DEF Fits, OpensScope
  <2>4. Opens(M, N, "proto")
    BY LiveReady, PushPrototype
  <2>5. TypeOfScope("params") = "proto" /\ f.kind \in OpensScope
    BY <2>1 DEF TypeOfScope, OpensScope
  <2> QED
    BY <2>1, <2>2, <2>3, <2>4, <2>5, OpeningStep
<1> QED
  BY <1>2, <1>3

(* A declarator directly in the file is the second frame, at depth 1. *)
LEMMA AtFileLevel ==
  ASSUME NEW c, FramesOK(c), Top(c).kind = "decl", Below(c).kind = "file"
  PROVE  Len(c) # 1 /\ Top(c).depth = 1
<1>1. Len(c) # 1
  BY FrameFacts
<1>2. FramesOK(Front(c)) /\ Top(Front(c)) = Below(c) /\ Fits(Below(c), Top(c))
  BY <1>1, DropFrame
<1>3. Len(Front(c)) = 1 /\ Top(Front(c)) = Front(c)[Len(Front(c))]
  BY <1>2, FrameFacts
<1>4. Below(c).depth = 1
  BY <1>2, <1>3 DEF FramesOK
<1> QED
  BY <1>1, <1>2, <1>4 DEF Fits, OpensScope

(* A declarator without a name is not at file level. *)
LEMMA NamelessNotHeld ==
  ASSUME NEW S, NEW c, FramesOK(c), Top(c).name = NoName PROVE Held(S, c)
<1> SUFFICES ASSUME Top(c).kind = "decl", Top(c).at = "name", Below(c).kind = "file"
             PROVE  FALSE
  BY DEF Held, Reading
<1>1. Len(c) # 1
  BY AtFileLevel
<1> QED
  BY <1>1, DropFrame DEF Fits

LEMMA CloseParamsStep == ASSUME IInv, Live, CloseParams PROVE IInv'
<1> DEFINE t == Top(ctx)
           b == Front(ctx)
           c == ReplaceTop(b, WithList(Below(ctx), t.own, t.nameless))
<1>1. t.kind \in {"params", "aparams"}
  BY DEF CloseParams, MayCloseList
<1>2. Len(ctx) # 1 /\ FramesOK(ctx) /\ t \in Frames
  BY <1>1, FrameFacts DEF IInv
<1>3. /\ FramesOK(b) /\ Top(b) = Below(ctx) /\ Within(b, ctx)
      /\ Below(ctx) \in Frames /\ Fits(Below(ctx), t)
  BY <1>2, DropFrame
<1>4. Below(ctx).kind = "decl" /\ Below(ctx).at = "name"
  BY <1>1, <1>3 DEF Fits
<1>5. t.own \in SUBSET Idents /\ t.nameless \in BOOLEAN
  BY <1>2 DEF Frames
<1>6. /\ FramesOK(c) /\ Within(c, b) /\ Top(c).depth = Below(ctx).depth
      /\ Below(c) = Below(b)
  BY <1>3, <1>4, <1>5, ListRead DEF Reading
<1>7. CASE t.kind = "params"
  <2> DEFINE N == scope_pop(M)
  <2>1. Reduce(N, c)
    BY <1>7 DEF CloseParams, CloseList
  <2>2. t.kind \in OpensScope
    BY <1>7 DEF OpensScope
  <2>3. /\ Ready(M) /\ ~M.hold /\ Len(M.stack) # 1 /\ Len(M.stack) = t.depth
        /\ M.stack[Len(M.stack)].type = "proto" /\ t.depth = Below(ctx).depth + 1
    BY <1>7, <2>2, InConstruct DEF TypeOfScope
  <2>4. Closes(M, N)
    BY <2>3, Pop
  <2>5. Held(N, c)
    <3> SUFFICES ASSUME Below(c).kind = "file" PROVE N.hold
      BY DEF Held
    <3>1. Below(ctx).depth = 1
      BY <1>3, <1>4, <1>6, AtFileLevel
    <3>2. Len(M.stack) = 2 /\ M.stack[2].type = "proto"
      BY <2>3, <3>1
    <3> QED
      BY <2>3, <3>2, Pop
  <2> HIDE DEF N
  <2> QED
    BY <1>6, <2>1, <2>2, <2>4, <2>5, ClosingStep
<1>8. CASE t.kind = "aparams"
  <2>1. Reduce(M, c)
    BY <1>8 DEF CloseParams, CloseList
  <2>2. Below(ctx).name = NoName /\ t.depth = Below(ctx).depth
    BY <1>3, <1>8 DEF Fits, OpensScope, Frames
  <2>3. Top(c).name = NoName
    BY <1>3, <1>4, <1>5, <2>2, ListRead DEF Reading
  <2>4. Held(M, c)
    BY <1>6, <2>3, NamelessNotHeld
  <2> QED
    BY <1>3, <1>6, <2>1, <2>2, <2>4, WithinTransitive, LiveReady, KeepsSelf, KeepingStep
<1> QED
  BY <1>1, <1>7, <1>8

LEMMA EmptyParamsStep == ASSUME IInv, Live, EmptyParams PROVE IInv'
<1> DEFINE t == Top(ctx)
           c == ReplaceTop(ctx, WithList(t, {}, FALSE))
<1>1. Reading(ctx, {"name"}) /\ t.kind = "decl"
  BY DEF EmptyParams, MayOpenList, Reading
<1>2. /\ FramesOK(c) /\ Within(c, ctx) /\ Top(c).depth = t.depth
      /\ Below(c) = Below(ctx) /\ Top(c).name = t.name
  BY <1>1, ListRead DEF IInv
<1>3. CASE t.name = NoName
  <2>1. Reduce(M, c)
    BY <1>3 DEF EmptyParams, EmptyList
  <2>2. Held(M, c)
    BY <1>2, <1>3, NamelessNotHeld
  <2> QED
    BY <1>2, <2>1, <2>2, LiveReady, KeepsSelf, KeepingStep
<1>4. CASE t.name # NoName
  <2> DEFINE P == scope_push(M, "proto")
             N == scope_pop(P)
  <2>1. Reduce(N, c)
    BY <1>4 DEF EmptyParams, EmptyList
  <2>2. Ready(M) /\ Opens(M, P, "proto")
    BY LiveReady, PushPrototype
  <2> HIDE DEF P
  <2>3. Len(P.stack) = t.depth + 1 /\ Len(P.stack) # 1 /\ ~P.hold /\ Ready(P)
        /\ P.stack[Len(P.stack)].type = "proto"
    <3> DEFINE n == Len(P.stack)
               v == t.depth
    <3>1. n \in Nat /\ v \in Nat /\ v # 0
      <4>1. P.stack \in Seq(Scopes)
        BY <2>2 DEF Opens, Ready, State
      <4>2. v \in 1..v /\ v \in Nat
        BY FrameFacts DEF IInv
      <4> QED
        BY <4>1, <4>2, LenProperties
    <3>2. Vis(P) = n /\ Vis(M) = v /\ Vis(P) = Vis(M) + 1
      <4>1. Vis(P) = n - 0 /\ Vis(M) = v /\ Vis(P) = Vis(M) + 1
        BY <2>2 DEF Opens, Vis, IInv, Match
      <4> QED
        BY <3>1, <4>1
    <3> HIDE DEF n, v
    <3>3. n = v + 1 /\ n # 1
      BY ONLY <3>1, <3>2
    <3> QED
      BY <2>2, <3>2, <3>3 DEF Opens, n, v
  <2>4. Closes(P, N)
    BY <2>3, Pop
  <2>5. Stays(M, N) /\ Sound(N)
    BY <2>2, <2>4, PushAndPop
  <2>6. Held(N, c)
    <3> SUFFICES ASSUME Below(c).kind = "file" PROVE N.hold
      BY DEF Held
    <3>1. t.depth = 1
      BY <1>1, <1>2, AtFileLevel DEF IInv
    <3>2. Len(P.stack) = 2
      BY <2>3, <3>1
    <3> QED
      BY <2>3, <3>2, Pop
  <2> HIDE DEF N
  <2> QED
    BY <1>2, <2>1, <2>5, <2>6, StayingStep
<1> QED
  BY <1>3, <1>4

-----------------------------------------------------------------------------
(* Declarations and function definitions *)

LEMMA CheckedKeeps ==
  ASSUME NEW S, Ready(S), NEW F, Checked(S, F) PROVE Keeps(S, F)
  BY KeepsSelf DEF Checked, Keeps

LEMMA InstallKeeps ==
  ASSUME IInv, Live, Reading(ctx, {"name"})
  PROVE  Keeps(M, Install(Top(ctx)))
<1> DEFINE f == Top(ctx)
<1>1. f.kind = "decl" /\ f.at = "name" /\ f \in Frames /\ Len(ctx) # 1 /\ FramesOK(ctx)
  BY FrameFacts DEF Reading, IInv
<1>2. Fits(Below(ctx), f)
  BY <1>1, DropFrame
<1>3. Ready(M)
  BY LiveReady
<1>4. f.sc \in {"none", "extern", "static"}
  BY <1>1, GrammarAssumption DEF Frames
<1>5. CASE Below(ctx).kind = "su"
  <2>1. f.name \in Members
    BY <1>1, <1>2, <1>5 DEF Fits
  <2> QED
    BY <1>3, <1>5, <2>1, InstallMember DEF Install
<1>6. CASE Below(ctx).kind # "su" /\ f.name = NoName
  BY <1>3, <1>6, FinalizeChecks, CheckedKeeps DEF Install
<1>7. CASE Below(ctx).kind # "su" /\ f.name # NoName
  BY <1>3, <1>4, <1>7, InstallObject DEF Install
<1> QED
  BY <1>5, <1>6, <1>7

LEMMA DeclaratorStep ==
  ASSUME IInv, Live, NEW more \in BOOLEAN, Declarator(more) PROVE IInv'
<1> DEFINE t == Top(ctx)
           N == Install(t)
           c == EndDeclarator(ctx, more)
<1>1. Reading(ctx, {"name"}) /\ t.kind = "decl" /\ FramesOK(ctx) /\ t \in Frames
  BY FrameFacts DEF Declarator, MayEndDeclarator, Reading, IInv
<1>2. Reduce(N, c) /\ Keeps(M, N)
  BY <1>1, InstallKeeps DEF Declarator
<1> HIDE DEF N
<1>3. CASE more
  <2> DEFINE s == SpecFrame(ctx, t.node, t.tag, t.sc)
             f == [s EXCEPT !.at = "more", !.first = FALSE]
  <2>1. Len(ctx) # 1 /\ Fits(Below(ctx), t)
    BY <1>1, FrameFacts, DropFrame
  <2>2. /\ s \in Frames /\ s.kind = "decl" /\ s.depth = t.depth /\ s.lists = 0
        /\ s.name = NoName /\ s.node = t.node /\ s.tag = t.tag
    BY <1>1, GrammarAssumption DEF SpecFrame, Frame, Frames, FrameKinds
  <2>3. c = ReplaceTop(ctx, f)
    BY <1>3 DEF EndDeclarator
  <2> HIDE DEF s
  <2>4. /\ f \in Frames /\ f.kind = "decl" /\ f.depth = t.depth /\ f.lists = 0
        /\ f.name = NoName /\ f.at = "more" /\ f.node = t.node /\ f.tag = t.tag
    BY <2>2 DEF Frames
  <2> HIDE DEF f
  <2>5. Fits(Below(ctx), f)
    BY <1>1, <2>1, <2>4 DEF Fits, OpensScope
  <2>6. FramesOK(c) /\ Top(c) = f /\ Within(c, ctx)
    BY <1>1, <2>3, <2>4, <2>5, SwapFrame
  <2>7. Held(N, c)
    BY <2>4, <2>6 DEF Held, Reading
  <2> QED
    BY <1>2, <2>4, <2>6, <2>7, KeepingStep
<1>4. CASE ~more
  <2>1. c = ReplaceTop(Front(ctx), HostAfter(Below(ctx), Top(ctx)))
    BY <1>4 DEF EndDeclarator
  <2>2. /\ FramesOK(c) /\ Within(c, ctx) /\ Top(c).depth = t.depth
        /\ Top(c).kind # "decl"
    BY <1>1, <2>1, DeclarationEnds
  <2>3. Held(N, c)
    BY <2>2 DEF Held, Reading
  <2> QED
    BY <1>2, <2>2, <2>3, KeepingStep
<1> QED
  BY <1>3, <1>4

LEMMA EmptyDeclarationStep == ASSUME IInv, Live, EmptyDeclaration PROVE IInv'
<1> DEFINE t == Top(ctx)
           N == declspec_check_empty(M, t.node, t.tag, t.sc)
           c == EndEmpty(ctx)
<1>1. t.kind = "decl" /\ FramesOK(ctx) /\ Len(ctx) # 1 /\ Reduce(N, c)
  BY FrameFacts DEF EmptyDeclaration, MayEndEmpty, Reading, IInv
<1>2. Fits(Below(ctx), t)
  BY <1>1, DropFrame
<1>3. Keeps(M, N)
  <2>1. CASE t.node = 0
    BY <2>1, LiveReady, KeepsSelf DEF declspec_check_empty, Absent
  <2>2. CASE t.node # 0
    <3>1. t.tag \in TagNames
      BY <1>1, <1>2, <2>2 DEF Fits
    <3> QED
      BY <3>1, LiveReady, CheckEmpty
  <2> QED
    BY <2>1, <2>2
<1> HIDE DEF N
<1>4. /\ FramesOK(c) /\ Within(c, ctx) /\ Top(c).depth = t.depth
      /\ Top(c).kind # "decl"
  BY <1>1, DeclarationEnds DEF EndEmpty
<1>5. Held(N, c)
  BY <1>4 DEF Held, Reading
<1> QED
  BY <1>1, <1>3, <1>4, <1>5, KeepingStep

(* The head of a function definition is checked and installed; the          *)
(* prototype is still on hold.                                             *)
LEMMA DefineKeeps ==
  ASSUME IInv, Live, MayDefine(ctx)
  PROVE  LET N == Define(Top(ctx)) IN
         Keeps(M, N) /\ (N.fatal = Running => N.hold /\ Ready(N) /\ Stays(M, N))
<1> DEFINE f == Top(ctx)
           C == decl_check_fndef(M, IsFunction(f), f.nameless)
           D == decl_install(scope_set_fndef(C), f.name, f.sc, IsFunction(f),
                             f.node, BehindPointer(f))
           N == Define(f)
<1>1. f \in Frames /\ Ready(M)
  BY FrameFacts, LiveReady DEF IInv
<1>2. Checked(M, C) /\ (C.fatal = Running => IsFunction(f))
  BY <1>1, CheckFndef
<1> HIDE DEF C
<1>3. N = IF C.fatal = Running THEN D ELSE C
  BY DEF Define, After, C
<1>4. CASE C.fatal # Running
  BY <1>1, <1>2, <1>3, <1>4, CheckedKeeps
<1>5. CASE C.fatal = Running
  <2>1. C = M
    BY <1>2, <1>5 DEF Checked
  <2>2. f.sc \in {"none", "extern", "static"}
    BY <1>1, GrammarAssumption DEF Frames
  <2>3. Keeps(M, D) /\ (D.fatal = Running => D.hold = M.hold)
    BY <1>1, <2>1, <2>2, InstallDefined
  <2>4. M.hold
    <3>1. f.lists # 0
      BY <1>1, <1>2, <1>5 DEF IsFunction, Frames
    <3> QED
      BY <3>1 DEF IInv, Held, MayDefine
  <2> HIDE DEF D
  <2> QED
    BY <1>3, <1>5, <2>3, <2>4 DEF Keeps, Stays
<1> QED
  BY <1>4, <1>5

LEMMA BeginBodyStep == ASSUME IInv, Live, BeginBody PROVE IInv'
<1> DEFINE t == Top(ctx)
           b == Front(ctx)
           N == Define(t)
           P == scope_push_auto(N)
           f == [Frame("body", 2, "items") EXCEPT !.own = t.own]
           c == Append(b, f)
           R == After(N, P)
<1>1. MayDefine(ctx) /\ Reduce(R, c)
  BY DEF BeginBody, OpenBody
<1>2. Keeps(M, N) /\ (N.fatal = Running => N.hold /\ Ready(N) /\ Stays(M, N))
  BY <1>1, DefineKeeps
<1> HIDE DEF N
<1>3. N.fatal = Running => Opens(N, P, "func")
  BY <1>2, Promote
<1> HIDE DEF P
<1>4. N.fatal # Running => R = N
  BY DEF After
<1>5. N.fatal = Running => R = P
  BY DEF After
<1> HIDE DEF R
<1>6. Sound(R)
  BY <1>2, <1>3, <1>4, <1>5 DEF Keeps, Opens, Ready, Sound, InternalErrors, Running
<1>7. ASSUME R.fatal = Running
      PROVE  Ready(R) /\ FramesOK(c) /\ Match(R, c) /\ Held(R, c)
  <2>1. N.fatal = Running /\ R = P /\ Stays(M, N) /\ Opens(N, R, "func")
    BY <1>2, <1>3, <1>4, <1>5, <1>7
  <2>2. /\ FramesOK(ctx) /\ t.kind = "decl" /\ Below(ctx).kind = "file"
        /\ Len(ctx) # 1 /\ t.depth = 1 /\ t \in Frames
    BY <1>1, FrameFacts, AtFileLevel DEF MayDefine, Reading, IInv
  <2>3. /\ FramesOK(b) /\ Top(b) = Below(ctx) /\ Within(b, ctx) /\ Fits(Below(ctx), t)
    BY <2>2, DropFrame
  <2>4. Top(b).depth = t.depth /\ Top(b).kind = "file" /\ Top(b).depth = 1
    <3>1. Top(b).depth \in Nat
      BY <2>3, FrameFacts
    <3> QED
      BY <2>2, <2>3, <3>1 DEF Fits, OpensScope
  <2>5. Match(N, b)
    BY <2>1, <2>2, <2>3, <2>4, MatchStays DEF IInv
  <2>6. f \in Frames /\ f.kind = "body" /\ f.depth = 2
    <3>1. t.own \in SUBSET Idents
      BY <2>2 DEF Frames
    <3> HIDE DEF t
    <3> QED
      BY <3>1, GrammarAssumption DEF Frame, Frames, FrameKinds, OpensScope
  <2> HIDE DEF b, f
  <2>7. Fits(Top(b), f) /\ f.kind \in OpensScope /\ TypeOfScope(f.kind) = "func"
    BY <2>4, <2>6 DEF Fits, OpensScope, TypeOfScope
  <2>8. FramesOK(c) /\ Top(c) = f
    BY <2>3, <2>6, <2>7, PushFrame
  <2>9. Match(R, c)
    BY <2>1, <2>3, <2>5, <2>6, <2>7, MatchOpens
  <2> QED
    BY <2>1, <2>6, <2>8, <2>9 DEF Held, Reading, Opens
<1> QED
  BY <1>1, <1>6, <1>7, ReduceKeeps

LEMMA WholeBodyStep == ASSUME IInv, Live, WholeBody PROVE IInv'
<1> DEFINE N == Define(Top(ctx))
           P == scope_push_auto(N)
           Q == scope_pop(P)
           c == Front(ctx)
           R == After(N, Q)
<1>1. MayDefine(ctx) /\ Reduce(R, c)
  BY DEF WholeBody, EmptyBody
<1>2. Keeps(M, N) /\ (N.fatal = Running => N.hold /\ Ready(N) /\ Stays(M, N))
  BY <1>1, DefineKeeps
<1> HIDE DEF N
<1>3. N.fatal = Running => Opens(N, P, "func")
  BY <1>2, Promote
<1> HIDE DEF P
<1>4. ASSUME N.fatal = Running PROVE Stays(N, Q) /\ Sound(Q)
  <2>1. Ready(P) /\ ~P.hold
    BY <1>3, <1>4 DEF Opens
  <2>2. Len(P.stack) # 1
    <3>1. P.stack[1].type = "file" /\ P.stack[Vis(P)].type = "func"
      BY <1>3, <1>4 DEF Opens, Ready, StackOK
    <3>2. Vis(P) = Len(P.stack)
      BY <2>1, LenProperties DEF Vis, Ready, State
    <3> QED
      BY <3>1, <3>2
  <2>3. Closes(P, Q)
    BY <2>1, <2>2, Pop
  <2> QED
    BY <1>2, <1>3, <1>4, <2>3, PushAndPop
<1> HIDE DEF Q
<1>5. /\ N.fatal # Running => R = N
      /\ N.fatal = Running => R = Q
  BY DEF After
<1> HIDE DEF R
<1>6. Sound(R)
  BY <1>2, <1>4, <1>5 DEF Keeps
<1>7. ASSUME R.fatal = Running
      PROVE  Ready(R) /\ FramesOK(c) /\ Match(R, c) /\ Held(R, c)
  <2>1. N.fatal = Running /\ R = Q /\ Stays(M, N) /\ Stays(N, R)
    BY <1>2, <1>4, <1>5, <1>7
  <2>2. /\ FramesOK(ctx) /\ Top(ctx).kind = "decl" /\ Below(ctx).kind = "file"
        /\ Len(ctx) # 1
    BY <1>1, FrameFacts DEF MayDefine, Reading, IInv
  <2>3. /\ FramesOK(c) /\ Top(c) = Below(ctx) /\ Within(c, ctx)
        /\ Fits(Below(ctx), Top(ctx))
    BY <2>2, DropFrame
  <2>4. Top(c).depth = Top(ctx).depth
    <3>1. Top(c).depth \in Nat
      BY <2>3, FrameFacts
    <3> QED
      BY <2>2, <2>3, <3>1 DEF Fits, OpensScope
  <2>5. Match(N, c)
    BY <2>1, <2>2, <2>3, <2>4, MatchStays DEF IInv
  <2>6. Within(c, c)
    BY DEF Within
  <2>7. Match(R, c)
    BY <2>1, <2>3, <2>5, <2>6, MatchStays
  <2> QED
    BY <2>1, <2>2, <2>3, <2>7 DEF Held, Reading, Stays
<1> QED
  BY <1>1, <1>6, <1>7, ReduceKeeps

-----------------------------------------------------------------------------
(* Blocks and FOR *)

LEMMA AtStmtReady ==
  ASSUME IInv, Live, AtStmt(ctx)
  PROVE  /\ Top(ctx).kind \in {"body", "block", "for"} /\ Top(ctx).depth \in Nat
         /\ Opens(M, scope_push_auto(M), "block")
<1>1. Top(ctx).kind \in {"body", "block", "for"} /\ Top(ctx).kind \in OpensScope
  BY DEF AtStmt, OpensScope
<1>2. TypeOfScope(Top(ctx).kind) \in {"func", "block"}
  BY <1>1 DEF TypeOfScope
<1>3. Opens(M, scope_push_auto(M), "block")
  BY <1>1, <1>2, InConstruct, PushBlock
<1> QED
  BY <1>1, <1>3, FrameFacts DEF IInv

LEMMA BlockStep ==
  ASSUME IInv, Live, AtStmt(ctx), NEW kind \in {"block", "for"}, NEW at \in {"items", "head"},
         Reduce(scope_push_auto(M), Push(ctx, kind, at))
  PROVE  IInv'
<1> DEFINE d == Top(ctx).depth + 1
           f == Frame(kind, d, at)
<1>1. /\ Top(ctx).kind \in {"body", "block", "for"} /\ d \in Nat
      /\ Opens(M, scope_push_auto(M), "block")
  BY AtStmtReady
<1>2. kind \in OpensScope /\ kind \in FrameKinds
  BY DEF OpensScope, FrameKinds
<1>3. Push(ctx, kind, at) = Append(ctx, f)
  BY <1>2 DEF Push
<1>4. d = Top(ctx).depth + 1
  OBVIOUS
<1> HIDE DEF d
<1>5. f \in Frames /\ f.kind = kind /\ f.depth = d
  BY <1>1, <1>2, NewFrame
<1> HIDE DEF f
<1>6. Fits(Top(ctx), f) /\ TypeOfScope(f.kind) = "block" /\ f.kind \in OpensScope
  BY <1>1, <1>2, <1>4, <1>5 DEF Fits, TypeOfScope
<1> QED
  BY <1>1, <1>3, <1>5, <1>6, OpeningStep

LEMMA BeginBlockStep == ASSUME IInv, Live, BeginBlock PROVE IInv'
  BY BlockStep DEF BeginBlock

LEMMA BeginForStep == ASSUME IInv, Live, BeginFor PROVE IInv'
  BY BlockStep DEF BeginFor

LEMMA EndStmt ==
  ASSUME IInv, Live, Top(ctx).kind \in {"body", "block", "for"},
         Reduce(scope_pop(M), StmtDone(Front(ctx)))
  PROVE  IInv'
<1> DEFINE b == Front(ctx)
           c == StmtDone(b)
           N == scope_pop(M)
<1>1. Top(ctx).kind \in OpensScope
  BY DEF OpensScope
<1>2. /\ ~M.hold /\ Len(M.stack) # 1 /\ Ready(M)
      /\ FramesOK(b) /\ Top(b) = Below(ctx) /\ Fits(Below(ctx), Top(ctx))
  BY <1>1, InConstruct
<1>3. Closes(M, N)
  BY <1>2, Pop
<1>4. Top(b).kind \in {"file", "body", "block", "for"}
  BY <1>2 DEF Fits
<1>5. /\ FramesOK(c) /\ Within(c, b) /\ Top(c).depth = Top(b).depth
      /\ Top(c).kind = Top(b).kind
  BY <1>2, <1>4, StmtDoneFits
<1>6. Held(N, c)
  BY <1>4, <1>5 DEF Held, Reading
<1> QED
  BY <1>1, <1>2, <1>3, <1>5, <1>6, ClosingStep

LEMMA EndBlockStep == ASSUME IInv, Live, EndBlock PROVE IInv'
  BY EndStmt DEF EndBlock, MayCloseBlock, CloseBlock

LEMMA FinishForStep == ASSUME IInv, Live, FinishFor PROVE IInv'
  BY EndStmt DEF FinishFor, MayEndFor, EndFor

LEMMA SimpleStmtStep == ASSUME IInv, Live, SimpleStmt PROVE IInv'
<1> DEFINE P == scope_push_auto(M)
           N == scope_pop(P)
           c == StmtDone(ctx)
<1>1. AtStmt(ctx) /\ Top(ctx).kind = "for" /\ Reduce(N, c) /\ FramesOK(ctx)
  BY DEF SimpleStmt, IInv
<1>2. Ready(M) /\ Opens(M, P, "block")
  BY <1>1, AtStmtReady, LiveReady
<1> HIDE DEF P
<1>3. Ready(P) /\ ~P.hold /\ Len(P.stack) # 1
  <2>1. P.stack[1].type = "file" /\ P.stack[Vis(P)].type = "block" /\ Ready(P) /\ ~P.hold
    BY <1>2 DEF Opens, Ready, StackOK
  <2>2. Vis(P) = Len(P.stack)
    BY <2>1, LenProperties DEF Vis, Ready, State
  <2> QED
    BY <2>1, <2>2
<1>4. Closes(P, N)
  BY <1>3, Pop
<1>5. Stays(M, N) /\ Sound(N)
  BY <1>2, <1>4, PushAndPop
<1>6. /\ FramesOK(c) /\ Within(c, ctx) /\ Top(c).depth = Top(ctx).depth
      /\ Top(c).kind = Top(ctx).kind
  BY <1>1, StmtDoneFits
<1>7. Held(N, c)
  BY <1>1, <1>6 DEF Held, Reading
<1> HIDE DEF N
<1> QED
  BY <1>1, <1>5, <1>6, <1>7, StayingStep

-----------------------------------------------------------------------------
LEMMA InitInv == Init => IInv
<1> SUFFICES ASSUME Init PROVE IInv
  OBVIOUS
<1> DEFINE f == FileFrame
           s == NewScope("file")
<1>1. /\ f \in Frames /\ f.kind = "file" /\ f.depth = 1 /\ f.name = NoName
  BY GrammarAssumption DEF FileFrame, Frame, Frames, FrameKinds
<1>2. s \in Scopes /\ s.type = "file"
  BY NewScopeType DEF ScopeTypes
<1> HIDE DEF f, s
<1>3. /\ ctx = <<f>> /\ M.stack = <<s>> /\ M.hold = FALSE /\ M.fndef = FALSE
      /\ M.fatal = Running
      /\ M = [stack |-> <<s>>, hold |-> FALSE, fndef |-> FALSE, prev |-> {},
              fatal |-> Running, sus |-> <<>>, decls |-> <<>>]
  BY DEF Init, InitScopes, f, s
<1>4. /\ ctx \in Seq(Frames) /\ Len(ctx) = 1 /\ ctx[1] = f
      /\ <<s>> \in Seq(Scopes) /\ Len(M.stack) = 1 /\ M.stack[1] = s
  BY <1>1, <1>2, <1>3
<1>5. M \in State
  BY <1>3, <1>4 DEF State, Messages
<1>6. StackOK(M)
  BY <1>2, <1>3, <1>4 DEF StackOK
<1>7. FramesOK(ctx)
  BY <1>1, <1>4 DEF FramesOK
<1>8. Match(M, ctx)
  <2>1. Top(ctx) = f /\ Vis(M) = 1
    BY <1>3, <1>4 DEF Top, Vis
  <2>2. TypeOfScope("file") = "file"
    BY DEF TypeOfScope
  <2> QED
    BY <1>1, <1>2, <1>4, <2>1, <2>2 DEF Match
<1>9. Held(M, ctx)
  BY <1>1, <1>4 DEF Held, Reading, Top
<1> QED
  BY <1>3, <1>4, <1>5, <1>6, <1>7, <1>8, <1>9
     DEF IInv, TypeOK, NoInternalError, InternalErrors, Running

LEMMA StepInv == ASSUME IInv, Live, Step PROVE IInv'
<1>1. ASSUME NEW sc \in StorageClasses, Scalar(sc) PROVE IInv'
  BY <1>1, ScalarStep
<1>2. ASSUME NEW sc \in StorageClasses, NEW tag \in Tags, StructReference(tag, sc)
      PROVE  IInv'
  BY <1>2, StructReferenceStep
<1>3. ASSUME NEW sc \in StorageClasses, NEW tag \in TagNames, OpenStruct(tag, sc)
      PROVE  IInv'
  BY <1>3, OpenStructStep
<1>4. ASSUME NEW n \in Idents \cup Members, NEW inner \in BOOLEAN, NEW star \in BOOLEAN,
             Name(n, inner, star)
      PROVE  IInv'
  BY <1>4, NameStep
<1>5. ASSUME NEW star \in BOOLEAN, OmitName(star) PROVE IInv'
  BY <1>5, OmitNameStep
<1>6. ASSUME NEW more \in BOOLEAN, Declarator(more) PROVE IInv'
  BY <1>6, DeclaratorStep
<1> QED
  BY <1>1, <1>2, <1>3, <1>4, <1>5, <1>6, CloseStructStep, OpenParamsStep,
     CloseParamsStep, EmptyParamsStep, EmptyDeclarationStep, BeginBodyStep,
     WholeBodyStep, BeginBlockStep, EndBlockStep, BeginForStep, SimpleStmtStep,
     FinishForStep
     DEF Step

LEMMA NextInv == IInv /\ [Next]_vars => IInv'
<1> SUFFICES ASSUME IInv, [Next]_vars PROVE IInv'
  OBVIOUS
<1>1. CASE Live /\ Step
  BY <1>1, StepInv
<1>2. CASE UNCHANGED vars
  BY <1>2 DEF vars, IInv, TypeOK, NoInternalError, StackOK, FramesOK, Match, Held, Vis
<1> QED
  BY <1>1, <1>2 DEF Next, Exited

LEMMA InvariantHolds == Spec => []IInv
  BY InitInv, NextInv, PTL DEF Spec

-----------------------------------------------------------------------------
(* Type correctness of scope.c, structunion.c and decl.c's state under     *)
(* every sequence of the grammar's actions.                                *)
THEOREM Typed == Spec => []TypeOK
<1>1. IInv => TypeOK
  BY DEF IInv
<1> QED
  BY <1>1, InvariantHolds, PTL

(* The pushes and pops of parser.y, scope.c and structunion.c balance: at   *)
(* every point of every program there is one scope per open construct, of  *)
(* the construct's type, and a prototype is only ever on hold directly     *)
(* above the file scope.                                                   *)
THEOREM ScopesBalance == Spec => []ScopesMatchConstructs
<1>1. IInv => ScopesMatchConstructs
  BY DEF IInv, ScopesMatchConstructs, Match, Vis, Visible, Scoped, StackOK
<1> QED
  BY <1>1, InvariantHolds, PTL

(* None of the errors the code comments "shouldn't happen" is reported for  *)
(* any program: scope_pop never meets the bottom of the stack, a held      *)
(* prototype is cleared only where it belongs, and decl_install finds the  *)
(* function scope it dereferences.                                         *)
THEOREM NoInternalErrors == Spec => []NoInternalError
<1>1. IInv => NoInternalError
  BY DEF IInv
<1> QED
  BY <1>1, InvariantHolds, PTL
=============================================================================
