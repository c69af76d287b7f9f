------------------------------ MODULE CFGProofs ------------------------------
(***************************************************************************)
(* The control flow graph of a function is whole, for every function body: *)
(* each block that control may go to is placed once, a finalized block     *)
(* stays, and the assembly can be executed without leaving it.             *)
(***************************************************************************)
EXTENDS CFGRun, Integers, SequenceTheorems, FiniteSetTheorems, TLAPS

(* The blocks on bb_ll *)
OnList(S) == {S.ll[p] : p \in 1..Len(S.ll)}

(* What compares with a constant knows the relation it is read with. *)
CodeOK(b) == \A k \in 1..Len(b.code) : b.code[k].op = "cmpk" => b.code[k].cc # "always"

(* The graph while the blocks P have been allocated and not placed: they    *)
(* are empty, and together with the blocks on the list all that control    *)
(* may go to.                                                              *)
Targets(S, P) == {None} \cup P \cup OnList(S)
BlockOK(b, S, P) == CodeOK(b) /\ b.def \in Targets(S, P) /\ b.cond \in Targets(S, P)
ListOK(S, P) ==
  /\ \A p \in 1..Len(S.ll) : S.ll[p] \in 1..Len(S.bbs) /\ S.ll[p] \notin P
  /\ \A p, q \in 1..Len(S.ll) : S.ll[p] = S.ll[q] => p = q
PendingOK(S, P) == \A b \in P : b \in 1..Len(S.bbs) /\ S.bbs[b] = NewBlock
GraphOK(S, P) ==
  /\ S \in Graph /\ S.cur \in 1..Len(S.bbs) /\ S.cur \notin P
  /\ \A i \in 1..Len(S.bbs) : BlockOK(S.bbs[i], S, P)
  /\ ListOK(S, P) /\ PendingOK(S, P)

(* The block that was placed first is still the first placed. *)
SameBottom(S, N) ==
  Len(S.ll) # 0 => Len(N.ll) # 0 /\ N.ll[Len(N.ll)] = S.ll[Len(S.ll)]

(* Between S and N only the current block and new ones have been worked on, *)
(* and blocks placed.                                                      *)
Works(S, N) ==
  /\ SameBottom(S, N)
  /\ Len(S.bbs) <= Len(N.bbs) /\ N.loop = S.loop /\ OnList(S) \subseteq OnList(N)
  /\ \A i \in 1..Len(S.bbs) : i # S.cur \/ S.bbs[i].finalized => N.bbs[i] = S.bbs[i]
  /\ N.cur = S.cur \/ N.cur > Len(S.bbs)

(* Between S and N only quads have been put in the current block, which may *)
(* have been ended, and blocks allocated.                                  *)
Emits(S, N) == Works(S, N) /\ N.cur = S.cur /\ N.ll = S.ll

(* Between S and N, what was placed and what was finalized stays. *)
Keeps(S, N) ==
  /\ Len(S.bbs) <= Len(N.bbs) /\ OnList(S) \subseteq OnList(N)
  /\ \A i \in 1..Len(S.bbs) : S.bbs[i].finalized => N.bbs[i] = S.bbs[i]

(* Block bb has just been placed. *)
AtNew(S, bb) == S.cur = bb /\ Len(S.ll) # 0 /\ S.ll[1] = bb /\ S.bbs[bb] = NewBlock

Operations == {"expr", "cmp", "test", "cmpz", "cmpk", "mov", "ret"}
Places     == Nat \X {"whole", "left", "right", "init", "update"}

-----------------------------------------------------------------------------
LEMMA GraphFields ==
  ASSUME NEW S \in Graph
  PROVE  /\ S.bbs \in Seq(Block) /\ Len(S.bbs) \in Nat /\ S.ll \in Seq(Nat)
         /\ Len(S.ll) \in Nat /\ S.cur \in Nat
         /\ \A i \in 1..Len(S.bbs) : S.bbs[i] \in Block
  BY LenProperties, ElementOfSeq DEF Graph

LEMMA WorksSelf == ASSUME NEW S \in Graph PROVE Works(S, S)
  BY GraphFields DEF Works, SameBottom

LEMMA WorksTransitive ==
  ASSUME NEW S \in Graph, NEW N \in Graph, NEW O \in Graph, Works(S, N), Works(N, O)
  PROVE  Works(S, O)
<1>1. Len(S.bbs) \in Nat /\ Len(N.bbs) \in Nat /\ Len(O.bbs) \in Nat
      /\ S.cur \in Nat /\ N.cur \in Nat /\ O.cur \in Nat
  BY GraphFields
<1>2. ASSUME NEW i \in 1..Len(S.bbs), i # S.cur \/ S.bbs[i].finalized
      PROVE  O.bbs[i] = S.bbs[i]
  <2>1. N.bbs[i] = S.bbs[i]
    BY <1>2 DEF Works
  <2>2. i \in 1..Len(N.bbs) /\ (i # N.cur \/ N.bbs[i].finalized)
    BY <1>1, <1>2, <2>1 DEF Works
  <2> QED
    BY <2>1, <2>2 DEF Works
<1>3. SameBottom(S, O)
  BY DEF Works, SameBottom
<1> QED
  BY <1>1, <1>2, <1>3 DEF Works

(* A block of the function is changed. *)
LEMMA ChangedBlock ==
  ASSUME NEW S \in Graph, NEW k \in 1..Len(S.bbs), NEW b \in Block,
         NEW N, N = [S EXCEPT !.bbs = [S.bbs EXCEPT ![k] = b]]
  PROVE  /\ N \in Graph /\ Len(N.bbs) = Len(S.bbs)
         /\ \A i \in 1..Len(S.bbs) : N.bbs[i] = IF i = k THEN b ELSE S.bbs[i]
         /\ N.cur = S.cur /\ N.ll = S.ll /\ N.loop = S.loop
<1> DEFINE s == [S.bbs EXCEPT ![k] = b]
<1>1. S.bbs \in Seq(Block)
  BY GraphFields
<1>2. /\ s \in Seq(Block) /\ Len(s) = Len(S.bbs)
      /\ \A i \in 1..Len(S.bbs) : s[i] = IF i = k THEN b ELSE S.bbs[i]
  BY <1>1, ExceptSeq
<1> HIDE DEF s
<1>3. N = [S EXCEPT !.bbs = s]
  BY DEF s
<1>4. N \in Graph /\ N.bbs = s /\ N.cur = S.cur /\ N.ll = S.ll /\ N.loop = S.loop
  BY <1>2, <1>3 DEF Graph
<1> QED
  BY <1>2, <1>4

LEMMA KeepsTransitive ==
  ASSUME NEW S \in Graph, NEW N \in Graph, NEW O \in Graph, Keeps(S, N), Keeps(N, O)
  PROVE  Keeps(S, O)
<1>1. Len(S.bbs) \in Nat /\ Len(N.bbs) \in Nat /\ Len(O.bbs) \in Nat
  BY GraphFields
<1>2. ASSUME NEW i \in 1..Len(S.bbs), S.bbs[i].finalized PROVE O.bbs[i] = S.bbs[i]
  <2>1. N.bbs[i] = S.bbs[i] /\ i \in 1..Len(N.bbs)
    BY <1>1, <1>2 DEF Keeps
  <2> QED
    BY <1>2, <2>1 DEF Keeps
<1> QED
  BY <1>1, <1>2 DEF Keeps

LEMMA WorksKeeps == ASSUME NEW S, NEW N, Works(S, N) PROVE Keeps(S, N)
  BY DEF Works, Keeps

-----------------------------------------------------------------------------
(* The primitives of CFGraph *)

CurrentBecomes(S, N, b) == N = [S EXCEPT !.bbs = [S.bbs EXCEPT ![S.cur] = b]]

(* Only the current block is changed, into one that is as it should be. *)
LEMMA ChangeCurrent ==
  ASSUME NEW S, NEW P, GraphOK(S, P), NEW b \in Block, BlockOK(b, S, P),
         ~Current(S).finalized,
         NEW N, CurrentBecomes(S, N, b)
  PROVE  GraphOK(N, P) /\ Emits(S, N) /\ N.bbs[N.cur] = b
<1>1. S \in Graph /\ S.cur \in 1..Len(S.bbs) /\ S.cur \notin P
  BY DEF GraphOK
<1>2. /\ N \in Graph /\ Len(N.bbs) = Len(S.bbs)
      /\ \A i \in 1..Len(S.bbs) : N.bbs[i] = IF i = S.cur THEN b ELSE S.bbs[i]
      /\ N.cur = S.cur /\ N.ll = S.ll /\ N.loop = S.loop
  BY <1>1, ChangedBlock DEF CurrentBecomes
<1>3. Len(S.bbs) \in Nat /\ OnList(N) = OnList(S)
  BY <1>1, <1>2, GraphFields DEF OnList
<1>4. Targets(N, P) = Targets(S, P)
  BY <1>3 DEF Targets
<1>5. \A i \in 1..Len(N.bbs) : BlockOK(N.bbs[i], N, P)
  BY <1>2, <1>4 DEF GraphOK, BlockOK
<1>6. ListOK(N, P) /\ PendingOK(N, P)
  BY <1>1, <1>2 DEF GraphOK, ListOK, PendingOK
<1>7. Emits(S, N)
  <2>1. SameBottom(S, N)
    BY <1>2 DEF SameBottom
  <2> QED
    BY <1>1, <1>2, <1>3, <2>1 DEF Emits, Works, Current
<1> QED
  BY <1>1, <1>2, <1>5, <1>6, <1>7 DEF GraphOK

LEMMA EmitsSelf == ASSUME NEW S \in Graph PROVE Emits(S, S)
  BY WorksSelf DEF Emits

LEMMA EmitsTransitive ==
  ASSUME NEW S \in Graph, NEW N \in Graph, NEW O \in Graph, Emits(S, N), Emits(N, O)
  PROVE  Emits(S, O)
  BY WorksTransitive DEF Emits

QuadRecords == [op : Operations, at : Places, cc : CodesOrNot]

LEMMA BlockFields ==
  ASSUME NEW b \in Block
  PROVE  /\ b.code \in Seq(QuadRecords) /\ Len(b.code) \in Nat
         /\ b.def \in Nat /\ b.cond \in Nat /\ b.cc \in CodesOrNot /\ b.finalized \in BOOLEAN
         /\ b = [code |-> b.code, cc |-> b.cc, def |-> b.def, cond |-> b.cond,
                 finalized |-> b.finalized]
  BY LenProperties DEF Block, QuadRecords, Operations, Places

LEMMA MakeBlock ==
  ASSUME NEW c \in Seq(QuadRecords), NEW cc \in CodesOrNot, NEW d \in Nat, NEW e \in Nat,
         NEW z \in BOOLEAN
  PROVE  [code |-> c, cc |-> cc, def |-> d, cond |-> e, finalized |-> z] \in Block
  BY DEF Block, QuadRecords, Operations, Places

LEMMA NewCode ==
  ASSUME NEW b \in Block, NEW c \in Seq(QuadRecords), NEW e, e = [b EXCEPT !.code = c]
  PROVE  /\ e \in Block /\ e.code = c /\ e.def = b.def /\ e.cond = b.cond
         /\ e.finalized = b.finalized
  BY DEF Block, QuadRecords, Operations, Places

(* A quad is put in front of a list. *)
LEMMA ConsCode ==
  ASSUME NEW s \in Seq(QuadRecords), NEW q \in QuadRecords
  PROVE  /\ <<q>> \o s \in Seq(QuadRecords) /\ Len(<<q>> \o s) = Len(s) + 1
         /\ (<<q>> \o s)[1] = q
         /\ \A k \in 2..Len(s) + 1 : (<<q>> \o s)[k] = s[k - 1]
<1>1. <<q>> \in Seq(QuadRecords) /\ Len(<<q>>) = 1 /\ <<q>>[1] = q
  OBVIOUS
<1>2. Len(s) \in Nat
  BY LenProperties
<1> QED
  BY <1>1, <1>2, ConcatProperties

(* quad_new *)
LEMMA QuadNew ==
  ASSUME NEW S, NEW P, GraphOK(S, P), NEW op \in Operations, NEW at \in Places,
         NEW cc \in CodesOrNot, op = "cmpk" => cc # "always",
         NEW N, N = quad_new(S, op, at, cc)
  PROVE  /\ GraphOK(N, P) /\ Emits(S, N)
         /\ N.bbs[N.cur].finalized = S.bbs[S.cur].finalized
<1>1. S \in Graph /\ S.cur \in 1..Len(S.bbs)
  BY DEF GraphOK
<1>2. CASE Current(S).finalized
  BY <1>1, <1>2, EmitsSelf DEF quad_new
<1>3. CASE ~Current(S).finalized
  <2> DEFINE b == S.bbs[S.cur]
             q == [op |-> op, at |-> at, cc |-> cc]
             c == <<q>> \o b.code
             e == [b EXCEPT !.code = c]
  <2>1. CurrentBecomes(S, N, e) /\ e = [b EXCEPT !.code = c]
    BY <1>3 DEF quad_new, CurrentBecomes
  <2>2. b = S.bbs[S.cur] /\ c = <<q>> \o b.code /\ ~b.finalized
    BY <1>3 DEF Current
  <2> HIDE DEF b, c, e
  <2>3. b \in Block
    BY <1>1, <2>2, GraphFields
  <2>4. b.code \in Seq(QuadRecords) /\ Len(b.code) \in Nat
    BY <2>3, BlockFields
  <2>5. q \in QuadRecords
    BY DEF QuadRecords
  <2> HIDE DEF q
  <2>6. /\ c \in Seq(QuadRecords) /\ Len(c) = Len(b.code) + 1 /\ c[1] = q
        /\ \A k \in 2..Len(b.code) + 1 : c[k] = b.code[k - 1]
    BY <2>2, <2>4, <2>5, ConsCode
  <2>7. /\ e \in Block /\ e.code = c /\ e.def = b.def /\ e.cond = b.cond
        /\ e.finalized = b.finalized
    BY <2>1, <2>3, <2>6, NewCode
  <2>8. BlockOK(b, S, P)
    BY <1>1, <2>2 DEF GraphOK
  <2>9. CodeOK(e)
    <3> SUFFICES ASSUME NEW k \in 1..Len(c), c[k].op = "cmpk" PROVE c[k].cc # "always"
      BY <2>7 DEF CodeOK
    <3>1. CASE k = 1
      BY <2>6, <3>1 DEF q
    <3>2. CASE k \in 2..Len(b.code) + 1
      <4>1. c[k] = b.code[k - 1] /\ k - 1 \in 1..Len(b.code)
        BY <2>4, <2>6, <3>2
      <4> QED
        BY <2>8, <4>1 DEF BlockOK, CodeOK
    <3> QED
      BY <2>4, <2>6, <3>1, <3>2
  <2>10. BlockOK(e, S, P)
    BY <2>7, <2>8, <2>9 DEF BlockOK
  <2>11. GraphOK(N, P) /\ Emits(S, N) /\ N.bbs[N.cur] = e
    BY <1>3, <2>1, <2>7, <2>10, ChangeCurrent
  <2> QED
    BY <2>2, <2>7, <2>11
<1> QED
  BY <1>2, <1>3

LEMMA ReverseFacts ==
  ASSUME NEW T, NEW s \in Seq(T)
  PROVE  /\ Reverse(s) \in Seq(T) /\ Len(Reverse(s)) = Len(s) /\ Len(s) \in Nat
         /\ \A k \in 1..Len(s) : /\ Reverse(s)[k] = s[Len(s) - k + 1]
                                 /\ Len(s) - k + 1 \in 1..Len(s)
<1> DEFINE n == Len(s)
           r == [k \in 1..n |-> s[n - k + 1]]
<1>1. n \in Nat /\ n = Len(s)
  BY LenProperties
<1>2. Reverse(s) = r
  BY DEF Reverse
<1>3. \A k \in 1..n : s[k] \in T
  BY ElementOfSeq
<1> HIDE DEF n
<1>4. \A k \in 1..n : n - k + 1 \in 1..n
  BY <1>1
<1>5. r \in Seq(T) /\ Len(r) = n /\ \A k \in 1..n : r[k] = s[n - k + 1]
  BY <1>1, <1>3, <1>4
<1> HIDE DEF r
<1> QED
  BY <1>1, <1>2, <1>4, <1>5

(* link_bb *)
LEMMA LinkBB ==
  ASSUME NEW S, NEW P, GraphOK(S, P), NEW cc \in CodesOrNot, NEW d \in Targets(S, P),
         NEW c \in Targets(S, P), NEW N, N = link_bb(S, cc, d, c)
  PROVE  /\ GraphOK(N, P) /\ Emits(S, N)
         /\ ~S.bbs[S.cur].finalized => N.bbs[N.cur].def = d
<1>1. S \in Graph /\ S.cur \in 1..Len(S.bbs)
  BY DEF GraphOK
<1>2. CASE Current(S).finalized
  BY <1>1, <1>2, EmitsSelf DEF link_bb, Current
<1>3. CASE ~Current(S).finalized
  <2> DEFINE b == S.bbs[S.cur]
             r == Reverse(b.code)
             e == [code |-> r, cc |-> cc, def |-> d, cond |-> c, finalized |-> TRUE]
  <2>1. CurrentBecomes(S, N, e) /\ e.code = r /\ e.def = d /\ e.cond = c
    BY <1>3 DEF link_bb, CurrentBecomes
  <2>2. b \in Block /\ BlockOK(b, S, P)
    BY <1>1, GraphFields DEF GraphOK
  <2>3. b.code \in Seq(QuadRecords)
    BY <2>2, BlockFields
  <2> HIDE DEF b
  <2>4. /\ r \in Seq(QuadRecords) /\ Len(r) = Len(b.code) /\ Len(b.code) \in Nat
        /\ \A k \in 1..Len(b.code) : /\ r[k] = b.code[Len(b.code) - k + 1]
                                     /\ Len(b.code) - k + 1 \in 1..Len(b.code)
    BY <2>3, ReverseFacts
  <2> HIDE DEF r
  <2>5. d \in Nat /\ c \in Nat
    <3>1. \A p \in P : p \in Nat
      BY <1>1, GraphFields DEF GraphOK, PendingOK
    <3>2. \A p \in 1..Len(S.ll) : S.ll[p] \in Nat
      BY <1>1, GraphFields DEF GraphOK, ListOK
    <3> QED
      BY <3>1, <3>2 DEF Targets, OnList, None
  <2>6. e \in Block
    BY <2>4, <2>5, MakeBlock
  <2>7. CodeOK(e)
    BY <2>1, <2>2, <2>4 DEF CodeOK, BlockOK
  <2>8. BlockOK(e, S, P)
    BY <2>1, <2>7 DEF BlockOK
  <2> HIDE DEF e
  <2>9. GraphOK(N, P) /\ Emits(S, N) /\ N.bbs[N.cur] = e
    BY <1>3, <2>1, <2>6, <2>8, ChangeCurrent
  <2> QED
    BY <2>1, <2>9
<1> QED
  BY <1>2, <1>3

LEMMA NewBlockType == NewBlock \in Block /\ ~NewBlock.finalized /\ NewBlock.def = None
                      /\ NewBlock.cond = None /\ CodeOK(NewBlock)
<1>1. <<>> \in Seq(QuadRecords)
  OBVIOUS
<1>2. "always" \in CodesOrNot /\ None \in Nat
  BY DEF CodesOrNot, None
<1>3. NewBlock \in Block
  BY <1>1, <1>2, MakeBlock DEF NewBlock
<1>4. NewBlock.code = <<>> /\ ~NewBlock.finalized /\ NewBlock.def = None
      /\ NewBlock.cond = None
  BY DEF NewBlock
<1> QED
  BY <1>3, <1>4 DEF CodeOK

(* Between S and N, n blocks have been allocated; those in Q are pending. *)
Allocates(S, P, n, Q, N) ==
  /\ GraphOK(N, P \cup Q) /\ Emits(S, N) /\ Len(N.bbs) = Len(S.bbs) + n
  /\ \A i \in 1..Len(S.bbs) : N.bbs[i] = S.bbs[i]

(* basic_block_new, n times *)
LEMMA NewBlocksOK ==
  ASSUME NEW S, NEW P, GraphOK(S, P), NEW n \in Nat, NEW Q,
         Q \subseteq Len(S.bbs) + 1..Len(S.bbs) + n, NEW N, N = NewBlocks(S, n)
  PROVE  Allocates(S, P, n, Q, N)
<1> DEFINE m == Len(S.bbs)
           s == [i \in 1..n |-> NewBlock]
           b == S.bbs \o s
<1>1. /\ S \in Graph /\ S.cur \in 1..m /\ S.bbs \in Seq(Block) /\ m \in Nat
      /\ S.ll \in Seq(Nat) /\ Len(S.ll) \in Nat
  BY GraphFields DEF GraphOK
<1>2. s \in Seq(Block) /\ Len(s) = n /\ \A i \in 1..n : s[i] = NewBlock
  BY NewBlockType
<1> HIDE DEF s
<1>3. /\ b \in Seq(Block) /\ Len(b) = m + n
      /\ \A i \in 1..m : b[i] = S.bbs[i]
      /\ \A i \in m + 1..m + n : b[i] = s[i - m]
  <2>1. /\ b \in Seq(Block) /\ Len(b) = m + n /\ m \in Nat
        /\ \A i \in 1..m + n : b[i] = IF i <= m THEN S.bbs[i] ELSE s[i - m]
    <3>1. S.bbs \in Seq(Block) /\ s \in Seq(Block)
      BY <1>1, <1>2
    <3>2. /\ b \in Seq(Block) /\ Len(b) = m + Len(s)
          /\ \A i \in 1..m + Len(s) : b[i] = IF i <= m THEN S.bbs[i] ELSE s[i - m]
      BY ONLY <3>1, ConcatProperties
    <3> HIDE DEF b, m
    <3> QED
      BY <1>1, <1>2, <3>2
  <2> HIDE DEF b, m
  <2>2. /\ \A i \in 1..m : i \in 1..m + n /\ i <= m
        /\ \A i \in m + 1..m + n : i \in 1..m + n /\ ~(i <= m)
    BY <2>1
  <2> QED
    BY <2>1, <2>2
<1>4. N = [S EXCEPT !.bbs = b]
  BY DEF NewBlocks, s
<1> HIDE DEF b
<1>5. /\ N \in Graph /\ N.bbs = b /\ N.cur = S.cur /\ N.ll = S.ll /\ N.loop = S.loop
  BY <1>1, <1>3, <1>4 DEF Graph
<1>6. \A i \in m + 1..m + n : b[i] = NewBlock
  <2> TAKE i \in m + 1..m + n
  <2>1. i - m \in 1..n
    BY <1>1
  <2> QED
    BY <1>2, <1>3, <2>1
<1>7. \A i \in 1..m + n : i \in 1..m \/ i \in m + 1..m + n
  BY <1>1
<1>8. 1..m \subseteq 1..m + n
  BY <1>1
<1> HIDE DEF m
<1>9. m = Len(S.bbs)
  BY DEF m
<1>10. Targets(S, P) \subseteq Targets(N, P \cup Q) /\ OnList(N) = OnList(S)
  BY <1>5 DEF Targets, OnList
<1>11. \A i \in 1..m + n : BlockOK(b[i], N, P \cup Q)
  <2> TAKE i \in 1..m + n
  <2>1. CASE i \in 1..m
    BY <1>3, <1>9, <1>10, <2>1 DEF GraphOK, BlockOK
  <2>2. CASE i \in m + 1..m + n
    BY <1>6, <2>2, NewBlockType DEF BlockOK, Targets
  <2> QED
    BY <1>7, <2>1, <2>2
<1>12. ListOK(N, P \cup Q)
  <2>1. ASSUME NEW p \in 1..Len(S.ll) PROVE S.ll[p] \in 1..m /\ S.ll[p] \notin P \cup Q
    <3>1. S.ll[p] \in 1..m /\ S.ll[p] \notin P
      BY <1>9 DEF GraphOK, ListOK
    <3>2. S.ll[p] \notin m + 1..m + n
      BY <1>1, <3>1
    <3> QED
      BY <1>9, <3>1, <3>2
  <2>2. N.ll = S.ll /\ N.bbs = b /\ Len(b) = m + n
    BY <1>3, <1>5
  <2>3. \A p \in 1..Len(N.ll) : N.ll[p] \in 1..Len(N.bbs) /\ N.ll[p] \notin P \cup Q
    BY ONLY <1>8, <2>1, <2>2
  <2>4. \A p, q \in 1..Len(S.ll) : S.ll[p] = S.ll[q] => p = q
    BY DEF GraphOK, ListOK
  <2> QED
    BY ONLY <2>2, <2>3, <2>4 DEF ListOK
<1>13. PendingOK(N, P \cup Q)
  <2>1. ASSUME NEW p \in P PROVE p \in 1..m + n /\ b[p] = NewBlock
    BY <1>3, <1>8, <1>9 DEF GraphOK, PendingOK
  <2>2. ASSUME NEW p \in Q PROVE p \in 1..m + n /\ b[p] = NewBlock
    BY <1>1, <1>6, <1>9
  <2> QED
    BY <1>3, <1>5, <2>1, <2>2 DEF PendingOK
<1>14. S.cur \notin P \cup Q /\ S.cur \in 1..m + n
  <2>1. S.cur \notin m + 1..m + n
    BY <1>1
  <2> QED
    BY <1>1, <1>8, <1>9, <2>1 DEF GraphOK
<1>15. GraphOK(N, P \cup Q)
  BY <1>3, <1>5, <1>11, <1>12, <1>13, <1>14 DEF GraphOK
<1>16. Emits(S, N)
  <2>1. SameBottom(S, N)
    BY <1>5 DEF SameBottom
  <2> QED
    BY <1>1, <1>3, <1>5, <1>9, <1>10, <2>1 DEF Emits, Works
<1> QED
  BY <1>3, <1>5, <1>9, <1>15, <1>16 DEF Allocates

(* Between S and N, the pending block bb has been placed. *)
Places1(S, P, bb, N) ==
  /\ GraphOK(N, P \ {bb}) /\ AtNew(N, bb) /\ Keeps(S, N) /\ N.loop = S.loop
  /\ OnList(N) = OnList(S) \cup {bb} /\ Targets(N, P \ {bb}) = Targets(S, P)
  /\ Len(N.bbs) = Len(S.bbs)

(* bb_ll_push of a pending block *)
LEMMA PushOK ==
  ASSUME NEW S, NEW P, GraphOK(S, P), NEW bb \in P, NEW N, N = bb_ll_push(S, bb)
  PROVE  Places1(S, P, bb, N) /\ N.bbs = S.bbs
<1> DEFINE n == Len(S.ll)
           l == <<bb>> \o S.ll
<1>1. /\ S \in Graph /\ S.ll \in Seq(Nat) /\ n \in Nat /\ Len(S.bbs) \in Nat
      /\ bb \in 1..Len(S.bbs) /\ S.bbs[bb] = NewBlock /\ bb \in Nat
  <2>1. S \in Graph /\ bb \in 1..Len(S.bbs) /\ S.bbs[bb] = NewBlock
    BY DEF GraphOK, PendingOK
  <2> QED
    BY <2>1, GraphFields
<1>2. <<bb>> \in Seq(Nat) /\ Len(<<bb>>) = 1 /\ <<bb>>[1] = bb
  BY <1>1
<1>3. /\ l \in Seq(Nat) /\ Len(l) = n + 1
      /\ \A p \in 1..n + 1 : l[p] = IF p <= 1 THEN <<bb>>[p] ELSE S.ll[p - 1]
  <2>1. /\ l \in Seq(Nat) /\ Len(l) = Len(<<bb>>) + n
        /\ \A p \in 1..Len(<<bb>>) + n :
             l[p] = IF p <= Len(<<bb>>) THEN <<bb>>[p] ELSE S.ll[p - Len(<<bb>>)]
    BY <1>1, <1>2, ConcatProperties
  <2> HIDE DEF l, n
  <2> QED
    BY <1>1, <1>2, <2>1
<1>4. N = [S EXCEPT !.cur = bb, !.ll = l]
  BY DEF bb_ll_push
<1>5. n = Len(S.ll)
  OBVIOUS
<1> HIDE DEF l, n
<1>6. /\ l[1] = bb
      /\ \A p \in 2..n + 1 : l[p] = S.ll[p - 1] /\ p - 1 \in 1..n
      /\ \A p \in 1..n + 1 : p = 1 \/ p \in 2..n + 1
      /\ \A p \in 1..n : l[p + 1] = S.ll[p] /\ p + 1 \in 1..n + 1
      /\ 1 \in 1..n + 1
  <2>1. 1 \in 1..n + 1 /\ \A p \in 1..n + 1 : p = 1 \/ p \in 2..n + 1
    BY <1>1
  <2>2. \A p \in 2..n + 1 : p \in 1..n + 1 /\ ~(p <= 1) /\ p - 1 \in 1..n
    BY <1>1
  <2>3. \A p \in 1..n : p + 1 \in 2..n + 1 /\ p + 1 \in 1..n + 1 /\ (p + 1) - 1 = p
    BY <1>1
  <2>4. l[1] = bb
    BY <1>2, <1>3, <2>1
  <2>5. \A p \in 2..n + 1 : l[p] = S.ll[p - 1]
    BY <1>3, <2>2
  <2>6. \A p \in 1..n : l[p + 1] = S.ll[p]
    BY <2>3, <2>5
  <2> QED
    BY <2>1, <2>2, <2>3, <2>4, <2>5, <2>6
<1>7. /\ N \in Graph /\ N.bbs = S.bbs /\ N.cur = bb /\ N.ll = l /\ N.loop = S.loop
  BY <1>1, <1>3, <1>4 DEF Graph
<1>8. OnList(N) = OnList(S) \cup {bb}
  <2>1. OnList(N) \subseteq OnList(S) \cup {bb}
    <3>1. ASSUME NEW p \in 1..n + 1 PROVE l[p] \in OnList(S) \cup {bb}
      BY <1>5, <1>6 DEF OnList
    <3> QED
      BY <1>3, <1>7, <3>1 DEF OnList
  <2>2. ASSUME NEW p \in 1..n PROVE S.ll[p] \in OnList(N)
    BY <1>3, <1>6, <1>7 DEF OnList
  <2>3. bb \in OnList(N)
    BY <1>3, <1>6, <1>7 DEF OnList
  <2> QED
    BY <1>5, <2>1, <2>2, <2>3 DEF OnList
<1>9. Targets(N, P \ {bb}) = Targets(S, P)
  BY <1>8 DEF Targets
<1>10. \A i \in 1..Len(N.bbs) : BlockOK(N.bbs[i], N, P \ {bb})
  BY <1>7, <1>9 DEF GraphOK, BlockOK
<1>11. ListOK(N, P \ {bb})
  <2>1. ASSUME NEW p \in 1..n + 1 PROVE l[p] \in 1..Len(S.bbs) /\ l[p] \notin P \ {bb}
    <3>1. CASE p = 1
      BY <1>1, <1>6, <3>1
    <3>2. CASE p \in 2..n + 1
      BY <1>5, <1>6, <3>2 DEF GraphOK, ListOK
    <3> QED
      BY <1>6, <3>1, <3>2
  <2>2. ASSUME NEW p \in 2..n + 1 PROVE l[p] # bb
    BY <1>5, <1>6 DEF GraphOK, ListOK
  <2>3. ASSUME NEW p \in 2..n + 1, NEW q \in 2..n + 1, l[p] = l[q] PROVE p = q
    <3>1. p - 1 = q - 1
      <4>1. S.ll[p - 1] = S.ll[q - 1] /\ p - 1 \in 1..Len(S.ll) /\ q - 1 \in 1..Len(S.ll)
        BY <1>5, <1>6, <2>3
      <4> QED
        BY <4>1 DEF GraphOK, ListOK
    <3> QED
      BY <1>1, <3>1
  <2>4. \A p, q \in 1..n + 1 : l[p] = l[q] => p = q
    BY <1>6, <2>2, <2>3
  <2> QED
    BY <1>3, <1>7, <2>1, <2>4 DEF ListOK
<1>12. PendingOK(N, P \ {bb})
  BY <1>7 DEF GraphOK, PendingOK
<1>13. GraphOK(N, P \ {bb})
  BY <1>1, <1>7, <1>10, <1>11, <1>12 DEF GraphOK
<1>14. AtNew(N, bb)
  BY <1>1, <1>3, <1>6, <1>7 DEF AtNew
<1>15. Keeps(S, N)
  BY <1>1, <1>7, <1>8 DEF Keeps
<1> QED
  BY <1>7, <1>8, <1>9, <1>13, <1>14, <1>15 DEF Places1

LEMMA PushBottom ==
  ASSUME NEW S, NEW P, GraphOK(S, P), NEW bb \in P, NEW N, N = bb_ll_push(S, bb)
  PROVE  SameBottom(S, N)
<1>0. SUFFICES ASSUME Len(S.ll) # 0 PROVE Len(N.ll) # 0 /\ N.ll[Len(N.ll)] = S.ll[Len(S.ll)]
  BY DEF SameBottom
<1>1. S.ll \in Seq(Nat) /\ Len(S.ll) \in Nat /\ Len(S.ll) # 0 /\ bb \in Nat
  BY <1>0, GraphFields DEF GraphOK, PendingOK
<1>2. N.ll = <<bb>> \o S.ll
  BY DEF bb_ll_push, GraphOK, Graph
<1>3. <<bb>> \in Seq(Nat) /\ Len(<<bb>>) = 1
  BY <1>1
<1>4. Len(<<bb>> \o S.ll) = Len(<<bb>>) + Len(S.ll)
      /\ \A i \in 1..Len(<<bb>>) + Len(S.ll) :
           (<<bb>> \o S.ll)[i] = IF i <= Len(<<bb>>) THEN <<bb>>[i]
                                 ELSE S.ll[i - Len(<<bb>>)]
  BY <1>1, <1>3, ConcatProperties
<1> DEFINE k == Len(S.ll)
           q == <<bb>> \o S.ll
<1>5. Len(q) = k + 1 /\ q[k + 1] = S.ll[(k + 1) - 1] /\ (k + 1) - 1 = k
  <2>1. k \in Nat /\ k # 0 /\ k + 1 \in 1..1 + k /\ ~(k + 1 <= 1) /\ 1 + k = k + 1
    BY <1>1
  <2> HIDE DEF k
  <2> QED
    BY <1>3, <1>4, <2>1 DEF k
<1> QED
  BY <1>2, <1>5

LEMMA WorksPush ==
  ASSUME NEW S, NEW P, GraphOK(S, P), NEW bb \in P, NEW N, N = bb_ll_push(S, bb),
         NEW X \in Graph, Works(X, S), bb > Len(X.bbs)
  PROVE  Works(X, N)
<1>1. Places1(S, P, bb, N) /\ N.bbs = S.bbs
  BY PushOK
<1>2. AtNew(N, bb) /\ N.bbs = S.bbs /\ N.loop = S.loop /\ OnList(N) = OnList(S) \cup {bb}
  BY <1>1 DEF Places1
<1>3. SameBottom(X, N)
  BY PushBottom DEF SameBottom, Works
<1> QED
  BY <1>2, <1>3 DEF AtNew, Works

(* cur_loop is set. *)
LoopType == [brk : Nat, cont : Nat]
SetsLoop(S, l, N) == N = [S EXCEPT !.loop = l]

LEMMA LoopSet ==
  ASSUME NEW S, NEW P, GraphOK(S, P), NEW l \in LoopType, NEW N, SetsLoop(S, l, N)
  PROVE  /\ GraphOK(N, P) /\ N.bbs = S.bbs /\ N.cur = S.cur /\ N.ll = S.ll /\ N.loop = l
         /\ Keeps(S, N) /\ Targets(N, P) = Targets(S, P)
<1>1. /\ N \in Graph /\ N.bbs = S.bbs /\ N.cur = S.cur /\ N.ll = S.ll /\ N.loop = l
      /\ S \in Graph
  BY DEF GraphOK, Graph, LoopType, SetsLoop
<1>2. Targets(N, P) = Targets(S, P) /\ OnList(N) = OnList(S)
  BY <1>1 DEF Targets, OnList
<1>3. GraphOK(N, P)
  BY <1>1, <1>2 DEF GraphOK, BlockOK, ListOK, PendingOK
<1>4. Keeps(S, N)
  BY <1>1, <1>2, GraphFields DEF Keeps
<1> QED
  BY <1>1, <1>2, <1>3, <1>4

(* Between two calls, targets only grow. *)
LEMMA EmitsTargets ==
  ASSUME NEW S, NEW N, NEW P, Emits(S, N)
  PROVE  Targets(N, P) = Targets(S, P) /\ OnList(N) = OnList(S)
  BY DEF Emits, Targets, OnList

(* The current block ends, and a pending block is placed: what most        *)
(* statements do between the parts they consist of.                        *)
LEMMA LinkPush ==
  ASSUME NEW S, NEW P, GraphOK(S, P), NEW cc \in CodesOrNot, NEW d \in Targets(S, P),
         NEW bb \in P, NEW N, N = bb_ll_push(link_bb(S, cc, d, None), bb)
  PROVE  Places1(S, P, bb, N)
<1> DEFINE L == link_bb(S, cc, d, None)
<1>1. None \in Targets(S, P)
  BY DEF Targets
<1>2. GraphOK(L, P) /\ Emits(S, L)
  BY <1>1, LinkBB
<1>3. Len(L.bbs) = Len(S.bbs)
  BY DEF link_bb, GraphOK
<1> HIDE DEF L
<1>4. Places1(L, P, bb, N) /\ N.bbs = L.bbs
  BY <1>2, PushOK DEF L
<1>5. L.loop = S.loop /\ Keeps(S, L)
  BY <1>2, WorksKeeps DEF Emits, Works
<1>6. Targets(L, P) = Targets(S, P) /\ OnList(L) = OnList(S)
  BY <1>2, EmitsTargets
<1>7. S \in Graph /\ L \in Graph /\ N \in Graph
  BY <1>2, <1>4 DEF GraphOK, Places1
<1>8. Keeps(S, N)
  BY <1>4, <1>5, <1>7, KeepsTransitive DEF Places1
<1> QED
  BY <1>3, <1>4, <1>5, <1>6, <1>8 DEF Places1

LEMMA LinkPushWorks ==
  ASSUME NEW S, NEW P, GraphOK(S, P), NEW cc \in CodesOrNot, NEW d \in Targets(S, P),
         NEW bb \in P, NEW N, N = bb_ll_push(link_bb(S, cc, d, None), bb),
         NEW X \in Graph, Works(X, S), bb > Len(X.bbs)
  PROVE  Works(X, N)
<1> DEFINE L == link_bb(S, cc, d, None)
<1>1. None \in Targets(S, P)
  BY DEF Targets
<1>2. GraphOK(L, P) /\ Emits(S, L)
  BY <1>1, LinkBB
<1>3. Works(X, L)
  BY <1>2, WorksTransitive DEF Emits, GraphOK
<1> HIDE DEF L
<1> QED
  BY <1>2, <1>3, WorksPush DEF L

-----------------------------------------------------------------------------
(* Conditions *)

Operands == Relations \cup {"plain"}

(* Quads may have been put in the current block, which may have been ended; *)
(* and, for the second, blocks placed.                                     *)
Good(S, P, N)    == GraphOK(N, P) /\ Emits(S, N)
Extends(S, P, N) == GraphOK(N, P) /\ Works(S, N)

LEMMA GoodTransitive ==
  ASSUME NEW S, NEW P, GraphOK(S, P), NEW N, Good(S, P, N), NEW O, Good(N, P, O)
  PROVE  Good(S, P, O)
  BY EmitsTransitive DEF Good, GraphOK

LEMMA OperandOK ==
  ASSUME NEW S, NEW P, GraphOK(S, P), NEW at \in Places, NEW o \in Operands,
         NEW before \in CodesOrNot
  PROVE  Good(S, P, gen_operand(S, at, o)) /\ operand_cc(o, before) \in CodesOrNot
<1>1. operand_cc(o, before) \in CodesOrNot /\ operand_cc(o, "always") \in CodesOrNot
  BY DEF operand_cc, CodesOrNot, Operands
<1> DEFINE op == IF o = "plain" THEN "test" ELSE "cmp"
<1>2. op \in Operations /\ op # "cmpk"
  BY DEF Operations
<1>3. gen_operand(S, at, o) = quad_new(S, op, at, operand_cc(o, "always"))
  BY DEF gen_operand
<1> HIDE DEF op
<1>4. Good(S, P, quad_new(S, op, at, operand_cc(o, "always")))
  BY <1>1, <1>2, QuadNew DEF Good
<1> QED
  BY <1>1, <1>3, <1>4

LEMMA CompareZeroOK ==
  ASSUME NEW S, NEW P, GraphOK(S, P), NEW at \in Places, NEW cc \in CodesOrNot
  PROVE  Good(S, P, compare_zero(S, at, cc)) /\ nonzero(cc) \in Relations
<1>1. nonzero(cc) \in Relations
  BY DEF nonzero, Relations, CodesOrNot
<1>2. CASE cc = "always"
  <2>1. "cmpz" \in Operations /\ "always" \in CodesOrNot
    BY DEF Operations, CodesOrNot
  <2>2. Good(S, P, quad_new(S, "cmpz", at, "always"))
    BY <2>1, QuadNew DEF Good
  <2> QED
    BY <1>1, <1>2, <2>2 DEF compare_zero
<1>3. CASE cc # "always"
  <2>1. Good(S, P, S)
    BY EmitsSelf DEF Good, GraphOK
  <2> QED
    BY <1>1, <1>3, <2>1 DEF compare_zero
<1> QED
  BY <1>2, <1>3

LEMMA BranchOK ==
  ASSUME NEW S, NEW P, GraphOK(S, P), NEW cc \in Relations, NEW t \in Targets(S, P),
         NEW f \in Targets(S, P), NEW invert \in BOOLEAN
  PROVE  Good(S, P, branch(S, cc, t, f, invert))
<1>1. cc \in CodesOrNot /\ Inverted[cc] \in CodesOrNot
  BY DEF Inverted, CodesOrNot, Relations
<1>2. CASE invert
  BY <1>1, <1>2, LinkBB DEF branch, Good
<1>3. CASE ~invert
  BY <1>1, <1>3, LinkBB DEF branch, Good
<1> QED
  BY <1>2, <1>3

LEMMA ConditionalOperandOK ==
  ASSUME NEW S, NEW P, GraphOK(S, P), NEW at \in Places, NEW o \in Operands,
         NEW t \in Targets(S, P), NEW f \in Targets(S, P), NEW invert \in BOOLEAN
  PROVE  Good(S, P, conditional_operand(S, at, o, t, f, invert))
<1> DEFINE cc == operand_cc(o, "always")
           A == gen_operand(S, at, o)
           B == compare_zero(A, at, cc)
           N == branch(B, nonzero(cc), t, f, invert)
<1>1. "always" \in CodesOrNot
  BY DEF CodesOrNot
<1>2. Good(S, P, A) /\ cc \in CodesOrNot
  BY <1>1, OperandOK
<1>3. conditional_operand(S, at, o, t, f, invert) = N
  BY DEF conditional_operand
<1> HIDE DEF A, cc
<1>4. Good(A, P, B) /\ nonzero(cc) \in Relations
  BY <1>2, CompareZeroOK DEF Good
<1> HIDE DEF B
<1>5. Good(S, P, B)
  BY <1>2, <1>4, GoodTransitive
<1>6. t \in Targets(B, P) /\ f \in Targets(B, P)
  BY <1>5, EmitsTargets DEF Good
<1>7. Good(B, P, N)
  BY <1>4, <1>5, <1>6, BranchOK DEF Good
<1> HIDE DEF N
<1> QED
  BY <1>3, <1>5, <1>7, GoodTransitive

(* Three new blocks *)
LEMMA ThreeFresh ==
  ASSUME NEW S, NEW P, GraphOK(S, P)
  PROVE  /\ Fresh(S, 1) # Fresh(S, 2) /\ Fresh(S, 1) # Fresh(S, 3)
         /\ Fresh(S, 2) # Fresh(S, 3)
         /\ {Fresh(S, 1), Fresh(S, 2), Fresh(S, 3)} \cap P = {}
         /\ {Fresh(S, 1), Fresh(S, 2), Fresh(S, 3)} \subseteq
              Len(S.bbs) + 1..Len(S.bbs) + 3
         /\ Fresh(S, 1) > Len(S.bbs) /\ Fresh(S, 2) > Len(S.bbs) /\ Fresh(S, 3) > Len(S.bbs)
<1>1. Len(S.bbs) \in Nat /\ \A b \in P : b \in 1..Len(S.bbs)
  BY GraphFields DEF GraphOK, PendingOK
<1> QED
  BY <1>1 DEF Fresh

(* The blocks of l && r: C after l, B and R before and after r, D and E    *)
(* before and after the branch that r is not evaluated on.                 *)
LEMMA AndBlocks ==
  ASSUME NEW S, NEW P, GraphOK(S, P), NEW at \in Places, NEW o \in Operands,
         NEW C, C = conditional_operand(NewBlocks(S, 3), at, o, Fresh(S, 1), Fresh(S, 2), TRUE),
         NEW B, B = bb_ll_push(C, Fresh(S, 1)),
         NEW R, GraphOK(B, P \cup {Fresh(S, 2), Fresh(S, 3)})
                  => Good(B, P \cup {Fresh(S, 2), Fresh(S, 3)}, R),
         NEW D, D = bb_ll_push(link_bb(R, "always", Fresh(S, 3), None), Fresh(S, 2)),
         NEW E, GraphOK(D, P \cup {Fresh(S, 3)}) => Good(D, P \cup {Fresh(S, 3)}, E),
         NEW N, N = bb_ll_push(link_bb(E, "always", Fresh(S, 3), None), Fresh(S, 3))
  PROVE  Extends(S, P, N) /\ AtNew(N, Fresh(S, 3))
<1> DEFINE a == Fresh(S, 1)
           b == Fresh(S, 2)
           c == Fresh(S, 3)
           F == NewBlocks(S, 3)
           Q == P \cup {a, b, c}
<1>1. /\ a # b /\ a # c /\ b # c /\ {a, b, c} \cap P = {}
      /\ {a, b, c} \subseteq Len(S.bbs) + 1..Len(S.bbs) + 3
      /\ a > Len(S.bbs) /\ b > Len(S.bbs) /\ c > Len(S.bbs) /\ S \in Graph
  BY ThreeFresh DEF GraphOK
<1>2. GraphOK(F, Q) /\ Emits(S, F)
  <2> DEFINE W == {a, b, c}
  <2>1. W \subseteq Len(S.bbs) + 1..Len(S.bbs) + 3 /\ 3 \in Nat /\ Q = P \cup W
    BY <1>1
  <2> HIDE DEF W, Q
  <2>2. Allocates(S, P, 3, W, F)
    BY <2>1, NewBlocksOK DEF F
  <2> QED
    BY <2>1, <2>2 DEF Allocates
<1>3. C = conditional_operand(F, at, o, a, b, TRUE) /\ B = bb_ll_push(C, a)
      /\ D = bb_ll_push(link_bb(R, "always", c, None), b)
      /\ N = bb_ll_push(link_bb(E, "always", c, None), c)
  OBVIOUS
<1>4. /\ GraphOK(B, P \cup {b, c}) => Good(B, P \cup {b, c}, R)
      /\ GraphOK(D, P \cup {c}) => Good(D, P \cup {c}, E)
      /\ c = Fresh(S, 3)
  OBVIOUS
<1>5. /\ Q \ {a} = P \cup {b, c} /\ (P \cup {b, c}) \ {b} = P \cup {c}
      /\ (P \cup {c}) \ {c} = P
  BY <1>1
<1>6. a \in Q /\ b \in Q /\ b \in P \cup {b, c} /\ c \in P \cup {b, c} /\ c \in P \cup {c}
  OBVIOUS
<1> HIDE DEF a, b, c, F, Q
<1>7. "always" \in CodesOrNot
  BY DEF CodesOrNot
<1>8. Good(F, Q, C)
  <2>1. a \in Targets(F, Q) /\ b \in Targets(F, Q)
    BY <1>6 DEF Targets
  <2> QED
    BY <1>2, <1>3, <2>1, ConditionalOperandOK
<1>9. Works(S, C) /\ GraphOK(C, Q)
  BY <1>1, <1>2, <1>8, WorksTransitive DEF Good, Emits, GraphOK
<1>10. GraphOK(B, P \cup {b, c}) /\ Works(S, B)
  <2>1. Places1(C, Q, a, B)
    BY <1>3, <1>6, <1>9, PushOK
  <2>2. Works(S, B)
    BY <1>1, <1>3, <1>6, <1>9, WorksPush
  <2> QED
    BY <1>5, <2>1, <2>2 DEF Places1
<1>11. GraphOK(R, P \cup {b, c}) /\ Works(S, R)
  BY <1>1, <1>4, <1>10, WorksTransitive DEF Good, Emits, GraphOK
<1>12. GraphOK(D, P \cup {c}) /\ Works(S, D)
  <2>1. c \in Targets(R, P \cup {b, c})
    BY <1>6 DEF Targets
  <2>2. Places1(R, P \cup {b, c}, b, D)
    BY <1>3, <1>6, <1>7, <1>11, <2>1, LinkPush
  <2>3. Works(S, D)
    BY <1>1, <1>3, <1>6, <1>7, <1>11, <2>1, LinkPushWorks
  <2> QED
    BY <1>5, <2>2, <2>3 DEF Places1
<1>13. GraphOK(E, P \cup {c}) /\ Works(S, E)
  BY <1>1, <1>4, <1>12, WorksTransitive DEF Good, Emits, GraphOK
<1>14. Places1(E, P \cup {c}, c, N) /\ Works(S, N)
  <2>1. c \in Targets(E, P \cup {c})
    BY <1>6 DEF Targets
  <2>2. Places1(E, P \cup {c}, c, N)
    BY <1>3, <1>6, <1>7, <1>13, <2>1, LinkPush
  <2>3. Works(S, N)
    BY <1>1, <1>3, <1>6, <1>7, <1>13, <2>1, LinkPushWorks
  <2> QED
    BY <2>2, <2>3
<1> QED
  BY <1>4, <1>5, <1>14 DEF Places1, Extends

LEMMA ChainParts ==
  ASSUME NEW c \in Conditions
  PROVE  /\ c[1] \in Operands /\ Len(c) \in {1, 2} /\ (Len(c) = 2 => c[2] \in Operands)
         /\ c # <<>>
<1>1. c \in Seq(Operands) /\ Len(c) \in {1, 2}
  BY CFGenAssumption DEF Operands
<1> QED
  BY <1>1, ElementOfSeq

LEMMA PlaceOf ==
  ASSUME NEW i \in Nat
  PROVE  /\ <<i, "left">> \in Places /\ <<i, "right">> \in Places
         /\ <<i, "init">> \in Places /\ <<i, "update">> \in Places
         /\ <<i, "whole">> \in Places
  BY DEF Places

(* l && r for its value *)
LEMMA AndValueOK ==
  ASSUME NEW S, NEW P, GraphOK(S, P), NEW i \in Nat, NEW c \in Conditions, Len(c) = 2
  PROVE  LET N == logand_value(S, i, c)
         IN  Extends(S, P, N) /\ AtNew(N, Fresh(S, 3))
<1> DEFINE C == conditional_operand(NewBlocks(S, 3), <<i, "left">>, c[1], Fresh(S, 1),
                                    Fresh(S, 2), TRUE)
           B == bb_ll_push(C, Fresh(S, 1))
           R == gen_operand(B, <<i, "right">>, c[2])
           D == bb_ll_push(link_bb(R, "always", Fresh(S, 3), None), Fresh(S, 2))
           E == quad_new(D, "mov", <<i, "right">>, "always")
           N == bb_ll_push(link_bb(E, "always", Fresh(S, 3), None), Fresh(S, 3))
<1>1. logand_value(S, i, c) = N
  BY DEF logand_value, LogicalAndBlocks
<1>2. c[1] \in Operands /\ c[2] \in Operands /\ "always" \in CodesOrNot
      /\ "mov" \in Operations
  BY ChainParts DEF CodesOrNot, Operations
<1>3. <<i, "left">> \in Places /\ <<i, "right">> \in Places
  BY PlaceOf
<1> HIDE DEF C
<1>4. B = bb_ll_push(C, Fresh(S, 1))
  OBVIOUS
<1> HIDE DEF B
<1>5. ASSUME NEW Q, GraphOK(B, Q) PROVE Good(B, Q, R)
  BY <1>2, <1>3, <1>5, OperandOK
<1> HIDE DEF R
<1>6. D = bb_ll_push(link_bb(R, "always", Fresh(S, 3), None), Fresh(S, 2))
  OBVIOUS
<1> HIDE DEF D
<1>7. ASSUME NEW Q, GraphOK(D, Q) PROVE Good(D, Q, E)
  BY <1>2, <1>3, <1>7, QuadNew DEF Good
<1> HIDE DEF E
<1>8. N = bb_ll_push(link_bb(E, "always", Fresh(S, 3), None), Fresh(S, 3))
  OBVIOUS
<1> HIDE DEF N
<1>9. C = conditional_operand(NewBlocks(S, 3), <<i, "left">>, c[1], Fresh(S, 1),
                              Fresh(S, 2), TRUE)
  BY DEF C
<1>10. Extends(S, P, N) /\ AtNew(N, Fresh(S, 3))
  BY <1>2, <1>3, <1>4, <1>5, <1>6, <1>7, <1>8, <1>9, AndBlocks
<1> QED
  BY <1>1, <1>10

(* l && r for a condition code *)
LEMMA AndConditionOK ==
  ASSUME NEW S, NEW P, GraphOK(S, P), NEW i \in Nat, NEW c \in Conditions, Len(c) = 2,
         NEW garbage \in UninitializedCC
  PROVE  LET N == logand_condition(S, i, c, garbage)
         IN  Extends(S, P, N) /\ AtNew(N, Fresh(S, 3)) /\ logand_cc(c, garbage) \in Relations
<1> DEFINE at == <<i, "right">>
           cc == operand_cc(c[2], garbage)
           C == conditional_operand(NewBlocks(S, 3), <<i, "left">>, c[1], Fresh(S, 1),
                                    Fresh(S, 2), TRUE)
           B == bb_ll_push(C, Fresh(S, 1))
           A == gen_operand(B, at, c[2])
           R == compare_zero(A, at, cc)
           D == bb_ll_push(link_bb(R, "always", Fresh(S, 3), None), Fresh(S, 2))
           E == quad_new(D, "cmpk", at, logand_cc(c, garbage))
           N == bb_ll_push(link_bb(E, "always", Fresh(S, 3), None), Fresh(S, 3))
<1>1. logand_condition(S, i, c, garbage) = N
  BY DEF logand_condition, LogicalAndBlocks
<1>2. c[1] \in Operands /\ c[2] \in Operands /\ "cmpk" \in Operations
  BY ChainParts DEF Operations
<1>3. <<i, "left">> \in Places /\ at \in Places /\ garbage \in CodesOrNot
  BY PlaceOf, CFGraphAssumption
<1>4. cc \in CodesOrNot
  <2>1. cc = "always" \/ cc = garbage \/ cc = c[2]
    BY DEF operand_cc
  <2> QED
    BY <1>2, <1>3 DEF operand_cc, Operands, CodesOrNot
<1>5. logand_cc(c, garbage) = nonzero(cc)
  BY DEF logand_cc
<1> HIDE DEF C, cc, at
<1>6. B = bb_ll_push(C, Fresh(S, 1))
  OBVIOUS
<1> HIDE DEF B
<1>7. logand_cc(c, garbage) \in Relations
  BY <1>4, <1>5 DEF nonzero, CodesOrNot, Relations
<1>8. ASSUME NEW Q, GraphOK(B, Q) PROVE Good(B, Q, R)
  <2>1. "always" \in CodesOrNot
    BY DEF CodesOrNot
  <2>2. Good(B, Q, A)
    BY <1>2, <1>3, <1>8, <2>1, OperandOK
  <2> HIDE DEF A
  <2>3. Good(A, Q, R)
    BY <1>3, <1>4, <2>2, CompareZeroOK DEF Good
  <2> HIDE DEF R
  <2> QED
    BY <1>8, <2>2, <2>3, GoodTransitive
<1> HIDE DEF R, A
<1>9. D = bb_ll_push(link_bb(R, "always", Fresh(S, 3), None), Fresh(S, 2))
  OBVIOUS
<1> HIDE DEF D
<1>10. ASSUME NEW Q, GraphOK(D, Q) PROVE Good(D, Q, E)
  <2>1. logand_cc(c, garbage) \in CodesOrNot /\ logand_cc(c, garbage) # "always"
    BY <1>7 DEF CodesOrNot, Relations
  <2> QED
    BY <1>2, <1>3, <1>10, <2>1, QuadNew DEF Good
<1> HIDE DEF E
<1>11. N = bb_ll_push(link_bb(E, "always", Fresh(S, 3), None), Fresh(S, 3))
  OBVIOUS
<1> HIDE DEF N
<1>12. C = conditional_operand(NewBlocks(S, 3), <<i, "left">>, c[1], Fresh(S, 1),
                               Fresh(S, 2), TRUE)
  BY DEF C
<1>13. Extends(S, P, N) /\ AtNew(N, Fresh(S, 3))
  BY <1>2, <1>3, <1>6, <1>8, <1>9, <1>10, <1>11, <1>12, AndBlocks
<1> QED
  BY <1>1, <1>7, <1>13

(* generate_conditional_quads *)
LEMMA ConditionOK ==
  ASSUME NEW S, NEW P, GraphOK(S, P), NEW i \in Nat, NEW c \in Conditions,
         NEW t \in Targets(S, P), NEW f \in Targets(S, P), NEW invert \in BOOLEAN,
         NEW garbage \in UninitializedCC
  PROVE  Extends(S, P, generate_conditional_quads(S, i, c, t, f, invert, garbage))
<1>1. CASE Len(c) = 1
  <2>1. c[1] \in Operands /\ <<i, "left">> \in Places
    BY ChainParts, PlaceOf
  <2>2. Good(S, P, conditional_operand(S, <<i, "left">>, c[1], t, f, invert))
    BY <2>1, ConditionalOperandOK
  <2> QED
    BY <1>1, <2>2 DEF generate_conditional_quads, Good, Extends, Emits
<1>2. CASE Len(c) # 1
  <2> DEFINE A == logand_condition(S, i, c, garbage)
             cc == logand_cc(c, garbage)
             N == branch(A, cc, t, f, invert)
  <2>1. Len(c) = 2
    BY <1>2, ChainParts
  <2>2. Extends(S, P, A) /\ cc \in Relations
    BY <2>1, AndConditionOK
  <2>3. generate_conditional_quads(S, i, c, t, f, invert, garbage) = N
    BY <1>2 DEF generate_conditional_quads
  <2> HIDE DEF A, cc
  <2>4. t \in Targets(A, P) /\ f \in Targets(A, P)
    BY <2>2 DEF Extends, Works, Targets
  <2>5. Good(A, P, N)
    BY <2>2, <2>4, BranchOK DEF Extends
  <2> HIDE DEF N
  <2>6. Works(S, N) /\ GraphOK(N, P)
    BY <2>2, <2>5, WorksTransitive DEF Extends, Good, Emits, GraphOK
  <2> QED
    BY <2>3, <2>6 DEF Extends
<1> QED
  BY <1>1, <1>2

-----------------------------------------------------------------------------
(* The active calls *)

Loops    == {"while", "do", "for"}
Calls    == [kind : {"if", "then", "else"} \cup Loops, open : Nat, body : Nat, cond : Nat,
             alt : Nat, next : Nat, prev : LoopType]
TokenKinds == {"expr", "and", "sizeof", "break", "continue", "return", "if", "else", "endif",
               "while", "endwhile", "do", "enddo", "for", "endfor", "end"}
Tokens   == [kind : TokenKinds, chain : Conditions \cup {<<>>},
             parts : SUBSET {"init", "update", "else"}, open : Nat]

(* The blocks that the rest of a call is going to place *)
Pending(f) ==
  CASE f.kind \in {"if", "else"}  -> {f.next}
    [] f.kind = "then"            -> {f.alt, f.next}
    [] f.kind \in {"while", "do"} -> {f.cond, f.next}
    [] f.kind = "for"             -> {f.alt, f.cond, f.next}
Distinct(f) ==
  /\ f.kind = "then" => f.alt # f.next
  /\ f.kind \in Loops => f.cond # f.next
  /\ f.kind = "for" => f.alt # f.cond /\ f.alt # f.next
AllPending(w) == UNION {Pending(w[i]) : i \in 1..Len(w)}

(* Loop l is one of the first n calls of w, or there is none. *)
LoopAmong(w, n, l) ==
  \/ l = NoLoop
  \/ \E i \in 1..n : w[i].kind \in Loops /\ l.brk \in Pending(w[i]) /\ l.cont \in Pending(w[i])

FrameOK(w, i, L, p) ==
  /\ Distinct(w[i]) /\ w[i].open \in 1..Len(p)
  /\ w[i].kind = "while" => p[w[i].open].chain \in Conditions
  /\ w[i].kind \in Loops => w[i].body \in L /\ LoopAmong(w, i - 1, w[i].prev)
WorkOK(w, L, l, p) ==
  /\ w \in Seq(Calls)
  /\ \A i \in 1..Len(w) : FrameOK(w, i, L, p)
  /\ \A i, j \in 1..Len(w) : i # j => Pending(w[i]) \cap Pending(w[j]) = {}
  /\ LoopAmong(w, Len(w), l)

(* One token later *)
OneMore(p, q) ==
  Len(q) = Len(p) + 1 /\ Len(p) \in Nat /\ \A i \in 1..Len(p) : q[i] = p[i]

LEMMA LoopAmongMore ==
  ASSUME NEW w, NEW v, NEW n \in Nat, NEW m \in Nat, n <= m, NEW l, LoopAmong(w, n, l),
         \A i \in 1..n : v[i] = w[i]
  PROVE  LoopAmong(v, m, l)
<1>1. CASE l = NoLoop
  BY <1>1 DEF LoopAmong
<1>2. CASE l # NoLoop
  <2>1. PICK i \in 1..n :
          w[i].kind \in Loops /\ l.brk \in Pending(w[i]) /\ l.cont \in Pending(w[i])
    BY <1>2 DEF LoopAmong
  <2>2. i \in 1..m /\ v[i] = w[i]
    BY <2>1
  <2> QED
    BY <2>1, <2>2 DEF LoopAmong
<1> QED
  BY <1>1, <1>2

(* A call that is still active *)
LEMMA FrameKept ==
  ASSUME NEW w, NEW v, NEW i, i \in 1..Len(w), Len(w) \in Nat,
         NEW L, NEW L2, NEW p, NEW q, FrameOK(w, i, L, p), OneMore(p, q),
         L \subseteq L2, \A j \in 1..i : v[j] = w[j]
  PROVE  FrameOK(v, i, L2, q)
<1>1. i \in 1..i /\ i - 1 \in Nat /\ \A j \in 1..i - 1 : j \in 1..i
  OBVIOUS
<1>2. v[i] = w[i]
  BY <1>1
<1>3. w[i].open \in 1..Len(q) /\ q[w[i].open] = p[w[i].open]
  BY DEF FrameOK, OneMore
<1>4. ASSUME w[i].kind \in Loops PROVE LoopAmong(v, i - 1, w[i].prev)
  BY <1>1, <1>4, LoopAmongMore DEF FrameOK
<1> QED
  BY <1>2, <1>3, <1>4 DEF FrameOK

(* No call is entered or left. *)
LEMMA SameCalls ==
  ASSUME NEW w, NEW L, NEW L2, NEW l, NEW l2, NEW p, NEW q,
         WorkOK(w, L, l, p), OneMore(p, q),
         L \subseteq L2, l2 = l
  PROVE  WorkOK(w, L2, l2, q)
<1>1. w \in Seq(Calls) /\ Len(w) \in Nat
  BY LenProperties DEF WorkOK
<1>2. \A i \in 1..Len(w) : FrameOK(w, i, L2, q)
  BY <1>1, FrameKept DEF WorkOK
<1> QED
  BY <1>2 DEF WorkOK

(* A call is entered. *)
Entering(w, f, L2, l, l2, q) ==
  /\ Distinct(f) /\ f.open = Len(q) /\ (f.kind = "while" => q[Len(q)].chain \in Conditions)
  /\ Pending(f) \cap AllPending(w) = {}
  /\ f.kind \in Loops => /\ f.body \in L2 /\ f.prev = l
                          /\ l2.brk \in Pending(f) /\ l2.cont \in Pending(f)
  /\ f.kind \notin Loops => l2 = l

LEMMA EnterCall ==
  ASSUME NEW w, NEW L, NEW L2, NEW l, NEW l2, NEW p, NEW q,
         WorkOK(w, L, l, p), OneMore(p, q),
         L \subseteq L2, NEW f \in Calls, Entering(w, f, L2, l, l2, q)
  PROVE  /\ WorkOK(Append(w, f), L2, l2, q)
         /\ AllPending(Append(w, f)) = AllPending(w) \cup Pending(f)
<1> DEFINE n == Len(w)
           v == Append(w, f)
<1>1. /\ n \in Nat /\ w \in Seq(Calls) /\ v \in Seq(Calls) /\ Len(v) = n + 1 /\ v[n + 1] = f
      /\ \A i \in 1..n : v[i] = w[i]
  BY AppendProperties, LenProperties DEF WorkOK
<1>2. n = Len(w)
  OBVIOUS
<1> HIDE DEF n, v
<1>0. /\ Distinct(f) /\ f.open = Len(q) /\ (f.kind = "while" => q[Len(q)].chain \in Conditions)
      /\ Pending(f) \cap AllPending(w) = {}
      /\ f.kind \in Loops => /\ f.body \in L2 /\ f.prev = l
                              /\ l2.brk \in Pending(f) /\ l2.cont \in Pending(f)
      /\ f.kind \notin Loops => l2 = l
  BY DEF Entering
<1>3. /\ \A i \in 1..n + 1 : i = n + 1 \/ i \in 1..n
      /\ \A i \in 1..n : i \in 1..n + 1 /\ (\A j \in 1..i : j \in 1..n)
      /\ n + 1 \in 1..n + 1 /\ (n + 1) - 1 = n /\ n <= n /\ n <= n + 1
  BY <1>1
<1>4. AllPending(v) = AllPending(w) \cup Pending(f)
  <2>1. ASSUME NEW x \in AllPending(v) PROVE x \in AllPending(w) \cup Pending(f)
    <3>1. PICK i \in 1..n + 1 : x \in Pending(v[i])
      BY <1>1, <2>1 DEF AllPending
    <3>2. CASE i = n + 1
      BY <1>1, <3>1, <3>2
    <3>3. CASE i \in 1..n
      BY <1>1, <1>2, <3>1, <3>3 DEF AllPending
    <3> QED
      BY <1>3, <3>2, <3>3
  <2>2. ASSUME NEW x \in AllPending(w) PROVE x \in AllPending(v)
    <3>1. PICK i \in 1..n : x \in Pending(w[i])
      BY <1>2, <2>2 DEF AllPending
    <3> QED
      BY <1>1, <1>3, <3>1 DEF AllPending
  <2>3. Pending(f) \subseteq AllPending(v)
    BY <1>1, <1>3 DEF AllPending
  <2> QED
    BY <2>1, <2>2, <2>3
<1>5. \A i \in 1..n : FrameOK(v, i, L2, q)
  <2> TAKE i \in 1..n
  <2>1. FrameOK(w, i, L, p) /\ \A j \in 1..i : v[j] = w[j]
    BY <1>1, <1>2, <1>3 DEF WorkOK
  <2> QED
    BY <1>1, <1>2, <2>1, FrameKept
<1>6. FrameOK(v, n + 1, L2, q)
  <2>1. f.open \in 1..Len(q)
    BY <1>0 DEF OneMore
  <2>2. ASSUME f.kind \in Loops PROVE LoopAmong(v, (n + 1) - 1, f.prev)
    <3>1. LoopAmong(w, n, l)
      BY <1>2 DEF WorkOK
    <3>2. LoopAmong(v, n, l)
      BY <1>1, <1>3, <3>1, LoopAmongMore
    <3> QED
      BY <1>0, <1>3, <2>2, <3>2
  <2> QED
    BY <1>0, <1>1, <2>1, <2>2 DEF FrameOK
<1>7. ASSUME NEW i \in 1..n + 1, NEW j \in 1..n + 1, i # j
      PROVE  Pending(v[i]) \cap Pending(v[j]) = {}
  <2>1. ASSUME NEW k \in 1..n PROVE Pending(v[k]) \cap Pending(f) = {}
    BY <1>0, <1>1, <1>2 DEF AllPending
  <2>2. CASE i = n + 1
    BY <1>1, <1>3, <1>7, <2>1, <2>2
  <2>3. CASE j = n + 1
    BY <1>1, <1>3, <1>7, <2>1, <2>3
  <2>4. CASE i \in 1..n /\ j \in 1..n
    BY <1>1, <1>2, <1>7, <2>4 DEF WorkOK
  <2> QED
    BY <1>3, <2>2, <2>3, <2>4
<1>8. LoopAmong(v, n + 1, l2)
  <2>1. CASE f.kind \in Loops
    BY <1>0, <1>1, <1>3, <2>1 DEF LoopAmong
  <2>2. CASE f.kind \notin Loops
    <3>1. LoopAmong(w, n, l)
      BY <1>2 DEF WorkOK
    <3>2. LoopAmong(v, n + 1, l)
      BY <1>1, <1>3, <3>1, LoopAmongMore
    <3> QED
      BY <1>0, <2>2, <3>2
  <2> QED
    BY <2>1, <2>2
<1>9. WorkOK(v, L2, l2, q)
  BY <1>1, <1>3, <1>5, <1>6, <1>7, <1>8 DEF WorkOK
<1> QED
  BY <1>4, <1>9 DEF v

LEMMA PendingParts ==
  ASSUME NEW f \in Calls
  PROVE  /\ f.kind \in {"if", "else"}  => Pending(f) = {f.next}
         /\ f.kind = "then"            => Pending(f) = {f.alt, f.next}
         /\ f.kind \in {"while", "do"} => Pending(f) = {f.cond, f.next}
         /\ f.kind = "for"             => Pending(f) = {f.alt, f.cond, f.next}
         /\ f.next \in Pending(f) /\ f.prev \in LoopType
         /\ f.kind \in {"if", "then", "else", "while", "do", "for"}
<1>1. f.kind \in {"if", "then", "else", "while", "do", "for"} /\ f.prev \in LoopType
  BY DEF Calls, Loops
<1>2. CASE f.kind \in {"if", "else"}
  BY <1>1, <1>2 DEF Pending
<1>3. CASE f.kind = "then"
  BY <1>1, <1>3 DEF Pending
<1>4. CASE f.kind \in {"while", "do"}
  BY <1>1, <1>4 DEF Pending
<1>5. CASE f.kind = "for"
  BY <1>1, <1>5 DEF Pending
<1> QED
  BY <1>1, <1>2, <1>3, <1>4, <1>5

(* The innermost call *)
LEMMA InnermostCall ==
  ASSUME NEW w, NEW L, NEW l, NEW p, WorkOK(w, L, l, p), w # <<>>
  PROVE  /\ Len(w) \in Nat /\ Len(w) # 0 /\ Len(w) \in 1..Len(w) /\ w \in Seq(Calls)
         /\ Last(w) = w[Len(w)] /\ Last(w) \in Calls /\ FrameOK(w, Len(w), L, p)
         /\ Pending(Last(w)) \subseteq AllPending(w)
<1>1. w \in Seq(Calls) /\ Len(w) \in Nat /\ Len(w) # 0 /\ Last(w) = w[Len(w)]
  BY LenProperties, EmptySeq DEF WorkOK, Last
<1>2. Len(w) \in 1..Len(w)
  BY <1>1
<1>3. w[Len(w)] \in Calls
  BY <1>1, <1>2, ElementOfSeq
<1>4. Pending(w[Len(w)]) \subseteq AllPending(w)
  BY <1>2 DEF AllPending
<1> QED
  BY <1>1, <1>2, <1>3, <1>4 DEF WorkOK

(* The innermost call returns. *)
LEMMA LeaveCall ==
  ASSUME NEW w, NEW L, NEW L2, NEW l, NEW l2, NEW p, NEW q,
         WorkOK(w, L, l, p), w # <<>>, OneMore(p, q),
         L \subseteq L2,
         l2 = IF Last(w).kind \in Loops THEN Last(w).prev ELSE l
  PROVE  /\ WorkOK(Front(w), L2, l2, q)
         /\ AllPending(Front(w)) = AllPending(w) \ Pending(Last(w))
<1> DEFINE n == Len(w)
           v == Front(w)
           f == Last(w)
<1>1. n \in Nat /\ n # 0 /\ w \in Seq(Calls) /\ f = w[n] /\ n \in 1..n /\ f \in Calls
      /\ FrameOK(w, n, L, p)
  BY InnermostCall
<1>2. v \in Seq(Calls) /\ Len(v) = n - 1 /\ \A i \in 1..n - 1 : v[i] = w[i]
  <2>1. n = Len(w)
    OBVIOUS
  <2> HIDE DEF n
  <2> QED
    BY ONLY <1>1, <2>1 DEF Front
<1>3. n = Len(w) /\ f = Last(w)
  OBVIOUS
<1> HIDE DEF n, v, f
<1>4. /\ \A i \in 1..n : i = n \/ i \in 1..n - 1
      /\ \A i \in 1..n - 1 : i \in 1..n /\ i # n /\ (\A j \in 1..i : j \in 1..n - 1)
      /\ n - 1 \in Nat /\ n - 1 <= n - 1
  BY <1>1
<1>5. ASSUME NEW i \in 1..n - 1 PROVE Pending(w[i]) \cap Pending(f) = {}
  BY <1>1, <1>3, <1>4 DEF WorkOK
<1>6. AllPending(v) = AllPending(w) \ Pending(f)
  <2>1. ASSUME NEW x \in AllPending(v) PROVE x \in AllPending(w) \ Pending(f)
    <3>1. PICK i \in 1..n - 1 : x \in Pending(v[i])
      BY <1>2, <2>1 DEF AllPending
    <3>2. x \in Pending(w[i]) /\ i \in 1..Len(w)
      BY <1>2, <1>3, <1>4, <3>1
    <3>3. x \in AllPending(w)
      BY <3>2 DEF AllPending
    <3> QED
      BY <1>5, <3>2, <3>3
  <2>2. ASSUME NEW x \in AllPending(w), x \notin Pending(f) PROVE x \in AllPending(v)
    <3>1. PICK i \in 1..n : x \in Pending(w[i])
      BY <1>3 DEF AllPending
    <3>2. i \in 1..n - 1
      BY <1>1, <1>4, <2>2, <3>1
    <3> QED
      BY <1>2, <3>1, <3>2 DEF AllPending
  <2> QED
    BY <2>1, <2>2
<1>7. \A i \in 1..n - 1 : FrameOK(v, i, L2, q)
  <2> TAKE i \in 1..n - 1
  <2>1. FrameOK(w, i, L, p) /\ i \in 1..Len(w) /\ \A j \in 1..i : v[j] = w[j]
    BY <1>2, <1>3, <1>4 DEF WorkOK
  <2> QED
    BY <1>1, <1>3, <2>1, FrameKept
<1>8. \A i, j \in 1..n - 1 : i # j => Pending(v[i]) \cap Pending(v[j]) = {}
  BY <1>2, <1>3, <1>4 DEF WorkOK
<1>9. LoopAmong(v, n - 1, l2)
  <2>1. CASE f.kind \in Loops
    <3>1. LoopAmong(w, n - 1, f.prev)
      BY <1>1, <2>1 DEF FrameOK
    <3>2. LoopAmong(v, n - 1, f.prev)
      BY <1>2, <1>4, <3>1, LoopAmongMore
    <3> QED
      BY <1>3, <2>1, <3>2
  <2>2. CASE f.kind \notin Loops
    <3>1. LoopAmong(w, n, l) /\ l2 = l
      BY <1>3, <2>2 DEF WorkOK
    <3>2. CASE l = NoLoop
      BY <3>1, <3>2 DEF LoopAmong
    <3>3. CASE l # NoLoop
      <4>1. PICK i \in 1..n : /\ w[i].kind \in Loops /\ l.brk \in Pending(w[i])
                              /\ l.cont \in Pending(w[i])
        BY <3>1, <3>3 DEF LoopAmong
      <4>2. i \in 1..n - 1
        BY <1>1, <1>4, <2>2, <4>1
      <4> QED
        BY <1>2, <3>1, <4>1, <4>2 DEF LoopAmong
    <3> QED
      BY <3>2, <3>3
  <2> QED
    BY <2>1, <2>2
<1>10. WorkOK(v, L2, l2, q)
  BY <1>2, <1>7, <1>8, <1>9 DEF WorkOK
<1> QED
  BY <1>6, <1>10 DEF v, f

(* The innermost IF goes on with its else. *)
Turns(w, v) == v = [w EXCEPT ![Len(w)].kind = "else"]

LEMMA TurnCall ==
  ASSUME NEW w, NEW L, NEW L2, NEW l, NEW l2, NEW p, NEW q,
         WorkOK(w, L, l, p), w # <<>>, OneMore(p, q),
         L \subseteq L2, Last(w).kind = "then", l2 = l,
         NEW v, Turns(w, v)
  PROVE  /\ WorkOK(v, L2, l2, q) /\ AllPending(v) = AllPending(w) \ {Last(w).alt}
         /\ Last(w).alt \in AllPending(w) /\ Last(w).next \in AllPending(v)
<1> DEFINE n == Len(w)
           f == Last(w)
           e == [f EXCEPT !.kind = "else"]
<1>1. n \in Nat /\ n # 0 /\ w \in Seq(Calls) /\ f = w[n] /\ n \in 1..n /\ f \in Calls
      /\ FrameOK(w, n, L, p) /\ Pending(f) \subseteq AllPending(w)
  BY InnermostCall
<1>2. /\ e \in Calls /\ e.kind = "else" /\ e.next = f.next /\ e.open = f.open
  BY <1>1 DEF Calls
<1>3. v = [w EXCEPT ![n] = e]
  BY <1>1 DEF Turns
<1>4. n = Len(w) /\ f = Last(w)
  OBVIOUS
<1> HIDE DEF n, e, f
<1>5. v \in Seq(Calls) /\ Len(v) = n /\ \A i \in 1..n : v[i] = IF i = n THEN e ELSE w[i]
  BY <1>1, <1>2, <1>3, <1>4, ExceptSeq
<1>6. Pending(f) = {f.alt, f.next} /\ Pending(e) = {f.next} /\ f.alt # f.next
  BY <1>1, <1>2, <1>4, PendingParts DEF FrameOK, Distinct
<1>7. ASSUME NEW i \in 1..n, i # n PROVE Pending(w[i]) \cap Pending(f) = {} /\ v[i] = w[i]
  BY <1>1, <1>4, <1>5, <1>7 DEF WorkOK
<1>8. AllPending(v) = AllPending(w) \ {f.alt}
  <2>1. ASSUME NEW x \in AllPending(v) PROVE x \in AllPending(w) \ {f.alt}
    <3>1. PICK i \in 1..n : x \in Pending(v[i])
      BY <1>5, <2>1 DEF AllPending
    <3>2. CASE i = n
      BY <1>1, <1>5, <1>6, <3>1, <3>2
    <3>3. CASE i # n
      <4>1. x \in Pending(w[i]) /\ x \notin Pending(f)
        BY <1>7, <3>1, <3>3
      <4>2. x \in AllPending(w)
        BY <1>4, <4>1 DEF AllPending
      <4> QED
        BY <1>6, <4>1, <4>2
    <3> QED
      BY <3>2, <3>3
  <2>2. ASSUME NEW x \in AllPending(w), x # f.alt PROVE x \in AllPending(v)
    <3>1. PICK i \in 1..n : x \in Pending(w[i])
      BY <1>4 DEF AllPending
    <3>2. CASE i = n
      <4>1. x \in Pending(v[n])
        BY <1>1, <1>5, <1>6, <2>2, <3>1, <3>2
      <4> QED
        BY <1>1, <1>5, <4>1 DEF AllPending
    <3>3. CASE i # n
      BY <1>5, <1>7, <3>1, <3>3 DEF AllPending
    <3> QED
      BY <3>2, <3>3
  <2> QED
    BY <2>1, <2>2
<1>9. \A i \in 1..n : FrameOK(v, i, L2, q)
  <2> TAKE i \in 1..n
  <2>1. CASE i # n
    <3>1. FrameOK(w, i, L, p) /\ \A j \in 1..i : v[j] = w[j]
      <4>1. \A j \in 1..i : j \in 1..n /\ j # n
        BY <1>1, <2>1
      <4> QED
        BY <1>4, <1>7, <4>1 DEF WorkOK
    <3> QED
      BY <1>1, <1>4, <3>1, FrameKept
  <2>2. CASE i = n
    <3>1. f.open \in 1..Len(q)
      BY <1>1 DEF FrameOK, OneMore
    <3> QED
      BY <1>1, <1>2, <1>5, <2>2, <3>1 DEF FrameOK, Distinct, Loops
  <2> QED
    BY <2>1, <2>2
<1>10. ASSUME NEW i \in 1..n, NEW j \in 1..n, i # j
       PROVE  Pending(v[i]) \cap Pending(v[j]) = {}
  <2>1. CASE i = n
    BY <1>1, <1>5, <1>6, <1>7, <1>10, <2>1
  <2>2. CASE j = n
    BY <1>1, <1>5, <1>6, <1>7, <1>10, <2>2
  <2>3. CASE i # n /\ j # n
    BY <1>4, <1>7, <1>10, <2>3 DEF WorkOK
  <2> QED
    BY <2>1, <2>2, <2>3
<1>11. LoopAmong(v, n, l2)
  <2>1. LoopAmong(w, n, l)
    BY <1>4 DEF WorkOK
  <2>2. CASE l = NoLoop
    BY <2>2 DEF LoopAmong
  <2>3. CASE l # NoLoop
    <3>1. PICK i \in 1..n : /\ w[i].kind \in Loops /\ l.brk \in Pending(w[i])
                            /\ l.cont \in Pending(w[i])
      BY <2>1, <2>3 DEF LoopAmong
    <3>2. i # n
      BY <1>1, <1>4, <3>1 DEF Loops
    <3> QED
      BY <1>7, <3>1, <3>2 DEF LoopAmong
  <2> QED
    BY <2>2, <2>3
<1>12. WorkOK(v, L2, l2, q)
  BY <1>5, <1>9, <1>10, <1>11 DEF WorkOK
<1>13. f.alt \in AllPending(w) /\ f.next \in AllPending(v)
  BY <1>1, <1>6, <1>8
<1> QED
  BY <1>4, <1>8, <1>12, <1>13

-----------------------------------------------------------------------------
(* Where control may go.  The blocks that sizeof makes are placed as well, *)
(* but nothing leads to them: L is a set of placed blocks that control     *)
(* stays in.  All of them but the current one have been ended, and lead on. *)

LiveOK(S, P, L) ==
  /\ L \subseteq OnList(S) /\ S.cur \in L /\ S.ll[Len(S.ll)] \in L /\ Len(S.ll) # 0
  /\ \A b \in L :
       /\ S.bbs[b].def \in {None} \cup P \cup L /\ S.bbs[b].cond \in {None} \cup P \cup L
       /\ S.bbs[b].finalized => S.bbs[b].def # None
       /\ b # S.cur => S.bbs[b].finalized
Ended(S) == S.bbs[S.cur].finalized

(* The quads have changed, the ends of the blocks have not. *)
SameEnds(S, N) ==
  /\ N.cur = S.cur /\ N.ll = S.ll
  /\ \A b \in 1..Len(S.bbs) :
       /\ N.bbs[b].def = S.bbs[b].def /\ N.bbs[b].cond = S.bbs[b].cond
       /\ N.bbs[b].finalized = S.bbs[b].finalized

LEMMA LiveIsPlaced ==
  ASSUME NEW S, NEW P, GraphOK(S, P), NEW L, LiveOK(S, P, L)
  PROVE  /\ L \subseteq 1..Len(S.bbs) /\ L \subseteq OnList(S)
         /\ P \cup L \subseteq Targets(S, P) /\ None \notin P \cup L
         /\ S.cur \in 1..Len(S.bbs)
<1>1. L \subseteq 1..Len(S.bbs) /\ P \subseteq 1..Len(S.bbs)
  BY DEF LiveOK, OnList, GraphOK, ListOK, PendingOK
<1>2. None \notin 1..Len(S.bbs)
  BY DEF None
<1> QED
  BY <1>1, <1>2 DEF LiveOK, Targets, GraphOK

LEMMA LiveStays ==
  ASSUME NEW S, NEW P, GraphOK(S, P), NEW L, LiveOK(S, P, L), NEW N, SameEnds(S, N)
  PROVE  LiveOK(N, P, L)
<1>1. L \subseteq 1..Len(S.bbs)
  BY LiveIsPlaced
<1> QED
  BY <1>1 DEF LiveOK, SameEnds, OnList

LEMMA QuadEnds ==
  ASSUME NEW S, NEW P, GraphOK(S, P), NEW op, NEW at, NEW cc, NEW N,
         N = quad_new(S, op, at, cc)
  PROVE  SameEnds(S, N)
<1>1. S \in Graph /\ S.cur \in 1..Len(S.bbs) /\ S.bbs \in Seq(Block)
      /\ S.bbs[S.cur] \in Block
  BY GraphFields DEF GraphOK
<1>2. CASE Current(S).finalized
  BY <1>2 DEF quad_new, SameEnds
<1>3. CASE ~Current(S).finalized
  <2> DEFINE b == S.bbs[S.cur]
             e == [b EXCEPT !.code = <<[op |-> op, at |-> at, cc |-> cc]>> \o b.code]
             s == [S.bbs EXCEPT ![S.cur] = e]
  <2>1. N = [S EXCEPT !.bbs = s]
    BY <1>3 DEF quad_new
  <2>2. e.def = b.def /\ e.cond = b.cond /\ e.finalized = b.finalized
    BY <1>1 DEF Block
  <2> HIDE DEF e
  <2>3. \A i \in 1..Len(S.bbs) : s[i] = IF i = S.cur THEN e ELSE S.bbs[i]
    BY <1>1
  <2> HIDE DEF s
  <2>4. N.bbs = s /\ N.cur = S.cur /\ N.ll = S.ll
    BY <1>1, <2>1 DEF Graph
  <2> QED
    BY <2>2, <2>3, <2>4 DEF SameEnds
<1> QED
  BY <1>2, <1>3

LEMMA OperandEnds ==
  ASSUME NEW S, NEW P, GraphOK(S, P), NEW at, NEW o
  PROVE  SameEnds(S, gen_operand(S, at, o))
  BY QuadEnds DEF gen_operand

LEMMA CompareZeroEnds ==
  ASSUME NEW S, NEW P, GraphOK(S, P), NEW at, NEW cc
  PROVE  SameEnds(S, compare_zero(S, at, cc))
<1>1. SameEnds(S, quad_new(S, "cmpz", at, "always"))
  BY QuadEnds
<1>2. SameEnds(S, S)
  BY DEF SameEnds
<1> QED
  BY <1>1, <1>2 DEF compare_zero

(* The current block ends: it leads on to live or pending blocks. *)
LEMMA LinkLive ==
  ASSUME NEW S, NEW P, GraphOK(S, P), NEW L, LiveOK(S, P, L), NEW cc,
         NEW d \in P \cup L, NEW c \in {None} \cup P \cup L,
         NEW N, N = link_bb(S, cc, d, c)
  PROVE  LiveOK(N, P, L) /\ Ended(N)
<1>1. S \in Graph /\ S.cur \in 1..Len(S.bbs) /\ S.bbs \in Seq(Block)
  BY GraphFields DEF GraphOK
<1>2. L \subseteq 1..Len(S.bbs) /\ None \notin P \cup L
  BY LiveIsPlaced
<1>3. CASE Current(S).finalized
  BY <1>3 DEF link_bb, Ended, Current
<1>4. CASE ~Current(S).finalized
  <2> DEFINE e == [code |-> Reverse(S.bbs[S.cur].code), cc |-> cc, def |-> d, cond |-> c,
                   finalized |-> TRUE]
             s == [S.bbs EXCEPT ![S.cur] = e]
  <2>1. N = [S EXCEPT !.bbs = s]
    BY <1>4 DEF link_bb
  <2>2. e.def = d /\ e.cond = c /\ e.finalized
    OBVIOUS
  <2> HIDE DEF e
  <2>3. \A i \in 1..Len(S.bbs) : s[i] = IF i = S.cur THEN e ELSE S.bbs[i]
    BY <1>1
  <2> HIDE DEF s
  <2>4. N.bbs = s /\ N.cur = S.cur /\ N.ll = S.ll
    BY <1>1, <2>1 DEF Graph
  <2>5. Ended(N)
    BY <1>1, <2>2, <2>3, <2>4 DEF Ended
  <2>6. ASSUME NEW b \in L
        PROVE  /\ N.bbs[b].def \in {None} \cup P \cup L
               /\ N.bbs[b].cond \in {None} \cup P \cup L
               /\ N.bbs[b].finalized => N.bbs[b].def # None
               /\ b # N.cur => N.bbs[b].finalized
    <3>1. CASE b = S.cur
      BY <1>1, <1>2, <2>2, <2>3, <2>4, <3>1
    <3>2. CASE b # S.cur
      <4>1. N.bbs[b] = S.bbs[b]
        BY <1>2, <2>3, <2>4, <3>2
      <4> QED
        BY <2>4, <4>1 DEF LiveOK
    <3> QED
      BY <3>1, <3>2
  <2>7. L \subseteq OnList(N) /\ N.cur \in L /\ N.ll[Len(N.ll)] \in L /\ Len(N.ll) # 0
    BY <2>4 DEF LiveOK, OnList
  <2> QED
    BY <2>5, <2>6, <2>7 DEF LiveOK
<1> QED
  BY <1>3, <1>4

(* The next block is placed, after the current one has been ended. *)
LEMMA PushLive ==
  ASSUME NEW S, NEW P, GraphOK(S, P), NEW L, LiveOK(S, P, L), Ended(S), NEW bb \in P,
         NEW N, N = bb_ll_push(S, bb)
  PROVE  LiveOK(N, P \ {bb}, L \cup {bb})
<1>1. /\ Places1(S, P, bb, N) /\ N.bbs = S.bbs
  BY PushOK
<1>2. N.cur = bb /\ N.bbs[bb] = NewBlock /\ OnList(N) = OnList(S) \cup {bb} /\ Len(N.ll) # 0
  BY <1>1 DEF Places1, AtNew
<1>3. N.ll[Len(N.ll)] = S.ll[Len(S.ll)]
  BY PushBottom DEF SameBottom, LiveOK
<1>4. ASSUME NEW b \in L \cup {bb}
      PROVE  /\ N.bbs[b].def \in {None} \cup (P \ {bb}) \cup (L \cup {bb})
             /\ N.bbs[b].cond \in {None} \cup (P \ {bb}) \cup (L \cup {bb})
             /\ N.bbs[b].finalized => N.bbs[b].def # None
             /\ b # N.cur => N.bbs[b].finalized
  <2>1. CASE b = bb
    BY <1>2, <2>1, NewBlockType
  <2>2. CASE b \in L
    <3>1. S.bbs[b].finalized
      BY <2>2 DEF LiveOK, Ended
    <3> QED
      BY <1>1, <2>2, <3>1 DEF LiveOK
  <2> QED
    BY <2>1, <2>2
<1> QED
  BY <1>2, <1>3, <1>4 DEF LiveOK

LEMMA NewBlocksLive ==
  ASSUME NEW S, NEW P, GraphOK(S, P), NEW L, LiveOK(S, P, L), NEW n \in Nat, NEW Q,
         Q \subseteq Len(S.bbs) + 1..Len(S.bbs) + n, NEW N, N = NewBlocks(S, n)
  PROVE  LiveOK(N, P \cup Q, L)
<1>1. Allocates(S, P, n, Q, N)
  BY NewBlocksOK
<1>2. L \subseteq 1..Len(S.bbs)
  BY LiveIsPlaced
<1>3. N.cur = S.cur /\ N.ll = S.ll /\ \A b \in L : N.bbs[b] = S.bbs[b]
  BY <1>1, <1>2 DEF Emits, Allocates
<1> QED
  BY <1>3 DEF LiveOK, OnList

(* link_bb, then bb_ll_push *)
LEMMA LinkPushLive ==
  ASSUME NEW S, NEW P, GraphOK(S, P), NEW L, LiveOK(S, P, L), NEW cc \in CodesOrNot,
         NEW d \in P \cup L, NEW bb \in P,
         NEW N, N = bb_ll_push(link_bb(S, cc, d, None), bb)
  PROVE  LiveOK(N, P \ {bb}, L \cup {bb})
<1> DEFINE K == link_bb(S, cc, d, None)
<1>1. d \in Targets(S, P) /\ None \in Targets(S, P)
  BY LiveIsPlaced DEF Targets
<1>2. GraphOK(K, P)
  BY <1>1, LinkBB
<1>3. LiveOK(K, P, L) /\ Ended(K)
  BY LinkLive
<1>4. N = bb_ll_push(K, bb)
  OBVIOUS
<1> HIDE DEF K
<1> QED
  BY <1>2, <1>3, <1>4, PushLive

LEMMA BranchLive ==
  ASSUME NEW S, NEW P, GraphOK(S, P), NEW L, LiveOK(S, P, L), NEW cc,
         NEW t \in P \cup L, NEW f \in P \cup L, NEW invert \in BOOLEAN
  PROVE  LET N == branch(S, cc, t, f, invert) IN LiveOK(N, P, L) /\ Ended(N)
<1>1. t \in {None} \cup P \cup L /\ f \in {None} \cup P \cup L
  OBVIOUS
<1>2. CASE invert
  BY <1>1, <1>2, LinkLive DEF branch
<1>3. CASE ~invert
  BY <1>1, <1>3, LinkLive DEF branch
<1> QED
  BY <1>2, <1>3

LEMMA ConditionalOperandLive ==
  ASSUME NEW S, NEW P, GraphOK(S, P), NEW L, LiveOK(S, P, L),
         NEW at \in Places, NEW o \in Operands,
         NEW t \in P \cup L, NEW f \in P \cup L, NEW invert \in BOOLEAN,
         NEW N, N = conditional_operand(S, at, o, t, f, invert)
  PROVE  LiveOK(N, P, L) /\ Ended(N)
<1> DEFINE cc == operand_cc(o, "always")
           A == gen_operand(S, at, o)
           B == compare_zero(A, at, cc)
<1>1. "always" \in CodesOrNot
  BY DEF CodesOrNot
<1>2. Good(S, P, A) /\ cc \in CodesOrNot
  BY <1>1, OperandOK
<1>3. LiveOK(A, P, L)
  BY OperandEnds, LiveStays
<1>4. N = branch(B, nonzero(cc), t, f, invert)
  BY DEF conditional_operand
<1> HIDE DEF A, cc
<1>5. Good(A, P, B)
  BY <1>2, CompareZeroOK DEF Good
<1>6. LiveOK(B, P, L)
  BY <1>2, <1>3, CompareZeroEnds, LiveStays DEF Good
<1> HIDE DEF B
<1> QED
  BY <1>4, <1>5, <1>6, BranchLive DEF Good

(* The blocks of AndBlocks, when control comes to them *)
LEMMA AndLive ==
  ASSUME NEW S, NEW P, GraphOK(S, P), NEW L, LiveOK(S, P, L),
         NEW at \in Places, NEW o \in Operands,
         NEW C, C = conditional_operand(NewBlocks(S, 3), at, o, Fresh(S, 1), Fresh(S, 2), TRUE),
         NEW B, B = bb_ll_push(C, Fresh(S, 1)),
         NEW R, GraphOK(B, P \cup {Fresh(S, 2), Fresh(S, 3)})
                  => Good(B, P \cup {Fresh(S, 2), Fresh(S, 3)}, R) /\ SameEnds(B, R),
         NEW D, D = bb_ll_push(link_bb(R, "always", Fresh(S, 3), None), Fresh(S, 2)),
         NEW E, GraphOK(D, P \cup {Fresh(S, 3)})
                  => Good(D, P \cup {Fresh(S, 3)}, E) /\ SameEnds(D, E),
         NEW N, N = bb_ll_push(link_bb(E, "always", Fresh(S, 3), None), Fresh(S, 3))
  PROVE  LiveOK(N, P, L \cup {Fresh(S, 1), Fresh(S, 2), Fresh(S, 3)})
<1> DEFINE a == Fresh(S, 1)
           b == Fresh(S, 2)
           c == Fresh(S, 3)
           F == NewBlocks(S, 3)
           W == {a, b, c}
           Q == P \cup W
<1>1. /\ a # b /\ a # c /\ b # c /\ {a, b, c} \cap P = {}
      /\ W \subseteq Len(S.bbs) + 1..Len(S.bbs) + 3 /\ 3 \in Nat
  BY ThreeFresh
<1>2. C = conditional_operand(F, at, o, a, b, TRUE) /\ B = bb_ll_push(C, a)
      /\ D = bb_ll_push(link_bb(R, "always", c, None), b)
      /\ N = bb_ll_push(link_bb(E, "always", c, None), c)
  OBVIOUS
<1>3. /\ GraphOK(B, P \cup {b, c}) => Good(B, P \cup {b, c}, R) /\ SameEnds(B, R)
      /\ GraphOK(D, P \cup {c}) => Good(D, P \cup {c}, E) /\ SameEnds(D, E)
  OBVIOUS
<1>4. /\ Q \ {a} = P \cup {b, c} /\ (P \cup {b, c}) \ {b} = P \cup {c}
      /\ (P \cup {c}) \ {c} = P
      /\ L \cup {Fresh(S, 1), Fresh(S, 2), Fresh(S, 3)}
           = ((L \cup {a}) \cup {b}) \cup {c}
  BY <1>1
<1>5. a \in Q /\ b \in Q /\ b \in P \cup {b, c} /\ c \in P \cup {b, c} /\ c \in P \cup {c}
  OBVIOUS
<1>6. "always" \in CodesOrNot
  BY DEF CodesOrNot
<1>7. Q = P \cup W
  OBVIOUS
<1> HIDE DEF W, Q
<1>8. GraphOK(F, Q) /\ LiveOK(F, Q, L)
  BY <1>1, <1>7, NewBlocksOK, NewBlocksLive DEF Allocates
<1> HIDE DEF a, b, c, F
<1>9. GraphOK(C, Q) /\ LiveOK(C, Q, L) /\ Ended(C)
  <2>1. a \in Targets(F, Q) /\ b \in Targets(F, Q)
    BY <1>5 DEF Targets
  <2>2. Good(F, Q, C)
    BY <1>2, <1>8, <2>1, ConditionalOperandOK
  <2>3. a \in Q \cup L /\ b \in Q \cup L
    BY <1>5
  <2>4. LiveOK(C, Q, L) /\ Ended(C)
    <3>1. TRUE \in BOOLEAN /\ C = conditional_operand(F, at, o, a, b, TRUE)
      BY <1>2
    <3> QED
      BY <1>8, <2>3, <3>1, ConditionalOperandLive
  <2> QED
    BY <2>2, <2>4 DEF Good
<1>10. GraphOK(B, P \cup {b, c}) /\ LiveOK(B, P \cup {b, c}, L \cup {a})
  <2>1. Places1(C, Q, a, B)
    BY <1>2, <1>5, <1>9, PushOK
  <2>2. LiveOK(B, Q \ {a}, L \cup {a})
    BY <1>2, <1>5, <1>9, PushLive
  <2> QED
    BY <1>4, <2>1, <2>2 DEF Places1
<1>11. GraphOK(R, P \cup {b, c}) /\ LiveOK(R, P \cup {b, c}, L \cup {a})
  BY <1>3, <1>10, LiveStays DEF Good
<1>12. GraphOK(D, P \cup {c}) /\ LiveOK(D, P \cup {c}, (L \cup {a}) \cup {b})
  <2>1. c \in Targets(R, P \cup {b, c}) /\ c \in (P \cup {b, c}) \cup (L \cup {a})
    BY <1>5 DEF Targets
  <2>2. Places1(R, P \cup {b, c}, b, D)
    BY <1>2, <1>5, <1>6, <1>11, <2>1, LinkPush
  <2>3. LiveOK(D, (P \cup {b, c}) \ {b}, (L \cup {a}) \cup {b})
    BY <1>2, <1>5, <1>6, <1>11, <2>1, LinkPushLive
  <2> QED
    BY <1>4, <2>2, <2>3 DEF Places1
<1>13. GraphOK(E, P \cup {c}) /\ LiveOK(E, P \cup {c}, (L \cup {a}) \cup {b})
  BY <1>3, <1>12, LiveStays DEF Good
<1>14. LiveOK(N, (P \cup {c}) \ {c}, ((L \cup {a}) \cup {b}) \cup {c})
  <2>1. c \in (P \cup {c}) \cup ((L \cup {a}) \cup {b})
    BY <1>5
  <2> QED
    BY <1>2, <1>5, <1>6, <1>13, <2>1, LinkPushLive
<1> QED
  BY <1>4, <1>14

(* The live blocks have become more. *)
StaysLive(N, P, L) == \E L2 : L \subseteq L2 /\ LiveOK(N, P, L2)

LEMMA AndValueLive ==
  ASSUME NEW S, NEW P, GraphOK(S, P), NEW L, LiveOK(S, P, L),
         NEW i \in Nat, NEW c \in Conditions, Len(c) = 2
  PROVE  StaysLive(logand_value(S, i, c), P, L)
<1> DEFINE C == conditional_operand(NewBlocks(S, 3), <<i, "left">>, c[1], Fresh(S, 1),
                                    Fresh(S, 2), TRUE)
           B == bb_ll_push(C, Fresh(S, 1))
           R == gen_operand(B, <<i, "right">>, c[2])
           D == bb_ll_push(link_bb(R, "always", Fresh(S, 3), None), Fresh(S, 2))
           E == quad_new(D, "mov", <<i, "right">>, "always")
           N == bb_ll_push(link_bb(E, "always", Fresh(S, 3), None), Fresh(S, 3))
           L2 == L \cup {Fresh(S, 1), Fresh(S, 2), Fresh(S, 3)}
<1>1. logand_value(S, i, c) = N
  BY DEF logand_value, LogicalAndBlocks
<1>2. c[1] \in Operands /\ c[2] \in Operands /\ "always" \in CodesOrNot
      /\ "mov" \in Operations
  BY ChainParts DEF CodesOrNot, Operations
<1>3. <<i, "left">> \in Places /\ <<i, "right">> \in Places
  BY PlaceOf
<1>4. C = conditional_operand(NewBlocks(S, 3), <<i, "left">>, c[1], Fresh(S, 1),
                              Fresh(S, 2), TRUE)
  OBVIOUS
<1> HIDE DEF C
<1>5. B = bb_ll_push(C, Fresh(S, 1))
  OBVIOUS
<1> HIDE DEF B
<1>6. ASSUME NEW Q, GraphOK(B, Q) PROVE Good(B, Q, R) /\ SameEnds(B, R)
  BY <1>2, <1>3, <1>6, OperandOK, OperandEnds
<1> HIDE DEF R
<1>7. D = bb_ll_push(link_bb(R, "always", Fresh(S, 3), None), Fresh(S, 2))
  OBVIOUS
<1> HIDE DEF D
<1>8. ASSUME NEW Q, GraphOK(D, Q) PROVE Good(D, Q, E) /\ SameEnds(D, E)
  BY <1>2, <1>3, <1>8, QuadNew, QuadEnds DEF Good
<1> HIDE DEF E
<1>9. N = bb_ll_push(link_bb(E, "always", Fresh(S, 3), None), Fresh(S, 3))
  OBVIOUS
<1> HIDE DEF N
<1>10. LiveOK(N, P, L2)
  BY <1>2, <1>3, <1>4, <1>5, <1>6, <1>7, <1>8, <1>9, AndLive
<1> QED
  BY <1>1, <1>10 DEF StaysLive

LEMMA AndConditionLive ==
  ASSUME NEW S, NEW P, GraphOK(S, P), NEW L, LiveOK(S, P, L),
         NEW i \in Nat, NEW c \in Conditions, Len(c) = 2, NEW garbage \in UninitializedCC
  PROVE  StaysLive(logand_condition(S, i, c, garbage), P, L)
<1> DEFINE at == <<i, "right">>
           cc == operand_cc(c[2], garbage)
           C == conditional_operand(NewBlocks(S, 3), <<i, "left">>, c[1], Fresh(S, 1),
                                    Fresh(S, 2), TRUE)
           B == bb_ll_push(C, Fresh(S, 1))
           A == gen_operand(B, at, c[2])
           R == compare_zero(A, at, cc)
           D == bb_ll_push(link_bb(R, "always", Fresh(S, 3), None), Fresh(S, 2))
           E == quad_new(D, "cmpk", at, logand_cc(c, garbage))
           N == bb_ll_push(link_bb(E, "always", Fresh(S, 3), None), Fresh(S, 3))
           L2 == L \cup {Fresh(S, 1), Fresh(S, 2), Fresh(S, 3)}
<1>1. logand_condition(S, i, c, garbage) = N
  BY DEF logand_condition, LogicalAndBlocks
<1>2. c[1] \in Operands /\ c[2] \in Operands /\ "cmpk" \in Operations
  BY ChainParts DEF Operations
<1>3. <<i, "left">> \in Places /\ at \in Places /\ garbage \in CodesOrNot
  BY PlaceOf, CFGraphAssumption
<1>4. cc \in CodesOrNot
  BY <1>2, <1>3 DEF operand_cc, Operands, CodesOrNot
<1>5. logand_cc(c, garbage) \in CodesOrNot /\ logand_cc(c, garbage) # "always"
  BY AndConditionOK DEF CodesOrNot, Relations
<1>6. C = conditional_operand(NewBlocks(S, 3), <<i, "left">>, c[1], Fresh(S, 1),
                              Fresh(S, 2), TRUE)
  OBVIOUS
<1> HIDE DEF C, cc, at
<1>7. B = bb_ll_push(C, Fresh(S, 1))
  OBVIOUS
<1> HIDE DEF B
<1>8. ASSUME NEW Q, GraphOK(B, Q) PROVE Good(B, Q, R) /\ SameEnds(B, R)
  <2>1. "always" \in CodesOrNot
    BY DEF CodesOrNot
  <2>2. Good(B, Q, A) /\ SameEnds(B, A)
    BY <1>2, <1>3, <1>8, <2>1, OperandOK, OperandEnds
  <2> HIDE DEF A
  <2>3. Good(A, Q, R) /\ SameEnds(A, R)
    BY <1>3, <1>4, <2>2, CompareZeroOK, CompareZeroEnds DEF Good
  <2> HIDE DEF R
  <2>4. Len(B.bbs) <= Len(A.bbs) /\ Len(B.bbs) \in Nat /\ Len(A.bbs) \in Nat
    BY <1>8, <2>2, GraphFields DEF Good, Emits, Works, GraphOK
  <2>5. SameEnds(B, R)
    <3>1. \A b \in 1..Len(B.bbs) : b \in 1..Len(A.bbs)
      BY <2>4
    <3> QED
      BY <2>2, <2>3, <3>1 DEF SameEnds
  <2> QED
    BY <1>8, <2>2, <2>3, <2>5, GoodTransitive
<1> HIDE DEF R, A
<1>9. D = bb_ll_push(link_bb(R, "always", Fresh(S, 3), None), Fresh(S, 2))
  OBVIOUS
<1> HIDE DEF D
<1>10. ASSUME NEW Q, GraphOK(D, Q) PROVE Good(D, Q, E) /\ SameEnds(D, E)
  BY <1>2, <1>3, <1>5, <1>10, QuadNew, QuadEnds DEF Good
<1> HIDE DEF E
<1>11. N = bb_ll_push(link_bb(E, "always", Fresh(S, 3), None), Fresh(S, 3))
  OBVIOUS
<1> HIDE DEF N
<1>12. LiveOK(N, P, L2)
  BY <1>2, <1>3, <1>6, <1>7, <1>8, <1>9, <1>10, <1>11, AndLive
<1> QED
  BY <1>1, <1>12 DEF StaysLive

LEMMA ConditionLive ==
  ASSUME NEW S, NEW P, GraphOK(S, P), NEW L, LiveOK(S, P, L),
         NEW i \in Nat, NEW c \in Conditions, NEW t \in P \cup L, NEW f \in P \cup L,
         NEW invert \in BOOLEAN, NEW garbage \in UninitializedCC,
         NEW N, N = generate_conditional_quads(S, i, c, t, f, invert, garbage)
  PROVE  StaysLive(N, P, L) /\ Ended(N)
<1>1. CASE Len(c) = 1
  <2>1. c[1] \in Operands /\ <<i, "left">> \in Places
    BY ChainParts, PlaceOf
  <2>2. N = conditional_operand(S, <<i, "left">>, c[1], t, f, invert)
    BY <1>1 DEF generate_conditional_quads
  <2>3. LiveOK(N, P, L) /\ Ended(N)
    BY <2>1, <2>2, ConditionalOperandLive
  <2> QED
    BY <2>3 DEF StaysLive
<1>2. CASE Len(c) # 1
  <2> DEFINE A == logand_condition(S, i, c, garbage)
             cc == logand_cc(c, garbage)
  <2>1. Len(c) = 2
    BY <1>2, ChainParts
  <2>2. GraphOK(A, P)
    BY <2>1, AndConditionOK DEF Extends
  <2>3. StaysLive(A, P, L)
    BY <2>1, AndConditionLive
  <2>4. N = branch(A, cc, t, f, invert)
    BY <1>2 DEF generate_conditional_quads
  <2> HIDE DEF A, cc
  <2>5. PICK L2 : L \subseteq L2 /\ LiveOK(A, P, L2)
    BY <2>3 DEF StaysLive
  <2>6. t \in P \cup L2 /\ f \in P \cup L2
    BY <2>5
  <2>7. LiveOK(N, P, L2) /\ Ended(N)
    BY <2>2, <2>4, <2>5, <2>6, BranchLive
  <2> QED
    BY <2>5, <2>7 DEF StaysLive
<1> QED
  BY <1>1, <1>2

LEMMA LoopSetLive ==
  ASSUME NEW S, NEW P, GraphOK(S, P), NEW L, LiveOK(S, P, L), NEW l \in LoopType,
         NEW N, SetsLoop(S, l, N)
  PROVE  LiveOK(N, P, L) /\ (Ended(S) => Ended(N))
  BY LoopSet DEF LiveOK, OnList, Ended

-----------------------------------------------------------------------------
(* The invariant of the generation.  The block placed last is the current  *)
(* one, or the empty one that sizeof has placed; and outside of a loop the *)
(* current block has not been ended.                                       *)
HeadOK(S) == Len(S.ll) # 0 /\ (S.ll[1] = S.cur \/ S.bbs[S.ll[1]] = NewBlock)
OpenOK(S) == S.loop = NoLoop => ~Ended(S)

MidOK(S, w, p) ==
  /\ GraphOK(S, AllPending(w)) /\ HeadOK(S) /\ OpenOK(S)
  /\ \E L : LiveOK(S, AllPending(w), L) /\ WorkOK(w, L, S.loop, p)

(* A step of the generation *)
Proceeds(S, p, N, w, q) == MidOK(N, w, q) /\ Keeps(S, N) /\ q \in Seq(Tokens)

LEMMA ReadOne ==
  ASSUME NEW p \in Seq(Tokens), NEW t \in Tokens, NEW q, q = Append(p, t)
  PROVE  /\ q \in Seq(Tokens) /\ OneMore(p, q) /\ q[Len(q)] = t
         /\ Len(p) \in Nat /\ Len(q) = Len(p) + 1
<1>1. Len(p) \in Nat /\ Len(p) + 1 \in Nat
  OBVIOUS
<1>2. /\ Append(p, t) \in Seq(Tokens) /\ Len(Append(p, t)) = Len(p) + 1
      /\ \A i \in 1..Len(p) : Append(p, t)[i] = p[i]
      /\ Append(p, t)[Len(p) + 1] = t
  BY AppendProperties
<1> QED
  BY <1>1, <1>2 DEF OneMore

LEMMA AtNewOpen ==
  ASSUME NEW N, NEW bb, AtNew(N, bb)
  PROVE  HeadOK(N) /\ OpenOK(N)
  BY NewBlockType DEF AtNew, HeadOK, OpenOK, Ended

(* Only quads have been put in the current block. *)
LEMMA QuadsMid ==
  ASSUME NEW S, NEW w, NEW p, NEW q, NEW N, MidOK(S, w, p), OneMore(p, q),
         Good(S, AllPending(w), N), OpenOK(N),
         \A L : LiveOK(S, AllPending(w), L) => LiveOK(N, AllPending(w), L)
  PROVE  MidOK(N, w, q) /\ Keeps(S, N)
<1> DEFINE P == AllPending(w)
<1>1. GraphOK(S, P) /\ GraphOK(N, P) /\ Works(S, N) /\ N.cur = S.cur /\ N.ll = S.ll
      /\ N.loop = S.loop
  BY DEF MidOK, Good, Emits, Works
<1>2. HeadOK(N)
  <2>1. Len(S.ll) # 0 /\ Len(S.ll) \in Nat
    BY <1>1, GraphFields DEF MidOK, HeadOK, GraphOK
  <2>2. 1 \in 1..Len(S.ll)
    BY <2>1
  <2>3. S.ll[1] \in 1..Len(S.bbs)
    BY <1>1, <2>2 DEF GraphOK, ListOK
  <2>4. S.ll[1] # S.cur => N.bbs[S.ll[1]] = S.bbs[S.ll[1]]
    BY <1>1, <2>3 DEF Works
  <2> QED
    BY <1>1, <2>1, <2>4 DEF MidOK, HeadOK
<1>3. PICK L : LiveOK(S, P, L) /\ WorkOK(w, L, S.loop, p)
  BY DEF MidOK
<1>4. LiveOK(N, P, L)
  BY <1>3
<1>5. WorkOK(w, L, N.loop, q)
  BY <1>1, <1>3, SameCalls
<1>6. Keeps(S, N)
  BY <1>1, WorksKeeps
<1> QED
  BY <1>1, <1>2, <1>4, <1>5, <1>6 DEF MidOK

(* A statement has been left at a block that has just been placed. *)
LEMMA StatementMid ==
  ASSUME NEW S, NEW w, NEW p, NEW q, NEW N, MidOK(S, w, p), OneMore(p, q),
         Extends(S, AllPending(w), N), NEW bb, AtNew(N, bb),
         \A L : LiveOK(S, AllPending(w), L) => StaysLive(N, AllPending(w), L)
  PROVE  MidOK(N, w, q) /\ Keeps(S, N)
<1> DEFINE P == AllPending(w)
<1>1. GraphOK(N, P) /\ Works(S, N) /\ N.loop = S.loop
  BY DEF Extends, Works
<1>2. PICK L : LiveOK(S, P, L) /\ WorkOK(w, L, S.loop, p)
  BY DEF MidOK
<1>3. PICK L2 : L \subseteq L2 /\ LiveOK(N, P, L2)
  BY <1>2 DEF StaysLive
<1>4. WorkOK(w, L2, N.loop, q)
  BY <1>1, <1>2, <1>3, SameCalls
<1> QED
  BY <1>1, <1>3, <1>4, AtNewOpen, WorksKeeps DEF MidOK

LEMMA QuadStep ==
  ASSUME NEW S, NEW w, NEW p, NEW q, NEW op \in Operations, op # "cmpk", NEW at \in Places,
         MidOK(S, w, p), OneMore(p, q), NEW N, N = quad_new(S, op, at, "always")
  PROVE  MidOK(N, w, q) /\ Keeps(S, N)
<1> DEFINE P == AllPending(w)
<1>1. GraphOK(S, P) /\ "always" \in CodesOrNot /\ OpenOK(S)
  BY DEF MidOK, CodesOrNot
<1>2. Good(S, P, N) /\ N.bbs[N.cur].finalized = S.bbs[S.cur].finalized
  BY <1>1, QuadNew DEF Good
<1>3. SameEnds(S, N)
  BY <1>1, QuadEnds
<1>4. \A L : LiveOK(S, P, L) => LiveOK(N, P, L)
  BY <1>1, <1>3, LiveStays
<1>5. OpenOK(N)
  <2>1. N.loop = S.loop
    BY <1>2 DEF Good, Emits, Works
  <2> QED
    BY <1>1, <1>2, <2>1 DEF OpenOK, Ended
<1> QED
  BY <1>2, <1>4, <1>5, QuadsMid

LEMMA JumpStep ==
  ASSUME NEW S, NEW w, NEW p, NEW q, MidOK(S, w, p), OneMore(p, q), S.loop # NoLoop,
         NEW d \in {S.loop.brk, S.loop.cont}, NEW N, N = link_bb(S, "always", d, None)
  PROVE  MidOK(N, w, q) /\ Keeps(S, N)
<1> DEFINE P == AllPending(w)
<1>1. GraphOK(S, P) /\ "always" \in CodesOrNot
  BY DEF MidOK, CodesOrNot
<1>2. d \in P
  <2>1. PICK L : LiveOK(S, P, L) /\ WorkOK(w, L, S.loop, p)
    BY DEF MidOK
  <2>2. LoopAmong(w, Len(w), S.loop)
    BY <2>1 DEF WorkOK
  <2>3. PICK i \in 1..Len(w) : S.loop.brk \in Pending(w[i]) /\ S.loop.cont \in Pending(w[i])
    BY <2>2 DEF LoopAmong
  <2>4. d \in Pending(w[i])
    BY <2>3
  <2> QED
    BY <2>4 DEF AllPending
<1>3. d \in Targets(S, P) /\ None \in Targets(S, P)
  BY <1>2 DEF Targets
<1>4. Good(S, P, N)
  BY <1>1, <1>3, LinkBB DEF Good
<1>5. \A L : LiveOK(S, P, L) => LiveOK(N, P, L)
  <2> TAKE L
  <2> HAVE LiveOK(S, P, L)
  <2>1. d \in P \cup L /\ None \in {None} \cup P \cup L
    BY <1>2
  <2> QED
    BY <1>1, <2>1, LinkLive
<1>6. OpenOK(N)
  BY <1>4 DEF OpenOK, Good, Emits, Works
<1> QED
  BY <1>4, <1>5, <1>6, QuadsMid

LEMMA AndStep ==
  ASSUME NEW S, NEW w, NEW p, NEW q, MidOK(S, w, p), OneMore(p, q), NEW i \in Nat,
         NEW c \in Conditions, Len(c) = 2, NEW N, N = logand_value(S, i, c)
  PROVE  MidOK(N, w, q) /\ Keeps(S, N)
<1>1. GraphOK(S, AllPending(w))
  BY DEF MidOK
<1>2. Extends(S, AllPending(w), N) /\ AtNew(N, Fresh(S, 3))
  BY <1>1, AndValueOK
<1>3. \A L : LiveOK(S, AllPending(w), L) => StaysLive(N, AllPending(w), L)
  BY <1>1, AndValueLive
<1> QED
  BY <1>2, <1>3, StatementMid

(* Another block becomes the current one. *)
Moves(S, k, N) == N = [S EXCEPT !.cur = k]

LEMMA CurrentSet ==
  ASSUME NEW S, NEW P, GraphOK(S, P), NEW k \in 1..Len(S.bbs), k \notin P,
         NEW N, Moves(S, k, N)
  PROVE  /\ GraphOK(N, P) /\ N.bbs = S.bbs /\ N.ll = S.ll /\ N.loop = S.loop /\ N.cur = k
<1>1. S \in Graph /\ k \in Nat
  BY GraphFields DEF GraphOK
<1>2. N \in Graph /\ N.bbs = S.bbs /\ N.ll = S.ll /\ N.loop = S.loop /\ N.cur = k
  BY <1>1 DEF Graph, Moves
<1>3. OnList(N) = OnList(S)
  BY <1>2 DEF OnList
<1>4. \A i \in 1..Len(N.bbs) : BlockOK(N.bbs[i], N, P)
  BY <1>2, <1>3 DEF GraphOK, BlockOK, Targets
<1>5. ListOK(N, P) /\ PendingOK(N, P)
  BY <1>2 DEF GraphOK, ListOK, PendingOK
<1> QED
  BY <1>2, <1>4, <1>5 DEF GraphOK

LEMMA SizeofStep ==
  ASSUME NEW S, NEW w, NEW p, NEW q, MidOK(S, w, p), OneMore(p, q), NEW i \in Nat,
         NEW c \in Conditions, Len(c) = 2, NEW N,
         NEW D, D = [NewBlocks(S, 1) EXCEPT !.cur = Fresh(S, 1)],
         N = [logand_value(D, i, c) EXCEPT !.cur = S.cur]
  PROVE  MidOK(N, w, q) /\ Keeps(S, N)
<1> DEFINE P == AllPending(w)
           F == NewBlocks(S, 1)
           A == logand_value(D, i, c)
           m == Len(S.bbs)
<1>1. GraphOK(S, P) /\ OpenOK(S) /\ m \in Nat /\ S.cur \in 1..m /\ S.cur \notin P
      /\ P \subseteq 1..m
  BY GraphFields DEF MidOK, GraphOK, PendingOK
<1> HIDE DEF P
<1>2. GraphOK(F, P) /\ Emits(S, F) /\ Len(F.bbs) = m + 1 /\ \A b \in 1..m : F.bbs[b] = S.bbs[b]
  <2>1. 1 \in Nat /\ {} \subseteq m + 1..m + 1 /\ P \cup {} = P
    OBVIOUS
  <2>2. Allocates(S, P, 1, {}, F)
    BY <1>1, <2>1, NewBlocksOK
  <2> QED
    BY <2>1, <2>2 DEF Allocates
<1>3. F.ll = S.ll /\ F.loop = S.loop
  BY <1>2 DEF Emits, Works
<1> DEFINE k == Fresh(S, 1)
<1>4. k = m + 1 /\ k \in 1..Len(F.bbs) /\ k \notin P /\ Moves(F, k, D)
  <2>1. k = m + 1 /\ Moves(F, k, D)
    BY DEF Fresh, Moves
  <2>2. m + 1 \in 1..m + 1 /\ m + 1 \notin 1..m
    BY <1>1
  <2> QED
    BY <1>1, <1>2, <2>1, <2>2
<1> HIDE DEF k, F
<1>5. GraphOK(D, P) /\ D.bbs = F.bbs /\ D.ll = S.ll /\ D.loop = S.loop /\ D.cur = k
  <2>1. GraphOK(F, P) /\ k \in 1..Len(F.bbs) /\ k \notin P /\ Moves(F, k, D)
    BY <1>2, <1>4
  <2>2. GraphOK(D, P) /\ D.bbs = F.bbs /\ D.ll = F.ll /\ D.loop = F.loop /\ D.cur = k
    BY ONLY <2>1, CurrentSet
  <2> QED
    BY <1>3, <2>2
<1>6. Extends(D, P, A) /\ AtNew(A, Fresh(D, 3))
  BY <1>5, AndValueOK
<1>7. Moves(A, S.cur, N)
  BY DEF Moves
<1> HIDE DEF A, m
<1>8. /\ GraphOK(A, P) /\ A.loop = S.loop /\ m + 1 <= Len(A.bbs) /\ OnList(D) \subseteq OnList(A)
      /\ SameBottom(D, A) /\ \A b \in 1..m + 1 : b # k => A.bbs[b] = D.bbs[b]
  BY <1>2, <1>5, <1>6 DEF Extends, Works
<1>9. \A b \in 1..m : b \in 1..m + 1 /\ b # k /\ A.bbs[b] = S.bbs[b]
  <2> TAKE b \in 1..m
  <2>1. b \in 1..m + 1 /\ b # m + 1
    BY <1>1
  <2> QED
    BY <1>2, <1>4, <1>5, <1>8, <2>1
<1>10. S.cur \in 1..Len(A.bbs) /\ m <= Len(A.bbs)
  <2>1. Len(A.bbs) \in Nat
    BY <1>8, GraphFields DEF GraphOK
  <2> QED
    BY <1>1, <1>8, <2>1
<1>11. GraphOK(N, P) /\ N.bbs = A.bbs /\ N.ll = A.ll /\ N.loop = S.loop /\ N.cur = S.cur
  <2>1. GraphOK(A, P) /\ S.cur \in 1..Len(A.bbs) /\ S.cur \notin P /\ Moves(A, S.cur, N)
    BY <1>1, <1>7, <1>8, <1>10
  <2>2. GraphOK(N, P) /\ N.bbs = A.bbs /\ N.ll = A.ll /\ N.loop = A.loop /\ N.cur = S.cur
    BY ONLY <2>1, CurrentSet
  <2> QED
    BY <1>8, <2>2
<1>12. OnList(S) \subseteq OnList(N)
  <2>1. OnList(D) = OnList(S) /\ OnList(N) = OnList(A)
    BY <1>5, <1>11 DEF OnList
  <2> QED
    BY <1>8, <2>1
<1>13. HeadOK(N)
  BY <1>6, <1>11 DEF AtNew, HeadOK
<1>14. OpenOK(N)
  BY <1>1, <1>9, <1>11 DEF OpenOK, Ended
<1>15. PICK L : LiveOK(S, P, L) /\ WorkOK(w, L, S.loop, p)
  BY DEF MidOK, P
<1>16. LiveOK(N, P, L)
  <2>1. L \subseteq 1..m
    BY <1>1, <1>15, LiveIsPlaced DEF m
  <2>2. \A b \in L : N.bbs[b] = S.bbs[b]
    BY <1>9, <1>11, <2>1
  <2>3. Len(N.ll) # 0 /\ N.ll[Len(N.ll)] \in L
    BY <1>5, <1>8, <1>11, <1>15 DEF SameBottom, LiveOK
  <2>4. L \subseteq OnList(N)
    BY <1>12, <1>15 DEF LiveOK
  <2> QED
    BY <1>11, <1>15, <2>2, <2>3, <2>4 DEF LiveOK
<1>17. WorkOK(w, L, N.loop, q)
  BY <1>11, <1>15, SameCalls
<1>18. Keeps(S, N)
  BY <1>9, <1>10, <1>11, <1>12 DEF Keeps, m
<1> QED
  BY <1>11, <1>13, <1>14, <1>16, <1>17, <1>18 DEF MidOK, P

-----------------------------------------------------------------------------
(* Calls are entered and left at a block that has just been placed. *)
LEMMA EnteredMid ==
  ASSUME NEW S, NEW w, NEW p, NEW q, MidOK(S, w, p), OneMore(p, q), NEW f \in Calls,
         Distinct(f), f.open = Len(q), f.kind = "while" => q[Len(q)].chain \in Conditions,
         Pending(f) \cap AllPending(w) = {},
         NEW N, NEW bb, AtNew(N, bb), NEW Q, Q = AllPending(w) \cup Pending(f), GraphOK(N, Q),
         f.kind \in Loops => /\ f.body = bb /\ f.prev = S.loop
                             /\ N.loop.brk \in Pending(f) /\ N.loop.cont \in Pending(f),
         f.kind \notin Loops => N.loop = S.loop,
         \A L : LiveOK(S, AllPending(w), L) => StaysLive(N, Q, L)
  PROVE  MidOK(N, Append(w, f), q)
<1>1. PICK L : LiveOK(S, AllPending(w), L) /\ WorkOK(w, L, S.loop, p)
  BY DEF MidOK
<1>2. PICK L2 : L \subseteq L2 /\ LiveOK(N, Q, L2)
  BY <1>1 DEF StaysLive
<1>3. bb \in L2
  BY <1>2 DEF LiveOK, AtNew
<1>4. Entering(w, f, L2, S.loop, N.loop, q)
  BY <1>3 DEF Entering
<1>5. /\ WorkOK(Append(w, f), L2, N.loop, q)
      /\ AllPending(Append(w, f)) = AllPending(w) \cup Pending(f)
  <2>1. WorkOK(w, L, S.loop, p) /\ OneMore(p, q) /\ L \subseteq L2 /\ f \in Calls
    BY <1>1, <1>2
  <2> QED
    BY ONLY <1>4, <2>1, EnterCall
<1> QED
  BY <1>2, <1>5, AtNewOpen DEF MidOK

LEMMA LeftMid ==
  ASSUME NEW S, NEW w, NEW p, NEW q, MidOK(S, w, p), OneMore(p, q), w # <<>>,
         NEW N, NEW bb, AtNew(N, bb), NEW Q, Q = AllPending(w) \ Pending(Last(w)),
         GraphOK(N, Q), N.loop = IF Last(w).kind \in Loops THEN Last(w).prev ELSE S.loop,
         \A L : LiveOK(S, AllPending(w), L) /\ WorkOK(w, L, S.loop, p) => StaysLive(N, Q, L)
  PROVE  MidOK(N, Front(w), q)
<1>1. PICK L : LiveOK(S, AllPending(w), L) /\ WorkOK(w, L, S.loop, p)
  BY DEF MidOK
<1>2. PICK L2 : L \subseteq L2 /\ LiveOK(N, Q, L2)
  BY <1>1 DEF StaysLive
<1>3. /\ WorkOK(Front(w), L2, N.loop, q)
      /\ AllPending(Front(w)) = AllPending(w) \ Pending(Last(w))
  BY <1>1, <1>2, LeaveCall
<1> QED
  BY <1>2, <1>3, AtNewOpen DEF MidOK

LEMMA PendingPlaced ==
  ASSUME NEW S, NEW w, NEW p, MidOK(S, w, p)
  PROVE  /\ GraphOK(S, AllPending(w)) /\ AllPending(w) \subseteq 1..Len(S.bbs)
         /\ Len(S.bbs) \in Nat /\ S.loop \in LoopType
  BY GraphFields DEF MidOK, GraphOK, PendingOK, Graph, LoopType

IfCall(S, i, kind) ==
  [kind |-> kind, open |-> i, body |-> Fresh(S, 1), cond |-> None,
   alt |-> Fresh(S, 2), next |-> IF kind = "then" THEN Fresh(S, 3) ELSE Fresh(S, 2),
   prev |-> S.loop]
IfBlocks(kind) == IF kind = "then" THEN 3 ELSE 2

IfCallOK(f, i, m, n) ==
  /\ f \in Calls /\ Distinct(f) /\ f.kind \notin Loops /\ f.kind # "while"
  /\ f.open = i /\ f.body = m + 1 /\ f.alt = m + 2 /\ f.next \in {m + 2, m + 3}
  /\ Pending(f) = {m + 2, f.next} /\ n \in Nat
  /\ {m + 1, m + 2, f.next} \subseteq m + 1..m + n
  /\ m + 1 \notin Pending(f) /\ m + 2 # m + 1

LEMMA IfCallFields ==
  ASSUME NEW S, Len(S.bbs) \in Nat, S.loop \in LoopType, NEW i \in Nat,
         NEW kind \in {"if", "then"}
  PROVE  IfCallOK(IfCall(S, i, kind), i, Len(S.bbs), IfBlocks(kind))
<1> DEFINE f == IfCall(S, i, kind)
           m == Len(S.bbs)
           n == IfBlocks(kind)
<1>1. m \in Nat /\ Fresh(S, 1) = m + 1 /\ Fresh(S, 2) = m + 2 /\ Fresh(S, 3) = m + 3
  BY DEF Fresh
<1>2. f = [kind |-> kind, open |-> i, body |-> m + 1,
           cond |-> None, alt |-> m + 2, next |-> IF kind = "then" THEN m + 3 ELSE m + 2,
           prev |-> S.loop]
  BY <1>1 DEF IfCall
<1>3. /\ f.kind = kind /\ f.open = i /\ f.body = m + 1
      /\ f.alt = m + 2 /\ f.next = IF kind = "then" THEN m + 3 ELSE m + 2
  BY <1>2
<1>4. f \in Calls
  <2>1. m + 1 \in Nat /\ m + 2 \in Nat /\ m + 3 \in Nat /\ None \in Nat
    BY <1>1 DEF None
  <2> QED
    BY <1>2, <2>1 DEF Calls
<1>5. f.kind \notin Loops /\ f.kind # "while"
  BY <1>3 DEF Loops
<1>6. m + 2 # m + 3 /\ m + 1 # m + 2 /\ m + 1 # m + 3
  BY <1>1
<1>7. Distinct(f)
  BY <1>3, <1>5, <1>6 DEF Distinct, Loops
<1>8. Pending(f) = {m + 2, f.next} /\ f.next \in {m + 2, m + 3}
  BY <1>3, <1>4, PendingParts
<1>9. n \in Nat /\ {m + 1, m + 2, f.next} \subseteq m + 1..m + n
  <2>1. CASE kind = "then"
    <3>1. n = 3 /\ f.next = m + 3
      BY <1>3, <2>1 DEF IfBlocks
    <3> QED
      BY <1>1, <3>1
  <2>2. CASE kind # "then"
    <3>1. n = 2 /\ f.next = m + 2
      BY <1>3, <2>2 DEF IfBlocks
    <3> QED
      BY <1>1, <3>1
  <2> QED
    BY <2>1, <2>2
<1> QED
  BY <1>3, <1>4, <1>5, <1>6, <1>7, <1>8, <1>9 DEF IfCallOK

IfGraph(S, i, c, kind, garbage) ==
  LET f == IfCall(S, i, kind)
  IN  bb_ll_push(generate_conditional_quads(NewBlocks(S, IfBlocks(kind)), i, c, f.body,
                                            f.alt, TRUE, garbage),
                 f.body)

IfDone(S, w, q, c, kind, garbage, N, v) ==
  /\ kind \in {"if", "then"}
  /\ N = IfGraph(S, Len(q), c, kind, garbage) /\ v = Append(w, IfCall(S, Len(q), kind))

LEMMA IfStep ==
  ASSUME NEW S, NEW w, NEW p, NEW q, MidOK(S, w, p), OneMore(p, q),
         NEW c \in Conditions, NEW kind, NEW garbage \in UninitializedCC,
         NEW N, NEW v, IfDone(S, w, q, c, kind, garbage, N, v)
  PROVE  MidOK(N, v, q) /\ Keeps(S, N)
<1> DEFINE i == Len(q)
<1>21. /\ N = IfGraph(S, i, c, kind, garbage) /\ v = Append(w, IfCall(S, i, kind))
       /\ i = Len(q) /\ i \in Nat /\ kind \in {"if", "then"}
  BY DEF IfDone, OneMore
<1> HIDE DEF i
<1> DEFINE P == AllPending(w)
           f == IfCall(S, i, kind)
           m == Len(S.bbs)
           n == IfBlocks(kind)
           F == NewBlocks(S, n)
           C == generate_conditional_quads(F, i, c, f.body, f.alt, TRUE, garbage)
           Q == {f.body, f.alt, f.next}
<1>1. GraphOK(S, P) /\ P \subseteq 1..m /\ m \in Nat /\ S.loop \in LoopType
  BY PendingPlaced
<1> DEFINE a == f.body
           b == f.alt
<1>0. f = IfCall(S, i, kind) /\ m = Len(S.bbs) /\ n = IfBlocks(kind)
  OBVIOUS
<1>20. N = bb_ll_push(C, a)
  BY <1>21 DEF IfGraph
<1> HIDE DEF f, m, n
<1>2. /\ f \in Calls /\ Distinct(f) /\ f.kind \notin Loops /\ f.kind # "while"
      /\ f.open = i /\ f.body = m + 1 /\ f.alt = m + 2 /\ f.next \in {m + 2, m + 3}
      /\ Pending(f) = {m + 2, f.next} /\ n \in Nat
      /\ {m + 1, m + 2, f.next} \subseteq m + 1..m + n
      /\ m + 1 \notin Pending(f)
  <2>1. IfCallOK(f, i, m, n)
    BY <1>0, <1>1, <1>21, IfCallFields
  <2> QED
    BY <2>1 DEF IfCallOK
<1>3. Q \subseteq m + 1..m + n /\ Q = Pending(f) \cup {a} /\ a \notin Pending(f) /\ a \in Q /\ b \in Q
  BY <1>2
<1>4. Q \cap P = {}
  BY <1>1, <1>3
<1>5. C = generate_conditional_quads(F, i, c, a, b, TRUE, garbage) /\ N = bb_ll_push(C, a)
      /\ F = NewBlocks(S, n) /\ TRUE \in BOOLEAN
  BY <1>20
<1> HIDE DEF P, F, C, Q, a, b
<1>6. Allocates(S, P, n, Q, F)
  BY <1>1, <1>2, <1>3, <1>5, NewBlocksOK DEF m
<1>7. GraphOK(F, P \cup Q) /\ Works(S, F)
  BY <1>6 DEF Allocates, Emits
<1>8. a \in Targets(F, P \cup Q) /\ b \in Targets(F, P \cup Q)
  BY <1>3 DEF Targets
<1>9. GraphOK(C, P \cup Q) /\ Works(F, C)
  <2>1. Extends(F, P \cup Q, C)
    BY <1>5, <1>7, <1>8, <1>21, ConditionOK
  <2> QED
    BY <2>1 DEF Extends
<1>10. Places1(C, P \cup Q, a, N)
  BY <1>3, <1>5, <1>9, PushOK
<1>11. (P \cup Q) \ {a} = P \cup Pending(f) /\ Pending(f) \cap P = {}
  BY <1>3, <1>4
<1>12. GraphOK(N, P \cup Pending(f)) /\ AtNew(N, a) /\ Keeps(C, N) /\ N.loop = C.loop
  BY <1>10, <1>11 DEF Places1
<1>13. S \in Graph /\ F \in Graph /\ C \in Graph /\ N \in Graph
  BY <1>1, <1>7, <1>9, <1>12 DEF GraphOK
<1>14. Works(S, C)
  BY <1>7, <1>9, <1>13, WorksTransitive
<1>15. Keeps(S, N) /\ N.loop = S.loop
  <2>1. Keeps(S, C) /\ C.loop = S.loop
    BY <1>14, WorksKeeps DEF Works
  <2> QED
    BY <1>12, <1>13, <2>1, KeepsTransitive
<1>16. ASSUME NEW L, LiveOK(S, P, L) PROVE StaysLive(N, P \cup Pending(f), L)
  <2>1. LiveOK(F, P \cup Q, L)
    BY <1>1, <1>2, <1>3, <1>5, <1>16, NewBlocksLive DEF m
  <2>2. a \in (P \cup Q) \cup L /\ b \in (P \cup Q) \cup L
    BY <1>3
  <2>3. StaysLive(C, P \cup Q, L) /\ Ended(C)
    <3>1. GraphOK(F, P \cup Q) /\ i \in Nat /\ c \in Conditions /\ garbage \in UninitializedCC
          /\ TRUE \in BOOLEAN /\ C = generate_conditional_quads(F, i, c, a, b, TRUE, garbage)
      BY <1>5, <1>7, <1>21
    <3> QED
      BY ONLY <2>1, <2>2, <3>1, ConditionLive
  <2>4. PICK L2 : L \subseteq L2 /\ LiveOK(C, P \cup Q, L2)
    BY <2>3 DEF StaysLive
  <2>5. LiveOK(N, (P \cup Q) \ {a}, L2 \cup {a})
    BY <1>3, <1>5, <1>9, <2>3, <2>4, PushLive
  <2> QED
    BY <1>11, <2>4, <2>5 DEF StaysLive
<1>17. MidOK(N, Append(w, f), q)
  <2>1. f.open = Len(q)
    BY <1>2, <1>21
  <2> QED
    BY <2>1, <1>2, <1>11, <1>12, <1>15, <1>16, EnteredMid DEF P
<1> QED
  BY <1>0, <1>15, <1>17, <1>21

LEMMA ElseStep ==
  ASSUME NEW S, NEW w, NEW p, NEW q, MidOK(S, w, p), OneMore(p, q), w # <<>>,
         NEW f, f = Last(w), f.kind = "then",
         NEW v, Turns(w, v),
         NEW N, N = bb_ll_push(link_bb(S, "always", f.next, None), f.alt)
  PROVE  MidOK(N, v, q) /\ Keeps(S, N)
<1> DEFINE P == AllPending(w)
<1>1. GraphOK(S, P) /\ "always" \in CodesOrNot
  BY DEF MidOK, CodesOrNot
<1>2. PICK L : LiveOK(S, P, L) /\ WorkOK(w, L, S.loop, p)
  BY DEF MidOK
<1>3. f \in Calls /\ Pending(f) \subseteq P
  BY <1>2, InnermostCall
<1>4. f.alt \in P /\ f.next \in P
  BY <1>3, PendingParts
<1>5. Places1(S, P, f.alt, N)
  <2>1. f.next \in Targets(S, P)
    BY <1>4 DEF Targets
  <2> QED
    BY <1>1, <1>4, <2>1, LinkPush
<1>6. LiveOK(N, P \ {f.alt}, L \cup {f.alt})
  BY <1>1, <1>2, <1>4, LinkPushLive
<1>7. /\ GraphOK(N, P \ {f.alt}) /\ AtNew(N, f.alt) /\ Keeps(S, N) /\ N.loop = S.loop
  BY <1>5 DEF Places1
<1> DEFINE L2 == L \cup {f.alt}
<1>8. WorkOK(v, L2, N.loop, q) /\ AllPending(v) = AllPending(w) \ {Last(w).alt}
  <2>1. /\ WorkOK(w, L, S.loop, p) /\ w # <<>> /\ OneMore(p, q) /\ L \subseteq L2
        /\ Last(w).kind = "then" /\ N.loop = S.loop /\ Turns(w, v)
    BY <1>2, <1>7
  <2> HIDE DEF L2
  <2> QED
    BY ONLY <2>1, TurnCall
<1> QED
  BY <1>6, <1>7, <1>8, AtNewOpen DEF MidOK

LEMMA EndIfStep ==
  ASSUME NEW S, NEW w, NEW p, NEW q, MidOK(S, w, p), OneMore(p, q), w # <<>>,
         NEW f, f = Last(w), f.kind \in {"if", "else"},
         NEW N, N = bb_ll_push(link_bb(S, "always", f.next, None), f.next)
  PROVE  MidOK(N, Front(w), q) /\ Keeps(S, N)
<1> DEFINE P == AllPending(w)
<1>1. GraphOK(S, P) /\ "always" \in CodesOrNot
  BY DEF MidOK, CodesOrNot
<1>2. f \in Calls /\ Pending(f) \subseteq P
  BY InnermostCall DEF MidOK
<1>3. f.next \in P /\ Pending(f) = {f.next}
  BY <1>2, PendingParts
<1>4. Places1(S, P, f.next, N)
  <2>1. f.next \in Targets(S, P)
    BY <1>3 DEF Targets
  <2> QED
    BY <1>1, <1>3, <2>1, LinkPush
<1>5. /\ GraphOK(N, P \ {f.next}) /\ AtNew(N, f.next) /\ Keeps(S, N)
  BY <1>4 DEF Places1
<1>6. N.loop = IF f.kind \in Loops THEN f.prev ELSE S.loop
  BY <1>4 DEF Places1, Loops
<1>7. ASSUME NEW L, LiveOK(S, P, L) PROVE StaysLive(N, P \ {f.next}, L)
  <2>1. f.next \in P \cup L
    BY <1>3
  <2>2. LiveOK(N, P \ {f.next}, L \cup {f.next})
    BY <1>1, <1>3, <1>7, <2>1, LinkPushLive
  <2> QED
    BY <2>2 DEF StaysLive
<1>8. P \ {f.next} = AllPending(w) \ Pending(Last(w))
  BY <1>3
<1>9. MidOK(N, Front(w), q)
  BY <1>5, <1>6, <1>7, <1>8, LeftMid
<1> QED
  BY <1>5, <1>9

(* while and do: the block d that control comes to first is that of the    *)
(* condition or that of the body.                                          *)
LoopCall(kind, S, i) ==
  [kind |-> kind, open |-> i, body |-> Fresh(S, 1), cond |-> Fresh(S, 2), alt |-> None,
   next |-> Fresh(S, 3), prev |-> S.loop]

LoopDone(S, w, q, kind, N, v) ==
  LET f == LoopCall(kind, S, Len(q))
      F == [NewBlocks(S, 3) EXCEPT !.loop = [brk |-> f.next, cont |-> f.cond]]
  IN  /\ kind \in {"while", "do"} /\ (kind = "while" => q[Len(q)].chain \in Conditions)
      /\ N = bb_ll_push(link_bb(F, "always", IF kind = "while" THEN f.cond ELSE f.body, None),
                        f.body)
      /\ v = Append(w, f)

LEMMA LoopStep ==
  ASSUME NEW S, NEW w, NEW p, NEW q, MidOK(S, w, p), OneMore(p, q), NEW kind,
         NEW N, NEW v, LoopDone(S, w, q, kind, N, v)
  PROVE  MidOK(N, v, q) /\ Keeps(S, N)
<1> DEFINE i == Len(q)
           f == LoopCall(kind, S, i)
           F == [NewBlocks(S, 3) EXCEPT !.loop = [brk |-> f.next, cont |-> f.cond]]
           d == IF kind = "while" THEN f.cond ELSE f.body
<1>21. /\ N = bb_ll_push(link_bb(F, "always", d, None), f.body) /\ v = Append(w, f)
       /\ i = Len(q) /\ i \in Nat /\ kind \in {"while", "do"} /\ d \in {f.body, f.cond}
       /\ F = [NewBlocks(S, 3) EXCEPT !.loop = [brk |-> f.next, cont |-> f.cond]]
       /\ f = LoopCall(kind, S, i) /\ (kind = "while" => q[Len(q)].chain \in Conditions)
  BY DEF LoopDone, OneMore
<1> HIDE DEF i, f, F, d
<1> DEFINE P == AllPending(w)
           m == Len(S.bbs)
           E == NewBlocks(S, 3)
           Q == {f.body, f.cond, f.next}
           l == [brk |-> f.next, cont |-> f.cond]
<1>1. GraphOK(S, P) /\ P \subseteq 1..m /\ m \in Nat /\ S.loop \in LoopType
  BY PendingPlaced
<1>2. f = [kind |-> kind, open |-> i, body |-> m + 1, cond |-> m + 2, alt |-> None,
           next |-> m + 3, prev |-> S.loop]
  BY <1>21 DEF LoopCall, Fresh
<1>3. f.kind = kind /\ f.open = i /\ f.body = m + 1 /\ f.cond = m + 2 /\ f.next = m + 3
      /\ f.prev = S.loop
  BY <1>2
<1>4. f \in Calls
  <2>1. m + 1 \in Nat /\ m + 2 \in Nat /\ m + 3 \in Nat /\ None \in Nat
    BY <1>1 DEF None
  <2> QED
    BY <1>1, <1>2, <1>21, <2>1 DEF Calls, Loops
<1>5. Q \subseteq m + 1..m + 3 /\ Q \cap P = {} /\ f.body # f.cond /\ f.body # f.next
      /\ f.cond # f.next
  BY <1>1, <1>3
<1>6. Pending(f) = {f.cond, f.next} /\ Distinct(f) /\ f.kind \in Loops
  BY <1>3, <1>4, <1>5, <1>21, PendingParts DEF Distinct, Loops
<1>7. l \in LoopType /\ l.brk = f.next /\ l.cont = f.cond /\ SetsLoop(E, l, F)
      /\ E = NewBlocks(S, 3) /\ 3 \in Nat
  BY <1>1, <1>3, <1>21 DEF LoopType, SetsLoop
<1>8. (P \cup Q) \ {f.body} = P \cup Pending(f) /\ Pending(f) \cap P = {}
      /\ f.body \in P \cup Q /\ d \in P \cup Q /\ "always" \in CodesOrNot
  BY <1>5, <1>6, <1>21 DEF CodesOrNot
<1> HIDE DEF P, m, E, Q, l
<1>9. Allocates(S, P, 3, Q, E)
  BY <1>1, <1>5, <1>7, NewBlocksOK DEF m
<1>10. GraphOK(E, P \cup Q) /\ Keeps(S, E) /\ E.bbs = E.bbs
  BY <1>9, WorksKeeps DEF Allocates, Emits
<1>11. GraphOK(F, P \cup Q) /\ Keeps(E, F) /\ F.loop = l
  <2>1. GraphOK(E, P \cup Q) /\ l \in LoopType /\ SetsLoop(E, l, F)
    BY <1>7, <1>10
  <2> QED
    BY ONLY <2>1, LoopSet
<1>12. Places1(F, P \cup Q, f.body, N)
  <2>1. d \in Targets(F, P \cup Q)
    BY <1>8 DEF Targets
  <2> QED
    BY <1>8, <1>11, <1>21, <2>1, LinkPush
<1>13. GraphOK(N, P \cup Pending(f)) /\ AtNew(N, f.body) /\ Keeps(F, N) /\ N.loop = l
  BY <1>8, <1>11, <1>12 DEF Places1
<1>14. Keeps(S, N)
  <2>1. S \in Graph /\ E \in Graph /\ F \in Graph /\ N \in Graph
    BY <1>1, <1>10, <1>11, <1>13 DEF GraphOK
  <2> QED
    BY <1>10, <1>11, <1>13, <2>1, KeepsTransitive
<1>15. ASSUME NEW L, LiveOK(S, P, L) PROVE StaysLive(N, P \cup Pending(f), L)
  <2>1. LiveOK(E, P \cup Q, L)
    BY <1>1, <1>5, <1>7, <1>15, NewBlocksLive DEF m
  <2>2. LiveOK(F, P \cup Q, L)
    BY <1>7, <1>10, <2>1, LoopSetLive
  <2>3. d \in (P \cup Q) \cup L
    BY <1>8
  <2>4. LiveOK(N, (P \cup Q) \ {f.body}, L \cup {f.body})
    BY <1>8, <1>11, <1>21, <2>2, <2>3, LinkPushLive
  <2> QED
    BY <1>8, <2>4 DEF StaysLive
<1>16. MidOK(N, Append(w, f), q)
  <2>1. f.kind = "while" => q[Len(q)].chain \in Conditions
    BY <1>3, <1>21
  <2>2. f.open = Len(q)
    BY <1>3, <1>21
  <2>3. /\ f.prev = S.loop /\ N.loop.brk \in Pending(f) /\ N.loop.cont \in Pending(f)
    BY <1>3, <1>6, <1>7, <1>13
  <2> QED
    BY <1>4, <1>6, <1>8, <1>13, <1>15, <2>1, <2>2, <2>3, EnteredMid DEF P
<1> QED
  BY <1>14, <1>16, <1>21

(* The end of WHILE and DO: the condition is placed and branches to the    *)
(* body, which control may go to, and to the block that follows.           *)
LEMMA LoopConditionStep ==
  ASSUME NEW S, NEW w, NEW p, NEW q, MidOK(S, w, p), OneMore(p, q), w # <<>>,
         NEW f, f = Last(w), f.kind \in {"while", "do"}, NEW i \in Nat, NEW c \in Conditions,
         NEW garbage \in UninitializedCC,
         NEW N, N = LoopCondition(S, i, c, f, garbage)
  PROVE  MidOK(N, Front(w), q) /\ Keeps(S, N)
<1> DEFINE P == AllPending(w)
           X == bb_ll_push(link_bb(S, "always", f.cond, None), f.cond)
           C == generate_conditional_quads(X, i, c, f.body, f.next, FALSE, garbage)
           Y == [C EXCEPT !.loop = f.prev]
           Q == P \ {f.cond}
<1>1. GraphOK(S, P) /\ "always" \in CodesOrNot
  BY DEF MidOK, CodesOrNot
<1>2. ASSUME NEW L, WorkOK(w, L, S.loop, p)
      PROVE  f \in Calls /\ Pending(f) \subseteq P /\ FrameOK(w, Len(w), L, p) /\ f = w[Len(w)]
  BY <1>2, InnermostCall
<1>3. f \in Calls /\ Pending(f) \subseteq P /\ Distinct(f)
  BY <1>2 DEF MidOK, FrameOK
<1>4. f.kind \in Loops
  BY DEF Loops
<1>5. Pending(f) = {f.cond, f.next} /\ f.cond # f.next /\ f.prev \in LoopType
  BY <1>3, <1>4, PendingParts DEF Distinct
<1>6. /\ f.cond \in P /\ f.next \in P /\ f.next \in Q
      /\ Q \ {f.next} = AllPending(w) \ Pending(Last(w))
  BY <1>3, <1>5
<1>7. N = bb_ll_push(Y, f.next) /\ SetsLoop(C, f.prev, Y) /\ FALSE \in BOOLEAN
      /\ C = generate_conditional_quads(X, i, c, f.body, f.next, FALSE, garbage)
      /\ X = bb_ll_push(link_bb(S, "always", f.cond, None), f.cond)
  BY DEF LoopCondition, SetsLoop
<1> HIDE DEF P, X, C, Y
<1>8. Places1(S, P, f.cond, X)
  <2>1. f.cond \in Targets(S, P)
    BY <1>6 DEF Targets
  <2> QED
    BY <1>1, <1>6, <1>7, <2>1, LinkPush
<1>9. GraphOK(X, Q) /\ Keeps(S, X) /\ OnList(S) \subseteq OnList(X)
      /\ Targets(X, Q) = Targets(S, P)
  BY <1>8 DEF Places1
<1> HIDE DEF Q
<1>10. f.next \in Targets(S, P)
  BY <1>6 DEF Targets
<1>11. f.body \in Targets(S, P)
  <2>1. PICK L : LiveOK(S, P, L) /\ WorkOK(w, L, S.loop, p)
    BY DEF MidOK, P
  <2>2. f.body \in L
    BY <1>2, <1>4, <2>1 DEF FrameOK
  <2> QED
    BY <2>1, <2>2 DEF LiveOK, Targets
<1>12. GraphOK(C, Q) /\ Works(X, C)
  <2>1. Extends(X, Q, C)
    BY <1>7, <1>9, <1>10, <1>11, ConditionOK
  <2> QED
    BY <2>1 DEF Extends
<1>13. GraphOK(Y, Q) /\ Keeps(C, Y) /\ Y.loop = f.prev
  <2>1. GraphOK(C, Q) /\ f.prev \in LoopType /\ SetsLoop(C, f.prev, Y)
    BY <1>5, <1>7, <1>12
  <2> QED
    BY ONLY <2>1, LoopSet
<1>14. Places1(Y, Q, f.next, N)
  BY <1>6, <1>7, <1>13, PushOK
<1>15. GraphOK(N, Q \ {f.next}) /\ AtNew(N, f.next) /\ Keeps(Y, N) /\ N.loop = f.prev
  BY <1>13, <1>14 DEF Places1
<1>16. Keeps(S, N)
  <2>1. S \in Graph /\ X \in Graph /\ C \in Graph /\ Y \in Graph /\ N \in Graph
    BY <1>1, <1>9, <1>12, <1>13, <1>15 DEF GraphOK
  <2>2. Keeps(X, C)
    BY <1>12, WorksKeeps
  <2> QED
    BY <1>9, <1>13, <1>15, <2>1, <2>2, KeepsTransitive
<1>17. ASSUME NEW L, LiveOK(S, P, L), WorkOK(w, L, S.loop, p)
       PROVE  StaysLive(N, Q \ {f.next}, L)
  <2>1. f.cond \in P \cup L
    BY <1>6
  <2>2. LiveOK(X, Q, L \cup {f.cond})
    BY <1>1, <1>6, <1>7, <1>17, <2>1, LinkPushLive DEF Q
  <2>3. f.body \in L
    BY <1>2, <1>4, <1>17 DEF FrameOK
  <2> DEFINE M == L \cup {f.cond}
  <2>4. f.body \in Q \cup M /\ f.next \in Q \cup M
    BY <1>6, <2>3
  <2>5. LiveOK(X, Q, M) /\ GraphOK(X, Q) /\ i \in Nat /\ c \in Conditions
        /\ garbage \in UninitializedCC /\ FALSE \in BOOLEAN
        /\ C = generate_conditional_quads(X, i, c, f.body, f.next, FALSE, garbage)
    BY <1>7, <1>9, <2>2
  <2> HIDE DEF M
  <2>6. StaysLive(C, Q, M) /\ Ended(C)
    BY ONLY <2>4, <2>5, ConditionLive
  <2>7. PICK L2 : M \subseteq L2 /\ LiveOK(C, Q, L2)
    BY <2>6 DEF StaysLive
  <2>8. LiveOK(Y, Q, L2) /\ Ended(Y)
    BY <1>5, <1>7, <1>12, <2>6, <2>7, LoopSetLive
  <2>9. LiveOK(N, Q \ {f.next}, L2 \cup {f.next})
    BY <1>6, <1>7, <1>13, <2>8, PushLive
  <2> QED
    BY <2>7, <2>9 DEF StaysLive, M
<1>18. MidOK(N, Front(w), q)
  <2>1. N.loop = IF Last(w).kind \in Loops THEN Last(w).prev ELSE S.loop
    BY <1>4, <1>15
  <2>2. \A L : LiveOK(S, AllPending(w), L) /\ WorkOK(w, L, S.loop, p)
                 => StaysLive(N, Q \ {f.next}, L)
    BY <1>17 DEF P
  <2> QED
    BY <1>6, <1>15, <2>1, <2>2, LeftMid
<1> QED
  BY <1>16, <1>18

(* The init and the update of a FOR may be absent. *)
MaybeQuad(S, at, N) == N = S \/ N = quad_new(S, "expr", at, "always")

LEMMA QuadIfOK ==
  ASSUME NEW S, NEW P, GraphOK(S, P), NEW at \in Places, NEW N, MaybeQuad(S, at, N)
  PROVE  Good(S, P, N) /\ SameEnds(S, N)
<1>1. CASE N # S
  <2>1. N = quad_new(S, "expr", at, "always") /\ "expr" \in Operations /\ "always" \in CodesOrNot
    BY <1>1 DEF MaybeQuad, Operations, CodesOrNot
  <2> QED
    BY <2>1, QuadNew, QuadEnds DEF Good
<1>2. CASE N = S
  <2>1. Good(S, P, S)
    BY EmitsSelf DEF Good, GraphOK
  <2> QED
    BY <1>2, <2>1 DEF SameEnds
<1> QED
  BY <1>1, <1>2

ForCall(S, i) ==
  [kind |-> "for", open |-> i, body |-> Fresh(S, 2), cond |-> Fresh(S, 1), alt |-> Fresh(S, 3),
   next |-> Fresh(S, 4), prev |-> S.loop]

ForDone(S, w, q, I, N, v) ==
  LET f == ForCall(S, Len(q))
      F == [NewBlocks(S, 4) EXCEPT !.loop = for_loop(f.body, f.alt, f.next)]
  IN  /\ MaybeQuad(F, <<Len(q), "init">>, I)
      /\ N = bb_ll_push(link_bb(I, "always", f.cond, None), f.body)
      /\ v = Append(w, f)

LEMMA ForStep ==
  ASSUME NEW S, NEW w, NEW p, NEW q, MidOK(S, w, p), OneMore(p, q),
         NEW I, NEW N, NEW v, ForDone(S, w, q, I, N, v)
  PROVE  MidOK(N, v, q) /\ Keeps(S, N)
<1> DEFINE i == Len(q)
           f == ForCall(S, i)
           G0 == [NewBlocks(S, 4) EXCEPT !.loop = for_loop(f.body, f.alt, f.next)]
<1>21. /\ MaybeQuad(G0, <<i, "init">>, I)
       /\ N = bb_ll_push(link_bb(I, "always", f.cond, None), f.body) /\ v = Append(w, f)
       /\ i = Len(q) /\ i \in Nat /\ f = ForCall(S, i)
       /\ G0 = [NewBlocks(S, 4) EXCEPT !.loop = for_loop(f.body, f.alt, f.next)]
  BY DEF ForDone, OneMore
<1> HIDE DEF i, f, G0
<1> DEFINE P == AllPending(w)
           m == Len(S.bbs)
           E == NewBlocks(S, 4)
           l == for_loop(f.body, f.alt, f.next)
           F == [E EXCEPT !.loop = l]
           Q == {f.body, f.cond, f.alt, f.next}
<1>1. GraphOK(S, P) /\ P \subseteq 1..m /\ m \in Nat /\ S.loop \in LoopType
  BY PendingPlaced
<1>2. f = [kind |-> "for", open |-> i, body |-> m + 2, cond |-> m + 1, alt |-> m + 3,
           next |-> m + 4, prev |-> S.loop]
  BY <1>21 DEF ForCall, Fresh
<1>3. f.kind = "for" /\ f.open = i /\ f.body = m + 2 /\ f.cond = m + 1 /\ f.alt = m + 3
      /\ f.next = m + 4 /\ f.prev = S.loop
  BY <1>2
<1>4. f \in Calls
  <2>1. m + 1 \in Nat /\ m + 2 \in Nat /\ m + 3 \in Nat /\ m + 4 \in Nat
    BY <1>1
  <2> QED
    BY <1>1, <1>2, <1>21, <2>1 DEF Calls, Loops
<1>5. Q \subseteq m + 1..m + 4 /\ Q \cap P = {} /\ f.body # f.cond /\ f.body # f.next
      /\ f.body # f.alt /\ f.cond # f.next /\ f.alt # f.cond /\ f.alt # f.next
  BY <1>1, <1>3
<1>6. Pending(f) = {f.alt, f.cond, f.next} /\ Distinct(f) /\ f.kind \in Loops
  BY <1>3, <1>4, <1>5, PendingParts DEF Distinct, Loops
<1>7. l \in LoopType /\ l.brk = f.next /\ l.cont = f.alt /\ SetsLoop(E, l, F)
      /\ E = NewBlocks(S, 4) /\ 4 \in Nat
  BY <1>1, <1>3 DEF LoopType, SetsLoop, for_loop
<1>8. (P \cup Q) \ {f.body} = P \cup Pending(f) /\ Pending(f) \cap P = {}
      /\ f.body \in P \cup Q /\ f.cond \in P \cup Q /\ "always" \in CodesOrNot
      /\ <<i, "init">> \in Places
  BY <1>5, <1>6, <1>21, PlaceOf DEF CodesOrNot
<1>9. MaybeQuad(F, <<i, "init">>, I)
  BY <1>21
<1> HIDE DEF P, m, E, Q, l, F
<1>10. Allocates(S, P, 4, Q, E)
  BY <1>1, <1>5, <1>7, NewBlocksOK DEF m
<1>11. GraphOK(E, P \cup Q) /\ Keeps(S, E)
  BY <1>10, WorksKeeps DEF Allocates, Emits
<1>12. GraphOK(F, P \cup Q) /\ Keeps(E, F) /\ F.loop = l
  <2>1. GraphOK(E, P \cup Q) /\ l \in LoopType /\ SetsLoop(E, l, F)
    BY <1>7, <1>11
  <2> QED
    BY ONLY <2>1, LoopSet
<1>13. Good(F, P \cup Q, I) /\ SameEnds(F, I)
  BY <1>8, <1>9, <1>12, QuadIfOK
<1>14. GraphOK(I, P \cup Q) /\ Keeps(F, I) /\ I.loop = l
  BY <1>12, <1>13, WorksKeeps DEF Good, Emits, Works
<1>15. Places1(I, P \cup Q, f.body, N)
  <2>1. f.cond \in Targets(I, P \cup Q)
    BY <1>8 DEF Targets
  <2> QED
    BY <1>8, <1>14, <1>21, <2>1, LinkPush
<1>16. GraphOK(N, P \cup Pending(f)) /\ AtNew(N, f.body) /\ Keeps(I, N) /\ N.loop = l
  BY <1>8, <1>14, <1>15 DEF Places1
<1>17. Keeps(S, N)
  <2>1. S \in Graph /\ E \in Graph /\ F \in Graph /\ I \in Graph /\ N \in Graph
    BY <1>1, <1>11, <1>12, <1>14, <1>16 DEF GraphOK
  <2>2. Keeps(S, F)
    BY <1>11, <1>12, <2>1, KeepsTransitive
  <2>3. Keeps(S, I)
    BY <1>14, <2>1, <2>2, KeepsTransitive
  <2> QED
    BY <1>16, <2>1, <2>3, KeepsTransitive
<1>18. ASSUME NEW L, LiveOK(S, P, L) PROVE StaysLive(N, P \cup Pending(f), L)
  <2>1. LiveOK(E, P \cup Q, L)
    BY <1>1, <1>5, <1>7, <1>18, NewBlocksLive DEF m
  <2>2. LiveOK(F, P \cup Q, L)
    <3>1. GraphOK(E, P \cup Q) /\ l \in LoopType /\ SetsLoop(E, l, F)
      BY <1>7, <1>11
    <3> QED
      BY ONLY <2>1, <3>1, LoopSetLive
  <2>3. LiveOK(I, P \cup Q, L)
    BY <1>12, <1>13, <2>2, LiveStays
  <2>4. f.cond \in (P \cup Q) \cup L
    BY <1>8
  <2>5. LiveOK(N, (P \cup Q) \ {f.body}, L \cup {f.body})
    BY <1>8, <1>14, <1>21, <2>3, <2>4, LinkPushLive
  <2> QED
    BY <1>8, <2>5 DEF StaysLive
<1>19. MidOK(N, Append(w, f), q)
  <2>1. f.kind # "while" /\ f.open = Len(q)
    BY <1>3, <1>21
  <2>2. /\ f.prev = S.loop /\ N.loop.brk \in Pending(f) /\ N.loop.cont \in Pending(f)
    BY <1>3, <1>6, <1>7, <1>16
  <2> QED
    BY <1>4, <1>6, <1>8, <1>16, <1>18, <2>1, <2>2, EnteredMid DEF P
<1> QED
  BY <1>17, <1>19, <1>21

(* The condition of a FOR, or none *)
ForCondition(C, i, chain, f, garbage) ==
  IF chain = <<>> THEN link_bb(C, "always", f.body, None)
  ELSE generate_conditional_quads(C, i, chain, f.body, f.next, FALSE, garbage)

LEMMA ForConditionOK ==
  ASSUME NEW C, NEW Q, GraphOK(C, Q), NEW i \in Nat, NEW chain \in Conditions \cup {<<>>},
         NEW f, f.body \in Targets(C, Q), f.next \in Targets(C, Q),
         NEW garbage \in UninitializedCC,
         NEW N, N = ForCondition(C, i, chain, f, garbage)
  PROVE  Extends(C, Q, N)
<1>1. CASE chain = <<>>
  <2>1. N = link_bb(C, "always", f.body, None) /\ "always" \in CodesOrNot
        /\ None \in Targets(C, Q)
    BY <1>1 DEF ForCondition, CodesOrNot, Targets
  <2> QED
    BY <2>1, LinkBB DEF Extends, Emits
<1>2. CASE chain # <<>>
  <2>1. N = generate_conditional_quads(C, i, chain, f.body, f.next, FALSE, garbage)
        /\ chain \in Conditions /\ FALSE \in BOOLEAN
    BY <1>2 DEF ForCondition
  <2> QED
    BY <2>1, ConditionOK
<1> QED
  BY <1>1, <1>2

LEMMA ForConditionLive ==
  ASSUME NEW C, NEW Q, GraphOK(C, Q), NEW M, LiveOK(C, Q, M), NEW i \in Nat,
         NEW chain \in Conditions \cup {<<>>},
         NEW f, f.body \in Q \cup M, f.next \in Q \cup M, NEW garbage \in UninitializedCC,
         NEW N, N = ForCondition(C, i, chain, f, garbage)
  PROVE  StaysLive(N, Q, M) /\ Ended(N)
<1>1. CASE chain = <<>>
  <2>1. N = link_bb(C, "always", f.body, None) /\ None \in {None} \cup Q \cup M
    BY <1>1 DEF ForCondition
  <2>2. LiveOK(N, Q, M) /\ Ended(N)
    BY <2>1, LinkLive
  <2> QED
    BY <2>2 DEF StaysLive
<1>2. CASE chain # <<>>
  <2>1. N = generate_conditional_quads(C, i, chain, f.body, f.next, FALSE, garbage)
        /\ chain \in Conditions /\ FALSE \in BOOLEAN
    BY <1>2 DEF ForCondition
  <2>2. GraphOK(C, Q) /\ LiveOK(C, Q, M) /\ i \in Nat /\ garbage \in UninitializedCC
        /\ f.body \in Q \cup M /\ f.next \in Q \cup M
    OBVIOUS
  <2> QED
    BY ONLY <2>1, <2>2, ConditionLive
<1> QED
  BY <1>1, <1>2

EndForDone(S, f, chain, garbage, U, N) ==
  LET C == bb_ll_push(link_bb(U, "always", f.cond, None), f.cond)
      Z == ForCondition(C, f.open, chain, f, garbage)
  IN  /\ f.kind = "for" /\ chain \in Conditions \cup {<<>>}
      /\ MaybeQuad(bb_ll_push(link_bb(S, "always", f.alt, None), f.alt),
                   <<f.open, "update">>, U)
      /\ N = bb_ll_push([Z EXCEPT !.loop = f.prev], f.next)

LEMMA EndForStep ==
  ASSUME NEW S, NEW w, NEW p, NEW q, MidOK(S, w, p), OneMore(p, q), w # <<>>,
         NEW chain, NEW garbage \in UninitializedCC, NEW U, NEW N,
         EndForDone(S, Last(w), chain, garbage, U, N)
  PROVE  MidOK(N, Front(w), q) /\ Keeps(S, N)
<1> DEFINE f == Last(w)
           C == bb_ll_push(link_bb(U, "always", f.cond, None), f.cond)
           Z == ForCondition(C, f.open, chain, f, garbage)
<1>0. /\ f = Last(w) /\ f.kind = "for" /\ chain \in Conditions \cup {<<>>}
      /\ MaybeQuad(bb_ll_push(link_bb(S, "always", f.alt, None), f.alt),
                   <<f.open, "update">>, U)
      /\ N = bb_ll_push([Z EXCEPT !.loop = f.prev], f.next)
      /\ Z = ForCondition(C, f.open, chain, f, garbage)
      /\ C = bb_ll_push(link_bb(U, "always", f.cond, None), f.cond)
  BY DEF EndForDone
<1> HIDE DEF f, C, Z
<1> DEFINE P == AllPending(w)
           X == bb_ll_push(link_bb(S, "always", f.alt, None), f.alt)
           Y == [Z EXCEPT !.loop = f.prev]
           Q1 == P \ {f.alt}
           Q2 == Q1 \ {f.cond}
           i == f.open
<1>1. GraphOK(S, P) /\ "always" \in CodesOrNot
  BY DEF MidOK, CodesOrNot
<1>2. ASSUME NEW L, WorkOK(w, L, S.loop, p)
      PROVE  f \in Calls /\ Pending(f) \subseteq P /\ FrameOK(w, Len(w), L, p) /\ f = w[Len(w)]
  BY <1>0, <1>2, InnermostCall
<1>3. f \in Calls /\ Pending(f) \subseteq P /\ Distinct(f)
  BY <1>2 DEF MidOK, FrameOK
<1>4. f.kind \in Loops /\ i \in Nat
  BY <1>0, <1>3 DEF Loops, Calls
<1>5. Pending(f) = {f.alt, f.cond, f.next} /\ f.cond # f.next /\ f.alt # f.next
      /\ f.alt # f.cond /\ f.prev \in LoopType
  BY <1>0, <1>3, <1>4, PendingParts DEF Distinct
<1>6. /\ f.alt \in P /\ f.cond \in P /\ f.next \in P /\ f.cond \in Q1 /\ f.next \in Q1
      /\ f.next \in Q2 /\ Q2 \ {f.next} = AllPending(w) \ Pending(Last(w))
  BY <1>0, <1>3, <1>5
<1>7. N = bb_ll_push(Y, f.next) /\ SetsLoop(Z, f.prev, Y)
      /\ X = bb_ll_push(link_bb(S, "always", f.alt, None), f.alt)
      /\ MaybeQuad(X, <<i, "update">>, U) /\ <<i, "update">> \in Places
      /\ Z = ForCondition(C, i, chain, f, garbage)
      /\ C = bb_ll_push(link_bb(U, "always", f.cond, None), f.cond)
  BY <1>0, <1>4, PlaceOf DEF SetsLoop
<1> HIDE DEF P, X, Y, i
<1>8. Places1(S, P, f.alt, X)
  <2>1. f.alt \in Targets(S, P)
    BY <1>6 DEF Targets
  <2> QED
    BY <1>1, <1>6, <1>7, <2>1, LinkPush
<1>9. GraphOK(X, Q1) /\ Keeps(S, X) /\ Targets(X, Q1) = Targets(S, P)
  BY <1>8 DEF Places1
<1> HIDE DEF Q1
<1>10. Good(X, Q1, U) /\ SameEnds(X, U)
  BY <1>7, <1>9, QuadIfOK
<1>11. GraphOK(U, Q1) /\ Keeps(X, U) /\ Targets(U, Q1) = Targets(X, Q1)
  BY <1>10, WorksKeeps, EmitsTargets DEF Good, Emits
<1>12. Places1(U, Q1, f.cond, C)
  <2>1. f.cond \in Targets(U, Q1)
    BY <1>6 DEF Targets
  <2> QED
    BY <1>1, <1>6, <1>7, <1>11, <2>1, LinkPush
<1>13. GraphOK(C, Q2) /\ Keeps(U, C) /\ Targets(C, Q2) = Targets(U, Q1)
  BY <1>12 DEF Places1
<1> HIDE DEF Q2
<1>14. f.next \in Targets(C, Q2)
  BY <1>6 DEF Targets
<1>15. f.body \in Targets(C, Q2)
  <2>1. PICK L : LiveOK(S, P, L) /\ WorkOK(w, L, S.loop, p)
    BY DEF MidOK, P
  <2>2. f.body \in L
    BY <1>2, <1>4, <2>1 DEF FrameOK
  <2>3. f.body \in Targets(S, P)
    BY <2>1, <2>2 DEF LiveOK, Targets
  <2> QED
    BY <1>9, <1>11, <1>13, <2>3
<1>16. GraphOK(Z, Q2) /\ Works(C, Z)
  <2>1. Extends(C, Q2, Z)
    BY <1>0, <1>4, <1>7, <1>13, <1>14, <1>15, ForConditionOK
  <2> QED
    BY <2>1 DEF Extends
<1>17. GraphOK(Z, Q2) /\ f.prev \in LoopType /\ SetsLoop(Z, f.prev, Y)
  BY <1>5, <1>7, <1>16
<1>18. GraphOK(Y, Q2) /\ Keeps(Z, Y) /\ Y.loop = f.prev
  BY ONLY <1>17, LoopSet
<1>19. Places1(Y, Q2, f.next, N)
  BY <1>6, <1>7, <1>18, PushOK
<1>20. GraphOK(N, Q2 \ {f.next}) /\ AtNew(N, f.next) /\ Keeps(Y, N) /\ N.loop = f.prev
  BY <1>18, <1>19 DEF Places1
<1>21. Keeps(S, N)
  <2>1. S \in Graph /\ X \in Graph /\ U \in Graph /\ C \in Graph /\ Z \in Graph /\ Y \in Graph
        /\ N \in Graph
    BY <1>1, <1>9, <1>11, <1>13, <1>16, <1>18, <1>20 DEF GraphOK
  <2>2. Keeps(C, Z)
    BY <1>16, WorksKeeps
  <2>3. Keeps(S, C)
    BY <1>9, <1>11, <1>13, <2>1, KeepsTransitive
  <2>4. Keeps(C, N)
    BY <1>18, <1>20, <2>1, <2>2, KeepsTransitive
  <2> QED
    BY <2>1, <2>3, <2>4, KeepsTransitive
<1>22. ASSUME NEW L, LiveOK(S, P, L), WorkOK(w, L, S.loop, p)
       PROVE  StaysLive(N, Q2 \ {f.next}, L)
  <2> DEFINE M1 == L \cup {f.alt}
             M2 == M1 \cup {f.cond}
  <2>1. f.alt \in P \cup L /\ f.cond \in Q1 \cup M1
    BY <1>6
  <2>2. LiveOK(X, Q1, M1)
    BY <1>1, <1>6, <1>7, <1>22, <2>1, LinkPushLive DEF Q1
  <2>3. f.body \in L
    BY <1>2, <1>4, <1>22 DEF FrameOK
  <2>4. f.body \in Q2 \cup M2 /\ f.next \in Q2 \cup M2 /\ L \subseteq M2
    BY <1>6, <2>3
  <2> HIDE DEF M1
  <2>5. LiveOK(U, Q1, M1)
    BY <1>9, <1>10, <2>2, LiveStays
  <2>6. LiveOK(C, Q2, M2)
    BY <1>1, <1>6, <1>7, <1>11, <2>1, <2>5, LinkPushLive DEF Q2
  <2> HIDE DEF M2
  <2>7. StaysLive(Z, Q2, M2) /\ Ended(Z)
    <3>1. GraphOK(C, Q2) /\ LiveOK(C, Q2, M2) /\ i \in Nat /\ chain \in Conditions \cup {<<>>}
          /\ garbage \in UninitializedCC /\ f.body \in Q2 \cup M2 /\ f.next \in Q2 \cup M2
          /\ Z = ForCondition(C, i, chain, f, garbage)
      BY <1>0, <1>4, <1>7, <1>13, <2>4, <2>6
    <3> QED
      BY ONLY <3>1, ForConditionLive
  <2>8. PICK L2 : M2 \subseteq L2 /\ LiveOK(Z, Q2, L2)
    BY <2>7 DEF StaysLive
  <2>9. LiveOK(Y, Q2, L2) /\ Ended(Y)
    <3>1. LiveOK(Z, Q2, L2)
      BY <2>8
    <3>2. LiveOK(Y, Q2, L2) /\ (Ended(Z) => Ended(Y))
      BY ONLY <1>17, <3>1, LoopSetLive
    <3> QED
      BY <2>7, <3>2
  <2>10. LiveOK(N, Q2 \ {f.next}, L2 \cup {f.next})
    BY <1>6, <1>7, <1>18, <2>9, PushLive
  <2> QED
    BY <2>4, <2>8, <2>10 DEF StaysLive
<1>23. MidOK(N, Front(w), q)
  <2>1. N.loop = IF Last(w).kind \in Loops THEN Last(w).prev ELSE S.loop
    BY <1>0, <1>4, <1>20
  <2>2. \A L : LiveOK(S, AllPending(w), L) /\ WorkOK(w, L, S.loop, p)
                 => StaysLive(N, Q2 \ {f.next}, L)
    BY <1>22 DEF P
  <2> QED
    BY <1>6, <1>20, <2>1, <2>2, LeftMid
<1> QED
  BY <1>21, <1>23

-----------------------------------------------------------------------------
(* The end of the function.  The blocks L, which control starts in and      *)
(* stays in, each lead on or end in a return.                              *)
RunsIn(N, L) ==
  /\ L \subseteq OnList(N) /\ Len(N.ll) # 0 /\ N.ll[1] \in L
  /\ \A b \in L :
       LET B == N.bbs[b] IN
       /\ B.def \in {None} \cup L /\ B.cond \in {None} \cup L
       /\ B.def = None => Len(B.code) # 0 /\ B.code[Len(B.code)].op = "ret"

DoneOK(N) ==
  /\ GraphOK(N, {}) /\ N.bbs[Last(N.ll)].def = None
  /\ \E L : RunsIn(N, L)

(* The return that ends the last block *)
StartsWithRet(b) == Len(b.code) # 0 /\ b.code[1].op = "ret"

LEMMA ImplicitReturn ==
  ASSUME NEW S, NEW P, GraphOK(S, P), ~Ended(S), NEW at \in Places,
         NEW R, R = IF Current(S).code # <<>> /\ Head(Current(S).code).op = "ret" THEN S
                    ELSE quad_new(S, "ret", at, "always")
  PROVE  Good(S, P, R) /\ SameEnds(S, R) /\ StartsWithRet(R.bbs[R.cur])
<1> DEFINE b == S.bbs[S.cur]
<1>1. S \in Graph /\ S.cur \in 1..Len(S.bbs) /\ b \in Block /\ b = Current(S)
  BY GraphFields DEF GraphOK, Current
<1>2. b.code \in Seq(QuadRecords) /\ Len(b.code) \in Nat
  BY <1>1, BlockFields
<1> HIDE DEF b
<1>3. CASE Current(S).code # <<>> /\ Head(Current(S).code).op = "ret"
  <2>1. R = S
    BY <1>3
  <2>2. Len(b.code) # 0 /\ b.code[1].op = "ret"
    <3>1. b.code # <<>> /\ Head(b.code).op = "ret"
      BY <1>1, <1>3
    <3>2. Len(b.code) # 0
      BY <1>2, <3>1
    <3>3. Head(b.code) = b.code[1]
      BY <1>2, <3>1
    <3> QED
      BY <3>1, <3>2, <3>3
  <2>3. Good(S, P, S) /\ SameEnds(S, S)
    BY <1>1, EmitsSelf DEF Good, SameEnds
  <2> QED
    BY <1>1, <2>1, <2>2, <2>3 DEF StartsWithRet, b
<1>4. CASE ~(Current(S).code # <<>> /\ Head(Current(S).code).op = "ret")
  <2>1. R = quad_new(S, "ret", at, "always") /\ "ret" \in Operations /\ "always" \in CodesOrNot
    BY <1>4 DEF Operations, CodesOrNot
  <2>2. Good(S, P, R) /\ SameEnds(S, R)
    BY <2>1, QuadNew, QuadEnds DEF Good
  <2> DEFINE r == [op |-> "ret", at |-> at, cc |-> "always"]
             c == <<r>> \o b.code
             e == [b EXCEPT !.code = c]
  <2>3. CurrentBecomes(S, R, e) /\ R.cur = S.cur
    BY <1>1, <2>1, <2>2 DEF quad_new, CurrentBecomes, Ended, Current, b, Good, Emits
  <2>4. r \in QuadRecords
    BY <2>1 DEF QuadRecords
  <2>5. c \in Seq(QuadRecords) /\ Len(c) = Len(b.code) + 1 /\ c[1] = r
    BY <1>2, <2>4, ConsCode
  <2>6. e \in Block /\ e.code = c
    <3> HIDE DEF c
    <3> QED
      BY <1>1, <2>5, NewCode
  <2>7. R.bbs[R.cur] = e
    <3> HIDE DEF e
    <3>1. R = [S EXCEPT !.bbs = [S.bbs EXCEPT ![S.cur] = e]]
      BY <2>3 DEF CurrentBecomes
    <3>2. R.bbs[S.cur] = e
      BY <1>1, <2>6, <3>1, ChangedBlock
    <3> QED
      BY <2>3, <3>2
  <2>8. Len(c) # 0 /\ c[1].op = "ret"
    <3>1. Len(c) # 0
      BY <1>2, <2>5
    <3> QED
      BY <2>5, <3>1
  <2> QED
    BY <2>2, <2>6, <2>7, <2>8 DEF StartsWithRet
<1> QED
  BY <1>3, <1>4

(* link_bb with no successor *)
LEMMA LinkNowhere ==
  ASSUME NEW S, NEW P, GraphOK(S, P), ~Ended(S), StartsWithRet(S.bbs[S.cur]),
         NEW N, N = link_bb(S, "always", None, None)
  PROVE  /\ Good(S, P, N)
         /\ LET B == N.bbs[N.cur]
            IN  /\ B.def = None /\ B.cond = None
                /\ Len(B.code) # 0 /\ B.code[Len(B.code)].op = "ret"
<1> DEFINE b == S.bbs[S.cur]
           r == Reverse(b.code)
           e == [code |-> r, cc |-> "always", def |-> None, cond |-> None, finalized |-> TRUE]
<1>1. S \in Graph /\ S.cur \in 1..Len(S.bbs) /\ b \in Block
  BY GraphFields DEF GraphOK
<1>2. "always" \in CodesOrNot /\ None \in Targets(S, P) /\ None \in Nat /\ TRUE \in BOOLEAN
  BY DEF CodesOrNot, Targets, None
<1>3. Good(S, P, N)
  BY <1>2, LinkBB DEF Good
<1>4. N.cur = S.cur
  BY <1>3 DEF Good, Emits
<1>5. N = [S EXCEPT !.bbs = [S.bbs EXCEPT ![S.cur] = e]]
  BY DEF link_bb, Ended, Current
<1>6. b.code \in Seq(QuadRecords) /\ Len(b.code) # 0 /\ b.code[1].op = "ret"
  BY <1>1, BlockFields DEF StartsWithRet
<1> HIDE DEF b
<1>7. /\ r \in Seq(QuadRecords) /\ Len(r) = Len(b.code) /\ Len(b.code) \in Nat
      /\ \A k \in 1..Len(b.code) : r[k] = b.code[Len(b.code) - k + 1]
  BY <1>6, ReverseFacts
<1>8. r[Len(b.code)] = b.code[1]
  <2> DEFINE n == Len(b.code)
  <2>1. n \in Nat /\ n # 0
    BY <1>6, <1>7
  <2>2. n \in 1..n /\ n - n + 1 = 1
    BY <2>1
  <2> HIDE DEF n, r
  <2>3. r[n] = b.code[n - n + 1]
    BY <1>7, <2>2 DEF n
  <2> QED
    BY <2>2, <2>3 DEF n
<1> HIDE DEF r
<1>9. e \in Block
  BY <1>2, <1>7, MakeBlock
<1>10. e.code = r /\ e.def = None /\ e.cond = None
  OBVIOUS
<1> HIDE DEF e
<1>11. N.bbs[S.cur] = e
  BY <1>1, <1>5, <1>9, ChangedBlock
<1> QED
  BY <1>3, <1>4, <1>6, <1>7, <1>8, <1>10, <1>11

(* finalize_bb_list *)
LEMMA FinalizeOK ==
  ASSUME NEW S, NEW P, GraphOK(S, P), Len(S.ll) # 0, NEW N, N = finalize_bb_list(S)
  PROVE  /\ GraphOK(N, P) /\ N.bbs = S.bbs /\ OnList(N) = OnList(S) /\ Keeps(S, N)
         /\ Len(N.ll) # 0 /\ N.ll[1] = S.ll[Len(S.ll)] /\ Last(N.ll) = S.ll[1]
<1> DEFINE n == Len(S.ll)
           r == Reverse(S.ll)
<1>1. S \in Graph /\ S.ll \in Seq(Nat) /\ n \in Nat /\ n # 0
  BY GraphFields DEF GraphOK
<1>2. /\ r \in Seq(Nat) /\ Len(r) = n
      /\ \A k \in 1..n : r[k] = S.ll[n - k + 1] /\ n - k + 1 \in 1..n
  BY <1>1, ReverseFacts
<1>3. n = Len(S.ll)
  OBVIOUS
<1> HIDE DEF n, r
<1>4. N \in Graph /\ N.bbs = S.bbs /\ N.cur = S.cur /\ N.ll = r /\ N.loop = S.loop
  BY <1>1, <1>2 DEF finalize_bb_list, Graph, r
<1>5. r[1] = S.ll[n] /\ r[n] = S.ll[1]
  <2>1. 1 \in 1..n /\ n \in 1..n /\ n - 1 + 1 = n /\ n - n + 1 = 1
    BY <1>1
  <2>2. r[1] = S.ll[n - 1 + 1] /\ r[n] = S.ll[n - n + 1]
    BY <1>2, <2>1
  <2> QED
    BY <2>1, <2>2
<1>6. \A k \in 1..n : n - k + 1 \in 1..n /\ n - (n - k + 1) + 1 = k
  BY <1>1
<1>7. OnList(N) = OnList(S)
  <2>1. ASSUME NEW b \in OnList(S) PROVE b \in OnList(N)
    <3>1. PICK k \in 1..n : b = S.ll[k]
      BY <1>3 DEF OnList
    <3>2. r[n - k + 1] = S.ll[n - (n - k + 1) + 1] /\ n - k + 1 \in 1..n
      BY <1>2, <1>6
    <3>3. r[n - k + 1] = b
      BY <1>6, <3>1, <3>2
    <3> QED
      BY <1>2, <1>4, <3>2, <3>3 DEF OnList
  <2>2. ASSUME NEW b \in OnList(N) PROVE b \in OnList(S)
    <3>1. PICK k \in 1..n : b = r[k]
      BY <1>2, <1>4 DEF OnList
    <3>2. b = S.ll[n - k + 1] /\ n - k + 1 \in 1..n
      BY <1>2, <3>1
    <3> QED
      BY <1>3, <3>2 DEF OnList
  <2> QED
    BY <2>1, <2>2
<1>8. ListOK(N, P)
  <2>1. ASSUME NEW k \in 1..n PROVE r[k] \in 1..Len(S.bbs) /\ r[k] \notin P
    BY <1>2, <1>3 DEF GraphOK, ListOK
  <2>2. ASSUME NEW k \in 1..n, NEW j \in 1..n, r[k] = r[j] PROVE k = j
    <3>1. S.ll[n - k + 1] = S.ll[n - j + 1] /\ n - k + 1 \in 1..n /\ n - j + 1 \in 1..n
      BY <1>2, <2>2
    <3>2. n - k + 1 = n - j + 1
      BY <1>3, <3>1 DEF GraphOK, ListOK
    <3> QED
      BY <1>1, <3>2
  <2>3. Len(N.ll) = n /\ N.ll = r /\ N.bbs = S.bbs
    BY <1>2, <1>4
  <2>4. \A k \in 1..Len(N.ll) : N.ll[k] \in 1..Len(N.bbs) /\ N.ll[k] \notin P
    BY <2>1, <2>3
  <2>5. \A k, j \in 1..Len(N.ll) : N.ll[k] = N.ll[j] => k = j
    BY <2>2, <2>3
  <2> QED
    BY <2>4, <2>5 DEF ListOK
<1>9. \A i \in 1..Len(N.bbs) : BlockOK(N.bbs[i], N, P)
  BY <1>4, <1>7 DEF GraphOK, BlockOK, Targets
<1>10. GraphOK(N, P)
  BY <1>4, <1>8, <1>9 DEF GraphOK, PendingOK
<1>11. Keeps(S, N)
  BY <1>1, <1>4, <1>7, GraphFields DEF Keeps
<1>12. Last(N.ll) = r[n]
  BY <1>2, <1>4 DEF Last
<1> QED
  BY <1>1, <1>2, <1>3, <1>4, <1>5, <1>7, <1>10, <1>11, <1>12

Ends(S, at, N) ==
  LET R == IF Current(S).code # <<>> /\ Head(Current(S).code).op = "ret" THEN S
           ELSE quad_new(S, "ret", at, "always")
  IN  N = finalize_bb_list(link_bb(R, "always", None, None))

LEMMA EndStep ==
  ASSUME NEW S, NEW p, MidOK(S, <<>>, p), NEW at \in Places, NEW N, Ends(S, at, N)
  PROVE  DoneOK(N) /\ Keeps(S, N)
<1> DEFINE R == IF Current(S).code # <<>> /\ Head(Current(S).code).op = "ret" THEN S
                ELSE quad_new(S, "ret", at, "always")
           K == link_bb(R, "always", None, None)
<1>0. N = finalize_bb_list(K)
  BY DEF Ends
<1>20. R = IF Current(S).code # <<>> /\ Head(Current(S).code).op = "ret" THEN S
           ELSE quad_new(S, "ret", at, "always")
  OBVIOUS
<1> HIDE DEF R
<1>1. AllPending(<<>>) = {}
  BY DEF AllPending
<1>2. PICK L : LiveOK(S, {}, L) /\ WorkOK(<<>>, L, S.loop, p)
  BY <1>1 DEF MidOK
<1>3. ~Ended(S)
  <2>1. S.loop = NoLoop
    BY <1>2 DEF WorkOK, LoopAmong
  <2> QED
    BY <2>1 DEF MidOK, OpenOK
<1>4. GraphOK(S, {}) /\ HeadOK(S)
  BY <1>1 DEF MidOK
<1>5. Good(S, {}, R) /\ SameEnds(S, R) /\ StartsWithRet(R.bbs[R.cur])
  BY <1>3, <1>4, <1>20, ImplicitReturn
<1>6. GraphOK(R, {}) /\ R.cur = S.cur /\ R.ll = S.ll /\ ~Ended(R) /\ Works(S, R)
  BY <1>3, <1>4, <1>5 DEF Good, Emits, SameEnds, Ended, GraphOK
<1>7. LiveOK(R, {}, L)
  BY <1>2, <1>4, <1>5, LiveStays
<1>8. /\ Good(R, {}, K)
      /\ LET B == K.bbs[K.cur]
         IN  /\ B.def = None /\ B.cond = None
             /\ Len(B.code) # 0 /\ B.code[Len(B.code)].op = "ret"
  BY <1>5, <1>6, LinkNowhere
<1> HIDE DEF K
<1>9. GraphOK(K, {}) /\ K.cur = R.cur /\ K.ll = R.ll /\ Works(R, K)
  BY <1>8 DEF Good, Emits
<1>10. Len(S.ll) # 0 /\ Len(K.ll) # 0
  BY <1>4, <1>6, <1>9 DEF HeadOK
<1>11. N = finalize_bb_list(K)
  BY <1>0
<1>12. /\ GraphOK(N, {}) /\ N.bbs = K.bbs /\ OnList(N) = OnList(K) /\ Keeps(K, N)
       /\ Len(N.ll) # 0 /\ N.ll[1] = K.ll[Len(K.ll)] /\ Last(N.ll) = K.ll[1]
  BY <1>9, <1>10, <1>11, FinalizeOK
<1>13. N.bbs[Last(N.ll)].def = None
  <2>1. CASE S.ll[1] = S.cur
    BY <1>6, <1>8, <1>9, <1>12, <2>1
  <2>2. CASE S.ll[1] # S.cur
    <3>1. S.bbs[S.ll[1]] = NewBlock
      BY <1>4, <2>2 DEF HeadOK
    <3>2. S.ll[1] \in 1..Len(S.bbs)
      <4>1. Len(S.ll) \in Nat
        BY <1>4, GraphFields DEF GraphOK
      <4>2. 1 \in 1..Len(S.ll)
        BY <1>10, <4>1
      <4> QED
        BY <1>4, <4>2 DEF GraphOK, ListOK
    <3>3. R.bbs[S.ll[1]] = S.bbs[S.ll[1]]
      BY <1>6, <2>2, <3>2 DEF Works
    <3>4. S.ll[1] \in 1..Len(R.bbs)
      <4>1. Len(S.bbs) \in Nat /\ Len(R.bbs) \in Nat /\ Len(S.bbs) <= Len(R.bbs)
        BY <1>4, <1>6, GraphFields DEF GraphOK, Works
      <4> QED
        BY <3>2, <4>1
    <3>5. K.bbs[S.ll[1]] = R.bbs[S.ll[1]]
      BY <1>6, <1>9, <2>2, <3>4 DEF Works
    <3> QED
      BY <1>6, <1>9, <1>12, <3>1, <3>3, <3>5, NewBlockType
  <2> QED
    BY <2>1, <2>2
<1>14. RunsIn(N, L)
  <2>1. L \subseteq OnList(N)
    <3>1. OnList(K) = OnList(R)
      BY <1>9 DEF OnList
    <3> QED
      BY <1>7, <1>12, <3>1 DEF LiveOK
  <2>2. N.ll[1] \in L
    BY <1>7, <1>9, <1>12 DEF LiveOK
  <2>3. ASSUME NEW b \in L
        PROVE  LET B == N.bbs[b] IN
               /\ B.def \in {None} \cup L /\ B.cond \in {None} \cup L
               /\ B.def = None => Len(B.code) # 0 /\ B.code[Len(B.code)].op = "ret"
    <3>1. CASE b = S.cur
      BY <1>6, <1>8, <1>9, <1>12, <3>1
    <3>2. CASE b # S.cur
      <4>1. b \in 1..Len(R.bbs)
        BY <1>6, <1>7, LiveIsPlaced
      <4>2. K.bbs[b] = R.bbs[b]
        BY <1>6, <1>9, <3>2, <4>1 DEF Works
      <4>3. /\ R.bbs[b].def \in {None} \cup {} \cup L /\ R.bbs[b].cond \in {None} \cup {} \cup L
            /\ R.bbs[b].finalized => R.bbs[b].def # None
            /\ b # R.cur => R.bbs[b].finalized
        BY <1>7 DEF LiveOK
      <4> QED
        BY <1>6, <1>12, <3>2, <4>2, <4>3
    <3> QED
      BY <3>1, <3>2
  <2> QED
    BY <1>12, <2>1, <2>2, <2>3 DEF RunsIn
<1>15. Keeps(S, N)
  <2>1. Keeps(S, R) /\ Keeps(R, K)
    BY <1>6, <1>9, WorksKeeps
  <2>2. S \in Graph /\ R \in Graph /\ K \in Graph /\ N \in Graph
    BY <1>4, <1>6, <1>9, <1>12 DEF GraphOK
  <2>3. Keeps(S, K)
    BY <2>1, <2>2, KeepsTransitive
  <2> QED
    BY <1>12, <2>2, <2>3, KeepsTransitive
<1> QED
  BY <1>12, <1>13, <1>14, <1>15 DEF DoneOK

-----------------------------------------------------------------------------
(* The generation preserves its invariant, statement by statement. *)
GenInv ==
  /\ prog \in Seq(Tokens) /\ done \in BOOLEAN
  /\ ~done => MidOK(G, work, prog)
  /\ done => work = <<>> /\ DoneOK(G)

(* The invariant holds after the step, and what was finalized stays. *)
GenGoal == GenInv' /\ Keeps(G, G')

LEMMA ReadToken ==
  ASSUME GenInv, ~done, NEW t \in Tokens, Read(t)
  PROVE  /\ MidOK(G, work, prog) /\ prog' \in Seq(Tokens) /\ OneMore(prog, prog')
         /\ Here = Len(prog') /\ Here \in Nat /\ prog'[Len(prog')] = t
<1>1. prog \in Seq(Tokens) /\ prog' = Append(prog, t)
  BY DEF GenInv, Read
<1>2. /\ prog' \in Seq(Tokens) /\ OneMore(prog, prog') /\ prog'[Len(prog')] = t
      /\ Len(prog) \in Nat /\ Len(prog') = Len(prog) + 1
  BY <1>1, ReadOne
<1> QED
  BY <1>2 DEF GenInv, Here

LEMMA MidGoal ==
  ASSUME GenInv, prog' \in Seq(Tokens), ~done, UNCHANGED done, MidOK(G', work', prog'),
         Keeps(G, G')
  PROVE  GenGoal
<1>1. done' = FALSE
  BY DEF GenInv
<1>2. GenInv'
  BY <1>1 DEF GenInv
<1> QED
  BY <1>2 DEF GenGoal

LEMMA ExprGoal == ASSUME GenInv, Expr PROVE GenGoal
<1> DEFINE t == Token("expr", <<>>, {}, 0)
<1>0. t \in Tokens
  BY DEF Token, Tokens, TokenKinds
<1>1. Read(t) /\ ~done /\ UNCHANGED <<work, done>>
      /\ G' = quad_new(G, "expr", <<Here, "whole">>, "always")
  BY DEF Expr, Fits
<1> HIDE DEF t
<1>2. /\ MidOK(G, work, prog) /\ prog' \in Seq(Tokens) /\ OneMore(prog, prog') /\ Here \in Nat
  BY <1>0, <1>1, ReadToken
<1>3. <<Here, "whole">> \in Places /\ "expr" \in Operations
  BY <1>2, PlaceOf DEF Operations
<1>4. MidOK(G', work, prog') /\ Keeps(G, G')
  BY <1>1, <1>2, <1>3, QuadStep
<1> QED
  BY <1>1, <1>2, <1>4, MidGoal

LEMMA RetGoal == ASSUME GenInv, Ret PROVE GenGoal
<1> DEFINE t == Token("return", <<>>, {}, 0)
<1>0. t \in Tokens
  BY DEF Token, Tokens, TokenKinds
<1>1. Read(t) /\ ~done /\ UNCHANGED <<work, done>>
      /\ G' = quad_new(G, "ret", <<Here, "whole">>, "always")
  BY DEF Ret, Fits
<1> HIDE DEF t
<1>2. /\ MidOK(G, work, prog) /\ prog' \in Seq(Tokens) /\ OneMore(prog, prog') /\ Here \in Nat
  BY <1>0, <1>1, ReadToken
<1>3. <<Here, "whole">> \in Places /\ "ret" \in Operations
  BY <1>2, PlaceOf DEF Operations
<1>4. MidOK(G', work, prog') /\ Keeps(G, G')
  BY <1>1, <1>2, <1>3, QuadStep
<1> QED
  BY <1>1, <1>2, <1>4, MidGoal

LEMMA LogicalAndGoal == ASSUME GenInv, NEW c \in Conditions, LogicalAnd(c) PROVE GenGoal
<1> DEFINE t == Token("and", c, {}, 0)
<1>0. t \in Tokens
  BY DEF Token, Tokens, TokenKinds
<1>1. Read(t) /\ ~done /\ UNCHANGED <<work, done>> /\ Len(c) = 2
      /\ G' = logand_value(G, Here, c)
  BY DEF LogicalAnd, Fits
<1> HIDE DEF t
<1>2. /\ MidOK(G, work, prog) /\ prog' \in Seq(Tokens) /\ OneMore(prog, prog') /\ Here \in Nat
  BY <1>0, <1>1, ReadToken
<1>3. MidOK(G', work, prog') /\ Keeps(G, G')
  BY <1>1, <1>2, AndStep
<1> QED
  BY <1>1, <1>2, <1>3, MidGoal

LEMMA SizeofGoal == ASSUME GenInv, NEW c \in Conditions, Sizeof(c) PROVE GenGoal
<1> DEFINE t == Token("sizeof", c, {}, 0)
           D == [NewBlocks(G, 1) EXCEPT !.cur = Fresh(G, 1)]
<1>0. t \in Tokens
  BY DEF Token, Tokens, TokenKinds
<1>1. Read(t) /\ ~done /\ UNCHANGED <<work, done>> /\ Len(c) = 2
      /\ G' = [logand_value(D, Here, c) EXCEPT !.cur = G.cur]
  BY DEF Sizeof, Fits
<1> HIDE DEF t
<1>2. /\ MidOK(G, work, prog) /\ prog' \in Seq(Tokens) /\ OneMore(prog, prog') /\ Here \in Nat
  BY <1>0, <1>1, ReadToken
<1>3. MidOK(G', work, prog') /\ Keeps(G, G')
  BY <1>1, <1>2, SizeofStep
<1> QED
  BY <1>1, <1>2, <1>3, MidGoal

LEMMA JumpGoal ==
  ASSUME GenInv, NEW kind \in {"break", "continue"}, Jump(kind)
  PROVE  GenGoal
<1> DEFINE t == Token(kind, <<>>, {}, 0)
<1>0. t \in Tokens
  BY DEF Token, Tokens, TokenKinds
<1>1. Read(t) /\ ~done /\ UNCHANGED <<work, done>> /\ G' = gen_jmp_quads(kind)
  BY DEF Jump, Fits
<1> HIDE DEF t
<1>2. /\ MidOK(G, work, prog) /\ prog' \in Seq(Tokens) /\ OneMore(prog, prog')
  BY <1>0, <1>1, ReadToken
<1>3. CASE G.loop = NoLoop
  <2>1. G' = G
    BY <1>1, <1>3 DEF gen_jmp_quads
  <2>2. GraphOK(G, AllPending(work)) /\ OpenOK(G)
    BY <1>2 DEF MidOK
  <2>3. Good(G, AllPending(work), G)
    BY <2>2, EmitsSelf DEF Good, GraphOK
  <2>4. MidOK(G, work, prog') /\ Keeps(G, G)
    BY <1>2, <2>2, <2>3, QuadsMid
  <2> QED
    BY <1>1, <1>2, <2>1, <2>4, MidGoal
<1>4. CASE G.loop # NoLoop
  <2>1. PICK d \in {G.loop.brk, G.loop.cont} : G' = link_bb(G, "always", d, None)
    BY <1>1, <1>4 DEF gen_jmp_quads
  <2>2. MidOK(G', work, prog') /\ Keeps(G, G')
    BY <1>2, <1>4, <2>1, JumpStep
  <2> QED
    BY <1>1, <1>2, <2>2, MidGoal
<1> QED
  BY <1>3, <1>4

LEMMA IfGoal ==
  ASSUME GenInv, NEW c \in Conditions, NEW has_else \in BOOLEAN, NEW garbage \in UninitializedCC,
         If(c, has_else, garbage)
  PROVE  GenGoal
<1> DEFINE t == Token("if", c, IF has_else THEN {"else"} ELSE {}, 0)
           kind == IF has_else THEN "then" ELSE "if"
           f == IfCall(G, Here, kind)
<1>1. t \in Tokens
  <2>1. (IF has_else THEN {"else"} ELSE {}) \in SUBSET {"init", "update", "else"}
    OBVIOUS
  <2> QED
    BY <2>1 DEF Token, Tokens, TokenKinds
<1>2. Read(t) /\ ~done /\ UNCHANGED done
  BY DEF If, Fits
<1>3. f = Call(kind, Fresh(G, 1), None, Fresh(G, 2),
               IF has_else THEN Fresh(G, 3) ELSE Fresh(G, 2))
  BY DEF IfCall, Call
<1>4. f.body = Fresh(G, 1) /\ f.alt = Fresh(G, 2)
  BY DEF IfCall
<1>5. work' = Append(work, f)
  BY <1>3 DEF If, Enter
<1>6. G' = IfGraph(G, Here, c, kind, garbage)
  BY <1>4 DEF If, IfBlocks, IfGraph
<1>9. kind \in {"if", "then"}
  OBVIOUS
<1> HIDE DEF t, kind
<1>7. /\ MidOK(G, work, prog) /\ prog' \in Seq(Tokens) /\ OneMore(prog, prog') /\ Here \in Nat
      /\ Here = Len(prog')
  BY <1>1, <1>2, ReadToken
<1>8. IfDone(G, work, prog', c, kind, garbage, G', work')
  BY <1>5, <1>6, <1>7, <1>9 DEF IfDone
<1>10. MidOK(G', work', prog') /\ Keeps(G, G')
  BY <1>7, <1>8, IfStep
<1> QED
  BY <1>2, <1>7, <1>10, MidGoal

(* A call is active: generate_quads has not returned. *)
LEMMA StillActive ==
  ASSUME GenInv, work # <<>>
  PROVE  /\ ~done /\ MidOK(G, work, prog) /\ Top \in Calls /\ Top = Last(work)
         /\ Top.open \in Nat /\ prog[Top.open] \in Tokens
         /\ Top.kind = "while" => prog[Top.open].chain \in Conditions
<1>1. ~done /\ MidOK(G, work, prog) /\ Top = Last(work) /\ prog \in Seq(Tokens)
  BY DEF GenInv, Top
<1>2. PICK L : WorkOK(work, L, G.loop, prog)
  BY <1>1 DEF MidOK
<1>3. Top \in Calls /\ FrameOK(work, Len(work), L, prog) /\ Top = work[Len(work)]
  BY <1>1, <1>2, InnermostCall
<1>4. Top.open \in 1..Len(prog) /\ (Top.kind = "while" => prog[Top.open].chain \in Conditions)
  BY <1>3 DEF FrameOK
<1>5. Top.open \in Nat /\ prog[Top.open] \in Tokens
  BY <1>1, <1>4, ElementOfSeq
<1> QED
  BY <1>1, <1>3, <1>4, <1>5

LEMMA ElseGoal == ASSUME GenInv, Else PROVE GenGoal
<1> DEFINE t == Token("else", <<>>, {}, Top.open)
<1>1. /\ work # <<>> /\ Read(t) /\ UNCHANGED done /\ Turns(work, work')
      /\ Top.kind = "then"
      /\ G' = bb_ll_push(link_bb(G, "always", Top.next, None), Top.alt)
  BY DEF Else, Turns
<1>2. ~done /\ Top.open \in Nat /\ Top = Last(work)
  BY <1>1, StillActive
<1>3. t \in Tokens
  BY <1>2 DEF Token, Tokens, TokenKinds
<1> HIDE DEF t
<1>4. /\ MidOK(G, work, prog) /\ prog' \in Seq(Tokens) /\ OneMore(prog, prog')
  BY <1>1, <1>2, <1>3, ReadToken
<1>5. MidOK(G', work', prog') /\ Keeps(G, G')
  BY <1>1, <1>2, <1>4, ElseStep
<1> QED
  BY <1>1, <1>2, <1>4, <1>5, MidGoal

LEMMA EndIfGoal == ASSUME GenInv, EndIf PROVE GenGoal
<1> DEFINE t == Token("endif", <<>>, {}, Top.open)
<1>1. /\ work # <<>> /\ Read(t) /\ UNCHANGED done /\ work' = Front(work)
      /\ Top.kind \in {"if", "else"}
      /\ G' = bb_ll_push(link_bb(G, "always", Top.next, None), Top.next)
  BY DEF EndIf, Return
<1>2. ~done /\ Top.open \in Nat /\ Top = Last(work)
  BY <1>1, StillActive
<1>3. t \in Tokens
  BY <1>2 DEF Token, Tokens, TokenKinds
<1> HIDE DEF t
<1>4. /\ MidOK(G, work, prog) /\ prog' \in Seq(Tokens) /\ OneMore(prog, prog')
  BY <1>1, <1>2, <1>3, ReadToken
<1>5. MidOK(G', Front(work), prog') /\ Keeps(G, G')
  BY <1>1, <1>2, <1>4, EndIfStep
<1> QED
  BY <1>1, <1>2, <1>4, <1>5, MidGoal

LEMMA WhileGoal == ASSUME GenInv, NEW c \in Conditions, While(c) PROVE GenGoal
<1> DEFINE t == Token("while", c, {}, 0)
           f == LoopCall("while", G, Here)
           F == [NewBlocks(G, 3) EXCEPT !.loop = [brk |-> f.next, cont |-> f.cond]]
<1>1. t \in Tokens /\ t.chain = c
  BY DEF Token, Tokens, TokenKinds
<1>2. Read(t) /\ ~done /\ UNCHANGED done
  BY DEF While, Fits
<1>3. /\ f = Call("while", Fresh(G, 1), Fresh(G, 2), None, Fresh(G, 3))
      /\ f.body = Fresh(G, 1) /\ f.cond = Fresh(G, 2) /\ f.next = Fresh(G, 3)
  BY DEF LoopCall, Call
<1>4. work' = Append(work, f)
  BY <1>3 DEF While, Enter
<1>5. G' = bb_ll_push(link_bb(F, "always", f.cond, None), f.body)
  BY <1>3 DEF While
<1> HIDE DEF t
<1>6. /\ MidOK(G, work, prog) /\ prog' \in Seq(Tokens) /\ OneMore(prog, prog')
      /\ Here = Len(prog') /\ prog'[Len(prog')] = t
  BY <1>1, <1>2, ReadToken
<1>7. LoopDone(G, work, prog', "while", G', work')
  BY <1>1, <1>4, <1>5, <1>6 DEF LoopDone
<1>8. MidOK(G', work', prog') /\ Keeps(G, G')
  BY <1>6, <1>7, LoopStep
<1> QED
  BY <1>2, <1>6, <1>8, MidGoal

LEMMA DoGoal == ASSUME GenInv, Do PROVE GenGoal
<1> DEFINE t == Token("do", <<>>, {}, 0)
           f == LoopCall("do", G, Here)
           F == [NewBlocks(G, 3) EXCEPT !.loop = [brk |-> f.next, cont |-> f.cond]]
<1>1. t \in Tokens
  BY DEF Token, Tokens, TokenKinds
<1>2. Read(t) /\ ~done /\ UNCHANGED done
  BY DEF Do, Fits
<1>3. /\ f = Call("do", Fresh(G, 1), Fresh(G, 2), None, Fresh(G, 3))
      /\ f.body = Fresh(G, 1) /\ f.cond = Fresh(G, 2) /\ f.next = Fresh(G, 3)
  BY DEF LoopCall, Call
<1>4. work' = Append(work, f)
  BY <1>3 DEF Do, Enter
<1>5. G' = bb_ll_push(link_bb(F, "always", f.body, None), f.body)
  BY <1>3 DEF Do
<1> HIDE DEF t
<1>6. /\ MidOK(G, work, prog) /\ prog' \in Seq(Tokens) /\ OneMore(prog, prog')
      /\ Here = Len(prog')
  BY <1>1, <1>2, ReadToken
<1>7. LoopDone(G, work, prog', "do", G', work')
  BY <1>1, <1>4, <1>5, <1>6 DEF LoopDone
<1>8. MidOK(G', work', prog') /\ Keeps(G, G')
  BY <1>6, <1>7, LoopStep
<1> QED
  BY <1>2, <1>6, <1>8, MidGoal

LEMMA EndWhileGoal ==
  ASSUME GenInv, NEW garbage \in UninitializedCC, EndWhile(garbage)
  PROVE  GenGoal
<1> DEFINE t == Token("endwhile", <<>>, {}, Top.open)
<1>1. /\ work # <<>> /\ Read(t) /\ UNCHANGED done /\ work' = Front(work)
      /\ Top.kind = "while"
      /\ G' = LoopCondition(G, Top.open, prog[Top.open].chain, Top, garbage)
  BY DEF EndWhile, Return
<1>2. ~done /\ Top.open \in Nat /\ Top = Last(work) /\ prog[Top.open].chain \in Conditions
  BY <1>1, StillActive
<1>3. t \in Tokens
  BY <1>2 DEF Token, Tokens, TokenKinds
<1> HIDE DEF t
<1>4. /\ MidOK(G, work, prog) /\ prog' \in Seq(Tokens) /\ OneMore(prog, prog')
  BY <1>1, <1>2, <1>3, ReadToken
<1>5. MidOK(G', Front(work), prog') /\ Keeps(G, G')
  BY <1>1, <1>2, <1>4, LoopConditionStep
<1> QED
  BY <1>1, <1>2, <1>4, <1>5, MidGoal

LEMMA EndDoGoal ==
  ASSUME GenInv, NEW c \in Conditions, NEW garbage \in UninitializedCC, EndDo(c, garbage)
  PROVE  GenGoal
<1> DEFINE t == Token("enddo", c, {}, Top.open)
<1>1. /\ work # <<>> /\ Read(t) /\ UNCHANGED done /\ work' = Front(work)
      /\ Top.kind = "do" /\ G' = LoopCondition(G, Here, c, Top, garbage)
  BY DEF EndDo, Return
<1>2. ~done /\ Top.open \in Nat /\ Top = Last(work)
  BY <1>1, StillActive
<1>3. t \in Tokens
  BY <1>2 DEF Token, Tokens, TokenKinds
<1> HIDE DEF t
<1>4. /\ MidOK(G, work, prog) /\ prog' \in Seq(Tokens) /\ OneMore(prog, prog') /\ Here \in Nat
  BY <1>1, <1>2, <1>3, ReadToken
<1>5. MidOK(G', Front(work), prog') /\ Keeps(G, G')
  BY <1>1, <1>2, <1>4, LoopConditionStep
<1> QED
  BY <1>1, <1>2, <1>4, <1>5, MidGoal

LEMMA ForGoal ==
  ASSUME GenInv, NEW c \in Conditions \cup {<<>>}, NEW parts \in ForParts, For(c, parts)
  PROVE  GenGoal
<1> DEFINE t == Token("for", c, parts, 0)
           f == ForCall(G, Here)
           F == [NewBlocks(G, 4) EXCEPT !.loop = for_loop(f.body, f.alt, f.next)]
           I == QuadIf("init" \in parts, F, <<Here, "init">>)
<1>1. t \in Tokens
  <2>1. parts \in SUBSET {"init", "update", "else"}
    BY CFGenAssumption
  <2> QED
    BY <2>1 DEF Token, Tokens, TokenKinds
<1>2. Read(t) /\ ~done /\ UNCHANGED done
  BY DEF For, Fits
<1>3. /\ f = Call("for", Fresh(G, 2), Fresh(G, 1), Fresh(G, 3), Fresh(G, 4))
      /\ f.body = Fresh(G, 2) /\ f.cond = Fresh(G, 1) /\ f.alt = Fresh(G, 3)
      /\ f.next = Fresh(G, 4)
  BY DEF ForCall, Call
<1>4. work' = Append(work, f)
  BY <1>3 DEF For, Enter
<1>5. G' = bb_ll_push(link_bb(I, "always", f.cond, None), f.body)
  BY <1>3 DEF For
<1>6. MaybeQuad(F, <<Here, "init">>, I)
  BY DEF MaybeQuad, QuadIf
<1> HIDE DEF t, I
<1>7. /\ MidOK(G, work, prog) /\ prog' \in Seq(Tokens) /\ OneMore(prog, prog')
      /\ Here = Len(prog')
  BY <1>1, <1>2, ReadToken
<1>8. ForDone(G, work, prog', I, G', work')
  BY <1>4, <1>5, <1>6, <1>7 DEF ForDone
<1>9. MidOK(G', work', prog') /\ Keeps(G, G')
  BY <1>7, <1>8, ForStep
<1> QED
  BY <1>2, <1>7, <1>9, MidGoal

LEMMA EndForGoal ==
  ASSUME GenInv, NEW garbage \in UninitializedCC, EndFor(garbage)
  PROVE  GenGoal
<1> DEFINE t == Token("endfor", <<>>, {}, Top.open)
           chain == prog[Top.open].chain
           X == bb_ll_push(link_bb(G, "always", Top.alt, None), Top.alt)
           U == QuadIf("update" \in prog[Top.open].parts, X, <<Top.open, "update">>)
           C == bb_ll_push(link_bb(U, "always", Top.cond, None), Top.cond)
           Z == ForCondition(C, Top.open, chain, Top, garbage)
<1>1. /\ work # <<>> /\ Read(t) /\ UNCHANGED done /\ work' = Front(work) /\ Top.kind = "for"
  BY DEF EndFor, Return
<1>2. G' = bb_ll_push([Z EXCEPT !.loop = Top.prev], Top.next)
  BY DEF EndFor, ForCondition
<1>3. ~done /\ Top.open \in Nat /\ Top = Last(work) /\ chain \in Conditions \cup {<<>>}
  BY <1>1, StillActive DEF Tokens
<1>4. t \in Tokens
  BY <1>3 DEF Token, Tokens, TokenKinds
<1>5. MaybeQuad(X, <<Top.open, "update">>, U)
  BY DEF MaybeQuad, QuadIf
<1> HIDE DEF t, U, chain
<1>6. /\ MidOK(G, work, prog) /\ prog' \in Seq(Tokens) /\ OneMore(prog, prog')
  BY <1>1, <1>3, <1>4, ReadToken
<1>7. EndForDone(G, Top, chain, garbage, U, G')
  BY <1>1, <1>2, <1>3, <1>5 DEF EndForDone
<1>8. MidOK(G', Front(work), prog') /\ Keeps(G, G')
  <2>1. EndForDone(G, Last(work), chain, garbage, U, G')
    BY <1>3, <1>7
  <2> QED
    BY <1>1, <1>6, <2>1, EndForStep
<1> QED
  BY <1>1, <1>3, <1>6, <1>8, MidGoal

LEMMA EndFunctionGoal == ASSUME GenInv, EndFunction PROVE GenGoal
<1> DEFINE t == Token("end", <<>>, {}, 0)
<1>1. t \in Tokens
  BY DEF Token, Tokens, TokenKinds
<1>2. Read(t) /\ ~done /\ work = <<>> /\ work' = <<>> /\ done' = TRUE
  BY DEF EndFunction
<1>3. Ends(G, <<Here, "whole">>, G')
  BY DEF EndFunction, EndsInReturn, Ends
<1> HIDE DEF t
<1>4. /\ MidOK(G, work, prog) /\ prog' \in Seq(Tokens) /\ Here \in Nat
  BY <1>1, <1>2, ReadToken
<1>5. MidOK(G, <<>>, prog) /\ <<Here, "whole">> \in Places
  BY <1>2, <1>4, PlaceOf
<1>6. DoneOK(G') /\ Keeps(G, G')
  BY <1>3, <1>5, EndStep
<1>7. GenInv'
  BY <1>2, <1>4, <1>6 DEF GenInv
<1> QED
  BY <1>6, <1>7 DEF GenGoal

(* The function starts in its first block. *)
FirstGraph(S) == S = [bbs |-> <<NewBlock>>, cur |-> 1, ll |-> <<1>>, loop |-> NoLoop]

LEMMA FirstGraphOK ==
  ASSUME NEW S, FirstGraph(S)
  PROVE  /\ GraphOK(S, {}) /\ HeadOK(S) /\ OpenOK(S) /\ LiveOK(S, {}, {1})
         /\ S.loop = NoLoop
<1> DEFINE b == <<NewBlock>>
           l == <<1>>
<1>1. /\ b \in Seq(Block) /\ Len(b) = 1 /\ b[1] = NewBlock
      /\ l \in Seq(Nat) /\ Len(l) = 1 /\ l[1] = 1
  BY NewBlockType
<1>2. NoLoop \in [brk : Nat, cont : Nat]
  BY DEF NoLoop, None
<1>3. S = [bbs |-> b, cur |-> 1, ll |-> l, loop |-> NoLoop]
  BY DEF FirstGraph
<1> HIDE DEF b, l
<1>4. S.bbs = b /\ S.cur = 1 /\ S.ll = l /\ S.loop = NoLoop
  BY <1>3
<1>5. S \in Graph
  BY <1>1, <1>2, <1>3 DEF Graph
<1>6. \A i \in 1..1 : i = 1
  OBVIOUS
<1>7. 1 \in 1..1
  OBVIOUS
<1>8. OnList(S) = {1}
  BY <1>1, <1>4, <1>6, <1>7 DEF OnList
<1>9. BlockOK(NewBlock, S, {})
  BY NewBlockType DEF BlockOK, Targets
<1>10. ListOK(S, {}) /\ PendingOK(S, {})
  BY <1>1, <1>4, <1>6, <1>7 DEF ListOK, PendingOK
<1>11. GraphOK(S, {})
  BY <1>1, <1>4, <1>5, <1>6, <1>7, <1>9, <1>10 DEF GraphOK
<1>12. /\ Len(S.ll) # 0 /\ S.ll[Len(S.ll)] = 1 /\ S.ll[1] = 1 /\ S.bbs[1] = NewBlock
       /\ S.cur = 1
  <2>1. Len(S.ll) = 1 /\ S.ll[1] = 1 /\ S.bbs[1] = NewBlock /\ S.cur = 1
    BY <1>1, <1>4, Zenon
  <2> QED
    BY ONLY <2>1
<1>13. NewBlock.def = None /\ NewBlock.cond = None /\ ~NewBlock.finalized
  BY NewBlockType
<1>14. LiveOK(S, {}, {1})
  BY ONLY <1>8, <1>12, <1>13 DEF LiveOK
<1>15. HeadOK(S) /\ OpenOK(S)
  BY ONLY <1>12, <1>13 DEF HeadOK, OpenOK, Ended
<1> QED
  BY <1>4, <1>11, <1>14, <1>15

LEMMA GenStart == ASSUME GenInit PROVE GenInv
<1>1. prog = <<>> /\ work = <<>> /\ done = FALSE
  BY DEF GenInit
<1>2. FirstGraph(G)
  <2>1. <<1>> \o <<>> = <<1>>
    OBVIOUS
  <2> QED
    BY <2>1 DEF GenInit, bb_ll_push, FirstGraph
<1>3. AllPending(<<>>) = {}
  BY DEF AllPending
<1>4. WorkOK(<<>>, {1}, NoLoop, <<>>)
  BY DEF WorkOK, LoopAmong
<1>5. MidOK(G, <<>>, <<>>)
  BY <1>2, <1>3, <1>4, FirstGraphOK DEF MidOK
<1>6. <<>> \in Seq(Tokens)
  OBVIOUS
<1> QED
  BY <1>1, <1>5, <1>6 DEF GenInv

LEMMA GenStep == ASSUME GenInv, GenNext PROVE GenGoal
<1>1. CASE Expr
  BY <1>1, ExprGoal
<1>2. CASE Ret
  BY <1>2, RetGoal
<1>3. ASSUME NEW c \in Conditions, LogicalAnd(c) PROVE GenGoal
  BY <1>3, LogicalAndGoal
<1>4. ASSUME NEW c \in Conditions, Sizeof(c) PROVE GenGoal
  BY <1>4, SizeofGoal
<1>5. ASSUME NEW kind \in {"break", "continue"}, Jump(kind) PROVE GenGoal
  BY <1>5, JumpGoal
<1>6. ASSUME NEW c \in Conditions, NEW has_else \in BOOLEAN, NEW garbage \in UninitializedCC,
             If(c, has_else, garbage)
      PROVE  GenGoal
  BY <1>6, IfGoal
<1>7. CASE Else
  BY <1>7, ElseGoal
<1>8. CASE EndIf
  BY <1>8, EndIfGoal
<1>9. ASSUME NEW c \in Conditions, While(c) PROVE GenGoal
  BY <1>9, WhileGoal
<1>10. CASE Do
  BY <1>10, DoGoal
<1>11. ASSUME NEW garbage \in UninitializedCC, EndWhile(garbage) PROVE GenGoal
  BY <1>11, EndWhileGoal
<1>12. ASSUME NEW garbage \in UninitializedCC, EndFor(garbage) PROVE GenGoal
  BY <1>12, EndForGoal
<1>13. ASSUME NEW c \in Conditions, NEW garbage \in UninitializedCC, EndDo(c, garbage)
       PROVE  GenGoal
  BY <1>13, EndDoGoal
<1>14. ASSUME NEW c \in Conditions \cup {<<>>}, NEW parts \in ForParts, For(c, parts)
       PROVE  GenGoal
  BY <1>14, ForGoal
<1>15. CASE EndFunction
  BY <1>15, EndFunctionGoal
<1> QED
  BY <1>1, <1>2, <1>3, <1>4, <1>5, <1>6, <1>7, <1>8, <1>9, <1>10, <1>11, <1>12, <1>13, <1>14,
     <1>15 DEF GenNext

-----------------------------------------------------------------------------
(* The execution *)

(* Control is in one of the blocks L, and a block that leads nowhere is    *)
(* left by its return.                                                     *)
InCode(S, at) == at[2] <= Len(S.bbs[S.ll[at[1]]].code)
AtBlock(S, L, at) ==
  /\ at[1] \in 1..Len(S.ll) /\ S.ll[at[1]] \in L /\ at[2] # 0
  /\ S.bbs[S.ll[at[1]]].def = None => InCode(S, at)
Runs(S, at) == \E L : RunsIn(S, L) /\ AtBlock(S, L, at)

RunTypes ==
  /\ pc \in Nat \X Nat /\ flags \in Orders /\ reg \in Orders /\ beat \in BOOLEAN
  /\ mode \in {"generate", "run", "returned"}
RunInv ==
  /\ GenInv /\ RunTypes
  /\ mode # "generate" => done
  /\ mode = "run" => Runs(G, pc)

LEMMA RunStart == ASSUME Init PROVE RunInv
<1>1. GenInv
  BY GenStart DEF Init
<1>2. RunTypes
  BY DEF Init, RunTypes, Orders
<1> QED
  BY <1>1, <1>2 DEF Init, RunInv

(* Where control starts *)
LEMMA EnterRuns ==
  ASSUME NEW S, DoneOK(S)
  PROVE  Runs(S, <<1, 1>>)
<1>1. PICK L : RunsIn(S, L)
  BY DEF DoneOK
<1> DEFINE b == S.bbs[S.ll[1]]
<1>2. Len(S.ll) \in Nat /\ Len(S.ll) # 0 /\ S.ll[1] \in L
  BY <1>1, GraphFields DEF DoneOK, GraphOK, RunsIn
<1>3. 1 \in 1..Len(S.ll)
  BY <1>2
<1>4. b \in Block
  BY <1>3, GraphFields DEF DoneOK, GraphOK, ListOK
<1>5. Len(b.code) \in Nat
  BY <1>4, BlockFields
<1>6. b.def = None => Len(b.code) # 0
  BY <1>1, <1>2 DEF RunsIn
<1>7. b.def = None => 1 <= Len(b.code)
  BY <1>5, <1>6
<1> QED
  BY <1>1, <1>2, <1>3, <1>7 DEF Runs, AtBlock, InCode

(* The block that control is in *)
LEMMA BlockAt ==
  ASSUME NEW S, DoneOK(S), NEW at \in Nat \X Nat, NEW L, AtBlock(S, L, at),
         NEW b, b = S.bbs[S.ll[at[1]]]
  PROVE  /\ b \in Block /\ b.code \in Seq(QuadRecords) /\ Len(b.code) \in Nat
         /\ CodeOK(b) /\ at[1] \in 1..Len(S.ll) /\ at[1] \in Nat /\ at[2] \in Nat /\ at[2] # 0
         /\ Len(S.ll) \in Nat
<1>1. S.ll[at[1]] \in 1..Len(S.bbs) /\ S \in Graph
  BY DEF DoneOK, GraphOK, ListOK, AtBlock
<1>2. b \in Block /\ CodeOK(b)
  BY <1>1, GraphFields DEF DoneOK, GraphOK, BlockOK
<1> QED
  BY <1>1, <1>2, BlockFields, GraphFields DEF AtBlock

(* A quad that is not a return has been executed. *)
LEMMA AdvanceRuns ==
  ASSUME NEW S, DoneOK(S), NEW at \in Nat \X Nat, Runs(S, at), InCode(S, at),
         S.bbs[S.ll[at[1]]].code[at[2]].op # "ret",
         NEW to, to = [at EXCEPT ![2] = @ + 1]
  PROVE  to \in Nat \X Nat /\ Runs(S, to)
<1> DEFINE b == S.bbs[S.ll[at[1]]]
           n == Len(b.code)
<1>1. PICK L : RunsIn(S, L) /\ AtBlock(S, L, at)
  BY DEF Runs
<1>2. n \in Nat /\ at[1] \in Nat /\ at[2] \in Nat
  BY <1>1, BlockAt
<1>3. to = <<at[1], at[2] + 1>> /\ to[1] = at[1] /\ to[2] = at[2] + 1
  BY <1>2
<1>4. to \in Nat \X Nat /\ to[2] # 0
  BY <1>2, <1>3
<1>5. b.def = None => n # 0 /\ b.code[n].op = "ret"
  BY <1>1 DEF RunsIn, AtBlock
<1>6. b.def = None => InCode(S, to)
  <2>1. CASE b.def = None
    <3>1. at[2] # n /\ at[2] <= n
      BY <1>5, <2>1 DEF InCode
    <3>2. at[2] + 1 <= n
      BY <1>2, <3>1
    <3> QED
      BY <1>3, <3>2 DEF InCode
  <2> QED
    BY <2>1
<1> HIDE DEF b, n
<1>7. AtBlock(S, L, to)
  BY <1>1, <1>3, <1>4, <1>6 DEF AtBlock, b
<1> QED
  BY <1>1, <1>4, <1>7 DEF Runs

(* A jump leads to the first quad of a placed block. *)
LEMMA JumpRuns ==
  ASSUME NEW S, DoneOK(S), NEW L, RunsIn(S, L), NEW k \in 1..Len(S.ll), S.ll[k] \in L
  PROVE  <<k, 1>> \in Nat \X Nat /\ Runs(S, <<k, 1>>)
<1> DEFINE b == S.bbs[S.ll[k]]
<1>1. b \in Block
  BY GraphFields DEF DoneOK, GraphOK, ListOK
<1>2. Len(b.code) \in Nat
  BY <1>1, BlockFields
<1>3. b.def = None => Len(b.code) # 0
  BY DEF RunsIn
<1>4. b.def = None => 1 <= Len(b.code)
  BY <1>2, <1>3
<1>5. k \in Nat
  BY GraphFields DEF DoneOK, GraphOK
<1> QED
  BY <1>4, <1>5 DEF Runs, AtBlock, InCode

(* A block that has been executed leads on. *)
LEMMA TargetPlaced ==
  ASSUME DoneOK(G), pc \in Nat \X Nat, ~InBlock, NEW L, RunsIn(G, L), AtBlock(G, L, pc)
  PROVE  /\ Target # {} /\ Target \subseteq 1..Len(G.ll)
         /\ \A p \in Target : G.ll[p] \in L
<1> DEFINE b == BlockHere
           i == pc[1]
           n == Len(G.ll)
<1>1. i \in 1..n /\ i \in Nat /\ n \in Nat
  BY BlockAt DEF AtBlock
<1>2. b.def # None /\ b.def \in L /\ b.cond \in {None} \cup L
  <2>1. ~InCode(G, pc)
    BY DEF InBlock, InCode, BlockHere
  <2> QED
    BY <2>1 DEF AtBlock, RunsIn, BlockHere
<1>3. ASSUME NEW k \in L
      PROVE  /\ PositionOf(k) # {} /\ PositionOf(k) \subseteq 1..n
             /\ \A p \in PositionOf(k) : G.ll[p] \in L
  BY <1>3 DEF RunsIn, OnList, PositionOf
<1>4. CASE b.cond # None /\ Holds(b.cc, flags)
  <2>1. Target = PositionOf(b.cond) /\ b.cond \in L
    BY <1>2, <1>4 DEF Target
  <2> QED
    BY <1>3, <2>1
<1>5. CASE /\ ~(b.cond # None /\ Holds(b.cc, flags))
           /\ i = n \/ b.def # G.ll[i + 1]
  <2>1. Target = PositionOf(b.def)
    BY <1>2, <1>5 DEF Target
  <2> QED
    BY <1>2, <1>3, <2>1
<1>6. CASE /\ ~(b.cond # None /\ Holds(b.cc, flags))
           /\ ~(i = n \/ b.def # G.ll[i + 1])
  <2>1. Target = {i + 1} \cap (1..n)
    BY <1>2, <1>6 DEF Target
  <2>2. i + 1 \in 1..n
    BY <1>1, <1>6
  <2>3. Target = {i + 1} /\ G.ll[i + 1] = b.def
    BY <1>6, <2>1, <2>2
  <2> QED
    BY <1>2, <2>2, <2>3
<1> QED
  BY <1>4, <1>5, <1>6

LEMMA LeaveRuns ==
  ASSUME RunInv, LeaveBlock
  PROVE  mode' = "run" /\ pc' \in Nat \X Nat /\ Runs(G, pc')
<1>1. mode = "run" /\ ~InBlock /\ DoneOK(G) /\ pc \in Nat \X Nat /\ Runs(G, pc)
  BY DEF RunInv, RunTypes, GenInv, LeaveBlock
<1>2. PICK L : RunsIn(G, L) /\ AtBlock(G, L, pc)
  BY <1>1 DEF Runs
<1>3. /\ Target # {} /\ Target \subseteq 1..Len(G.ll)
      /\ \A p \in Target : G.ll[p] \in L
  BY <1>1, <1>2, TargetPlaced
<1>4. PICK p \in Target : pc' = <<p, 1>>
  BY <1>3 DEF LeaveBlock
<1>5. mode' = "run"
  BY <1>1, <1>3 DEF LeaveBlock
<1>6. p \in 1..Len(G.ll) /\ G.ll[p] \in L
  BY <1>3
<1>7. <<p, 1>> \in Nat \X Nat /\ Runs(G, <<p, 1>>)
  BY <1>1, <1>2, <1>6, JumpRuns
<1> QED
  BY <1>4, <1>5, <1>7

(* The quad that is executed *)
LEMMA QuadHere ==
  ASSUME RunInv, mode = "run", InBlock
  PROVE  /\ DoneOK(G) /\ pc \in Nat \X Nat /\ Runs(G, pc) /\ InCode(G, pc)
         /\ Quad = G.bbs[G.ll[pc[1]]].code[pc[2]]
         /\ Quad.op = "cmpk" => Quad.cc \in Relations
<1>1. DoneOK(G) /\ pc \in Nat \X Nat /\ Runs(G, pc)
  BY DEF RunInv, RunTypes, GenInv
<1>2. InCode(G, pc) /\ Quad = G.bbs[G.ll[pc[1]]].code[pc[2]]
  BY DEF InBlock, InCode, BlockHere, Quad
<1>3. PICK L : AtBlock(G, L, pc)
  BY <1>1 DEF Runs
<1> DEFINE b == G.bbs[G.ll[pc[1]]]
<1>4. /\ b.code \in Seq(QuadRecords) /\ Len(b.code) \in Nat /\ CodeOK(b)
      /\ pc[2] \in Nat /\ pc[2] # 0
  BY <1>1, <1>3, BlockAt
<1>5. pc[2] \in 1..Len(b.code)
  BY <1>2, <1>4 DEF InCode
<1>6. Quad \in QuadRecords
  BY <1>2, <1>4, <1>5, ElementOfSeq
<1>7. Quad.op = "cmpk" => Quad.cc # "always"
  BY <1>2, <1>4, <1>5 DEF CodeOK
<1> QED
  BY <1>1, <1>2, <1>6, <1>7 DEF QuadRecords, CodesOrNot

LEMMA AdvanceKeeps ==
  ASSUME RunInv, mode = "run", InBlock, Quad.op # "ret", Advance,
         flags' \in Orders, reg' \in Orders, beat' \in BOOLEAN
  PROVE  RunInv' /\ UNCHANGED G
<1>1. UNCHANGED <<prog, work, G, done, mode>> /\ pc' = [pc EXCEPT ![2] = @ + 1]
  BY DEF Advance, genvars
<1>2. pc' \in Nat \X Nat /\ Runs(G, pc')
  BY <1>1, QuadHere, AdvanceRuns
<1>3. Runs(G', pc')
  BY <1>1, <1>2
<1>4. GenInv'
  BY <1>1 DEF RunInv, GenInv
<1>5. RunTypes'
  BY <1>1, <1>2 DEF RunInv, RunTypes
<1> QED
  BY <1>1, <1>3, <1>4, <1>5 DEF RunInv

LEMMA RunKeeps == ASSUME RunInv, Run PROVE RunInv' /\ UNCHANGED G
<1>1. flags \in Orders /\ reg \in Orders /\ beat \in BOOLEAN
  BY DEF RunInv, RunTypes
<1>2. ASSUME NEW b, Seen(b) PROVE beat' \in BOOLEAN
  BY <1>2 DEF Seen
<1>3. CASE Evaluate
  BY <1>1, <1>2, <1>3, AdvanceKeeps DEF Evaluate, Executing
<1>4. CASE Compare
  <2>1. PICK order \in Orders : flags' = order /\ Seen(Holds(Quad.cc, order))
    BY <1>4 DEF Compare
  <2> QED
    BY <1>1, <1>2, <1>4, <2>1, AdvanceKeeps DEF Compare, Executing
<1>5. CASE Test
  <2>1. PICK order \in Orders : reg' = order /\ Seen(order # "eq")
    BY <1>5 DEF Test
  <2> QED
    BY <1>1, <1>2, <1>5, <2>1, AdvanceKeeps DEF Test, Executing
<1>6. CASE CompareZero
  BY <1>1, <1>6, AdvanceKeeps DEF CompareZero, Executing
<1>7. CASE CompareFalse
  <2>1. mode = "run" /\ InBlock /\ Quad.op = "cmpk" /\ flags' = FalseOrder(Quad.cc)
    BY <1>7 DEF CompareFalse, Executing
  <2>2. Quad.cc \in Relations
    BY <2>1, QuadHere
  <2>3. flags' \in Orders
    BY <2>1, <2>2 DEF FalseOrder, Relations, Orders
  <2> QED
    BY <1>1, <1>7, <2>1, <2>3, AdvanceKeeps DEF CompareFalse
<1>8. CASE Move
  BY <1>1, <1>8, AdvanceKeeps DEF Move, Executing
<1>9. CASE ReturnTo
  <2>1. /\ mode = "run" /\ mode' = "returned" /\ beat' \in BOOLEAN
        /\ UNCHANGED <<prog, work, G, done, pc, flags, reg>>
    BY <1>2, <1>9 DEF ReturnTo, Executing, genvars
  <2>2. GenInv'
    BY <2>1 DEF RunInv, GenInv
  <2>3. RunTypes'
    BY <2>1 DEF RunInv, RunTypes
  <2> QED
    BY <2>1, <2>2, <2>3 DEF RunInv
<1>10. CASE LeaveBlock
  <2>1. mode = "run" /\ UNCHANGED <<prog, work, G, done, flags, reg, beat>>
    BY <1>10 DEF LeaveBlock, genvars
  <2>2. mode' = "run" /\ pc' \in Nat \X Nat /\ Runs(G, pc')
    BY <1>10, LeaveRuns
  <2>3. Runs(G', pc')
    BY <2>1, <2>2
  <2>4. GenInv'
    BY <2>1 DEF RunInv, GenInv
  <2>5. RunTypes'
    BY <2>1, <2>2 DEF RunInv, RunTypes
  <2> QED
    BY <2>1, <2>2, <2>3, <2>4, <2>5 DEF RunInv
<1> QED
  BY <1>3, <1>4, <1>5, <1>6, <1>7, <1>8, <1>9, <1>10 DEF Run

LEMMA RunStep == ASSUME RunInv, [Next]_vars PROVE RunInv' /\ (UNCHANGED G \/ Keeps(G, G'))
<1>1. CASE Generate
  <2>1. mode = "generate" /\ GenNext /\ UNCHANGED <<pc, flags, reg, beat, mode>>
    BY <1>1 DEF Generate, runvars
  <2>2. GenInv' /\ Keeps(G, G')
    BY <2>1, GenStep DEF RunInv, GenGoal
  <2>3. RunTypes'
    BY <2>1 DEF RunInv, RunTypes
  <2> QED
    BY <2>1, <2>2, <2>3 DEF RunInv
<1>2. CASE EnterFunction
  <2>1. /\ mode = "generate" /\ done /\ mode' = "run" /\ pc' = <<1, 1>>
        /\ UNCHANGED <<prog, work, G, done, flags, reg, beat>>
    BY <1>2 DEF EnterFunction, genvars
  <2>2. DoneOK(G) /\ G' = G
    BY <2>1 DEF RunInv, GenInv
  <2>3. Runs(G', pc')
    BY <2>1, <2>2, EnterRuns
  <2>4. GenInv'
    BY <2>1 DEF RunInv, GenInv
  <2>5. RunTypes'
    BY <2>1 DEF RunInv, RunTypes
  <2> QED
    BY <2>1, <2>3, <2>4, <2>5 DEF RunInv
<1>3. CASE Run
  BY <1>3, RunKeeps
<1>4. CASE Finished \/ UNCHANGED vars
  <2>1. UNCHANGED <<prog, work, G, done, pc, flags, reg, beat, mode>>
    BY <1>4 DEF Finished, vars, genvars, runvars
  <2>2. GenInv'
    BY <2>1 DEF RunInv, GenInv
  <2>3. RunTypes'
    BY <2>1 DEF RunInv, RunTypes
  <2>4. mode' = "run" => Runs(G', pc')
    BY <2>1 DEF RunInv
  <2> QED
    BY <2>1, <2>2, <2>3, <2>4 DEF RunInv
<1> QED
  BY <1>1, <1>2, <1>3, <1>4 DEF Next

-----------------------------------------------------------------------------
LEMMA RunInvariant == Spec => []RunInv
<1>1. Init => RunInv
  BY RunStart
<1>2. RunInv /\ [Next]_vars => RunInv'
  BY RunStep
<1> QED
  BY <1>1, <1>2, PTL DEF Spec

(* The graph stays a graph of blocks with quads that the assembler knows,  *)
(* and the machine's state is one.                                         *)
THEOREM RunTyped == Spec => []TypeOKRun
<1>1. RunInv => TypeOKRun
  <2> SUFFICES ASSUME RunInv PROVE TypeOKRun
    OBVIOUS
  <2>1. G \in Graph
    BY DEF RunInv, GenInv, MidOK, DoneOK, GraphOK
  <2> QED
    BY <2>1 DEF RunInv, RunTypes, GenInv, TypeOKRun
<1> QED
  BY <1>1, RunInvariant, PTL

(* A block that is on the list is there once. *)
LEMMA OnListOnce ==
  ASSUME DoneOK(G), NEW k \in OnList(G)
  PROVE  Placed(k)
<1>1. PICK p \in 1..Len(G.ll) : G.ll[p] = k
  BY DEF OnList
<1>2. \A r \in 1..Len(G.ll) : G.ll[r] = k => r = p
  BY <1>1 DEF DoneOK, GraphOK, ListOK
<1>3. PositionOf(k) = {p}
  BY <1>1, <1>2 DEF PositionOf
<1> QED
  BY <1>3, FS_Singleton DEF Placed

(* Whatever the body, every block of the function that is generated, and   *)
(* every block that control may go to from one, has one label in the       *)
(* assembly, and the last block leads nowhere.                             *)
THEOREM EveryLabelOnce == Spec => []BlocksPlaced
<1>1. RunInv => BlocksPlaced
  <2> SUFFICES ASSUME RunInv, done PROVE BlocksPlaced
    BY DEF BlocksPlaced
  <2>1. DoneOK(G)
    BY DEF RunInv, GenInv
  <2>2. G.bbs[Last(G.ll)].def = None
    BY <2>1 DEF DoneOK
  <2>3. ASSUME NEW p \in 1..Len(G.ll)
        PROVE  LET b == G.bbs[G.ll[p]] IN
               /\ Placed(G.ll[p])
               /\ b.def # None  => Placed(b.def)
               /\ b.cond # None => Placed(b.cond)
    <3>1. G.ll[p] \in OnList(G) /\ G.ll[p] \in 1..Len(G.bbs)
      BY <2>1 DEF OnList, DoneOK, GraphOK, ListOK
    <3>2. BlockOK(G.bbs[G.ll[p]], G, {})
      BY <2>1, <3>1 DEF DoneOK, GraphOK
    <3> QED
      BY <2>1, <3>1, <3>2, OnListOnce DEF BlockOK, Targets
  <2> QED
    BY <2>2, <2>3 DEF BlocksPlaced
<1> QED
  BY <1>1, RunInvariant, PTL

(* Whatever the body and the comparisons, control stays in the assembly of *)
(* the function until a return.                                            *)
THEOREM ControlStays == Spec => []NeverLost
<1>1. RunInv => NeverLost
  BY DEF RunInv, RunTypes, NeverLost
<1> QED
  BY <1>1, RunInvariant, PTL

(* Whatever follows the statement that finalized a block, the block keeps  *)
(* its quads and its successors.                                           *)
THEOREM FinalizedStay == Spec => FinalizedIsFinal
<1>1. RunInv /\ [Next]_vars
        => [\A i \in 1..Len(G.bbs) : G.bbs[i].finalized => G'.bbs[i] = G.bbs[i]]_vars
  BY RunStep DEF Keeps
<1> QED
  BY <1>1, RunInvariant, PTL DEF Spec, FinalizedIsFinal
=============================================================================
