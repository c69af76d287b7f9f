------------------------------ MODULE CFGraph ------------------------------
(***************************************************************************)
(* Basic blocks and the quads of src/src/quads: the state that quads.c and *)
(* cfquads.c build for one function, and their primitives.                 *)
(*                                                                         *)
(* G is that state, a record of                                            *)
(*   bbs    the basic blocks, a block being named by its bb_no;            *)
(*   cur    cur_bb;                                                        *)
(*   ll     bb_ll, the blocks in the order of the assembly;                *)
(*   loop   cur_loop.                                                      *)
(* A quad is reduced to what control flow sees of it: the part of the      *)
(* source it comes from, and its effect on the condition codes.  As in the *)
(* source, quads and blocks are put in front of their lists, which are     *)
(* reversed when a block (link_bb) and a function (finalize_bb_list) end.  *)
(***************************************************************************)
EXTENDS Naturals, Sequences, SequencesExt

CONSTANT UninitializedCC   \* what an uninitialized enum cc may hold

Relations  == {"E", "NE", "L", "LE", "G", "GE"}
CodesOrNot == Relations \cup {"always"}   \* CC_ALWAYS is also CC_UNSPEC

ASSUME CFGraphAssumption ==
  UninitializedCC # {} /\ UninitializedCC \subseteq CodesOrNot

None   == 0      \* a null struct basic_block pointer
NoLoop == [brk |-> None, cont |-> None]

Block == [code : Seq([op : {"expr", "cmp", "test", "cmpz", "cmpk", "mov", "ret"},
                      at : Nat \X {"whole", "left", "right", "init", "update"},
                      cc : CodesOrNot]),
          cc : CodesOrNot, def : Nat, cond : Nat, finalized : BOOLEAN]
Graph == [bbs : Seq(Block), cur : Nat, ll : Seq(Nat), loop : [brk : Nat, cont : Nat]]

NewBlock == [code |-> <<>>, cc |-> "always", def |-> None, cond |-> None,
             finalized |-> FALSE]
Current(G) == G.bbs[G.cur]

(* The n-th of the basic blocks that the next calls of basic_block_new     *)
(* return, and the graph after n of them.                                  *)
Fresh(G, n)     == Len(G.bbs) + n
NewBlocks(G, n) == [G EXCEPT !.bbs = @ \o [i \in 1..n |-> NewBlock]]

(* cur_bb = bb; bb_ll_push(cur_bb) *)
bb_ll_push(G, bb) == [G EXCEPT !.cur = bb, !.ll = <<bb>> \o @]

(* A finalized block takes no more quads: the statement is unreachable. *)
NewInAnyBlock(G, op, at, cc) ==
  [G EXCEPT !.bbs[G.cur].code = <<[op |-> op, at |-> at, cc |-> cc]>> \o @]
quad_new(G, op, at, cc) ==
  IF Current(G).finalized THEN G
  ELSE [G EXCEPT !.bbs[G.cur].code = <<[op |-> op, at |-> at, cc |-> cc]>> \o @]

(* The block ends: where it goes when cc holds (bb_cond) and otherwise. *)
link_bb(G, cc, bb_def, bb_cond) ==
  IF Current(G).finalized THEN G
  ELSE [G EXCEPT !.bbs[G.cur] =
          [code |-> Reverse(@.code), cc |-> cc, def |-> bb_def, cond |-> bb_cond,
           finalized |-> TRUE]]

finalize_bb_list(G) == [G EXCEPT !.ll = Reverse(@)]

-----------------------------------------------------------------------------
(* Conditions.  An operand is "plain", an expression that sets no condition *)
(* code, or the relation its CMP is read with; a chain <<o>> is an operand *)
(* and <<l, r>> is l && r.  at is <<i, part>>: statement i's left or right. *)

(* gen_rvalue of an operand, and the *cc it sets *)
operand_cc(o, before) == IF o = "plain" THEN before ELSE o
OperandWithoutCode(G, at, o) == quad_new(G, IF o = "plain" THEN "test" ELSE "cmp", at, o)
gen_operand(G, at, o) ==
  quad_new(G, IF o = "plain" THEN "test" ELSE "cmp", at, operand_cc(o, "always"))

Inverted == [E |-> "NE", NE |-> "E", L |-> "GE", LE |-> "G", G |-> "LE", GE |-> "L"]

(* The end of generate_conditional_quads, for a given cc *)
LinkUninverted(G, cc, bb_true, bb_false, invert) ==
  IF invert THEN link_bb(G, cc, bb_true, bb_false) ELSE link_bb(G, cc, bb_false, bb_true)
branch(G, cc, bb_true, bb_false, invert) ==
  IF invert THEN link_bb(G, Inverted[cc], bb_true, bb_false)
            ELSE link_bb(G, cc, bb_false, bb_true)

(* A value that set no condition code is compared with zero. *)
compare_zero(G, at, cc) == IF cc = "always" THEN quad_new(G, "cmpz", at, "always") ELSE G
nonzero(cc)             == IF cc = "always" THEN "NE" ELSE cc

conditional_operand(G, at, o, bb_true, bb_false, invert) ==
  LET cc == operand_cc(o, "always")
  IN  branch(compare_zero(gen_operand(G, at, o), at, cc), nonzero(cc),
             bb_true, bb_false, invert)

(* gen_rvalue of l && r.  left and right are the two branches; when a      *)
(* condition code is wanted, tmp_cc is an uninitialized variable that only *)
(* an operand with a relation sets: garbage is what it holds.              *)
LogicalAndBlocks(G, i, chain, Right(_), False(_)) ==
  LET bb_true  == Fresh(G, 1)
      bb_false == Fresh(G, 2)
      bb_next  == Fresh(G, 3)
      C == conditional_operand(NewBlocks(G, 3), <<i, "left">>, chain[1],
                               bb_true, bb_false, TRUE)
      T == link_bb(Right(bb_ll_push(C, bb_true)), "always", bb_next, None)
      F == link_bb(False(bb_ll_push(T, bb_false)), "always", bb_next, None)
  IN  bb_ll_push(F, bb_next)

logand_value(G, i, chain) ==
  LogicalAndBlocks(G, i, chain,
    LAMBDA H : gen_operand(H, <<i, "right">>, chain[2]),
    LAMBDA H : quad_new(H, "mov", <<i, "right">>, "always"))

logand_cc(chain, garbage) == nonzero(operand_cc(chain[2], garbage))
logand_condition(G, i, chain, garbage) ==
  LogicalAndBlocks(G, i, chain,
    LAMBDA H : compare_zero(gen_operand(H, <<i, "right">>, chain[2]), <<i, "right">>,
                            operand_cc(chain[2], garbage)),
    LAMBDA H : quad_new(H, "cmpk", <<i, "right">>, logand_cc(chain, garbage)))

(* generate_conditional_quads *)
generate_conditional_quads(G, i, chain, bb_true, bb_false, invert, garbage) ==
  IF Len(chain) = 1
  THEN conditional_operand(G, <<i, "left">>, chain[1], bb_true, bb_false, invert)
  ELSE branch(logand_condition(G, i, chain, garbage), logand_cc(chain, garbage),
              bb_true, bb_false, invert)
=============================================================================
