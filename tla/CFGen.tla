------------------------------- MODULE CFGen -------------------------------
(***************************************************************************)
(* Generation of the control flow graph of one function: gen_stmt_quads    *)
(* and generate_quads of quads.c with cfquads.c.  The recursion over the   *)
(* body is the sequence work of the C stack frames that are active; one    *)
(* action per call, return, or part of a function between two recursive    *)
(* calls.  The function's body is chosen as it is read, and kept in prog   *)
(* as a sequence of tokens.                                                *)
(***************************************************************************)
EXTENDS CFGraph

CONSTANTS
  Conditions,   \* the conditions used, chains of one or two operands
  ForParts,     \* which of init and update a FOR may have
  MaxTokens,    \* bound on the tokens of a function body
  MaxNesting    \* bound on the nesting of its statements

ASSUME CFGenAssumption ==
  /\ Conditions \subseteq Seq(Relations \cup {"plain"})
  /\ \A c \in Conditions : Len(c) \in {1, 2}
  /\ \A p \in ForParts : p \subseteq {"init", "update"}
  /\ MaxTokens \in Nat /\ MaxNesting \in Nat

VARIABLES
  prog,   \* the function's body: tokens
  work,   \* the active calls, one per open statement
  G,      \* the basic blocks
  done    \* whether generate_quads has returned

genvars == <<prog, work, G, done>>

(* A token: its kind, its condition (<<>>: none), the optional parts that  *)
(* are present, and for one that continues or closes a statement the index *)
(* of that statement's first token.                                        *)
Token(kind, chain, parts, open) ==
  [kind |-> kind, chain |-> chain, parts |-> parts, open |-> open]

Here == Len(prog) + 1
Top  == Last(work)

(* A frame: the basic blocks in the local variables of the C function.     *)
(* alt is bb_false of an IF and bb_update of a FOR; prev is prev_loop.     *)
Call(kind, body, cond, alt, next) ==
  [kind |-> kind, open |-> Here, body |-> body, cond |-> cond, alt |-> alt,
   next |-> next, prev |-> G.loop]

GenInit ==
  /\ prog = <<>> /\ work = <<>> /\ done = FALSE
  /\ G = bb_ll_push([bbs |-> <<NewBlock>>, cur |-> 1, ll |-> <<>>, loop |-> NoLoop], 1)

(* Statements still needed to close what is open, END included *)
Closers == Len(work) + Len(SelectSeq(work, LAMBDA f : f.kind = "then")) + 1
Fits(n) == ~done /\ Here + Closers + n <= MaxTokens

Read(token) == prog' = Append(prog, token)
Enter(f)    == Len(work) < MaxNesting /\ work' = Append(work, f)
Return      == work' = Front(work)

-----------------------------------------------------------------------------
(* Statements without a body *)

Expr ==
  /\ Fits(0) /\ Read(Token("expr", <<>>, {}, 0))
  /\ G' = quad_new(G, "expr", <<Here, "whole">>, "always")
  /\ UNCHANGED <<work, done>>

(* l && r; for its side effects *)
LogicalAnd(c) ==
  /\ Fits(0) /\ Len(c) = 2 /\ Read(Token("and", c, {}, 0))
  /\ G' = logand_value(G, Here, c)
  /\ UNCHANGED <<work, done>>

(* sizeof (l && r): the operand's quads go to a dummy block, but the blocks *)
(* that && makes are put on bb_ll.                                          *)
Sizeof(c) ==
  /\ Fits(0) /\ Len(c) = 2 /\ Read(Token("sizeof", c, {}, 0))
  /\ LET dummy == [NewBlocks(G, 1) EXCEPT !.cur = Fresh(G, 1)]
     IN  G' = [logand_value(dummy, Here, c) EXCEPT !.cur = G.cur]
  /\ UNCHANGED <<work, done>>

JumpPastKind(kind) == IF G.loop = NoLoop THEN G ELSE link_bb(G, "always", G.loop.brk, None)
(* gen_jmp_quads; outside a loop, break and continue are ignored. *)
gen_jmp_quads(kind) ==
  IF G.loop = NoLoop THEN G
  ELSE link_bb(G, "always", IF kind = "break" THEN G.loop.brk ELSE G.loop.cont, None)
Jump(kind) ==
  /\ Fits(0) /\ Read(Token(kind, <<>>, {}, 0))
  /\ G' = gen_jmp_quads(kind)
  /\ UNCHANGED <<work, done>>

Ret ==
  /\ Fits(0) /\ Read(Token("return", <<>>, {}, 0))
  /\ G' = quad_new(G, "ret", <<Here, "whole">>, "always")
  /\ UNCHANGED <<work, done>>

-----------------------------------------------------------------------------
(* generate_if_else_quads *)
If(c, has_else, garbage) ==
  LET bb_true  == Fresh(G, 1)
      bb_false == Fresh(G, 2)
      bb_next  == IF has_else THEN Fresh(G, 3) ELSE bb_false
      N        == NewBlocks(G, IF has_else THEN 3 ELSE 2)
  IN
  /\ Fits(IF has_else THEN 2 ELSE 1)
  /\ Read(Token("if", c, IF has_else THEN {"else"} ELSE {}, 0))
  /\ Enter(Call(IF has_else THEN "then" ELSE "if", bb_true, None, bb_false, bb_next))
  /\ G' = bb_ll_push(generate_conditional_quads(N, Here, c, bb_true, bb_false, TRUE, garbage),
                     bb_true)
  /\ UNCHANGED done

Else ==
  /\ work # <<>> /\ Top.kind = "then"
  /\ Read(Token("else", <<>>, {}, Top.open))
  /\ work' = [work EXCEPT ![Len(work)].kind = "else"]
  /\ G' = bb_ll_push(link_bb(G, "always", Top.next, None), Top.alt)
  /\ UNCHANGED done

EndIfUnplaced ==
  /\ work # <<>> /\ Top.kind \in {"if", "else"}
  /\ Read(Token("endif", <<>>, {}, Top.open)) /\ Return
  /\ G' = [link_bb(G, "always", Top.next, None) EXCEPT !.cur = Top.next]
  /\ UNCHANGED done
EndIf ==
  /\ work # <<>> /\ Top.kind \in {"if", "else"}
  /\ Read(Token("endif", <<>>, {}, Top.open)) /\ Return
  /\ G' = bb_ll_push(link_bb(G, "always", Top.next, None), Top.next)
  /\ UNCHANGED done

-----------------------------------------------------------------------------
(* generate_while_quads: the body is placed before the condition. *)
While(c) ==
  LET bb_body == Fresh(G, 1)
      bb_cond == Fresh(G, 2)
      bb_next == Fresh(G, 3)
      N == [NewBlocks(G, 3) EXCEPT !.loop = [brk |-> bb_next, cont |-> bb_cond]]
  IN
  /\ Fits(1) /\ Read(Token("while", c, {}, 0))
  /\ Enter(Call("while", bb_body, bb_cond, None, bb_next))
  /\ G' = bb_ll_push(link_bb(N, "always", bb_cond, None), bb_body)
  /\ UNCHANGED done

(* The condition of the innermost WHILE or DO, and the code that follows *)
LoopCondition(N, i, chain, f, garbage) ==
  LET C == generate_conditional_quads(bb_ll_push(link_bb(N, "always", f.cond, None), f.cond),
                                      i, chain, f.body, f.next, FALSE, garbage)
  IN  bb_ll_push([C EXCEPT !.loop = f.prev], f.next)

EndWhile(garbage) ==
  /\ work # <<>> /\ Top.kind = "while"
  /\ Read(Token("endwhile", <<>>, {}, Top.open)) /\ Return
  /\ G' = LoopCondition(G, Top.open, prog[Top.open].chain, Top, garbage)
  /\ UNCHANGED done

(* generate_do_while_quads *)
Do ==
  LET bb_body == Fresh(G, 1)
      bb_cond == Fresh(G, 2)
      bb_next == Fresh(G, 3)
      N == [NewBlocks(G, 3) EXCEPT !.loop = [brk |-> bb_next, cont |-> bb_cond]]
  IN
  /\ Fits(1) /\ Read(Token("do", <<>>, {}, 0))
  /\ Enter(Call("do", bb_body, bb_cond, None, bb_next))
  /\ G' = bb_ll_push(link_bb(N, "always", bb_body, None), bb_body)
  /\ UNCHANGED done

EndDo(c, garbage) ==
  /\ work # <<>> /\ Top.kind = "do"
  /\ Read(Token("enddo", c, {}, Top.open)) /\ Return
  /\ G' = LoopCondition(G, Here, c, Top, garbage)
  /\ UNCHANGED done

-----------------------------------------------------------------------------
(* generate_for_quads: init, then body, update and condition are placed in *)
(* that order.  A missing update is only warned about.  Left out: a FOR     *)
(* with neither a condition nor an update, whose turns nobody observes.    *)
QuadIf(present, N, at) == IF present THEN quad_new(N, "expr", at, "always") ELSE N

ContinueAtBody(bb_body, bb_update, bb_next) == [brk |-> bb_next, cont |-> bb_body]
for_loop(bb_body, bb_update, bb_next) == [brk |-> bb_next, cont |-> bb_update]

For(c, parts) ==
  LET bb_cond   == Fresh(G, 1)
      bb_body   == Fresh(G, 2)
      bb_update == Fresh(G, 3)
      bb_next   == Fresh(G, 4)
      N == [NewBlocks(G, 4) EXCEPT !.loop = for_loop(bb_body, bb_update, bb_next)]
      I == QuadIf("init" \in parts, N, <<Here, "init">>)
  IN
  /\ Fits(1) /\ Read(Token("for", c, parts, 0))
  /\ Enter(Call("for", bb_body, bb_cond, bb_update, bb_next))
  /\ G' = bb_ll_push(link_bb(I, "always", bb_cond, None), bb_body)
  /\ UNCHANGED done

EndFor(garbage) ==
  LET t == prog[Top.open]
      U == QuadIf("update" \in t.parts,
                  bb_ll_push(link_bb(G, "always", Top.alt, None), Top.alt),
                  <<Top.open, "update">>)
      C == bb_ll_push(link_bb(U, "always", Top.cond, None), Top.cond)
      N == IF t.chain = <<>> THEN link_bb(C, "always", Top.body, None)
           ELSE generate_conditional_quads(C, Top.open, t.chain, Top.body, Top.next,
                                           FALSE, garbage)
  IN
  /\ work # <<>> /\ Top.kind = "for"
  /\ Read(Token("endfor", <<>>, {}, Top.open)) /\ Return
  /\ G' = bb_ll_push([N EXCEPT !.loop = Top.prev], Top.next)
  /\ UNCHANGED done

-----------------------------------------------------------------------------
(* The end of generate_quads: an implicit return, unless one was the last  *)
(* quad (the first of the list that is still in reverse).                  *)
EndsInCode   == Current(G).code # <<>>
EndsInReturn == Current(G).code # <<>> /\ Head(Current(G).code).op = "ret"
EndFunction ==
  /\ work = <<>> /\ ~done
  /\ Read(Token("end", <<>>, {}, 0))
  /\ LET R == IF EndsInReturn THEN G ELSE quad_new(G, "ret", <<Here, "whole">>, "always")
     IN  G' = finalize_bb_list(link_bb(R, "always", None, None))
  /\ done' = TRUE /\ UNCHANGED work

GenNext ==
  \/ Expr \/ Ret
  \/ \E c \in Conditions : LogicalAnd(c) \/ Sizeof(c)
  \/ \E kind \in {"break", "continue"} : Jump(kind)
  \/ \E c \in Conditions, has_else \in BOOLEAN, garbage \in UninitializedCC :
       If(c, has_else, garbage)
  \/ Else \/ EndIf
  \/ \E c \in Conditions : While(c)
  \/ Do
  \/ \E garbage \in UninitializedCC : EndWhile(garbage) \/ EndFor(garbage)
  \/ \E c \in Conditions, garbage \in UninitializedCC : EndDo(c, garbage)
  \/ \E c \in Conditions \cup {<<>>}, parts \in ForParts :
       (c = <<>> => "update" \in parts) /\ For(c, parts)
  \/ EndFunction
=============================================================================
