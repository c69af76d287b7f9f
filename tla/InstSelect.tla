----------------------------- MODULE InstSelect -----------------------------
(***************************************************************************)
(* Instruction selection: select_asm_inst of asm.c, and the instructions   *)
(* that generate_asm puts before the body.  An instruction has a source, a *)
(* destination and the size in its suffix; with one operand, that operand  *)
(* is src, whatever the instruction does with it.                          *)
(***************************************************************************)
EXTENDS ExprQuads, SequencesExt

NoOperand   == [m |-> "none", size |-> 8]
Reg(r, n)   == [m |-> "register", r |-> r, size |-> n]       \* reg2addr
Indirect(r, n) == [m |-> "indirect", r |-> r, size |-> n]
FrameSize   == [m |-> "framesize", size |-> 8]                \* the constant -offset

param_reg == <<"DI", "SI", "D", "C", "8", "9">>

addr2asmaddr(st, a) ==
  [m    |-> IF a.k = "const" THEN "immediate" ELSE "memory", a |-> a,
   size |-> IF AddrSize(st, a) \in {1, 2, 4, 8} THEN AddrSize(st, a) ELSE 8]

Inst(op, src, dest, size) == [op |-> op, src |-> src, dest |-> dest, size |-> size, cc |-> "none"]
Wider(m, n) == IF m > n THEN m ELSE n

-----------------------------------------------------------------------------
Convert(src, dest) ==
  <<Inst("mov", src, Reg("A", src.size), src.size)>>
  \o (IF src.size = 4 /\ dest.size = 8 THEN <<Inst("cltq", NoOperand, NoOperand, 8)>> ELSE <<>>)
  \o <<Inst("mov", Reg("A", dest.size), dest, dest.size)>>

Move(src, dest) ==
  IF src.size # dest.size THEN Convert(src, dest)
  ELSE <<Inst("mov", src, Reg("A", src.size), src.size),
         Inst("mov", Reg("A", src.size), dest, dest.size)>>

TwoOperand(op, src1, src2, dest) ==
  LET n == Wider(src1.size, src2.size)
  IN  <<Inst("mov", src1, Reg("A", n), n), Inst(op, src2, Reg("A", n), n),
        Inst("mov", Reg("A", n), dest, n)>>

(* Neither push has a pop.  The quotient is in A, the remainder in D. *)
Divide(result, src1, src2, dest) ==
  LET n == Wider(src1.size, src2.size)
      A == Reg("A", n)   D == Reg("D", n)
  IN  <<Inst("push", A, NoOperand, 8), Inst("mov", src1, A, 8), Inst("push", D, NoOperand, 8),
        Inst("xor", D, D, n), Inst("idiv", src2, NoOperand, n),
        Inst("mov", Reg(result, n), dest, n)>>

LoadAddress(src, dest) ==
  <<Inst("lea", src, Reg("A", 8), 8), Inst("mov", Reg("A", 8), dest, 8)>>

LoadDirectly(src, dest) ==
  <<Inst("mov", src, Reg("A", src.size), src.size),
    Inst("mov", Indirect("A", src.size), dest, dest.size)>>
Load(src, dest) ==
  <<Inst("mov", src, Reg("A", src.size), src.size),
    Inst("mov", dest, Reg("C", dest.size), dest.size),
    Inst("mov", Indirect("A", src.size), Reg("C", dest.size), dest.size),
    Inst("mov", Reg("C", dest.size), dest, dest.size)>>

StoreAsWide(src1, src2) ==
  <<Inst("mov", src1, Reg("A", src1.size), src1.size),
    Inst("mov", src2, Reg("C", src2.size), src2.size),
    Inst("mov", Reg("A", src2.size), Indirect("C", src2.size), src2.size)>>
Store(src1, src2) ==
  <<Inst("mov", src1, Reg("A", src1.size), src1.size),
    Inst("mov", src2, Reg("C", src2.size), src2.size),
    Inst("mov", Reg("A", src1.size), Indirect("C", src2.size), src1.size)>>

(* Arguments after the sixth are left out, with a warning. *)
CallFunction(st, q) ==
  LET args  == SubSeq(q.args, 1, IF Len(q.args) > 6 THEN 6 ELSE Len(q.args))
      Pass(i) == LET a == addr2asmaddr(st, args[i])
                 IN  Inst("mov", a, Reg(param_reg[i], a.size), a.size)
      dest  == addr2asmaddr(st, q.dest)
      A     == Reg("A", 4)
  IN  [i \in 1..Len(args) |-> Pass(i)]
      \o <<Inst("xor", A, A, 4), Inst("call", [m |-> "label", v |-> q.src1.v, size |-> 8],
                                      NoOperand, 8),
           Inst("mov", Reg("A", dest.size), dest, dest.size)>>

Compare(src1, src2) ==
  <<Inst("mov", src1, Reg("A", src1.size), src1.size),
    Inst("cmp", src2, Reg("A", src1.size), src2.size)>>

SetCondition(cc, dest) == <<[Inst("set", dest, NoOperand, 1) EXCEPT !.cc = cc]>>

ReturnOnly(src) ==
  <<Inst("mov", src, Reg("A", src.size), src.size), Inst("ret", NoOperand, NoOperand, 8)>>
ReturnFrom(src) ==
  <<Inst("mov", src, Reg("A", src.size), src.size), Inst("leave", NoOperand, NoOperand, 8),
    Inst("ret", NoOperand, NoOperand, 8)>>

select_asm_inst(st, q) ==
  LET src1 == addr2asmaddr(st, q.src1)
      src2 == addr2asmaddr(st, q.src2)
      dest == addr2asmaddr(st, q.dest)
  IN  CASE q.op = "MOV"   -> Move(src1, dest)
        [] q.op = "CAST"  -> Convert(src1, dest)
        [] q.op = "ADD"   -> TwoOperand("add", src1, src2, dest)
        [] q.op = "SUB"   -> TwoOperand("sub", src1, src2, dest)
        [] q.op = "MUL"   -> TwoOperand("imul", src1, src2, dest)
        [] q.op = "DIV"   -> Divide("A", src1, src2, dest)
        [] q.op = "MOD"   -> Divide("D", src1, src2, dest)
        [] q.op = "LEA"   -> LoadAddress(src1, dest)
        [] q.op = "LOAD"  -> Load(src1, dest)
        [] q.op = "STORE" -> Store(src1, src2)
        [] q.op = "CALL"  -> CallFunction(st, q)
        [] q.op = "CMP"   -> Compare(src1, src2)
        [] q.op = "SETCC" -> SetCondition(q.src1.n, dest)
        [] q.op = "RET"   -> ReturnFrom(src1)

Selected(st, quads) == FlattenSeq([i \in DOMAIN quads |-> select_asm_inst(st, quads[i])])

-----------------------------------------------------------------------------
(* The function *)

ParametersInOrder(st, symbols) ==
  LET params == SelectSeq(symbols, LAMBDA s : s.proto)
      Copy(i) == LET a == addr2asmaddr(st, Ast(params[i]))
                 IN  Inst("mov", Reg(param_reg[i], a.size), a, a.size)
  IN  [i \in DOMAIN params |-> Copy(i)]
(* symbols: the latest declared first, so that the last parameter is met   *)
(* first, when the count of parameters left is its own number.             *)
CopyParameters(st, symbols) ==
  LET params == SelectSeq(symbols, LAMBDA s : s.proto)
      Copy(i) == LET a == addr2asmaddr(st, Ast(params[i]))
                 IN  Inst("mov", Reg(param_reg[Len(params) + 1 - i], a.size), a, a.size)
  IN  [i \in DOMAIN params |-> Copy(i)]

Prologue ==
  <<Inst("push", Reg("BP", 8), NoOperand, 8), Inst("mov", Reg("SP", 8), Reg("BP", 8), 8),
    Inst("sub", FrameSize, Reg("SP", 8), 8)>>

(* print_CC at the end of the block, and the two blocks after it: a jump   *)
(* over the false branch, which comes first here.                          *)
Branches(st) ==
  LET Returned(n) ==
        Selected(st, <<[op |-> "RET", dest |-> None, src1 |-> Const(IntType, n), src2 |-> None,
                        args |-> <<>>]>>)
  IN  IF st.cc = "none" THEN <<>>
      ELSE <<[Inst("jump", NoOperand, NoOperand, 8) EXCEPT !.cc = st.cc]>>
           \o Returned(0) \o Returned(1)

generate_asm(st, symbols) ==
  Prologue \o CopyParameters(st, symbols) \o Selected(st, st.quads) \o Branches(st)
=============================================================================
