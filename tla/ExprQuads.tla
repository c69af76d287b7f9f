----------------------------- MODULE ExprQuads -----------------------------
(***************************************************************************)
(* Quads for expressions: exprquads.c.  gen_rvalue and gen_lvalue take the *)
(* state st of the generation and return it with an operand:               *)
(*   quads    the quads of the current basic block, in order;              *)
(*   tmps     the types of the temporaries, by tmpid;                      *)
(*   strings  string_ll, the labels of the string literals;                *)
(*   error    whether yyerror_fatal has ended the compiler, after which     *)
(*            nothing is generated any more;                               *)
(*   stray    what writing through the uninitialized pointer quad does.    *)
(* An operand (struct addr) is a variable, temporary or constant.  A       *)
(* variable is named by its declaration, which is unique.  && is left to   *)
(* CFGraph, where its basic blocks are.                                    *)
(***************************************************************************)
EXTENDS Types, TLC

None == [k |-> "null"]
Ast(decl)    == [k |-> "ast", v |-> decl.v, ty |-> decl.ty]
Const(t, n)  == [k |-> "const", n |-> n, ty |-> t]
Tmp(id)      == [k |-> "tmp", id |-> id]

TypeOf(st, a) ==
  IF a.k = "tmp" THEN st.tmps[a.id] ELSE a.ty
AddrSize(st, a) == SizeOf(TypeOf(st, a))
AOP(st, a)      == TypeOf(st, a).k = "pointer"
Pointee(st, a)  == TypeOf(st, a).of

Out(st, a) == [st |-> st, a |-> a, cc |-> "unspec"]
Fatal(st)  == Out([st EXCEPT !.error = TRUE], None)
(* NYI warns and goes on: the expression has no operand and no quads *)
Unimplemented(st) == Out(st, None)

quad_new(st, op, dest, src1, src2) ==
  IF st.error THEN st
  ELSE [st EXCEPT !.quads =
          Append(@, [op |-> op, dest |-> dest, src1 |-> src1, src2 |-> src2, args |-> <<>>])]

tmp_addr_new(st, t) == Out([st EXCEPT !.tmps = Append(@, t)], Tmp(Len(st.tmps) + 1))

(* if (!dest) dest = tmp_addr_new(t) *)
Target(st, dest, t) == IF dest = None THEN tmp_addr_new(st, t) ELSE Out(st, dest)

(* A value that needs no code is moved to dest when there is one. *)
Give(st, dest, a) ==
  IF dest = None THEN Out(st, a) ELSE Out(quad_new(st, "MOV", dest, a, None), dest)

(* The operand is changed in place: quads made before see the new type. *)
demote_array(st, a) ==
  IF a.k = "tmp" /\ st.tmps[a.id].k = "array"
  THEN [st EXCEPT !.tmps[a.id] = Pointer(@.of)] ELSE st

-----------------------------------------------------------------------------
(* Binary operators, once both operands are there *)

(* The size of what p points to, times i, for pointer arithmetic *)
Scaled(st, p, i) ==
  LET upcast == tmp_addr_new(st, size_t)
      W == IF AddrSize(st, i) = 8 THEN Out(st, i)
           ELSE Out(quad_new(upcast.st, "CAST", upcast.a, i, None), upcast.a)
      T == tmp_addr_new(W.st, size_t)
  IN  Out(quad_new(T.st, "MUL", T.a, Const(size_t, SizeOf(Pointee(st, p))), W.a), T.a)

(* basicop.  The casts to the larger operand have source and destination   *)
(* the wrong way round: the new temporary is what is read.                 *)
Widen(st, a, t) ==
  LET T == tmp_addr_new(st, t) IN Out(quad_new(T.st, "CAST", a, T.a, None), T.a)

WidenedTo(st, b, a) ==
  IF AddrSize(st, a) < AddrSize(st, b) THEN Widen(st, a, TypeOf(st, b)) ELSE Out(st, a)

(* The result goes through a temporary when dest is of neither size. *)
ThroughTmp(T, op, src1, src2, dest) ==
  Out(quad_new(quad_new(T.st, op, T.a, src1, src2), "CAST", dest, T.a, None), dest)
Operation(st, op, src1, src2, dest) ==
  IF AddrSize(st, dest) \in {AddrSize(st, src1), AddrSize(st, src2)}
  THEN Out(quad_new(st, op, dest, src1, src2), dest)
  ELSE ThroughTmp(tmp_addr_new(st, TypeOf(st, src1)), op, src1, src2, dest)

Arithmetic(st, op, src1, src2, dest) ==
  LET D  == Target(st, dest, TypeOf(st, src1))
      W1 == WidenedTo(D.st, src2, src1)
      W2 == WidenedTo(W1.st, src1, src2)
  IN  Operation(W2.st, op, W1.a, W2.a, D.a)

Moved(S, op, p, dest) == Arithmetic(S.st, op, p, S.a, dest)

(* p + i and i + p: the pointer comes first. *)
Sum(st, l, r, dest) ==
  CASE AOP(st, l) /\ AOP(st, r)   -> Fatal(st)
    [] AOP(st, l) /\ ~AOP(st, r)  -> Moved(Scaled(st, l, r), "ADD", l, dest)
    [] ~AOP(st, l) /\ AOP(st, r)  -> Moved(Scaled(st, r, l), "ADD", r, dest)
    [] ~AOP(st, l) /\ ~AOP(st, r) -> Arithmetic(st, "ADD", l, r, dest)

(* p - q: the quads are those of p - q and a division of a temporary that  *)
(* was meant to get the difference by one that was meant to be the size;   *)
(* "quad", whose destination should become the former, is uninitialized.   *)
Divided(D) ==
  LET T  == tmp_addr_new(D.st, size_t)
      T2 == tmp_addr_new(T.st, size_t)
  IN  IF D.st.stray = "crash" THEN Fatal(T2.st)
      ELSE Out(quad_new(T2.st, "DIV", D.a, T2.a, T.a), D.a)
Difference(st, l, r, dest) ==
  CASE AOP(st, l) /\ AOP(st, r)   -> Divided(Arithmetic(st, "SUB", l, r, dest))
    [] AOP(st, l) /\ ~AOP(st, r)  -> Moved(Scaled(st, l, r), "SUB", l, dest)
    [] ~AOP(st, l) /\ AOP(st, r)  -> Fatal(st)
    [] ~AOP(st, l) /\ ~AOP(st, r) -> Arithmetic(st, "SUB", l, r, dest)

Cast(st, type, a, dest) ==
  LET D == Target(st, dest, TypeOf(st, type))
  IN  Out(quad_new(D.st, "CAST", D.a, a, None), D.a)

ConditionCode == [LT |-> "L", LTEQ |-> "LE", GT |-> "G", GTEQ |-> "GE", EQEQ |-> "E",
                  NOTEQ |-> "NE"]

(* For a branch (wantcc) the condition code is returned instead of a value. *)
Relation(st, op, l, r, dest, wantcc) ==
  LET D == IF wantcc THEN Out(st, dest) ELSE Target(st, dest, size_t)
      C == quad_new(D.st, "CMP", D.a, l, r)
  IN  IF wantcc THEN [Out(C, D.a) EXCEPT !.cc = ConditionCode[op]]
      ELSE Out(quad_new(C, "SETCC", D.a, Const(IntType, ConditionCode[op]), None), D.a)

BasicOps   == [mul |-> "MUL", div |-> "DIV", mod |-> "MOD"]
Relational == DOMAIN ConditionCode

-----------------------------------------------------------------------------
(* gen_rvalue returns the operand that has the value of e, which is dest   *)
(* when there is one.  gen_lvalue is for all that has an address: with lhs *)
(* it is the left side of an assignment, with addrof the operand of &.     *)
RECURSIVE Rvalue(_, _, _, _), Lvalue(_, _, _, _, _), Arguments(_, _)

(* Each literal has a label, and acts like an array of length 8. *)
StringLiteral(st, dest) ==
  LET label == ".RO" \o ToString(st.strings)
  IN  Lvalue([st EXCEPT !.strings = @ + 1],
             [n |-> "decl", v |-> label, ty |-> Array(CharType, 8)], FALSE, dest, FALSE)

(* The list ends at an argument without an operand; one after it cannot be *)
(* put behind it.                                                          *)
Arguments(st, args) ==
  LET A == Rvalue(st, Head(args), None, FALSE)
      R == Arguments(A.st, Tail(args))
  IN  CASE args = <<>> -> [st |-> st, as |-> <<>>]
        [] args # <<>> /\ A.a # None -> [st |-> R.st, as |-> <<A.a>> \o R.as]
        [] args # <<>> /\ A.a = None ->
             [st |-> [A.st EXCEPT !.error = @ \/ Len(args) > 1], as |-> <<>>]

FunctionCall(st, e, dest) ==
  LET F == Rvalue(st, e.fn, None, FALSE)
      A == Arguments(F.st, e.args)
      returned == TypeOf(F.st, F.a).of
      D == Target(A.st, dest, IF returned \in {Implicit, Void} THEN IntType ELSE returned)
      Q == quad_new(D.st, "CALL", D.a, F.a, IF A.as = <<>> THEN None ELSE Head(A.as))
  IN  IF F.a = None \/ TypeOf(F.st, F.a).k # "function" \/ Q.error
      THEN Fatal(F.st)
      ELSE Out([Q EXCEPT !.quads[Len(Q.quads)].args = A.as], D.a)

(* The operand's quads go to a dummy block, but its temporaries are made. *)
Sizeof(st, e, dest) ==
  LET E == Rvalue(st, e, None, FALSE)
      n == IF E.a.k = "const" THEN AddrSize(E.st, E.a) ELSE SizeOf(TypeOf(E.st, E.a))
  IN  IF E.a = None THEN Fatal(E.st)
      ELSE Give([E.st EXCEPT !.quads = st.quads], dest, Const(size_t, n))

(* gen_assign; the value goes to target too, when the assignment is itself *)
(* a right operand.                                                        *)
Assign(st, e, target) ==
  LET L      == Lvalue(st, e.l, TRUE, None, FALSE)
      direct == e.l.n = "decl"
      R      == Rvalue(L.st, e.r, IF direct THEN L.a ELSE None, FALSE)
      S      == IF direct THEN R.st ELSE quad_new(R.st, "STORE", None, R.a, L.a)
  IN  IF R.a = None /\ (~direct \/ target # None) THEN Fatal(R.st)
      ELSE Out(IF target = None THEN S ELSE quad_new(S, "MOV", target, R.a, None), R.a)

Operated(st, op, l, r, dest, wantcc) ==
  IF l = None \/ r = None THEN Fatal(st)   \* demote_array(NULL)
  ELSE CASE op = "add"  -> Sum(st, l, r, dest)
         [] op = "sub"  -> Difference(st, l, r, dest)
         [] op = "cast" -> Cast(st, l, r, dest)
         [] op \in DOMAIN BasicOps -> Arithmetic(st, BasicOps[op], l, r, dest)
         [] op \in Relational      -> Relation(st, op, l, r, dest, wantcc)
         [] OTHER -> Fatal(st)   \* shifts, bitwise operators, || and members

Binary(st, e, dest, wantcc) ==
  LET L == Rvalue(st, e.l, None, FALSE)
      R == Rvalue(L.st, e.r, None, FALSE)
  IN  Operated(demote_array(demote_array(R.st, L.a), R.a), e.op, L.a, R.a, dest, wantcc)

Rvalue(st, e, dest, wantcc) ==
  IF st.error THEN Out(st, None)
  ELSE CASE e.n = "decl" /\ e.v # "" -> Lvalue(st, e, FALSE, dest, FALSE)
         [] e.n = "decl" /\ e.v = "" ->   \* the type name of a cast
              IF dest = None THEN Out(st, Ast(e)) ELSE Fatal(st)
         [] e.n = "string"  -> StringLiteral(st, dest)
         [] e.n = "charlit" -> Give(st, dest, Const(CharType, e.val))
         [] e.n = "number"  ->
              IF e.ty.base \in {"int", "char"} THEN Give(st, dest, Const(e.ty, e.val))
              ELSE Fatal(st)
         [] e.n = "call"       -> FunctionCall(st, e, dest)
         [] e.n = "sizeof"     -> Sizeof(st, e.arg, dest)
         [] e.n = "sizeoftype" -> Give(st, dest, Const(size_t, SizeOf(e.ty)))
         [] e.n = "deref"      -> Lvalue(st, e, FALSE, dest, FALSE)
         [] e.n = "addrof"     -> Lvalue(st, e.arg, FALSE, dest, TRUE)
         [] e.n = "postinc"    -> Unimplemented(st)
         [] e.n = "not"        ->
              LET A == Rvalue(st, e.arg, None, FALSE)
              IN  IF A.a = None THEN Fatal(A.st) ELSE Unimplemented(demote_array(A.st, A.a))
         [] e.n = "assign"     -> Assign(st, e, dest)
         [] e.n = "bin"        -> Binary(st, e, dest, wantcc)
         [] OTHER -> Fatal(st)

Variable(st, e, dest, addrof) ==
  LET a == Ast(e)
      D == Target(st, dest, IF addrof THEN Pointer(e.ty) ELSE e.ty)
  IN  CASE e.ty.k = "function" -> Out(st, a)
        [] e.ty.k = "struct"   -> Fatal(st)
        [] e.ty.k = "array"    ->
             Out(quad_new(D.st, IF addrof THEN "CAST" ELSE "LEA", D.a, a, None), D.a)
        [] e.ty.k \in {"scalar", "pointer"} ->
             IF addrof THEN Out(quad_new(D.st, "LEA", D.a, a, None), D.a) ELSE Give(st, dest, a)

Dereference(st, e, lhs, dest, addrof) ==
  LET T  == Rvalue(st, e.arg, IF addrof THEN dest ELSE None, FALSE)
      s  == demote_array(T.st, T.a)
      to == Pointee(s, T.a)
      D  == Target(s, dest, to)
  IN  CASE T.a = None -> Fatal(T.st)
        [] T.a # None /\ ~AOP(s, T.a) -> Fatal(s)
        [] T.a # None /\ AOP(s, T.a)  ->
             CASE addrof -> Out(s, IF dest = None THEN T.a ELSE dest)
               [] lhs /\ ~addrof  ->
                    IF to.k \in {"array", "function"} THEN Fatal(s) ELSE Out(s, T.a)
               [] ~lhs /\ ~addrof ->
                    Out(quad_new(D.st, IF to.k = "array" THEN "CAST" ELSE "LOAD", D.a, T.a, None),
                        D.a)

Lvalue(st, e, lhs, dest, addrof) ==
  CASE e.n = "decl" /\ e.v # "" -> Variable(st, e, dest, addrof)
    [] e.n = "deref"            -> Dereference(st, e, lhs, dest, addrof)
    [] OTHER -> Fatal(st)

-----------------------------------------------------------------------------
(* The statements of a function with one basic block, or with              *)
(*   if (e) return 1; return 0;                                            *)
(* at its end, and the return 0 that is added when there is no return.     *)
NoQuads(stray) ==
  [quads |-> <<>>, tmps |-> <<>>, strings |-> 0, error |-> FALSE, stray |-> stray, cc |-> "none"]

Return(R) ==
  IF R.a = None THEN [R.st EXCEPT !.error = TRUE] ELSE quad_new(R.st, "RET", None, R.a, None)

Condition(R) ==
  IF R.cc # "unspec" THEN [R.st EXCEPT !.cc = R.cc]
  ELSE IF R.a = None THEN [R.st EXCEPT !.error = TRUE]
  ELSE [quad_new(R.st, "CMP", None, R.a, Const(size_t, 0)) EXCEPT !.cc = "NE"]

Statement(stmt, R) ==
  CASE stmt.k = "expr"   -> R.st
    [] stmt.k = "return" -> Return(R)
    [] stmt.k = "if"     -> Condition(R)

RECURSIVE Statements(_, _)
Statements(st, body) ==
  IF body = <<>> THEN st
  ELSE LET stmt == Head(body)
           R == Rvalue(st, stmt.e, None, stmt.k = "if")
       IN  Statements(Statement(stmt, R), Tail(body))

AtEnd(st) ==
  LET returns == st.quads # <<>> /\ st.quads[Len(st.quads)].op = "RET"
  IN  IF returns \/ st.cc # "none" THEN st ELSE Return(Out(st, Const(IntType, 0)))
generate_quads(body, stray) == AtEnd(Statements(NoQuads(stray), body))
=============================================================================
