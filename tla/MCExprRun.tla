----------------------------- MODULE MCExprRun -----------------------------
(***************************************************************************)
(* Functions for ExprRun, within what the README asks of programs: both    *)
(* operands of an operation have one type.  Further it takes from the code *)
(* what other runs show not to work: a division has a long dividend that   *)
(* is not negative and a divisor that is no constant; the value of a       *)
(* comparison goes to a char; only a long or a pointer is a condition by   *)
(* itself; chars are not calculated with or widened.                       *)
(***************************************************************************)
EXTENDS ExprRun

Var(v, t, sc) == [n |-> "decl", v |-> v, ty |-> t, sc |-> sc]
TypeName(t)   == [n |-> "decl", v |-> "", ty |-> t]
Num(k)   == [n |-> "number", ty |-> IntType, val |-> k]
Long(k)  == [n |-> "number", ty |-> LongType, val |-> k]
Char(k)  == [n |-> "charlit", val |-> k]
Text(i)  == [n |-> "string", label |-> StringLabel(i)]
Deref(e) == [n |-> "deref", arg |-> e]
AddrOf(e) == [n |-> "addrof", arg |-> e]
Op(op, l, r)  == [n |-> "bin", op |-> op, l |-> l, r |-> r]
CastTo(t, e)  == Op("cast", TypeName(t), e)
Assigned(l, r)  == [n |-> "assign", l |-> l, r |-> r]
Index(a, i)   == Deref(Op("add", a, i))
AddTo(l, r)   == Assigned(l, Op("add", l, r))   \* l += r, as the parser rewrites it
SizeOfExpr(e) == [n |-> "sizeof", arg |-> e]
SizeOfType(t) == [n |-> "sizeoftype", ty |-> t]
Calls(f, args) ==
  [n |-> "call", fn |-> [n |-> "decl", v |-> f, ty |-> Function(Returns[f])], args |-> args]

Do(e)  == [k |-> "expr", e |-> e]
Gives(e) == [k |-> "return", e |-> e]
If(e)  == [k |-> "if", e |-> e]

P  == Pointer(LongType)
x  == Var("x", LongType, "param")     y == Var("y", LongType, "param")
p  == Var("p", P, "param")            g == Var("g", LongType, "static")
t  == Var("t", Array(LongType, 2), "static")
u  == Var("u", LongType, "auto")      a == Var("a", Array(LongType, 2), "auto")
q  == Var("q", P, "auto")             b == Var("b", Array(Array(LongType, 2), 2), "auto")
i  == Var("i", IntType, "param")      j == Var("j", IntType, "auto")
c  == Var("c", CharType, "param")     d == Var("d", CharType, "auto")
s  == Var("s", Pointer(CharType), "auto")
h  == Var("h", Scalar("int", "short"), "auto")

Cell(v) == <<v, 0>>
(* x, y, p (to t[0] or t[1]), i, c, and g and t *)
Given(X, Y, I) ==
  {[v \in {Cell("x"), Cell("y"), Cell("p"), Cell("i"), Cell("c"), Cell("g"), Cell("t"), <<"t", 8>>} |->
      CASE v[1] = "x" -> C!Number(m) [] v[1] = "y" -> C!Number(n) [] v[1] = "i" -> C!Number(k)
        [] v[1] = "p" -> [o |-> "t", n |-> o]
        [] v[1] = "c" -> C!Number(1) [] v[1] = "g" -> C!Number(40)
        [] v[1] = "t" -> C!Number(v[2] + 3)]
   : m \in X, n \in Y, k \in I, o \in {0, 8}}

Program(ret, in, locals, body) ==
  [vars |-> <<x, y, p, i, c, g, t>> \o locals, body |-> body, ret |-> ret, inputs |-> in,
   strings |-> << <<1, 0, 0>>, <<0, 1, 0>> >>]

Signs    == Given({-3, 5}, {-3, 4}, {-1})
Naturals == Given({7, 300}, {-3, 2}, {1})
Some     == Given({5}, {-3}, {1})

L(in, locals, body) == Program(LongType, in, locals, body)

-----------------------------------------------------------------------------
(* Arithmetic on operands of every kind, once and nested *)
Operand == {x, g, Long(3), Deref(p)}
Single ==
  {L(Signs, <<>>, <<Gives(Op(op, l, r))>>) :
     op \in {"add", "sub", "mul"}, l \in Operand, r \in {y} \cup Operand}
Division ==
  {L(Naturals, <<>>, <<Gives(Op(op, l, r))>>) :
     op \in {"div", "mod"}, l \in {x, Long(9), Deref(p)}, r \in {y, g, Deref(p)}}
Nested ==
  {L(Signs, <<>>, <<Gives(Op(o1, Op(o2, x, y), Op(o3, y, g)))>>) :
     o1 \in {"add", "sub", "mul"}, o2 \in {"add", "sub"}, o3 \in {"sub", "mul"}}
  \cup {L(Naturals, <<u>>, <<Do(Assigned(u, Op("mod", x, Op("div", g, y)))), Gives(u)>>)}

(* Conditions, and a comparison as a value *)
Conditions ==
  {L(Signs, <<>>, <<If(Op(op, l, r))>>) : op \in Relational, l \in {x, Deref(p)}, r \in {y, Long(4)}}
  \cup {L(Given({0, 1}, {0}, {-1, 0}), <<>>, <<If(e)>>) :
          e \in {x, p, Op("LT", i, Num(0)), Op("EQEQ", p, t), Op("NOTEQ", t, p),
                 Op("sub", x, Long(1))}}
  \cup {Program(CharType, Signs, <<d>>, <<Do(Assigned(d, Op(op, x, y))), Gives(d)>>) :
          op \in Relational}

(* Assignment to variables, elements and through pointers *)
Stores ==
  {L(Some, <<u, q, a>>, body) : body \in {
     <<Do(Assigned(x, Assigned(g, y))), Gives(Op("add", x, g))>>,
     <<Do(Assigned(Deref(p), Op("add", x, Deref(p)))), Gives(Index(t, Long(1)))>>,
     <<Do(Assigned(u, Assigned(Deref(p), x))), Gives(Op("sub", u, Index(t, Long(0))))>>,
     <<Do(Assigned(q, AddrOf(u))), Do(Assigned(Deref(q), y)), Gives(u)>>,
     <<Do(Assigned(q, AddrOf(Deref(p)))), Do(AddTo(Deref(q), x)), Gives(Deref(AddrOf(Deref(q))))>>,
     <<Do(Assigned(Index(a, Long(0)), x)), Do(Assigned(Index(a, Num(1)), y)),
       Gives(Op("sub", Index(a, i), Index(a, Long(0))))>>,
     <<Do(Assigned(q, a)), Do(Assigned(Deref(q), x)), Do(AddTo(q, Long(1))),
       Do(Assigned(Deref(q), y)), Gives(Op("mul", Deref(Op("sub", q, i)), Deref(q)))>>,
     <<Do(Assigned(Index(t, i), x)), Gives(Deref(AddrOf(Index(t, Long(1)))))>>,
     <<Do(Assigned(q, Op("add", Num(1), t))), Gives(Deref(Op("sub", q, Long(1))))>>,
     <<Do(AddTo(g, x)), Do(Assigned(u, g))>>,
     <<Do(Assigned(u, SizeOfExpr(a))), Gives(Op("add", u, SizeOfType(P)))>>,
     <<Gives(Op("add", SizeOfExpr(Deref(p)), SizeOfExpr(Index(a, Long(7)))))>>}}
  \cup {L(Some, <<b>>, <<Do(Assigned(Index(Index(b, Long(m)), i), x)),
                         Gives(Index(Index(b, Num(m)), Long(1)))>>) : m \in {0, 1}}

(* Types of other sizes, without mixing them *)
Sizes ==
  {Program(IntType, Given({5}, {-3}, {-2, 5}), <<j, h, d, s, u>>, body) : body \in {
     <<Do(Assigned(j, Op("add", i, Num(2)))), Gives(Op("mul", j, i))>>,
     <<Do(Assigned(h, CastTo(h.ty, Op("sub", x, y)))), Do(Assigned(j, i)), Gives(j)>>,
     <<Do(Assigned(u, CastTo(LongType, i))), Do(Assigned(x, u)),
       Gives(CastTo(IntType, Op("sub", x, u)))>>,
     <<Do(Assigned(j, Op("sub", i, Num(1)))), Do(Assigned(u, i)), Gives(j)>>,
     <<Do(Assigned(d, Char(1))), Do(Assigned(j, i)), If(Op("EQEQ", d, c))>>}}
  \cup {Program(CharType, Some, <<s, d>>, body) : body \in {
     <<Do(Assigned(s, Text(1))), Gives(Deref(s))>>,
     <<Do(Assigned(s, Text(1))), Do(Assigned(s, Text(2))), Do(Assigned(d, Index(s, Long(1)))),
       Gives(d)>>,
     <<Do(Assigned(s, Op("add", Text(1), i))), Do(Assigned(s, Op("sub", s, Long(1)))),
       Gives(Deref(s))>>,
     <<Do(Assigned(s, AddrOf(d))), Do(Assigned(Deref(s), c)), Gives(d)>>}}

(* Calls: "f" of two longs, "six", "v" (void) and an undeclared "w" *)
CallsOf ==
  {L(Some, <<u, a, q>>, body) : body \in {
     <<Gives(Calls("f", <<x, y>>))>>,
     <<Gives(Op("sub", Calls("f", <<Calls("f", <<x, y>>), Calls("f", <<y, g>>)>>), x))>>,
     <<Do(Assigned(u, Calls("f", <<Op("mul", x, y), AddrOf(g)>>))),
       Gives(Op("add", u, Calls("f", <<u, p>>)))>>,
     <<Do(Calls("six", <<x, y, Long(1), p, t, g>>)), Gives(x)>>,
     <<Do(Assigned(Index(a, Long(1)), y)), Do(Calls("v", <<a>>)), Gives(Index(a, Long(1)))>>,
     <<Do(Assigned(Deref(p), Calls("f", <<g, a>>))), Do(Calls("v", <<Deref(p)>>)), Gives(y)>>,
     <<Do(AddTo(u, x)), Gives(u)>>}}
  \cup {Program(IntType, Some, <<j>>, body) : body \in {
     <<Do(Assigned(j, Calls("w", <<i, c>>))), Gives(Op("add", j, Calls("w", <<j, Char(1)>>)))>>,
     <<Do(Calls("w", <<CastTo(IntType, x), c>>))>>}}

MCReturns == [f |-> LongType, six |-> LongType, v |-> Void, w |-> IntType]
MCExternal ==
  [f |-> [params |-> <<8, 8>>, result |-> 8],
   six |-> [params |-> <<8, 8, 8, 8, 8, 8>>, result |-> 8],
   v |-> [params |-> <<8>>, result |-> 4], w |-> [params |-> <<4, 1>>, result |-> 4]]

MCFunctions ==
  CompiledFrom(Single \cup Division \cup Nested \cup Conditions \cup Stores \cup Sizes \cup CallsOf)

-----------------------------------------------------------------------------
(* Functions of the runs that show what does not work *)
PointerDifference == {L(Some, <<>>, <<Gives(Op("sub", p, t))>>)}
ArrayAddress      == {L(Some, <<>>, <<Gives(Deref(Deref(AddrOf(t))))>>)}
IntDivision       == {Program(IntType, Given({5}, {-3}, {2}), <<j>>,
                              <<Do(Assigned(j, i)), Gives(Op("div", i, j))>>)}

MCPointerDifference == CompiledFrom(PointerDifference)
MCArrayAddress      == CompiledFrom(ArrayAddress)
MCIntDivision       == CompiledFrom(IntDivision)

MCData  == 8..47
MCStack == 48..255
=============================================================================
