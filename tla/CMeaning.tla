------------------------------ MODULE CMeaning ------------------------------
(***************************************************************************)
(* What a function means in C: its statements evaluated over objects,      *)
(* without registers, addresses or quads.                                  *)
(*                                                                         *)
(* A value is [o, n]: the number n, or the address n bytes into object o.  *)
(* The state of an evaluation is the contents of the objects (by object    *)
(* and offset), the calls made, and whether the program has no meaning:    *)
(* a division by zero, an overflow, or the use of what was never stored.   *)
(***************************************************************************)
EXTENDS Types

CONSTANT
  Returns    \* the type of what each function elsewhere returns

NoValue  == [o |-> "nothing", n |-> 0]
Number(n) == [o |-> "", n |-> n]

(* Numbers of the scaled-down machine, two bits for each byte *)
InRange(n, size) == -(4^size \div 2) <= n /\ n < 4^size \div 2
Wrapped(n, size) ==
  LET m == n % 4^size IN IF InRange(m, size) THEN m ELSE m - 4^size

Decay(t) == IF t.k = "array" THEN Pointer(t.of) ELSE t
IsPointer(t) == t.k = "pointer"
Common(s, t) == IF 8 \in {SizeOf(s), SizeOf(t)} THEN LongType ELSE IntType

Comparisons == {"LT", "LTEQ", "GT", "GTEQ", "EQEQ", "NOTEQ"}

RECURSIVE CType(_)
CType(e) ==
  CASE e.n \in {"decl", "number"} -> e.ty
    [] e.n \in {"sizeof", "sizeoftype"} -> size_t
    [] e.n = "charlit" -> CharType
    [] e.n = "string"  -> Array(CharType, 8)
    [] e.n = "call"    -> Returns[e.fn.v]
    [] e.n = "deref"   -> Decay(CType(e.arg)).of
    [] e.n = "addrof"  -> Pointer(CType(e.arg))
    [] e.n = "assign"  -> CType(e.l)
    [] e.n = "bin" ->
         LET l == Decay(CType(e.l))   r == Decay(CType(e.r))
         IN  CASE e.op = "cast"          -> l
               [] e.op \in Comparisons   -> IntType
               [] e.op = "sub" /\ IsPointer(l) /\ IsPointer(r) -> LongType
               [] e.op \in {"add", "sub"} /\ IsPointer(l) /\ ~IsPointer(r) -> l
               [] e.op = "add" /\ IsPointer(r)            -> r
               [] OTHER -> Common(l, r)

Truth(b) == Number(IF b THEN 1 ELSE 0)
Compares(op, x, y) ==
  CASE op = "LT" -> x.n < y.n   [] op = "LTEQ" -> x.n <= y.n
    [] op = "GT" -> x.n > y.n   [] op = "GTEQ" -> x.n >= y.n
    [] op = "EQEQ" -> x = y     [] op = "NOTEQ" -> x # y

Abs(n)  == IF n < 0 THEN -n ELSE n
Sign(n) == IF n < 0 THEN -1 ELSE 1
TruncatedQuotient(x, y) == Sign(x) * Sign(y) * (Abs(x) \div Abs(y))
Calculate(op, x, y) ==
  CASE op = "add" -> x + y [] op = "sub" -> x - y [] op = "mul" -> x * y
    [] op = "div" -> TruncatedQuotient(x, y)
    [] op = "mod" -> x - y * TruncatedQuotient(x, y)

Meaningless(s) == [s |-> [s EXCEPT !.ub = TRUE], v |-> NoValue]

(* x op y, both numbers, in type t *)
Numbers(s, op, x, y, t) ==
  IF op \in {"div", "mod"} /\ y.n = 0 THEN Meaningless(s)
  ELSE LET n == Calculate(op, x.n, y.n)
       IN  IF InRange(n, SizeOf(t)) THEN [s |-> s, v |-> Number(n)] ELSE Meaningless(s)

(* Values converted to a type; addresses stay what they are. *)
As(v, t) ==
  IF v.o = "" /\ t.k = "scalar" THEN Number(Wrapped(v.n, SizeOf(t))) ELSE v

-----------------------------------------------------------------------------
(* Value: of an expression.  Place: the address of an lvalue. *)
RECURSIVE Value(_, _), Place(_, _), Values(_, _)

Place(s, e) ==
  CASE e.n = "decl"   -> [s |-> s, v |-> [o |-> e.v, n |-> 0]]
    [] e.n = "string" -> [s |-> s, v |-> [o |-> e.label, n |-> 0]]
    [] e.n = "deref"  -> Value(s, e.arg)

Contents(s, place) ==
  IF <<place.o, place.n>> \in DOMAIN s.store THEN s.store[<<place.o, place.n>>] ELSE NoValue

Update(s, place, v) ==
  [s EXCEPT !.store = [c \in DOMAIN s.store \cup {<<place.o, place.n>>} |->
                         IF c = <<place.o, place.n>> THEN v ELSE s.store[c]]]

(* Reading what an lvalue designates; an array is the address of its first *)
(* element.                                                                *)
Designated(s, e) ==
  LET P == Place(s, e)
      v == Contents(P.s, P.v)
  IN  IF CType(e).k = "array" \/ P.s.ub THEN P
      ELSE IF v = NoValue THEN Meaningless(P.s) ELSE [s |-> P.s, v |-> v]

Values(s, es) ==
  IF es = <<>> THEN [s |-> s, vs |-> <<>>]
  ELSE LET V == Value(s, Head(es))
           R == Values(V.s, Tail(es))
       IN  [s |-> R.s, vs |-> <<V.v>> \o R.vs]

BinaryValue(s, e) ==
  LET L == Value(s, e.l)
      R == Value(L.s, e.r)
      lt == Decay(CType(e.l))   rt == Decay(CType(e.r))
      By(v, t) == v.n * SizeOf(t.of)     \* a number of elements, in bytes
      Moved(p, n) == [s |-> R.s, v |-> [p EXCEPT !.n = @ + n]]
  IN  CASE R.s.ub -> Meaningless(R.s)
        [] ~R.s.ub /\ e.op \in Comparisons -> [s |-> R.s, v |-> Truth(Compares(e.op, L.v, R.v))]
        [] ~R.s.ub /\ e.op = "sub" /\ IsPointer(lt) /\ IsPointer(rt) ->
             [s |-> R.s, v |-> Number((L.v.n - R.v.n) \div SizeOf(lt.of))]
        [] ~R.s.ub /\ e.op = "add" /\ IsPointer(lt) -> Moved(L.v, By(R.v, lt))
        [] ~R.s.ub /\ e.op = "add" /\ IsPointer(rt) -> Moved(R.v, By(L.v, rt))
        [] ~R.s.ub /\ e.op = "sub" /\ IsPointer(lt) /\ ~IsPointer(rt) -> Moved(L.v, -By(R.v, lt))
        [] OTHER -> Numbers(R.s, e.op, L.v, R.v, Common(lt, rt))

Value(s, e) ==
  CASE s.ub -> Meaningless(s)
    [] ~s.ub /\ e.n \in {"decl", "deref", "string"} -> Designated(s, e)
    [] ~s.ub /\ e.n \in {"number", "charlit"} -> [s |-> s, v |-> As(Number(e.val), CType(e))]
    [] ~s.ub /\ e.n = "sizeof"     -> [s |-> s, v |-> Number(SizeOf(CType(e.arg)))]
    [] ~s.ub /\ e.n = "sizeoftype" -> [s |-> s, v |-> Number(SizeOf(e.ty))]
    [] ~s.ub /\ e.n = "addrof"     -> Place(s, e.arg)
    [] ~s.ub /\ e.n = "call" ->
         LET A == Values(s, e.args)
         IN  [s |-> [A.s EXCEPT !.calls = Append(@, [f |-> e.fn.v, args |-> A.vs])],
              v |-> Number(Len(A.s.calls) + 1)]
    [] ~s.ub /\ e.n = "assign" ->
         LET P == Place(s, e.l)
             R == Value(P.s, e.r)
             v == As(R.v, CType(e.l))
         IN  IF R.s.ub THEN Meaningless(R.s) ELSE [s |-> Update(R.s, P.v, v), v |-> v]
    [] ~s.ub /\ e.n = "bin" ->
         IF e.op # "cast" THEN BinaryValue(s, e)
         ELSE LET R == Value(s, e.r) IN [s |-> R.s, v |-> As(R.v, e.l.ty)]

(* The body up to its first return; with none, the function returns 0. *)
RECURSIVE Body(_, _)
Body(s, body) ==
  IF body = <<>> THEN [s |-> s, v |-> Number(0)]
  ELSE LET V == Value(s, Head(body).e)
       IN  CASE V.s.ub \/ Head(body).k = "return" -> V
             [] ~V.s.ub /\ Head(body).k = "if"   -> [s |-> V.s, v |-> Truth(V.v # Number(0))]
             [] ~V.s.ub /\ Head(body).k = "expr" -> Body(V.s, Tail(body))
=============================================================================
