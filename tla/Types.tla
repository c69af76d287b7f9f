------------------------------- MODULE Types -------------------------------
(***************************************************************************)
(* The types of declarations and of struct addr, as far as code generation *)
(* looks at them: the chain of declarators down to a type specifier, and   *)
(* sizeof.c.                                                               *)
(***************************************************************************)
EXTENDS ScalarTypes, Sequences

Pointer(t)  == [k |-> "pointer", of |-> t]
Array(t, n) == [k |-> "array", of |-> t, length |-> n]
Function(t) == [k |-> "function", of |-> t]
Struct(members) == [k |-> "struct", members |-> members]   \* a union too

Implicit == [k |-> "implicit"]   \* the return type of an undeclared function
Void     == Scalar("void", "unspec")
CharType == Scalar("char", "unspec")
IntType  == Scalar("int", "unspec")
LongType == Scalar("int", "long")
size_t   == Scalar("int", "long long")

RECURSIVE SizeOf(_), SizeOfMembers(_)
SizeOf(t) ==
  CASE t.k = "array"   -> t.length * SizeOf(t.of)
    [] t.k \in {"pointer", "function"} -> 8
    [] t.k = "scalar"  -> ScalarSize(t.base, t.lls)
    [] t.k = "struct"  -> SizeOfMembers(t.members)
(* No padding, and no difference between a struct and a union *)
SizeOfMembers(ms) == IF ms = <<>> THEN 0 ELSE SizeOf(Head(ms)) + SizeOfMembers(Tail(ms))
=============================================================================
