---------------------------- MODULE ScalarTypes ----------------------------
(***************************************************************************)
(* The scalar types and their sizes (sizeof.c): a base type with a modifier *)
(***************************************************************************)
EXTENDS Integers

Scalar(base, lls) == [k |-> "scalar", base |-> base, lls |-> lls]

Rejected == 0   \* no type has this size: astnode_sizeof_type is fatal

ScalarSize(base, lls) ==
  CASE lls = "long"      -> IF base = "int" THEN 8 ELSE 16
    [] lls = "long long" -> 8
    [] lls = "short"     -> 2
    [] lls = "unspec"    ->
         CASE base \in {"bool", "char"} -> 1
           [] base \in {"int", "float"} -> 4
           [] base = "double"           -> 8
           [] base \in {"void", "unspec"} -> Rejected
=============================================================================
