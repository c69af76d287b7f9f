---------------------------- MODULE MCTypeSpec ----------------------------
(***************************************************************************)
(* All lists of up to four type specifiers, all of up to three keywords of *)
(* any kind, and every order of the longest lists that C allows.           *)
(***************************************************************************)
EXTENDS TypeSpec

UpTo(n, keywords) == UNION {[1..k -> keywords] : k \in 1..n}
Orders(longest) ==
  {[i \in DOMAIN longest |-> longest[order[i]]] :
     order \in {o \in [DOMAIN longest -> DOMAIN longest] :
                  \A i, j \in DOMAIN longest : i # j => o[i] # o[j]}}

MCLists ==
  UpTo(4, Bases \cup Modifiers)
  \cup UpTo(3, Bases \cup Modifiers \cup Structs \cup TypeQualifiers \cup {"static", "extern"})
  \cup Orders(<<"unsigned", "long", "long", "int", "const">>)
  \cup Orders(<<"const", "long", "static", "double", "volatile">>)
=============================================================================
