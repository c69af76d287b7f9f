------------------------ MODULE TranslateRefinement ------------------------
(***************************************************************************)
(* Translate implements LexicalScopes: the scope stack with its held       *)
(* prototype, fndef flag and struct stack gives every program the scopes,  *)
(* the struct types and the verdict of C's rules.                          *)
(***************************************************************************)
EXTENDS Translate

(* What a program can observe of a scope and of a struct type *)
Contents(scope) == [tags |-> scope.tags, ids |-> scope.ids]
TypeOf(su)      == [complete |-> su.complete, members |-> su.members]

(* A held prototype is still on the stack, but its construct is closed. *)
OpenScopes(S) == IF S.hold THEN Front(S.stack) ELSE S.stack

(* SubSeq makes a sequence of the function for TLC.                        *)
Environment(S) ==
  LET open == OpenScopes(S)
  IN  SubSeq([i \in 1..Len(open) |-> Contents(open[i])], 1, Len(open))
Prototype(S)   == IF S.hold THEN <<Contents(Last(S.stack))>> ELSE <<>>
Heap(S)        == [s \in 1..Len(S.sus) |-> TypeOf(S.sus[s])]

LS == INSTANCE LexicalScopes WITH
        env     <- Environment(M),
        proto   <- Prototype(M),
        heap    <- Heap(M),
        verdict <- M.fatal

(* Every step of the compiler is a step of C's scoping, or changes nothing *)
(* a program can observe: a declaration lands in the innermost open scope, *)
(* a tag refers to the struct C says it does, a body sees its own          *)
(* parameters, and a program is turned away exactly for what is wrong.     *)
LexicalScoping == LS!Spec
=============================================================================
