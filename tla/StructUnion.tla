---------------------------- MODULE StructUnion ----------------------------
(***************************************************************************)
(* Struct and union types: src/src/parser/structunion.c, on top of Scope.  *)
(* The compiler's state M also has                                         *)
(*   sus    the struct nodes that were kept, in order of creation, with    *)
(*          is_complete, is_being_defined and the names in members_ht;     *)
(*   decls  su_decl_stack, as indices in sus.                              *)
(* structunion_new allocates a node that structunion_set_name may replace  *)
(* by an existing one; the two always run together, so that a node exists  *)
(* here only once it has been kept.                                        *)
(***************************************************************************)
EXTENDS Scope

NewStruct(defining) ==
  [complete |-> FALSE, defining |-> defining, members |-> {}]

Struct == [complete : BOOLEAN, defining : BOOLEAN,
           members : SUBSET Members]
State  == [stack : Seq(Scopes), hold : BOOLEAN, fndef : BOOLEAN,
           prev : SUBSET Idents, fatal : Messages, sus : Seq(Struct), decls : Seq(Nat)]

TopStruct(M) == Last(M.decls)

(* The node is kept on the stack and, when it has a tag, inserted. *)
KeepNew(M, tag, defining) ==
  LET N == [M EXCEPT !.sus = Append(@, NewStruct(defining)),
                     !.decls = Append(@, Len(M.sus) + 1)]
  IN  IF tag = Untagged /\ defining THEN N
      ELSE scope_insert_tag(N, tag, Len(N.sus))

ReuseOuterTag(M, tag, begin_def) ==
  LET node == IF tag = Untagged THEN Absent ELSE scope_lookup_tag(M, tag)
  IN  IF node # Absent
      THEN IF begin_def /\ M.sus[node].complete
           THEN Fatal(M, "struct/union redefinition")
           ELSE [M EXCEPT !.decls = Append(@, node),
                          !.sus[node].defining = begin_def]
      ELSE KeepNew(M, tag, begin_def)
AllowRedefinition(M, tag, begin_def) ==
  LET node == IF tag = Untagged THEN Absent ELSE scope_lookup_tag(M, tag)
  IN  IF node # Absent /\ (~begin_def \/ get_scope_tag(M, tag) = current(M))
      THEN [M EXCEPT !.decls = Append(@, node), !.sus[node].defining = begin_def]
      ELSE KeepNew(M, tag, begin_def)
(* structunion_new, structunion_set_name(ident, begin_def) *)
structunion_set_name(M, tag, begin_def) ==
  LET node == IF tag = Untagged THEN Absent ELSE scope_lookup_tag(M, tag)
  IN  IF node # Absent /\ get_scope_tag(M, tag) = current(M)
      THEN IF begin_def /\ M.sus[node].complete
           THEN Fatal(M, "struct/union redefinition")
           ELSE IF begin_def /\ M.sus[node].defining
           THEN Fatal(M, "nested struct/union redefinition")
           ELSE [M EXCEPT !.decls = Append(@, node),
                          !.sus[node].defining = begin_def]
      ELSE IF node # Absent /\ ~begin_def
           THEN [M EXCEPT !.decls = Append(@, node)]
           ELSE KeepNew(M, tag, begin_def)

(* decl_finalize's check: the declared type may be incomplete only behind   *)
(* a pointer (decl_check).                                                  *)
decl_finalize(M, node, behind_pointer) ==
  IF node # Absent /\ ~behind_pointer /\ ~M.sus[node].complete
  THEN Fatal(M, "incomplete type in non-pointer declaration") ELSE M

(* structunion_install_member: su names the struct at the top of the stack *)
structunion_install_member(M, ident, node, behind_pointer) ==
  LET F == decl_finalize(M, node, behind_pointer)
      su == TopStruct(M)
  IN  After(F, IF ident \in F.sus[su].members THEN Fatal(F, "duplicate member")
               ELSE [F EXCEPT !.sus[su].members = @ \cup {ident}])

PopOnlyComplete(M, is_complete) ==
  LET su == TopStruct(M) IN
  IF is_complete
  THEN [M EXCEPT !.sus[su].defining = FALSE, !.sus[su].complete = TRUE,
                 !.decls = Front(@)]
  ELSE M
(* structunion_done: a definition is printed inside a dummy scope *)
structunion_done(M, is_complete) ==
  LET su == TopStruct(M)
      P  == IF M.sus[su].defining /\ is_complete
            THEN scope_pop(scope_push(M, "structunion")) ELSE M
      C  == IF is_complete
            THEN [P EXCEPT !.sus[su].defining = FALSE, !.sus[su].complete = TRUE]
            ELSE P
  IN  After(P, [C EXCEPT !.decls = Front(@)])

(* structunion_forward_declare, from declspec_check_empty *)
structunion_forward_declare(M, tag) ==
  IF scope_lookup_tag(M, tag) # Absent /\ get_scope_tag(M, tag) = current(M)
  THEN M
  ELSE LET N == KeepNew(M, tag, FALSE) IN After(N, structunion_done(N, FALSE))
=============================================================================
