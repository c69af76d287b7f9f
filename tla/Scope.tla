------------------------------- MODULE Scope -------------------------------
(***************************************************************************)
(* The scope stack of src/src/parser/scope.c.                              *)
(*                                                                         *)
(* M is the state of the compiler, a record with at least                  *)
(*   stack   scope_stack[0..scope_pos], shifted to start at 1;             *)
(*   hold    prototype_hold;                                               *)
(*   fndef   is_fndef;                                                     *)
(*   prev    prev_fn_scope, of which only the parameters matter;           *)
(*   fatal   the message of the yyerror_fatal that ended the process, or   *)
(*           Running.                                                      *)
(* Each C function is an operator from M to M.  yyerror_fatal does not     *)
(* return: After(N, P) is what P computes from N, unless N has exited.     *)
(* A symbol table is a function on the names of its name space; the label  *)
(* name space is never used by the source.                                 *)
(***************************************************************************)
EXTENDS Names, Naturals, Sequences, SequencesExt

(* The yyerror_fatal messages of scope.c, symtab.c, structunion.c and       *)
(* decl.c: what is wrong with the program, and what "shouldn't happen".    *)
Running == "running"
ProgramErrors ==
  {"symbol already exists in symbol table", "struct/union redefinition",
   "nested struct/union redefinition", "duplicate member",
   "incomplete type in non-pointer declaration",
   "expected function declarator before function definition",
   "abstract declarator in parameter list of function definition"}
InternalErrors == {"popping empty scope stack", "unexpected scope position",
                   "null function scope"}
Messages == {Running} \cup ProgramErrors \cup InternalErrors

NoEntry == [sc |-> "absent", proto |-> FALSE]
Absent  == 0

ScopeTypes == {"file", "func", "block", "proto", "structunion"}

(* calloc'ed struct scope with three empty symbol tables *)
NewScope(type) == [type |-> type,
                   tags |-> [t \in TagNames |-> Absent],
                   ids  |-> [n \in Idents |-> NoEntry]]

Entry  == [sc : {"absent", "none", "extern", "static", "auto"}, proto : BOOLEAN]
Scopes == [type : ScopeTypes, tags : [TagNames -> Nat], ids : [Idents -> Entry]]

InitScopes == <<NewScope("file")>>

Fatal(M, why) == [M EXCEPT !.fatal = why]
After(N, P)   == IF N.fatal = Running THEN P ELSE N

current(M) == Len(M.stack)

(* The names that decl_install marked is_proto in a scope. *)
Params(scope) == {n \in Idents : scope.ids[n].proto}

-----------------------------------------------------------------------------
(* scope_pop: a prototype directly in the file scope is only put on hold. *)
HoldEveryPrototype(M) ==
  IF current(M) = 1 THEN Fatal(M, "popping empty scope stack")
  ELSE IF Last(M.stack).type = "proto" THEN [M EXCEPT !.hold = TRUE]
  ELSE [M EXCEPT !.stack = Front(@)]
scope_pop(M) ==
  IF current(M) = 1 THEN Fatal(M, "popping empty scope stack")
  ELSE IF current(M) = 2 /\ M.stack[2].type = "proto" THEN [M EXCEPT !.hold = TRUE]
  ELSE [M EXCEPT !.stack = Front(@)]

(* The block that scope_push and scope_insert share: the held prototype is *)
(* retyped, so that scope_pop really pops it.                              *)
clear_held(M) ==
  IF current(M) # 2 THEN Fatal(M, "unexpected scope position")
  ELSE [scope_pop([M EXCEPT !.stack[2].type = "file"]) EXCEPT !.hold = FALSE]

PushOverHeld(M, type) == [M EXCEPT !.stack = Append(@, NewScope(type))]
(* scope_push with an explicit type (ST_PROTO, ST_STRUCTUNION) *)
scope_push(M, type) ==
  LET R == IF M.hold THEN clear_held(M) ELSE M
  IN  After(R, [R EXCEPT !.stack = Append(@, NewScope(type))])

(* scope_push(0): a function scope by promotion, or a block *)
PushWithoutType(M) ==
  IF current(M) = 2 /\ M.hold
  THEN [M EXCEPT !.stack[2].type = "func", !.hold = FALSE,
                 !.prev = Params(M.stack[2])]
  ELSE [M EXCEPT !.stack = Append(@, NewScope("unspecified"))]
PromoteWithoutPrev(M) ==
  IF current(M) = 2 /\ M.hold
  THEN [M EXCEPT !.stack[2].type = "func", !.hold = FALSE]
  ELSE [M EXCEPT !.stack = Append(@, NewScope("block"))]
scope_push_auto(M) ==
  IF current(M) = 2 /\ M.hold
  THEN [M EXCEPT !.stack[2].type = "func", !.hold = FALSE,
                 !.prev = Params(M.stack[2])]
  ELSE [M EXCEPT !.stack = Append(@, NewScope("block"))]

-----------------------------------------------------------------------------
(* get_scope: the innermost scope that has the name, 0 for NULL *)
IsInnermost(i, S) == i \in S /\ \A j \in S : j <= i
Innermost(S) == IF \E i \in S : IsInnermost(i, S)
                THEN CHOOSE i \in S : IsInnermost(i, S) ELSE 0
get_scope_tag(M, t) == Innermost({i \in 1..current(M) : M.stack[i].tags[t] # Absent})
get_scope_id(M, n)  == Innermost({i \in 1..current(M) : M.stack[i].ids[n] # NoEntry})

(* scope_lookup in the tag name space: the struct node, or Absent *)
scope_lookup_tag(M, t) ==
  IF get_scope_tag(M, t) = 0 THEN Absent ELSE M.stack[get_scope_tag(M, t)].tags[t]

get_fn_scope(M) == IF current(M) >= 2 /\ M.stack[2].type = "func" THEN 2 ELSE 0

-----------------------------------------------------------------------------
(* scope_insert: the scope it inserts in, after its treatment of a held     *)
(* prototype; is_fndef sends a function's own name to the file scope.       *)
InsertBreaksHold(M) == IF M.hold THEN clear_held(M) ELSE M
insert_state(M) == IF M.hold /\ ~M.fndef THEN clear_held(M) ELSE M
insert_level(M) == IF M.fndef THEN 1 ELSE current(insert_state(M))

(* extern_redeclaration, with the conditions under which it is consulted *)
is_redeclaration(M, n, sc) ==
  LET R == insert_state(M) IN
  /\ sc = "extern" \/ (sc = "none" /\ (current(R) = 1 \/ M.fndef))
  /\ R.stack[insert_level(M)].ids[n] # NoEntry

(* symtab_insert fails on a name that is there. *)
scope_insert_tag(M, t, node) ==
  LET R == insert_state(M)
      l == insert_level(M)
  IN  After(R, IF R.stack[l].tags[t] # Absent
               THEN Fatal(R, "symbol already exists in symbol table")
               ELSE [R EXCEPT !.stack[l].tags[t] = node, !.fndef = FALSE])

scope_insert_id(M, n, sc, entry) ==
  LET R == insert_state(M)
      l == insert_level(M)
  IN  After(R, IF is_redeclaration(M, n, sc) THEN [R EXCEPT !.fndef = FALSE]
               ELSE IF R.stack[l].ids[n] # NoEntry
               THEN Fatal(R, "symbol already exists in symbol table")
               ELSE [R EXCEPT !.stack[l].ids[n] = entry, !.fndef = FALSE])

scope_set_fndef(M) == [M EXCEPT !.fndef = TRUE]
=============================================================================
