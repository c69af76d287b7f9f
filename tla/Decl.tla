-------------------------------- MODULE Decl --------------------------------
(***************************************************************************)
(* Declarations: decl_install and decl_check_fndef of                      *)
(* src/src/parser/decl.c with declspec_fill_defaults and                   *)
(* declspec_check_empty of declspec.c.  Types are abstracted to what these *)
(* functions look at: the struct node behind the declaration, whether a    *)
(* pointer is next to it, and whether the declarator is a function.        *)
(***************************************************************************)
EXTENDS StructUnion

(* declspec_fill_defaults looks the name up again, from the current scope. *)
default_sc(M, n, sc) ==
  IF sc # "none" THEN sc
  ELSE IF M.stack[get_scope_id(M, n)].type = "file" THEN "extern" ELSE "auto"

(* Objects that are neither static nor extern, nor at file or prototype     *)
(* scope, go on the list of the enclosing function's symbols; its scope is  *)
(* dereferenced without a test.                                             *)
NeedsFnScope(scope, sc, is_fn) ==
  ~is_fn /\ sc \notin {"static", "extern"} /\ scope.type \notin {"file", "proto"}

(* What decl_install does once scope_insert has returned the scope l: the   *)
(* entry becomes the complete declaration.                                  *)
install_entry(I, l, n, sc, is_fn) ==
  LET e == [sc |-> default_sc(I, n, sc), proto |-> I.stack[l].type = "proto"]
      E == [I EXCEPT !.stack[l].ids[n] = e]
  IN  IF NeedsFnScope(E.stack[l], e.sc, is_fn) /\ get_fn_scope(E) = 0
      THEN Fatal(E, "null function scope") ELSE E

decl_install(M, n, sc, is_fn, node, behind_pointer) ==
  LET F == decl_finalize(M, node, behind_pointer)
      I == scope_insert_id(F, n, sc, [sc |-> sc, proto |-> FALSE])
  IN  IF F.fatal # Running \/ is_redeclaration(F, n, sc) \/ I.fatal # Running
      THEN After(F, I)
      ELSE install_entry(I, insert_level(F), n, sc, is_fn)

(* decl_check_fndef: the declarator must be a function without nameless    *)
(* parameters.                                                             *)
decl_check_fndef(M, is_fn, nameless) ==
  IF ~is_fn THEN Fatal(M, "expected function declarator before function definition")
  ELSE IF nameless THEN Fatal(M, "abstract declarator in parameter list of function definition")
  ELSE M

(* declspec_check_empty: only a bare struct specifier declares its tag. *)
declspec_check_empty(M, node, tag, sc) ==
  IF sc = "none" /\ node # Absent
  THEN structunion_forward_declare(M, tag) ELSE M
=============================================================================
