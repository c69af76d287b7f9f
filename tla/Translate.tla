----------------------------- MODULE Translate -----------------------------
(***************************************************************************)
(* The front end at work: the semantic actions of parser.y, in the order   *)
(* the grammar (ctx) runs them, on the state M of scope.c, structunion.c   *)
(* and decl.c.  One action per production with an effect on that state.    *)
(* The input program is chosen step by step by the \E of Next.             *)
(***************************************************************************)
EXTENDS Grammar, Decl

CONSTANT MaxStructs   \* bound on the number of struct nodes created

ASSUME TranslateAssumption == MaxStructs \in Nat

VARIABLES
  ctx,   \* the constructs being read
  M      \* the compiler's state

vars == <<ctx, M>>

(* main.c pushes the file scope before the first yyparse. *)
Init ==
  /\ ctx = <<FileFrame>>
  /\ M = [stack |-> InitScopes, hold |-> FALSE, fndef |-> FALSE, prev |-> {},
          fatal |-> Running, sus |-> <<>>, decls |-> <<>>]

Live == M.fatal = Running

(* A handler has computed N and the production is reduced to c, unless the  *)
(* handler called yyerror_fatal: then the process exits.                    *)
Reduce(N, c) ==
  IF N.fatal = Running THEN M' = N /\ ctx' = c
                       ELSE M' = [M EXCEPT !.fatal = N.fatal] /\ ctx' = ctx

(* The type next to the declaration specifiers is a pointer. *)
BehindPointer(f) == f.star \/ (f.lists = 0 /\ f.inner)

-----------------------------------------------------------------------------
(* Declaration specifiers *)

Scalar(sc) ==
  /\ MayDeclare(ctx, sc) /\ Room(ctx, 1)
  /\ Reduce(M, Specifiers(ctx, 0, NoTag, sc))

(* structunion IDENT *)
StructReference(tag, sc) ==
  /\ MayDeclare(ctx, sc) /\ Room(ctx, 1)
  /\ LET N == structunion_set_name(M, tag, FALSE) IN
     /\ Len(N.sus) <= MaxStructs
     /\ Reduce(After(N, structunion_done(N, FALSE)), Specifiers(ctx, TopStruct(N), tag, sc))

(* structunion IDENT '{' and structunion '{' *)
OpenStruct(tag, sc) ==
  /\ MayOpenMembers(ctx, tag, sc) /\ Room(ctx, 3)
  /\ LET N == structunion_set_name(M, tag, TRUE) IN
     /\ Len(N.sus) <= MaxStructs
     /\ Reduce(N, OpenMembers(ctx, TopStruct(N), tag, sc))

CloseStruct ==
  /\ MayCloseMembers(ctx)
  /\ Reduce(structunion_done(M, TRUE), CloseMembers(ctx))

-----------------------------------------------------------------------------
(* Declarators *)

Name(n, inner, star) ==
  /\ MayName(ctx, star) /\ n \in NamesHere(ctx)
  /\ Reduce(M, Named(ctx, n, inner, star))

OmitName(star) ==
  /\ MayOmitName(ctx, star)
  /\ Reduce(M, Named(ctx, NoName, FALSE, star))

(* '(' before the parameters of a function: only a named declarator's list *)
(* has a scope.                                                            *)
OpenParams ==
  /\ MayOpenList(ctx) /\ Room(ctx, 2)
  /\ Reduce(IF Top(ctx).name = NoName THEN M ELSE scope_push(M, "proto"),
            OpenList(ctx))

CloseParams ==
  /\ MayCloseList(ctx)
  /\ Reduce(IF Top(ctx).kind = "aparams" THEN M ELSE scope_pop(M),
            CloseList(ctx))

(* '(' ')', and '(' VOID ')', which declares nothing either *)
EmptyParams ==
  /\ MayOpenList(ctx)
  /\ Reduce(IF Top(ctx).name = NoName THEN M
            ELSE scope_pop(scope_push(M, "proto")),
            EmptyList(ctx))

-----------------------------------------------------------------------------
(* Declarations *)

(* initdecl, paramdecl or structdeclarator, by what the frame below reads *)
Install(f) ==
  IF Below(ctx).kind = "su"
  THEN structunion_install_member(M, f.name, f.node, BehindPointer(f))
  ELSE IF f.name = NoName
  THEN decl_finalize(M, f.node, BehindPointer(f))
  ELSE decl_install(M, f.name, f.sc, IsFunction(f), f.node, BehindPointer(f))

Declarator(more) ==
  /\ MayEndDeclarator(ctx, more)
  /\ Reduce(Install(Top(ctx)), EndDeclarator(ctx, more))

EmptyDeclaration ==
  /\ MayEndEmpty(ctx)
  /\ LET N == declspec_check_empty(M, Top(ctx).node, Top(ctx).tag, Top(ctx).sc) IN
     /\ Len(N.sus) <= MaxStructs
     /\ Reduce(N, EndEmpty(ctx))

-----------------------------------------------------------------------------
(* Function definitions, blocks and FOR with a declaration *)

Define(f) ==
  LET C == decl_check_fndef(M, IsFunction(f), f.nameless) IN
  After(C, decl_install(scope_set_fndef(C), f.name, f.sc, IsFunction(f), f.node,
                        BehindPointer(f)))

BeginBody ==
  /\ MayDefine(ctx)
  /\ LET N == Define(Top(ctx)) IN
     Reduce(After(N, scope_push_auto(N)), OpenBody(ctx))

(* A function with an empty body: its scope is popped as soon as pushed. *)
WholeBody ==
  /\ MayDefine(ctx)
  /\ LET N == Define(Top(ctx)) IN
     Reduce(After(N, scope_pop(scope_push_auto(N))), EmptyBody(ctx))

BeginBlock ==
  /\ AtStmt(ctx) /\ Room(ctx, 1)
  /\ Reduce(scope_push_auto(M), Push(ctx, "block", "items"))

EndBlock ==
  /\ MayCloseBlock(ctx)
  /\ Reduce(scope_pop(M), CloseBlock(ctx))

BeginFor ==
  /\ AtStmt(ctx) /\ Room(ctx, 2)
  /\ Reduce(scope_push_auto(M), Push(ctx, "for", "head"))

(* The body of a FOR is '{' '}', which pushes a scope and pops it again, or *)
(* a statement without a scope.                                             *)
SimpleStmt ==
  /\ AtStmt(ctx) /\ Top(ctx).kind = "for"
  /\ Reduce(scope_pop(scope_push_auto(M)), StmtDone(ctx))

FinishFor ==
  /\ MayEndFor(ctx)
  /\ Reduce(scope_pop(M), EndFor(ctx))

-----------------------------------------------------------------------------
(* The process has exited. *)
Exited == ~Live /\ UNCHANGED vars

Step ==
  \/ \E sc \in StorageClasses : Scalar(sc)
  \/ \E sc \in StorageClasses, tag \in Tags : StructReference(tag, sc)
  \/ \E sc \in StorageClasses, tag \in TagNames : OpenStruct(tag, sc)
  \/ CloseStruct
  \/ \E n \in Idents \cup Members, inner, star \in BOOLEAN : Name(n, inner, star)
  \/ \E star \in BOOLEAN : OmitName(star)
  \/ OpenParams \/ CloseParams \/ EmptyParams
  \/ \E more \in BOOLEAN : Declarator(more)
  \/ EmptyDeclaration
  \/ BeginBody \/ WholeBody
  \/ BeginBlock \/ EndBlock
  \/ BeginFor \/ SimpleStmt \/ FinishFor

Next == (Live /\ Step) \/ Exited

Spec == Init /\ [][Next]_vars

-----------------------------------------------------------------------------
(* Properties *)

(* Every variable has the type its C declaration or its grammar gives it. *)
TypeOK == M \in State /\ ctx \in Seq(Frames)

(* The scope a construct of the grammar runs in: what the doc comments of  *)
(* scope.h say each scope type is for.                                     *)
TypeOfScope(kind) ==
  CASE kind = "file"   -> "file"
    [] kind = "params" -> "proto"
    [] kind = "body"   -> "func"
    [] OTHER           -> "block"

(* The scopes on the stack that belong to open constructs: all but a held  *)
(* prototype, which outlives its parameter list.                           *)
Visible == Len(M.stack) - (IF M.hold THEN 1 ELSE 0)

(* The push and pop calls scattered over parser.y, scope.c and             *)
(* structunion.c balance: at every point between two semantic actions the  *)
(* scope stack holds one scope per open construct that has one, of the     *)
(* right type, and beyond those at most one held prototype, which can only *)
(* be directly above the file scope.                                       *)
ScopesMatchConstructs ==
  /\ Top(ctx).depth = Visible
  /\ \A i \in 1..Len(ctx) :
       ctx[i].kind \in OpensScope \cup {"file"} =>
         M.stack[ctx[i].depth].type = TypeOfScope(ctx[i].kind)
  /\ M.hold => Len(M.stack) = 2 /\ M.stack[2].type = "proto"

(* The checks that the comments call "shouldn't happen" never fire, and    *)
(* decl_install never follows the null pointer get_fn_scope returns        *)
(* outside a function: whatever the program, the compiler stops only for   *)
(* an error of the program.                                                *)
NoInternalError == M.fatal \notin InternalErrors

(* The constructs open in c up to the i-th that are structs. *)
StructsUpTo(c, i) == {j \in 1..i : c[j].kind = "su"}

(* su_decl_stack holds the structs whose braces are open, innermost last,  *)
(* so a member is always installed in the struct it is written in; and a   *)
(* struct marked as being defined is one of them.                          *)
StructsMatchConstructs ==
  /\ Len(M.decls) = Cardinality(StructsUpTo(ctx, Len(ctx)))
  /\ \A i \in StructsUpTo(ctx, Len(ctx)) :
       M.decls[Cardinality(StructsUpTo(ctx, i))] = ctx[i].node
  /\ \A s \in 1..Len(M.sus) :
       M.sus[s].defining => \E i \in 1..Len(M.decls) : M.decls[i] = s

(* A struct type is defined once: from its '}' on it keeps its members,    *)
(* whatever scopes, references and definitions of the same tag follow.     *)
CompleteIsFinal ==
  [][\A s \in 1..Len(M.sus) : M.sus[s].complete => M'.sus[s] = M.sus[s]]_vars

(* The scope that becomes a function's scope, and that                     *)
(* associate_fn_with_scope gives the function for code generation, is the  *)
(* one its own parameters were declared in ("prototype scopes, which       *)
(* automatically promote to function scopes in a function definition").    *)
BodyScopeIsOwn ==
  \A i \in 1..Len(ctx) : ctx[i].kind = "body" =>
    /\ Params(M.stack[2]) = ctx[i].own
    /\ M.prev = ctx[i].own
=============================================================================
