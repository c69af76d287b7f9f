--------------------------- MODULE LexicalScopes ---------------------------
(***************************************************************************)
(* What the scope machinery promises: the scopes of C, without a held      *)
(* prototype.  The environment env is the stack of the scopes of the       *)
(* constructs that are open.  A parameter list opens a scope and closes    *)
(* it; the body of a function definition re-opens the scope of its own     *)
(* declarator's parameter list, kept in proto.  A program is rejected only *)
(* for what it does wrong: a name or member declared twice, a struct       *)
(* redefined or used incomplete, a definition that is no function.         *)
(***************************************************************************)
EXTENDS Grammar

VARIABLES
  ctx,      \* the constructs being read
  env,      \* the open scopes, innermost last
  proto,    \* <<the parameter scope that a body may re-open>>, or <<>>
  heap,     \* the struct types: complete, members
  verdict   \* Accepted so far, or why the program is rejected

vars == <<ctx, env, proto, heap, verdict>>

Accepted == "running"

NoEntry  == [sc |-> "absent", proto |-> FALSE]
Empty    == [tags |-> [t \in TagNames |-> 0], ids |-> [n \in Idents |-> NoEntry]]

Init ==
  /\ ctx = <<FileFrame>> /\ env = <<Empty>> /\ proto = <<>>
  /\ heap = <<>> /\ verdict = Accepted

Here           == env[Len(env)]
Depth(t)       == {i \in 1..Len(env) : env[i].tags[t] # 0}
Visible(t)     == Depth(t) # {}
NodeOf(t)      == env[CHOOSE i \in Depth(t) : \A j \in Depth(t) : j <= i].tags[t]
NewNode        == Len(heap) + 1
NewStruct      == [complete |-> FALSE, members |-> {}]
BeingDefined(s) == \E i \in 1..Len(ctx) : ctx[i].kind = "su" /\ ctx[i].node = s
Incomplete(f)  == /\ f.node # 0 /\ ~heap[f.node].complete
                  /\ ~(f.star \/ (f.lists = 0 /\ f.inner))

(* A program is rejected for a reason that applies; when several do, for  *)
(* any of them.                                                            *)
Why(applies, reason) == IF applies THEN {reason} ELSE {}
Reject(reasons) == verdict' \in reasons /\ UNCHANGED <<ctx, env, proto, heap>>
Accept(c) == ctx' = c /\ verdict' = Accepted
(* A prototype that no body will re-open may be forgotten at any time. *)
Forget == proto' \in {proto, <<>>}

(* A new struct type, and its tag in the current scope. *)
NewTag(t) ==
  /\ heap' = Append(heap, NewStruct)
  /\ env' = [env EXCEPT ![Len(env)].tags[t] = NewNode]

-----------------------------------------------------------------------------
Scalar(sc) ==
  /\ MayDeclare(ctx, sc) /\ Room(ctx, 1)
  /\ Accept(Specifiers(ctx, 0, NoTag, sc)) /\ Forget /\ UNCHANGED <<env, heap>>

(* A reference is to the visible struct of that tag, or declares one. *)
StructReference(tag, sc) ==
  /\ MayDeclare(ctx, sc) /\ Room(ctx, 1) /\ Forget
  /\ IF Visible(tag)
     THEN Accept(Specifiers(ctx, NodeOf(tag), tag, sc)) /\ UNCHANGED <<env, heap>>
     ELSE Accept(Specifiers(ctx, NewNode, tag, sc)) /\ NewTag(tag)

(* A definition completes the struct declared in this scope, or a new one. *)
OpenStruct(tag, sc) ==
  /\ MayOpenMembers(ctx, tag, sc) /\ Room(ctx, 3)
  /\ LET s == Here.tags[tag] IN
     IF tag # Untagged /\ s # 0
     THEN IF heap[s].complete \/ BeingDefined(s)
          THEN Reject(Why(heap[s].complete, "struct/union redefinition") \cup
                      Why(BeingDefined(s), "nested struct/union redefinition"))
          ELSE /\ Accept(OpenMembers(ctx, s, tag, sc))
               /\ Forget /\ UNCHANGED <<env, heap>>
     ELSE /\ Accept(OpenMembers(ctx, NewNode, tag, sc)) /\ Forget
          /\ IF tag = Untagged
             THEN heap' = Append(heap, NewStruct) /\ UNCHANGED env
             ELSE NewTag(tag)

CloseStruct ==
  /\ MayCloseMembers(ctx)
  /\ Accept(CloseMembers(ctx)) /\ Forget
  /\ heap' = [heap EXCEPT ![Top(ctx).node].complete = TRUE] /\ UNCHANGED env

Name(n, inner, star) ==
  /\ MayName(ctx, star) /\ n \in NamesHere(ctx)
  /\ Accept(Named(ctx, n, inner, star)) /\ Forget /\ UNCHANGED <<env, heap>>

OmitName(star) ==
  /\ MayOmitName(ctx, star)
  /\ Accept(Named(ctx, NoName, FALSE, star)) /\ Forget /\ UNCHANGED <<env, heap>>

(* At file level the parameter scope of a function's own list is kept; the *)
(* later lists of the same declarator leave it alone.                      *)
KeepProto(f, closed) ==
  IF f.inner THEN proto' \in {proto, <<>>, <<closed>>}
  ELSE IF f.lists = 0 THEN proto' = <<closed>>
  ELSE proto' = proto

OpenParams ==
  /\ MayOpenList(ctx) /\ Room(ctx, 2)
  /\ Accept(OpenList(ctx)) /\ env' = Append(env, Empty)
  /\ IF IsFunction(Top(ctx)) THEN proto' = proto ELSE Forget
  /\ UNCHANGED heap

CloseParams ==
  /\ MayCloseList(ctx)
  /\ Accept(CloseList(ctx)) /\ env' = Front(env) /\ UNCHANGED heap
  /\ IF Len(env) > 2 THEN Forget ELSE KeepProto(Below(ctx), Here)

EmptyParams ==
  /\ MayOpenList(ctx)
  /\ Accept(EmptyList(ctx)) /\ UNCHANGED <<env, heap>>
  /\ IF Len(env) > 1 THEN Forget ELSE KeepProto(Top(ctx), Empty)

-----------------------------------------------------------------------------
BadType(f) == Why(Incomplete(f), "incomplete type in non-pointer declaration")

(* Declaring n in scope i: only what has linkage may be declared again. *)
Linkage(sc, i) == sc = "extern" \/ (sc = "none" /\ i = 1)
Clash(n, sc, i) ==
  Why(n # NoName /\ env[i].ids[n] # NoEntry /\ ~Linkage(sc, i),
      "symbol already exists in symbol table")
Declare(n, sc, i) ==
  IF env[i].ids[n] # NoEntry THEN env
  ELSE [env EXCEPT ![i].ids[n] =
          [sc |-> IF sc # "none" THEN sc ELSE IF i = 1 THEN "extern" ELSE "auto",
           proto |-> i = Len(env) /\ Below(ctx).kind = "params"]]

Member(f, more) ==
  LET s == Below(ctx).node
      wrong == BadType(f) \cup Why(f.name \in heap[s].members, "duplicate member")
  IN
  IF wrong # {} THEN Reject(wrong)
  ELSE /\ Accept(EndDeclarator(ctx, more)) /\ Forget /\ UNCHANGED env
       /\ heap' = [heap EXCEPT ![s].members = @ \cup {f.name}]

Declarator(more) ==
  /\ MayEndDeclarator(ctx, more)
  /\ LET f == Top(ctx)
         wrong == BadType(f) \cup Clash(f.name, f.sc, Len(env))
     IN
     IF Below(ctx).kind = "su" THEN Member(f, more)
     ELSE IF wrong # {} THEN Reject(wrong)
     ELSE /\ Accept(EndDeclarator(ctx, more)) /\ Forget /\ UNCHANGED heap
          /\ env' = IF f.name = NoName THEN env ELSE Declare(f.name, f.sc, Len(env))

(* struct t; declares t in this scope, whatever an outer scope has. *)
EmptyDeclaration ==
  /\ MayEndEmpty(ctx) /\ Accept(EndEmpty(ctx)) /\ Forget
  /\ LET f == Top(ctx) IN
     IF f.sc = "none" /\ f.node # 0 /\ Here.tags[f.tag] = 0
     THEN NewTag(f.tag) ELSE UNCHANGED <<env, heap>>

(* The body's scope is that of the function's own parameters. *)
Definition(c, body) ==
  /\ MayDefine(ctx)
  /\ LET f == Top(ctx)
         wrong == BadType(f) \cup Clash(f.name, f.sc, 1) \cup
                  Why(~IsFunction(f), "expected function declarator before function definition") \cup
                  Why(f.nameless, "abstract declarator in parameter list of function definition")
     IN
     IF wrong # {} THEN Reject(wrong)
     ELSE /\ proto # <<>>
          /\ {n \in Idents : proto[1].ids[n].proto} = f.own
          /\ Accept(c) /\ Forget /\ UNCHANGED heap
          /\ env' = Declare(f.name, f.sc, 1) \o body

BeginBody == Definition(OpenBody(ctx), proto)
WholeBody == Definition(EmptyBody(ctx), <<>>)

BeginBlock ==
  /\ AtStmt(ctx) /\ Room(ctx, 1)
  /\ Accept(Push(ctx, "block", "items"))
  /\ env' = Append(env, Empty) /\ Forget /\ UNCHANGED heap

BeginFor ==
  /\ AtStmt(ctx) /\ Room(ctx, 2)
  /\ Accept(Push(ctx, "for", "head"))
  /\ env' = Append(env, Empty) /\ Forget /\ UNCHANGED heap

SimpleStmt ==
  /\ AtStmt(ctx) /\ Top(ctx).kind = "for"
  /\ Accept(StmtDone(ctx)) /\ Forget /\ UNCHANGED <<env, heap>>

(* '}' of a body or block, and the end of a FOR: the scope is closed. *)
Leave ==
  /\ \/ MayCloseBlock(ctx) /\ Accept(CloseBlock(ctx))
     \/ MayEndFor(ctx) /\ Accept(EndFor(ctx))
  /\ env' = Front(env) /\ Forget /\ UNCHANGED heap

Step ==
  \/ \E sc \in StorageClasses : Scalar(sc)
  \/ \E sc \in StorageClasses, tag \in Tags : StructReference(tag, sc)
  \/ \E sc \in StorageClasses, tag \in TagNames : OpenStruct(tag, sc)
  \/ CloseStruct
  \/ \E n \in Idents \cup Members, inner, star \in BOOLEAN : Name(n, inner, star)
  \/ \E star \in BOOLEAN : OmitName(star)
  \/ OpenParams \/ CloseParams \/ EmptyParams
  \/ \E more \in BOOLEAN : Declarator(more)
  \/ EmptyDeclaration
  \/ BeginBody \/ WholeBody
  \/ BeginBlock \/ BeginFor \/ SimpleStmt \/ Leave

Next == verdict = Accepted /\ Step

Spec == Init /\ [][Next]_vars
=============================================================================
