------------------------------ MODULE Grammar ------------------------------
(***************************************************************************)
(* The declaration and statement grammar of src/src/parser/parser.y, as    *)
(* far as it decides when the semantic actions on scopes, tags and         *)
(* declarations run.  The bison stack is abstracted to ctx, a sequence of  *)
(* frames, one per construct that has been opened and not yet reduced:     *)
(*                                                                         *)
(*   file    the translation unit (always ctx[1])                          *)
(*   decl    one declaration: specifiers read, then declarators            *)
(*   params  '(' paramtypelist ')' of a dirdeclarator (opens a scope)      *)
(*   aparams '(' paramtypelist ')' of a dirabsdeclarator (opens none)      *)
(*   su      '{' structdecllist '}'                                        *)
(*   body    the compound statement of a function definition               *)
(*   block   any other compound statement                                  *)
(*   for     FOR '(' decl ... ')' stmt                                     *)
(*                                                                         *)
(* Expressions, array suffixes and the statements without a scope change   *)
(* none of this state and are left out.  Everything here is a constant     *)
(* operator on a ctx value; the specifications that use it say what each   *)
(* production does to the compiler's own state.                            *)
(***************************************************************************)
EXTENDS Names, Naturals, Sequences, SequencesExt

CONSTANTS
  StorageClasses,  \* storage classes used, among none, extern and static
  MaxCtx,          \* bound on the nesting of constructs
  MaxLists,        \* bound on the parameter lists of one declarator
  FnPtrMembers,    \* whether members may be function pointers in a struct
                   \* that is not inside a function or a parameter list
  AbstractFns,     \* whether abstract declarators may be functions
  ParamNamedAsFn,  \* whether a parameter may have its function's name
  NestedSameTag    \* whether a definition may contain one of its own tag

ASSUME GrammarAssumption ==
  /\ "none" \in StorageClasses /\ StorageClasses \subseteq {"none", "extern", "static"}
  /\ MaxCtx \in Nat /\ MaxLists \in Nat
  /\ {FnPtrMembers, AbstractFns, ParamNamedAsFn, NestedSameTag} \subseteq BOOLEAN

OpensScope     == {"params", "body", "block", "for"}
FrameKinds     == OpensScope \cup {"file", "decl", "aparams", "su"}

(***************************************************************************)
(* A frame.  depth counts the scope-opening constructs up to and including *)
(* this one (the file is 1); node is the struct a decl or su frame is      *)
(* about (0: a scalar type) and tag its identifier.  The others describe    *)
(* the declarator being read: its name, inner for a pointer that binds     *)
(* before the first parameter list, star for one that binds after the      *)
(* last, lists for the number of lists read and own for the names that the *)
(* first declares, when the declarator is a function; params collects      *)
(* those names, and a body keeps them.                                     *)
(***************************************************************************)
Frame(kind, depth, at) ==
  [kind |-> kind, depth |-> depth, node |-> 0, tag |-> NoTag, sc |-> "none", at |-> at,
   name |-> NoName, inner |-> FALSE, star |-> FALSE, lists |-> 0,
   own |-> {}, nameless |-> FALSE, first |-> TRUE]

Frames ==
  [kind : FrameKinds, depth : Nat, node : Nat, tag : TagNames \cup {NoTag}, sc : StorageClasses,
   at : {"items", "spec", "name", "more", "empty", "some", "head", "body", "tail"},
   name : Idents \cup Members \cup {NoName},
   inner : BOOLEAN, star : BOOLEAN, lists : Nat, own : SUBSET Idents,
   nameless : BOOLEAN, first : BOOLEAN]

FileFrame == Frame("file", 1, "items")
Top(c)    == c[Len(c)]
Below(c)  == c[Len(c) - 1]

ReplaceTop(c, f) == [c EXCEPT ![Len(c)] = f]
Push(c, kind, at) ==
  Append(c, Frame(kind, Top(c).depth + (IF kind \in OpensScope THEN 1 ELSE 0), at))

(* A statement has ended: a surrounding FOR has then read its body. *)
StmtDone(c) ==
  IF Top(c).kind = "for" THEN [c EXCEPT ![Len(c)].at = "tail"] ELSE c

Room(c, n)   == Len(c) + n <= MaxCtx
AtStmt(c)    == \/ Top(c).kind \in {"body", "block"}
                \/ Top(c).kind = "for" /\ Top(c).at = "body"
Reading(c, phases) == Top(c).kind = "decl" /\ Top(c).at \in phases
IsFunction(f) == f.lists > 0 /\ ~f.inner

-----------------------------------------------------------------------------
(* declspeclist, specquallist: where a declaration may start, and with     *)
(* which storage class.                                                    *)
MayDeclare(c, sc) ==
  \/ Top(c).kind \in {"file", "body", "block"}
  \/ Top(c).kind = "for" /\ Top(c).at = "head"
  \/ Top(c).kind \in {"params", "aparams", "su"} /\ sc = "none"

SpecFrame(c, node, tag, sc) ==
  [Frame("decl", Top(c).depth, "spec") EXCEPT !.node = node, !.tag = tag, !.sc = sc]
Specifiers(c, node, tag, sc) == Append(c, SpecFrame(c, node, tag, sc))

(* structunion '{' structdecllist '}' *)
OpenMembers(c, node, tag, sc) ==
  Append(Specifiers(c, node, tag, sc),
         [Frame("su", Top(c).depth, "empty") EXCEPT !.node = node, !.tag = tag])
MayOpenMembers(c, tag, sc) ==
  /\ MayDeclare(c, sc)
  /\ NestedSameTag \/ \A i \in 1..Len(c) : ~(c[i].kind = "su" /\ c[i].tag = tag /\ tag # Untagged)
MayCloseMembers(c)       == Top(c).kind = "su" /\ Top(c).at = "some"
CloseMembers(c)          == Front(c)

(* dirdeclarator: IDENT, with the pointers around it *)
MayName(c, star) == Reading(c, {"spec", "more"}) /\ (star => Top(c).node # 0)
NamesHere(c)     == IF Below(c).kind = "su" THEN Members ELSE Idents
Named(c, n, inner, star) ==
  ReplaceTop(c, [Top(c) EXCEPT !.at = "name", !.name = n, !.inner = inner,
                               !.star = star])

(* absdeclarator, and paramdecl without a declarator *)
MayOmitName(c, star) ==
  /\ MayName(c, star) /\ Top(c).at = "spec"
  /\ Below(c).kind \in {"params", "aparams"}

(* A '(' after a declarator opens a parameter list. *)
MayOpenList(c) ==
  /\ Reading(c, {"name"}) /\ Top(c).lists < MaxLists
  /\ Top(c).name = NoName => AbstractFns
  /\ Below(c).kind = "su" => Top(c).inner /\ (FnPtrMembers \/ Top(c).depth > 1)
OpenList(c) ==
  Push(c, IF Top(c).name = NoName THEN "aparams" ELSE "params", "empty")

(* The ')' of a parameter list with parameters, and of an empty one. *)
WithList(f, names, nameless) ==
  [f EXCEPT !.lists = @ + 1,
            !.own = IF f.lists = 0 /\ ~f.inner THEN names ELSE @,
            !.nameless = IF f.lists = 0 /\ ~f.inner THEN nameless ELSE @]
MayCloseList(c) == Top(c).kind \in {"params", "aparams"} /\ Top(c).at = "some"
CloseList(c)    == ReplaceTop(Front(c), WithList(Below(c), Top(c).own, Top(c).nameless))
EmptyList(c)    == ReplaceTop(c, WithList(Top(c), {}, FALSE))

(* The declarator is reduced: a parameter, a member, or one of an          *)
(* initdecllist; more says that a ',' and another declarator follow.       *)
MayEndDeclarator(c, more) ==
  /\ Reading(c, {"name"})
  /\ more => Below(c).kind \notin {"params", "aparams"}
HostAfter(h, f) ==
  CASE h.kind \in {"params", "aparams"} ->
         [h EXCEPT !.at = "some", !.own = @ \cup ({f.name} \ {NoName}),
                   !.nameless = @ \/ f.name = NoName]
    [] h.kind = "su"  -> [h EXCEPT !.at = "some"]
    [] h.kind = "for" -> [h EXCEPT !.at = "body"]
    [] OTHER          -> h
EndDeclarator(c, more) ==
  IF more THEN ReplaceTop(c, [SpecFrame(c, Top(c).node, Top(c).tag, Top(c).sc)
                                EXCEPT !.at = "more", !.first = FALSE])
          ELSE ReplaceTop(Front(c), HostAfter(Below(c), Top(c)))

(* decl: declspeclist ';' *)
MayEndEmpty(c) == Reading(c, {"spec"}) /\ Below(c).kind \in {"file", "body", "block", "for"}
EndEmpty(c)    == ReplaceTop(Front(c), HostAfter(Below(c), Top(c)))

(* funcdef: the '{' after the first declarator of an external declaration *)
MayDefine(c) ==
  /\ Reading(c, {"name"}) /\ Below(c).kind = "file" /\ Top(c).first
  /\ ParamNamedAsFn \/ Top(c).name \notin Top(c).own
OpenBody(c)  == Append(Front(c), [Frame("body", 2, "items")
                                    EXCEPT !.own = Top(c).own])
EmptyBody(c) == Front(c)

(* compoundstmt and FOR with a declaration, inside a body *)
MayCloseBlock(c) == Top(c).kind \in {"body", "block"}
CloseBlock(c)    == StmtDone(Front(c))
MayEndFor(c)     == Top(c).kind = "for" /\ Top(c).at = "tail"
EndFor(c)        == StmtDone(Front(c))
=============================================================================
