------------------------------- MODULE Names -------------------------------
(***************************************************************************)
(* The names that programs use, by name space (enum name_space).           *)
(***************************************************************************)
CONSTANTS
  Idents,   \* identifiers of the "everything else" name space, NS_IDENT
  Tags,     \* struct and union tags, NS_TAG
  Members   \* identifiers of struct members, which have a table per struct

(* The identifier structunion_set_name gives to a struct without a tag. *)
Untagged == "(untagged)"
TagNames == Tags \cup {Untagged}

(* The tag of specifiers that name no struct or union. *)
NoTag == "no tag"

(* The identifier of an abstract declarator (NULL). *)
NoName == "no name"

ASSUME NamesAssumption ==
  NoName \notin Idents \cup Members /\ Untagged \notin Tags
=============================================================================
