------------------------------ MODULE MCCFGRun ------------------------------
(***************************************************************************)
(* Values for the constants of CFGRun that a configuration file cannot     *)
(* write.                                                                  *)
(***************************************************************************)
EXTENDS CFGRun

(* One relation is enough for every shape of graph. *)
MCFewConditions == {<<"L">>}
(* Every relation, alone and on either side of && *)
MCConditions == {<<o>> : o \in Relations \cup {"plain"}}
                \cup {<<l, r>> : l \in {"plain", "GE"}, r \in Relations}
(* A right operand without a relation *)
MCPlainRight == {<<"L", "plain">>}

MCForParts  == {{}, {"init", "update"}}
MCNoParts   == {}
=============================================================================
