------------------------------ MODULE MCSymtab ------------------------------
(***************************************************************************)
(* Capacities for model checking Symtab, small enough for the table to get *)
(* as full as it may get.                                                  *)
(***************************************************************************)
EXTENDS Symtab
MCPrimes == <<6, 13>>
=============================================================================
