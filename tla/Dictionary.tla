----------------------------- MODULE Dictionary -----------------------------
(***************************************************************************)
(* What a symbol table promises: "mapping char * -> union astnode *".      *)
(***************************************************************************)
CONSTANTS
  Keys,     \* identifiers
  Values,   \* the nodes they name
  Null      \* the answer for an identifier that is not there

VARIABLES
  map,      \* the value of each key, Null if it has none
  ident,    \* the key of the latest call, Null before the first
  answer,   \* what the latest lookup returned
  verdict   \* "accepted", or "duplicate" once ident was inserted twice

Init ==
  map = [k \in Keys |-> Null] /\ ident = Null /\ answer = Null /\ verdict = "accepted"

Insert(k, v) ==
  /\ verdict = "accepted" /\ ident' = k
  /\ IF map[k] = Null THEN map' = [map EXCEPT ![k] = v] /\ UNCHANGED verdict
                      ELSE verdict' = "duplicate" /\ UNCHANGED map
  /\ UNCHANGED answer

Lookup(k) ==
  /\ verdict = "accepted" /\ ident' = k
  /\ answer' = map[k] /\ UNCHANGED <<map, verdict>>

Next == \E k \in Keys : Lookup(k) \/ \E v \in Values : Insert(k, v)

Spec == Init /\ [][Next]_<<map, ident, answer, verdict>>
=============================================================================
