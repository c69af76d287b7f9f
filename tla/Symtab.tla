------------------------------- MODULE Symtab -------------------------------
(***************************************************************************)
(* The symbol table of src/src/parser/symtab.c: a hash table with linear   *)
(* probing, grown through a list of primes when it is half full.  The hash *)
(* of the identifiers is arbitrary: any collision may happen.              *)
(***************************************************************************)
EXTENDS Naturals, Sequences, FiniteSets

CONSTANTS
  Keys,         \* identifiers
  Values,       \* the nodes they name
  Null,         \* NULL: no node, and an empty bucket
  Primes,       \* ghp, the capacities
  HashValues    \* what symtab_hash may return

ASSUME SymtabAssumption ==
  /\ Null \notin Keys \cup Values \cup [ident : Keys, value : Values]
  /\ Primes \in Seq(Nat \ {0}) /\ Primes # <<>>
  /\ HashValues \subseteq Nat /\ HashValues # {}

VARIABLES
  hash,       \* symtab_hash, a function
  capacity,   \* capacity
  bs,         \* the buckets, from 0
  size,       \* size
  ident,      \* the argument of the latest call that got an answer
  answer,     \* the latest result of symtab_lookup
  status      \* "running", "duplicate" or "exceeded" for a fatal error,
              \* "crashed" for an access outside of an object

vars == <<hash, capacity, bs, size, ident, answer, status>>

Buckets == 0..(capacity - 1)
Symbols == [ident : Keys, value : Values]

Init ==
  /\ hash \in [Keys -> HashValues]
  /\ capacity = Primes[1] /\ bs = [i \in 0..(Primes[1] - 1) |-> Null]
  /\ size = 0 /\ ident = Null /\ answer = Null /\ status = "running"

-----------------------------------------------------------------------------
(* The bucket where the probe loop of insert and lookup stops: the first    *)
(* from the hash on that is empty or has the identifier.  With no such     *)
(* bucket the loop does not end.                                           *)
Slot(k, d)  == (hash[k] + d) % capacity
Stops(k, i) == bs[i] = Null \/ bs[i].ident = k
Distances(k) == {d \in Buckets : Stops(k, Slot(k, d))}
Unprobed(k) == Slot(k, 0)
Probe(k) == Slot(k, CHOOSE d \in Distances(k) : \A e \in Distances(k) : d <= e)
Halts(k) == Distances(k) # {}

Fail(why) == status' = why /\ UNCHANGED <<hash, capacity, bs, size, answer>>

(* symtab_rehash takes *tmp, the symbol in bucket 0, for the array of the  *)
(* buckets, and walks over as many symbols as there were buckets: off a    *)
(* null pointer or past the end of the one symbol.                         *)
LoadTooLate == size >= capacity
MustRehash == size >= capacity \div 2
symtab_rehash ==
  /\ Fail(IF capacity = Primes[Len(Primes)] THEN "exceeded" ELSE "crashed")
  /\ UNCHANGED ident

symtab_insert(k, v) ==
  /\ status = "running"
  /\ IF MustRehash THEN symtab_rehash
     ELSE /\ Halts(k) /\ ident' = k
          /\ IF bs[Probe(k)] # Null THEN Fail("duplicate")
             ELSE /\ bs' = [bs EXCEPT ![Probe(k)] = [ident |-> k, value |-> v]]
                  /\ size' = size + 1
                  /\ UNCHANGED <<hash, capacity, answer, status>>

symtab_lookup(k) ==
  /\ status = "running" /\ Halts(k) /\ ident' = k
  /\ answer' = IF bs[Probe(k)] = Null THEN Null ELSE bs[Probe(k)].value
  /\ UNCHANGED <<hash, capacity, bs, size, status>>

Exited == status # "running" /\ UNCHANGED vars

Next ==
  \/ \E k \in Keys, v \in Values : symtab_insert(k, v)
  \/ \E k \in Keys : symtab_lookup(k)
  \/ Exited

Spec == Init /\ [][Next]_vars

-----------------------------------------------------------------------------
(* Properties *)

(* The value that a symbol table holds for a key, wherever its bucket is *)
ValueOf(k) ==
  IF \E i \in Buckets : bs[i] # Null /\ bs[i].ident = k
  THEN bs[CHOOSE i \in Buckets : bs[i] # Null /\ bs[i].ident = k].value
  ELSE Null

Dict == INSTANCE Dictionary WITH
          map     <- [k \in Keys |-> ValueOf(k)],
          verdict <- IF status = "duplicate" THEN "duplicate" ELSE "accepted"

(* Whatever the hash function, until it has to grow the table behaves as a *)
(* dictionary: a symbol displaced by collisions is found again, none hides *)
(* another, and only a second insertion is an error.                       *)
ActsAsDictionary == Dict!Spec

(* The table is never more than half full, and size says how full it is,   *)
(* so that an empty bucket stops the probe loop of any identifier.         *)
Filled     == {i \in Buckets : bs[i] # Null}
ProbesHalt == Cardinality(Filled) = size /\ 2 * size <= capacity
=============================================================================
