---------------------------- MODULE SymtabProofs ----------------------------
(***************************************************************************)
(* For every hash function and every capacity: the probe loops of the      *)
(* symbol table end, and the table is a dictionary.  The invariant is that *)
(* of linear probing: on the way from a symbol's hash to its bucket no     *)
(* bucket is empty and none has the same identifier.                       *)
(***************************************************************************)
EXTENDS Symtab, WellFoundedInduction, FiniteSetTheorems, TLAPS

TypeOKTable ==
  /\ hash \in [Keys -> HashValues]
  /\ capacity \in Nat \ {0}
  /\ bs \in [Buckets -> Symbols \cup {Null}]
  /\ size \in Nat
  /\ status \in {"running", "duplicate", "exceeded", "crashed"}

Has(k, i) == bs[i] # Null /\ bs[i].ident = k

(* k's probe loop stops after d steps, and not before. *)
StopsAt(k, d) ==
  /\ d \in Buckets /\ Stops(k, Slot(k, d))
  /\ \A e \in Buckets : Stops(k, Slot(k, e)) => d <= e

(* A symbol is where its probe loop stops. *)
Chained ==
  \A k \in Keys : \A i \in Buckets :
    Has(k, i) => \E d \in Buckets : StopsAt(k, d) /\ Slot(k, d) = i

IInv == TypeOKTable /\ ProbesHalt /\ Chained

-----------------------------------------------------------------------------
(* Probing *)

LEMMA SlotInBuckets ==
  ASSUME TypeOKTable, NEW k \in Keys, NEW d \in Nat
  PROVE  Slot(k, d) \in Buckets
<1>1. hash[k] \in Nat
  BY SymtabAssumption DEF TypeOKTable
<1> QED
  BY <1>1 DEF TypeOKTable, Slot, Buckets

LEMMA ModIsUnique ==
  ASSUME NEW c \in Nat \ {0}, NEW q \in Int, NEW r \in 0..(c - 1)
  PROVE  (q * c + r) % c = r
  OBVIOUS

LEMMA SlotsCoverBuckets ==
  ASSUME TypeOKTable, NEW k \in Keys, NEW i \in Buckets
  PROVE  \E d \in Buckets : Slot(k, d) = i
<1> DEFINE h == hash[k]
           r == h % capacity
           q == h \div capacity
<1>1. h \in Nat /\ capacity \in Nat \ {0} /\ i \in 0..(capacity - 1)
  BY SymtabAssumption DEF TypeOKTable, Buckets
<1>2. q \in Nat /\ r \in 0..(capacity - 1) /\ h = q * capacity + r
  BY <1>1
<1>3. (q + 1) * capacity = q * capacity + capacity
  BY <1>1, <1>2
<1> HIDE DEF h, q, r
<1>4. CASE r <= i
  <2>1. i - r \in Buckets /\ h + (i - r) = q * capacity + i
    BY <1>1, <1>2, <1>4 DEF Buckets
  <2>2. (q * capacity + i) % capacity = i
    BY <1>1, <1>2, ModIsUnique
  <2> QED
    BY <2>1, <2>2 DEF Slot, h
<1>5. CASE i < r
  <2>1. i - r + capacity \in Buckets /\ h + (i - r + capacity) = (q + 1) * capacity + i
    BY <1>1, <1>2, <1>3, <1>5 DEF Buckets
  <2>2. ((q + 1) * capacity + i) % capacity = i
    <3>1. q + 1 \in Int
      BY <1>2
    <3> QED
      BY <1>1, <3>1, ModIsUnique
  <2> QED
    BY <2>1, <2>2 DEF Slot, h
<1> QED
  BY <1>1, <1>2, <1>4, <1>5

LEMMA ProbeStops ==
  ASSUME TypeOKTable, NEW k \in Keys, Halts(k)
  PROVE  \E d \in Buckets : StopsAt(k, d) /\ Probe(k) = Slot(k, d)
<1>1. Distances(k) \subseteq Buckets /\ Distances(k) \subseteq Nat
  BY DEF Distances, Buckets, TypeOKTable
<1>2. \E d \in Distances(k) : \A e \in Distances(k) : d <= e
  <2>1. PICK d \in Distances(k) :
          \A e \in Distances(k) : ~ (<<e, d>> \in OpToRel(<, Nat))
    <3>1. Distances(k) \subseteq Nat /\ Distances(k) # {}
      BY <1>1 DEF Halts
    <3> QED
      BY <3>1, NatLessThanWellFounded, WFMin
  <2>2. \A e \in Distances(k) : d <= e
    <3> SUFFICES ASSUME NEW e \in Distances(k) PROVE d <= e
      OBVIOUS
    <3>1. d \in Nat /\ e \in Nat
      BY <1>1
    <3>2. ~ (e < d)
      BY <2>1, <3>1 DEF OpToRel
    <3> QED
      BY <3>1, <3>2
  <2> QED
    BY <2>2
<1> DEFINE least == CHOOSE d \in Distances(k) : \A e \in Distances(k) : d <= e
<1>3. least \in Distances(k) /\ \A e \in Distances(k) : least <= e
  BY <1>2
<1>4. Probe(k) = Slot(k, least)
  BY DEF Probe
<1> HIDE DEF least
<1>5. StopsAt(k, least)
  BY <1>1, <1>3 DEF StopsAt, Distances
<1> QED
  BY <1>4, <1>5 DEF StopsAt

LEMMA StopsOnce ==
  ASSUME TypeOKTable, NEW k \in Keys, NEW d, NEW e, StopsAt(k, d), StopsAt(k, e)
  PROVE  d = e
  BY DEF StopsAt, Buckets, TypeOKTable

(* A table that is at most half full has an empty bucket, and every probe  *)
(* loop comes by it.                                                       *)
LEMMA EmptyBucketHalts ==
  ASSUME TypeOKTable, ProbesHalt, NEW k \in Keys
  PROVE  Halts(k)
<1>1. IsFiniteSet(Buckets) /\ Cardinality(Buckets) = capacity
  BY FS_Interval DEF TypeOKTable, Buckets
<1>2. Filled # Buckets
  BY <1>1 DEF ProbesHalt, TypeOKTable
<1>3. PICK i \in Buckets : bs[i] = Null
  BY <1>2 DEF Filled
<1>4. PICK d \in Buckets : Slot(k, d) = i
  BY SlotsCoverBuckets
<1> QED
  BY <1>3, <1>4 DEF Halts, Distances, Stops

-----------------------------------------------------------------------------
(* The invariant *)

LEMMA InitIInv ==
  ASSUME Init PROVE IInv
<1>1. Primes[1] \in Nat \ {0}
  BY SymtabAssumption
<1>2. TypeOKTable
  BY <1>1 DEF Init, TypeOKTable, Buckets
<1>3. Filled = {}
  BY DEF Init, Filled, Buckets
<1>4. ProbesHalt
  BY <1>1, <1>3, FS_EmptySet DEF Init, ProbesHalt
<1>5. Chained
  BY DEF Init, Chained, Has, Buckets
<1> QED
  BY <1>2, <1>4, <1>5 DEF IInv

LEMMA SameTable ==
  ASSUME IInv, UNCHANGED <<hash, capacity, bs, size>>,
         status' \in {"running", "duplicate", "exceeded", "crashed"}
  PROVE  IInv'
BY DEF IInv, TypeOKTable, ProbesHalt, Chained, Has, StopsAt, Stops, Slot, Filled, Buckets

(* A new symbol in the empty bucket where its own probe loop stops *)
Adds(k, v) ==
  /\ Halts(k) /\ bs[Probe(k)] = Null /\ ~MustRehash
  /\ bs' = [bs EXCEPT ![Probe(k)] = [ident |-> k, value |-> v]]
  /\ size' = size + 1
  /\ UNCHANGED <<hash, capacity, answer, status>>

LEMMA AddsKeepsChains ==
  ASSUME IInv, NEW k \in Keys, NEW v \in Values, Adds(k, v)
  PROVE  Chained'
<1> DEFINE p == Probe(k)
<1>1. PICK d \in Buckets : StopsAt(k, d) /\ Slot(k, d) = p
  BY ProbeStops DEF IInv, Adds
<1>2. p \in Buckets
  BY <1>1, SlotInBuckets DEF IInv, Buckets
<1>3. /\ bs[p] = Null /\ bs'[p] = [ident |-> k, value |-> v]
      /\ \A i \in Buckets : i # p => bs'[i] = bs[i]
  BY <1>2 DEF Adds, IInv, TypeOKTable
<1>4. Buckets' = Buckets /\ \A x \in Keys, e \in Buckets : Slot(x, e)' = Slot(x, e)
  BY DEF Adds, Buckets, Slot
<1>5. \A x \in Keys, e \in Buckets : Slot(x, e) \in Buckets
  BY SlotInBuckets DEF IInv, Buckets
<1> HIDE DEF p
<1>6. ASSUME NEW x \in Keys, NEW e \in Buckets, StopsAt(x, e),
             Stops(x, Slot(x, e))'
      PROVE  StopsAt(x, e)'
  <2> SUFFICES ASSUME NEW f \in Buckets, Stops(x, Slot(x, f))' PROVE e <= f
    BY <1>4, <1>6 DEF StopsAt
  <2>1. Stops(x, Slot(x, f))
    BY <1>3, <1>4, <1>5 DEF Stops
  <2> QED
    BY <1>6, <2>1 DEF StopsAt
<1> SUFFICES ASSUME NEW x \in Keys, NEW i \in Buckets, Has(x, i)'
             PROVE  \E e \in Buckets : StopsAt(x, e)' /\ Slot(x, e)' = i
  BY <1>4 DEF Chained
<1>7. CASE i = p
  <2>1. x = k
    BY <1>3, <1>7 DEF Has
  <2>2. Stops(k, Slot(k, d))'
    BY <1>1, <1>3, <1>4 DEF Stops
  <2> QED
    BY <1>1, <1>4, <1>6, <1>7, <2>1, <2>2
<1>8. CASE i # p
  <2>1. Has(x, i)
    BY <1>3, <1>8 DEF Has
  <2>2. PICK e \in Buckets : StopsAt(x, e) /\ Slot(x, e) = i
    BY <2>1 DEF IInv, Chained
  <2>3. Stops(x, Slot(x, e))'
    BY <1>4, <2>2 DEF Stops, Has
  <2> QED
    BY <1>4, <1>6, <2>2, <2>3
<1> QED
  BY <1>7, <1>8

LEMMA AddsKeepsIInv ==
  ASSUME IInv, NEW k \in Keys, NEW v \in Values, Adds(k, v)
  PROVE  IInv'
<1> DEFINE p == Probe(k)
           s == [ident |-> k, value |-> v]
<1>1. p \in Buckets
  BY ProbeStops, SlotInBuckets DEF IInv, Adds, StopsAt, Buckets
<1>2. s \in Symbols /\ s # Null
  BY SymtabAssumption DEF Symbols
<1>3. /\ bs[p] = Null /\ bs' = [bs EXCEPT ![p] = s] /\ size' = size + 1
      /\ UNCHANGED <<hash, capacity, status>> /\ Buckets' = Buckets
  BY DEF Adds, Buckets
<1> HIDE DEF p, s
<1>4. TypeOKTable'
  BY <1>1, <1>2, <1>3 DEF IInv, TypeOKTable
<1>5. Filled' = Filled \cup {p} /\ p \notin Filled
  BY <1>1, <1>2, <1>3 DEF Filled, IInv, TypeOKTable
<1>6. IsFiniteSet(Filled)
  <2>1. IsFiniteSet(Buckets) /\ Filled \in SUBSET Buckets
    BY FS_Interval DEF IInv, TypeOKTable, Buckets, Filled
  <2> QED
    BY <2>1, FS_Subset
<1>7. Cardinality(Filled') = size + 1
  BY <1>5, <1>6, FS_AddElement DEF IInv, ProbesHalt
<1>8. 2 * (size + 1) <= capacity
  <2>1. size \in Nat /\ capacity \in Nat /\ ~ (size >= capacity \div 2)
    BY DEF IInv, TypeOKTable, Adds, MustRehash
  <2> QED
    BY <2>1
<1>9. ProbesHalt'
  BY <1>3, <1>7, <1>8 DEF ProbesHalt
<1> QED
  BY <1>4, <1>9, AddsKeepsChains DEF IInv

LEMMA NextIInv ==
  ASSUME IInv, [Next]_vars PROVE IInv'
<1>1. CASE UNCHANGED vars
  BY <1>1, SameTable DEF vars, IInv, TypeOKTable
<1>2. ASSUME NEW k \in Keys, NEW v \in Values, symtab_insert(k, v)
      PROVE  IInv'
  <2>1. CASE MustRehash
    BY <1>2, <2>1, SameTable DEF symtab_insert, symtab_rehash, Fail
  <2>2. CASE ~MustRehash /\ bs[Probe(k)] # Null
    BY <1>2, <2>2, SameTable DEF symtab_insert, Fail
  <2>3. CASE ~MustRehash /\ bs[Probe(k)] = Null
    BY <1>2, <2>3, AddsKeepsIInv DEF symtab_insert, Adds
  <2> QED
    BY <2>1, <2>2, <2>3
<1>3. ASSUME NEW k \in Keys, symtab_lookup(k)
      PROVE  IInv'
  BY <1>3, SameTable DEF symtab_lookup, IInv, TypeOKTable
<1>4. CASE Exited
  BY <1>1, <1>4 DEF Exited
<1> QED
  BY <1>1, <1>2, <1>3, <1>4 DEF Next

LEMMA Invariant == Spec => []IInv
BY InitIInv, NextIInv, PTL DEF Spec

(* In every behaviour the table is at most half full and size says how     *)
(* full it is, for all identifiers, capacities and hash functions.         *)
THEOREM ProbesAlwaysHalt == Spec => []ProbesHalt
<1>1. IInv => ProbesHalt
  BY DEF IInv
<1> QED
  BY <1>1, Invariant, PTL

(* So the unbounded loops of symtab_insert and symtab_lookup end, whatever *)
(* they look for.                                                          *)
THEOREM ProbeLoopsEnd == Spec => [](\A k \in Keys : Halts(k))
<1>1. IInv => \A k \in Keys : Halts(k)
  BY EmptyBucketHalts DEF IInv
<1> QED
  BY <1>1, Invariant, PTL

-----------------------------------------------------------------------------
(* The table as a dictionary *)

LEMMA OneBucketPerKey ==
  ASSUME IInv, NEW k \in Keys, NEW i \in Buckets, NEW j \in Buckets,
         Has(k, i), Has(k, j)
  PROVE  i = j
BY StopsOnce DEF IInv, Chained

(* ValueOf, in terms of what the buckets b hold *)
LEMMA ChosenValue ==
  ASSUME NEW b, NEW B, NEW k, NEW i \in B, b[i] # Null, b[i].ident = k,
         \A j \in B : b[j] # Null /\ b[j].ident = k => j = i
  PROVE  (IF \E j \in B : b[j] # Null /\ b[j].ident = k
          THEN b[CHOOSE j \in B : b[j] # Null /\ b[j].ident = k].value
          ELSE Null) = b[i].value
<1> DEFINE c == CHOOSE j \in B : b[j] # Null /\ b[j].ident = k
<1>1. c \in B /\ b[c] # Null /\ b[c].ident = k
  OBVIOUS
<1>2. c = i
  BY <1>1
<1> QED
  BY <1>2

LEMMA ValueFound ==
  ASSUME IInv, NEW k \in Keys, NEW i \in Buckets, Has(k, i)
  PROVE  ValueOf(k) = bs[i].value
<1>1. \A j \in Buckets : bs[j] # Null /\ bs[j].ident = k => j = i
  BY OneBucketPerKey DEF Has
<1> QED
  BY <1>1, ChosenValue DEF ValueOf, Has

(* The probe loop of k stops at k's symbol if there is one. *)
LEMMA ProbeFinds ==
  ASSUME IInv, NEW k \in Keys, Halts(k)
  PROVE  /\ Probe(k) \in Buckets
         /\ bs[Probe(k)] = Null => \A i \in Buckets : ~Has(k, i)
         /\ bs[Probe(k)] # Null => Has(k, Probe(k))
<1>1. PICK d \in Buckets : StopsAt(k, d) /\ Probe(k) = Slot(k, d)
  BY ProbeStops DEF IInv
<1>2. Probe(k) \in Buckets
  BY <1>1, SlotInBuckets DEF IInv, Buckets
<1>3. ASSUME bs[Probe(k)] = Null, NEW i \in Buckets, Has(k, i) PROVE FALSE
  <2>1. PICK e \in Buckets : StopsAt(k, e) /\ Slot(k, e) = i
    BY <1>3 DEF IInv, Chained
  <2>2. e = d
    BY <1>1, <2>1, StopsOnce DEF IInv
  <2> QED
    BY <1>1, <1>3, <2>1, <2>2 DEF Has
<1>4. bs[Probe(k)] # Null => Has(k, Probe(k))
  BY <1>1 DEF StopsAt, Stops, Has
<1> QED
  BY <1>2, <1>3, <1>4

LEMMA LookupIsValue ==
  ASSUME IInv, NEW k \in Keys, Halts(k)
  PROVE  ValueOf(k) = IF bs[Probe(k)] = Null THEN Null ELSE bs[Probe(k)].value
<1>1. CASE bs[Probe(k)] = Null
  BY <1>1, ProbeFinds DEF ValueOf, Has
<1>2. CASE bs[Probe(k)] # Null
  BY <1>2, ProbeFinds, ValueFound
<1> QED
  BY <1>1, <1>2

LEMMA ValueIsNotNull ==
  ASSUME IInv, NEW k \in Keys, Halts(k)
  PROVE  ValueOf(k) = Null <=> bs[Probe(k)] = Null
<1>1. bs[Probe(k)] # Null => bs[Probe(k)].value \in Values
  BY ProbeFinds DEF IInv, TypeOKTable, Symbols
<1> QED
  BY <1>1, LookupIsValue, SymtabAssumption

(* A new symbol is found, and the values of the other keys stay. *)
LEMMA AddsOneValue ==
  ASSUME IInv, NEW k \in Keys, NEW v \in Values, Adds(k, v)
  PROVE  /\ ValueOf(k)' = v
         /\ \A x \in Keys : x # k => ValueOf(x)' = ValueOf(x)
<1> DEFINE p == Probe(k)
           s == [ident |-> k, value |-> v]
<1>1. /\ p \in Buckets /\ bs[p] = Null
      /\ \A i \in Buckets : ~Has(k, i)
  BY ProbeFinds DEF Adds
<1>2. /\ s # Null /\ s.ident = k /\ s.value = v
  BY SymtabAssumption
<1>3. /\ Buckets' = Buckets /\ bs'[p] = s
      /\ \A i \in Buckets : i # p => bs'[i] = bs[i]
  BY <1>1 DEF Adds, Buckets, IInv, TypeOKTable
<1> HIDE DEF p, s
<1>4. \A i \in Buckets : Has(k, i)' <=> i = p
  BY <1>1, <1>2, <1>3 DEF Has
<1>5. ValueOf(k)' = v
  <2>1. \A j \in Buckets' : bs'[j] # Null /\ bs'[j].ident = k => j = p
    BY <1>3, <1>4 DEF Has
  <2>2. p \in Buckets' /\ bs'[p] # Null /\ bs'[p].ident = k
    BY <1>1, <1>2, <1>3
  <2> QED
    BY <1>2, <1>3, <2>1, <2>2, ChosenValue DEF ValueOf
<1>6. ASSUME NEW x \in Keys, x # k PROVE ValueOf(x)' = ValueOf(x)
  <2>1. \A i \in Buckets : Has(x, i)' <=> Has(x, i)
    BY <1>1, <1>2, <1>3, <1>6 DEF Has
  <2>2. CASE \A i \in Buckets : ~Has(x, i)
    BY <1>3, <2>1, <2>2 DEF ValueOf, Has
  <2>3. ASSUME NEW i \in Buckets, Has(x, i) PROVE ValueOf(x)' = ValueOf(x)
    <3>1. i # p /\ bs'[i] = bs[i]
      BY <1>1, <1>3, <2>3 DEF Has
    <3>2. \A j \in Buckets' : bs'[j] # Null /\ bs'[j].ident = x => j = i
      BY <1>3, <2>1, <2>3, OneBucketPerKey DEF Has
    <3>3. i \in Buckets' /\ bs'[i] # Null /\ bs'[i].ident = x
      BY <1>3, <2>3, <3>1 DEF Has
    <3>4. ValueOf(x)' = bs'[i].value
      BY <3>2, <3>3, ChosenValue DEF ValueOf
    <3> QED
      BY <2>3, <3>1, <3>4, ValueFound
  <2> QED
    BY <2>2, <2>3
<1> QED
  BY <1>5, <1>6

LEMMA InitDictionary ==
  ASSUME Init PROVE Dict!Init
<1>1. \A k \in Keys : ValueOf(k) = Null
  BY DEF Init, ValueOf, Buckets
<1> QED
  BY <1>1 DEF Init, Dict!Init

LEMMA SameValues ==
  ASSUME UNCHANGED <<capacity, bs>>
  PROVE  [k \in Keys |-> ValueOf(k)]' = [k \in Keys |-> ValueOf(k)]
BY DEF ValueOf, Buckets

LEMMA NextDictionary ==
  ASSUME IInv, [Next]_vars
  PROVE  [Dict!Next]_<<[k \in Keys |-> ValueOf(k)], ident, answer,
                       IF status = "duplicate" THEN "duplicate" ELSE "accepted">>
<1> DEFINE map == [k \in Keys |-> ValueOf(k)]
           verdict == IF status = "duplicate" THEN "duplicate" ELSE "accepted"
<1>1. CASE UNCHANGED vars
  <2>1. UNCHANGED <<map, ident, answer, verdict>>
    BY <1>1, SameValues DEF vars
  <2> QED
    BY <2>1
<1>2. ASSUME NEW k \in Keys, NEW v \in Values, symtab_insert(k, v)
      PROVE  Dict!Insert(k, v) \/ UNCHANGED <<map, ident, answer, verdict>>
  <2>1. CASE MustRehash
    <3>1. /\ status = "running" /\ status' \in {"exceeded", "crashed"}
          /\ UNCHANGED <<capacity, bs, ident, answer>>
      BY <1>2, <2>1 DEF symtab_insert, symtab_rehash, Fail
    <3> QED
      BY <3>1, SameValues
  <2>2. CASE ~MustRehash /\ bs[Probe(k)] # Null
    <3>1. /\ Halts(k) /\ status = "running" /\ status' = "duplicate" /\ ident' = k
          /\ UNCHANGED <<capacity, bs, answer>>
      BY <1>2, <2>2 DEF symtab_insert, Fail
    <3>2. map[k] # Null
      BY <2>2, <3>1, ValueIsNotNull
    <3>3. map' = map
      BY <3>1, SameValues
    <3> HIDE DEF map
    <3> QED
      BY <3>1, <3>2, <3>3 DEF Dict!Insert, map
  <2>3. CASE ~MustRehash /\ bs[Probe(k)] = Null
    <3>1. Adds(k, v) /\ status = "running" /\ ident' = k
      BY <1>2, <2>3 DEF symtab_insert, Adds
    <3>2. map[k] = Null
      BY <2>3, <3>1, ValueIsNotNull DEF Adds
    <3>3. map' = [map EXCEPT ![k] = v]
      BY <3>1, AddsOneValue
    <3>4. UNCHANGED <<answer, verdict>> /\ verdict = "accepted"
      BY <3>1 DEF Adds
    <3> HIDE DEF map
    <3> QED
      BY <3>1, <3>2, <3>3, <3>4 DEF Dict!Insert, map
  <2> QED
    BY <2>1, <2>2, <2>3
<1>3. ASSUME NEW k \in Keys, symtab_lookup(k)
      PROVE  Dict!Lookup(k)
  <2>1. /\ status = "running" /\ Halts(k) /\ ident' = k
        /\ answer' = IF bs[Probe(k)] = Null THEN Null ELSE bs[Probe(k)].value
        /\ UNCHANGED <<capacity, bs, status>>
    BY <1>3 DEF symtab_lookup
  <2>2. answer' = map[k] /\ map' = map
    BY <2>1, LookupIsValue, SameValues
  <2> QED
    BY <2>1, <2>2 DEF Dict!Lookup
<1>4. CASE Exited
  BY <1>1, <1>4 DEF Exited
<1> HIDE DEF map, verdict
<1> QED
  BY <1>1, <1>2, <1>3, <1>4 DEF Next, Dict!Next, map, verdict

(* For all identifiers, values, capacities and hash functions, the table   *)
(* with its collisions and probe loops is a dictionary.                    *)
THEOREM TableIsDictionary == Spec => ActsAsDictionary
BY InitDictionary, NextDictionary, Invariant, PTL DEF Spec, ActsAsDictionary, Dict!Spec
=============================================================================
