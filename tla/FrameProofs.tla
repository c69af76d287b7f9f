---------------------------- MODULE FrameProofs ----------------------------
(***************************************************************************)
(* Frames are laid out without overlap, whatever the function: proofs of   *)
(* SlotsDisjoint and OperandsPlaced for all functions, sizes and quads.    *)
(***************************************************************************)
EXTENDS Frame, TLAPS

FrameType ==
  [offset : Int, soff : [DOMAIN fn.symbols -> Int], toff : [DOMAIN fn.width -> Int]]

(* SlotsDisjoint, said of a frame that an action is still working on *)
OffsetIn(fr, x) == IF x[1] = "symbol" THEN fr.soff[x[2]] ELSE fr.toff[x[2]]
Apart(fr) ==
  \A x \in Storage : OffsetIn(fr, x) # 0 =>
    /\ fr.offset <= OffsetIn(fr, x) /\ OffsetIn(fr, x) + Size(x) <= 0
    /\ \A y \in Storage \ {x} : OffsetIn(fr, y) # 0 =>
         \/ OffsetIn(fr, x) + Size(x) <= OffsetIn(fr, y)
         \/ OffsetIn(fr, y) + Size(y) <= OffsetIn(fr, x)
Layout(fr) == fr \in FrameType /\ fr.offset <= 0 /\ Apart(fr)

(* All quads that the walk has passed have their operands placed. *)
QuadsPassed ==
  CASE phase = "symbols"     -> {}
    [] phase = "temporaries" -> {i \in DOMAIN fn.quads : i < at}
    [] phase = "placed"      -> DOMAIN fn.quads
PassedPlaced ==
  \A i \in QuadsPassed : \A o \in Operands(fn.quads[i]) :
    IsTmp(o) => frame.toff[o.id] # 0

FrameInv ==
  /\ fn \in Functions /\ phase \in {"symbols", "temporaries", "placed"} /\ at \in Nat \ {0}
  /\ Layout(frame)
  /\ PassedPlaced

-----------------------------------------------------------------------------
(* The assumption on Functions, as the proofs use it. *)
LEMMA ElementsOfSeq ==
  ASSUME NEW S, NEW s \in Seq(S)
  PROVE  Len(s) \in Nat /\ DOMAIN s = 1..Len(s) /\ \A i \in DOMAIN s : s[i] \in S
  OBVIOUS

LEMMA FunctionFacts ==
  ASSUME NEW f \in Functions
  PROVE  /\ DOMAIN f.symbols = 1..Len(f.symbols)
         /\ \A i \in DOMAIN f.symbols : f.symbols[i].size \in Nat \ {0}
         /\ \A t \in DOMAIN f.width : f.width[t] \in Nat \ {0}
         /\ DOMAIN f.quads = 1..Len(f.quads) /\ Len(f.quads) \in Nat
         /\ \A i \in DOMAIN f.quads : \A o \in Operands(f.quads[i]) :
              IsTmp(o) => o.id \in DOMAIN f.width
<1> DEFINE symbols == f.symbols  width == f.width  quads == f.quads
           Records == [v : STRING, size : Nat \ {0}, proto : BOOLEAN]
<1>1. /\ symbols \in Seq(Records) /\ width \in Seq(Nat \ {0})
      /\ quads \in Seq({quads[i] : i \in DOMAIN quads})
      /\ \A i \in DOMAIN quads : \A o \in Operands(quads[i]) : IsTmp(o) => o.id \in DOMAIN width
  BY FunctionsAssumption
<1>2. \A r \in Records : r.size \in Nat \ {0}
  OBVIOUS
<1> HIDE DEF symbols, width, quads, Records
<1>3. DOMAIN symbols = 1..Len(symbols) /\ \A i \in DOMAIN symbols : symbols[i] \in Records
  BY <1>1, ElementsOfSeq
<1>4. \A t \in DOMAIN width : width[t] \in Nat \ {0}
  BY <1>1, ElementsOfSeq
<1>5. DOMAIN quads = 1..Len(quads) /\ Len(quads) \in Nat
  BY <1>1, ElementsOfSeq
<1>6. \A i \in DOMAIN symbols : symbols[i].size \in Nat \ {0}
  BY <1>2, <1>3
<1>7. QED BY <1>1, <1>3, <1>4, <1>5, <1>6 DEF symbols, width, quads

(* Every piece of storage takes at least a byte. *)
LEMMA SizesPositive ==
  ASSUME fn \in Functions
  PROVE  \A x \in Storage : Size(x) \in Nat \ {0}
<1>1. ASSUME NEW i \in DOMAIN fn.symbols PROVE Size(<<"symbol", i>>) \in Nat \ {0}
  BY FunctionFacts DEF Size
<1>2. ASSUME NEW t \in DOMAIN fn.width PROVE Size(<<"tmp", t>>) \in Nat \ {0}
  BY FunctionFacts DEF Size
<1>3. QED BY <1>1, <1>2 DEF Storage

(* Offsets are integers. *)
LEMMA OffsetsTyped ==
  ASSUME NEW fr \in FrameType
  PROVE  \A x \in Storage : OffsetIn(fr, x) \in Int
  BY DEF FrameType, OffsetIn, Storage

(* What both loops do with a piece of storage: it gets the bytes just below *)
(* all others.                                                              *)
LEMMA PlacedBelow ==
  ASSUME fn \in Functions, NEW fr, Layout(fr), NEW fr2 \in FrameType, NEW x \in Storage,
         fr2.offset = fr.offset - Size(x), OffsetIn(fr2, x) = fr2.offset,
         \A y \in Storage \ {x} : OffsetIn(fr2, y) = OffsetIn(fr, y)
  PROVE  Layout(fr2) /\ OffsetIn(fr2, x) # 0
<1>1. Size(x) \in Nat \ {0} /\ fr.offset \in Int /\ fr2.offset \in Int /\ fr.offset <= 0
  BY SizesPositive DEF Layout, FrameType
<1>2. fr2.offset < 0
  BY <1>1
<1>3. \A y \in Storage : Size(y) \in Nat \ {0} /\ OffsetIn(fr, y) \in Int /\ OffsetIn(fr2, y) \in Int
  BY SizesPositive, OffsetsTyped DEF Layout
<1>4. ASSUME NEW y \in Storage, OffsetIn(fr2, y) # 0
      PROVE  fr2.offset <= OffsetIn(fr2, y) /\ OffsetIn(fr2, y) + Size(y) <= 0
  <2>1. CASE y = x
    BY <2>1, <1>1, <1>2
  <2>2. CASE y # x
    <3>1. fr.offset <= OffsetIn(fr, y) /\ OffsetIn(fr, y) + Size(y) <= 0
      BY <1>4, <2>2 DEF Layout, Apart
    <3>2. QED BY <3>1, <2>2, <1>1, <1>3
  <2>3. QED BY <2>1, <2>2
<1>5. ASSUME NEW y \in Storage, NEW z \in Storage \ {y},
             OffsetIn(fr2, y) # 0, OffsetIn(fr2, z) # 0
      PROVE  \/ OffsetIn(fr2, y) + Size(y) <= OffsetIn(fr2, z)
             \/ OffsetIn(fr2, z) + Size(z) <= OffsetIn(fr2, y)
  <2>1. \A u \in Storage \ {x} : OffsetIn(fr2, u) # 0 => fr2.offset + Size(x) <= OffsetIn(fr2, u)
    <3>1. TAKE u \in Storage \ {x}
    <3>2. HAVE OffsetIn(fr2, u) # 0
    <3>3. fr.offset <= OffsetIn(fr, u)
      BY <3>2 DEF Layout, Apart
    <3>4. QED BY <3>3, <1>1, <1>3
  <2>2. CASE y = x
    BY <2>1, <2>2, <1>5
  <2>3. CASE z = x
    BY <2>1, <2>3, <1>5
  <2>4. CASE y # x /\ z # x
    BY <2>4, <1>5 DEF Layout, Apart
  <2>5. QED BY <2>2, <2>3, <2>4
<1>6. Apart(fr2)
  BY <1>4, <1>5 DEF Apart
<1>7. QED BY <1>1, <1>2, <1>6 DEF Layout

(* SET_ADDR_OF keeps the layout, places its operand and unplaces none. *)
LEMMA SetAddrKeeps ==
  ASSUME fn \in Functions, NEW fr, Layout(fr), NEW o, IsTmp(o) => o.id \in DOMAIN fn.width
  PROVE  /\ Layout(SET_ADDR_OF(fr, o))
         /\ IsTmp(o) => SET_ADDR_OF(fr, o).toff[o.id] # 0
         /\ \A t \in DOMAIN fn.width : fr.toff[t] # 0 => SET_ADDR_OF(fr, o).toff[t] # 0
<1>1. CASE ~(IsTmp(o) /\ fr.toff[o.id] = 0)
  BY <1>1 DEF SET_ADDR_OF
<1>2. CASE IsTmp(o) /\ fr.toff[o.id] = 0
  <2> DEFINE x == <<"tmp", o.id>>
             offset == fr.offset - fn.width[o.id]
             toff == [fr.toff EXCEPT ![o.id] = offset]
             fr2 == [fr EXCEPT !.offset = offset, !.toff[o.id] = offset]
  <2>1. SET_ADDR_OF(fr, o) = fr2
    BY <1>2 DEF SET_ADDR_OF
  <2>2. x \in Storage /\ Size(x) = fn.width[o.id] /\ fn.width[o.id] \in Nat
    BY <1>2, FunctionFacts DEF Storage, Size
  <2>3. fr \in FrameType
    BY DEF Layout
  <2>4. /\ offset \in Int /\ fr.toff \in [DOMAIN fn.width -> Int]
        /\ fr2.offset = offset /\ fr2.soff = fr.soff /\ fr2.toff = toff /\ fr2 \in FrameType
    <3>1. /\ fr.offset \in Int /\ fr.soff \in [DOMAIN fn.symbols -> Int]
          /\ fr.toff \in [DOMAIN fn.width -> Int]
      BY <2>3 DEF FrameType
    <3>2. offset \in Int
      BY <2>2, <3>1
    <3> HIDE DEF offset
    <3>3. toff \in [DOMAIN fn.width -> Int]
      BY <3>1, <3>2
    <3>4. fr2 = [[fr EXCEPT !.offset = offset] EXCEPT !.toff = toff]
      BY <2>3 DEF FrameType
    <3> HIDE DEF toff, fr2
    <3>5. fr2.offset = offset /\ fr2.soff = fr.soff /\ fr2.toff = toff /\ fr2 \in FrameType
      BY <2>3, <3>2, <3>3, <3>4 DEF FrameType
    <3>6. QED BY <3>1, <3>2, <3>5
  <2>5. OffsetIn(fr2, x) = fr2.offset
    BY <1>2, <2>4 DEF OffsetIn
  <2>6. \A y \in Storage \ {x} : OffsetIn(fr2, y) = OffsetIn(fr, y)
    BY <1>2, <2>4 DEF OffsetIn, Storage
  <2> HIDE DEF fr2
  <2>7. Layout(fr2) /\ OffsetIn(fr2, x) # 0
    BY <2>2, <2>4, <2>5, <2>6, PlacedBelow
  <2>8. fr2.toff[o.id] # 0
    BY <2>7 DEF OffsetIn
  <2>9. \A t \in DOMAIN fn.width : fr.toff[t] # 0 => fr2.toff[t] # 0
    BY <2>4, <1>2
  <2>10. QED BY <2>1, <2>7, <2>8, <2>9
<1>3. QED BY <1>1, <1>2

(* So does the step for a whole quad. *)
LEMMA AddressOperandsKeeps ==
  ASSUME fn \in Functions, Layout(frame), NEW i \in DOMAIN fn.quads
  PROVE  /\ Layout(AddressOperands(frame, fn.quads[i]))
         /\ \A o \in Operands(fn.quads[i]) :
              IsTmp(o) => AddressOperands(frame, fn.quads[i]).toff[o.id] # 0
         /\ \A t \in DOMAIN fn.width :
              frame.toff[t] # 0 => AddressOperands(frame, fn.quads[i]).toff[t] # 0
<1> DEFINE q == fn.quads[i]
           fr1 == SET_ADDR_OF(frame, q.dest)
           fr2 == SET_ADDR_OF(fr1, q.src1)
           fr3 == SET_ADDR_OF(fr2, q.src2)
<1>1. \A o \in {q.dest, q.src1, q.src2} : IsTmp(o) => o.id \in DOMAIN fn.width
  BY FunctionFacts DEF Operands
<1> HIDE DEF q
<1>2. /\ Layout(fr1)
      /\ IsTmp(q.dest) => fr1.toff[q.dest.id] # 0
      /\ \A t \in DOMAIN fn.width : frame.toff[t] # 0 => fr1.toff[t] # 0
  BY <1>1, SetAddrKeeps
<1> HIDE DEF fr1
<1>3. /\ Layout(fr2)
      /\ IsTmp(q.src1) => fr2.toff[q.src1.id] # 0
      /\ \A t \in DOMAIN fn.width : fr1.toff[t] # 0 => fr2.toff[t] # 0
  BY <1>1, <1>2, SetAddrKeeps
<1> HIDE DEF fr2
<1>4. /\ Layout(fr3)
      /\ IsTmp(q.src2) => fr3.toff[q.src2.id] # 0
      /\ \A t \in DOMAIN fn.width : fr2.toff[t] # 0 => fr3.toff[t] # 0
  BY <1>1, <1>3, SetAddrKeeps
<1>5. AddressOperands(frame, q) = fr3
  BY DEF AddressOperands, fr1, fr2
<1> HIDE DEF fr3
<1>6. \A o \in Operands(q) : IsTmp(o) => fr3.toff[o.id] # 0
  BY <1>1, <1>2, <1>3, <1>4 DEF Operands
<1>7. \A t \in DOMAIN fn.width : frame.toff[t] # 0 => fr3.toff[t] # 0
  BY <1>2, <1>3, <1>4
<1>8. QED BY <1>4, <1>5, <1>6, <1>7 DEF q

-----------------------------------------------------------------------------
(* The induction *)

(* The function stays, so that a layout of the next frame is a next layout. *)
LEMMA LayoutPrimed ==
  ASSUME fn' = fn, Layout(frame')
  PROVE  Layout(frame)'
BY DEF Layout, FrameType, Apart, Storage, OffsetIn, Size

LEMMA InitPlaces == FrameInit => FrameInv
<1> SUFFICES ASSUME FrameInit PROVE FrameInv
  OBVIOUS
<1>1. frame \in FrameType /\ frame.offset = 0
  BY DEF FrameInit, FrameType
<1>2. \A x \in Storage : OffsetIn(frame, x) = 0
  BY DEF FrameInit, OffsetIn, Storage
<1>3. Layout(frame)
  BY <1>1, <1>2 DEF Layout, Apart
<1>4. QuadsPassed = {}
  BY DEF FrameInit, QuadsPassed
<1>5. QED BY <1>3, <1>4 DEF FrameInit, FrameInv, PassedPlaced

LEMMA PlaceSymbolKeeps == FrameInv /\ PlaceSymbol => FrameInv'
<1> SUFFICES ASSUME FrameInv, PlaceSymbol PROVE FrameInv'
  OBVIOUS
<1> DEFINE x == <<"symbol", at>>
           offset == frame.offset - fn.symbols[at].size
<1>1. at \in DOMAIN fn.symbols /\ fn.symbols[at].size \in Nat \ {0}
  BY FunctionFacts DEF FrameInv, PlaceSymbol
<1>2. x \in Storage /\ Size(x) = fn.symbols[at].size
  BY <1>1 DEF Storage, Size
<1>3. /\ frame \in FrameType /\ frame.offset \in Int
      /\ frame.soff \in [DOMAIN fn.symbols -> Int] /\ offset \in Int
  BY <1>1 DEF FrameInv, Layout, FrameType
<1>4. frame' = [frame EXCEPT !.offset = offset, !.soff[at] = offset]
  BY DEF PlaceSymbol
<1>5. offset = frame.offset - Size(x)
  BY <1>2
<1> HIDE DEF offset
<1>6. /\ frame'.offset = offset /\ frame'.toff = frame.toff
      /\ frame'.soff = [frame.soff EXCEPT ![at] = offset] /\ frame' \in FrameType
  <2> DEFINE soff == [frame.soff EXCEPT ![at] = offset]
  <2>1. soff \in [DOMAIN fn.symbols -> Int]
    BY <1>3
  <2>2. frame' = [[frame EXCEPT !.offset = offset] EXCEPT !.soff = soff]
    BY <1>3, <1>4 DEF FrameType
  <2> HIDE DEF soff
  <2>3. /\ frame'.offset = offset /\ frame'.toff = frame.toff
        /\ frame'.soff = soff /\ frame' \in FrameType
    BY <1>3, <2>1, <2>2 DEF FrameType
  <2>4. QED BY <2>3 DEF soff
<1>7. OffsetIn(frame', x) = frame'.offset
  BY <1>1, <1>3, <1>6 DEF OffsetIn
<1>8. \A y \in Storage \ {x} : OffsetIn(frame', y) = OffsetIn(frame, y)
  BY <1>3, <1>6 DEF OffsetIn, Storage
<1>9. Layout(frame')
  BY <1>2, <1>5, <1>6, <1>7, <1>8, PlacedBelow DEF FrameInv
<1>10. fn' = fn /\ phase' = "symbols" /\ at' \in Nat \ {0}
  BY DEF PlaceSymbol, FrameInv
<1>11. PassedPlaced'
  BY <1>10 DEF PassedPlaced, QuadsPassed
<1>12. QED BY <1>9, <1>10, <1>11, LayoutPrimed DEF FrameInv

LEMMA SymbolsPlacedKeeps == FrameInv /\ SymbolsPlaced => FrameInv'
<1> SUFFICES ASSUME FrameInv, SymbolsPlaced PROVE FrameInv'
  OBVIOUS
<1>1. fn' = fn /\ frame' = frame /\ phase' = "temporaries" /\ at' = 1
  BY DEF SymbolsPlaced
<1>2. QuadsPassed' = {}
  BY <1>1, FunctionFacts DEF FrameInv, QuadsPassed
<1>3. Layout(frame)' /\ PassedPlaced'
  BY <1>1, <1>2, LayoutPrimed DEF FrameInv, PassedPlaced
<1>4. QED BY <1>1, <1>3 DEF FrameInv

LEMMA PlaceTemporariesKeeps == FrameInv /\ PlaceTemporaries => FrameInv'
<1> SUFFICES ASSUME FrameInv, PlaceTemporaries PROVE FrameInv'
  OBVIOUS
<1>1. /\ fn \in Functions /\ fn' = fn /\ phase = "temporaries" /\ phase' = phase
      /\ at \in Nat \ {0} /\ at' = at + 1 /\ at \in DOMAIN fn.quads
      /\ frame' = AddressOperands(frame, fn.quads[at])
  BY FunctionFacts DEF PlaceTemporaries, FrameInv
<1>2. /\ Layout(frame')
      /\ \A o \in Operands(fn.quads[at]) : IsTmp(o) => frame'.toff[o.id] # 0
      /\ \A t \in DOMAIN fn.width : frame.toff[t] # 0 => frame'.toff[t] # 0
  BY <1>1, AddressOperandsKeeps DEF FrameInv
<1>3. ASSUME NEW i \in QuadsPassed', NEW o \in Operands(fn.quads[i]), IsTmp(o)
      PROVE  frame'.toff[o.id] # 0
  <2>1. i \in DOMAIN fn.quads /\ i \in Nat /\ i < at + 1
    BY <1>1, <1>3, FunctionFacts DEF QuadsPassed
  <2>2. CASE i = at
    BY <2>2, <1>2, <1>3
  <2>3. CASE i # at
    <3>1. i \in QuadsPassed
      BY <1>1, <2>1, <2>3 DEF QuadsPassed
    <3>2. frame.toff[o.id] # 0
      BY <3>1, <1>3 DEF FrameInv, PassedPlaced
    <3>3. o.id \in DOMAIN fn.width
      BY <1>1, <1>3, <2>1, FunctionFacts
    <3>4. QED BY <1>2, <3>2, <3>3
  <2>4. QED BY <2>2, <2>3
<1>4. PassedPlaced'
  BY <1>1, <1>3 DEF PassedPlaced
<1>5. QED BY <1>1, <1>2, <1>4, LayoutPrimed DEF FrameInv

LEMMA TemporariesPlacedKeeps == FrameInv /\ TemporariesPlaced => FrameInv'
<1> SUFFICES ASSUME FrameInv, TemporariesPlaced PROVE FrameInv'
  OBVIOUS
<1>1. fn \in Functions /\ fn' = fn /\ frame' = frame /\ phase = "temporaries"
      /\ phase' = "placed" /\ at' = at /\ at \in Nat /\ at > Len(fn.quads)
  BY DEF TemporariesPlaced, FrameInv
<1>2. QuadsPassed' = QuadsPassed
  BY <1>1, FunctionFacts DEF QuadsPassed
<1>3. Layout(frame)' /\ PassedPlaced'
  BY <1>1, <1>2, LayoutPrimed DEF FrameInv, PassedPlaced
<1>4. QED BY <1>1, <1>3 DEF FrameInv

LEMMA NextPlaces == FrameInv /\ [FrameNext]_framevars => FrameInv'
<1> SUFFICES ASSUME FrameInv, [FrameNext]_framevars PROVE FrameInv'
  OBVIOUS
<1>1. CASE PlaceSymbol       BY <1>1, PlaceSymbolKeeps
<1>2. CASE SymbolsPlaced     BY <1>2, SymbolsPlacedKeeps
<1>3. CASE PlaceTemporaries  BY <1>3, PlaceTemporariesKeeps
<1>4. CASE TemporariesPlaced BY <1>4, TemporariesPlacedKeeps
<1>5. CASE UNCHANGED framevars
  <2>1. fn' = fn /\ phase' = phase /\ at' = at /\ frame' = frame
    BY <1>5 DEF framevars
  <2>2. Layout(frame)'
    BY <2>1, LayoutPrimed DEF FrameInv
  <2>3. QED BY <2>1, <2>2 DEF FrameInv, PassedPlaced, QuadsPassed
<1>6. QED BY <1>1, <1>2, <1>3, <1>4, <1>5 DEF FrameNext

LEMMA InvDisjoint == FrameInv => SlotsDisjoint
BY DEF FrameInv, Layout, Apart, SlotsDisjoint, Placed, Offset, OffsetIn

(* The arguments after the first, which the macro passes over, have a slot *)
(* because some quad made them.                                            *)
LEMMA InvPlaced == FrameInv => OperandsPlaced
<1> SUFFICES ASSUME FrameInv, phase = "placed", NEW i \in DOMAIN fn.quads,
                    NEW o \in Operands(fn.quads[i]) \cup ArgumentsOf(fn.quads[i]), IsTmp(o)
             PROVE  frame.toff[o.id] # 0
  BY DEF OperandsPlaced, Placed, Offset
<1>1. PICK j \in DOMAIN fn.quads : o \in Operands(fn.quads[j])
  BY FunctionsAssumption DEF FrameInv
<1>2. QED BY <1>1 DEF FrameInv, PassedPlaced, QuadsPassed

-----------------------------------------------------------------------------
(* However many parameters, locals and temporaries of whatever sizes a     *)
(* function has, and wherever its quads name a temporary first: no two     *)
(* share a byte, and all lie between what the prologue takes off the stack *)
(* pointer and the saved frame pointer (generate_asm).                     *)
THEOREM FramesDisjoint == FrameSpec => []SlotsDisjoint
<1>1. FrameSpec => []FrameInv
  BY InitPlaces, NextPlaces, PTL DEF FrameSpec
<1>2. QED BY <1>1, InvDisjoint, PTL

(* When the walk over the quads is over, no temporary that an instruction  *)
(* will name is without a slot, the arguments of calls included            *)
(* (SET_ADDR_OF in generate_asm).                                          *)
THEOREM AllOperandsPlaced == FrameSpec => []OperandsPlaced
<1>1. FrameSpec => []FrameInv
  BY InitPlaces, NextPlaces, PTL DEF FrameSpec
<1>2. QED BY <1>1, InvPlaced, PTL
=============================================================================
