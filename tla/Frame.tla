------------------------------- MODULE Frame -------------------------------
(***************************************************************************)
(* The layout of a stack frame, the first half of generate_asm: below the  *)
(* saved frame pointer come the symbols of the function's scope, then each *)
(* temporary where the quads first name it.                                *)
(***************************************************************************)
EXTENDS Integers, Sequences

CONSTANT Functions
  \* functions to be laid out:
  \*   symbols  symbols_ll of the function's scope, the latest declared first:
  \*            [v |-> name, size |-> bytes, proto |-> is a parameter]
  \*   quads    the quads of its basic blocks, one after the other
  \*   width    the size of each temporary

IsTmp(o) == o.k = "tmp"
Operands(q)    == {q.dest, q.src1, q.src2}
ArgumentsOf(q) == {q.args[i] : i \in DOMAIN q.args}

(* Sizes are positive, and a temporary that a call is given has been an    *)
(* operand: whatever makes a temporary makes a quad for it.                *)
ASSUME FunctionsAssumption ==
  \A f \in Functions :
    /\ f.symbols \in Seq([v : STRING, size : Nat \ {0}, proto : BOOLEAN])
    /\ f.width \in Seq(Nat \ {0})
    /\ f.quads \in Seq({f.quads[i] : i \in DOMAIN f.quads})
    /\ \A i \in DOMAIN f.quads :
         /\ \A o \in Operands(f.quads[i]) : IsTmp(o) => o.id \in DOMAIN f.width
         /\ \A o \in ArgumentsOf(f.quads[i]) :
              IsTmp(o) => \E j \in DOMAIN f.quads : o \in Operands(f.quads[j])

VARIABLES
  fn,      \* the function
  phase,   \* "symbols", "temporaries", "placed"
  at,      \* the next symbol, or the next quad
  frame    \* offset: of the lowest byte so far; soff, toff: of the symbols and
           \* the temporaries, 0 before they have one

framevars == <<fn, phase, at, frame>>

FrameInit ==
  /\ fn \in Functions /\ phase = "symbols" /\ at = 1
  /\ frame = [offset |-> 0, soff |-> [i \in DOMAIN fn.symbols |-> 0],
              toff |-> [t \in DOMAIN fn.width |-> 0]]

PlaceSymbol ==
  /\ phase = "symbols" /\ at <= Len(fn.symbols)
  /\ LET offset == frame.offset - fn.symbols[at].size
     IN  frame' = [frame EXCEPT !.offset = offset, !.soff[at] = offset]
  /\ at' = at + 1 /\ UNCHANGED <<fn, phase>>

SymbolsPlaced ==
  /\ phase = "symbols" /\ at > Len(fn.symbols)
  /\ phase' = "temporaries" /\ at' = 1 /\ UNCHANGED <<fn, frame>>

OffsetBeforeSize(fr, o) ==
  IF IsTmp(o) /\ fr.toff[o.id] = 0
  THEN [fr EXCEPT !.offset = @ - fn.width[o.id], !.toff[o.id] = fr.offset]
  ELSE fr
SET_ADDR_OF(fr, o) ==
  IF IsTmp(o) /\ fr.toff[o.id] = 0
  THEN LET offset == fr.offset - fn.width[o.id]
       IN  [fr EXCEPT !.offset = offset, !.toff[o.id] = offset]
  ELSE fr

SourcesOnly(fr, q) == SET_ADDR_OF(SET_ADDR_OF(fr, q.src1), q.src2)
AddressOperands(fr, q) ==
  SET_ADDR_OF(SET_ADDR_OF(SET_ADDR_OF(fr, q.dest), q.src1), q.src2)

PlaceTemporaries ==
  /\ phase = "temporaries" /\ at <= Len(fn.quads)
  /\ frame' = AddressOperands(frame, fn.quads[at])
  /\ at' = at + 1 /\ UNCHANGED <<fn, phase>>

TemporariesPlaced ==
  /\ phase = "temporaries" /\ at > Len(fn.quads)
  /\ phase' = "placed" /\ UNCHANGED <<fn, at, frame>>

FrameNext == PlaceSymbol \/ SymbolsPlaced \/ PlaceTemporaries \/ TemporariesPlaced
FrameSpec == FrameInit /\ [][FrameNext]_framevars

-----------------------------------------------------------------------------
(* Properties *)

Storage == {<<"symbol", i>> : i \in DOMAIN fn.symbols} \cup {<<"tmp", t>> : t \in DOMAIN fn.width}
Offset(x) == IF x[1] = "symbol" THEN frame.soff[x[2]] ELSE frame.toff[x[2]]
Size(x)   == IF x[1] = "symbol" THEN fn.symbols[x[2]].size ELSE fn.width[x[2]]
Placed(x) == Offset(x) # 0

(* A byte of the frame belongs to one parameter, local or temporary, and   *)
(* all that has an offset lies between the lowest offset, by which the     *)
(* prologue moves the stack pointer, and the saved frame pointer.          *)
SlotsDisjoint ==
  \A x \in Storage : Placed(x) =>
    /\ frame.offset <= Offset(x) /\ Offset(x) + Size(x) <= 0
    /\ \A y \in Storage \ {x} : Placed(y) =>
         Offset(x) + Size(x) <= Offset(y) \/ Offset(y) + Size(y) <= Offset(x)

(* Code is selected for every quad, and an operand without an offset would *)
(* be read and written at 0(%rbp), where the caller's frame pointer is. The *)
(* macro passes over all arguments of a call but the first.                *)
OperandsPlaced ==
  phase = "placed" =>
    \A i \in DOMAIN fn.quads : \A o \in Operands(fn.quads[i]) \cup ArgumentsOf(fn.quads[i]) :
      IsTmp(o) => Placed(<<"tmp", o.id>>)
=============================================================================
