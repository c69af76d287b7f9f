------------------------------- MODULE CFGRun -------------------------------
(***************************************************************************)
(* The generated function at work: the assembly that generate_asm writes   *)
(* for the blocks on bb_ll (a label, the block's quads, and the jumps of   *)
(* print_CC), executed from its first label.  Values are inputs: a         *)
(* comparison may come out any way.                                        *)
(***************************************************************************)
EXTENDS CFGen

VARIABLES
  pc,      \* <<position of a block in bb_ll, next quad>>, <<0, 0>> before
  flags,   \* how the last CMP came out: "lt", "eq" or "gt"
  reg,     \* how the last value compares with zero
  last,    \* the latest observation, as in SourceProgram
  beat,    \* alternates with each observation
  mode     \* "generate", "run", "returned", or "lost" past the last block

runvars == <<pc, flags, reg, last, beat, mode>>
vars    == <<genvars, runvars>>

Orders == {"lt", "eq", "gt"}
Holds(cc, order) ==
  CASE cc = "E"  -> order = "eq"
    [] cc = "NE" -> order # "eq"
    [] cc = "L"  -> order = "lt"
    [] cc = "LE" -> order # "gt"
    [] cc = "G"  -> order = "gt"
    [] cc = "GE" -> order # "lt"

(* CMP 0, cmp_val with the cmp_val that && chooses for its false branch: a *)
(* comparison that cc does not hold for.                                   *)
FalseOrder(cc) == CASE cc \in {"L", "LE", "E"} -> "gt"    \* 0 against -1
                    [] cc \in {"G", "GE"}      -> "lt"    \* 0 against 1
                    [] cc = "NE"               -> "eq"    \* 0 against 0

Init ==
  /\ GenInit
  /\ pc = <<0, 0>> /\ flags = "eq" /\ reg = "eq" /\ beat = FALSE
  /\ last = <<0, "start", TRUE>> /\ mode = "generate"

Generate == mode = "generate" /\ GenNext /\ UNCHANGED runvars

EnterFunction ==
  /\ mode = "generate" /\ done
  /\ mode' = "run" /\ pc' = <<1, 1>>
  /\ UNCHANGED <<genvars, flags, reg, last, beat>>

-----------------------------------------------------------------------------
BlockHere  == G.bbs[G.ll[pc[1]]]
InBlock    == pc[2] <= Len(BlockHere.code)
Quad       == BlockHere.code[pc[2]]
Executing(op) == mode = "run" /\ InBlock /\ Quad.op = op
Advance    == pc' = [pc EXCEPT ![2] = @ + 1] /\ UNCHANGED <<genvars, mode>>
Seen(b)    == last' = Append(Quad.at, b) /\ beat' = ~beat

Evaluate == Executing("expr") /\ Advance /\ Seen(TRUE) /\ UNCHANGED <<flags, reg>>

Compare ==
  /\ Executing("cmp") /\ Advance
  /\ \E order \in Orders : flags' = order /\ Seen(Holds(Quad.cc, order))
  /\ UNCHANGED reg

Test ==
  /\ Executing("test") /\ Advance
  /\ \E order \in Orders : reg' = order /\ Seen(order # "eq")
  /\ UNCHANGED flags

CompareZero ==
  /\ Executing("cmpz") /\ Advance
  /\ flags' = reg /\ UNCHANGED <<reg, last, beat>>

CompareFalse ==
  /\ Executing("cmpk") /\ Advance
  /\ flags' = FalseOrder(Quad.cc) /\ UNCHANGED <<reg, last, beat>>

Move == Executing("mov") /\ Advance /\ UNCHANGED <<flags, reg, last, beat>>

ReturnTo ==
  /\ Executing("ret") /\ mode' = "returned" /\ Seen(TRUE)
  /\ UNCHANGED <<genvars, pc, flags, reg>>

(* print_CC: a conditional jump, then a jump unless the default successor  *)
(* comes next.  A label that is not in the assembly leads nowhere.         *)
PositionOf(bb) == {p \in 1..Len(G.ll) : G.ll[p] = bb}
Target ==
  IF BlockHere.cond # None /\ Holds(BlockHere.cc, flags) THEN PositionOf(BlockHere.cond)
  ELSE IF BlockHere.def # None /\ (pc[1] = Len(G.ll) \/ BlockHere.def # G.ll[pc[1] + 1])
  THEN PositionOf(BlockHere.def)
  ELSE {pc[1] + 1} \cap (1..Len(G.ll))

LeaveBlock ==
  /\ mode = "run" /\ ~InBlock
  /\ IF Target = {} THEN mode' = "lost" /\ pc' = pc
     ELSE mode' = mode /\ \E p \in Target : pc' = <<p, 1>>
  /\ UNCHANGED <<genvars, flags, reg, last, beat>>

Run == Evaluate \/ Compare \/ Test \/ CompareZero \/ CompareFalse \/ Move \/ ReturnTo
       \/ LeaveBlock

Finished == mode \in {"returned", "lost"} /\ UNCHANGED vars

Next == Generate \/ EnterFunction \/ Run \/ Finished

(* The processor does not stop in the middle of a function. *)
Spec == Init /\ [][Next]_vars /\ WF_vars(Run)

-----------------------------------------------------------------------------
(* Properties *)

TypeOKRun ==
  /\ G \in Graph /\ done \in BOOLEAN
  /\ pc \in Nat \X Nat /\ {flags, reg} \subseteq Orders /\ beat \in BOOLEAN
  /\ mode \in {"generate", "run", "returned", "lost"}

(* Whatever the body, the code evaluates the parts of its statements in    *)
(* the order C gives them, with the branches their values call for, and    *)
(* returns where the body returns.                                         *)
Source == INSTANCE SourceProgram
FollowsSource == Source!Spec

(* "rewrite p&&q => if(p) q else 0": in a condition, the truth of the right *)
(* operand decides where control goes on.                                  *)
AndDecides ==
  [][last[2] = "right" =>
       \E b \in BOOLEAN : last' = Append(Source!Following(last[1], last[2], last[3]), b)]_last

(* "This MUST be called for every basic block we want to generate target   *)
(* code for": once the function is generated, every block on bb_ll is      *)
(* there once, so is every block that control may go to from one, and the  *)
(* last one has no default successor, since print_CC would compare it with *)
(* the block behind the end of the list.                                   *)
Placed(bb) == Cardinality(PositionOf(bb)) = 1
BlocksPlaced ==
  done =>
    /\ \A p \in 1..Len(G.ll) : LET b == G.bbs[G.ll[p]] IN
         /\ Placed(G.ll[p])
         /\ b.def # None  => Placed(b.def)
         /\ b.cond # None => Placed(b.cond)
    /\ G.bbs[Last(G.ll)].def = None

(* Control stays in the function until it returns: it neither jumps to a   *)
(* label that was not written nor runs past the last block, whatever the   *)
(* comparisons give, since every way through the body ends in a return of  *)
(* the source or in the one that generate_quads adds.                      *)
NeverLost == mode # "lost"

(* A block that has been finalized keeps its quads and its successors: the *)
(* statements after a break change neither.                                *)
FinalizedIsFinal ==
  [][\A i \in 1..Len(G.bbs) : G.bbs[i].finalized => G'.bbs[i] = G.bbs[i]]_vars

(* Control never runs in a circle of empty blocks: from any point, the     *)
(* next part of the source is reached, or the function returns.            *)
Progress ==
  \A b \in BOOLEAN : (mode = "run" /\ beat = b) ~> (beat # b \/ mode = "returned")
=============================================================================
