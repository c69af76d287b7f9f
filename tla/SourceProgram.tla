--------------------------- MODULE SourceProgram ---------------------------
(***************************************************************************)
(* What the generated code has to do: the statements of a C function, as   *)
(* the standard executes them.  An execution is seen as its observable     *)
(* parts, last being the latest: <<i, part, b>> is the evaluation of a     *)
(* part of the statement that starts at token i of prog, with the truth b  *)
(* of its value when it is a condition.  There is one step per observable  *)
(* part; a return, explicit or implicit, has no successor.                 *)
(***************************************************************************)
EXTENDS Naturals, Sequences

VARIABLES
  prog,   \* the function's body: tokens (see CFGen)
  last    \* the latest observation, <<0, "start", TRUE>> at first

Openers == {"if", "while", "do", "for"}

(* The token that closes the statement opened at i, or its else. *)
Partner(i, kinds) ==
  CHOOSE j \in 1..Len(prog) : prog[j].kind \in kinds /\ prog[j].open = i
CloseOf(i) == Partner(i, {"endif", "endwhile", "enddo", "endfor"})

(* The loop that a break or continue at j is in, 0 if there is none *)
LoopsAround(j) ==
  {i \in 1..(j - 1) : prog[i].kind \in {"while", "do", "for"} /\ CloseOf(i) > j}
LoopOf(j) ==
  IF LoopsAround(j) = {} THEN 0
  ELSE CHOOSE i \in LoopsAround(j) : \A k \in LoopsAround(j) : k <= i

(* The first observable part when control is at token j, or at the test of *)
(* the FOR at i.                                                           *)
From(j) ==
  LET from[k \in 1..Len(prog)] ==
        LET t == prog[k]
            Test(i) == IF prog[i].chain = <<>> THEN from[i + 1] ELSE <<i, "left">>
        IN
        CASE t.kind \in {"expr", "return", "end"}          -> <<k, "whole">>
          [] t.kind \in {"and", "if", "while", "enddo"}    -> <<k, "left">>
          [] t.kind \in {"sizeof", "do", "endif"}          -> from[k + 1]
          [] t.kind = "else"                               -> from[CloseOf(t.open)]
          [] t.kind = "endwhile"                           -> <<t.open, "left">>
          [] t.kind = "for"    -> IF "init" \in t.parts THEN <<k, "init">> ELSE Test(k)
          [] t.kind = "endfor" -> IF "update" \in prog[t.open].parts
                                  THEN <<t.open, "update">> ELSE Test(t.open)
          [] t.kind = "break"    -> from[IF LoopOf(k) = 0 THEN k + 1 ELSE CloseOf(LoopOf(k)) + 1]
          [] t.kind = "continue" -> from[IF LoopOf(k) = 0 THEN k + 1 ELSE CloseOf(LoopOf(k))]
  IN  from[j]
TestOf(i) == IF prog[i].chain = <<>> THEN From(i + 1) ELSE <<i, "left">>

(* Where the condition of the statement at i leads when its truth is b *)
Branch(i, b) ==
  LET k == prog[i].kind IN
  CASE k = "and"                         -> From(i + 1)
    [] k \in {"if", "while", "for"} /\ b -> From(i + 1)
    [] k = "if" /\ ~b -> IF "else" \in prog[i].parts THEN From(Partner(i, {"else"}) + 1)
                         ELSE From(CloseOf(i) + 1)
    [] k \in {"while", "for"} /\ ~b      -> From(CloseOf(i) + 1)
    [] k = "enddo"                       -> From(IF b THEN prog[i].open + 1 ELSE i + 1)

(* The part observed after the observation <<i, part, b>> *)
Following(i, part, b) ==
  CASE part = "start" -> From(1)
    [] part = "whole" -> From(i + 1)
    [] part \in {"init", "update"}  -> TestOf(i)
    [] part = "left" /\ Len(prog[i].chain) = 2 /\ b -> <<i, "right">>
    [] OTHER -> Branch(i, b)

Returned == last[2] = "whole" /\ prog[last[1]].kind \in {"return", "end"}

Init == last = <<0, "start", TRUE>>

Complete == prog # <<>> /\ prog[Len(prog)].kind = "end"

Observe ==
  /\ Complete /\ ~Returned
  /\ \E b \in BOOLEAN : last' = Append(Following(last[1], last[2], last[3]), b)

Spec == Init /\ [][Observe]_last
=============================================================================
