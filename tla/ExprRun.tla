------------------------------ MODULE ExprRun ------------------------------
(***************************************************************************)
(* One function from its syntax tree to its return: quads, stack frame,    *)
(* instructions, and their execution for some arguments, beside what C     *)
(* says of the function.                                                   *)
(***************************************************************************)
EXTENDS Machine

CONSTANT
  Returns    \* the C type of what each function elsewhere returns

VARIABLE inputs   \* the values of parameters and static variables at the call
vars == <<framevars, machine, inputs>>

C == INSTANCE CMeaning

-----------------------------------------------------------------------------
(* What the compiler makes of a program:                                   *)
(*   vars     declarations, in order, with sc "param", "auto" or "static"  *)
(*   body     statements;  ret  the type it returns                        *)
(*   inputs   functions from cells (object and offset) to values           *)
(*   strings  the contents of the string literals, in order                *)

Statics(p) == SelectSeq(p.vars, LAMBDA d : d.sc = "static")
StringLabel(i) == ".RO" \o ToString(i - 1)

(* Static variables lie one after the other, then the string literals. *)
Labels(p) ==
  LET ds == Statics(p)
      from[i \in 1..(Len(ds) + 1)] ==
        IF i = 1 THEN 8 ELSE from[i - 1] + SizeOf(ds[i - 1].ty)
      names == {ds[i].v : i \in DOMAIN ds}
  IN  [v \in names \cup {StringLabel(i) : i \in DOMAIN p.strings} |->
         IF v \in names THEN from[CHOOSE i \in DOMAIN ds : ds[i].v = v]
         ELSE from[Len(ds) + 1] + 8 * ((CHOOSE i \in DOMAIN p.strings : StringLabel(i) = v) - 1)]

(* decl_install puts a symbol in front of those before it; static ones go  *)
(* to global_vars.                                                         *)
symbols_ll(p) ==
  LET own == SelectSeq(Reverse(p.vars), LAMBDA d : d.sc # "static")
  IN  [i \in DOMAIN own |-> [v |-> own[i].v, ty |-> own[i].ty, proto |-> own[i].sc = "param"]]

Assembled(p, st, symbols) ==
  [program |-> p, error |-> st.error, quads |-> st.quads, labels |-> Labels(p),
   width   |-> [i \in DOMAIN st.tmps |-> SizeOf(st.tmps[i])],
   symbols |-> [i \in DOMAIN symbols |->
                  [v |-> symbols[i].v, size |-> SizeOf(symbols[i].ty),
                   proto |-> symbols[i].proto]],
   code    |-> IF st.error THEN <<>> ELSE generate_asm(st, symbols)]
Compiled(p, stray) == Assembled(p, generate_quads(p.body, stray), symbols_ll(p))

(* A fatal error ends the compiler, and there is no function. *)
CompiledFrom(programs) ==
  {f \in {Compiled(p, stray) : p \in programs, stray \in {"crash", "harmless"}} : ~f.error}

-----------------------------------------------------------------------------
(* The call *)

Element(t) == IF t.k = "array" THEN (IF t.of.k = "array" THEN t.of.of ELSE t.of) ELSE t
DeclOf(v)  == CHOOSE d \in {fn.program.vars[i] : i \in DOMAIN fn.program.vars} : d.v = v
CellSize(v) == SizeOf(Element(DeclOf(v).ty))

Encoded(v, n) == IF v.o = "" THEN Bytes(v.n, n) ELSE Bytes(AddressOf(v.o) + v.n, n)

ParameterNames ==
  LET ps == SelectSeq(fn.program.vars, LAMBDA d : d.sc = "param") IN [i \in DOMAIN ps |-> ps[i].v]

(* A parameter is in the low bytes of its register. *)
RegistersAtEntry(in) ==
  [r \in Registers |->
     CASE r = "SP" -> Bytes(EntrySP, 8) [] r = "BP" -> CallersFrame
       [] OTHER ->
            LET ks == {k \in DOMAIN ParameterNames : param_reg[k] = r}
            IN  IF ks = {} THEN Lost(8)
                ELSE LET v == ParameterNames[CHOOSE k \in ks : TRUE]
                     IN  Encoded(in[<<v, 0>>], CellSize(v)) \o Lost(8 - CellSize(v))]

StaticCells(in) == {c \in DOMAIN in : ~Local(c[1])}
MemoryAtEntry(in) ==
  LET Of(a) == {c \in StaticCells(in) :
                  a \in (AddressOf(c[1]) + c[2])..(AddressOf(c[1]) + c[2] + CellSize(c[1]) - 1)}
      InString(a) == {i \in DOMAIN fn.program.strings :
                        a - fn.labels[StringLabel(i)] + 1 \in DOMAIN fn.program.strings[i]}
  IN  [a \in Data \cup Stack |->
         CASE a \in EntrySP..Top -> ReturnAddress[a - EntrySP + 1]
           [] Of(a) # {} ->
                LET c == CHOOSE c \in Of(a) : TRUE
                IN  Encoded(in[c], CellSize(c[1]))[a - AddressOf(c[1]) - c[2] + 1]
           [] InString(a) # {} ->
                LET i == CHOOSE i \in InString(a) : TRUE
                IN  fn.program.strings[i][a - fn.labels[StringLabel(i)] + 1]
           [] OTHER -> Junk]

Init ==
  /\ FrameInit /\ mode = "layout" /\ inputs = <<>>
  /\ regs = <<>> /\ mem = <<>> /\ flags = "junk" /\ ip = 1 /\ calls = <<>>

Layout == mode = "layout" /\ FrameNext /\ UNCHANGED <<machine, inputs>>

Enter ==
  /\ mode = "layout" /\ phase = "placed" /\ mode' = "run"
  /\ \E in \in fn.program.inputs :
       /\ inputs' = in /\ regs' = RegistersAtEntry(in) /\ mem' = MemoryAtEntry(in)
  /\ UNCHANGED <<framevars, flags, ip, calls>>

Run == Execute /\ UNCHANGED <<framevars, inputs>>

Finished == mode \in {"returned", "lost", "trap"} /\ UNCHANGED vars

Next == Layout \/ Enter \/ Run \/ Finished
Spec == Init /\ [][Next]_vars

-----------------------------------------------------------------------------
(* Properties *)

StringCells ==
  {<<StringLabel(i), j - 1>> : i \in DOMAIN fn.program.strings, j \in 1..8}
InString(c) == CHOOSE i \in DOMAIN fn.program.strings : StringLabel(i) = c[1]
StringStore ==
  [c \in {c \in StringCells : c[2] < Len(fn.program.strings[InString(c)])} |->
     C!As(C!Number(fn.program.strings[InString(c)][c[2] + 1]), CharType)]

Meaning ==
  C!Body([store |-> inputs @@ StringStore, calls |-> <<>>, ub |-> FALSE], fn.program.body)

(* The function returns what C says it returns, after the calls that C     *)
(* says it makes, in their order and with their arguments, and leaves in   *)
(* the static variables what C says it leaves there; it does not trap.  A  *)
(* function without a meaning may do anything.                             *)
ComputesMeaning ==
  mode \in {"returned", "lost", "trap"} /\ ~Meaning.s.ub =>
    /\ mode = "returned"
    /\ LET n == SizeOf(fn.program.ret)
       IN  SubSeq(regs["A"], 1, n) = Encoded(C!As(Meaning.v, fn.program.ret), n)
    /\ \A c \in DOMAIN Meaning.s.store :
         c[1] \in {d.v : d \in Range(Statics(fn.program))} =>
           [i \in 1..CellSize(c[1]) |-> mem[AddressOf(c[1]) + c[2] + i - 1]]
             = Encoded(Meaning.s.store[c], CellSize(c[1]))
    /\ calls = [i \in DOMAIN Meaning.s.calls |->
                  LET k == Meaning.s.calls[i]
                  IN  [f |-> k.f, args |-> [j \in DOMAIN External[k.f].params |->
                         Encoded(k.args[j], External[k.f].params[j])]]]

(* The caller gets its stack and frame pointer back, although the pushes   *)
(* of a division stay on the stack.                                        *)
FrameRestored ==
  mode \in {"returned", "lost"} =>
    mode = "returned" /\ regs["SP"] = Bytes(EntrySP + 8, 8) /\ regs["BP"] = CallersFrame

(* "Opcodes of the appropriate size": the assembler knows the instructions. *)
(* A register is as wide as the suffix says; only one operand is in memory; *)
(* nothing is stored in a constant; idiv takes no constant, and imul has no *)
(* form for bytes.                                                         *)
Constantlike(o) == o.m \in {"immediate", "framesize"}
WellFormed(i) ==
  /\ \A o \in {i.src, i.dest} : o.m = "register" => o.size = i.size
  /\ ~(InMemory(i.src) /\ InMemory(i.dest))
  /\ ~Constantlike(i.dest)
  /\ i.op \in {"idiv", "set", "lea"} => ~Constantlike(i.src)
  /\ i.op = "imul" => i.size # 1
Assembles == phase = "symbols" /\ at = 1 => \A i \in DOMAIN fn.code : WellFormed(fn.code[i])

(* An instruction changes bytes of one variable or temporary only, or of   *)
(* the stack below the frame, or saves the caller's frame pointer.         *)
StaticBytes ==
  {fn.labels[d.v]..(fn.labels[d.v] + SizeOf(d.ty) - 1) : d \in Range(Statics(fn.program))}
FrameBytes ==
  {(FrameBase + Offset(x))..(FrameBase + Offset(x) + Size(x) - 1) : x \in {y \in Storage : Placed(y)}}
OtherBytes == {FrameBase..(FrameBase + 7), {a \in Stack : a < FrameBase + frame.offset}}
WritesStayInside ==
  [][mode = "run" =>
       LET changed == {a \in DOMAIN mem : mem'[a] # mem[a]}
       IN  changed = {} \/ \E area \in StaticBytes \cup FrameBytes \cup OtherBytes :
                             changed \subseteq area]_vars
=============================================================================
