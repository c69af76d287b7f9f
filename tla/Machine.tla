------------------------------ MODULE Machine ------------------------------
(***************************************************************************)
(* As much of an x86-64 as the generated code uses: what the instructions  *)
(* do, and what a caller and a called function do under the calling        *)
(* convention.  Bytes have two bits instead of eight, so that numbers and  *)
(* addresses of every size are small; sizes and offsets are the real ones. *)
(* A byte that nobody has written is Junk, and so is all that is computed  *)
(* from it.                                                                *)
(***************************************************************************)
EXTENDS Frame, InstSelect

CONSTANTS
  Data,        \* addresses of the static variables and string literals
  Stack,       \* addresses of the stack, ending with the return address
  External     \* functions elsewhere: the sizes of parameters and result

ASSUME MachineAssumption == Data \subseteq Nat /\ Stack \subseteq Nat /\ Data \cap Stack = {}

VARIABLES regs, mem, flags, ip, calls, mode
machine == <<regs, mem, flags, ip, calls, mode>>

Junk == 4
Registers == {"A", "C", "D", "DI", "SI", "8", "9", "BP", "SP"}
Lost(n)   == [i \in 1..n |-> Junk]

Bytes(x, n) == [i \in 1..n |-> (x \div 4^(i - 1)) % 4]
Unsigned(b) ==
  LET upto[i \in 0..Len(b)] == IF i = 0 THEN 0 ELSE upto[i - 1] + b[i] * 4^(i - 1)
  IN  upto[Len(b)]
Signed(b)   == IF b[Len(b)] >= 2 THEN Unsigned(b) - 4^Len(b) ELSE Unsigned(b)
Known(b)    == \A i \in DOMAIN b : b[i] # Junk

Top           == CHOOSE a \in Stack : a + 1 \notin Stack
ReturnAddress == Bytes(19027, 8)
CallersFrame  == Bytes(13579, 8)
EntrySP       == Top - 7              \* where the return address is

(* %rbp in the body, and the address of what has a place in the frame *)
FrameBase == EntrySP - 8
SymbolAt(v) == CHOOSE i \in DOMAIN fn.symbols : fn.symbols[i].v = v
Local(v)  == \E i \in DOMAIN fn.symbols : fn.symbols[i].v = v
AddressOf(v) == IF Local(v) THEN FrameBase + frame.soff[SymbolAt(v)] ELSE fn.labels[v]

-----------------------------------------------------------------------------
(* Operands *)

Instruction == fn.code[ip]
Running(ops) == mode = "run" /\ ip <= Len(fn.code) /\ Instruction.op \in ops

(* print_asm_addr: relative to %rbp, or to %rip by label *)
Address(o) ==
  CASE o.m = "indirect" ->
         IF Known(SubSeq(regs[o.r], 1, o.size)) THEN Unsigned(SubSeq(regs[o.r], 1, o.size)) ELSE -1
    [] o.m = "memory" /\ o.a.k = "tmp" -> Unsigned(regs["BP"]) + frame.toff[o.a.id]
    [] o.m = "memory" /\ o.a.k = "ast" ->
         IF Local(o.a.v) THEN Unsigned(regs["BP"]) + frame.soff[SymbolAt(o.a.v)]
         ELSE fn.labels[o.a.v]

InMemory(o) == o.m \in {"memory", "indirect"}
Bad(o, n)   == InMemory(o) /\ ~(Address(o)..(Address(o) + n - 1) \subseteq Data \cup Stack)

Read(o, n) ==
  CASE o.m = "immediate" -> Bytes(o.a.n, n)
    [] o.m = "framesize" -> Bytes(-frame.offset, n)
    [] o.m = "register"  -> SubSeq(regs[o.r], 1, n)
    [] InMemory(o)       -> [i \in 1..n |-> mem[Address(o) + i - 1]]

(* A write of four bytes clears the other half of a register. *)
SetRegister(r, b) ==
  [regs EXCEPT ![r] = IF Len(b) = 4 THEN b \o Bytes(0, 4) ELSE b \o SubSeq(@, Len(b) + 1, 8)]
SetMemory(a, b) ==
  [x \in DOMAIN mem |-> IF x \in a..(a + Len(b) - 1) THEN b[x - a + 1] ELSE mem[x]]

Write(o, b) ==
  /\ regs' = IF o.m = "register" THEN SetRegister(o.r, b) ELSE regs
  /\ mem'  = IF InMemory(o) THEN SetMemory(Address(o), b) ELSE mem

Advance == ip' = ip + 1 /\ UNCHANGED <<calls, mode>>
Trap    == mode' = "trap" /\ UNCHANGED <<regs, mem, flags, ip, calls>>

-----------------------------------------------------------------------------
(* Instructions *)

Mov ==
  LET i == Instruction IN
  /\ Running({"mov"})
  /\ IF Bad(i.src, i.size) \/ Bad(i.dest, i.size) THEN Trap
     ELSE Write(i.dest, Read(i.src, i.size)) /\ UNCHANGED flags /\ Advance

Compute(op, x, y) ==
  CASE op = "add"  -> x + y
    [] op = "sub"  -> x - y
    [] op = "imul" -> x * y
    [] op = "xor"  -> 0                  \* only ever of a register with itself

Arith ==
  LET i == Instruction
      x == Read(i.dest, i.size)   y == Read(i.src, i.size)
      result == IF i.op = "xor" THEN Bytes(0, i.size)
                ELSE IF Known(x) /\ Known(y)
                THEN Bytes(Compute(i.op, Signed(x), Signed(y)), i.size) ELSE Lost(i.size)
  IN
  /\ Running({"add", "sub", "imul", "xor"})
  /\ IF Bad(i.src, i.size) THEN Trap
     ELSE Write(i.dest, result) /\ flags' = "junk" /\ Advance

(* The dividend is D:A, and D has been cleared.  A quotient that is not    *)
(* representable is a trap.                                                *)
Quotient(x, y) == IF y > 0 THEN x \div y ELSE -(x \div (-y))
Idiv ==
  LET i == Instruction
      y == Read(i.src, i.size)
      x == Read(Reg("A", i.size), i.size)
      q == Quotient(Unsigned(x), Signed(y))
      r == Unsigned(x) - q * Signed(y)
      half == 4^i.size \div 2
  IN
  /\ Running({"idiv"})
  /\ IF \/ Bad(i.src, i.size) \/ ~Known(x) \/ ~Known(y)
        \/ Read(Reg("D", i.size), i.size) # Bytes(0, i.size)
        \/ Signed(y) = 0 \/ q >= half \/ q < -half
     THEN Trap
     ELSE /\ regs' = [regs EXCEPT !["A"] = SetRegister("A", Bytes(q, i.size))["A"],
                                  !["D"] = SetRegister("D", Bytes(r, i.size))["D"]]
          /\ flags' = "junk" /\ UNCHANGED mem /\ Advance

Cmp ==
  LET i == Instruction
      x == Read(i.dest, i.size)   y == Read(i.src, i.size)
  IN
  /\ Running({"cmp"})
  /\ IF Bad(i.src, i.size) THEN Trap
     ELSE /\ flags' = IF ~(Known(x) /\ Known(y)) THEN "junk"
                     ELSE CASE Signed(x) < Signed(y) -> "lt"
                            [] x = y                 -> "eq"
                            [] Signed(x) > Signed(y) -> "gt"
          /\ UNCHANGED <<regs, mem>> /\ Advance

Satisfied(cc) ==
  CASE cc = "E" -> flags = "eq" [] cc = "NE" -> flags # "eq"
    [] cc = "L" -> flags = "lt" [] cc = "LE" -> flags # "gt"
    [] cc = "G" -> flags = "gt" [] cc = "GE" -> flags # "lt"

Set ==
  /\ Running({"set"})
  /\ IF Bad(Instruction.src, 1) THEN Trap
     ELSE /\ Write(Instruction.src, <<IF flags = "junk" THEN Junk
                                      ELSE IF Satisfied(Instruction.cc) THEN 1 ELSE 0>>)
          /\ UNCHANGED flags /\ Advance

(* Over one return: mov, leave, ret *)
Jump ==
  /\ Running({"jump"})
  /\ IF flags = "junk" THEN Trap
     ELSE /\ ip' = IF Satisfied(Instruction.cc) THEN ip + 4 ELSE ip + 1
          /\ UNCHANGED <<regs, mem, flags, calls, mode>>

Cltq ==
  LET low == SubSeq(regs["A"], 1, 4) IN
  /\ Running({"cltq"})
  /\ regs' = [regs EXCEPT !["A"] = IF Known(low) THEN Bytes(Signed(low), 8) ELSE Lost(8)]
  /\ UNCHANGED <<mem, flags>> /\ Advance

Lea ==
  /\ Running({"lea"})
  /\ Write(Instruction.dest, Bytes(Address(Instruction.src), 8))
  /\ UNCHANGED flags /\ Advance

SP == Unsigned(regs["SP"])
Push ==
  /\ Running({"push"})
  /\ IF SP - 8 \notin Stack THEN Trap
     ELSE /\ mem'  = SetMemory(SP - 8, Read(Instruction.src, 8))
          /\ regs' = [regs EXCEPT !["SP"] = Bytes(SP - 8, 8)]
          /\ UNCHANGED flags /\ Advance

(* A function elsewhere: it takes its arguments from the registers that are *)
(* for arguments, may change every register but those it has to keep and   *)
(* all of the stack below its return address, and returns the number of    *)
(* the call, so that every call returns something else.                    *)
CallExternal ==
  LET f == Instruction.src.v
      args == [i \in DOMAIN External[f].params |->
                 SubSeq(regs[param_reg[i]], 1, External[f].params[i])]
      n == External[f].result
  IN
  /\ Running({"call"})
  /\ IF SP - 8 \notin Stack THEN Trap
     ELSE /\ calls' = Append(calls, [f |-> f, args |-> args])
          /\ regs' = [r \in Registers |->
                        CASE r \in {"BP", "SP"} -> regs[r]
                          [] r = "A" -> Bytes(Len(calls) + 1, n) \o Lost(8 - n)
                          [] OTHER -> Lost(8)]
          /\ mem' = [x \in DOMAIN mem |-> IF x \in Stack /\ x < SP THEN Junk ELSE mem[x]]
          /\ flags' = "junk" /\ ip' = ip + 1 /\ UNCHANGED mode

Word(a) == [i \in 1..8 |-> mem[a + i - 1]]
Leave ==
  LET base == Unsigned(regs["BP"]) IN
  /\ Running({"leave"})
  /\ IF ~(base..(base + 7) \subseteq Stack) THEN Trap
     ELSE /\ regs' = [regs EXCEPT !["SP"] = Bytes(base + 8, 8), !["BP"] = Word(base)]
          /\ UNCHANGED <<mem, flags>> /\ Advance

Ret ==
  /\ Running({"ret"})
  /\ mode' = IF SP..(SP + 7) \subseteq Stack /\ Word(SP) = ReturnAddress THEN "returned" ELSE "lost"
  /\ regs' = [regs EXCEPT !["SP"] = Bytes(SP + 8, 8)]
  /\ UNCHANGED <<mem, flags, ip, calls>>

Execute == Mov \/ Arith \/ Idiv \/ Cmp \/ Set \/ Jump \/ Cltq \/ Lea \/ Push \/ CallExternal
           \/ Leave \/ Ret
=============================================================================
