----------------------------- MODULE TracerStep -----------------------------
(***************************************************************************)
(* The tracer's registers and what one instruction does to them, regs.go   *)
(* and step.go: every register is a constant or unknown, and keeps the     *)
(* address its value was loaded from.  Beside it, what the instruction     *)
(* does to a processor whose registers are all known.                      *)
(*                                                                         *)
(* A byte is a number below ByteSize, an address two of them.  An          *)
(* instruction is a record: op, and the register r, pair p, source q,      *)
(* operand n or condition it has.                                          *)
(***************************************************************************)
EXTENDS Integers, Sequences

CONSTANTS
  ByteSize,   \* 256
  MaxStack    \* maxStack: how deep the abstract stack is kept
ASSUME StepAssumption == ByteSize \in Nat \ {0, 1} /\ MaxStack \in Nat

Unknown == -1
Nosrc == -1
RegNames == {"B", "C", "D", "E", "H", "L", "A"}
PairNames == {"BC", "DE", "HL"}
Hi == [BC |-> "B", DE |-> "D", HL |-> "H", AF |-> "A"]
Lo == [BC |-> "C", DE |-> "E", HL |-> "L"]

Lesser(a, b) == IF a < b THEN a ELSE b
Word(hi, lo) == hi * ByteSize + lo
HiByte(n) == (n \div ByteSize) % ByteSize
LoByte(n) == n % ByteSize
AddByte(a, b) == (a + b) % ByteSize
AddWord(a, b) == (a + b) % (ByteSize * ByteSize)

Value(v, src) == [v |-> v, src |-> src]
Forgotten == Value(Unknown, Nosrc)

NewRegs == [r |-> [k \in RegNames |-> Forgotten], stk |-> <<>>]

(* Clear: the stack survives, as a callee restores it. *)
Clear(g) == [g EXCEPT !.r = [k \in RegNames |-> Forgotten]]
SetReg(g, k, v, src) == [g EXCEPT !.r[k] = Value(v, src)]
PairOf(g, p) ==
  IF g.r[Hi[p]].v = Unknown \/ g.r[Lo[p]].v = Unknown THEN Unknown
  ELSE Word(g.r[Hi[p]].v, g.r[Lo[p]].v)
SetPair(g, p, n) ==
  IF n = Unknown THEN [g EXCEPT !.r[Hi[p]] = Forgotten, !.r[Lo[p]] = Forgotten]
  ELSE [g EXCEPT !.r[Hi[p]] = Value(HiByte(n), Nosrc), !.r[Lo[p]] = Value(LoByte(n), Nosrc)]

(* Push: the top of a stack is its last entry, and the oldest are dropped. *)
PushEntry(g, e) ==
  LET all == Append(g.stk, e)
  IN  [g EXCEPT !.stk = SubSeq(all, Len(all) - Lesser(Len(all), MaxStack) + 1, Len(all))]
PopEntry(g) == [g EXCEPT !.stk = SubSeq(@, 1, Len(@) - 1)]

Pushed(g, p) == PushEntry(g, <<g.r[Hi[p]], IF p = "AF" THEN Forgotten ELSE g.r[Lo[p]]>>)
Popped(g, p) ==
  LET e == IF g.stk = <<>> THEN <<Forgotten, Forgotten>> ELSE g.stk[Len(g.stk)]
      less == IF g.stk = <<>> THEN g ELSE PopEntry(g)
      high == [less EXCEPT !.r[Hi[p]] = e[1]]
  IN  IF p = "AF" THEN high ELSE [high EXCEPT !.r[Lo[p]] = e[2]]

(* What a load from memory gives: only bank shadows are known. *)
Loaded(shadows, a) == Value(IF a \in DOMAIN shadows THEN shadows[a] ELSE Unknown, a)

Store(a, value) == [at |-> a, v |-> value.v, src |-> value.src]
ByPair(g, p, value) == IF PairOf(g, p) = Unknown THEN <<>> ELSE <<Store(PairOf(g, p), value)>>

(* The cartridge's instructions have the operands their ops take. *)
WellFormed(ins) ==
  /\ ins.op \in {"LdRN", "LdPN", "LdAM", "LdHLM", "StMA", "StMHL", "StHLN", "IncR", "IncP",
                 "AddAN", "Djnz", "Call", "Rst", "Jp", "Word"} => ins.n \in Nat
  /\ ins.op \in {"LdRN", "LdRR", "StHLR", "IncR", "LdRIndex"} => ins.r \in RegNames
  /\ ins.op = "LdRR" => ins.q \in RegNames
  /\ ins.op \in {"LdPN", "StPA", "IncP", "AddHL"} => ins.p \in PairNames
  /\ ins.op \in {"Push", "Pop"} => ins.p \in PairNames \cup {"AF"}

MovedByte(v, k) == IF v = Unknown THEN Unknown ELSE AddByte(v, k)
MovedWord(v, k) == IF v = Unknown THEN Unknown ELSE AddWord(v, k)

(* Step: the registers after an instruction. *)
RegsAfter(g, ins, shadows) ==
  CASE ins.op = "LdRN" -> SetReg(g, ins.r, ins.n, Nosrc)
    [] ins.op = "LdRR" -> [g EXCEPT !.r[ins.r] = g.r[ins.q]]
    [] ins.op = "LdPN" -> SetPair(g, ins.p, ins.n)
    [] ins.op = "LdAM" -> [g EXCEPT !.r["A"] = Loaded(shadows, ins.n)]
    [] ins.op = "LdHLM" -> [g EXCEPT !.r["L"] = Loaded(shadows, ins.n),
                                     !.r["H"] = Loaded(shadows, ins.n + 1)]
    [] ins.op = "IncR" -> SetReg(g, ins.r, MovedByte(g.r[ins.r].v, ins.n), Nosrc)
    [] ins.op = "IncP" -> SetPair(g, ins.p, MovedWord(PairOf(g, ins.p), ins.n))
    [] ins.op = "AddAN" -> SetReg(g, "A", MovedByte(g.r["A"].v, ins.n), Nosrc)
    [] ins.op \in {"Alu", "LdAIndirect", "ExAF", "LdRIndex"} -> SetReg(g, "A", Unknown, Nosrc)
    [] ins.op = "AddHL" -> SetPair(g, "HL", Unknown)
    [] ins.op = "ExDEHL" -> [g EXCEPT !.r["D"] = g.r["H"], !.r["H"] = g.r["D"],
                                      !.r["E"] = g.r["L"], !.r["L"] = g.r["E"]]
    [] ins.op = "Exx" -> [g EXCEPT !.r = [k \in RegNames |-> IF k = "A" THEN g.r[k] ELSE Forgotten]]
    [] ins.op = "Push" -> Pushed(g, ins.p)
    [] ins.op = "Pop" -> Popped(g, ins.p)
    [] ins.op = "ExSPHL" -> [SetPair(g, "HL", Unknown) EXCEPT !.stk = <<>>]
    [] ins.op = "LdSP" -> [g EXCEPT !.stk = <<>>]
    [] ins.op = "Djnz" -> SetReg(g, "B", MovedByte(g.r["B"].v, ByteSize - 1), Nosrc)
    [] ins.op \in {"Call", "Rst", "Block"} -> Clear(g)
    [] OTHER -> g

(* Step: its stores, where their address is known. *)
StoresOf(g, ins) ==
  CASE ins.op = "StMA" -> <<Store(ins.n, g.r["A"])>>
    [] ins.op = "StMHL" -> <<Store(ins.n, g.r["L"]), Store(ins.n + 1, g.r["H"])>>
    [] ins.op = "StHLN" -> ByPair(g, "HL", Value(ins.n, Nosrc))
    [] ins.op = "StHLR" -> ByPair(g, "HL", g.r[ins.r])
    [] ins.op = "StPA" -> ByPair(g, ins.p, g.r["A"])
    [] OTHER -> <<>>

(* FallsThrough: a conditional jump or return does. *)
FallsThrough(ins) ==
  CASE ins.op \in {"Jp", "Ret"} -> ins.cond
    [] ins.op = "JpHL" -> FALSE
    [] OTHER -> TRUE

-----------------------------------------------------------------------------
(* The processor. What the tracer does not model gives junk; a call comes  *)
(* back with the stack as it was, as the tracer takes it to.               *)
Top(c) == IF c.stack = <<>> THEN <<c.junk, c.junk>> ELSE c.stack[Len(c.stack)]
Below(c) == IF c.stack = <<>> THEN <<>> ELSE SubSeq(c.stack, 1, Len(c.stack) - 1)
PairIn(c, p) == Word(c.r[Hi[p]], c.r[Lo[p]])
WithPair(c, p, n) == [c.r EXCEPT ![Hi[p]] = HiByte(n), ![Lo[p]] = LoByte(n)]
InMemory(c, a) == IF a \in DOMAIN c.mem THEN c.mem[a] ELSE c.junk

RegsThen(c, ins) ==
  CASE ins.op = "LdRN" -> [c.r EXCEPT ![ins.r] = ins.n]
    [] ins.op = "LdRR" -> [c.r EXCEPT ![ins.r] = c.r[ins.q]]
    [] ins.op = "LdPN" -> WithPair(c, ins.p, ins.n)
    [] ins.op = "LdAM" -> [c.r EXCEPT !["A"] = InMemory(c, ins.n)]
    [] ins.op = "LdHLM" -> [c.r EXCEPT !["L"] = InMemory(c, ins.n), !["H"] = InMemory(c, ins.n + 1)]
    [] ins.op = "IncR" -> [c.r EXCEPT ![ins.r] = AddByte(@, ins.n)]
    [] ins.op = "IncP" -> WithPair(c, ins.p, AddWord(PairIn(c, ins.p), ins.n))
    [] ins.op = "AddAN" -> [c.r EXCEPT !["A"] = AddByte(@, ins.n)]
    [] ins.op \in {"Alu", "LdAIndirect", "ExAF"} -> [c.r EXCEPT !["A"] = c.junk]
    [] ins.op = "LdRIndex" -> [c.r EXCEPT ![ins.r] = c.junk]
    [] ins.op = "AddHL" -> WithPair(c, "HL", AddWord(PairIn(c, "HL"), PairIn(c, ins.p)))
    [] ins.op = "ExDEHL" -> [c.r EXCEPT !["D"] = c.r["H"], !["H"] = c.r["D"],
                                        !["E"] = c.r["L"], !["L"] = c.r["E"]]
    [] ins.op = "Exx" -> [k \in RegNames |-> IF k = "A" THEN c.r[k] ELSE c.junk]
    [] ins.op = "Pop" -> IF ins.p = "AF" THEN [c.r EXCEPT !["A"] = Top(c)[1]]
                         ELSE [c.r EXCEPT ![Hi[ins.p]] = Top(c)[1], ![Lo[ins.p]] = Top(c)[2]]
    [] ins.op = "ExSPHL" -> [c.r EXCEPT !["H"] = Top(c)[1], !["L"] = Top(c)[2]]
    [] ins.op = "Djnz" -> [c.r EXCEPT !["B"] = AddByte(@, ByteSize - 1)]
    [] ins.op \in {"Call", "Rst", "Block"} -> [k \in RegNames |-> c.junk]
    [] OTHER -> c.r

StackThen(c, ins) ==
  CASE ins.op = "Push" -> Append(c.stack, <<c.r[Hi[ins.p]],
                                            IF ins.p = "AF" THEN c.junk ELSE c.r[Lo[ins.p]]>>)
    [] ins.op = "Pop" -> Below(c)
    [] ins.op = "ExSPHL" /\ c.stack # <<>> -> Append(Below(c), <<c.r["H"], c.r["L"]>>)
    [] ins.op = "LdSP" -> <<>>
    [] OTHER -> c.stack

Write(a, b) == [at |-> a, v |-> b]
Writes(c, ins) ==
  CASE ins.op = "StMA" -> <<Write(ins.n, c.r["A"])>>
    [] ins.op = "StMHL" -> <<Write(ins.n, c.r["L"]), Write(ins.n + 1, c.r["H"])>>
    [] ins.op = "StHLN" -> <<Write(PairIn(c, "HL"), ins.n)>>
    [] ins.op = "StHLR" -> <<Write(PairIn(c, "HL"), c.r[ins.r])>>
    [] ins.op = "StPA" -> <<Write(PairIn(c, ins.p), c.r["A"])>>
    [] OTHER -> <<>>

Written(mem, writes) ==
  [a \in DOMAIN mem |-> IF \E i \in DOMAIN writes : writes[i].at = a
                        THEN writes[CHOOSE i \in DOMAIN writes : writes[i].at = a].v ELSE mem[a]]
Exec(c, ins) == [c EXCEPT !.r = RegsThen(c, ins), !.stack = StackThen(c, ins),
                          !.mem = Written(@, Writes(c, ins))]
=============================================================================
