---------------------------- MODULE Instructions ----------------------------
(* The bytes of a program as instructions, twice: as the interpreter reads *)
(* them (interp.go) and as the translator does (decode.go, emit.go,        *)
(* emit_idx.go). An instruction is which helper of Processor it is, the    *)
(* operands, a small number k (a condition, an operation, a bit) and the   *)
(* address after it.                                                       *)
EXTENDS Processor

I(op, to, from, k, end) ==
  [op |-> op, to |-> to, from |-> from, k |-> k, end |-> end % 65536]
Simple(op, end) == I(op, None, None, 0, end)
Always == 8

A == Reg("A")
HL == At("HL", 0)
Direct(a) == At("none", a)
EightBit == <<"B", "C", "D", "E", "H", "L", "none", "A">>
IndexNames(pfx) == <<"HL", "IX", "IY">>[pfx + 1]

Holds(f, k) ==
  CASE k = 0 -> ~f.z [] k = 1 -> f.z [] k = 2 -> ~f.c [] k = 3 -> f.c
    [] k = 4 -> ~f.p [] k = 5 -> f.p [] k = 6 -> ~f.s [] k = 7 -> f.s
    [] k = Always -> TRUE

-----------------------------------------------------------------------------
(* What an instruction that goes nowhere does. *)

InC(m, i) ==
  LET v == In(m, m.r["C"])
      got == IF i.to = None THEN m ELSE Put(m, i.to, v)
  IN  IF i.k = 1 THEN [got EXCEPT !.f = [LogicFlags(v, FALSE) EXCEPT !.c = m.f.c]] ELSE got

LdAR(m, i) ==
  LET n == RefreshR(m)  a == n.r["A"]
  IN  IF i.k = 1
        THEN [n EXCEPT !.f = [s |-> FALSE, z |-> a = 0, h |-> FALSE, n |-> FALSE,
                              p |-> m.iff, c |-> m.f.c]]
        ELSE n

OnA(m, k) ==
  CASE k < 4 -> RotA(m, k) [] k = 4 -> Daa(m) [] k = 5 -> Cpl(m)
    [] k = 6 -> Scf(m) [] k = 7 -> Ccf(m)

WriteBit(m, i, one) ==
  LET v == WithBit(Get(m, i.to), i.k, one)
      out == Put(m, i.to, v)
  IN  IF i.from = None THEN out ELSE Put(out, i.from, v)

Effect(m, i) ==
  CASE i.op = "nop" -> m
    [] i.op = "ld" -> Put(m, i.to, Get(m, i.from))
    [] i.op = "ld16" -> Put16(m, i.to, Get16(m, i.from))
    [] i.op = "alu" -> Alu(m, i.k, Get(m, i.from))
    [] i.op = "inc" -> Inc8(m, i.to)
    [] i.op = "dec" -> Dec8(m, i.to)
    [] i.op = "inc16" -> Put16(m, i.to, (Get16(m, i.to) + 1) % 65536)
    [] i.op = "dec16" -> Put16(m, i.to, (Get16(m, i.to) + 65535) % 65536)
    [] i.op = "add16" -> Add16(m, i.to, Get16(m, i.from))
    [] i.op = "adc16" -> AdcHL(m, Get16(m, i.from))
    [] i.op = "sbc16" -> SbcHL(m, Get16(m, i.from))
    [] i.op = "onA" -> OnA(m, i.k)
    [] i.op = "rot" -> Rot(m, i.k, i.to, i.from)
    [] i.op = "bit" -> TestBit(m, i.k, Get(m, i.to))
    [] i.op = "res" -> WriteBit(m, i, FALSE)
    [] i.op = "set" -> WriteBit(m, i, TRUE)
    [] i.op = "push" -> Push(m, Get16(m, i.from))
    [] i.op = "pop" -> Put16(Popped(m), i.to, Rd16(m, m.sp))
    [] i.op = "exsp" -> ExSP(m, i.to.name)
    [] i.op = "exdehl" -> ExDEHL(m)
    [] i.op = "exaf" -> ExAF(m)
    [] i.op = "exx" -> Exx(m)
    [] i.op = "iff" -> [m EXCEPT !.iff = i.k = 1]
    [] i.op = "out" -> Out(m, i.k, m.r["A"])
    [] i.op = "in" -> Put(m, A, In(m, i.k))
    [] i.op = "outC" -> Out(m, m.r["C"], Get(m, i.from))
    [] i.op = "inC" -> InC(m, i)
    [] i.op = "neg" -> Neg(m)
    [] i.op = "im" -> [m EXCEPT !.im = i.k]
    [] i.op = "ldar" -> LdAR(m, i)
    [] i.op = "rrd" -> Rrd(m)
    [] i.op = "rld" -> Rld(m)
    [] i.op = "block" -> Block(m, <<"ld", "cp", "in", "out">>[(i.k % 4) + 1],
                               IF Bit(i.k, 3) THEN -1 ELSE 1, Bit(i.k, 4))

-----------------------------------------------------------------------------
(* The interpreter. pfx is 0, or 1 and 2 after DDh and FDh; at is where    *)
(* the operation's own byte is.                                            *)

R8(i, pfx) ==
  Reg(CASE i = 4 -> <<"H", "IXH", "IYH">>[pfx + 1]
        [] i = 5 -> <<"L", "IXL", "IYL">>[pfx + 1]
        [] OTHER -> EightBit[i + 1])
Rp(i, pfx) == Two(<<"BC", "DE", IndexNames(pfx), "SP">>[i + 1])
Rp2(i, pfx) == Two(<<"BC", "DE", IndexNames(pfx), "AF">>[i + 1])
Extra(pfx) == IF pfx = 0 THEN 0 ELSE 1
HlAddr(m, at, pfx) ==
  IF pfx = 0 THEN HL ELSE At(IndexNames(pfx), Signed(Rd(m, at + 1)))
Relative(m, at) == Num((at + 2 + Signed(Rd(m, at + 1))) % 65536)

(* Opcodes 40h to BFh: loads between registers, and the arithmetic. *)
StepRegisters(m, at, pfx, op, y, z) ==
  LET hl == HlAddr(m, at, pfx)  short == at + 1  long == at + 1 + Extra(pfx)
  IN  IF op = 118 THEN Simple("halt", short)
      ELSE IF op >= 128
        THEN I("alu", None, IF z = 6 THEN hl ELSE R8(z, pfx), y, IF z = 6 THEN long ELSE short)
      ELSE IF y = 6 THEN I("ld", hl, R8(z, 0), 0, long)
      ELSE IF z = 6 THEN I("ld", R8(y, 0), hl, 0, long)
      ELSE I("ld", R8(y, pfx), R8(z, pfx), 0, short)

StepLow(m, at, pfx, op, y, z, p) ==
  LET hl == HlAddr(m, at, pfx)  extra == IF y = 6 THEN Extra(pfx) ELSE 0
      to == IF y = 6 THEN hl ELSE R8(y, pfx)  w == Rd16(m, at + 1)
  IN  CASE op = 0 -> Simple("nop", at + 1)
        [] op = 8 -> Simple("exaf", at + 1)
        [] op = 16 -> I("djnz", Relative(m, at), None, 0, at + 2)
        [] op = 24 -> I("jp", Relative(m, at), None, Always, at + 2)
        [] op \in {32, 40, 48, 56} -> I("jr", Relative(m, at), None, y % 4, at + 2)
        [] op \in {1, 17, 33, 49} -> I("ld16", Rp(p, pfx), Num(w), 0, at + 3)
        [] op \in {9, 25, 41, 57} -> I("add16", Rp(2, pfx), Rp(p, pfx), 0, at + 1)
        [] op = 2 -> I("ld", At("BC", 0), A, 0, at + 1)
        [] op = 18 -> I("ld", At("DE", 0), A, 0, at + 1)
        [] op = 10 -> I("ld", A, At("BC", 0), 0, at + 1)
        [] op = 26 -> I("ld", A, At("DE", 0), 0, at + 1)
        [] op = 34 -> I("ld16", Direct(w), Rp(2, pfx), 0, at + 3)
        [] op = 42 -> I("ld16", Rp(2, pfx), Direct(w), 0, at + 3)
        [] op = 50 -> I("ld", Direct(w), A, 0, at + 3)
        [] op = 58 -> I("ld", A, Direct(w), 0, at + 3)
        [] op \in {3, 19, 35, 51} -> I("inc16", Rp(p, pfx), None, 0, at + 1)
        [] op \in {11, 27, 43, 59} -> I("dec16", Rp(p, pfx), None, 0, at + 1)
        [] z = 4 -> I("inc", to, None, 0, at + 1 + extra)
        [] z = 5 -> I("dec", to, None, 0, at + 1 + extra)
        [] z = 6 -> I("ld", to, Num(Rd(m, at + 1 + extra)), 0, at + 2 + extra)
        [] z = 7 -> I("onA", None, None, y, at + 1)

StepHigh(m, at, pfx, op, y, z, p) ==
  LET w == Num(Rd16(m, at + 1))  b == Rd(m, at + 1)
  IN  CASE z = 0 -> I("ret", None, None, y, at + 1)
        [] op = 201 -> I("ret", None, None, Always, at + 1)
        [] z = 2 -> I("jp", w, None, y, at + 3)
        [] op = 195 -> I("jp", w, None, Always, at + 3)
        [] z = 4 -> I("call", w, None, y, at + 3)
        [] op = 205 -> I("call", w, None, Always, at + 3)
        [] op \in {193, 209, 225, 241} -> I("pop", Rp2(p, pfx), None, 0, at + 1)
        [] op \in {197, 213, 229, 245} -> I("push", None, Rp2(p, pfx), 0, at + 1)
        [] z = 6 -> I("alu", None, Num(b), y, at + 2)
        [] z = 7 -> I("rst", Num(op - 199), None, 0, at + 1)
        [] op = 211 -> I("out", None, None, b, at + 2)
        [] op = 219 -> I("in", None, None, b, at + 2)
        [] op = 217 -> Simple("exx", at + 1)
        [] op = 227 -> I("exsp", Rp(2, pfx), None, 0, at + 1)
        [] op = 233 -> I("jp", Rp(2, pfx), None, Always, at + 1)
        [] op = 235 -> Simple("exdehl", at + 1)
        [] op = 243 -> I("iff", None, None, 0, at + 1)
        [] op = 251 -> I("iff", None, None, 1, at + 1)
        [] op = 249 -> I("ld16", Two("SP"), Rp(2, pfx), 0, at + 1)

StepCB(m, at, pfx) ==
  LET op == Rd(m, at + 1 + Extra(pfx))  r == op % 8
      to == IF pfx # 0 THEN HlAddr(m, at, pfx) ELSE IF r = 6 THEN HL ELSE R8(r, 0)
      copy == IF pfx # 0 /\ r # 6 THEN R8(r, 0) ELSE None
  IN  I(<<"rot", "bit", "res", "set">>[(op \div 64) + 1], to, copy, (op \div 8) % 8,
        at + 2 + Extra(pfx))

Mode(y) == CASE y \in {0, 1, 4, 5} -> 0 [] y \in {2, 6} -> 1 [] y \in {3, 7} -> 2
Blocks == {160, 161, 162, 163, 168, 169, 170, 171, 176, 177, 178, 179, 184, 185, 186, 187}

StepED(m, at) ==
  LET op == Rd(m, at + 1)  y == (op \div 8) % 8  z == op % 8  p == Rp(y \div 2, 0)
      there == Direct(Rd16(m, at + 2))  end == at + 2  mem == y = 6
  IN  CASE op \in Blocks -> I("block", None, None, op, end)
        [] op \notin Blocks \cup 64..127 -> Simple("nop", end)
        [] op \in 64..127 /\ z = 0 -> I("inC", IF mem THEN None ELSE R8(y, 0), None, 1, end)
        [] op \in 64..127 /\ z = 1 -> I("outC", None, IF mem THEN Num(0) ELSE R8(y, 0), 0, end)
        [] op \in 64..127 /\ z = 2 -> I(IF y % 2 = 0 THEN "sbc16" ELSE "adc16", None, p, 0, end)
        [] op \in 64..127 /\ z = 3 -> IF y % 2 = 0 THEN I("ld16", there, p, 0, at + 4)
                                                   ELSE I("ld16", p, there, 0, at + 4)
        [] op \in 64..127 /\ z = 4 -> Simple("neg", end)
        [] op \in 64..127 /\ z = 5 -> I("ret", None, None, Always, end)
        [] op \in 64..127 /\ z = 6 -> I("im", None, None, Mode(y), end)
        [] op \in {71, 79, 119, 127} -> Simple("nop", end)
        [] op \in {87, 95} -> I("ldar", None, None, 1, end)
        [] op = 103 -> Simple("rrd", end)
        [] op = 111 -> Simple("rld", end)

(* The last prefix of a run of them is the one in force. *)
IndexPrefixes == {221, 253}
RunOfPrefixes(m, pc) == CHOOSE n \in 0..4 : /\ Rd(m, pc + n) \notin IndexPrefixes
                                             /\ \A k \in 0..n - 1 : Rd(m, pc + k) \in IndexPrefixes
Decoded(m) ==
  LET n == RunOfPrefixes(m, m.pc)  at == m.pc + n  op == Rd(m, at)
      pfx == IF n = 0 THEN 0 ELSE IF Rd(m, at - 1) = 221 THEN 1 ELSE 2
      y == (op \div 8) % 8
  IN  CASE op = 203 -> StepCB(m, at, pfx)
        [] op = 237 -> StepED(m, at)
        [] op < 64 -> StepLow(m, at, pfx, op, y, op % 8, y \div 2)
        [] op \in 64..191 -> StepRegisters(m, at, pfx, op, y, op % 8)
        [] op \in 192..255 \ {203, 237} -> StepHigh(m, at, pfx, op, y, op % 8, y \div 2)

-----------------------------------------------------------------------------
(* Page zero is the BIOS while slot 0 is selected there; so is the disk    *)
(* system's entry in the work area. What an entry does is a change to A.   *)

Bdos == 62333
IsBios(m, a) == (a < 16384 /\ m.slot % 4 = 0) \/ a = Bdos
Shim(m, a) == [m EXCEPT !.r["A"] = (@ + a) % 256]

Return(m) == [Popped(m) EXCEPT !.pc = Rd16(m, m.sp)]
JumpTo(m, a) == IF IsBios(m, a) THEN Return(Shim(m, a)) ELSE [m EXCEPT !.pc = a]
CallTo(m, a) == IF IsBios(m, a) THEN Shim(m, a) ELSE [Push(m, m.pc) EXCEPT !.pc = a]
LessB(m) == [m EXCEPT !.r["B"] = (@ + 255) % 256]

(* step, once the instruction is read and the program counter is past it.  *)
Performed(m, i) ==
  CASE i.op = "jp" -> IF Holds(m.f, i.k) THEN JumpTo(m, Get16(m, i.to)) ELSE m
    [] i.op = "jr" -> IF Holds(m.f, i.k) THEN [m EXCEPT !.pc = i.to.n] ELSE m
    [] i.op = "djnz" -> IF m.r["B"] # 1 THEN [LessB(m) EXCEPT !.pc = i.to.n] ELSE LessB(m)
    [] i.op = "call" -> IF Holds(m.f, i.k) THEN CallTo(m, i.to.n) ELSE m
    [] i.op = "ret" -> IF Holds(m.f, i.k) THEN Return(m) ELSE m
    [] OTHER -> Effect(m, i)

(* An unconditional jump to itself is how a program waits. *)
NeverSpins(i, at) == FALSE
SpinsAt(i, at) == i.op = "jp" /\ i.k = Always /\ i.to = Num(at)
=============================================================================
