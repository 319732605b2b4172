----------------------------- MODULE Translation ----------------------------
(* The translator's own reading of the bytes: what the generated statement *)
(* at a label does. Lengths are decode.go's; the statements are those of   *)
(* emit.go, and of emit_idx.go after a DDh or FDh.                         *)
EXTENDS Instructions

View(m, at) == LET a == at % 65536 IN IF a \in DOMAIN m.rom THEN m.rom[a] ELSE 0
Word(m, a) == View(m, a) + 256 * View(m, a + 1)

-----------------------------------------------------------------------------
(* Lengths. A prefix counts none of its own. *)

Wide(op) == \/ op < 64 /\ (op % 16 = 1 \/ op \in {34, 42, 50, 58})
            \/ op >= 192 /\ (op % 8 \in {2, 4} \/ op \in {195, 205})
Narrow(op) == \/ op < 64 /\ (op % 8 = 6 \/ op \in {16, 24, 32, 40, 48, 56})
              \/ op >= 192 /\ (op % 8 = 6 \/ op \in {211, 219})
MainLength(op) == IF Wide(op) THEN 3 ELSE IF Narrow(op) THEN 2 ELSE 1
EdLong(sub) == sub \in {67, 75, 83, 91, 99, 107, 115, 123}
NeedsD(sub) == \/ sub \in 52..54
               \/ sub \in 64..127 /\ sub # 118 /\ (sub % 8 = 6 \/ sub \in 112..119)
               \/ sub \in 128..191 /\ sub % 8 = 6
Degenerate == {221, 253, 237}
LengthAt(m, at) ==
  LET op == View(m, at)  sub == View(m, at + 1)
  IN  CASE op = 203 -> 2
        [] op = 237 -> IF EdLong(sub) THEN 4 ELSE 2
        [] op \in IndexPrefixes /\ sub = 203 -> 4
        [] op \in IndexPrefixes /\ sub \in Degenerate -> 1
        [] op \in IndexPrefixes /\ sub \notin Degenerate \cup {203} ->
             1 + MainLength(sub) + AsNumber(NeedsD(sub))
        [] OTHER -> MainLength(op)

-----------------------------------------------------------------------------
(* Statements. *)

Byte8(i) == IF i = 6 THEN HL ELSE Reg(EightBit[i + 1])
Rp16(i) == Two(<<"BC", "DE", "HL", "SP">>[i + 1])
RpStack(i) == Two(<<"BC", "DE", "HL", "AF">>[i + 1])
NoStatement(end) == Simple("unsupported", end)
Rotations == {7, 15, 23, 31, 39, 47, 55, 63}

(* target is decode.go's: nothing after a prefix. *)
Insn(m, at, end, target) ==
  LET op == View(m, at)  y == (op \div 8) % 8  z == op % 8  p == y \div 2
      b == View(m, at + 1)  w == Word(m, at + 1)
  IN  CASE op \in 64..127 \ {118} -> I("ld", Byte8(y), Byte8(z), 0, end)
        [] op < 64 /\ z = 6 -> I("ld", Byte8(y), Num(b), 0, end)
        [] op \in {10, 26} -> I("ld", A, At(<<"BC", "DE">>[p + 1], 0), 0, end)
        [] op \in {2, 18} -> I("ld", At(<<"BC", "DE">>[p + 1], 0), A, 0, end)
        [] op = 58 -> I("ld", A, Direct(w), 0, end)
        [] op = 50 -> I("ld", Direct(w), A, 0, end)
        [] op = 42 -> I("ld16", Two("HL"), Direct(w), 0, end)
        [] op = 34 -> I("ld16", Direct(w), Two("HL"), 0, end)
        [] op < 64 /\ op % 16 = 1 -> I("ld16", Rp16(p), Num(w), 0, end)
        [] op = 249 -> I("ld16", Two("SP"), Two("HL"), 0, end)
        [] op \in {197, 213, 229, 245} -> I("push", None, RpStack(p), 0, end)
        [] op \in {193, 209, 225, 241} -> I("pop", RpStack(p), None, 0, end)
        [] op = 227 -> I("exsp", Two("HL"), None, 0, end)
        [] op = 235 -> Simple("exdehl", end)
        [] op = 8 -> Simple("exaf", end)
        [] op = 217 -> Simple("exx", end)
        [] op \in 128..191 -> I("alu", None, Byte8(z), y, end)
        [] op >= 192 /\ z = 6 -> I("alu", None, Num(b), y, end)
        [] op < 64 /\ z = 4 -> I("inc", Byte8(y), None, 0, end)
        [] op < 64 /\ z = 5 -> I("dec", Byte8(y), None, 0, end)
        [] op < 64 /\ op % 16 = 3 -> I("inc16", Rp16(p), None, 0, end)
        [] op < 64 /\ op % 16 = 11 -> I("dec16", Rp16(p), None, 0, end)
        [] op < 64 /\ op % 16 = 9 -> I("add16", Two("HL"), Rp16(p), 0, end)
        [] op = 0 -> Simple("nop", end)
        [] op \in Rotations -> I("onA", None, None, y, end)
        [] op \in {243, 251} -> I("iff", None, None, AsNumber(op = 251), end)
        [] op = 118 -> Simple("halt", end)
        [] op = 211 -> I("out", None, None, b, end)
        [] op = 219 -> I("in", None, None, b, end)
        [] op = 195 -> I("jp", Num(w), None, Always, end)
        [] op >= 192 /\ z = 2 -> I("jp", Num(w), None, y, end)
        [] op = 24 -> I("jp", Num(target), None, Always, end)
        [] op \in {32, 40, 48, 56} -> I("jr", Num(target), None, y % 4, end)
        [] op = 16 -> I("djnz", Num(target), None, 0, end)
        [] op = 205 -> I("call", Num(w), None, Always, end)
        [] op >= 192 /\ z = 4 -> I("call", Num(w), None, y, end)
        [] op = 201 -> I("ret", None, None, Always, end)
        [] op >= 192 /\ z = 0 -> I("ret", None, None, y, end)
        [] op = 233 -> I("jp", Two("HL"), None, Always, end)
        [] op >= 192 /\ z = 7 -> I("rst", Num(8 * y), None, 0, end)

Shifted(place, op, end) ==
  I(<<"rot", "bit", "res", "set">>[(op \div 64) + 1], place, None, (op \div 8) % 8, end)
Cb(m, at, end) == LET sub == View(m, at + 1) IN Shifted(Byte8(sub % 8), sub, end)

Ed(m, at, end) ==
  LET sub == View(m, at + 1)  y == (sub \div 8) % 8  p == Rp16(y \div 2)
      r == IF y = 6 THEN None ELSE Byte8(y)  there == Direct(Word(m, at + 2))
      group == IF sub \in 64..127 THEN sub % 8 ELSE 8
  IN  CASE group = 1 -> I("outC", None, r, 0, end)
        [] group = 0 -> I("inC", r, None, 0, end)
        [] sub \in Blocks -> I("block", None, None, sub, end)
        [] sub \in {67, 83, 99, 115} -> I("ld16", there, p, 0, end)
        [] sub \in {75, 91, 107, 123} -> I("ld16", p, there, 0, end)
        [] sub \in {66, 82, 98, 114} -> I("sbc16", None, p, 0, end)
        [] sub \in {74, 90, 106, 122} -> I("adc16", None, p, 0, end)
        [] sub = 68 -> Simple("neg", end)
        [] group = 6 -> I("im", None, None, CASE sub = 70 -> 0 [] sub = 94 -> 2 [] OTHER -> 1, end)
        [] sub \in {71, 79} -> Simple("nop", end)
        [] sub = 87 -> I("ld", A, Num(0), 0, end)
        [] sub = 95 -> I("ldar", None, None, 0, end)
        [] sub = 103 -> Simple("rrd", end)
        [] sub = 111 -> Simple("rld", end)
        [] group = 5 -> I("ret", None, None, Always, end)
        [] OTHER -> NoStatement(end)

-----------------------------------------------------------------------------
(* After a prefix: the index register x, its halves, and (x+d).            *)

Half(x, i) == Reg(IF i \in {4, 5} THEN Halves[x][i - 3] ELSE EightBit[i + 1])
Indexed(m, at, x) == At(x, Signed(View(m, at + 2)))

(* Opcodes 40h to BFh: (x+d) where one operand is memory, else the halves. *)
IdxRegisters(sub, x, ea, end) ==
  LET y == (sub \div 8) % 8  z == sub % 8
  IN  IF sub \in 112..119 \ {118} THEN I("ld", ea, Byte8(z), 0, end)
      ELSE IF sub < 128 /\ z = 6 THEN I("ld", Byte8(y), ea, 0, end)
      ELSE IF z = 6 THEN I("alu", None, ea, y, end)
      ELSE IF sub < 128 THEN I("ld", Half(x, y), Half(x, z), 0, end)
      ELSE I("alu", None, Half(x, z), y, end)

Idx(m, at, x, end) ==
  LET sub == View(m, at + 1)  ea == Indexed(m, at, x)  w == Word(m, at + 2)
      half == Half(x, (sub \div 8) % 8)
  IN  CASE sub = 203 -> Shifted(ea, View(m, at + 3), end)
        [] sub = 33 -> I("ld16", Two(x), Num(w), 0, end)
        [] sub = 34 -> I("ld16", Direct(w), Two(x), 0, end)
        [] sub = 42 -> I("ld16", Two(x), Direct(w), 0, end)
        [] sub = 229 -> I("push", None, Two(x), 0, end)
        [] sub = 225 -> I("pop", Two(x), None, 0, end)
        [] sub = 233 -> I("jp", Two(x), None, Always, end)
        [] sub = 249 -> I("ld16", Two("SP"), Two(x), 0, end)
        [] sub = 227 -> I("exsp", Two(x), None, 0, end)
        [] sub \in {9, 25, 41, 57} ->
             I("add16", Two(x), Two(<<"BC", "DE", x, "SP">>[(sub \div 16) + 1]), 0, end)
        [] sub = 35 -> I("inc16", Two(x), None, 0, end)
        [] sub = 43 -> I("dec16", Two(x), None, 0, end)
        [] sub = 54 -> I("ld", ea, Num(View(m, at + 3)), 0, end)
        [] sub = 52 -> I("inc", ea, None, 0, end)
        [] sub = 53 -> I("dec", ea, None, 0, end)
        [] sub \in {38, 46} -> I("ld", half, Num(View(m, at + 2)), 0, end)
        [] sub \in {36, 44} -> I("inc", half, None, 0, end)
        [] sub \in {37, 45} -> I("dec", half, None, 0, end)
        [] sub \in 64..191 -> IdxRegisters(sub, x, ea, end)
        [] sub \in Degenerate -> NoStatement(end)
        [] OTHER -> Insn(m, at + 1, end, 0)

Translated(m, at) ==
  LET op == View(m, at)  end == at + LengthAt(m, at)
  IN  CASE op = 203 -> Cb(m, at, end)
        [] op = 237 -> Ed(m, at, end)
        [] op = 221 -> Idx(m, at, "IX", end)
        [] op = 253 -> Idx(m, at, "IY", end)
        [] OTHER -> Insn(m, at, end, (at + 2 + Signed(View(m, at + 1))) % 65536)
=============================================================================
