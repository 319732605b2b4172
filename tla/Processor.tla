------------------------------ MODULE Processor -----------------------------
(* The Z80's registers, flags and arithmetic, machine.go: the helpers both *)
(* the interpreter and the translated code are made of. The machine is a   *)
(* record m; an operator takes one and gives the one the code leaves.      *)
(*   r, r2     the byte registers, IX and IY by halves, and the other set  *)
(*   f, f2     the six flags the machine keeps, and the other set          *)
(*   pc, sp, iff, im, refresh                                              *)
(*   rom, mem  the bytes of the cartridge, and those written to memory     *)
(*   slot, ppi, keys, sent   the ports, and what was sent to the devices   *)
EXTENDS Bits, Sequences, TLC

Low(v) == v % 256
High(v) == v \div 256
Signed(b) == IF b >= 128 THEN b - 256 ELSE b
Negative(b) == b >= 128
Even(b) == (BitOf(b, 0) + BitOf(b, 1) + BitOf(b, 2) + BitOf(b, 3)
              + BitOf(b, 4) + BitOf(b, 5) + BitOf(b, 6) + BitOf(b, 7)) % 2 = 0
AsNumber(b) == IF b THEN 1 ELSE 0

-----------------------------------------------------------------------------
(* Memory without holes, mapper or sound cartridge. *)

Rd(m, at) ==
  LET a == at % 65536
  IN  IF a \in DOMAIN m.rom THEN m.rom[a]
      ELSE IF a \in DOMAIN m.mem THEN m.mem[a] ELSE 0
Rd16(m, a) == Rd(m, a) + 256 * Rd(m, a + 1)

IsRom(m, a) == \E x \in DOMAIN m.rom : x \div 8192 = a \div 8192
Wr(m, a, b) == IF IsRom(m, a) THEN m ELSE [m EXCEPT !.mem = (a :> b) @@ @]
Wr16(m, a, v) == Wr(Wr(m, a, Low(v)), (a + 1) % 65536, High(v))

Push(m, v) ==
  LET sp == (m.sp + 65534) % 65536 IN Wr16([m EXCEPT !.sp = sp], sp, v)
Popped(m) == [m EXCEPT !.sp = (@ + 2) % 65536]

-----------------------------------------------------------------------------
(* Registers, pairs and flags. *)

Halves == [BC |-> <<"B", "C">>, DE |-> <<"D", "E">>, HL |-> <<"H", "L">>,
           IX |-> <<"IXH", "IXL">>, IY |-> <<"IYH", "IYL">>]
Registers == {"A", "B", "C", "D", "E", "H", "L", "IXH", "IXL", "IYH", "IYL"}
Others == {"A", "B", "C", "D", "E", "H", "L"}

FlagByte(f) ==
  128 * AsNumber(f.s) + 64 * AsNumber(f.z) + 16 * AsNumber(f.h)
    + 4 * AsNumber(f.p) + 2 * AsNumber(f.n) + AsNumber(f.c)
FlagsOf(b) == [s |-> Bit(b, 7), z |-> Bit(b, 6), h |-> Bit(b, 4),
               p |-> Bit(b, 2), n |-> Bit(b, 1), c |-> Bit(b, 0)]

Pair(m, x) ==
  CASE x = "none" -> 0
    [] x = "SP" -> m.sp
    [] x = "AF" -> 256 * m.r["A"] + FlagByte(m.f)
    [] OTHER -> 256 * m.r[Halves[x][1]] + m.r[Halves[x][2]]
SetPair(m, x, v) ==
  CASE x = "SP" -> [m EXCEPT !.sp = v]
    [] x = "AF" -> [m EXCEPT !.r["A"] = High(v), !.f = FlagsOf(Low(v))]
    [] OTHER -> [m EXCEPT !.r[Halves[x][1]] = High(v), !.r[Halves[x][2]] = Low(v)]

ExAF(m) == [m EXCEPT !.r["A"] = m.r2["A"], !.r2["A"] = m.r["A"],
                     !.f = m.f2, !.f2 = m.f]
Exx(m) ==
  LET six == {"B", "C", "D", "E", "H", "L"}
  IN  [m EXCEPT !.r = [x \in Registers |-> IF x \in six THEN m.r2[x] ELSE m.r[x]],
                !.r2 = [x \in Others |-> IF x \in six THEN m.r[x] ELSE m.r2[x]]]
ExDEHL(m) == SetPair(SetPair(m, "DE", Pair(m, "HL")), "HL", Pair(m, "DE"))
ExSP(m, x) == SetPair(Wr16(m, m.sp, Pair(m, x)), x, Rd16(m, m.sp))

-----------------------------------------------------------------------------
(* What an operand is: a register, a pair, a byte of memory at a pair and  *)
(* a displacement, or a number.                                            *)

Place(kind, name, n) == [kind |-> kind, name |-> name, n |-> n]
Reg(x) == Place("register", x, 0)
Two(x) == Place("pair", x, 0)
At(x, d) == Place("memory", x, d)
Num(n) == Place("number", "none", n)
None == Num(0)

Address(m, p) == (Pair(m, p.name) + p.n + 65536) % 65536
Get(m, p) ==
  CASE p.kind = "register" -> m.r[p.name]
    [] p.kind = "memory" -> Rd(m, Address(m, p))
    [] p.kind = "number" -> p.n
Put(m, p, b) ==
  IF p.kind = "register" THEN [m EXCEPT !.r[p.name] = b] ELSE Wr(m, Address(m, p), b)
Get16(m, p) ==
  CASE p.kind = "pair" -> Pair(m, p.name)
    [] p.kind = "memory" -> Rd16(m, Address(m, p))
    [] p.kind = "number" -> p.n
Put16(m, p, v) ==
  IF p.kind = "pair" THEN SetPair(m, p.name, v) ELSE Wr16(m, Address(m, p), v)

-----------------------------------------------------------------------------
(* Eight bits. A sum or a difference is of a, n and a carry.               *)

SumFlags(a, n, carry, res) ==
  [s |-> Negative(res), z |-> res = 0, n |-> FALSE,
   h |-> (a % 16) + (n % 16) + carry > 15,
   p |-> Negative(a) = Negative(n) /\ Negative(a) # Negative(res),
   c |-> a + n + carry > 255]
(* Overflow as a sum has it. *)
DifferenceAsSum(a, n, carry, res) ==
  [s |-> Negative(res), z |-> res = 0, n |-> TRUE,
   h |-> (a % 16) - (n % 16) - carry < 0,
   p |-> Negative(a) = Negative(n) /\ Negative(a) # Negative(res),
   c |-> a - n - carry < 0]
DifferenceFlags(a, n, carry, res) ==
  [s |-> Negative(res), z |-> res = 0, n |-> TRUE,
   h |-> (a % 16) - (n % 16) - carry < 0,
   p |-> Negative(a) # Negative(n) /\ Negative(a) # Negative(res),
   c |-> a - n - carry < 0]
LogicFlags(res, half) ==
  [s |-> Negative(res), z |-> res = 0, n |-> FALSE, h |-> half, p |-> Even(res),
   c |-> FALSE]

AddcWide(m, n, carry) ==   \* into nine bits
  LET res == m.r["A"] + n + carry
  IN  [m EXCEPT !.r["A"] = res, !.f = SumFlags(m.r["A"], n, carry, res % 256)]
Addc(m, n, carry) ==
  LET res == (m.r["A"] + n + carry) % 256
  IN  [m EXCEPT !.r["A"] = res, !.f = SumFlags(m.r["A"], n, carry, res)]
Subc(m, n, carry) ==
  LET res == (m.r["A"] - n - carry + 512) % 256
  IN  [m EXCEPT !.r["A"] = res, !.f = DifferenceFlags(m.r["A"], n, carry, res)]
Logic(m, res, half) == [m EXCEPT !.r["A"] = res, !.f = LogicFlags(res, half)]
Cp(m, n) == [Subc(m, n, 0) EXCEPT !.r["A"] = m.r["A"]]

Alu(m, k, n) ==
  CASE k = 0 -> Addc(m, n, 0)
    [] k = 1 -> Addc(m, n, AsNumber(m.f.c))
    [] k = 2 -> Subc(m, n, 0)
    [] k = 3 -> Subc(m, n, AsNumber(m.f.c))
    [] k = 4 -> Logic(m, BitAnd(m.r["A"], n), TRUE)
    [] k = 5 -> Logic(m, BitXor(m.r["A"], n), FALSE)
    [] k = 6 -> Logic(m, BitOr(m.r["A"], n), FALSE)
    [] k = 7 -> Cp(m, n)

IncFlags(f, v) == [f EXCEPT !.s = v \in 127..254, !.z = v = 255, !.h = v % 16 = 15,
                            !.p = v = 127, !.n = FALSE]
DecFlags(f, v) == [f EXCEPT !.s = v = 0 \/ v > 128, !.z = v = 1, !.h = v % 16 = 0,
                            !.p = v = 128, !.n = TRUE]
Inc8(m, p) ==
  LET v == Get(m, p) IN [Put(m, p, (v + 1) % 256) EXCEPT !.f = IncFlags(m.f, v)]
Dec8(m, p) ==
  LET v == Get(m, p) IN [Put(m, p, (v + 255) % 256) EXCEPT !.f = DecFlags(m.f, v)]
Neg(m) == Subc([m EXCEPT !.r["A"] = 0], m.r["A"], 0)

-----------------------------------------------------------------------------
(* Sixteen bits. *)

Negative16(v) == v >= 32768
Add16(m, p, n) ==
  LET v == Get16(m, p)
  IN  [Put16(m, p, (v + n) % 65536) EXCEPT
         !.f.h = (v % 4096) + (n % 4096) > 4095, !.f.c = v + n > 65535, !.f.n = FALSE]
AdcHL(m, n) ==
  LET v == Pair(m, "HL")  c == AsNumber(m.f.c)  res == (v + n + c) % 65536
  IN  [SetPair(m, "HL", res) EXCEPT !.f =
         [s |-> Negative16(res), z |-> res = 0, n |-> FALSE,
          h |-> (v % 4096) + (n % 4096) + c > 4095, c |-> v + n + c > 65535,
          p |-> Negative16(v) = Negative16(n) /\ Negative16(v) # Negative16(res)]]
SbcHL(m, n) ==
  LET v == Pair(m, "HL")  c == AsNumber(m.f.c)  res == (v - n - c + 131072) % 65536
  IN  [SetPair(m, "HL", res) EXCEPT !.f =
         [s |-> Negative16(res), z |-> res = 0, n |-> TRUE,
          h |-> (v % 4096) - (n % 4096) - c < 0, c |-> v - n - c < 0,
          p |-> Negative16(v) # Negative16(n) /\ Negative16(v) # Negative16(res)]]

-----------------------------------------------------------------------------
(* Rotates, shifts and bits. *)

(* rlca, rrca, rla and rra move the carry and leave S, Z and P. *)
TurnedUnsigned(v, k, carry) ==   \* sra as srl
  CASE k = 0 -> ((2 * v) % 256) + v \div 128
    [] k = 1 -> v \div 2 + 128 * (v % 2)
    [] k = 2 -> ((2 * v) % 256) + carry
    [] k = 3 -> v \div 2 + 128 * carry
    [] k = 4 -> (2 * v) % 256
    [] k \in {5, 7} -> v \div 2
    [] k = 6 -> ((2 * v) % 256) + 1
Turned(v, k, carry) ==
  CASE k = 0 -> ((2 * v) % 256) + v \div 128         \* rlc
    [] k = 1 -> v \div 2 + 128 * (v % 2)            \* rrc
    [] k = 2 -> ((2 * v) % 256) + carry                    \* rl
    [] k = 3 -> v \div 2 + 128 * carry                     \* rr
    [] k = 4 -> (2 * v) % 256                              \* sla
    [] k = 5 -> v \div 2 + 128 * (v \div 128)              \* sra
    [] k = 6 -> ((2 * v) % 256) + 1                        \* sll
    [] k = 7 -> v \div 2                                   \* srl
CarryOut(v, k) == IF k \in {0, 2, 4, 6} THEN Negative(v) ELSE v % 2 = 1

Rot(m, k, p, copy) ==
  LET v == Get(m, p)
      res == Turned(v, k, AsNumber(m.f.c))
      out == Put(m, p, res)
      both == IF copy = None THEN out ELSE Put(out, copy, res)
  IN  [both EXCEPT !.f = [LogicFlags(res, FALSE) EXCEPT !.c = CarryOut(v, k)]]
RotA(m, k) ==
  LET v == m.r["A"]
  IN  [m EXCEPT !.r["A"] = Turned(v, k, AsNumber(m.f.c)),
                !.f.c = CarryOut(v, k), !.f.h = FALSE, !.f.n = FALSE]

TestBit(m, n, v) ==
  [m EXCEPT !.f.z = ~Bit(v, n), !.f.s = n = 7 /\ Bit(v, n), !.f.p = ~Bit(v, n),
            !.f.h = TRUE, !.f.n = FALSE]
WithBit(v, n, one) == v + ((IF one THEN 1 ELSE 0) - BitOf(v, n)) * 2 ^ n

Cpl(m) == [m EXCEPT !.r["A"] = 255 - @, !.f.h = TRUE, !.f.n = TRUE]
Scf(m) == [m EXCEPT !.f.c = TRUE, !.f.h = FALSE, !.f.n = FALSE]
Ccf(m) == [m EXCEPT !.f.h = m.f.c, !.f.c = ~m.f.c, !.f.n = FALSE]

(* What daa adds or takes: 6 for the low digit, 60h for the high one. *)
LowDigit(a, f) == f.h \/ (~f.n /\ a % 16 > 9)
HighDigitLate(a, f) == f.c \/ (~f.n /\ a > 159)   \* not from 9Ah
HighDigit(a, f) == f.c \/ (~f.n /\ a > 153)
Daa(m) ==
  LET a == m.r["A"]
      corr == (IF LowDigit(a, m.f) THEN 6 ELSE 0) + (IF HighDigit(a, m.f) THEN 96 ELSE 0)
      res == IF m.f.n THEN (a + 256 - corr) % 256 ELSE (a + corr) % 256
  IN  [m EXCEPT !.r["A"] = res, !.f =
         [LogicFlags(res, IF m.f.n THEN m.f.h /\ a % 16 < 6 ELSE a % 16 > 9)
            EXCEPT !.n = m.f.n, !.c = HighDigit(a, m.f)]]

(* rrd and rld: the digit that leaves the byte at (hl), and what it is then. *)
Digits(m, digit, byte) ==
  LET a == (m.r["A"] \div 16) * 16 + digit
  IN  [Wr(m, Pair(m, "HL"), byte) EXCEPT
         !.r["A"] = a, !.f = [LogicFlags(a, FALSE) EXCEPT !.c = m.f.c]]
Rrd(m) ==
  LET v == Rd(m, Pair(m, "HL"))
  IN  Digits(m, v % 16, v \div 16 + 16 * (m.r["A"] % 16))
Rld(m) ==
  LET v == Rd(m, Pair(m, "HL"))
  IN  Digits(m, v \div 16, (v % 16) * 16 + (m.r["A"] % 16))

-----------------------------------------------------------------------------
(* Ports. The video and sound chips are what was sent to them, in order.   *)

Devices == {152, 153, 154, 155, 160, 161}

Out(m, port, b) ==
  CASE port = 168 -> [m EXCEPT !.slot = b]
    [] port = 170 -> [m EXCEPT !.ppi = b]
    [] port = 171 -> [m EXCEPT !.ppi = WithBit(@, (b \div 2) % 8, Bit(b, 0))]
    [] port \in Devices -> [m EXCEPT !.sent = Append(@, <<port, b>>)]
    [] OTHER -> m
In(m, port) ==
  CASE port = 168 -> m.slot
    [] port = 169 -> m.keys[m.ppi % 16]
    [] port = 170 -> m.ppi
    [] OTHER -> 255

RefreshR(m) == [m EXCEPT !.refresh = (@ + 41) % 128, !.r["A"] = (m.refresh + 41) % 128]

-----------------------------------------------------------------------------
(* Block instructions: a step of one, then as many as it takes. *)

Moved(m, x, delta) == SetPair(m, x, (Pair(m, x) + delta + 65536) % 65536)

LdStep(m, delta) ==
  LET copied == Wr(m, Pair(m, "DE"), Rd(m, Pair(m, "HL")))
      moved == Moved(Moved(Moved(copied, "HL", delta), "DE", delta), "BC", -1)
  IN  [moved EXCEPT !.f.p = Pair(moved, "BC") # 0, !.f.h = FALSE, !.f.n = FALSE]
CpStep(m, delta) ==
  LET moved == Moved(Moved(Cp(m, Rd(m, Pair(m, "HL"))), "HL", delta), "BC", -1)
  IN  [moved EXCEPT !.f.p = Pair(moved, "BC") # 0]
IoStep(m, delta, out) ==
  LET done == IF out THEN Out(m, m.r["C"], Rd(m, Pair(m, "HL")))
                     ELSE Wr(m, Pair(m, "HL"), In(m, m.r["C"]))
      counted == Dec8(Moved(done, "HL", delta), Reg("B"))
  IN  [counted EXCEPT !.f.n = TRUE, !.f.z = counted.r["B"] = 0]

(* The group by its letters: which step, which way, and whether it repeats. *)
BlockStep(m, what, delta) ==
  CASE what = "ld" -> LdStep(m, delta)
    [] what = "cp" -> CpStep(m, delta)
    [] what = "in" -> IoStep(m, delta, FALSE)
    [] what = "out" -> IoStep(m, delta, TRUE)
CountedOnly(m, what) ==   \* past the byte it looks for
  IF what \in {"ld", "cp"} THEN Pair(m, "BC") = 0 ELSE m.r["B"] = 0
BlockOver(m, what) ==
  CASE what = "ld" -> Pair(m, "BC") = 0
    [] what = "cp" -> m.f.z \/ Pair(m, "BC") = 0
    [] OTHER -> m.r["B"] = 0
Times(m, what) ==
  LET n == IF what \in {"ld", "cp"} THEN Pair(m, "BC") ELSE m.r["B"]
  IN  IF n # 0 THEN n ELSE IF what \in {"ld", "cp"} THEN 65536 ELSE 256
Block(m, what, delta, repeats) ==
  LET step(at, k) == IF k > 0 /\ BlockOver(at, what) THEN at ELSE BlockStep(at, what, delta)
  IN  Repeat(m, IF repeats THEN Times(m, what) ELSE 1, step)
=============================================================================
