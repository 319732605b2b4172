------------------------------ MODULE MCEngines -----------------------------
(* Programs for the two engines: every opcode by itself, translated; five  *)
(* routines called as a handler is; and four main threads cut into frames. *)
EXTENDS Engines

Code(at, bytes) == [a \in at..at + Len(bytes) - 1 |-> bytes[a - at + 1]]
AllFlags(b) == [s |-> b, z |-> b, h |-> b, p |-> b, n |-> b, c |-> b]
Keys == [k \in 0..15 |-> 255 - k]
Stack == 57600   \* E100h
Ram == 57344     \* E000h

Blank(rom, mem) ==
  [r |-> [A |-> 154, B |-> 1, C |-> 170, D |-> 224, E |-> 24, H |-> 224, L |-> 16,
          IXH |-> 224, IXL |-> 32, IYH |-> 224, IYL |-> 48],
   r2 |-> [A |-> 10, B |-> 11, C |-> 12, D |-> 13, E |-> 14, H |-> 15, L |-> 16],
   f |-> AllFlags(FALSE), f2 |-> AllFlags(TRUE), pc |-> 16384, sp |-> Stack,
   iff |-> FALSE, im |-> 1, refresh |-> 0, rom |-> rom, mem |-> mem,
   slot |-> 212, ppi |-> 83, keys |-> Keys, sent |-> <<>>]
Program(name, main, level, labels, machine) ==
  [name |-> name, main |-> main, level |-> level, labels |-> labels, stale |-> FALSE,
   machine |-> machine]

-----------------------------------------------------------------------------
(* One instruction, then a jump to itself; jumps go to another at 4010h.   *)
(* Left out: what the two engines do differently, and halt and restarts.   *)

Waiting == <<24, 254>>
Operand(op) ==
  IF Wide(op) THEN IF op >= 192 THEN <<16, 64>> ELSE <<32, 224>>
  ELSE IF op \in {211, 219} THEN <<170>>
  ELSE IF Narrow(op) THEN <<14>> ELSE <<>>
Restarts == {op \in 192..255 : op % 8 = 7}
Odd == {118, 203, 221, 237, 253} \cup Restarts
RelativeJumps == {16, 24, 32, 40, 48, 56}
EdSame == Blocks \cup {68} \cup
  {op \in 64..127 : \/ op % 8 \in {1, 2, 3, 5}
                    \/ op \in {70, 86, 94, 118, 71, 79, 103, 111}}
CbIndexed == {op \in 0..255 : op % 8 = 6 \/ op \in 64..127}

OneByte == {<<op>> \o Operand(op) : op \in 0..255 \ Odd}
Shifts == {<<203, op>> : op \in 0..255}
Extended == {<<237, op>> \o (IF EdLong(op) THEN <<32, 224>> ELSE <<>>) : op \in EdSame}
Indexed_ == {<<x, op>> \o (IF NeedsD(op) THEN <<14>> ELSE <<>>) \o Operand(op) :
               x \in IndexPrefixes, op \in 0..255 \ (Odd \cup RelativeJumps)}
ShiftsIndexed == {<<x, 203, 242, op>> : x \in IndexPrefixes, op \in CbIndexed}
Single == OneByte \cup Shifts \cup Extended \cup Indexed_ \cup ShiftsIndexed

ProbeRom(bytes) == Code(16384, bytes \o Waiting) @@ Code(16400, Waiting)
Probe(bytes) ==
  Program("one", FALSE, Stack, {16384, 16384 + Len(bytes), 16400},
          Blank(ProbeRom(bytes), Code(Ram + 40, <<129, 66, 37>>)))
(* The same with every flag set and the pairs pointing into the program.   *)
InRom(p) ==
  [p EXCEPT !.machine.f = AllFlags(TRUE), !.machine.r =
     [x \in Registers |-> CASE x \in {"H", "IXH", "IYH"} -> 64
                            [] x \in {"L", "IXL", "IYL"} -> 16 [] OTHER -> @[x]]]
(* Three steps of a block instruction: BC is 3, or B alone, to port 170.   *)
Three(p, op) ==
  [p EXCEPT !.machine.r["B"] = IF op % 4 < 2 THEN 0 ELSE 3,
            !.machine.r["C"] = IF op % 4 < 2 THEN 3 ELSE 170]
Counted(bytes) ==
  IF bytes[1] = 237 /\ bytes[2] \in Blocks THEN Three(Probe(bytes), bytes[2]) ELSE Probe(bytes)
(* A jump to where a pair points is for the machine whose pairs point home. *)
JumpsToPair(bytes) == \E k \in 1..2 : k <= Len(bytes) /\ bytes[k] = 233 /\ bytes[1] # 203
Probes == {Counted(b) : b \in {x \in Single : ~JumpsToPair(x)}}
            \cup {InRom(Counted(b)) : b \in Single}

-----------------------------------------------------------------------------
(* Programs, cut into translated and untranslated in several ways.         *)

Cuts(s) == {s, {}} \cup {s \ {x} : x \in s} \cup {{y \in s : y < x} : x \in s}
Off(s) == {16384 + x : x \in s}

(* HL := H * E, by shifts and sums. *)
Product == <<22, 0, 106, 6, 8, 41, 48, 1, 25, 16, 250, 201>>
ProductStarts == Off({0, 2, 3, 5, 6, 8, 9, 11})
ProductPrograms ==
  {Program("product", FALSE, Stack, s,
     [Blank(Code(16384, Product), <<>>) EXCEPT !.r["H"] = hd[1], !.r["E"] = hd[2]]) :
     s \in Cuts(ProductStarts), hd \in {<<255, 255>>, <<129, 2>>}}

(* Adds a decimal number of three bytes at E010h to the one at E000h.      *)
Score == <<17, 0, 224, 33, 16, 224, 6, 3, 183,
           26, 142, 39, 18, 35, 19, 16, 248, 201>>
ScoreStarts == Off({0, 3, 6, 8, 9, 10, 11, 12, 13, 14, 15, 17})
Bcd(v) == 16 * (v \div 10) + (v % 10)
Decimal(at, v) == Code(at, <<Bcd(v % 100), Bcd((v \div 100) % 100), Bcd(v \div 10000)>>)
Sums == {<<99, 1>>, <<123456, 876544>>}
ScorePrograms ==
  {Program("score", FALSE, Stack, s,
     Blank(Code(16384, Score), Decimal(Ram, xy[1]) @@ Decimal(Ram + 16, xy[2]))) :
     s \in Cuts(ScoreStarts), xy \in Sums}

(* Fills E000h to E004h with its first byte, moves E010h to E012h up by    *)
(* two, looks for the byte at E011h, sends three to the video chip.        *)
Copies == <<33, 0, 224, 17, 1, 224, 1, 4, 0, 237, 176,
            33, 18, 224, 17, 20, 224, 1, 3, 0, 237, 184,
            58, 17, 224, 33, 16, 224, 1, 8, 0, 237, 177,
            34, 32, 224, 33, 16, 224, 6, 3, 14, 152, 237, 179, 201>>
CopyStarts == Off({0, 3, 6, 9, 11, 14, 17, 20, 22, 25, 28, 31, 33, 36, 39, 41, 43, 45})
Found == Code(Ram, <<7>>) @@ Code(Ram + 16, <<1, 2, 3>>)
CopyPrograms ==
  {Program("copies", FALSE, Stack, s, Blank(Code(16384, Copies), Found)) :
     s \in Cuts(CopyStarts)}

(* A handler that takes the frame it was called with off the stack itself. *)
Handler == <<225, 58, 0, 224, 60, 50, 0, 224, 225, 201>>
HandlerStarts == Off({0, 1, 4, 5, 8, 9})
HandlerPrograms ==
  {[Program("handler", FALSE, Stack, s,
      [Blank(Code(16384, Handler), Code(Stack - 4, <<52, 18, 255, 255>>))
         EXCEPT !.sp = Stack - 4])
      EXCEPT !.stale = st] : s \in Cuts(HandlerStarts), st \in BOOLEAN}

(* A routine that sends itself to one of two others by a table after the   *)
(* call, one of which asks the BIOS something.                             *)
Dispatcher ==
  Code(16384, <<205, 6, 64, 24, 251, 0, 58, 0, 224, 230, 1, 205, 18, 64, 30, 64, 36, 64,
                135, 225, 95, 22, 0, 25, 94, 35, 86, 235, 233, 0,
                33, 0, 224, 52, 201, 0, 205, 144, 0, 50, 1, 224, 195, 30, 64>>)
DispatcherStarts ==
  Off({0, 3, 6, 9, 11, 18, 19, 20, 21, 23, 24, 25, 26, 27, 28, 30, 33, 34, 36, 39, 42})
(* A routine that every other time returns to its caller's caller, through *)
(* a jump into the BIOS; otherwise its caller leaves by the disk system.   *)
Unwinder ==
  Code(16384, <<205, 5, 64, 24, 251, 205, 13, 64, 195, 125, 243, 0, 0,
                33, 0, 224, 52, 203, 70, 200, 225, 195, 144, 0>>)
UnwinderStarts == Off({0, 3, 5, 8, 13, 16, 17, 19, 20, 21})
(* A routine that calls itself three deep. *)
Recursive ==
  Code(16384, <<6, 3, 205, 7, 64, 24, 249, 16, 1, 201, 205, 7, 64, 12, 201>>)
RecursiveStarts == Off({0, 2, 5, 7, 9, 10, 13, 14})
(* A game loop inside a routine the main thread calls and never leaves.    *)
Loop == Code(16384, <<205, 3, 64, 205, 8, 64, 24, 251, 33, 0, 224, 52, 201>>)
LoopStarts == Off({0, 3, 6, 8, 11, 12})

Main(name, rom, starts) ==
  {Program(name, TRUE, 0, s, Blank(rom, <<>>)) : s \in Cuts(starts)}

MCPrograms ==
  UNION {Probes, ProductPrograms, ScorePrograms, CopyPrograms, HandlerPrograms,
         Main("dispatcher", Dispatcher, DispatcherStarts),
         Main("unwinder", Unwinder, UnwinderStarts),
         Main("recursive", Recursive, RecursiveStarts), Main("loop", Loop, LoopStarts)}
MCBudgets == {5, 12, 26}

-----------------------------------------------------------------------------
(* What the routines are for, once they are back.                          *)

Number(at) ==
  LET two(b) == 10 * (b \div 16) + (b % 16)
  IN  two(Rd(m, at)) + 100 * two(Rd(m, at + 1)) + 10000 * two(Rd(m, at + 2))
Given == program.machine
Bytes(at, n) == [k \in 1..n |-> Rd(m, at + k - 1)]

(* Multiplying by shifts, adding decimal numbers with a carry from byte to *)
(* byte, and the block instructions where source and destination overlap,  *)
(* give the product, the sum and the copy, whichever engine runs each      *)
(* instruction (machine.go:723-973).                                       *)
ResultsAreRight ==
  Top.eng = "returned" =>
    CASE program.name = "product" -> Pair(m, "HL") = Given.r["H"] * Given.r["E"]
      [] program.name = "score" ->
           \E xy \in Sums : /\ Given.mem = Decimal(Ram, xy[1]) @@ Decimal(Ram + 16, xy[2])
                            /\ Number(Ram) = (xy[1] + xy[2]) % 1000000
                            /\ m.f.c = (xy[1] + xy[2] > 999999)
      [] program.name = "copies" ->
           /\ Bytes(Ram, 5) = <<7, 7, 7, 7, 7>> /\ Bytes(Ram + 16, 5) = <<1, 2, 1, 2, 3>>
           /\ Rd16(m, Ram + 32) = Ram + 18 /\ m.r["B"] = 0
           /\ m.sent = <<<<152, 1>>, <<152, 2>>, <<152, 1>>>>
      [] program.name = "handler" -> Pair(m, "HL") = 4660 /\ Rd(m, Ram) = 1
      [] OTHER -> TRUE

(* The arithmetic itself, asked once: in the state a blank machine is in.  *)
Once == program.name = "score" /\ Labels = {} /\ m.pc = 16384
With(a, c) == [Given EXCEPT !.r["A"] = a, !.f.c = c = 1]

(* daa after add and after sub gives decimal sums and differences, carries *)
(* and borrows among them (machine.go:687-709).                            *)
SumsAreDecimal ==
  Once => \A x, y \in 0..99, c \in {0, 1} :
    /\ LET n == Daa(Addc(With(Bcd(x), c), Bcd(y), c))
       IN  n.r["A"] = Bcd((x + y + c) % 100) /\ n.f.c = (x + y + c > 99)
    /\ LET n == Daa(Subc(With(Bcd(x), c), Bcd(y), c))
       IN  n.r["A"] = Bcd((x + 200 - y - c) % 100) /\ n.f.c = (x < y + c)

(* The flags order numbers: C after a comparison is less without sign, S   *)
(* and P apart less with sign, of bytes and of words; a word taken away at *)
(* once sets them as its bytes one after the other do; and inc and dec set *)
(* what adding and taking one does, but for the carry.                     *)
Edges == {0, 1, 2, 15, 16, 127, 128, 129, 240, 254, 255}
Words == {x * 256 + y : x, y \in {0, 1, 127, 128, 255}}
Signed16(v) == IF v >= 32768 THEN v - 65536 ELSE v
Common(f) == <<f.s, f.h, f.p, f.n, f.c>>
OrdersAreSigned ==
  Once =>
    /\ \A a, n \in Edges :
         LET f == Cp(With(a, 0), n).f
         IN  f.c = (a < n) /\ f.z = (a = n) /\ (f.s # f.p) = (Signed(a) < Signed(n))
    /\ \A v, n \in Words, c \in {0, 1} :
         LET word == SbcHL(SetPair(With(0, c), "HL", v), n)
             lower == Subc(With(Low(v), c), Low(n), c)
             upper == Subc(With(High(v), c), High(n), AsNumber(lower.f.c))
             sum == AdcHL(SetPair(With(0, c), "HL", v), n)
             under == Addc(With(Low(v), c), Low(n), c)
             over == Addc(With(High(v), c), High(n), AsNumber(under.f.c))
         IN  /\ (word.f.s # word.f.p) = (Signed16(v) - Signed16(n) - c < 0)
             /\ Common(word.f) = Common(upper.f) /\ Common(sum.f) = Common(over.f)
             /\ Pair(word, "HL") = 256 * upper.r["A"] + lower.r["A"]
             /\ Pair(sum, "HL") = 256 * over.r["A"] + under.r["A"]
    /\ \A a \in 0..255 :
         /\ Inc8(With(a, 0), A).f = [Addc(With(a, 0), 1, 0).f EXCEPT !.c = FALSE]
         /\ Dec8(With(a, 0), A).f = [Subc(With(a, 0), 1, 0).f EXCEPT !.c = FALSE]

(* Shifts of a word by way of the carry double and halve it, with sign and *)
(* without; eight turns of a byte, nine through the carry, and three of    *)
(* the digits of A and a byte, give back what was there.                   *)
Shift(m0, first, k1, then, k2) == Rot(Rot(m0, k1, first, None), k2, then, None)
Turns(m0, n, k) == Repeat(m0, n, LAMBDA n0, j : Rot(n0, k, A, None))
ShiftsAreProducts ==
  Once =>
    /\ \A v \in Words :
         LET n == SetPair(With(0, 1), "HL", v)
             double == Shift(n, Reg("L"), 4, Reg("H"), 2)
             half == Shift(n, Reg("H"), 7, Reg("L"), 3)
             signed == Shift(n, Reg("H"), 5, Reg("L"), 3)
         IN  /\ Pair(double, "HL") = (2 * v) % 65536 /\ double.f.c = (v > 32767)
             /\ Pair(half, "HL") = v \div 2 /\ half.f.c = (v % 2 = 1)
             /\ Signed16(Pair(signed, "HL")) = Signed16(v) \div 2
    /\ \A a \in Edges, c \in {0, 1} :
         LET n == [With(a, c) EXCEPT !.mem = Code(57360, <<75>>)]
         IN  /\ \A k \in {0, 1} : Turns(n, 8, k).r["A"] = a
             /\ \A k \in {2, 3} :
                  LET t == Turns(n, 9, k) IN t.r["A"] = a /\ t.f.c = n.f.c
             /\ Rld(Rld(Rld(n))).r = n.r /\ Rld(Rld(Rld(n))).mem = n.mem
             /\ Rrd(Rld(n)).r = n.r /\ Rrd(Rld(n)).mem = n.mem

(* The processor computes what its users compute with it.                  *)
ArithmeticIsRight ==
  ResultsAreRight /\ SumsAreDecimal /\ OrdersAreSigned /\ ShiftsAreProducts
=============================================================================
