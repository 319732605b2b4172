---------------------------- MODULE VideoCommand ----------------------------
(* The video chip's command engine, vdpcmd.go: what writing register 46    *)
(* does to the chip, and what each byte of a transfer does. The chip is a  *)
(* record; the operators here take one and give the one the code leaves.   *)
(* Video memory is the bytes written so far: what was never written is 0.  *)
EXTENDS Bits, Sequences, FiniteSets, TLC

-----------------------------------------------------------------------------
(* Where things are in video memory. *)

Size(chip) == IF chip.v9938 THEN 131072 ELSE 16384

(* Bits 1 to 3 of register 0, unless register 1 says one of two others.    *)
BitmapOrTile == <<"Graphic1", "Graphic2", "Graphic3", "Graphic4",
                  "Graphic5", "Graphic6", "Graphic5", "Graphic7">>
Mode(chip) ==
  IF Bit(chip.reg[1], 4) THEN "Text"
  ELSE IF Bit(chip.reg[1], 3) THEN "Multicolour"
  ELSE BitmapOrTile[((chip.reg[0] \div 2) % 8) + 1]

Interleaved(chip) == Mode(chip) \in {"Graphic6", "Graphic7"}

(* phys: the wide modes take bit 0 of an address for its bank. The or of   *)
(* the bank into an address that already has the bit leaves it.            *)
Phys(chip, a) ==
  LET half == (a \div 2) % 131072
      banked == IF a % 2 = 1 /\ half < 65536 THEN half + 65536 ELSE half
  IN  (IF Interleaved(chip) THEN banked ELSE a) % Size(chip)

Held(vram, p) == IF p \in DOMAIN vram THEN vram[p] ELSE 0
Peek(chip, a) == Held(chip.vram, Phys(chip, a))
Stored(vram, p, b) == [q \in DOMAIN vram \cup {p} |-> IF q = p THEN b ELSE vram[q]]
Poke(chip, a, b) == [chip EXCEPT !.vram = Stored(@, Phys(chip, a), b)]

PixelsPerByte(chip) ==
  CASE Mode(chip) = "Graphic5" -> 4 [] Mode(chip) = "Graphic7" -> 1 [] OTHER -> 2
BytesPerLine(chip) == IF Interleaved(chip) THEN 256 ELSE 128
DotsPerLine(chip) == BytesPerLine(chip) * PixelsPerByte(chip)

ByteAt(chip, x, y) == y * BytesPerLine(chip) + (x % BytesPerLine(chip))

(* pixelAt: the byte, the weight of the pixel's lowest bit, its values. *)
PixelByteSpills(chip, x, y) == y * BytesPerLine(chip) + x \div PixelsPerByte(chip)
PixelByte(chip, x, y) ==
  y * BytesPerLine(chip) + (x % DotsPerLine(chip)) \div PixelsPerByte(chip)
PixelWeight(chip, x) ==
  LET n == PixelsPerByte(chip) IN 2 ^ ((n - 1 - (x % n)) * (8 \div n))
PixelValues(chip) == 2 ^ (8 \div PixelsPerByte(chip))

GetPixel(chip, x, y) ==
  (Peek(chip, PixelByte(chip, x, y)) \div PixelWeight(chip, x)) % PixelValues(chip)

(* logic: bit 3 leaves the destination alone where the source byte is 0. *)
Logic(dst, src, op) ==
  IF Bit(op, 3) /\ src = 0 THEN dst
  ELSE CASE op % 8 = 1 -> BitAnd(dst, src)
         [] op % 8 = 2 -> BitOr(dst, src)
         [] op % 8 = 3 -> BitXor(dst, src)
         [] op % 8 = 4 -> 255 - src
         [] OTHER -> src

SetPixel(chip, x, y, colour, op) ==
  LET at == PixelByte(chip, x, y)
      old == GetPixel(chip, x, y)
      new == Logic(old, colour, op) % PixelValues(chip)
  IN  Poke(chip, at, Peek(chip, at) + (new - old) * PixelWeight(chip, x))

-----------------------------------------------------------------------------
(* A transfer with the processor, a byte at a time. *)

NoTransfer == [dir |-> "None", whole |-> FALSE, x0 |-> 0, x |-> 0, y |-> 0,
               i |-> 0, j |-> 0, nx |-> 0, ny |-> 0, sx |-> 0, sy |-> 0, op |-> 0]

StartXfer(chip, dir, whole, x, y, nx, ny, sx, sy, op) ==
  [chip EXCEPT !.xfer = [dir |-> dir, whole |-> whole, x0 |-> x, x |-> x, y |-> y,
                         i |-> 0, j |-> 0, nx |-> nx, ny |-> ny,
                         sx |-> sx, sy |-> sy, op |-> op]]

XferStepOn(t) ==
  IF t.i + 1 < t.nx THEN [t EXCEPT !.i = t.i + 1, !.x = t.x + t.sx]
  ELSE [t EXCEPT !.i = 0, !.j = t.j + 1, !.y = t.y + t.sy,
                 !.dir = IF t.j + 1 < t.ny THEN @ ELSE "None"]
XferStep(t) ==
  CASE t.i + 1 < t.nx -> [t EXCEPT !.i = t.i + 1, !.x = t.x + t.sx]
    [] t.i + 1 >= t.nx /\ t.j + 1 < t.ny ->
         [t EXCEPT !.i = 0, !.x = t.x0, !.j = t.j + 1, !.y = t.y + t.sy]
    [] OTHER -> [t EXCEPT !.i = 0, !.x = t.x0, !.j = t.j + 1, !.y = t.y + t.sy,
                          !.dir = "None"]

XferWrite(chip, b) ==
  LET t == chip.xfer
      put == IF t.whole THEN Poke(chip, ByteAt(chip, t.x, t.y), b)
             ELSE SetPixel(chip, t.x, t.y, b, t.op)
  IN  [put EXCEPT !.xfer = XferStep(t)]

XferByte(chip) ==
  LET t == chip.xfer
  IN  IF t.whole THEN Peek(chip, ByteAt(chip, t.x, t.y)) ELSE GetPixel(chip, t.x, t.y)
XferRead(chip) == [chip EXCEPT !.xfer = XferStep(chip.xfer)]

-----------------------------------------------------------------------------
(* Registers 32 to 46 as Execute reads them. Lengths of zero are the       *)
(* longest there are; Cut is dots into bytes.                              *)
Pair16(reg, r) == reg[r] + 256 * reg[r + 1]

Block(chip) ==
  LET reg == chip.reg
      OrAll(n, all) == IF n = 0 THEN all ELSE n
  IN  [sx |-> Pair16(reg, 32) % 512, sy |-> Pair16(reg, 34) % 1024,
       dx |-> Pair16(reg, 36) % 512, dy |-> Pair16(reg, 38) % 1024,
       nx |-> OrAll(Pair16(reg, 40) % 512, 512),
       ny |-> OrAll(Pair16(reg, 42) % 1024, 1024),
       stepX |-> IF Bit(reg[45], 3) THEN -1 ELSE 1,
       stepY |-> IF Bit(reg[45], 2) THEN -1 ELSE 1,
       swap |-> Bit(reg[45], 0), clr |-> reg[44]]

Cut(chip, dots) == dots \div PixelsPerByte(chip)
CutLength(chip, dots) ==
  IF Cut(chip, dots) = 0 THEN 1 ELSE Cut(chip, dots)

(* One rectangle, line by line, by what is done at the k-th column of the  *)
(* j-th line.                                                              *)
Rectangle(chip, nx, ny, Do(_, _, _)) ==
  Repeat(chip, nx * ny, LAMBDA c, k : Do(c, k % nx, k \div nx))

FillPixels(chip, p, op) ==
  Rectangle(chip, p.nx, p.ny, LAMBDA c, i, j :
    SetPixel(c, p.dx + i * p.stepX, p.dy + j * p.stepY, p.clr, op))

CopyPixels(chip, p, op) ==
  Rectangle(chip, p.nx, p.ny, LAMBDA c, i, j :
    SetPixel(c, p.dx + i * p.stepX, p.dy + j * p.stepY,
             GetPixel(c, p.sx + i * p.stepX, p.sy + j * p.stepY), op))

FillBytes(chip, p) ==
  Rectangle(chip, CutLength(chip, p.nx), p.ny, LAMBDA c, i, j :
    Poke(c, ByteAt(c, Cut(c, p.dx) + i * p.stepX, p.dy + j * p.stepY), p.clr))

(* HMMM from column from, and YMMM with the column it writes. *)
CopyBytes(chip, p, from) ==
  Rectangle(chip, CutLength(chip, p.nx), p.ny, LAMBDA c, i, j :
    Poke(c, ByteAt(c, Cut(c, p.dx) + i * p.stepX, p.dy + j * p.stepY),
         Peek(c, ByteAt(c, Cut(c, from) + i * p.stepX, p.sy + j * p.stepY))))

(* LINE: the error term carries into the short axis. *)
Line(chip, p, op) ==
  Repeat([chip |-> chip, x |-> p.dx, y |-> p.dy, e |-> 0], p.nx + 1,
    LAMBDA s, k :
      LET over == s.e + p.ny >= p.nx
          alongX == ~p.swap \/ over
          alongY == p.swap \/ over
      IN  [chip |-> SetPixel(s.chip, s.x, s.y, p.clr, op),
           x |-> IF alongX THEN s.x + p.stepX ELSE s.x,
           y |-> IF alongY THEN s.y + p.stepY ELSE s.y,
           e |-> s.e + p.ny - (IF over THEN p.nx ELSE 0)]).chip

(* SRCH walks from sx to an edge of the line for a dot that is, or with    *)
(* the argument's bit is not, the colour.                                  *)
Search(chip, p) ==
  LET hits == {x \in 0..DotsPerLine(chip) - 1 :
                 /\ (x - p.sx) * p.stepX >= 0
                 /\ (GetPixel(chip, x, p.sy) = p.clr) = ~p.swap}
      off == IF p.sx >= DotsPerLine(chip) THEN p.sx
             ELSE IF p.stepX = 1 THEN DotsPerLine(chip) ELSE -1
      stop == IF hits = {} \/ p.sx >= DotsPerLine(chip) THEN off
              ELSE CHOOSE x \in hits : \A o \in hits : (o - x) * p.stepX >= 0
  IN  [chip EXCEPT !.stat8 = stop % 256, !.stat9 = (stop \div 256) % 2,
                   !.found = stop # off]

Point(chip, p) ==
  LET colour == GetPixel(chip, p.sx, p.sy)
  IN  [chip EXCEPT !.stat7 = colour, !.reg[44] = colour]

(* LMMC and HMMC: the byte register 44 holds is the first. The mutant       *)
(* waits for the next write instead.                                       *)
TakeBytesWaiting(chip, p, whole, x, nx, op) ==
  StartXfer(chip, "In", whole, x, p.dy, nx, p.ny, p.stepX, p.stepY, op)
TakeBytes(chip, p, whole, x, nx, op) ==
  XferWrite(StartXfer(chip, "In", whole, x, p.dy, nx, p.ny, p.stepX, p.stepY, op), p.clr)

(* What the command does to the memory and the registers; the kinds the    *)
(* engine does not know do nothing.                                        *)
DoneBy(chip, p, kind, op) ==
  CASE kind = 0 -> [chip EXCEPT !.xfer.dir = "None"]
    [] kind = 4 -> Point(chip, p)
    [] kind = 5 -> SetPixel(chip, p.dx, p.dy, p.clr, op)
    [] kind = 6 -> Search(chip, p)
    [] kind = 7 -> Line(chip, p, op)
    [] kind = 8 -> FillPixels(chip, p, op)
    [] kind = 9 -> CopyPixels(chip, p, op)
    [] kind = 10 -> StartXfer(chip, "Out", FALSE, p.sx, p.sy, p.nx, p.ny,
                              p.stepX, p.stepY, op)
    [] kind = 11 -> TakeBytes(chip, p, FALSE, p.dx, p.nx, op)
    [] kind = 12 -> FillBytes(chip, p)
    [] kind = 13 -> CopyBytes(chip, p, p.sx)
    [] kind = 14 -> CopyBytes(chip, p, p.dx)
    [] kind = 15 -> TakeBytes(chip, p, TRUE, Cut(chip, p.dx),
                              CutLength(chip, p.nx), op)
    [] OTHER -> chip

Done(chip, cmd) == DoneBy(chip, Block(chip), cmd \div 16, cmd % 16)

(* The kinds that cost memory accesses; how long is left out. *)
Timed == {4, 5, 7, 8, 9, 12, 13, 14}

(* Execute: the command, then the busy time unless a transfer is on. *)
Execute(chip, cmd) ==
  LET done == Done(chip, cmd)
      idle == done.xfer.dir = "None"
  IN  [done EXCEPT !.reg[46] = 0,
                   !.working = @ \/ (idle /\ (cmd \div 16) \in Timed)]

Busy(chip) == chip.xfer.dir # "None" \/ chip.working
=============================================================================
