------------------------------- MODULE Video -------------------------------
(* The video chip as a program sees it, vdp.go: the ports, the latch the   *)
(* control port shares, the address and the byte read ahead, the registers *)
(* and what writing one means, the register log of a frame and the picture *)
(* replayed from it. A main program and its interrupt handler use it.      *)
EXTENDS VideoCommand

CONSTANTS
  FrameLines,    \* lines of the raster in a frame, blanking and all
  ShortLines,    \* lines on display
  TallLines,     \* and when register 9 asks for more
  SplitRegs,     \* the registers among those logged that programs write
  Starts,        \* what a program has made of the chip: registers and memory
  CtrlBytes, DataBytes, BiosAddrs,  \* what programs write to the ports
  RegWrites,     \* registers and bytes written through the BIOS
  Blocks         \* command blocks

ASSUME LinesAssumption ==
  /\ {FrameLines, ShortLines, TallLines} \subseteq Nat \ {0}
  /\ ShortLines < TallLines /\ TallLines < FrameLines

(* What programs hand over: bytes, numbers of registers, pairs of bytes. *)
ASSUME InputsAssumption ==
  /\ CtrlBytes \cup DataBytes \subseteq 0..255
  /\ BiosAddrs \subseteq Nat
  /\ RegWrites \subseteq (0..63) \X (0..255)
  /\ \A b \in Blocks :
       /\ \A w \in {b.sx, b.sy, b.dx, b.dy, b.nx, b.ny} : w \in Nat /\ w < 65536
       /\ {b.clr, b.arg, b.cmd} \subseteq 0..255

(* A chip as a program has it: registers, and the memory written so far.   *)
ASSUME StartsAssumption ==
  \A s \in Starts :
    /\ s.reg \in [0..63 -> 0..255]
    /\ DOMAIN s.vram \subseteq 0..Size(s) - 1
    /\ s.vram \in [DOMAIN s.vram -> 0..255]

VARIABLES
  chip,       \* registers, memory, the command engine and the register log
  port,       \* the address, the control port's latch, the byte read ahead
  raster,     \* the line the raster is on, from the vertical blank
  inHandler,  \* the interrupt handler is running
  polled,     \* and has read the status register
  owner,      \* history: who wrote the byte in the latch
  due,        \* history: the address the byte read ahead was read at
  shown,      \* history: the split registers each line was displayed with
  job,        \* history: the transfer under way and the bytes it has moved
  last,       \* history: the last command written, and whether an odd one
  colours     \* history: the levels each palette entry was set to

history == <<owner, due, shown, job, last, colours>>
vars == <<chip, port, raster, inHandler, polled, owner, due, shown, job,
          last, colours>>

NoAddr == -1
NoJob == [n |-> 0, x |-> 0, y |-> 0, nx |-> 0, ny |-> 0, sx |-> 0, sy |-> 0]
NoCommand == [kind |-> 0, op |-> 0, odd |-> FALSE]

-----------------------------------------------------------------------------
(* Registers. *)

GoV9938(c) == [c EXCEPT !.v9938 = TRUE]

Lines(c) == IF Bit(c.reg[9], 7) THEN TallLines ELSE ShortLines

(* rasterDisplayLine: the blanking comes first, and is line -1. *)
DisplayLine(c, at) ==
  LET l == (at + Lines(c)) % FrameLines IN IF l >= Lines(c) THEN -1 ELSE l

Logged == {0, 1, 2, 3, 4, 5, 6, 7, 8, 10, 11, 18, 23}
ASSUME SplitAssumption == SplitRegs \subseteq Logged

SetReg(c, r, b, at) ==
  [c EXCEPT !.reg[r] = b,
            !.log = IF r \in Logged
                    THEN Append(@, [line |-> DisplayLine(c, at), reg |-> r,
                                    old |-> c.reg[r], new |-> b])
                    ELSE @]

(* WriteReg, what the chip does; what it does to the address is Steered.   *)
WriteReg(c, r, b, at) ==
  LET set == SetReg(IF r > 7 THEN GoV9938(c) ELSE c, r, b, at)
  IN  CASE r = 46 -> Execute(set, b)
        [] r = 44 /\ set.xfer.dir = "In" -> XferWrite(set, b)
        [] OTHER -> set

Steered(p, r, b) ==
  IF r = 14 THEN [p EXCEPT !.at = (p.at % 16384) + 16384 * (b % 8)] ELSE p

(* WriteIndirect: register 17 names the register, and may step past it.    *)
(* Its value is looked at again after the write, which may have been to it.*)
WriteIndirect(c, b, at) ==
  LET r == c.reg[17] % 64
      written == WriteReg(GoV9938(c), r, b, at)
  IN  IF Bit(written.reg[17], 7) THEN written
      ELSE [written EXCEPT !.reg[17] = (r + 1) % 64]

(* level: three bits of colour over eight, and GetPalette's way back. *)
LevelInAByte(n) == ((n * 255) % 256) \div 7
Level(n) == (n * 255) \div 7
Eight(r, g, b) == <<Level(r), Level(g), Level(b)>>
GetPalette(c, i) == [k \in 1..3 |-> c.pal[i][k] \div 32]

-----------------------------------------------------------------------------
(* The address. *)

PointAt(p, at, addr) == [p EXCEPT !.at = at, !.addr = addr]

Set14(c, p, a) ==
  LET low == a % 16384
  IN  PointAt(p, (p.at - (p.at % 16384) + low) % Size(c), low)

BumpPast(c, p) == PointAt(p, p.at + 1, (p.at + 1) % 16384)
BumpAt(c, p) == PointAt(p, (p.at + 1) % Size(c), p.addr)
Bump(c, p) ==
  LET next == (p.at + 1) % Size(c) IN PointAt(p, next, next % 16384)

FetchNext(c, p) == [Bump(c, p) EXCEPT !.ahead = Peek(c, Bump(c, p).at)]
Fetch(c, p) == Bump(c, [p EXCEPT !.ahead = Peek(c, p.at)])

-----------------------------------------------------------------------------
(* The picture from the log. *)

WrappedNever(log) == log # log
Wrapped(log) == \E i \in 2..Len(log) : log[i].line < log[i - 1].line

RegsAt(c, line) ==
  LET n == Len(c.log)
  IN  Repeat(c.reg, n, LAMBDA regs, k :
        LET e == c.log[n - k]
        IN  IF e.line > line THEN [regs EXCEPT ![e.reg] = e.old] ELSE regs)

Replayed(c, y) ==
  LET landed == {i \in 1..Len(c.log) : \A j \in 1..i : c.log[j].line <= y}
  IN  Repeat(RegsAt(c, 0), Cardinality(landed), LAMBDA regs, k :
        [regs EXCEPT ![c.log[k + 1].reg] = c.log[k + 1].new])

(* scanlines: the registers line y is drawn with. *)
Drawn(c, y) == IF Wrapped(c.log) THEN c.reg ELSE Replayed(c, y)

Split(regs) == [r \in SplitRegs |-> regs[r]]

-----------------------------------------------------------------------------
Blank == [r \in 0..63 |-> 0]

FreshChip ==
  [reg |-> Blank, vram |-> << >>, v9938 |-> FALSE, xfer |-> NoTransfer,
   working |-> FALSE, stat7 |-> 0, stat8 |-> 0, stat9 |-> 0, found |-> FALSE,
   fh |-> FALSE, vblank |-> FALSE, log |-> << >>,
   pal |-> [i \in 0..15 |-> <<0, 0, 0>>], palLatch |-> 0, palHalf |-> FALSE]

FreshPort == [at |-> 0, addr |-> 0, latched |-> FALSE, first |-> 0, ahead |-> 0]

Init ==
  /\ \E s \in Starts : chip = [FreshChip EXCEPT !.reg = s.reg, !.vram = s.vram,
                                               !.v9938 = s.v9938]
  /\ port = FreshPort
  /\ raster = 0
  /\ inHandler = FALSE
  /\ polled = FALSE
  /\ owner = "None"
  /\ due = NoAddr
  /\ shown = [y \in 0..TallLines - 1 |-> {}]
  /\ job = NoJob
  /\ last = NoCommand
  /\ colours = [i \in 0..15 |-> <<0, 0, 0>>]

-----------------------------------------------------------------------------
(* The ports. A handler's first act is to read the status register, which  *)
(* is what ends the interrupt.                                             *)

Me == IF inHandler THEN "Handler" ELSE "Main"
MayUse == inHandler => polled
Elsewhere == UNCHANGED <<raster, inHandler, colours>>

(* What a register write does to the histories: a new transfer is the one  *)
(* the engine just set up, its first byte moved with it when it is inward. *)
Began(c) ==
  LET p == Block(c)
      whole == c.xfer.whole
  IN  IF c.xfer.dir = "Out"
      THEN [n |-> 0, x |-> p.sx, y |-> p.sy, nx |-> p.nx, ny |-> p.ny,
            sx |-> p.stepX, sy |-> p.stepY]
      ELSE [n |-> 1, x |-> IF whole THEN Cut(c, p.dx) ELSE p.dx, y |-> p.dy,
            nx |-> IF whole THEN CutLength(c, p.nx) ELSE p.nx, ny |-> p.ny,
            sx |-> p.stepX, sy |-> p.stepY]

Following(r, b) ==
  /\ job' = CASE r = 46 /\ b \div 16 \in {10, 11, 15} -> Began(chip')
              [] r = 46 /\ b \div 16 = 0 -> NoJob
              [] r = 44 /\ chip.xfer.dir = "In" -> [job EXCEPT !.n = @ + 1]
              [] OTHER -> job
  /\ due' = IF r \in {0, 1, 14, 44, 46} \/ chip'.v9938 # chip.v9938 THEN NoAddr ELSE due
  /\ last' = IF r = 46 THEN [kind |-> b \div 16, op |-> b % 16, odd |-> ~last.odd]
             ELSE last
  /\ UNCHANGED shown

WriteCtrl(b) ==
  /\ MayUse
  /\ Elsewhere /\ UNCHANGED polled
  /\ IF ~port.latched
     THEN /\ port' = [port EXCEPT !.first = b, !.latched = TRUE]
          /\ owner' = Me
          /\ UNCHANGED <<chip, due, shown, job, last>>
     ELSE LET r == b % 64
              shut == [port EXCEPT !.latched = FALSE]
              aimed == Set14(chip, shut, port.first + 256 * (b % 64))
          IN /\ owner' = "None"
             /\ CASE b \div 64 = 2 ->
                       /\ chip' = WriteReg(chip, r, port.first, raster)
                       /\ port' = Steered(shut, r, port.first)
                       /\ Following(r, port.first)
                  [] b \div 64 = 1 ->
                       /\ port' = aimed
                       /\ due' = NoAddr
                       /\ UNCHANGED <<chip, shown, job, last>>
                  [] OTHER ->
                       /\ port' = Fetch(chip, aimed)
                       /\ due' = aimed.at
                       /\ UNCHANGED <<chip, shown, job, last>>

WritePort9B(b) ==
  /\ MayUse
  /\ chip' = WriteIndirect(chip, b, raster)
  /\ port' = Steered(port, chip.reg[17] % 64, b)
  /\ Following(chip.reg[17] % 64, b)
  /\ Elsewhere /\ UNCHANGED <<polled, owner>>

WriteData(b) ==
  /\ MayUse
  /\ chip' = Poke(chip, port.at, b)
  /\ port' = [Bump(chip, port) EXCEPT !.latched = FALSE]
  /\ owner' = "None"
  /\ due' = NoAddr
  /\ Elsewhere /\ UNCHANGED <<polled, shown, job, last>>

ReadData ==
  /\ MayUse
  /\ port' = [Fetch(chip, port) EXCEPT !.latched = FALSE]
  /\ owner' = "None"
  /\ due' = IF due = NoAddr THEN NoAddr ELSE port.at
  /\ Elsewhere /\ UNCHANGED <<chip, polled, shown, job, last>>

UnlatchedByFirst(c, p) == IF c.reg[15] = 0 THEN [p EXCEPT !.latched = FALSE] ELSE p
Unlatched(c, p) == [p EXCEPT !.latched = FALSE]

(* ReadStatus: register 15 selects. Register 1 clears the line flag, 0 the *)
(* vertical blank's, and 7 hands over the next byte of a transfer.         *)
ReadStatus ==
  LET n == chip.reg[15] % 16
      moves == n = 7 /\ chip.xfer.dir = "Out"
  IN  /\ chip' = CASE n = 0 -> [chip EXCEPT !.vblank = FALSE]
                   [] n = 1 -> [chip EXCEPT !.fh = FALSE]
                   [] moves -> XferRead(chip)
                   [] OTHER -> chip
      /\ port' = Unlatched(chip, port)
      /\ owner' = "None"
      /\ polled' = inHandler
      /\ job' = IF moves THEN [job EXCEPT !.n = @ + 1] ELSE job
      /\ Elsewhere /\ UNCHANGED <<due, shown, last>>

(* WritePalette: the second byte of two sets the entry register 16 names   *)
(* and steps to the next. A status read does not put the first one aside.  *)
WritePalette(b) ==
  LET c == GoV9938(chip)
      i == c.reg[16] % 16
      red == (c.palLatch \div 16) % 8
      blue == c.palLatch % 8
  IN  /\ MayUse
      /\ IF ~c.palHalf
         THEN /\ chip' = [c EXCEPT !.palLatch = b, !.palHalf = TRUE]
              /\ UNCHANGED colours
         ELSE /\ chip' = [c EXCEPT !.palHalf = FALSE, !.reg[16] = (@ + 1) % 16,
                                   !.pal[i] = Eight(red, b % 8, blue)]
              /\ colours' = [colours EXCEPT ![i] = <<red, b % 8, blue>>]
      /\ due' = IF chip.v9938 THEN due ELSE NoAddr
      /\ UNCHANGED <<port, raster, inHandler, polled, owner, shown, job, last>>

(* The BIOS entries that point the chip without the ports: SetAddr keeps   *)
(* the high bits register 14 set, SetAddrFull does not.                    *)
BiosSetAddr(a, full, write) ==
  LET shut == [port EXCEPT !.latched = FALSE]
      aimed == IF full THEN PointAt(shut, a % Size(chip), (a % Size(chip)) % 16384)
               ELSE Set14(chip, shut, a)
  IN  /\ MayUse
      /\ port' = IF write THEN aimed ELSE Fetch(chip, aimed)
      /\ due' = IF write THEN NoAddr ELSE aimed.at
      /\ owner' = "None"
      /\ Elsewhere /\ UNCHANGED <<chip, polled, shown, job, last>>

(* A program writes a block of command registers and the command, with no  *)
(* transfer wanting bytes and the last command done, as it is told to.     *)
CommandWrites(b) ==
  LET bytes == <<b.sx % 256, b.sx \div 256, b.sy % 256, b.sy \div 256,
                 b.dx % 256, b.dx \div 256, b.dy % 256, b.dy \div 256,
                 b.nx % 256, b.nx \div 256, b.ny % 256, b.ny \div 256,
                 b.clr, b.arg>>
  IN  Repeat(chip, 14, LAMBDA c, k : WriteReg(c, 32 + k, bytes[k + 1], raster))

StartCommand(b) ==
  /\ MayUse
  /\ ~Busy(chip)
  /\ chip' = WriteReg(CommandWrites(b), 46, b.cmd, raster)
  /\ Following(46, b.cmd)
  /\ Elsewhere /\ UNCHANGED <<port, polled, owner>>

(* WRTVDP, and what a program that feeds a transfer does. *)
WriteRegister(r, b) ==
  /\ MayUse
  /\ chip' = WriteReg(chip, r, b, raster)
  /\ port' = Steered(port, r, b)
  /\ Following(r, b)
  /\ Elsewhere /\ UNCHANGED <<polled, owner>>

-----------------------------------------------------------------------------
(* The clock, the frame and the handler. *)

Finish ==
  /\ chip.working
  /\ chip' = [chip EXCEPT !.working = FALSE]
  /\ UNCHANGED <<port, raster, inHandler, polled>> /\ UNCHANGED history

(* The raster goes on, past the frame's end when a handler runs that long. *)
Tick ==
  /\ raster' = (raster + 1) % FrameLines
  /\ shown' = LET y == DisplayLine(chip, raster)
              IN  IF y = -1 THEN shown ELSE [shown EXCEPT ![y] = @ \cup {Split(chip.reg)}]
  /\ UNCHANGED <<chip, port, inHandler, polled, owner, due, job, last, colours>>

(* Frame: a log of its own, StartFrame's flag, and the raster at its top.  *)
StartFrame ==
  /\ ~inHandler
  /\ chip' = [chip EXCEPT !.log = << >>, !.vblank = TRUE]
  /\ raster' = 0
  /\ shown' = [y \in 0..TallLines - 1 |-> {}]
  /\ UNCHANGED <<port, inHandler, polled, owner, due, job, last, colours>>

(* StartLine: the line interrupt's flag. *)
StartLine ==
  /\ chip' = [chip EXCEPT !.fh = TRUE]
  /\ UNCHANGED <<port, raster, inHandler, polled>> /\ UNCHANGED history

Interrupt ==
  /\ ~inHandler /\ (chip.vblank \/ chip.fh)
  /\ inHandler' = TRUE
  /\ polled' = FALSE
  /\ UNCHANGED <<chip, port, raster>> /\ UNCHANGED history

Return ==
  /\ inHandler /\ polled
  /\ inHandler' = FALSE
  /\ polled' = FALSE
  /\ UNCHANGED <<chip, port, raster>> /\ UNCHANGED history

-----------------------------------------------------------------------------
Ports ==
  \/ \E b \in CtrlBytes : WriteCtrl(b)
  \/ \E b \in DataBytes : WriteData(b) \/ WritePort9B(b) \/ WritePalette(b)
  \/ ReadData \/ ReadStatus
  \/ \E a \in BiosAddrs, full, write \in BOOLEAN : BiosSetAddr(a, full, write)

Commands == Finish \/ ReadStatus \/ \E b \in Blocks : StartCommand(b)
Registers == \E w \in RegWrites : WriteRegister(w[1], w[2])
Frames == Tick \/ StartFrame
Interrupts == StartFrame \/ StartLine \/ Interrupt \/ Return

Next == Ports \/ Commands \/ Registers \/ Frames \/ Interrupts

Spec == Init /\ [][Next]_vars

-----------------------------------------------------------------------------
(* The address as a program writes it is fourteen bits. *)
Low == 0..16383

TypeOK ==
  /\ chip.reg \in [0..63 -> 0..255]
  /\ \A a \in DOMAIN chip.vram : a \in 0..Size(chip) - 1 /\ chip.vram[a] \in 0..255
  /\ port \in [at : 0..Size(chip) - 1, addr : Low, latched : BOOLEAN,
              first : 0..255, ahead : 0..255]
  /\ raster \in 0..FrameLines - 1
  /\ polled => inHandler
  /\ owner \in {"None", "Main", "Handler"} /\ (owner = "None" <=> ~port.latched)

(* The chip keeps its address twice, the fourteen bits a program wrote and *)
(* the whole of it: setAddr, bump, register 14 and the BIOS entries all    *)
(* leave the two agreeing.                                                 *)
AddressAgrees == port.addr = port.at % 16384

(* A program that points the chip at an address for reading and reads on   *)
(* gets that byte and the ones after it, whatever other ports were used in *)
(* between: the byte read ahead is the one a step behind the address.      *)
ReadsInOrder ==
  due # NoAddr => /\ port.at = (due + 1) % Size(chip)
                  /\ port.ahead = Peek(chip, due)

(* The control port's latch is shared: an interrupt can come between the   *)
(* two bytes of a program's pair. A handler that has read the status       *)
(* register, whichever one register 15 selects, never has its pairs begun  *)
(* by a byte of the program it interrupted.                                *)
HandlerPairsWhole == inHandler /\ polled /\ port.latched => owner = "Handler"

(* A palette entry reads back as the three-bit levels written to it.       *)
PaletteReadsBack == \A i \in 0..15 : GetPalette(chip, i) = colours[i]

(* Where a transfer is after n bytes is where the n-th unit of its         *)
(* rectangle is, in whichever direction it grows; it wants bytes until the *)
(* rectangle is full and no longer, through writes of register 44, reads   *)
(* of status register 7 and commands that cost nothing in between.         *)
TransferPlace ==
  IF chip.xfer.dir = "None" THEN job.n = job.nx * job.ny
  ELSE /\ job.n < job.nx * job.ny
       /\ chip.xfer.x = job.x + (job.n % job.nx) * job.sx
       /\ chip.xfer.y = job.y + (job.n \div job.nx) * job.sy

(* The picture drawn from the log of a frame shows every line with the     *)
(* registers the raster displayed it with in one of the frame's passes, or *)
(* with those of now where it has yet to pass. A log that runs backwards,  *)
(* of a handler longer than a frame, is not replayed.                      *)
LinesAreHonest ==
  ~Wrapped(chip.log) =>
    \A y \in 0..Lines(chip) - 1 :
      \/ Split(Drawn(chip, y)) \in shown[y]
      \/ DisplayLine(chip, raster) <= y /\ Split(Drawn(chip, y)) = Split(chip.reg)

(* What that asks of a program: that it change the picture's height,       *)
(* register 9, only where neither height has the raster on display.        *)
HeightInBlanking ==
  Lines(chip') # Lines(chip) =>
    DisplayLine(chip, raster) = -1 /\ DisplayLine(chip', raster) = -1

(* The ports keep what a program is in the middle of: a run of reads, a    *)
(* handler's pair, a palette entry.                                        *)
PortsInOrder == TypeOK /\ ReadsInOrder /\ HandlerPairsWhole /\ PaletteReadsBack
-----------------------------------------------------------------------------
(* What a command should draw, from the block it was given. *)

Cells(c, x, y) == <<Phys(c, y * BytesPerLine(c)
                            + (x % DotsPerLine(c)) \div PixelsPerByte(c)),
                    x % PixelsPerByte(c)>>
CellValue(c, cell) ==
  LET n == PixelsPerByte(c)
      byte == IF cell[1] \in DOMAIN c.vram THEN c.vram[cell[1]] ELSE 0
  IN  (byte \div (2 ^ ((n - 1 - cell[2]) * (8 \div n)))) % 2 ^ (8 \div n)

(* The dots of a rectangle nx wide, in the order they are drawn. A command *)
(* of whole bytes draws from and to the start of a byte.                   *)
Dots(c, p, whole, fromX, fromY) ==
  LET n == PixelsPerByte(c)
      wide == IF whole THEN n * CutLength(c, p.nx) ELSE p.nx
      x0 == IF ~whole THEN fromX
            ELSE fromX - (fromX % n) + (IF p.stepX = 1 THEN 0 ELSE n - 1)
  IN  [k \in 0..wide * p.ny - 1 |->
         Cells(c, x0 + (k % wide) * p.stepX, fromY + (k \div wide) * p.stepY)]

LineDots(c, p) ==
  [k \in 0..p.nx |->
     LET short == (k * p.ny) \div p.nx
     IN  IF p.swap THEN Cells(c, p.dx + short * p.stepX, p.dy + k * p.stepY)
         ELSE Cells(c, p.dx + k * p.stepX, p.dy + short * p.stepY)]

Image(f) == {f[k] : k \in DOMAIN f}

(* The command's dots are drawn with the operation it names and no other   *)
(* dot of the memory changes. A copy is of the memory as it was when no    *)
(* dot is drawn before it is read.                                         *)
Drew(was, now, p, kind, op) ==
  LET whole == kind \in {12, 13, 14}
      to == CASE kind = 7 -> LineDots(was, p)
              [] kind = 5 -> [k \in {0} |-> Cells(was, p.dx, p.dy)]
              [] OTHER -> Dots(was, p, whole, p.dx, p.dy)
      from == Dots(was, p, whole, IF kind = 14 THEN p.dx ELSE p.sx, p.sy)
      copies == kind \in {9, 13, 14}
      old == [k \in DOMAIN to |-> CellValue(was, to[k])]
      Source(k) == IF copies THEN CellValue(was, from[k])
                   ELSE IF whole THEN CellValue([was EXCEPT !.vram = (0 :> p.clr)], <<0, to[k][2]>>)
                   ELSE p.clr
      Twice == \E k, l \in DOMAIN to : k < l /\ to[k] = to[l]
      Smears == copies /\ \E k, l \in DOMAIN to : k < l /\ to[k] = from[l]
      values == PixelValues(was)
  IN  /\ ~Smears /\ ~Twice => \A k \in DOMAIN to :
           CellValue(now, to[k]) = IF whole THEN Source(k)
                                   ELSE Logic(old[k], Source(k), op) % values
      /\ \A a \in DOMAIN now.vram, s \in 0..PixelsPerByte(was) - 1 :
           <<a, s>> \in Image(to) \/ CellValue(now, <<a, s>>) = CellValue(was, <<a, s>>)

(* Every fill, copy, dot and line draws what its block asks for and        *)
(* nothing else, at the edges of the picture, in the modes that interleave *)
(* the memory and whatever was running before: a program that waits for    *)
(* the busy flag never has a block of one command taken as bytes by the    *)
(* last.                                                                   *)
CommandDraws ==
  [][(last'.odd # last.odd /\ ~Busy(chip) /\ last'.kind \in {5, 7, 8, 9, 12, 13, 14})
       => Drew(chip, chip', Block(chip'), last'.kind, last'.op)]_vars
=============================================================================
