------------------------------ MODULE Picture ------------------------------
(* What is drawn and what is seen: the sub-ROM's drawing entries,          *)
(* bios_screen.go, through the command engine into video memory, and the   *)
(* renderer, render.go, out of it; and what a frame's start reports of the *)
(* sprites. Each entry is one action. A colour is its number: in SCREEN 8  *)
(* the byte, elsewhere the palette's.                                      *)
EXTENDS Sprites

CONSTANTS
  Programs,        \* programs, and for each the chip it has set up and what
  Does,            \* it does: [chip, boxes, arrays, files, blits, writes, pokes, frames]
  Pages,           \* the pages a program draws on
  Columns, Rows,   \* the dots of a page, and
  Across, Down     \* the dots of the screen, that are looked at

VARIABLES
  program,   \* the program that runs
  chip,      \* the video chip
  acPage,    \* the page BASIC draws on
  status,    \* status register 0: [blank, fifth, touched, number]
  call       \* history: the last entry called, as a program means it

vars == <<program, chip, acPage, status, call>>

NoCall == [kind |-> "None"]
Quiet == [blank |-> FALSE, fifth |-> FALSE, touched |-> FALSE, number |-> 0]

-----------------------------------------------------------------------------
(* The renderer, a dot at a time. *)

Bitmap(c) == Mode(c) \in {"Graphic4", "Graphic5", "Graphic6", "Graphic7"}
Width(c) == DotsPerLine(c)

Backdrop(c) == IF Mode(c) = "Graphic7" THEN c.reg[7] ELSE c.reg[7] % 16
Zero(c) == IF Bit(c.reg[8], 5) THEN 0 ELSE Backdrop(c)
Seen(n, back) == IF n = 0 THEN back ELSE n

PageBase(c) ==
  IF Interleaved(c) THEN 65536 * BitOf(c.reg[2], 5) ELSE 32768 * ((c.reg[2] \div 32) % 4)

(* The pixel of the page at column x of line y: register 23 slides it.     *)
BitmapPixel(c, x, y) ==
  (Peek(c, PageBase(c) + ((y + Scroll(c)) % 256) * BytesPerLine(c) + x \div PixelsPerByte(c))
     \div PixelWeight(c, x)) % PixelValues(c)
BitmapDot(c, x, y) ==
  IF Mode(c) = "Graphic7" THEN BitmapPixel(c, x, y) ELSE Seen(BitmapPixel(c, x, y), Zero(c))

(* The pattern of the tile at column x of line y, and its two colours.     *)
TileDot(c, name, patterns, colours, x, y, back) ==
  LET at == 2048 * ((y \div 64) % 4) + 8 * Raw(c, name + 32 * ((y \div 8) % 32) + x \div 8) + (y % 8)
      attr == Raw(c, colours + at)
  IN  Seen(IF Bit(Raw(c, patterns + at), 7 - (x % 8)) THEN attr \div 16 ELSE attr % 16, back)

LateTileAnyBits(c, x, y) ==
  TileDot(c, 1024 * (c.reg[2] % 128), 2048 * (c.reg[4] % 64),
          16384 * (c.reg[10] % 8) + 8192 * BitOf(c.reg[3], 7),
          x, (y + Scroll(c)) % 256, Zero(c))
LateTile(c, x, y) ==
  TileDot(c, 1024 * (c.reg[2] % 128), 8192 * ((c.reg[4] \div 4) % 16),
          16384 * (c.reg[10] % 8) + 8192 * BitOf(c.reg[3], 7),
          x, (y + Scroll(c)) % 256, Zero(c))

(* The first chip's whole frame, where the tables are DecodeLayout's.      *)
FirstTile(c, x, y) ==
  TileDot(c, 1024 * (c.reg[2] % 16), 8192 * BitOf(c.reg[4], 2), 8192 * BitOf(c.reg[3], 7),
          x, y, Seen(Backdrop(c), 1))

(* adjusted: register 18 slides a line sideways; what comes in is backdrop.*)
LineDot(c, x, y) ==
  LET from == x + Adjust(c)
  IN  CASE from \notin 0..Width(c) - 1 -> Backdrop(c)
        [] from \in 0..Width(c) - 1 /\ Bitmap(c) -> BitmapDot(c, from, y)
        [] OTHER -> LateTile(c, from, y)

Behind(c, x, y) == IF c.v9938 THEN LineDot(c, x, y) ELSE FirstTile(c, x, y)

(* A blanked display is backdrop, and the lowest sprite is drawn last. *)
Front(c, list, on, x, y) ==
  IF on = {} THEN Behind(c, x, y) ELSE SpriteColour(c, list, Min(on), y)
ScreenDot(c, list, drawn, x, y) ==
  IF ~Bit(c.reg[1], 6) THEN IF c.v9938 THEN Backdrop(c) ELSE Seen(Backdrop(c), 1)
  ELSE Front(c, list, SpritesAt(c, list, drawn, x, y), x, y)

-----------------------------------------------------------------------------
Init ==
  /\ program \in Programs
  /\ chip = Does[program].chip
  /\ acPage = 0
  /\ status = Quiet
  /\ call = NoCall

Drawing(c) == call' = c /\ UNCHANGED <<program, acPage, status>>
NotDrawing == UNCHANGED <<program, call>>

(* WriteReg of a command register; register 44 feeds a transfer under way. *)
WriteReg(c, r, b) ==
  LET set == [c EXCEPT !.reg[r] = b, !.v9938 = @ \/ r > 7]
  IN  IF r = 44 /\ c.xfer.dir = "In" THEN XferWrite(set, b) ELSE set
WriteRegs(c, first, bytes) ==
  Repeat(c, Len(bytes), LAMBDA d, k : WriteReg(d, first + k, bytes[k + 1]))
LowWhole(n) == n
Low(n) == n % 256
High(n) == n \div 256

(* NVBXLN and NVBXFL: LINE (x1,y1)-(x2,y2),colour,B and BF, on the active  *)
(* page. Either corner may come first, and the corners are drawn once.     *)
Least(a, b) == IF a < b THEN a ELSE b
Most(a, b) == IF a < b THEN b ELSE a
PageLineShown(page) == 212 * page
PageLine(page) == 256 * page
Boxed(c, b, page) ==
  LET left == Least(b.x1, b.x2)
      top == Least(b.y1, b.y2)
      wide == Most(b.x1, b.x2) - left
      high == Most(b.y1, b.y2) - top
  IN  Rectangle(c, wide + 1, high + 1,
        LAMBDA d, i, j :
          IF b.filled \/ i \in {0, wide} \/ j \in {0, high}
          THEN SetPixel(d, left + i, top + j + PageLine(page), b.colour, b.op) ELSE d)

Rule(op) == CASE op = 0 -> "Put" [] op = 3 -> "Turn" [] OTHER -> "PutUnlessZero"
BoxCall(b, page) ==
  [kind |-> "Box", page |-> page, x1 |-> b.x1, y1 |-> b.y1, x2 |-> b.x2, y2 |-> b.y2,
   colour |-> b.colour, rule |-> Rule(b.op), filled |-> b.filled]
Box(b) == chip' = Boxed(chip, b, acPage) /\ Drawing(BoxCall(b, acPage))

(* lmmcStream: arms a transfer and feeds it pixels, unpacked as the screen *)
(* packs them, until it has what it wants. The mutant takes the lowest     *)
(* bits of a byte first.                                                   *)
PixelLowFirst(c, bytes, k) ==
  LET n == PixelsPerByte(c)
  IN  (bytes[k \div n + 1] \div PixelWeight(c, n - 1 - (k % n))) % PixelValues(c)
Pixel(c, bytes, k) ==
  LET n == PixelsPerByte(c)
  IN  (bytes[k \div n + 1] \div PixelWeight(c, k)) % PixelValues(c)
Armed(c, a) ==
  Execute(WriteReg(WriteRegs(c, 36, <<Low(a.dx), High(a.dx), Low(a.dy), High(a.dy),
                                      Low(a.nx), High(a.nx), Low(a.ny), High(a.ny)>>),
                   45, 0), 176)
Streamed(c, a, bytes) ==
  Repeat(Armed(c, a), Len(bytes) * PixelsPerByte(c),
    LAMBDA d, k : IF d.xfer.dir = "None" THEN d ELSE XferWrite(d, Pixel(d, bytes, k)))

(* The colours such a call draws, in their order: the dots that are packed  *)
(* in the bytes, the leftmost in the highest bits, and before them what    *)
(* register 44 holds, which nobody has loaded with the first.              *)
Unpacked(c, bytes) ==
  [k \in 1..Len(bytes) * PixelsPerByte(c) |->
     LET n == PixelsPerByte(c)
     IN  (bytes[(k - 1) \div n + 1] \div PixelValues(c) ^ (n - 1 - ((k - 1) % n)))
           % PixelValues(c)]
FillCall(kind, c, a) ==
  [kind |-> kind, colours |-> <<c.reg[44] % PixelValues(c)>> \o Unpacked(c, a.bytes),
   page |-> a.dy \div 256, x1 |-> a.dx, y1 |-> a.dy % 256,
   x2 |-> a.dx + a.nx - 1, y2 |-> (a.dy % 256) + a.ny - 1]

(* 0195, COPY array: as many bytes of memory from the array on as there    *)
(* are pixels, whatever count the block gives.                             *)
BytesCounted(c, a) == SubSeq(a.bytes, 1, a.count)
BytesFrom(c, a) ==
  [k \in 1..Least(a.nx * a.ny, Size(c)) |-> IF k <= Len(a.bytes) THEN a.bytes[k] ELSE 0]
CopyArray(a) ==
  /\ chip' = Streamed(chip, a, BytesFrom(chip, a))
  /\ Drawing(FillCall("Fill", chip, a))

(* 019D, COPY file: the bytes the file has. One that is not on the disk,   *)
(* or has no size in it, draws nothing.                                    *)
CopyFile(a) ==
  /\ chip' = Streamed(chip, a, a.bytes)
  /\ Drawing(FillCall("FillPart", chip, a))

(* 0191, subRomBlit: registers 32 to 45 and a copy, of a block that copies *)
(* within a page or between two.                                           *)
MoveCall(b) ==
  [kind |-> "Move", page |-> b.dy \div 256, from |-> b.sy \div 256,
   x1 |-> b.dx, y1 |-> b.dy % 256, x2 |-> b.dx + b.nx - 1, y2 |-> (b.dy % 256) + b.ny - 1,
   right |-> b.dx - b.sx, down |-> (b.dy % 256) - (b.sy % 256)]
Blit(b) ==
  /\ chip.xfer.dir = "None"
  /\ chip' = Execute(WriteRegs(chip, 32,
       <<Low(b.sx), High(b.sx), Low(b.sy), High(b.sy), Low(b.dx), High(b.dx),
         Low(b.dy), High(b.dy), Low(b.nx), High(b.nx), Low(b.ny), High(b.ny), 0, 0>>), 144)
  /\ Drawing(MoveCall(b))

(* What a program writes itself: the page, a register, a byte of a table.  *)
SetPage(page) ==
  /\ Does[program].boxes # {} /\ acPage' = page
  /\ NotDrawing /\ UNCHANGED <<chip, status>>
SetRegister(r, b) ==
  /\ chip' = WriteReg(chip, r, b)
  /\ NotDrawing /\ UNCHANGED <<acPage, status>>
WriteTable(a, b) ==
  /\ chip' = Poke(chip, a, b)
  /\ NotDrawing /\ UNCHANGED <<acPage, status>>

(* A frame starts: the flag of the blank, and what the sprites did.        *)
StartFrame ==
  /\ Does[program].frames
  /\ status' = Scan(chip, [status EXCEPT !.blank = TRUE])
  /\ NotDrawing /\ UNCHANGED <<chip, acPage>>

ReadStatus ==
  /\ Does[program].frames
  /\ status' = [status EXCEPT !.blank = FALSE]
  /\ NotDrawing /\ UNCHANGED <<chip, acPage>>

Next ==
  \/ \E b \in Does[program].boxes : Box(b)
  \/ \E a \in Does[program].arrays : CopyArray(a)
  \/ \E a \in Does[program].files : CopyFile(a)
  \/ \E b \in Does[program].blits : Blit(b)
  \/ \E page \in Pages : SetPage(page)
  \/ \E w \in Does[program].writes : SetRegister(w[1], w[2])
  \/ \E w \in Does[program].pokes : WriteTable(w[1], w[2])
  \/ StartFrame \/ ReadStatus

Spec == Init /\ [][Next]_vars

-----------------------------------------------------------------------------
(* Registers and bytes are bytes, a sprite's number has five bits, and a   *)
(* transfer is inside its rectangle.                                       *)
TypeOK ==
  /\ \A r \in 0..63 : chip.reg[r] \in 0..255
  /\ \A p \in DOMAIN chip.vram : p < Size(chip) /\ chip.vram[p] \in 0..255
  /\ acPage \in Pages
  /\ status \in [blank : BOOLEAN, fifth : BOOLEAN, touched : BOOLEAN, number : 0..31]
  /\ chip.xfer.dir # "None" => chip.xfer.i < chip.xfer.nx /\ chip.xfer.j < chip.xfer.ny

(* Whatever boxes, moves and copies a program asks of the sub-ROM, in any  *)
(* of the four bitmap screens, looked at through the renderer with each    *)
(* page shown and scrolled to each line, the pages are those a Canvas has: *)
(* only the dots asked for change, once each. Those of a box and of a move *)
(* become what was asked for. Those of an array or a file do not quite:    *)
(* they come one dot late, the first being what register 44 held           *)
(* (lmmcStream arms the transfer and does not load it), and the last left  *)
(* over. Where a file is too short the rest of the rectangle stays.        *)
Looking(page, line) == [chip EXCEPT !.reg[2] = 32 * page + 31, !.reg[23] = line]
Paper == INSTANCE Canvas WITH
  PageNames <- Pages,
  canvas <- [page \in Pages |-> [d \in Columns \X Rows |->
               IF Bitmap(chip) THEN BitmapPixel(Looking(page, d[2]), d[1], 0) ELSE 0]]
IsACanvas == Paper!Spec

(* The screen is a window on a plane of 256 lines that holds the page and  *)
(* the sprites, moved over it by registers 18 and 23: sprites stay where   *)
(* they were put on the picture, at the edges and over the seam between    *)
(* the last line and the first too. The wide screens are left out, where   *)
(* register 18 moves a sprite two dots for the picture's one.              *)
Below(s, y) == (y - (s.y + 1)) % 256
PlaneSprites(list, y) ==
  IF Bit(chip.reg[8], 1) THEN {}
  ELSE FirstOf({i \in DOMAIN list : Below(list[i], y) < Span(chip)}, 8)
PlaneDot(list, drawn, x, y) ==
  LET on == {i \in drawn : Covers(chip, "Renderer", list[i], i, 0, x, Below(list[i], y))}
      pixel == GetPixel(chip, x, 256 * ((chip.reg[2] \div 32) % 4) + y)
  IN  CASE on # {} ->
             LET i == Min(on)
             IN  ColourByte(chip, "Renderer", list[i], i, Below(list[i], y) \div Scale(chip)) % 16
        [] on = {} /\ x \notin 0..255 -> Backdrop(chip)
        [] OTHER -> IF pixel = 0 /\ Mode(chip) # "Graphic7" THEN Zero(chip) ELSE pixel
ScreenIsAWindow ==
  chip.v9938 /\ Bitmap(chip) /\ Width(chip) = 256 /\ Bit(chip.reg[1], 6) =>
    \E list \in {Listed(chip, "Renderer")} : \A line \in Down :
      \E y \in {(line + Scroll(chip)) % 256}, drawn \in {ShownDrawn(chip, list, line)} :
        \E plane \in {PlaneSprites(list, y)} : \A x \in Across :
          ScreenDot(chip, list, drawn, x, line) = PlaneDot(list, plane, x + Adjust(chip), y)

(* scanSprites' comment: a game is told of what touched while the frame    *)
(* was displayed. It is raised exactly when two sprites the renderer shows *)
(* share a dot - on the first chip, where the renderer shows all, when no  *)
(* line had too many. This is of a picture that is not slid, with no       *)
(* sprite coming in from the top, in a screen that is not interleaved:     *)
(* the scan takes none of the three into account.                          *)
Comparable(list) ==
  /\ ~Interleaved(chip) /\ SpritesShown(chip)
  /\ chip.v9938 => Scroll(chip) = 0 /\ Adjust(chip) = 0
  /\ \A i \in DOMAIN list : list[i].y < Lines(chip)
SeenTouching(list) ==
  \E y \in Crowded(chip, "Renderer", list) :
    Meet(chip, "Renderer", list, ShownDrawn(chip, list, y), y)
Starts == status'.blank /\ ~status.blank
TouchedAsShown(list) ==
  /\ status'.touched => status.touched \/ SeenTouching(list)
  /\ SeenTouching(list) => status'.touched \/ (status'.fifth /\ ~chip.v9938)

(* The number reported when a line first has too many is of the sprite     *)
(* that could not be drawn: on the later chip the first one the renderer   *)
(* leaves out, of the first line it leaves one out on.                     *)
LeftOut(list, y) == ShownOn(chip, list, y) \ ShownDrawn(chip, list, y)
OverflowNames(list) ==
  chip.v9938 /\ ~status.fifth =>
    \E over \in {{y \in Crowded(chip, "Renderer", list) : LeftOut(list, y) # {}}} :
      /\ status'.fifth <=> over # {}
      /\ over # {} => status'.number = Min(LeftOut(list, Min(over)))
StatusAsShown ==
  [][Starts => \E list \in {Listed(chip, "Renderer")} :
       Comparable(list) => TouchedAsShown(list) /\ OverflowNames(list)]_vars

(* A transfer left open goes on taking what is written to register 44. The *)
(* entry that copies an array closes its own, whatever count of bytes the  *)
(* array's block gives; only a file shorter than its picture leaves one.   *)
StreamsClose == call.kind = "Fill" => chip.xfer.dir = "None"

(* The MSX1 path "is always 192 lines and 256 dots, unchanged": a          *)
(* cartridge that names a register of the later chip is drawn by the other *)
(* renderer from then on, and its tiles, in the tables the first chip has, *)
(* are as they were. Colours 0 and 1 are both black.                       *)
Black(n) == IF n = 0 THEN 1 ELSE n
RenderersAgree ==
  ~chip.v9938 /\ Mode(chip) = "Graphic2" =>
    \A x \in Across, y \in Down :
      Black(FirstTile(chip, x, y)) = Black(LineDot([chip EXCEPT !.v9938 = TRUE], x, y))

(* What is shown is what was drawn, by either renderer.                    *)
SeenAsDrawn == TypeOK /\ ScreenIsAWindow /\ RenderersAgree /\ StreamsClose
=============================================================================
