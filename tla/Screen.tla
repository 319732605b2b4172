------------------------------- MODULE Screen -------------------------------
(* The BIOS's screen entries, bios_screen.go and their cases in bios.go:   *)
(* the screen modes, programmed into the chip from the work area's tables; *)
(* the copies kept of its registers and of its palette; and the console.   *)
(* Each entry is one action: nothing else runs inside one.  Video memory   *)
(* is the bytes a program looks at, program.cells; a glyph's pixels are    *)
(* the byte of its first one, and a colour of the palette is one number,   *)
(* kept where the first of its two bytes is.                               *)
EXTENDS VideoCommand

CONSTANTS
  Programs,      \* what a program calls, looks at, and prints on:
                 \* [calls, modes, chars, cells, mode]
  Width, Height, \* LINLEN and CRTCNT, which make the console
  Inks,          \* the colours a program puts in the work area
  Pages,         \* the pages it makes active
  Tweaks,        \* the registers it rebuilds from the copy, and the bit it flips
  Entries,       \* the palette entries it sets
  Shades,        \* their colours
  Chars,         \* the characters it prints
  Places,        \* the addresses it writes in video memory
  SecondTable    \* where it moves a name table to

(* The bits a program leaves to the screen entries: those of the mode, of  *)
(* the lines, and of where the names and the sprites are.                  *)
ScreenBits ==
  {<<0, 1>>, <<0, 2>>, <<0, 3>>, <<1, 3>>, <<1, 4>>, <<9, 7>>} \cup {2, 5} \X (0..7)

ASSUME ScreenAssumption ==
  /\ Width \in Nat \ {0} /\ Height \in Nat \ {0}
  /\ \A p \in Programs : p.modes \subseteq 0..8
  /\ \A ink \in Inks : {ink.fore, ink.back, ink.border} \subseteq 0..255
  /\ Tweaks \subseteq ((0..11) \X (0..7)) \ ScreenBits
  /\ \E n \in 0..127 : SecondTable = 1024 * n

VARIABLES
  program,       \* the program that runs
  chip,          \* the video chip: [reg, v9938, pal, vram]
  saved,         \* RG0SAV and RG8SAV, the copies of the chip's registers
  work           \* SCRMOD, OLDSCR, ACPAGE, the colours, the cursor, the tables
vars == <<program, chip, saved, work>>

Space == 32

-----------------------------------------------------------------------------
(* Where things are. *)

TableBlock(mode) == IF mode \in 0..2 THEN mode ELSE 3
Table(w) == w.tables[TableBlock(w.mode)]

(* vramBase: only the bitmap screens have pages. *)
VramBaseShort(w) == IF w.mode < 5 THEN 0 ELSE w.page * 32768
VramBase(w) ==
  IF w.mode < 5 THEN 0 ELSE w.page * (IF w.mode >= 7 THEN 65536 ELSE 32768)

(* phys is one to one, and this is its inverse. *)
Logical(c, p) == IF Interleaved(c) THEN 2 * (p % 65536) + (p \div 65536) ELSE p

(* The n bytes of video memory from at on become v. *)
FillVRAM(c, at, n, v) ==
  [c EXCEPT !.vram = [p \in DOMAIN @ |->
     IF (Logical(c, p) - at) % Size(c) < n THEN v ELSE @[p]]]
VramWrite(c, at, v) == FillVRAM(c, at, 1, v)
VramAt(c, at) == c.vram[Phys(c, at)]

SpriteAttr(c) ==
  IF c.v9938 THEN 512 * (c.reg[5] \div 4) + 32768 * (c.reg[11] % 4) ELSE c.reg[5] * 128

(* The BIOS's copy of the palette is below what each screen shows. *)
CopyTable(mode) ==
  CASE mode = 0 -> 1024 [] mode \in {1, 3} -> 8224 [] mode \in {2, 4} -> 7040
    [] mode \in {5, 6} -> 30336 [] OTHER -> 64128
PaletteCopy(w, e) == VramBase(w) + CopyTable(w.mode) + 2 * e

-----------------------------------------------------------------------------
(* Registers. *)

(* Register r alone given v, and f where it is defined, else g.            *)
Only(r, v) == [x \in {r} |-> v]
Over(f, g) == [x \in DOMAIN f \cup DOMAIN g |-> IF x \in DOMAIN f THEN f[x] ELSE g[x]]

(* setReg, for each register f gives a value. *)
Write(c, f) ==
  [c EXCEPT !.reg = Over(f, @), !.v9938 = @ \/ \E r \in DOMAIN f : r > 7]
SetRegsOfTheFirst(f) ==
  chip' = Write(chip, f) /\ saved' = Over([r \in (DOMAIN f) \cap (0..7) |-> f[r]], saved)
SetRegs(f) == chip' = Write(chip, f) /\ saved' = Over(f, saved)

Pair(high, low) == 16 * (high % 16) + (low % 16)
Low7(b) == b % 128

TileRegs(w, mode) ==
  LET t == w.tables[TableBlock(mode)]
  IN  [r \in IF mode = 0 THEN {0, 1, 2, 4, 7} ELSE 0..7 |->
         CASE r = 0 -> IF mode = 2 THEN 2 ELSE 0
           [] r = 1 -> (CASE mode = 0 -> 240 [] mode = 3 -> 232 [] OTHER -> 224)
           [] r = 2 -> t.nam \div 1024
           [] r = 3 -> IF mode = 2 THEN BitOr(t.col \div 64, 127) ELSE t.col \div 64
           [] r = 4 -> IF mode = 2 THEN BitOr(t.cgp \div 2048, 3) ELSE t.cgp \div 2048
           [] r = 5 -> t.atr \div 128
           [] r = 6 -> t.pat \div 2048
           [] OTHER -> Pair(w.ink.fore, IF mode = 0 THEN w.ink.border ELSE w.ink.back)]

(* Register 9 belongs to the later chip, and writing it makes one. *)
LinesLeft(c) == <<>>
LinesOffAlways(c) == Only(9, Low7(c.reg[9]))
LinesOff(c) == IF c.v9938 THEN Only(9, Low7(c.reg[9])) ELSE <<>>

BitmapRegs(c, w, mode) ==
  [r \in {0, 1, 2, 5, 6, 7, 9, 11} |->
     CASE r = 0 -> (CASE mode = 4 -> 4 [] mode = 5 -> 6 [] mode = 6 -> 8 [] mode = 7 -> 10
                      [] OTHER -> 14)
       [] r = 1 -> 96
       [] r = 2 -> 31
       [] r = 5 -> IF mode < 7 THEN 239 ELSE 247
       [] r = 6 -> (CASE mode = 4 -> 3 [] mode \in {5, 6} -> 15 [] OTHER -> 30)
       [] r = 7 -> w.ink.border % 16
       [] r = 9 -> Low7(c.reg[9]) + 128
       [] OTHER -> IF mode < 7 THEN 0 ELSE 1]

ScreenRegs(c, w, mode) ==
  IF mode <= 3 THEN Over(TileRegs(w, mode), LinesOff(c)) ELSE BitmapRegs(c, w, mode)

(* The work area of screen mode. *)
Entered(w, mode) == [w EXCEPT !.old = w.mode, !.mode = mode, !.x = 1, !.y = 1]

-----------------------------------------------------------------------------
(* What the screen shows, cleared and printed on. *)

ClsPage(w) == 256 * (IF w.mode >= 7 THEN 256 ELSE 128)
ClsSize(w) == 212 * (IF w.mode >= 7 THEN 256 ELSE 128)

ClsScreen(c, w) ==
  CASE w.mode = 0 -> FillVRAM(c, Table(w).nam, 37 * Height, Space)
    [] w.mode = 1 -> FillVRAM(c, Table(w).nam, 768, Space)
    [] w.mode \in {2, 4} -> FillVRAM(c, Table(w).cgp, 6144, 0)
    [] w.mode \in 5..8 -> FillVRAM(c, VramBase(w), ClsSize(w), 0)
    [] OTHER -> FillVRAM(c, Table(w).nam, 768, 0)

(* The byte a character at column x of row y is seen in, from 0.  A bitmap *)
(* screen is drawn on in its first page, whichever is active.              *)
GlyphAt(c, w, x, y) ==
  IF w.mode <= 4 THEN Table(w).nam + y * Width + x ELSE PixelByte(c, 8 * x, 8 * y)
PutGlyph(c, w, x, y, v) == VramWrite(c, GlyphAt(c, w, x, y), v)

(* Where the screen's characters are, by their bytes. *)
Glyphs(c, w) ==
  [p \in {Phys(c, GlyphAt(c, w, x, y)) : x \in 0..Width - 1, y \in 0..Height - 1} |->
     CHOOSE q \in (0..Width - 1) \X (0..Height - 1) :
       Phys(c, GlyphAt(c, w, q[1], q[2])) = p]

ScrollUpUnblanked(c, w) ==
  LET where == Glyphs(c, w)
  IN  [c EXCEPT !.vram = [p \in DOMAIN @ |->
         IF p \notin DOMAIN where THEN @[p]
         ELSE IF where[p][2] = Height - 1 THEN @[p]
         ELSE VramAt(c, GlyphAt(c, w, where[p][1], where[p][2] + 1))]]

ScrollUp(c, w) ==
  LET where == Glyphs(c, w)
  IN  [c EXCEPT !.vram = [p \in DOMAIN @ |->
         CASE p \notin DOMAIN where -> @[p]
           [] p \in DOMAIN where /\ where[p][2] = Height - 1 -> Space
           [] OTHER -> VramAt(c, GlyphAt(c, w, where[p][1], where[p][2] + 1))]]

WrapLate(x, y) == IF x > Width THEN [x |-> 0, y |-> y + 1] ELSE [x |-> x, y |-> y]
Wrap(x, y) == IF x >= Width THEN [x |-> 0, y |-> y + 1] ELSE [x |-> x, y |-> y]

(* The cursor comes to column x of row y, on chip c. *)
Settle(c, x, y) ==
  \E q \in {Wrap(x, y)} :
    /\ chip' = IF q.y >= Height THEN ScrollUp(c, work) ELSE c
    /\ work' = [work EXCEPT !.x = q.x + 1,
                            !.y = (IF q.y >= Height THEN Height - 1 ELSE q.y) + 1]

-----------------------------------------------------------------------------
(* The colours an entry starts with are those INIPLT gives it. *)
First == 112

(* Power on: the work area and registers of a stock machine, in the mode   *)
(* the work area says is 1.                                                *)

Boot == <<0, 96, 6, 128, 0, 54, 7, 4>>
BootReg == [r \in 0..11 |-> IF r < 8 THEN Boot[r + 1] ELSE 0]
BootTables ==
  [b \in 0..3 |->
     CASE b = 0 -> [nam |-> 0, col |-> 0, cgp |-> 2048, atr |-> 0, pat |-> 0]
       [] b = 3 -> [nam |-> 2048, col |-> 0, cgp |-> 0, atr |-> 6912, pat |-> 14336]
       [] OTHER -> [nam |-> 6144, col |-> 8192, cgp |-> 0, atr |-> 6912, pat |-> 14336]]

Init ==
  /\ program \in Programs
  /\ chip = [reg |-> BootReg, v9938 |-> FALSE, pal |-> [e \in Entries |-> First],
             vram |-> [p \in program.cells |-> Space]]
  /\ saved = [BootReg EXCEPT ![8] = 8]
  /\ work = [mode |-> 1, old |-> 1, page |-> 0, ink |-> [fore |-> 15, back |-> 4, border |-> 4],
             x |-> 1, y |-> 1, tables |-> BootTables]

Calls(name) == name \in program.calls /\ UNCHANGED program
Printing == work.mode = program.mode
Prints == Calls("CHPUT") /\ Printing

-----------------------------------------------------------------------------
(* The entries. *)

(* SETTXT, SETT32, SETGRP, SETMLT: the chip and the work area only. *)
SetScreen(mode) ==
  /\ Calls("SETSCR") /\ mode <= 3
  /\ SetRegs(ScreenRegs(chip, work, mode))
  /\ work' = Entered(work, mode)

(* CHGMOD, in either ROM, and INITXT to INIMLT: the screen is cleared too. *)
ChangeMode(mode) ==
  \E w \in {Entered(work, mode)}, f \in {ScreenRegs(chip, work, mode)} :
    /\ chip' = ClsScreen(Write(chip, f), w)
    /\ saved' = Over(f, saved)
    /\ work' = w
CHGMOD(mode) == Calls("CHGMOD") /\ ChangeMode(mode)

TOTEXT == Calls("TOTEXT") /\ work.mode > 1 /\ ChangeMode(work.old % 2)

CLS ==
  /\ Calls("CLS")
  /\ chip' = ClsScreen(chip, work)
  /\ work' = [work EXCEPT !.x = 1, !.y = 1]
  /\ UNCHANGED saved

(* A program takes the copy of a register, flips a bit and has it written. *)
Flipped(b, i) == IF Bit(b, i) THEN b - 2 ^ i ELSE b + 2 ^ i
WRTVDP(r, i) ==
  /\ Calls("WRTVDP")
  /\ SetRegs(Only(r, Flipped(saved[r], i)))
  /\ UNCHANGED work

(* DISSCR and ENASCR go to the chip alone. *)
Display(on) ==
  /\ Calls("DISSCR")
  /\ chip' = [chip EXCEPT !.reg[1] = IF Bit(@, 6) = on THEN @ ELSE Flipped(@, 6)]
  /\ UNCHANGED <<saved, work>>

(* The main ROM's CHGCLR: to the chip alone, and screen 1's colour table. *)
InColours(c, p) == (p - c.reg[3] * 64) % 16384 < 32 /\ p < 16384
ColourTable(c, w) ==
  [c EXCEPT !.vram = [p \in DOMAIN @ |->
     IF InColours(c, p) THEN Pair(w.ink.fore, w.ink.back) ELSE @[p]]]
CHGCLR ==
  /\ Calls("CHGCLR")
  /\ \E c \in {[chip EXCEPT !.reg[7] = Pair(work.ink.fore, work.ink.border)]} :
       chip' = IF work.mode = 1 THEN ColourTable(c, work) ELSE c
  /\ UNCHANGED <<saved, work>>

(* The sub-ROM's: the border alone on a bitmap screen. *)
SubCHGCLR ==
  /\ Calls("CHGCLR")
  /\ SetRegs(Only(7, IF work.mode <= 3 THEN Pair(work.ink.fore, work.ink.back)
                    ELSE work.ink.border % 16))
  /\ UNCHANGED work

CLRSPR ==
  /\ Calls("CLRSPR")
  /\ chip' = FillVRAM(chip, SpriteAttr(chip), 128, 209)
  /\ UNCHANGED <<saved, work>>

(* SETPLT: the entry and its copy, on the later chip. *)
PaletteShadow(c, w, pal) ==
  [c EXCEPT !.vram = [p \in DOMAIN @ |->
     IF \E e \in DOMAIN pal : Phys(c, PaletteCopy(w, e)) = p
     THEN pal[CHOOSE e \in DOMAIN pal : Phys(c, PaletteCopy(w, e)) = p] ELSE @[p]]]
SetPalette(pal) ==
  \E c \in {[chip EXCEPT !.v9938 = TRUE, !.pal = Over(pal, @)]} :
    chip' = PaletteShadow(c, work, pal)
SETPLT(e, v) == Calls("SETPLT") /\ SetPalette(Only(e, v)) /\ UNCHANGED <<saved, work>>
INIPLT == Calls("SETPLT") /\ SetPalette([e \in Entries |-> First]) /\ UNCHANGED <<saved, work>>

(* WRTVRM, NWRVRM and the block writers, at an address of the active page. *)
WRTVRM(hl, v) ==
  /\ Calls("WRTVRM")
  /\ chip' = VramWrite(chip, VramBase(work) + hl, v)
  /\ UNCHANGED <<saved, work>>

(* CHPUT. *)
Type(c) ==
  /\ Prints
  /\ Settle(PutGlyph(chip, work, work.x - 1, work.y - 1, c), work.x, work.y - 1)
  /\ UNCHANGED saved
Return == Prints /\ Settle(chip, 0, work.y - 1) /\ UNCHANGED saved
LineFeed == Prints /\ Settle(chip, work.x - 1, work.y) /\ UNCHANGED saved
Backspace ==
  /\ Prints /\ work.x > 1
  /\ Settle(PutGlyph(chip, work, work.x - 2, work.y - 1, Space), work.x - 2, work.y - 1)
  /\ UNCHANGED saved

(* POSIT, at a place the screen has. *)
POSIT(x, y) ==
  /\ Prints /\ x <= Width /\ y <= Height
  /\ work' = [work EXCEPT !.x = x, !.y = y]
  /\ UNCHANGED <<chip, saved>>

(* What a program writes in the work area: colours, the active page of a   *)
(* bitmap screen, and a name table before it asks for the screen.          *)
SetInk(ink) ==
  /\ Calls("INK") /\ work' = [work EXCEPT !.ink = ink]
  /\ UNCHANGED <<chip, saved>>
SetPage(page) ==
  /\ Calls("ACPAGE") /\ work.mode >= 5 /\ work' = [work EXCEPT !.page = page]
  /\ UNCHANGED <<chip, saved>>
MoveTable(b) ==
  /\ Calls("MOVE") /\ b # TableBlock(work.mode)
  /\ work' = [work EXCEPT !.tables[b].nam = SecondTable]
  /\ UNCHANGED <<chip, saved>>

Next ==
  \/ \E mode \in program.modes : SetScreen(mode) \/ CHGMOD(mode)
  \/ TOTEXT \/ CLS \/ CHGCLR \/ SubCHGCLR \/ CLRSPR \/ INIPLT
  \/ \E t \in Tweaks : WRTVDP(t[1], t[2])
  \/ \E on \in BOOLEAN : Display(on)
  \/ \E e \in Entries, v \in Shades : SETPLT(e, v)
  \/ \E hl \in Places, v \in Shades : WRTVRM(hl, v)
  \/ \E c \in program.chars \cup {Space} : Type(c)
  \/ Return \/ LineFeed \/ Backspace
  \/ \E x, y \in 1..3 : POSIT(x, y)
  \/ \E ink \in Inks : SetInk(ink)
  \/ \E page \in Pages : SetPage(page)
  \/ \E b \in 0..3 : MoveTable(b)

Spec == Init /\ [][Next]_vars

-----------------------------------------------------------------------------
(* Registers are bytes and the cursor is on the console. *)
TypeOK ==
  /\ chip.reg \in [0..11 -> 0..255] /\ saved \in [0..11 -> 0..255]
  /\ work.mode \in 0..8 /\ work.old \in 0..8 /\ chip.pal \in [Entries -> Shades \cup {First}]
  /\ work.x \in 1..Width /\ work.y \in 1..Height

(* saveReg's comment: a cartridge that changes one bit reads the saved     *)
(* byte, and that only works if it is what was last written.  It is, for   *)
(* every entry and whatever the chip turned into in between, apart from    *)
(* the display bit and the colours, which two entries write past the copy, *)
(* and register 8 until something has written it.                          *)
CopiesAgree ==
  /\ \A r \in 0..11 \ {1, 7, 8} : saved[r] = chip.reg[r]
  /\ \A i \in 0..7 \ {6} : Bit(saved[1], i) = Bit(chip.reg[1], i)
  /\ saved[8] # chip.reg[8] => saved[8] = 8 /\ chip.reg[8] = 0

(* After any sequence of screens, by any entry, the chip is in the mode    *)
(* the work area says, as tall as that mode is, with its names, and on the *)
(* first chip its sprites, where the tables of the work area put them.     *)
ModeName == <<"Text", "Graphic1", "Graphic2", "Multicolour", "Graphic3", "Graphic4",
              "Graphic5", "Graphic6", "Graphic7">>
ScreenAsAsked ==
  /\ Mode(chip) = ModeName[work.mode + 1]
  /\ Bit(chip.reg[9], 7) <=> work.mode > 3
  /\ work.mode <= 3 => chip.reg[2] * 1024 = Table(work).nam
  /\ work.mode \in 1..3 /\ ~chip.v9938 => SpriteAttr(chip) = Table(work).atr

(* The copy of the palette, which is in video memory, is not printed on,   *)
(* cleared or taken for sprites, in any screen and page.                   *)
CopyKept ==
  work'.mode = work.mode /\ work'.page = work.page /\ chip'.pal = chip.pal =>
    \A e \in Entries :
      LET p == Phys(chip, PaletteCopy(work, e))
      IN  p \in DOMAIN chip.vram => chip'.vram[p] \in {chip.vram[p], chip.pal[e]}

(* What a program writes or clears on a bitmap screen is in the page it    *)
(* made active, in the modes that interleave their memory too.             *)
PageOf(c, w, p) == Logical(c, p) \div (IF w.mode >= 7 THEN 65536 ELSE 32768)
OtherPagesKept ==
  work.mode >= 5 /\ work'.mode = work.mode /\ "CHPUT" \notin program.calls =>
    \A p \in DOMAIN chip.vram :
      PageOf(chip, work, p) # work.page => chip'.vram[p] = chip.vram[p]

(* Asking for one of the first four screens does not make the first chip   *)
(* the second.                                                             *)
NotPromoted == work' # work /\ work'.mode <= 3 => chip'.v9938 = chip.v9938

(* No entry touches what it was not asked to.                              *)
RestIsKept == [][CopyKept /\ OtherPagesKept /\ NotPromoted]_vars

(* The screen is the one asked for, and its registers can be rebuilt.      *)
ScreenIsKnown == TypeOK /\ CopiesAgree /\ ScreenAsAsked

(* The console is one: read where a mode's characters are.                 *)
Shown(v) == IF v = 0 THEN Space ELSE v
Paper == INSTANCE Terminal WITH
  Marks <- Chars, Blank <- Space,
  sheet <- [y \in 1..Height |-> [x \in 1..Width |->
              IF Printing THEN Shown(VramAt(chip, GlyphAt(chip, work, x - 1, y - 1))) ELSE Space]],
  at <- IF Printing THEN [x |-> work.x, y |-> work.y] ELSE [x |-> 1, y |-> 1]
IsATerminal == Paper!Spec
=============================================================================
