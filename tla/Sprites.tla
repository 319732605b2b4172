------------------------------ MODULE Sprites ------------------------------
(* Sprites as the emulator works them out twice: scanSprites, vdp.go, for  *)
(* the status register at a frame's start, and the renderer, render.go,    *)
(* for the screen. The two walk the same tables their own way: they read   *)
(* video memory through different addresses, and put a sprite's first line *)
(* and column in different places.                                         *)
EXTENDS VideoCommand, FiniteSetsExt

Lines(chip) == IF Bit(chip.reg[9], 7) THEN 212 ELSE 192

(* A sprite's side in dots of its pattern and on the screen. *)
Side(chip) == IF Bit(chip.reg[1], 1) THEN 16 ELSE 8
Scale(chip) == IF Bit(chip.reg[1], 0) THEN 2 ELSE 1
Span(chip) == Side(chip) * Scale(chip)

PerLineOfTheFirst(chip) == 4
PerLine(chip) == IF chip.v9938 THEN 8 ELSE 4
EndMark(chip) == IF Lines(chip) = 192 THEN 208 ELSE 216

SpriteTable(chip) ==
  IF chip.v9938 THEN 512 * (chip.reg[5] \div 4) + 32768 * (chip.reg[11] % 4)
  ELSE 128 * (chip.reg[5] % 128)
PatternTable(chip) == 2048 * (chip.reg[6] % 64)

(* A byte at an address the mode does not interleave. *)
Raw(chip, a) == Held(chip.vram, a % Size(chip))

(* What each of the two reads at an address, and where it has a sprite     *)
(* begin: by is "Scan" or "Renderer".                                      *)
ReadBy(chip, by, a) == IF by = "Renderer" /\ chip.v9938 THEN Peek(chip, a) ELSE Raw(chip, a)

Signed4(b) == IF b % 16 < 8 THEN b % 16 ELSE (b % 16) - 16
Adjust(chip) == Signed4(chip.reg[18])
Scroll(chip) == chip.reg[23]

ScanTop(s) == s.y + 1
FrameTop(s) == IF s.y + 1 > 224 THEN s.y + 1 - 256 ELSE s.y + 1
LineTopBelow(chip, s) == (s.y + 1 - Scroll(chip)) % 256
LineTop(chip, s) ==
  LET top == (s.y + 1 - Scroll(chip)) % 256
  IN  IF top > Lines(chip) THEN top - 256 ELSE top
ShownTop(chip, s) == IF chip.v9938 THEN LineTop(chip, s) ELSE FrameTop(s)
Top(chip, by, s) == IF by = "Scan" THEN ScanTop(s) ELSE ShownTop(chip, s)

(* The sprites before the first end mark. *)
Listed(chip, by) ==
  LET at == SpriteTable(chip)
      ends == {i \in 0..31 : ReadBy(chip, by, at + 4 * i) = EndMark(chip)}
  IN  [i \in 0..(IF ends = {} THEN 32 ELSE Min(ends)) - 1 |->
         [y |-> ReadBy(chip, by, at + 4 * i), x |-> ReadBy(chip, by, at + 4 * i + 1),
          pat |-> ReadBy(chip, by, at + 4 * i + 2), col |-> ReadBy(chip, by, at + 4 * i + 3)]]

(* Sprite mode 2 has a colour byte for each line of each sprite, below the *)
(* attributes: colour and, in bit 7, 32 dots to the left.                  *)
ColourByte(chip, by, s, i, row) ==
  IF chip.v9938 THEN ReadBy(chip, by, SpriteTable(chip) - 512 + 16 * i + (row % 16)) ELSE s.col

Lit(chip, by, s, row, column) ==
  LET pattern == IF Side(chip) = 16 THEN 4 * (s.pat \div 4) ELSE s.pat
      at == PatternTable(chip) + 8 * pattern + row + (IF column >= 8 THEN 16 ELSE 0)
  IN  Bit(ReadBy(chip, by, at), 7 - (column % 8))

(* Whether sprite i has a dot px columns from the left, dy lines below its *)
(* first, when the plane is adjust dots to the left.                       *)
Covers(chip, by, s, i, adjust, px, dy) ==
  LET row == dy \div Scale(chip)
      colour == ColourByte(chip, by, s, i, row)
      dx == px - (s.x - adjust - (IF Bit(colour, 7) THEN 32 ELSE 0))
  IN  /\ colour % 16 # 0
      /\ dx \in 0..Span(chip) - 1
      /\ Lit(chip, by, s, row, dx \div Scale(chip))

(* The sprites on line y; the first n of a set. *)
On(chip, by, list, y) ==
  {i \in DOMAIN list : y - Top(chip, by, list[i]) \in 0..Span(chip) - 1}
FirstOf(S, n) == {i \in S : Cardinality({j \in S : j < i}) < n}

(* The dots two of these sprites both have on line y. *)
Meet(chip, by, list, drawn, y) ==
  \E i, j \in drawn :
    /\ i < j
    /\ \E px \in 0..255 \cap (list[i].x - 32)..(list[i].x + Span(chip)) :
         \A k \in {i, j} : Covers(chip, by, list[k], k, 0, px, y - Top(chip, by, list[k]))

(* The lines worth looking at: those of at least two sprites. *)
Crowded(chip, by, list) ==
  {y \in UNION {{Top(chip, by, list[i]) + d : d \in 0..Span(chip) - 1} : i \in DOMAIN list} :
     y \in 0..Lines(chip) - 1 /\ Cardinality(On(chip, by, list, y)) > 1}

-----------------------------------------------------------------------------
(* scanSprites. *)

SpritesShown(chip) == ~Bit(chip.reg[8], 1) /\ Bit(chip.reg[1], 6)

(* The number a line reports: of the first sprite past those it can draw.  *)
PastCount(on, n) == n + 1
Past(on, n) == Min(on \ FirstOf(on, n)) % 32

Scanned(chip, status, list) ==
  LET n == PerLine(chip)
      lines == Crowded(chip, "Scan", list)
      on == [y \in lines |-> On(chip, "Scan", list, y)]
      over == {y \in lines : Cardinality(on[y]) > n}
  IN  [status EXCEPT
        !.touched = @ \/ \E y \in lines : Meet(chip, "Scan", list, FirstOf(on[y], n), y),
        !.fifth = @ \/ over # {},
        !.number = IF status.fifth \/ over = {} THEN @ ELSE Past(on[Min(over)], n)]

Scan(chip, status) ==
  IF SpritesShown(chip) THEN Scanned(chip, status, Listed(chip, "Scan")) ELSE status

-----------------------------------------------------------------------------
(* The renderer. On the first chip a whole sprite is drawn, and one near   *)
(* the end of the numbers comes in from the top; on the later one a line   *)
(* at a time, moved with the picture, and no more than there may be.       *)

ShownOn(chip, list, y) == On(chip, "Renderer", list, y)
LineDrawn(chip, list, y) ==
  IF Bit(chip.reg[8], 1) THEN {} ELSE FirstOf(ShownOn(chip, list, y), 8)
ShownDrawn(chip, list, y) ==
  IF chip.v9938 THEN LineDrawn(chip, list, y) ELSE ShownOn(chip, list, y)

(* A dot of the sprites' own grid is two of a wide screen's. *)
Grid(chip) == DotsPerLine(chip) \div 256

(* Of the sprites drawn, those with a dot at column x of line y.           *)
LineSpritesAt(chip, list, drawn, x, y) ==
  {i \in drawn : Covers(chip, "Renderer", list[i], i, Adjust(chip), x \div Grid(chip),
                        y - LineTop(chip, list[i]))}
FrameSpritesAt(chip, list, drawn, x, y) ==
  {i \in drawn : Covers(chip, "Renderer", list[i], i, 0, x, y - FrameTop(list[i]))}
SpritesAt(chip, list, drawn, x, y) ==
  IF chip.v9938 THEN LineSpritesAt(chip, list, drawn, x, y)
  ELSE FrameSpritesAt(chip, list, drawn, x, y)
SpriteColour(chip, list, i, y) ==
  ColourByte(chip, "Renderer", list[i], i, (y - ShownTop(chip, list[i])) \div Scale(chip)) % 16
=============================================================================
