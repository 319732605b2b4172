----------------------------- MODULE MCPicture -----------------------------
(* Small programs that draw and that move sprites.                         *)
EXTENDS Picture

VARIABLES steps

Regs(f) == [r \in 0..63 |-> IF r \in DOMAIN f THEN f[r] ELSE 0]
ChipOf(later, f) ==
  [v9938 |-> later, reg |-> Regs(f), vram |-> << >>, xfer |-> NoTransfer,
   working |-> FALSE, stat7 |-> 0, stat8 |-> 0, stat9 |-> 0, found |-> FALSE]

(* SCREEN 5, 6, 7 and 8, with a picture on both pages.                     *)
Drawn(m) ==
  LET c == ChipOf(TRUE, 0 :> m @@ 1 :> 96 @@ 2 :> 31 @@ 7 :> 4 @@ 8 :> 10 @@ 9 :> 128
                          @@ 44 :> 1)
      cells == {Phys(c, PixelByte(c, x, 256 * p + y)) : x \in Columns, y \in Rows, p \in Pages}
  IN  [c EXCEPT !.vram = [a \in cells |-> (37 * a + 18) % 256]]

Corners == {<<2, 2, 0, 0>>, <<3, 0, 1, 2>>, <<1, 1, 1, 1>>, <<0, 255, 3, 255>>}
Inks == {<<2, 0>>, <<3, 3>>, <<0, 8>>}
DrawnBoxes == {[x1 |-> q[1], y1 |-> q[2], x2 |-> q[3], y2 |-> q[4], colour |-> n[1],
                op |-> n[2], filled |-> f] : q \in Corners, n \in Inks, f \in BOOLEAN}
Rectangles == {[dx |-> 1, dy |-> 0, nx |-> 3, ny |-> 2, count |-> 1, bytes |-> <<54, 147, 201, 29, 90, 180>>],
               [dx |-> 0, dy |-> 257, nx |-> 1, ny |-> 1, count |-> 1, bytes |-> <<228>>]}
ShortFiles == {[dx |-> 0, dy |-> 1, nx |-> 4, ny |-> 2, bytes |-> <<27>>]}
Moves == {[sx |-> s[1], sy |-> s[2], dx |-> s[3], dy |-> s[4], nx |-> 2, ny |-> 2] :
            s \in {<<0, 0, 2, 1>>, <<1, 257, 0, 0>>, <<2, 1, 1, 256>>}}
Draws(m) ==
  [chip |-> Drawn(m), boxes |-> DrawnBoxes, arrays |-> Rectangles, files |-> ShortFiles,
   blits |-> Moves, writes |-> {<<23, 255>>, <<18, 9>>, <<2, 63>>}, pokes |-> {},
   frames |-> FALSE]

(* Sprites. Pattern 0 has dots at its corners and edge, pattern 4 a row.    *)
Patterns(at) ==
  at :> 129 @@ (at + 5) :> 129 @@ (at + 15) :> 1 @@ (at + 16) :> 1 @@ (at + 31) :> 128
    @@ (at + 32) :> 255 @@ (at + 48) :> 240
Attributes(at, s) ==
  [a \in at..at + 4 * Len(s) - 1 |-> s[(a - at) \div 4 + 1][((a - at) % 4) + 1]]

FirstSprites == <<<<20, 8, 0, 15>>, <<20, 200, 4, 7>>, <<100, 8, 0, 3>>, <<20, 60, 4, 0>>,
                  <<21, 90, 0, 5>>, <<22, 200, 0, 129>>, <<208, 0, 0, 0>>>>
FirstTable == 6912
FirstChip ==
  [ChipOf(FALSE, 0 :> 2 @@ 1 :> 98 @@ 2 :> 6 @@ 3 :> 255 @@ 4 :> 3 @@ 5 :> 54 @@ 6 :> 7
                   @@ 7 :> 4)
     EXCEPT !.vram = Attributes(FirstTable, FirstSprites) @@ Patterns(14336)
       @@ 6144 :> 1 @@ (6144 + 7 * 32) :> 2 @@ (6144 + 8 * 32) :> 2 @@ (6144 + 23 * 32) :> 3
       @@ 8 :> 170 @@ 23 :> 240 @@ (2048 + 16) :> 15 @@ (4096 + 31) :> 129
       @@ 8200 :> 32 @@ 8215 :> 241 @@ (8192 + 2064) :> 110 @@ (8192 + 4127) :> 7]

LateSprites == <<<<20, 8, 0, 0>>, <<20, 9, 0, 0>>, <<20, 60, 4, 0>>, <<20, 64, 4, 0>>,
                 <<20, 100, 0, 0>>, <<20, 120, 0, 0>>, <<20, 140, 0, 0>>, <<21, 160, 0, 0>>,
                 <<50, 180, 0, 0>>, <<60, 200, 4, 0>>, <<216, 0, 0, 0>>>>
LateTable == 30208
LateColours ==
  [a \in LateTable - 512..LateTable - 512 + 16 * 11 - 1 |->
     LET i == (a - (LateTable - 512)) \div 16
         row == a % 16
     IN  IF i = 3 /\ row = 0 THEN 131 ELSE IF i = 2 THEN 0 ELSE i + 1]
LateChip ==
  [ChipOf(TRUE, 0 :> 6 @@ 1 :> 98 @@ 2 :> 31 @@ 5 :> 239 @@ 6 :> 15 @@ 7 :> 4 @@ 8 :> 8
                  @@ 9 :> 128)
     EXCEPT !.vram = Attributes(LateTable, LateSprites) @@ LateColours @@ Patterns(30720)
       @@ 0 :> 18 @@ (20 * 128 + 4) :> 52 @@ (255 * 128 + 127) :> 86]

Sprinkle(table, sprites, ys, xs) ==
  {<<table + 4 * i, y>> : i \in sprites, y \in ys} \cup {<<table + 4 * i + 1, x>> : i \in sprites, x \in xs}
Animates(set, writes, pokes) ==
  [chip |-> set, boxes |-> {}, arrays |-> {}, files |-> {}, blits |-> {}, writes |-> writes,
   pokes |-> pokes, frames |-> TRUE]

MCPrograms == {"Screen5", "Screen6", "Screen7", "Screen8", "First", "Late"}
MCDoes ==
  [Screen5 |-> Draws(6), Screen6 |-> Draws(8), Screen7 |-> Draws(10), Screen8 |-> Draws(14),
   First |-> Animates(FirstChip, {<<1, 96>>, <<1, 99>>, <<7, 0>>},
                      Sprinkle(FirstTable, {1, 2}, {19, 35, 208, 250}, {8, 23})),
   Late |-> Animates(LateChip, {<<1, 96>>, <<1, 99>>, <<23, 21>>, <<23, 240>>, <<18, 7>>,
                                <<18, 8>>, <<8, 34>>},
                     Sprinkle(LateTable, {4, 8}, {5, 216, 250}, {8, 250}))]

MaxSteps == IF Does[program].frames THEN 3 ELSE 2
MCInit == Init /\ steps = 0
MCNext == steps < MaxSteps /\ steps' = steps + 1 /\ Next
MCSpec == MCInit /\ [][MCNext]_<<vars, steps>>
=============================================================================
