------------------------------ MODULE MCVideo ------------------------------
(* Small programs that use the video chip. A run of the model is about one *)
(* part of the chip, its focus, and ends after so many steps.              *)
EXTENDS Video

VARIABLES focus, steps
MaxSteps == [Ports |-> 5, Draw |-> 1, Transfer |-> 6, Raster |-> 9]

With(reg0, more) == [r \in 0..63 |-> IF r = 0 THEN reg0
                                     ELSE IF r \in DOMAIN more THEN more[r] ELSE 0]
(* An MSX1 chip with a register pointer and one that reads status 1.       *)
(* The bytes are at the end of the first 16K, of the second and of all.    *)
Cells16 == (0 :> 1) @@ (1 :> 2) @@ (16382 :> 3) @@ (16383 :> 4)
Cells128 == Cells16 @@ (16384 :> 5) @@ (131071 :> 6) @@ (65536 :> 7) @@ (65537 :> 8)
PortStarts == {[reg |-> With(0, << >>), vram |-> Cells16, v9938 |-> FALSE],
               [reg |-> With(6, (15 :> 1) @@ (17 :> 14)), vram |-> Cells128, v9938 |-> TRUE],
               [reg |-> With(10, (17 :> 128 + 15)), vram |-> Cells128, v9938 |-> TRUE]}

(* SCREEN 5, 6, 7 and 8, with a picture at both edges of lines 0 to 3.     *)
Around == {0, 1, 126, 127, 128, 129, 254, 255, 256, 257, 65536, 65537, 65663, 65664}
Picture == [a \in Around |-> (37 * a + 18) % 256]
ModeStarts == {[reg |-> With(m, (15 :> 7)), vram |-> Picture, v9938 |-> TRUE] :
                 m \in {6, 8, 10, 14}}
MCStarts == PortStarts \cup ModeStarts

MCCtrl == {0, 63, 127, 255, 128 + 14, 128 + 15}
MCData == {113}
MCAddrs == {16383, 131071}
MCRegWrites == {<<7, 1>>, <<7, 2>>, <<9, 128>>, <<23, 1>>, <<44, 201>>, <<46, 0>>}

(* Rectangles at the left and right edges and the first and second line.   *)
Draws(kinds, ops, widths, argBytes) ==
  {[sx |-> s, sy |-> 0, dx |-> d, dy |-> dy, nx |-> w, ny |-> h, clr |-> 93, arg |-> a,
    cmd |-> 16 * k + op] :
     s \in {0, 1}, d \in {0, 3, 255}, dy \in {0, 1}, w \in widths, h \in {1, 2},
     a \in argBytes, k \in kinds, op \in ops}
PixelDraws == Draws({5, 8, 9}, {0, 3, 8}, {1, 2, 513}, {0, 12})
ByteDraws == Draws({12, 13, 14}, {0}, {1, 5}, {0, 4, 8})
LineDraws == {b \in Draws({7}, {0}, {2, 5}, {0, 1, 13}) : b.sx = 0}
Others == {b \in Draws({4, 6}, {0}, {1}, {0, 1, 8}) : b.dx = 0 /\ b.dy = 0 /\ b.ny = 1}
Transfers == {b \in Draws({10, 11, 15}, {0}, {1, 4}, {0, 12}) :
                b.sx = 1 /\ b.dx = 3 /\ b.dy = 1}
Between == {b \in Others : b.arg = 0 /\ b.sx = 0}
MCBlocks == PixelDraws \cup ByteDraws \cup LineDraws \cup Others \cup Transfers

MCInit ==
  /\ Init
  /\ steps = 0
  /\ focus \in IF chip.vram = Picture THEN {"Draw", "Transfer", "Raster"} ELSE {"Ports"}
  /\ focus = "Raster" => chip.reg[0] = 6

(* A log's writes are of the registers that split a screen; a program that *)
(* makes the picture taller does it in the blanking.                       *)
Part ==
  CASE focus = "Ports" -> Ports \/ Interrupts
    [] focus = "Draw" -> \E b \in MCBlocks \ Transfers : StartCommand(b)
    [] focus = "Transfer" ->
         \/ \E b \in IF steps = 0 THEN Transfers ELSE Between : StartCommand(b)
         \/ \E w \in MCRegWrites : w[1] \in {44, 46} /\ WriteRegister(w[1], w[2])
         \/ ReadStatus \/ Finish
    [] OTHER -> \/ Frames
                \/ \E w \in MCRegWrites : /\ w[1] \in SplitRegs \cup {9}
                                          /\ WriteRegister(w[1], w[2]) /\ HeightInBlanking

MCNext == /\ steps < MaxSteps[focus]
          /\ steps' = steps + 1
          /\ UNCHANGED focus
          /\ Part
MCSpec == MCInit /\ [][MCNext]_<<vars, focus, steps>>
=============================================================================
