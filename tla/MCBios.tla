------------------------------- MODULE MCBios -------------------------------
(* The programs the BIOS is model-checked with: two that change screens,   *)
(* tables and registers, one that looks at the copies of its palette and   *)
(* at its pages, two that print, on a tile and on a bitmap screen, and one *)
(* that reads keys.                                                        *)
EXTENDS Bios

ColdInk == [fore |-> 15, back |-> 4, border |-> 4]
WarmInk == [fore |-> 1, back |-> 2, border |-> 3]

(* A console of 2 by 3 in the name table at 6144, and in screen 5.         *)
TileCells == 6144..6149
BitmapCells == {0, 4, 1024, 1028, 2048, 2052}

(* Palette entry 1 in screens 1, 5 and 7 and two pages, with interleaving, *)
(* and a byte of each half of each page.                                   *)
PaletteCells == {8226, 30338, 32065, 64833, 0, 32768, 16384}

Changes == [calls |-> {"SETSCR", "CHGMOD", "TOTEXT", "WRTVDP", "DISSCR"},
            chars |-> {}, modes |-> {0, 1, 3, 4, 7}, cells |-> {}, mode |-> 9]
Moves == [calls |-> {"SETSCR", "CHGMOD", "TOTEXT", "CHGCLR", "INK", "MOVE"},
          chars |-> {}, modes |-> {0, 2, 6, 8}, cells |-> {}, mode |-> 9]
Paints == [calls |-> {"CHGMOD", "CLS", "CLRSPR", "SETPLT", "WRTVRM", "ACPAGE", "CHGCLR"},
           chars |-> {}, modes |-> {1, 5, 7}, cells |-> PaletteCells, mode |-> 9]
Types == [calls |-> {"CHGMOD", "CLS", "CHPUT"}, chars |-> {65, 66}, modes |-> {0, 1}, cells |-> TileCells, mode |-> 1]
Draws == [calls |-> {"CHGMOD", "CHPUT"}, chars |-> {65}, modes |-> {5}, cells |-> BitmapCells, mode |-> 5]
Reads == [calls |-> {"CHGET"}, chars |-> {}, modes |-> {}, cells |-> {}, mode |-> 9]
MCPrograms == {Changes, Moves, Paints, Types, Draws, Reads}

(* The keys at the ends of the matrix's rows, each alone; two or three at  *)
(* once of some; the window's arrows alone, and a tape's in every set.     *)
Hand(typed, arrows) == [typed |-> typed, arrows |-> arrows]
MCHands ==
  {Hand({h}, {}) : h \in {48, 55, 56, 57, 66, 67, 82, 83, 88, 13, 32}}
    \cup {Hand(typed, {}) : typed \in SUBSET {65, 66, 90}}
    \cup {Hand({}, arrows) : arrows \in {{d} : d \in Directions}}
MCSticks ==
  SUBSET Directions \cup {{"TriggerA"}, {"TriggerB"}, {"Up", "TriggerA", "TriggerB"}}

MCInks == {ColdInk, WarmInk}
MCTweaks == {<<1, 1>>, <<8, 1>>, <<9, 1>>}
=============================================================================
