------------------------------ MODULE PagedRam ------------------------------
(***************************************************************************)
(* What an MSX2 memory mapper promises the program: segments of RAM, four  *)
(* registers that say which segment each page of the address space shows,  *)
(* and a sound cartridge that can stand in front of page two.  A segment   *)
(* is the same RAM in every page that shows it, and keeps its bytes while  *)
(* none does.  RamMapper implements this on one flat memory.               *)
(*                                                                         *)
(* One byte stands for the sixteen K of a segment: no operation moves a    *)
(* byte to another offset.                                                 *)
(***************************************************************************)
EXTENDS Integers

CONSTANTS
  Segments,   \* how many segments the machine has
  Values,     \* the bytes a program writes
  Empty       \* what a cartridge address with nothing behind it reads as

Pages == 0..3
Segs == 0..Segments - 1
CartPage == 2

(* The segments at power-on: counting down, page three showing segment 0.  *)
PowerOn == [p \in Pages |-> 3 - p]

VARIABLES
  ram,    \* the byte of each segment
  seg,    \* the segment register of each page
  front,  \* the sound cartridge is selected in page two
  open,   \* its bank register shows the chip's registers
  reg     \* the byte of the chip's registers

vars == <<ram, seg, front, open, reg>>

CartView == IF open THEN reg ELSE Empty

(* What the program reads in a page.                                       *)
Reads(p) == IF front /\ p = CartPage THEN CartView ELSE ram[seg[p]]

Init ==
  /\ ram = [s \in Segs |-> 0]
  /\ seg = PowerOn
  /\ front = FALSE /\ open = FALSE /\ reg = 0

Write(p, v) ==
  /\ ~ (front /\ p = CartPage)
  /\ ram' = [ram EXCEPT ![seg[p]] = v]
  /\ UNCHANGED <<seg, front, open, reg>>

Map(p, s) ==
  /\ seg' = [seg EXCEPT ![p] = s]
  /\ UNCHANGED <<ram, front, open, reg>>

SelectSlot(b) ==
  /\ front' = b
  /\ UNCHANGED <<ram, seg, open, reg>>

CartWrite(v) ==
  /\ open
  /\ reg' = v
  /\ UNCHANGED <<ram, seg, front, open>>

CartBank(b) ==
  /\ open' = b
  /\ UNCHANGED <<ram, seg, front, reg>>

Next ==
  \/ \E p \in Pages, v \in Values : Write(p, v)
  \/ \E p \in Pages, s \in Segs : Map(p, s)
  \/ \E b \in BOOLEAN : SelectSlot(b) \/ CartBank(b)
  \/ \E v \in Values : CartWrite(v)

Spec == Init /\ [][Next]_vars
=============================================================================
