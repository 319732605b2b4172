------------------------------- MODULE Canvas -------------------------------
(* What a program means by drawing on a bitmap screen: some pages of dots, *)
(* and calls that draw a box, move a rectangle, or fill one with a row of  *)
(* colours.                                                                *)
EXTENDS Integers, Sequences

CONSTANTS PageNames, Columns, Rows   \* the dots that are looked at

VARIABLES
  canvas,  \* the colour of each dot of each page
  call     \* the last call, which is the program's to make

Dots == Columns \X Rows

Inside(d, c) ==
  /\ (c.x1 <= d[1] /\ d[1] <= c.x2) \/ (c.x2 <= d[1] /\ d[1] <= c.x1)
  /\ (c.y1 <= d[2] /\ d[2] <= c.y2) \/ (c.y2 <= d[2] /\ d[2] <= c.y1)
OnEdge(d, c) == Inside(d, c) /\ (d[1] \in {c.x1, c.x2} \/ d[2] \in {c.y1, c.y2})

(* A colour laid on another: in its place, its bits turned, or not at all. *)
BitsOf(v) == {i \in 0..7 : (v \div 2 ^ i) % 2 = 1}
Laid(old, new, rule) ==
  CASE rule = "Put" -> new
    [] rule = "Turn" -> CHOOSE v \in 0..255 :
         BitsOf(v) = (BitsOf(old) \cup BitsOf(new)) \ (BitsOf(old) \cap BitsOf(new))
    [] rule = "PutUnlessZero" -> IF new = 0 THEN old ELSE new

(* Where a dot comes in a rectangle, its lines one after another.          *)
Place(d, c) == (d[2] - c.y1) * (c.x2 - c.x1 + 1) + d[1] - c.x1 + 1

(* The colour of a dot after a call. Colours that are too few for their    *)
(* rectangle leave the rest of it as it was.                               *)
After(page, d, c) ==
  LET old == canvas[page][d]
  IN  CASE c.kind = "Box" /\ page = c.page
              /\ (IF c.filled THEN Inside(d, c) ELSE OnEdge(d, c))
             -> Laid(old, c.colour, c.rule)
        [] c.kind = "Move" /\ page = c.page /\ Inside(d, c)
             -> canvas[c.from][<<d[1] - c.right, d[2] - c.down>>]
        [] c.kind \in {"Fill", "FillPart"} /\ page = c.page /\ Inside(d, c)
              /\ Place(d, c) <= Len(c.colours)
             -> c.colours[Place(d, c)]
        [] OTHER -> old

Init == canvas \in [PageNames -> [Dots -> 0..255]]
Next == canvas' = [page \in PageNames |-> [d \in Dots |-> After(page, d, call')]]

Spec == Init /\ [][Next]_<<canvas, call>>
=============================================================================
