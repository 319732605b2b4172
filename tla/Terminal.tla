------------------------------ MODULE Terminal ------------------------------
(* What a console promises: a sheet of rows, a cursor on it, characters    *)
(* that appear where the cursor is, and a sheet that moves up by a row     *)
(* when the cursor would leave it at the bottom.                           *)
EXTENDS Naturals, Sequences, SequencesExt

CONSTANTS Width, Height, Marks, Blank

VARIABLES
  sheet,    \* the rows, top to bottom, each a sequence of characters
  at        \* the cursor: [x, y], from 1

EmptyRow == [x \in 1..Width |-> Blank]
Home == [x |-> 1, y |-> 1]

Init == sheet \in [1..Height -> [1..Width -> Marks \cup {Blank}]] /\ at = Home

(* To column x of the next row, on paper s. *)
NewRow(s, x) ==
  IF at.y = Height THEN at' = [at EXCEPT !.x = x] /\ sheet' = Append(Tail(s), EmptyRow)
  ELSE at' = [x |-> x, y |-> at.y + 1] /\ sheet' = s

Type(c) ==
  LET printed == [sheet EXCEPT ![at.y][at.x] = c]
  IN  IF at.x = Width THEN NewRow(printed, 1)
      ELSE at' = [at EXCEPT !.x = @ + 1] /\ sheet' = printed

Return == at' = [at EXCEPT !.x = 1] /\ UNCHANGED sheet
LineFeed == NewRow(sheet, at.x)

(* Back over a character, which is rubbed out. *)
Back ==
  /\ at.x > 1
  /\ at' = [at EXCEPT !.x = @ - 1]
  /\ sheet' = [sheet EXCEPT ![at.y][at.x - 1] = Blank]

Move(x, y) == at' = [x |-> x, y |-> y] /\ UNCHANGED sheet
Clear == at' = Home /\ sheet' = [y \in 1..Height |-> EmptyRow]

Next ==
  \/ \E c \in Marks \cup {Blank} : Type(c)
  \/ Return \/ LineFeed \/ Back \/ Clear
  \/ \E x \in 1..Width, y \in 1..Height : Move(x, y)

Spec == Init /\ [][Next]_<<sheet, at>>
=============================================================================
