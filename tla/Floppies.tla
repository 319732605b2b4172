------------------------------ MODULE Floppies ------------------------------
(***************************************************************************)
(* What the file calls of a disk operating system promise a program: each  *)
(* floppy holds files by name, a write changes one record of one file at   *)
(* once, and everything else a program or a player does -- opening,        *)
(* closing, searching, selecting a drive, swapping floppies -- changes no  *)
(* file.  Dos implements this with files held whole in memory and written  *)
(* back later.                                                             *)
(***************************************************************************)
EXTENDS Integers, Sequences

CONSTANTS
  Images,    \* the floppies
  Names,     \* the names a program uses
  Values,    \* what it writes to a record
  Positions  \* the records it writes

(* The name is not on the floppy: no record holds this.                    *)
Missing == <<-1>>

(* A record put into a file, which grows with empty records to fit.        *)
Put(data, pos, v) ==
  [i \in 1..(IF pos < Len(data) THEN Len(data) ELSE pos + 1) |->
     IF i = pos + 1 THEN v ELSE IF i <= Len(data) THEN data[i] ELSE 0]

VARIABLE files  \* what each name holds on each floppy

Held(d, n) == IF files[d][n] = Missing THEN << >> ELSE files[d][n]

Write(d, n, pos, v) == files' = [files EXCEPT ![d][n] = Put(Held(d, n), pos, v)]
Create(d, n) == files' = [files EXCEPT ![d][n] = << >>]
Delete(d, n) == files[d][n] # Missing /\ files' = [files EXCEPT ![d][n] = Missing]

Next == \E d \in Images, n \in Names :
          \/ \E pos \in Positions, v \in Values : Write(d, n, pos, v)
          \/ Create(d, n) \/ Delete(d, n)
=============================================================================
