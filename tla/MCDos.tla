------------------------------- MODULE MCDos -------------------------------
(* The machine Dos is model-checked with: two floppies, the second with    *)
(* room for one file only, and a program that keeps to every habit.        *)
EXTENDS Dos, TLC

Careful == AllHabits
TwoAndOne == [d \in {0, 1} |-> 2 - d]
Listing == {AnyName}
Interchangeable == Permutations(Blocks) \cup Permutations(Names)
=============================================================================
