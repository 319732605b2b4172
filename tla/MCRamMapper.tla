---------------------------- MODULE MCRamMapper ----------------------------
(* The program RamMapper is model-checked with keeps to every habit.       *)
EXTENDS RamMapper

Careful == AllHabits
=============================================================================
