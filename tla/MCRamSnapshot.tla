--------------------------- MODULE MCRamSnapshot ---------------------------
(* The instances RamSnapshot is model-checked on.                          *)
EXTENDS RamSnapshot

Careful == AllHabits
=============================================================================
