------------------------------- MODULE MCDisk -------------------------------
(* The floppies Disk is model-checked on, and what is saved to them: an    *)
(* empty file, one that fills no cluster, one whole cluster, and one that  *)
(* runs on into a second and out of order would read differently.          *)
EXTENDS Disk

Several == {<< >>, <<1>>, <<2, 1>>, <<1, 2, 2>>}
OneSector == {<<3, 1>>}
=============================================================================
