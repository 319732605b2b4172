-------------------------------- MODULE Z80 ---------------------------------
(* What both engines promise: the processor of interp.go's step, one       *)
(* instruction after another, with the program counter where it should be. *)
EXTENDS Instructions

VARIABLE cpu

Init == cpu.pc \in 0..65535
Step == \E now \in {cpu} : \E i \in {Decoded(now)} :
          cpu' = Performed([now EXCEPT !.pc = i.end], i)
Spec == Init /\ [][Step]_cpu
=============================================================================
