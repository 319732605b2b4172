---------------------------- MODULE MCInterrupts ----------------------------
(* The programs Interrupts is model-checked with.  A program is any        *)
(* sequence of the instructions of its set.                                *)
EXTENDS Interrupts

(* A game loop and its handlers: interrupts on and off, flags polled, the  *)
(* line interrupt aimed and masked, and every way out of a handler.        *)
GameOps == {"ei", "di", "ret", "readS0", "readS1", "writeR0", "writeR19",
            "unwind", "halt", "hijack"}

(* A handler that overruns its frame, never returns, idles, installs and   *)
(* removes hooks, or changes the display height.                           *)
HandlerOps == {"ei", "ret", "self", "hook", "writeR9"}
=============================================================================
