-------------------------------- MODULE Bios --------------------------------
(* The BIOS as a program sees it: the screen's entries, and for a program  *)
(* that asks for keys the keyboard's.  The two share no state.             *)
EXTENDS Screen, Keyboard

biosVars == <<vars, keyVars>>

BiosInit == Init /\ KeysInit

Asks == "CHGET" \in program.calls
Looks == Asks /\ CHGET

BiosNext ==
  \/ Next /\ UNCHANGED keyVars
  \/ Asks /\ KeysNext /\ UNCHANGED vars

(* CHGET does not wait: a program that wants a key asks again and again.   *)
BiosSpec == BiosInit /\ [][BiosNext]_biosVars /\ WF_keyVars(Looks)
=============================================================================
