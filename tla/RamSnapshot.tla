---------------------------- MODULE RamSnapshot ----------------------------
(***************************************************************************)
(* RamMapper with the snapshots of snapshot.go: F9 writes the machine to a *)
(* file, F10 reads it back into the running machine, and -loadstate into a *)
(* new one that has not booted.  walk visits the same fields both ways; of *)
(* this component it leaves out the alias table, which LoadState rebuilds, *)
(* and whether the stores have been made.                                  *)
(***************************************************************************)
EXTENDS RamMapper

VARIABLES
  saved,      \* the snapshot on disk, none before the first
  promised,   \* history: the segments and their bytes when it was taken,
              \* and whether the mapper had been used by then
  early       \* history: one taken before that has been loaded

snapVars == <<vars, saved, promised, early>>

Unsaved == [window |-> << >>]

Machine == [window |-> window, store |-> store, seg |-> seg, paged |-> paged,
            under |-> under, open |-> open, reg |-> reg]

SnapInit == Init /\ saved = Unsaved /\ promised = << >> /\ early = FALSE

SaveState ==
  /\ saved' = Machine
  /\ promised' = <<Seg, SegmentRam, made>>
  /\ UNCHANGED <<vars, early>>

(* walk, reading: the fields that are restored as they were written.       *)
Walk ==
  /\ saved # Unsaved
  /\ window' = saved.window /\ seg' = saved.seg
  /\ paged' = saved.paged /\ under' = saved.under
  /\ open' = saved.open /\ reg' = saved.reg
  /\ early' = (early \/ ~ promised[3])
  /\ UNCHANGED <<saved, promised>>

(* The stores of the machine that loads, one just made or this one.        *)
Mine(fresh) == IF fresh THEN NoStore ELSE store
MadeBy(fresh) == (~ fresh /\ made) \/ DOMAIN Mine(fresh) # DOMAIN saved.store

(* Mutants of LoadState: the segments no page shows are left behind; the   *)
(* alias table is left as the machine had it.                              *)
LoadWindows(fresh) ==
  /\ Walk
  /\ store' = [s \in DOMAIN saved.store |->
                IF s \in DOMAIN Mine(fresh) THEN Mine(fresh)[s] ELSE 0]
  /\ made' = MadeBy(fresh)
  /\ alias' = AliasOf(saved.seg) /\ aliased' = AliasedIn(saved.seg)
LoadAliases(fresh) ==
  /\ Walk
  /\ store' = saved.store /\ made' = MadeBy(fresh)
  /\ alias' = alias /\ aliased' = (aliased /\ ~ fresh)

(* The number of stores travels with the snapshot; when this machine has   *)
(* another number they are made anew, be it none at all, and ramStore is   *)
(* not nil from then on.                                                   *)
LoadState(fresh) ==
  /\ Walk
  /\ store' = saved.store /\ made' = MadeBy(fresh)
  /\ alias' = AliasOf(saved.seg) /\ aliased' = AliasedIn(saved.seg)

(* What a machine does after such a load, with no stores to switch to, is  *)
(* not modelled: another snapshot can be loaded.                           *)
SnapNext ==
  \/ ~ early /\ Next /\ UNCHANGED <<saved, promised, early>>
  \/ ~ early /\ SaveState
  \/ \E fresh \in BOOLEAN : LoadState(fresh)

SnapSpec == SnapInit /\ [][SnapNext]_snapVars

-----------------------------------------------------------------------------

(* LoadState "puts a machine back as SaveState left it" (snapshot.go:61):  *)
(* whatever the machine did since, or a new one in its place, every page   *)
(* shows the segment it showed and every segment, shown or in its store,   *)
(* holds the bytes it held. Not so for a snapshot taken before the mapper  *)
(* was first used: it carries no stores (snapshot.go:159).                 *)
LoadRestores ==
  [][\A fresh \in BOOLEAN : LoadState(fresh) /\ promised[3] =>
       Seg' = promised[1] /\ SegmentRam' = promised[2]]_snapVars

(* With snapshots loaded, of this run or another, pages showing one        *)
(* segment still show one memory.                                          *)
SameRAMLoaded == ~ early => SameRAM
=============================================================================
