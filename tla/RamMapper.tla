----------------------------- MODULE RamMapper -----------------------------
(***************************************************************************)
(* The memory mapper of a disk machine, on one flat 64K memory             *)
(* (rammapper.go, and wr in memory.go), and the sound cartridge that       *)
(* swaps itself into page two of the same memory (sndcart.go).             *)
(*                                                                         *)
(* A segment change copies: the page that goes away is put back in its     *)
(* segment's store, and the one arriving is copied in, from another window *)
(* when one shows it, because its store is stale while it is mapped.       *)
(* While two windows show one segment a write is mirrored into the other.  *)
(*                                                                         *)
(* One byte stands for the sixteen K of a page: every operation works on   *)
(* the same offset of each page.  In page two the offset is one of the     *)
(* chip's registers, 9800h-9FFFh; a write to the bank register at 9000h    *)
(* is CartBank.                                                            *)
(***************************************************************************)
EXTENDS Integers, FiniteSets

CONSTANTS
  Segments,   \* ramSegments
  Values,     \* the bytes a program writes
  HasMapper,  \* hasRAMMapper: no cartridge image, so the ports answer
  SoundCart,  \* a sound cartridge is in the free slot
  RomPages,   \* the pages that are cartridge ROM (rom8k)
  MapPages,   \* the pages whose ports the program uses
  Habits      \* what the program refrains from, of AllHabits

Pages == 0..3
Segs == 0..Segments - 1
CartPage == 2
WorkPage == 3    \* the page of the BIOS work area

Empty == 255     \* sndEmpty
Rom == 256       \* a byte of the cartridge's image
Bytes == Values \cup {0, Empty, Rom}

(* What a careful program does: it shows a segment in at most two pages;   *)
(* while the sound cartridge is paged in, it leaves page two's segment     *)
(* alone and shows it nowhere else; and it takes no interrupt while the    *)
(* work area's segment is shown in another page.                           *)
AllHabits == {"twoWindows", "cartAlone", "workAlone"}

ASSUME MapperAssumption ==
  /\ Segments \in Nat /\ Segments >= 4
  /\ Values \subseteq 0..255
  /\ HasMapper \in BOOLEAN /\ SoundCart \in BOOLEAN
  /\ RomPages \subseteq Pages /\ (HasMapper => RomPages = {})
  /\ MapPages \subseteq Pages
  /\ Habits \subseteq AllHabits

VARIABLES
  window,   \* Mem, a byte for each page
  made,     \* ramStore is not nil
  store,    \* ramStore: the byte of each segment, no segments before it is made
  seg,      \* ramSeg
  alias,    \* ramAlias: another page showing the same segment, or -1
  aliased,  \* ramAliased
  paged,    \* SndCart.paged
  under,    \* SndCart.under, the RAM behind the cartridge
  open,     \* sccWindowLive: the bank register shows the chip
  reg       \* SndCart.sccRegs

ram == <<window, made, store, seg, alias, aliased>>
cart == <<paged, under, open, reg>>
vars == <<window, made, store, seg, alias, aliased, paged, under, open, reg>>

(* Mutant of PowerOn: the first page starts one segment too high.          *)
PowerOnHigh == [p \in Pages |-> 4 - p]
PowerOn == [p \in Pages |-> 3 - p]
NoStore == [s \in {} |-> 0]

(* initRAMMapper: the segments and the stores, made on the first use.      *)
Seg == IF made THEN seg ELSE PowerOn
Store == IF made THEN store ELSE [s \in Segs |-> 0]

First(S) == CHOOSE p \in S : \A q \in S : p <= q

Others(p, s, sg) == {q \in Pages \ {p} : sg[q] = s}

(* recomputeAliases: the first other page showing the same segment.        *)
AliasOf(sg) ==
  [p \in Pages |-> LET shared == Others(p, sg[p], sg)
                   IN IF shared = {} THEN -1 ELSE First(shared)]
AliasedIn(sg) == \E p \in Pages : Others(p, sg[p], sg) # {}

(* setRAMSegment's copies: the page that goes away is put back in its      *)
(* segment's store; the one arriving comes from another window that shows  *)
(* it, or else from its store.                                             *)
(* Mutant of Kept: nothing is put back.                                    *)
KeptNothing(p) == Store
Kept(p) == [Store EXCEPT ![Seg[p]] = window[p]]
Arriving(p, s) ==
  LET shown == Others(p, s, Seg)
  IN IF shown = {} THEN Kept(p)[s] ELSE window[First(shown)]

(* What the cartridge shows, and the RAM of a page whatever stands before  *)
(* it.                                                                     *)
CartView == IF open THEN reg ELSE Empty
RamIn(p) == IF paged /\ p = CartPage THEN under ELSE window[p]

-----------------------------------------------------------------------------

Init ==
  /\ window = [p \in Pages |-> IF p \in RomPages THEN Rom ELSE 0]
  /\ made = FALSE /\ store = NoStore
  /\ seg = [p \in Pages |-> 0]
  /\ alias = [p \in Pages |-> 0] /\ aliased = FALSE
  /\ paged = FALSE /\ under = 0 /\ open = FALSE /\ reg = 0

(* Mutant of Write: a shared segment is written in one window only.        *)
WriteOnce(p, v) ==
  /\ ~ (paged /\ p = CartPage)
  /\ p \notin RomPages
  /\ window' = [window EXCEPT ![p] = v]
  /\ UNCHANGED <<made, store, seg, alias, aliased, cart>>

(* A write by an instruction or by a disk transfer: the mapper's windows,  *)
(* past the sound cartridge and the ROM.                                   *)
Write(p, v) ==
  /\ ~ (paged /\ p = CartPage)
  /\ p \notin RomPages
  /\ window' = [q \in Pages |->
                  IF q = p \/ (aliased /\ q = alias[p]) THEN v ELSE window[q]]
  /\ UNCHANGED <<made, store, seg, alias, aliased, cart>>

(* biosInterrupt moves the keyboard matrix into the work area, past wr.    *)
WorkWrite(v) ==
  /\ WorkPage \notin RomPages
  /\ "workAlone" \in Habits => Others(WorkPage, Seg[WorkPage], Seg) = {}
  /\ window' = [window EXCEPT ![WorkPage] = v]
  /\ UNCHANGED <<made, store, seg, alias, aliased, cart>>

(* Reading a port, selecting the segment that is there already, or the     *)
(* kernel counting its memory: nothing but initRAMMapper.                  *)
Touch ==
  /\ HasMapper
  /\ ~ made
  /\ made' = TRUE /\ store' = Store /\ seg' = Seg
  /\ UNCHANGED <<window, alias, aliased, cart>>

(* setRAMSegment(p, n), when it changes the segment.                       *)
SetSegment(p, n) ==
  LET new == n % Segments
      shown == Others(p, new, Seg)
      after == [Seg EXCEPT ![p] = new]
  IN /\ HasMapper
     /\ made => store # NoStore
     /\ new # Seg[p]
     /\ "twoWindows" \in Habits => \A q, r \in shown : q = r
     /\ "cartAlone" \in Habits /\ paged => p # CartPage /\ CartPage \notin shown
     /\ made' = TRUE
     /\ store' = Kept(p)
     /\ window' = [window EXCEPT ![p] = Arriving(p, new)]
     /\ seg' = after
     /\ alias' = AliasOf(after) /\ aliased' = AliasedIn(after)
     /\ UNCHANGED cart

(* The slot register, WSLREG and ENASLT: sndRepage.                        *)
SelectSlot(b) ==
  /\ SoundCart
  /\ b # paged
  /\ "cartAlone" \in Habits /\ b => Others(CartPage, Seg[CartPage], Seg) = {}
  /\ paged' = b
  /\ IF b
     THEN /\ under' = window[CartPage]
          /\ window' = [window EXCEPT ![CartPage] = CartView]
     ELSE /\ under' = under
          /\ window' = [window EXCEPT ![CartPage] = under]
  /\ UNCHANGED <<made, store, seg, alias, aliased, open, reg>>

(* sndShow: the cartridge's view is put in the memory where it is read.    *)
Show(view) == window' = IF paged THEN [window EXCEPT ![CartPage] = view] ELSE window

(* sndCartWrite to a register, through page two or through WRSLT.          *)
CartWrite(v) ==
  /\ SoundCart
  /\ open
  /\ reg' = v
  /\ Show(v)
  /\ UNCHANGED <<made, store, seg, alias, aliased, paged, under, open>>

(* Mutant of CartBank: the new view is not put in the memory.              *)
CartBankHidden(b) ==
  /\ SoundCart
  /\ open' = b
  /\ UNCHANGED <<window, made, store, seg, alias, aliased, paged, under, reg>>

(* sndCartWrite to the bank register.                                      *)
CartBank(b) ==
  /\ SoundCart
  /\ open' = b
  /\ Show(IF b THEN reg ELSE Empty)
  /\ UNCHANGED <<made, store, seg, alias, aliased, paged, under, reg>>

Next ==
  \/ \E p \in Pages, v \in Values : Write(p, v)
  \/ \E v \in Values : WorkWrite(v) \/ CartWrite(v)
  \/ Touch
  \/ \E p \in MapPages, n \in 0..Segments : SetSegment(p, n)
  \/ \E b \in BOOLEAN : SelectSlot(b) \/ CartBank(b)

Spec == Init /\ [][Next]_vars

-----------------------------------------------------------------------------

TypeOK ==
  /\ window \in [Pages -> Bytes]
  /\ made \in BOOLEAN
  /\ store \in [Segs -> Bytes] \cup {NoStore}
  /\ seg \in [Pages -> Segs]
  /\ alias \in [Pages -> -1..3] /\ aliased \in BOOLEAN
  /\ paged \in BOOLEAN /\ under \in Bytes
  /\ open \in BOOLEAN /\ reg \in Bytes

(* Two pages that show one segment show the same bytes, whatever was       *)
(* written through either and wherever the segment has been since: "both   *)
(* windows are the same RAM" (rammapper.go:59).                            *)
SameRAM == \A p, q \in Pages : Seg[p] = Seg[q] => RamIn(p) = RamIn(q)

(* While the sound cartridge is paged in, page two of the memory is what   *)
(* the cartridge shows there (sndcart.go:51): a plain read finds it, and   *)
(* no mirrored write and no segment change has covered it.                 *)
CartShown == paged => window[CartPage] = CartView

(* The bytes of each segment: where a page shows it, that page; where none *)
(* does, its store.                                                        *)
SegmentRam ==
  [s \in Segs |-> LET shown == {p \in Pages : Seg[p] = s}
                  IN IF shown = {} THEN Store[s] ELSE RamIn(First(shown))]

Paged == INSTANCE PagedRam WITH ram <- SegmentRam, seg <- Seg, front <- paged

(* The flat memory with its copies behaves as a mapper does: every step is *)
(* a step of PagedRam or changes nothing a program can see.  No byte is    *)
(* lost when its segment leaves the address space, none is rolled back     *)
(* when it returns, and none is seen in a segment that was not written.    *)
ImplementsPagedRam == Paged!Spec

(* The memory is what a program with a real mapper would see: a segment is *)
(* one RAM wherever it is shown, and the cartridge is what is in front.    *)
MemoryIsShared == TypeOK /\ SameRAM /\ CartShown
=============================================================================
