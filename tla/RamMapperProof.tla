-------------------------- MODULE RamMapperProof --------------------------
(***************************************************************************)
(* Proofs about RamMapper and, at the end, RamSnapshot, for any number of  *)
(* segments and any bytes, of programs that keep every habit.              *)
(*                                                                         *)
(* SameRAM is not inductive: a write is repeated in one other window, so   *)
(* it keeps two windows equal only if the alias table names the other one, *)
(* if there is no third, and if the other window is not the sound          *)
(* cartridge's.  MapperInv adds those three.                               *)
(***************************************************************************)
EXTENDS RamSnapshot, TLAPS

(* At most two pages show one segment.                                     *)
Paired(sg) ==
  \A p, q, r \in Pages : sg[p] = sg[q] /\ sg[q] = sg[r] => p = q \/ q = r \/ p = r

(* The alias table is that of the segment registers.                       *)
AliasRight ==
  /\ aliased <=> AliasedIn(Seg)
  /\ aliased => alias = AliasOf(Seg)

(* No page shares its segment with the page the cartridge stands before.   *)
CartAlone == paged => \A q \in Pages \ {CartPage} : Seg[q] # Seg[CartPage]

Stored == made => store \in [Segs -> Bytes]

MapperInv ==
  /\ TypeOK
  /\ Stored
  /\ AliasRight
  /\ Paired(Seg)
  /\ CartAlone
  /\ SameRAM
  /\ CartShown

-----------------------------------------------------------------------------

(* First picks a member of any set of pages that has one.                  *)
LEMMA FirstIn == \A S \in SUBSET Pages : S # {} => First(S) \in S
<1> SUFFICES ASSUME NEW S \in SUBSET Pages, S # {}
             PROVE  \E p \in S : \A q \in S : p <= q
  BY DEF First
<1>1. CASE 0 \in S
  BY <1>1 DEF Pages
<1>2. CASE 0 \notin S /\ 1 \in S
  BY <1>2 DEF Pages
<1>3. CASE 0 \notin S /\ 1 \notin S /\ 2 \in S
  BY <1>3 DEF Pages
<1>4. CASE 0 \notin S /\ 1 \notin S /\ 2 \notin S
  <2>1. \A q \in S : q = 3
    BY <1>4 DEF Pages
  <2> QED BY <2>1
<1> QED BY <1>1, <1>2, <1>3, <1>4

(* The alias of a page shows its segment, and a page that shares its       *)
(* segment has one; when no segment has three windows it is the other one. *)
LEMMA AliasIs ==
  ASSUME NEW sg \in [Pages -> Segs], NEW p \in Pages
  PROVE  /\ AliasOf(sg)[p] \in -1..3
         /\ AliasOf(sg)[p] \in Pages =>
              AliasOf(sg)[p] # p /\ sg[AliasOf(sg)[p]] = sg[p]
         /\ \A q \in Pages :
              q # p /\ sg[q] = sg[p] /\ Paired(sg) => AliasOf(sg)[p] = q
<1> DEFINE shared == Others(p, sg[p], sg)
<1>1. AliasOf(sg)[p] = IF shared = {} THEN -1 ELSE First(shared)
  BY DEF AliasOf
<1>2. shared \in SUBSET Pages
  BY DEF Others
<1>3. shared # {} => First(shared) \in shared
  BY <1>2, FirstIn
<1>4. \A q \in shared : q \in Pages /\ q # p /\ sg[q] = sg[p]
  BY DEF Others
<1>5. \A q \in Pages : q # p /\ sg[q] = sg[p] => q \in shared
  BY DEF Others
<1>6. AliasOf(sg)[p] \in -1..3
  BY <1>1, <1>3, <1>4 DEF Pages
<1>7. AliasOf(sg)[p] \in Pages => AliasOf(sg)[p] # p /\ sg[AliasOf(sg)[p]] = sg[p]
  <2>1. -1 \notin Pages
    BY DEF Pages
  <2> QED BY <2>1, <1>1, <1>3, <1>4
<1>8. ASSUME NEW q \in Pages, q # p, sg[q] = sg[p], Paired(sg)
      PROVE  AliasOf(sg)[p] = q
  <2>1. q \in shared
    BY <1>5, <1>8
  <2>2. First(shared) \in shared
    BY <2>1, <1>3
  <2>3. First(shared) = q
    BY <2>2, <1>4, <1>8 DEF Paired
  <2> QED BY <2>1, <2>3, <1>1
<1> QED BY <1>6, <1>7, <1>8

(* The segment registers always name segments.                             *)
LEMMA SegType == TypeOK => Seg \in [Pages -> Segs]
<1> SUFFICES ASSUME TypeOK PROVE Seg \in [Pages -> Segs]
  OBVIOUS
<1>1. PowerOn \in [Pages -> Segs]
  BY MapperAssumption DEF PowerOn, Pages, Segs
<1> QED BY <1>1 DEF Seg, TypeOK

(* What SegmentRam is, when all windows of a segment agree.                *)
LEMMA RamIs ==
  ASSUME TypeOK, SameRAM
  PROVE  /\ SegmentRam = [s \in Segs |-> SegmentRam[s]]
         /\ \A p \in Pages : SegmentRam[Seg[p]] = RamIn(p)
         /\ \A s \in Segs : (\A p \in Pages : Seg[p] # s) => SegmentRam[s] = Store[s]
<1>1. SegmentRam = [s \in Segs |-> SegmentRam[s]]
  BY DEF SegmentRam
<1>2. ASSUME NEW p \in Pages
      PROVE  SegmentRam[Seg[p]] = RamIn(p)
  <2> DEFINE shown == {q \in Pages : Seg[q] = Seg[p]}
  <2>1. Seg[p] \in Segs
    BY SegType
  <2>2. shown # {}
    OBVIOUS
  <2>3. First(shown) \in shown
    BY <2>2, FirstIn
  <2>4. SegmentRam[Seg[p]] = RamIn(First(shown))
    BY <2>1, <2>2 DEF SegmentRam
  <2>5. RamIn(First(shown)) = RamIn(p)
    BY <2>3 DEF SameRAM
  <2> QED BY <2>4, <2>5
<1>3. ASSUME NEW s \in Segs, \A p \in Pages : Seg[p] # s
      PROVE  SegmentRam[s] = Store[s]
  <2>1. {p \in Pages : Seg[p] = s} = {}
    BY <1>3
  <2> QED BY <2>1 DEF SegmentRam
<1> QED BY <1>1, <1>2, <1>3
-----------------------------------------------------------------------------

(* At power-on no two pages show one segment.                              *)
LEMMA PowerOnApart ==
  /\ Paired(PowerOn)
  /\ ~ AliasedIn(PowerOn)
  /\ PowerOn \in [Pages -> Segs]
<1>1. PowerOn \in [Pages -> Segs]
  BY MapperAssumption DEF PowerOn, Pages, Segs
<1>2. \A p, q \in Pages : PowerOn[p] = PowerOn[q] => p = q
  BY DEF PowerOn, Pages
<1> QED BY <1>1, <1>2 DEF Paired, AliasedIn, Others

LEMMA InitInv == Init => MapperInv
<1> SUFFICES ASSUME Init PROVE MapperInv
  OBVIOUS
<1>1. Seg = PowerOn
  BY DEF Init, Seg
<1>2. TypeOK
  <2>1. window \in [Pages -> Bytes]
    BY DEF Init, Bytes
  <2>2. seg \in [Pages -> Segs]
    BY MapperAssumption DEF Init, Segs
  <2>3. alias \in [Pages -> -1..3]
    BY DEF Init
  <2>4. under \in Bytes /\ reg \in Bytes
    BY DEF Init, Bytes
  <2> QED BY <2>1, <2>2, <2>3, <2>4 DEF Init, TypeOK
<1>3. SameRAM
  <2>1. \A p, q \in Pages : PowerOn[p] = PowerOn[q] => p = q
    BY DEF PowerOn, Pages
  <2> QED BY <1>1, <2>1 DEF SameRAM
<1> QED BY <1>1, <1>2, <1>3, PowerOnApart
        DEF Init, MapperInv, Stored, AliasRight, CartAlone, CartShown

(* The registers are left alone when nothing they are read from changes.   *)
LEMMA SegSame == UNCHANGED <<made, seg>> => Seg' = Seg
BY DEF Seg

(* The alias of a page, while there are any, is the one other window.      *)
LEMMA AliasNow ==
  ASSUME MapperInv, NEW p \in Pages
  PROVE  /\ aliased /\ alias[p] \in Pages => alias[p] # p /\ Seg[alias[p]] = Seg[p]
         /\ \A q \in Pages : q # p /\ Seg[q] = Seg[p] => aliased /\ alias[p] = q
<1>1. Seg \in [Pages -> Segs]
  BY SegType DEF MapperInv
<1>2. ASSUME NEW q \in Pages, q # p, Seg[q] = Seg[p]
      PROVE  aliased /\ alias[p] = q
  <2>1. q \in Others(p, Seg[p], Seg)
    BY <1>2 DEF Others
  <2>2. aliased
    BY <2>1 DEF MapperInv, AliasRight, AliasedIn
  <2> QED BY <2>2, <1>1, <1>2, AliasIs DEF MapperInv, AliasRight
<1>3. aliased /\ alias[p] \in Pages => alias[p] # p /\ Seg[alias[p]] = Seg[p]
  BY <1>1, AliasIs DEF MapperInv, AliasRight
<1> QED BY <1>2, <1>3

-----------------------------------------------------------------------------

(* What every action but SetSegment leaves alone.                          *)
LEMMA RegistersKept ==
  ASSUME MapperInv, Seg' = Seg, UNCHANGED <<alias, aliased>>
  PROVE  AliasRight' /\ Paired(Seg)'
<1>1. AliasRight'
  BY DEF MapperInv, AliasRight
<1>2. Paired(Seg)'
  BY DEF MapperInv
<1> QED BY <1>1, <1>2

LEMMA WriteInv ==
  ASSUME MapperInv, NEW p \in Pages, NEW v \in Values, Write(p, v)
  PROVE  /\ MapperInv' /\ Seg' = Seg
         /\ RamIn(p)' = v
         /\ \A q \in Pages : Seg[q] # Seg[p] => RamIn(q)' = RamIn(q)
<1>1. Seg' = Seg /\ UNCHANGED <<alias, aliased, made, store, seg, paged, under, open, reg>>
  BY SegSame DEF Write, cart
<1>2. AliasRight' /\ Paired(Seg)'
  BY <1>1, RegistersKept
<1>3. TypeOK'
  <2>1. window' \in [Pages -> Bytes]
    BY DEF Write, Bytes, MapperInv, TypeOK
  <2> QED BY <1>1, <2>1 DEF MapperInv, TypeOK
<1>4. Stored' /\ CartAlone'
  BY <1>1 DEF MapperInv, Stored, CartAlone
<1>5. \A q \in Pages : Seg[q] = Seg[p] => RamIn(q)' = v
  <2> TAKE q \in Pages
  <2> HAVE Seg[q] = Seg[p]
  <2>1. ~ (paged /\ q = CartPage)
    BY DEF Write, MapperInv, CartAlone, CartPage, Pages
  <2>2. q = p \/ (aliased /\ q = alias[p])
    BY AliasNow
  <2> QED BY <1>1, <2>1, <2>2 DEF Write, RamIn
<1>6. \A q \in Pages : Seg[q] # Seg[p] => RamIn(q)' = RamIn(q) /\ window'[q] = window[q]
  <2> TAKE q \in Pages
  <2> HAVE Seg[q] # Seg[p]
  <2>1. ~ (q = p \/ (aliased /\ q = alias[p]))
    BY AliasNow
  <2> QED BY <1>1, <2>1 DEF Write, RamIn
<1>7. SameRAM'
  BY <1>1, <1>5, <1>6 DEF MapperInv, SameRAM
<1>8. CartShown'
  <2> SUFFICES ASSUME paged' PROVE window'[CartPage] = CartView'
    BY DEF CartShown
  <2>1. Seg[p] # Seg[CartPage]
    BY <1>1 DEF Write, MapperInv, CartAlone, CartPage, Pages
  <2>2. window'[CartPage] = window[CartPage]
    BY <1>6, <2>1 DEF CartPage, Pages
  <2> QED BY <1>1, <2>2 DEF MapperInv, CartShown, CartView
<1> QED BY <1>1, <1>2, <1>3, <1>4, <1>5, <1>6, <1>7, <1>8 DEF MapperInv

LEMMA WorkWriteInv ==
  ASSUME MapperInv, Habits = AllHabits, NEW v \in Values, WorkWrite(v)
  PROVE  /\ MapperInv' /\ Seg' = Seg
         /\ RamIn(WorkPage)' = v
         /\ \A q \in Pages : Seg[q] # Seg[WorkPage] => RamIn(q)' = RamIn(q)
<1>1. Seg' = Seg /\ UNCHANGED <<alias, aliased, made, store, seg, paged, under, open, reg>>
  BY SegSame DEF WorkWrite, cart
<1>2. AliasRight' /\ Paired(Seg)'
  BY <1>1, RegistersKept
<1>3. TypeOK'
  <2>1. window' \in [Pages -> Bytes]
    BY DEF WorkWrite, Bytes, MapperInv, TypeOK
  <2> QED BY <1>1, <2>1 DEF MapperInv, TypeOK
<1>4. Stored' /\ CartAlone'
  BY <1>1 DEF MapperInv, Stored, CartAlone
<1>5. \A q \in Pages : q # WorkPage => Seg[q] # Seg[WorkPage]
  BY DEF WorkWrite, AllHabits, Others
<1>6. \A q \in Pages : q # WorkPage => window'[q] = window[q]
  BY DEF WorkWrite, MapperInv, TypeOK
<1>7. SameRAM'
  BY <1>1, <1>5, <1>6 DEF MapperInv, SameRAM, RamIn
<1>8. CartShown'
  BY <1>1, <1>6 DEF MapperInv, CartShown, CartView, CartPage, WorkPage, Pages
<1>9. RamIn(WorkPage)' = v
  BY <1>1 DEF WorkWrite, RamIn, MapperInv, TypeOK, WorkPage, CartPage, Pages
<1>10. \A q \in Pages : Seg[q] # Seg[WorkPage] => RamIn(q)' = RamIn(q)
  BY <1>1, <1>6 DEF RamIn
<1> QED BY <1>1, <1>2, <1>3, <1>4, <1>7, <1>8, <1>9, <1>10 DEF MapperInv

LEMMA TouchInv ==
  ASSUME MapperInv, Touch
  PROVE  MapperInv'
<1>1. Seg' = Seg /\ UNCHANGED <<alias, aliased, window, paged, under, open, reg>>
  BY DEF Touch, cart, Seg
<1>2. AliasRight' /\ Paired(Seg)'
  BY <1>1, RegistersKept
<1>3. store' \in [Segs -> Bytes]
  BY DEF Touch, Store, Bytes
<1>4. seg' \in [Pages -> Segs]
  BY SegType DEF Touch, MapperInv
<1>5. TypeOK'
  BY <1>1, <1>3, <1>4 DEF Touch, MapperInv, TypeOK
<1>6. Stored' /\ CartAlone' /\ SameRAM' /\ CartShown'
  BY <1>1, <1>3 DEF MapperInv, Stored, CartAlone, SameRAM, RamIn, CartShown, CartView
<1> QED BY <1>2, <1>5, <1>6 DEF MapperInv

LEMMA SetSegmentInv ==
  ASSUME MapperInv, Habits = AllHabits, NEW p \in MapPages, NEW n \in 0..Segments,
         SetSegment(p, n)
  PROVE  /\ MapperInv'
         /\ p \in Pages /\ n % Segments \in Segs
         /\ Seg' = [Seg EXCEPT ![p] = n % Segments]
         /\ Store' = [Store EXCEPT ![Seg[p]] = RamIn(p)]
         /\ \A q \in Pages : q # p => RamIn(q)' = RamIn(q)
         /\ (\A q \in Pages : Seg[q] # n % Segments)
              => RamIn(p)' = Store[n % Segments]
<1> DEFINE new == n % Segments
           shown == Others(p, new, Seg)
           after == [Seg EXCEPT ![p] = new]
           kept == [Store EXCEPT ![Seg[p]] = window[p]]
           arriving == IF shown = {} THEN kept[new] ELSE window[First(shown)]
<1>1. p \in Pages /\ new \in Segs
  BY MapperAssumption DEF Segs
<1>2. Seg \in [Pages -> Segs] /\ after \in [Pages -> Segs]
  BY <1>1, SegType DEF MapperInv
<1>3. Seg' = after /\ made' /\ UNCHANGED <<paged, under, open, reg>>
  BY DEF SetSegment, Seg, cart
<1>4. Store \in [Segs -> Bytes]
  BY DEF MapperInv, Stored, Store, Bytes
<1>5. kept \in [Segs -> Bytes]
  BY <1>1, <1>4 DEF MapperInv, TypeOK
<1>6. shown \in SUBSET Pages /\ (shown # {} => First(shown) \in shown)
  <2>1. shown \in SUBSET Pages
    BY DEF Others
  <2> QED BY <2>1, FirstIn
<1>7. arriving \in Bytes
  <2>1. shown # {} => First(shown) \in Pages
    BY <1>6
  <2> QED BY <1>1, <1>5, <2>1 DEF MapperInv, TypeOK
<1>8. window' = [window EXCEPT ![p] = arriving] /\ store' = kept
  BY DEF SetSegment, Kept, Arriving
<1>9. TypeOK'
  <2>1. window' \in [Pages -> Bytes]
    BY <1>1, <1>7, <1>8 DEF MapperInv, TypeOK
  <2>2. seg' \in [Pages -> Segs]
    BY <1>2 DEF SetSegment
  <2>3. alias' \in [Pages -> -1..3]
    <3>1. alias' = AliasOf(after)
      BY DEF SetSegment
    <3>2. AliasOf(after) = [q \in Pages |-> AliasOf(after)[q]]
      BY DEF AliasOf
    <3> QED BY <1>2, <3>1, <3>2, AliasIs
  <2>4. aliased' \in BOOLEAN
    BY DEF SetSegment, AliasedIn
  <2> QED BY <1>3, <1>5, <1>8, <2>1, <2>2, <2>3, <2>4 DEF MapperInv, TypeOK
<1>10. Stored' /\ AliasRight'
  BY <1>3, <1>5, <1>8 DEF Stored, AliasRight, SetSegment
<1>11. \A q \in Pages : q # p => after[q] = Seg[q]
  BY <1>2
<1>12. after[p] = new
  BY <1>1, <1>2
<1>13. \A q, r \in Pages \ {p} : Seg[q] = new /\ Seg[r] = new => q = r
  BY DEF SetSegment, AllHabits, Others
<1>14. Paired(Seg)'
  BY <1>3, <1>11, <1>12, <1>13 DEF MapperInv, Paired
<1>15. paged => p # CartPage /\ Seg[CartPage] # new
  BY DEF SetSegment, AllHabits, Others, CartPage, Pages
<1>16. CartAlone'
  BY <1>3, <1>11, <1>12, <1>15 DEF MapperInv, CartAlone, CartPage, Pages
<1>17. \A q \in Pages : q # p => window'[q] = window[q] /\ RamIn(q)' = RamIn(q)
  BY <1>3, <1>8 DEF RamIn, MapperInv, TypeOK
<1>18. window'[p] = arriving /\ RamIn(p)' = arriving
  BY <1>1, <1>3, <1>8, <1>15 DEF RamIn, MapperInv, TypeOK
<1>19. \A q \in Pages : q # p /\ Seg[q] = new => RamIn(q) = arriving
  <2> TAKE q \in Pages
  <2> HAVE q # p /\ Seg[q] = new
  <2>1. q \in shown
    BY DEF Others
  <2>2. First(shown) = q
    BY <1>6, <1>13, <2>1 DEF Others
  <2>3. arriving = window[q]
    BY <2>1, <2>2
  <2>4. ~ (paged /\ q = CartPage)
    BY <1>15
  <2> QED BY <2>3, <2>4 DEF RamIn
<1>20. SameRAM'
  <2> SUFFICES ASSUME NEW q \in Pages, NEW r \in Pages, after[q] = after[r]
               PROVE  RamIn(q)' = RamIn(r)'
    BY <1>3 DEF SameRAM
  <2>1. CASE q # p /\ r # p
    BY <2>1, <1>11, <1>17 DEF MapperInv, SameRAM
  <2>2. CASE q = p \/ r = p
    BY <2>2, <1>11, <1>12, <1>17, <1>18, <1>19
  <2> QED BY <2>1, <2>2
<1>21. CartShown'
  BY <1>3, <1>15, <1>17 DEF MapperInv, CartShown, CartView, CartPage, Pages
<1>22. MapperInv'
  BY <1>9, <1>10, <1>14, <1>16, <1>20, <1>21 DEF MapperInv
<1>23. Store' = [Store EXCEPT ![Seg[p]] = RamIn(p)]
  <2>1. RamIn(p) = window[p]
    BY <1>15 DEF RamIn
  <2> QED BY <1>3, <1>8, <2>1 DEF Store
<1>24. ASSUME \A q \in Pages : Seg[q] # new
       PROVE  RamIn(p)' = Store[new]
  <2>1. shown = {}
    BY <1>24 DEF Others
  <2>2. kept[new] = Store[new]
    BY <1>1, <1>4, <1>24
  <2> QED BY <1>18, <2>1, <2>2
<1> QED BY <1>1, <1>3, <1>17, <1>22, <1>23, <1>24

LEMMA SelectSlotInv ==
  ASSUME MapperInv, Habits = AllHabits, NEW b \in BOOLEAN, SelectSlot(b)
  PROVE  MapperInv' /\ Seg' = Seg /\ (\A q \in Pages : RamIn(q)' = RamIn(q))
<1>1. Seg' = Seg /\ UNCHANGED <<alias, aliased, made, store, seg, open, reg>>
  BY SegSame DEF SelectSlot
<1>2. AliasRight' /\ Paired(Seg)'
  BY <1>1, RegistersKept
<1>3. CartView \in Bytes /\ CartView' = CartView
  BY <1>1 DEF MapperInv, TypeOK, CartView, Bytes
<1>4. TypeOK'
  <2>1. window' \in [Pages -> Bytes] /\ under' \in Bytes
    BY <1>3 DEF SelectSlot, MapperInv, TypeOK, CartPage, Pages
  <2> QED BY <1>1, <2>1 DEF SelectSlot, MapperInv, TypeOK
<1>5. CartPage \in Pages
  BY DEF CartPage, Pages
<1>6. \A q \in Pages : RamIn(q)' = RamIn(q)
  <2> TAKE q \in Pages
  <2>1. CASE q = CartPage
    BY <2>1, <1>5 DEF RamIn, SelectSlot, MapperInv, TypeOK
  <2>2. CASE q # CartPage
    BY <2>2 DEF RamIn, SelectSlot, MapperInv, TypeOK
  <2> QED BY <2>1, <2>2
<1>7. SameRAM'
  BY <1>1, <1>6 DEF MapperInv, SameRAM
<1>8. CartShown'
  BY <1>3, <1>5 DEF SelectSlot, MapperInv, TypeOK, CartShown
<1>9. CartAlone'
  BY <1>1 DEF SelectSlot, CartAlone, AllHabits, Others, MapperInv
<1>10. Stored'
  BY <1>1 DEF MapperInv, Stored
<1> QED BY <1>1, <1>2, <1>4, <1>6, <1>7, <1>8, <1>9, <1>10 DEF MapperInv

(* Putting a view in the memory where it is read disturbs no RAM.          *)
LEMMA ShowInv ==
  ASSUME MapperInv, NEW view \in Bytes, Show(view), CartView' = view,
         open' \in BOOLEAN, reg' \in Bytes,
         UNCHANGED <<made, store, seg, alias, aliased, paged, under>>
  PROVE  MapperInv' /\ Seg' = Seg /\ (\A q \in Pages : RamIn(q)' = RamIn(q))
<1>1. Seg' = Seg
  BY SegSame
<1>2. AliasRight' /\ Paired(Seg)'
  BY <1>1, RegistersKept
<1>3. CartPage \in Pages
  BY DEF CartPage, Pages
<1>4. TypeOK'
  <2>1. window' \in [Pages -> Bytes]
    BY <1>3 DEF Show, MapperInv, TypeOK
  <2> QED BY <2>1 DEF MapperInv, TypeOK
<1>5. \A q \in Pages : RamIn(q)' = RamIn(q)
  BY <1>3 DEF Show, RamIn, MapperInv, TypeOK
<1>6. SameRAM' /\ CartAlone' /\ Stored'
  BY <1>1, <1>5 DEF MapperInv, SameRAM, CartAlone, Stored
<1>7. CartShown'
  BY <1>3 DEF Show, CartShown, MapperInv, TypeOK
<1> QED BY <1>1, <1>2, <1>4, <1>5, <1>6, <1>7 DEF MapperInv

LEMMA CartInv ==
  ASSUME MapperInv,
         \/ \E v \in Values : CartWrite(v)
         \/ \E b \in BOOLEAN : CartBank(b)
  PROVE  MapperInv' /\ Seg' = Seg /\ (\A q \in Pages : RamIn(q)' = RamIn(q))
<1>1. CASE \E v \in Values : CartWrite(v)
  <2> PICK v \in Values : CartWrite(v)
    BY <1>1
  <2>1. v \in Bytes /\ open' = TRUE /\ reg' = v
    BY DEF CartWrite, Bytes, MapperInv, TypeOK
  <2>2. CartView' = v
    BY <2>1 DEF CartView
  <2> QED BY <2>1, <2>2, ShowInv DEF CartWrite
<1>2. CASE \E b \in BOOLEAN : CartBank(b)
  <2> PICK b \in BOOLEAN : CartBank(b)
    BY <1>2
  <2> DEFINE view == IF b THEN reg ELSE Empty
  <2>1. view \in Bytes /\ open' = b /\ reg' = reg /\ reg' \in Bytes
    BY DEF CartBank, Bytes, MapperInv, TypeOK
  <2>2. CartView' = view
    BY <2>1 DEF CartView
  <2>3. Show(view)
    BY DEF CartBank
  <2> QED BY <2>1, <2>2, <2>3, ShowInv DEF CartBank
<1> QED BY <1>1, <1>2

LEMMA StepInv ==
  ASSUME Habits = AllHabits
  PROVE  MapperInv /\ [Next]_vars => MapperInv'
<1> SUFFICES ASSUME MapperInv, [Next]_vars PROVE MapperInv'
  OBVIOUS
<1>1. ASSUME NEW p \in Pages, NEW v \in Values, Write(p, v) PROVE MapperInv'
  BY <1>1, WriteInv
<1>2. ASSUME NEW v \in Values, WorkWrite(v) PROVE MapperInv'
  BY <1>2, WorkWriteInv
<1>3. ASSUME NEW v \in Values, CartWrite(v) PROVE MapperInv'
  BY <1>3, CartInv
<1>4. CASE Touch
  BY <1>4, TouchInv
<1>5. ASSUME NEW p \in MapPages, NEW n \in 0..Segments, SetSegment(p, n)
      PROVE  MapperInv'
  BY <1>5, SetSegmentInv
<1>6. ASSUME NEW b \in BOOLEAN, SelectSlot(b) PROVE MapperInv'
  BY <1>6, SelectSlotInv
<1>7. ASSUME NEW b \in BOOLEAN, CartBank(b) PROVE MapperInv'
  BY <1>7, CartInv
<1>8. CASE UNCHANGED vars
  <2>1. Seg' = Seg
    BY <1>8, SegSame DEF vars
  <2>2. AliasRight' /\ Paired(Seg)'
    BY <1>8, <2>1, RegistersKept DEF vars
  <2>3. TypeOK' /\ Stored' /\ CartAlone' /\ SameRAM' /\ CartShown'
    BY <1>8, <2>1
       DEF vars, MapperInv, TypeOK, Stored, CartAlone, SameRAM, RamIn, CartShown, CartView
  <2> QED BY <2>2, <2>3 DEF MapperInv
<1> QED BY <1>1, <1>2, <1>3, <1>4, <1>5, <1>6, <1>7, <1>8 DEF Next

THEOREM MapperInvariant == ASSUME Habits = AllHabits PROVE Spec => []MapperInv
<1>1. Init => MapperInv
  BY InitInv
<1>2. MapperInv /\ [Next]_vars => MapperInv'
  BY StepInv
<1> QED BY <1>1, <1>2, PTL DEF Spec

(* All windows of a segment are one RAM, whatever a careful program does.  *)
THEOREM OneSegmentOneRAM == ASSUME Habits = AllHabits PROVE Spec => []SameRAM
<1>1. MapperInv => SameRAM
  BY DEF MapperInv
<1> QED BY <1>1, MapperInvariant, PTL

(* A plain read in page two finds the cartridge while it is paged in.      *)
THEOREM CartridgeReadsTrue == ASSUME Habits = AllHabits PROVE Spec => []CartShown
<1>1. MapperInv => CartShown
  BY DEF MapperInv
<1> QED BY <1>1, MapperInvariant, PTL

(* The mapper's memory is shared as the machine's is: every window on a    *)
(* segment one RAM, and the cartridge read wherever it is paged in.        *)
THEOREM MemoryShared == ASSUME Habits = AllHabits PROVE Spec => []MemoryIsShared
<1>1. MapperInv => MemoryIsShared
  BY DEF MapperInv, MemoryIsShared
<1> QED BY <1>1, MapperInvariant, PTL

(* The segments start out cleared, as the mapper's do.                     *)
LEMMA RefineInit == ASSUME HasMapper PROVE Init => Paged!Init
<1> SUFFICES ASSUME Init PROVE Paged!Init
  OBVIOUS
<1>1. MapperInv
  BY InitInv
<1>2. Seg = PowerOn /\ Store = [s \in Segs |-> 0]
  BY DEF Init, Seg, Store
<1>3. \A p \in Pages : RamIn(p) = 0
  BY MapperAssumption DEF Init, RamIn
<1>4. \A s \in Segs : SegmentRam[s] = 0
  <2> TAKE s \in Segs
  <2>1. CASE \E p \in Pages : Seg[p] = s
    BY <2>1, <1>1, <1>3, RamIs DEF MapperInv
  <2>2. CASE \A p \in Pages : Seg[p] # s
    BY <2>2, <1>1, <1>2, RamIs DEF MapperInv
  <2> QED BY <2>1, <2>2
<1>5. SegmentRam = [s \in Segs |-> 0]
  BY <1>1, <1>4, RamIs DEF MapperInv
<1> QED BY <1>2, <1>5
        DEF Init, Paged!Init, Paged!Segs, Paged!PowerOn, Paged!Pages,
            Segs, PowerOn, Pages

(* SegmentRam is RamIn and Store, before a step and after it.              *)
RamFacts ==
  /\ SegmentRam = [s \in Segs |-> SegmentRam[s]]
  /\ \A p \in Pages : SegmentRam[Seg[p]] = RamIn(p)
  /\ \A s \in Segs : (\A p \in Pages : Seg[p] # s) => SegmentRam[s] = Store[s]

LEMMA RamNow == MapperInv => RamFacts
BY RamIs DEF MapperInv, RamFacts

LEMMA RamNext == MapperInv' => RamFacts'
BY RamNow, PTL

(* A step that changes neither the registers, the stores nor the RAM in    *)
(* any window changes no segment.                                          *)
LEMMA RamKept ==
  ASSUME MapperInv, MapperInv', Seg' = Seg, Store' = Store,
         \A p \in Pages : RamIn(p)' = RamIn(p)
  PROVE  SegmentRam' = SegmentRam
<1>1. ASSUME NEW s \in Segs PROVE SegmentRam'[s] = SegmentRam[s]
  <2>1. CASE \E p \in Pages : Seg[p] = s
    BY <2>1, RamNow, RamNext DEF RamFacts
  <2>2. CASE \A p \in Pages : Seg[p] # s
    BY <2>2, RamNow, RamNext DEF RamFacts
  <2> QED BY <2>1, <2>2
<1> QED BY <1>1, RamNow, RamNext DEF RamFacts

(* A write lands in the segment its page shows, and in no other.           *)
LEMMA RamWritten ==
  ASSUME MapperInv, MapperInv', NEW p \in Pages, NEW v, Seg' = Seg, Store' = Store,
         RamIn(p)' = v,
         \A q \in Pages : Seg[q] # Seg[p] => RamIn(q)' = RamIn(q)
  PROVE  SegmentRam' = [SegmentRam EXCEPT ![Seg[p]] = v]
<1>1. Seg[p] \in Segs
  BY SegType DEF MapperInv
<1>2. ASSUME NEW s \in Segs
      PROVE  SegmentRam'[s] = IF s = Seg[p] THEN v ELSE SegmentRam[s]
  <2>1. CASE s = Seg[p]
    BY <2>1, RamNext DEF RamFacts
  <2>2. CASE s # Seg[p] /\ \E q \in Pages : Seg[q] = s
    BY <2>2, RamNow, RamNext DEF RamFacts
  <2>3. CASE \A q \in Pages : Seg[q] # s
    BY <2>3, RamNow, RamNext DEF RamFacts
  <2> QED BY <2>1, <2>2, <2>3
<1> QED BY <1>1, <1>2, RamNow, RamNext DEF RamFacts

(* A segment change moves bytes between the windows and the stores and     *)
(* loses none.                                                             *)
LEMMA RamMoved ==
  ASSUME MapperInv, Habits = AllHabits, NEW p \in MapPages, NEW n \in 0..Segments,
         SetSegment(p, n)
  PROVE  SegmentRam' = SegmentRam
<1> DEFINE new == n % Segments
           old == Seg[p]
<1>1. /\ MapperInv' /\ p \in Pages /\ new \in Segs
      /\ Seg' = [Seg EXCEPT ![p] = new]
      /\ Store' = [Store EXCEPT ![old] = RamIn(p)]
      /\ \A q \in Pages : q # p => RamIn(q)' = RamIn(q)
      /\ (\A q \in Pages : Seg[q] # new) => RamIn(p)' = Store[new]
  BY SetSegmentInv
<1>2. new # old
  BY DEF SetSegment
<1>3. Seg \in [Pages -> Segs] /\ old \in Segs
  BY <1>1, SegType DEF MapperInv
<1>4. Store = [s \in Segs |-> Store[s]]
  BY DEF MapperInv, Stored, Store
<1>5. RamFacts /\ RamFacts'
  BY <1>1, RamNow, RamNext
<1>6. Seg'[p] = new /\ \A q \in Pages : q # p => Seg'[q] = Seg[q]
  BY <1>1, <1>3
<1>7. Store'[old] = RamIn(p) /\ \A s \in Segs : s # old => Store'[s] = Store[s]
  BY <1>1, <1>3, <1>4
<1>8. ASSUME NEW s \in Segs PROVE SegmentRam'[s] = SegmentRam[s]
  <2>1. CASE \E q \in Pages : q # p /\ Seg[q] = s
    BY <2>1, <1>1, <1>5, <1>6 DEF RamFacts
  <2>2. CASE s = old /\ \A q \in Pages : q # p => Seg[q] # s
    <3>1. \A q \in Pages : Seg'[q] # s
      BY <2>2, <1>2, <1>6
    <3> QED BY <2>2, <3>1, <1>1, <1>5, <1>7 DEF RamFacts
  <2>3. CASE s = new /\ \A q \in Pages : q # p => Seg[q] # s
    <3>1. \A q \in Pages : Seg[q] # s
      BY <2>3, <1>2
    <3>2. SegmentRam[s] = Store[s]
      BY <3>1, <1>5 DEF RamFacts
    <3>3. SegmentRam'[s] = RamIn(p)'
      BY <2>3, <1>1, <1>5, <1>6 DEF RamFacts
    <3> QED BY <2>3, <3>1, <3>2, <3>3, <1>1
  <2>4. CASE s # new /\ \A q \in Pages : Seg[q] # s
    BY <2>4, <1>5, <1>6, <1>7, <1>1 DEF RamFacts
  <2> QED BY <2>1, <2>2, <2>3, <2>4
<1> QED BY <1>5, <1>8 DEF RamFacts

LEMMA RefineStep ==
  ASSUME Habits = AllHabits, MapperInv, [Next]_vars
  PROVE  [Paged!Next]_Paged!vars
<1> USE DEF Paged!Pages, Paged!Segs, Pages, Segs, Paged!CartPage, CartPage
<1>1. ASSUME NEW p \in Pages, NEW v \in Values, Write(p, v)
      PROVE  Paged!Write(p, v)
  <2>1. Store' = Store
    BY <1>1 DEF Write, Store
  <2>2. SegmentRam' = [SegmentRam EXCEPT ![Seg[p]] = v]
    BY <1>1, <2>1, WriteInv, RamWritten
  <2> QED BY <1>1, <2>2, WriteInv DEF Write, cart, Paged!Write
<1>2. ASSUME NEW v \in Values, WorkWrite(v)
      PROVE  Paged!Write(WorkPage, v)
  <2>1. Store' = Store
    BY <1>2 DEF WorkWrite, Store
  <2>2. SegmentRam' = [SegmentRam EXCEPT ![Seg[WorkPage]] = v]
    BY <1>2, <2>1, WorkWriteInv, RamWritten DEF WorkPage
  <2>3. WorkPage # CartPage
    BY DEF WorkPage
  <2>4. Seg' = Seg /\ UNCHANGED <<paged, open, reg>>
    BY <1>2, WorkWriteInv DEF WorkWrite, cart
  <2> QED BY <2>2, <2>3, <2>4 DEF Paged!Write
<1>3. ASSUME Touch PROVE UNCHANGED Paged!vars
  <2>1. MapperInv' /\ Seg' = Seg /\ Store' = Store
    BY <1>3, TouchInv DEF Touch, Seg, Store
  <2>2. SegmentRam' = SegmentRam
    BY <1>3, <2>1, RamKept DEF Touch, cart, RamIn
  <2> QED BY <1>3, <2>1, <2>2 DEF Touch, cart, Paged!vars
<1>4. ASSUME NEW p \in MapPages, NEW n \in 0..Segments, SetSegment(p, n)
      PROVE  Paged!Map(p, n % Segments)
  BY <1>4, RamMoved, SetSegmentInv DEF SetSegment, cart, Paged!Map
<1>5. ASSUME NEW b \in BOOLEAN, SelectSlot(b) PROVE Paged!SelectSlot(b)
  <2>1. MapperInv' /\ Seg' = Seg /\ (\A q \in Pages : RamIn(q)' = RamIn(q))
    BY <1>5, SelectSlotInv
  <2>2. Store' = Store
    BY <1>5 DEF SelectSlot, Store
  <2>3. SegmentRam' = SegmentRam
    BY <2>1, <2>2, RamKept
  <2> QED BY <1>5, <2>1, <2>3 DEF SelectSlot, Paged!SelectSlot
<1>6. ASSUME NEW v \in Values, CartWrite(v) PROVE Paged!CartWrite(v)
  <2>1. MapperInv' /\ Seg' = Seg /\ (\A q \in Pages : RamIn(q)' = RamIn(q))
    BY <1>6, CartInv
  <2>2. Store' = Store
    BY <1>6 DEF CartWrite, Store
  <2>3. SegmentRam' = SegmentRam
    BY <2>1, <2>2, RamKept
  <2> QED BY <1>6, <2>1, <2>3 DEF CartWrite, Paged!CartWrite
<1>7. ASSUME NEW b \in BOOLEAN, CartBank(b) PROVE Paged!CartBank(b)
  <2>1. MapperInv' /\ Seg' = Seg /\ (\A q \in Pages : RamIn(q)' = RamIn(q))
    BY <1>7, CartInv
  <2>2. Store' = Store
    BY <1>7 DEF CartBank, Store
  <2>3. SegmentRam' = SegmentRam
    BY <2>1, <2>2, RamKept
  <2> QED BY <1>7, <2>1, <2>3 DEF CartBank, Paged!CartBank
<1>8. ASSUME UNCHANGED vars PROVE UNCHANGED Paged!vars
  <2>1. Seg' = Seg /\ Store' = Store
    BY <1>8 DEF vars, Seg, Store
  <2>2. SegmentRam' = SegmentRam
    BY <1>8, <2>1, RamKept, StepInv DEF vars, RamIn
  <2> QED BY <1>8, <2>1, <2>2 DEF vars, Paged!vars
<1>9. \A n \in 0..Segments : n % Segments \in Segs
  BY MapperAssumption
<1>10. WorkPage \in Pages
  BY DEF WorkPage
<1>11. MapPages \subseteq Pages
  BY MapperAssumption
<1> QED BY <1>1, <1>2, <1>3, <1>4, <1>5, <1>6, <1>7, <1>8, <1>9, <1>10, <1>11
        DEF Next, Paged!Next

(* The flat memory, its stores and its alias table implement the mapper of *)
(* PagedRam, for a program that keeps every habit.                         *)
THEOREM RamImplemented ==
  ASSUME Habits = AllHabits, HasMapper PROVE Spec => ImplementsPagedRam
<1>1. Init => Paged!Init
  BY RefineInit
<1>2. MapperInv /\ [Next]_vars => [Paged!Next]_Paged!vars
  BY RefineStep
<1> QED BY <1>1, <1>2, MapperInvariant, PTL DEF Spec, ImplementsPagedRam, Paged!Spec

-----------------------------------------------------------------------------
(* Snapshots: what a load leaves is what the save had, and a mapper as     *)
(* sound as it was.  The file is a second machine, standing still: FileInv *)
(* says of it what MapperInv says of the first, in so far as it has the    *)
(* fields.                                                                 *)

(* A machine as the file has it, and what its segments hold.               *)
Saves == [window : [Pages -> Bytes], store : [Segs -> Bytes],
          seg : [Pages -> Segs], paged : BOOLEAN, under : Bytes,
          open : BOOLEAN, reg : Bytes]

RamOf(m, p) == IF m.paged /\ p = CartPage THEN m.under ELSE m.window[p]

SegmentsOf(m) ==
  [s \in Segs |-> LET shown == {p \in Pages : m.seg[p] = s}
                  IN IF shown = {} THEN m.store[s] ELSE RamOf(m, First(shown))]

(* The saved registers and windows are those of a careful program.         *)
SoundSave(m) ==
  /\ m \in Saves
  /\ Paired(m.seg)
  /\ m.paged => \A q \in Pages \ {CartPage} : m.seg[q] # m.seg[CartPage]
  /\ \A p, q \in Pages : m.seg[p] = m.seg[q] => RamOf(m, p) = RamOf(m, q)
  /\ m.paged => m.window[CartPage] = IF m.open THEN m.reg ELSE Empty

(* A file written with the mapper in use is a sound machine, and holds     *)
(* what was promised; one written before has no stores.                    *)
FileInv ==
  saved # Unsaved =>
    /\ saved.store \in [Segs -> Bytes] \cup {NoStore}
    /\ promised[3] => /\ SoundSave(saved)
                      /\ promised[1] = saved.seg
                      /\ promised[2] = SegmentsOf(saved)

SnapInv ==
  /\ ~ early => MapperInv
  /\ ~ made => store = NoStore
  /\ FileInv

-----------------------------------------------------------------------------
(* Stores are made once and are never unmade.                              *)
LEMMA UnmadeStep ==
  ASSUME TypeOK, ~ made => store = NoStore, Next
  PROVE  ~ made' => store' = NoStore
BY DEF Next, Write, WorkWrite, Touch, SetSegment, SelectSlot, CartWrite,
   CartBank, Show

(* What SaveState writes while the mapper is in use is a sound machine,    *)
(* and the segments read off the file are the segments.                    *)
LEMMA SaveSound ==
  ASSUME MapperInv, made
  PROVE  SoundSave(Machine) /\ Machine.seg = Seg /\ SegmentsOf(Machine) = SegmentRam
<1>1. Seg = seg /\ Store = store
  BY DEF Seg, Store
<1>2. Machine \in Saves
  BY DEF Machine, Saves, MapperInv, TypeOK, Stored
<1>3. \A p \in Pages : RamOf(Machine, p) = RamIn(p)
  BY DEF Machine, RamOf, RamIn
<1>4. SoundSave(Machine)
  BY <1>1, <1>2, <1>3
     DEF SoundSave, Machine, MapperInv, CartAlone, SameRAM, CartShown, CartView
<1>5. SegmentsOf(Machine) = SegmentRam
  <2>1. ASSUME NEW s \in Segs
        PROVE  SegmentsOf(Machine)[s] = SegmentRam[s]
    <3> DEFINE shown == {p \in Pages : Seg[p] = s}
    <3>1. shown = {p \in Pages : Machine.seg[p] = s} /\ Machine.store = store
      BY <1>1 DEF Machine
    <3>2. shown # {} => First(shown) \in Pages
      <4>1. shown \in SUBSET Pages
        OBVIOUS
      <4> QED BY <4>1, FirstIn
    <3>3. SegmentsOf(Machine)[s]
            = IF shown = {} THEN store[s] ELSE RamOf(Machine, First(shown))
      BY <3>1 DEF SegmentsOf
    <3>4. SegmentRam[s] = IF shown = {} THEN store[s] ELSE RamIn(First(shown))
      BY <1>1 DEF SegmentRam
    <3> QED BY <3>2, <3>3, <3>4, <1>3
  <2> QED BY <2>1 DEF SegmentsOf, SegmentRam
<1> QED BY <1>1, <1>4, <1>5 DEF Machine

(* A load leaves the saved registers, windows and stores, in use.          *)
LEMMA LoadMakes ==
  ASSUME SnapInv, NEW fresh \in BOOLEAN, LoadState(fresh), promised[3]
  PROVE  /\ SoundSave(saved) /\ made' = TRUE
         /\ Seg' = saved.seg /\ Store' = saved.store
         /\ \A p \in Pages : RamIn(p)' = RamOf(saved, p)
<1>1. saved # Unsaved /\ SoundSave(saved)
  BY DEF LoadState, Walk, SnapInv, FileInv
<1>2. DOMAIN saved.store = Segs /\ DOMAIN NoStore = {}
  BY <1>1 DEF SoundSave, Saves, NoStore
<1>3. Segs # {}
  <2>1. 0 \in Segs
    BY MapperAssumption DEF Segs
  <2> QED BY <2>1
<1>4. MadeBy(fresh)
  BY <1>2, <1>3 DEF MadeBy, Mine, SnapInv
<1>5. made' = TRUE
  BY <1>4 DEF LoadState, MadeBy
<1>6. /\ window' = saved.window /\ seg' = saved.seg /\ store' = saved.store
      /\ paged' = saved.paged /\ under' = saved.under
  BY DEF LoadState, Walk
<1> QED BY <1>1, <1>5, <1>6 DEF Seg, Store, RamIn, RamOf

(* ... which is a mapper as sound as the one that was saved.               *)
LEMMA LoadSound ==
  ASSUME SnapInv, NEW fresh \in BOOLEAN, LoadState(fresh), promised[3]
  PROVE  MapperInv'
<1>1. /\ SoundSave(saved) /\ made' = TRUE
      /\ Seg' = saved.seg /\ Store' = saved.store
      /\ \A p \in Pages : RamIn(p)' = RamOf(saved, p)
  BY LoadMakes
<1>2. /\ window' = saved.window /\ seg' = saved.seg /\ store' = saved.store
      /\ paged' = saved.paged /\ under' = saved.under
      /\ open' = saved.open /\ reg' = saved.reg
      /\ alias' = AliasOf(saved.seg) /\ aliased' = AliasedIn(saved.seg)
  BY DEF LoadState, Walk
<1>3. alias' \in [Pages -> -1..3]
  <2>1. \A p \in Pages : AliasOf(saved.seg)[p] \in -1..3
    BY <1>1, AliasIs DEF SoundSave, Saves
  <2> QED BY <1>2, <2>1 DEF AliasOf
<1>4. aliased' \in BOOLEAN
  BY <1>2 DEF AliasedIn
<1>5. TypeOK' /\ Stored'
  BY <1>1, <1>2, <1>3, <1>4 DEF TypeOK, Stored, SoundSave, Saves
<1>6. AliasRight' /\ Paired(Seg)'
  BY <1>1, <1>2 DEF AliasRight, SoundSave, Paired, AliasedIn, AliasOf
<1>7. CartAlone' /\ SameRAM' /\ CartShown'
  BY <1>1, <1>2 DEF CartAlone, SameRAM, CartShown, CartView, SoundSave
<1> QED BY <1>5, <1>6, <1>7 DEF MapperInv

LEMMA SnapStep ==
  ASSUME Habits = AllHabits
  PROVE  SnapInv /\ [SnapNext]_snapVars => SnapInv'
<1> SUFFICES ASSUME SnapInv, [SnapNext]_snapVars PROVE SnapInv'
  OBVIOUS
<1>1. CASE ~ early /\ Next /\ UNCHANGED <<saved, promised, early>>
  <2>1. MapperInv'
    BY <1>1, StepInv DEF SnapInv
  <2>2. ~ made' => store' = NoStore
    BY <1>1, UnmadeStep DEF SnapInv, MapperInv
  <2> QED BY <1>1, <2>1, <2>2 DEF SnapInv, FileInv
<1>2. CASE ~ early /\ SaveState
  <2>1. MapperInv /\ UNCHANGED <<vars, early>>
    BY <1>2 DEF SnapInv, SaveState
  <2>2. MapperInv'
    BY <2>1, StepInv
  <2>3. saved' = Machine /\ promised' = <<Seg, SegmentRam, made>>
    BY <1>2 DEF SaveState
  <2>4. saved'.store = store
    BY <2>3 DEF Machine
  <2>5. FileInv'
    BY <2>1, <2>3, <2>4, SaveSound DEF FileInv, MapperInv, TypeOK
  <2>6. ~ made' => store' = NoStore
    BY <2>1 DEF SnapInv, vars
  <2> QED BY <2>2, <2>5, <2>6 DEF SnapInv
<1>3. ASSUME NEW fresh \in BOOLEAN, LoadState(fresh) PROVE SnapInv'
  <2>1. ~ early' => MapperInv'
    BY <1>3, LoadSound DEF LoadState, Walk
  <2>2. FileInv'
    BY <1>3 DEF LoadState, Walk, SnapInv, FileInv
  <2>3. ~ made' => store' = NoStore
    <3> SUFFICES ASSUME ~ made' PROVE store' = NoStore
      OBVIOUS
    <3>1. store' = saved.store /\ saved.store \in [Segs -> Bytes] \cup {NoStore}
      BY <1>3 DEF LoadState, Walk, SnapInv, FileInv
    <3>2. DOMAIN Mine(fresh) = DOMAIN saved.store /\ (fresh \/ ~ made)
      BY <1>3 DEF LoadState, MadeBy
    <3>3. Mine(fresh) = NoStore
      BY <3>2 DEF Mine, SnapInv
    <3>4. 0 \in Segs /\ DOMAIN NoStore = {}
      BY MapperAssumption DEF Segs, NoStore
    <3> QED BY <3>1, <3>2, <3>3, <3>4
  <2> QED BY <2>1, <2>2, <2>3 DEF SnapInv
<1>4. CASE UNCHANGED snapVars
  <2>1. MapperInv => MapperInv'
    BY <1>4, StepInv DEF snapVars
  <2> QED BY <1>4, <2>1 DEF snapVars, vars, SnapInv, FileInv
<1> QED BY <1>1, <1>2, <1>3, <1>4 DEF SnapNext

LEMMA SnapInitInv == SnapInit => SnapInv
<1> SUFFICES ASSUME SnapInit PROVE SnapInv
  OBVIOUS
<1>1. MapperInv
  BY InitInv DEF SnapInit
<1> QED BY <1>1 DEF SnapInit, Init, SnapInv, FileInv

(* After any number of saves and loads, into this machine and new ones,    *)
(* pages showing one segment still show one memory.                        *)
THEOREM LoadedSharesRAM ==
  ASSUME Habits = AllHabits PROVE SnapSpec => []SameRAMLoaded
<1>1. SnapInv => SameRAMLoaded
  BY DEF SnapInv, MapperInv, SameRAMLoaded
<1> QED BY <1>1, SnapInitInv, SnapStep, PTL DEF SnapSpec

(* A load of a snapshot taken with the mapper in use brings back every     *)
(* segment register and every byte of every segment, shown or stored.      *)
THEOREM LoadsRestore ==
  ASSUME Habits = AllHabits PROVE SnapSpec => LoadRestores
<1>1. ASSUME SnapInv, NEW fresh \in BOOLEAN, LoadState(fresh), promised[3]
      PROVE  Seg' = promised[1] /\ SegmentRam' = promised[2]
  <2>1. /\ SoundSave(saved) /\ Seg' = saved.seg /\ Store' = saved.store
        /\ \A p \in Pages : RamIn(p)' = RamOf(saved, p)
    BY <1>1, LoadMakes
  <2>2. promised[1] = saved.seg /\ promised[2] = SegmentsOf(saved)
    BY <1>1 DEF LoadState, Walk, SnapInv, FileInv
  <2>3. SegmentRam' = SegmentsOf(saved)
    <3>1. ASSUME NEW s \in Segs
          PROVE  SegmentRam'[s] = SegmentsOf(saved)[s]
      <4> DEFINE shown == {p \in Pages : saved.seg[p] = s}
      <4>1. shown # {} => First(shown) \in Pages
        <5>1. shown \in SUBSET Pages
          OBVIOUS
        <5> QED BY <5>1, FirstIn
      <4>2. SegmentRam'[s]
              = IF shown = {} THEN saved.store[s] ELSE RamOf(saved, First(shown))
        <5>1. shown = {p \in Pages : Seg'[p] = s}
          BY <2>1
        <5>2. SegmentRam'[s] = IF shown = {} THEN Store'[s] ELSE RamOf(saved, First(shown))
          BY <2>1, <4>1, <5>1 DEF SegmentRam, RamIn, RamOf
        <5> QED BY <2>1, <5>2
      <4>3. SegmentsOf(saved)[s]
              = IF shown = {} THEN saved.store[s] ELSE RamOf(saved, First(shown))
        BY DEF SegmentsOf
      <4> QED BY <4>2, <4>3
    <3> QED BY <3>1 DEF SegmentsOf, SegmentRam
  <2> QED BY <2>1, <2>2, <2>3
<1>2. SnapInv => [\A fresh \in BOOLEAN : LoadState(fresh) /\ promised[3] =>
                    Seg' = promised[1] /\ SegmentRam' = promised[2]]_snapVars
  BY <1>1
<1> QED BY <1>2, SnapInitInv, SnapStep, PTL DEF SnapSpec, LoadRestores
=============================================================================
