----------------------------- MODULE BanksProof -----------------------------
(***************************************************************************)
(* Proofs about Banks, for any mapper and image that satisfy its           *)
(* assumptions: windows that do not overlap and start on an 8K         *)
(* boundary, and a chip window inside the page of its register.            *)
(*                                                                         *)
(* BytesAreOffset is inductive together with ChipFollowsBank: a window     *)
(* other than the one being paged keeps its bytes only if the chip does    *)
(* not come or go in it.                                                   *)
(***************************************************************************)
EXTENDS Banks, TLAPS

(* The byte a read should find in the cartridge.                           *)
ByteAt(bk, a) == IF Phys(bk, a) < Size THEN Phys(bk, a) ELSE Undriven

LEMMA PageIs ==
  ASSUME NEW a \in Addrs, NEW i \in Registers, Covers(i, a)
  PROVE  Cartridge(a) /\ PageOf(a) = i
<1>1. Cartridge(a)
  BY DEF Cartridge
<1>2. \A j \in Registers : Covers(j, a) => j = i
  BY WindowAssumption
<1> QED BY <1>1, <1>2 DEF PageOf

LEMMA PageOfCovers ==
  ASSUME NEW a \in Addrs, Cartridge(a)
  PROVE  PageOf(a) \in Registers /\ Covers(PageOf(a), a)
BY DEF Cartridge, PageOf

(* What division and remainder return on natural numbers.                  *)
LEMMA DivisionType ==
  ASSUME NEW n \in Nat, NEW d \in Nat \ {0}
  PROVE  n \div d \in Nat /\ n % d \in Nat
<1>1. n \div d \in Nat
  BY SMT
<1>2. n % d \in Nat
  BY SMT
<1> QED BY <1>1, <1>2

LEMMA MaskType == \A b \in Nat : Mask(b) \in Nat
<1>1. Size \in Nat /\ BankSize \in Nat \ {0}
  BY ImageAssumption
<1>2. NBanks \in Nat
  BY <1>1, DivisionType DEF NBanks
<1>3. ASSUME NEW b \in Nat, NBanks # 0 PROVE b % NBanks \in Nat
  BY <1>2, <1>3, DivisionType
<1> QED BY <1>2, <1>3 DEF Mask

LEMMA PhysType ==
  ASSUME NEW bk \in [Registers -> Nat], NEW a \in Addrs, Cartridge(a)
  PROVE  Phys(bk, a) \in Nat
<1> DEFINE i == PageOf(a)
<1>1. i \in Registers /\ Covers(i, a)
  BY PageOfCovers
<1>2. Mask(bk[i]) \in Nat
  BY <1>1, MaskType
<1>3. Mask(bk[i]) * BankSize \in Nat
  <2>1. BankSize \in Nat
    BY ImageAssumption
  <2> QED BY <1>2, <2>1
<1>4. Start[i] \in Nat /\ a \in Nat /\ a >= Start[i]
  BY <1>1, ImageAssumption, WindowAssumption DEF Covers
<1> QED BY <1>3, <1>4 DEF Phys

LEMMA ByteAtType ==
  ASSUME NEW bk \in [Registers -> Nat], NEW a \in Addrs, Cartridge(a)
  PROVE  ByteAt(bk, a) \in Bytes
<1>1. Phys(bk, a) \in Nat /\ Size \in Nat
  BY PhysType, ImageAssumption
<1>2. Phys(bk, a) < Size => Phys(bk, a) \in 0..Size - 1
  BY <1>1
<1> QED BY <1>2 DEF ByteAt, Bytes

LEMMA ByteIsOffset ==
  ASSUME NEW bk \in [Registers -> Nat], NEW a \in Addrs, Cartridge(a)
  PROVE  ByteAt(bk, a) = IF Offset(bk, a) = -1 THEN Undriven ELSE Offset(bk, a)
BY PhysType DEF ByteAt, Offset

(* page copies the selected bank into its window and leaves the others.    *)
LEMMA PagedIs ==
  ASSUME NEW m \in [Addrs -> Bytes], NEW bk \in [Registers -> Nat],
         NEW i \in Registers, NEW a \in Addrs
  PROVE  /\ Covers(i, a) => Paged(m, bk, i)[a] = ByteAt(bk, a)
         /\ ~ Covers(i, a) => Paged(m, bk, i)[a] = m[a]
BY PageIs DEF Paged, ByteAt, Phys

LEMMA PagedType ==
  ASSUME NEW m \in [Addrs -> Bytes], NEW bk \in [Registers -> Nat], NEW i \in Registers
  PROVE  Paged(m, bk, i) \in [Addrs -> Bytes]
<1>1. \A a \in Addrs : Paged(m, bk, i)[a] \in Bytes
  <2> TAKE a \in Addrs
  <2>1. CASE Covers(i, a)
    BY <2>1, PageIs, ByteAtType, PagedIs
  <2>2. CASE ~ Covers(i, a)
    BY <2>2, PagedIs
  <2> QED BY <2>1, <2>2
<1> QED BY <1>1 DEF Paged

LEMMA WrittenType == \A v \in Values \cup {0} : Written(v) \in Bytes
BY DEF Bytes

(* Every cartridge address is in an 8K page that drops writes.             *)
LEMMA CartridgeIsRom ==
  ASSUME NEW a \in Addrs, Cartridge(a)
  PROVE  a \div 8192 \in Rom8k
<1> PICK i \in Registers : Covers(i, a)
  BY DEF Cartridge
<1> DEFINE lo == Start[i]
           hi == End[i]
<1>1. a \in Nat /\ a < 65536 /\ lo \in Nat /\ hi \in Nat /\ lo % 8192 = 0
  BY ImageAssumption, WindowAssumption
<1>2. lo <= a /\ a < hi
  BY DEF Covers
<1> HIDE DEF lo, hi
<1> DEFINE j == (a - lo) \div 8192
<1>3. j \in 0..7
  BY <1>1, <1>2
<1>4. lo + 8192 * j <= a
  BY <1>1, <1>2
<1>5. (lo + 8192 * j) \div 8192 = a \div 8192
  BY <1>1, <1>2
<1>6. a \div 8192 \in 0..7
  BY <1>1
<1> HIDE DEF j
<1>7. lo + 8192 * j < hi /\ lo + 8192 * j < 65536
  BY <1>1, <1>2, <1>3, <1>4
<1> QED BY <1>3, <1>5, <1>6, <1>7 DEF Rom8k, lo, hi

LEMMA InitInv == Init => BanksInv
<1> SUFFICES ASSUME Init PROVE BanksInv
  OBVIOUS
<1> DEFINE blank == [b \in Addrs |-> Written(0)]
<1>1. bank \in [Registers -> Nat]
  BY WindowAssumption DEF Init
<1>2. blank \in [Addrs -> Bytes]
  BY WrittenType
<1>3. \A a \in Addrs : Cartridge(a) => memory[a] = ByteAt(bank, a)
  <2> TAKE a \in Addrs
  <2> HAVE Cartridge(a)
  <2>1. memory[a] = Paged(blank, bank, PageOf(a))[a]
    BY DEF Init
  <2> QED BY <1>1, <1>2, <2>1, PageOfCovers, PagedIs
<1>4. \A a \in Addrs : memory[a] \in Bytes
  <2> TAKE a \in Addrs
  <2>1. CASE Cartridge(a)
    BY <1>1, <1>3, <2>1, ByteAtType
  <2>2. CASE ~ Cartridge(a)
    BY <2>2, WrittenType DEF Init
  <2> QED BY <2>1, <2>2
<1>5. TypeOK
  <2>1. memory = [a \in Addrs |-> memory[a]]
    BY DEF Init
  <2>2. memory \in [Addrs -> Bytes]
    BY <1>4, <2>1
  <2>3. chip \in [Addrs -> Bytes] /\ active \in BOOLEAN
    BY WrittenType DEF Init
  <2> QED BY <1>1, <2>2, <2>3 DEF TypeOK
<1>6. ChipFollowsBank
  BY ChipAssumption DEF Init, ChipFollowsBank
<1>7. BytesAreOffset
  BY <1>1, <1>3, ByteIsOffset DEF BytesAreOffset
<1> QED BY <1>5, <1>6, <1>7 DEF BanksInv

LEMMA SetBankInv ==
  ASSUME BanksInv, NEW i \in Registers, NEW b \in Values, SetBank(i, b)
  PROVE  BanksInv'
<1> DEFINE after == [bank EXCEPT ![i] = b]
           paged == Paged(memory, after, i)
<1>1. after \in [Registers -> Nat] /\ memory \in [Addrs -> Bytes] /\ active \in BOOLEAN
  BY ImageAssumption DEF BanksInv, TypeOK
<1>2. bank' = after /\ after[i] = b /\ \A k \in Registers \ {i} : after[k] = bank[k]
  BY DEF SetBank, BanksInv, TypeOK
<1>3. paged \in [Addrs -> Bytes]
  BY <1>1, PagedType
<1>4. TypeOK'
  <2>1. memory' \in [Addrs -> Bytes]
    <3>1. [a \in Addrs |-> IF a \in ChipWindow THEN Written(0) ELSE paged[a]]
            \in [Addrs -> Bytes]
      BY <1>3, WrittenType
    <3>2. \/ memory' = paged
          \/ memory' = [a \in Addrs |-> IF a \in ChipWindow THEN Written(0) ELSE paged[a]]
      BY DEF SetBank
    <3> QED BY <1>3, <3>1, <3>2
  <2>2. active' \in BOOLEAN
    BY <1>1 DEF SetBank
  <2> QED BY <1>1, <1>2, <2>1, <2>2 DEF SetBank, BanksInv, TypeOK
<1>5. ChipFollowsBank'
  <2>1. CASE HasSCC /\ i = ChipRegister
    <3>1. active' = (b = ChipBank)
      BY <2>1 DEF SetBank
    <3> QED BY <1>2, <2>1, <3>1 DEF ChipFollowsBank
  <2>2. CASE HasSCC /\ i # ChipRegister
    <3>1. active' = active
      BY <2>2 DEF SetBank
    <3>2. bank'[ChipRegister] = bank[ChipRegister]
      BY <1>2, <2>2, ChipAssumption
    <3> QED BY <3>1, <3>2 DEF BanksInv, ChipFollowsBank
  <2>3. CASE ~ HasSCC
    <3>1. active' = active
      BY <2>3 DEF SetBank
    <3> QED BY <2>3, <3>1 DEF BanksInv, ChipFollowsBank
  <2> QED BY <2>1, <2>2, <2>3, ChipAssumption
<1>6. ASSUME NEW a \in Addrs, Cartridge(a), ~ (active' /\ a \in ChipWindow)
      PROVE  memory'[a] = ByteAt(after, a)
  <2>1. memory'[a] = paged[a]
    BY <1>3, <1>6 DEF SetBank
  <2>2. CASE Covers(i, a)
    BY <1>1, <2>1, <2>2, PagedIs
  <2>3. CASE ~ Covers(i, a)
    <3>1. memory'[a] = memory[a]
      BY <1>1, <2>1, <2>3, PagedIs
    <3>2. PageOf(a) \in Registers /\ PageOf(a) # i
      BY <1>6, <2>3, PageOfCovers
    <3>3. ByteAt(after, a) = ByteAt(bank, a)
      BY <1>2, <3>2 DEF ByteAt, Phys
    <3>4. ~ (active /\ a \in ChipWindow)
      <4> SUFFICES ASSUME active, a \in ChipWindow PROVE FALSE
        OBVIOUS
      <4>1. HasSCC /\ Covers(ChipRegister, a)
        BY ChipAssumption DEF BanksInv, ChipFollowsBank
      <4>2. i # ChipRegister
        BY <2>3, <4>1
      <4>3. active'
        BY <4>2 DEF SetBank
      <4> QED BY <1>6, <4>3
    <3>5. memory[a] = ByteAt(bank, a)
      BY <1>6, <3>4, ByteIsOffset DEF BanksInv, BytesAreOffset, TypeOK
    <3> QED BY <3>1, <3>3, <3>5
  <2> QED BY <2>2, <2>3
<1>7. BytesAreOffset'
  BY <1>1, <1>2, <1>6, ByteIsOffset DEF BytesAreOffset
<1> QED BY <1>4, <1>5, <1>7 DEF BanksInv

LEMMA StepInv == BanksInv /\ [Next]_vars => BanksInv'
<1> SUFFICES ASSUME BanksInv, [Next]_vars PROVE BanksInv'
  OBVIOUS
<1>1. ASSUME NEW a \in Addrs, NEW v \in Values, WriteSwitch(a, v) PROVE BanksInv'
  <2> PICK i \in Switched(a) : SetBank(i, v)
    BY <1>1 DEF WriteSwitch
  <2>1. i \in Registers
    BY WindowAssumption DEF Switched
  <2> QED BY <2>1, SetBankInv
<1>2. ASSUME NEW a \in Addrs, NEW v \in Values, WriteChip(a, v) PROVE BanksInv'
  <2>1. Written(v) \in Bytes
    BY ImageAssumption, WrittenType
  <2>2. TypeOK' /\ ChipFollowsBank'
    BY <1>2, <2>1 DEF WriteChip, BanksInv, TypeOK, ChipFollowsBank
  <2>3. BytesAreOffset'
    BY <1>2 DEF WriteChip, BanksInv, TypeOK, BytesAreOffset
  <2> QED BY <2>2, <2>3 DEF BanksInv
<1>3. ASSUME NEW a \in Addrs, NEW v \in Values, WriteRam(a, v) PROVE BanksInv'
  <2>1. Written(v) \in Bytes
    BY ImageAssumption, WrittenType
  <2>2. TypeOK' /\ ChipFollowsBank'
    BY <1>3, <2>1 DEF WriteRam, BanksInv, TypeOK, ChipFollowsBank
  <2>3. ~ Cartridge(a)
    BY <1>3, CartridgeIsRom DEF WriteRam
  <2>4. BytesAreOffset'
    BY <1>3, <2>3 DEF WriteRam, BanksInv, TypeOK, BytesAreOffset
  <2> QED BY <2>2, <2>4 DEF BanksInv
<1>4. CASE UNCHANGED vars
  BY <1>4 DEF vars, BanksInv, TypeOK, ChipFollowsBank, BytesAreOffset
<1> QED BY <1>1, <1>2, <1>3, <1>4 DEF Next

(* After any writes, a read of the cartridge finds the byte Offset names.  *)
THEOREM ReadsAgreeWithDispatch == Spec => []BytesAreOffset
<1>1. BanksInv => BytesAreOffset
  BY DEF BanksInv
<1> QED BY <1>1, InitInv, StepInv, PTL DEF Spec

(* The chip is in its window exactly while its bank is selected.           *)
THEOREM ChipInItsWindow == Spec => []ChipFollowsBank
<1>1. BanksInv => ChipFollowsBank
  BY DEF BanksInv
<1> QED BY <1>1, InitInv, StepInv, PTL DEF Spec

(* What a read finds and where the chip is follow the bank registers alone,*)
(* after any writes to them, to the chip and to RAM.                       *)
THEOREM CopiesAreCurrent == Spec => []BanksInv
  BY InitInv, StepInv, PTL DEF Spec
=============================================================================
