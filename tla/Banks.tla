------------------------------- MODULE Banks -------------------------------
(***************************************************************************)
(* Cartridge paging: mapper.go, and the address space of memory.go that    *)
(* the selected banks are copied into.  A read is one load from Mem, so    *)
(* after a write to a bank register the bytes of the window must be the    *)
(* new bank's; and Offset, which names the translated instruction at an    *)
(* address, must name the image byte that is there.                        *)
(*                                                                         *)
(* A byte of the image is its offset in the image.  A byte a program       *)
(* writes is Written(v), which is no offset.  Addrs is a sample of the     *)
(* address space: every switch range, every page outside them, the sound   *)
(* chip's window, RAM.                                                     *)
(***************************************************************************)
EXTENDS Integers

CONSTANTS
  BankSize,    \* Mapper.BankSize
  Registers,   \* the bank registers, one for each of Mapper.Pages
  Start, End,  \* the window of each register, [Start, End)
  Initial,     \* the bank in each at power-on
  Selects,     \* Mapper.Switches: the addresses that write each register
  HasSCC,      \* Mapper.SCC: a bank exposes the sound chip
  Size,        \* the bytes of the image
  Addrs,       \* the addresses the program writes
  Values       \* the bytes it writes

ChipRegister == 2                  \* the chip lives behind the 8000h page
ChipBank == 63                     \* sccBank
ChipWindow == {a \in Addrs : 38912 <= a /\ a < 40960}   \* sccBase up to sccEnd

Covers(i, a) == Start[i] <= a /\ a < End[i]

ASSUME ImageAssumption ==
  /\ Addrs \subseteq Nat /\ \A a \in Addrs : a < 65536
  /\ Values \subseteq Nat /\ \A v \in Values : v < 256
  /\ Size \in Nat /\ BankSize \in Nat \ {0}
ASSUME WindowAssumption ==
  /\ Start \in [Registers -> Nat] /\ End \in [Registers -> Nat]
  /\ \A i \in Registers : Start[i] < 65536 /\ Start[i] % 8192 = 0
  /\ \A i, j \in Registers : \A a \in Addrs : Covers(i, a) /\ Covers(j, a) => i = j
  /\ Initial \in [Registers -> Nat]
  /\ Selects \in [Registers -> SUBSET Nat]
ASSUME ChipAssumption ==
  /\ HasSCC \in BOOLEAN
  /\ HasSCC => /\ ChipRegister \in Registers
               /\ Initial[ChipRegister] # ChipBank
               /\ \A a \in ChipWindow : Covers(ChipRegister, a)

VARIABLES
  memory,   \* Mem, at Addrs
  bank,     \* the bank registers, as they were written
  active,   \* SCC.Active: the chip's registers are in the window
  chip      \* the chip's registers, at Addrs

vars == <<memory, bank, active, chip>>

Undriven == -256
Written(v) == -1 - v
Bytes == (0..Size - 1) \cup {Undriven} \cup {Written(v) : v \in Values \cup {0}}

NBanks == Size \div BankSize

(* Mapper.Mask: the hardware drops the bits above the image's size.        *)
Mask(b) == IF NBanks = 0 THEN 0 ELSE b % NBanks

Cartridge(a) == \E i \in Registers : Covers(i, a)
PageOf(a) == CHOOSE i \in Registers : Covers(i, a)

(* Mapper.Phys and Offset: the image byte at an address under a bank       *)
(* state, -1 past the image.                                               *)
Phys(bk, a) == Mask(bk[PageOf(a)]) * BankSize + (a - Start[PageOf(a)])
Offset(bk, a) == IF Cartridge(a) /\ Phys(bk, a) < Size THEN Phys(bk, a) ELSE -1

(* SwitchPage: the register a write to an address selects a bank in.       *)
Switched(a) == {i \in Registers : a \in Selects[i]}

(* rom8k: the 8K pages a window starts or goes on in.                      *)
Rom8k == {k \in 0..7 : \E i \in Registers, j \in 0..7 :
            LET a == Start[i] + 8192 * j
            IN a < End[i] /\ a < 65536 /\ a \div 8192 = k}

(* Mutant of Paged: the register as it is, with no mask and no check       *)
(* against the image.                                                      *)
PagedRaw(m, bk, i) ==
  [a \in Addrs |-> IF Covers(i, a) THEN bk[i] * BankSize + (a - Start[i]) ELSE m[a]]

(* page(i): the selected bank is copied into its window.                   *)
Paged(m, bk, i) ==
  [a \in Addrs |->
     IF ~ Covers(i, a) THEN m[a]
     ELSE LET p == Mask(bk[i]) * BankSize + (a - Start[i])
          IN IF p < Size THEN p ELSE Undriven]

-----------------------------------------------------------------------------

(* New: RAM cleared, every window paged.                                   *)
Init ==
  /\ bank = Initial
  /\ memory = [a \in Addrs |->
                 IF Cartridge(a) THEN Paged([b \in Addrs |-> Written(0)], Initial, PageOf(a))[a]
                 ELSE Written(0)]
  /\ active = FALSE
  /\ chip = [a \in Addrs |-> Written(0)]

(* Mutants of SetBank: the window is paged before the register holds the   *)
(* new bank; the chip, once in its window, stays there.                    *)
SetBankLate(i, b) ==
  /\ b # bank[i]
  /\ memory' = Paged(memory, bank, i)
  /\ bank' = [bank EXCEPT ![i] = b]
  /\ active' = IF HasSCC /\ i = ChipRegister THEN b = ChipBank ELSE active
  /\ UNCHANGED chip
SetBankStays(i, b) ==
  /\ b # bank[i]
  /\ bank' = [bank EXCEPT ![i] = b]
  /\ memory' = Paged(memory, bank', i)
  /\ active' = (active \/ (HasSCC /\ i = ChipRegister /\ b = ChipBank))
  /\ UNCHANGED chip

(* setBank, when it changes the register: the window is paged, and bank    *)
(* 3Fh in the page the chip lives behind swaps ROM for its registers.      *)
SetBank(i, b) ==
  LET after == [bank EXCEPT ![i] = b]
      paged == Paged(memory, after, i)
  IN /\ b # bank[i]
     /\ bank' = after
     /\ IF HasSCC /\ i = ChipRegister
        THEN /\ active' = (b = ChipBank)
             /\ memory' = IF active' /\ ~ active
                          THEN [a \in Addrs |-> IF a \in ChipWindow THEN Written(0)
                                                ELSE paged[a]]
                          ELSE paged
        ELSE memory' = paged /\ active' = active
     /\ UNCHANGED chip

(* wr: the mapper's switches come first, then the chip, then the ROM that  *)
(* drops the write, then RAM.                                              *)
WriteSwitch(a, v) == \E i \in Switched(a) : SetBank(i, v)

WriteChip(a, v) ==
  /\ Switched(a) = {}
  /\ active /\ a \in ChipWindow
  /\ chip' = [chip EXCEPT ![a] = Written(v)]
  /\ memory' = [memory EXCEPT ![a] = Written(v)]
  /\ UNCHANGED <<bank, active>>

WriteRam(a, v) ==
  /\ Switched(a) = {}
  /\ ~ (active /\ a \in ChipWindow)
  /\ a \div 8192 \notin Rom8k
  /\ memory' = [memory EXCEPT ![a] = Written(v)]
  /\ UNCHANGED <<bank, active, chip>>

Next == \E a \in Addrs, v \in Values :
          WriteSwitch(a, v) \/ WriteChip(a, v) \/ WriteRam(a, v)

Spec == Init /\ [][Next]_vars

-----------------------------------------------------------------------------

TypeOK ==
  /\ memory \in [Addrs -> Bytes]
  /\ bank \in [Registers -> Nat]
  /\ active \in BOOLEAN
  /\ chip \in [Addrs -> Bytes]

(* The byte a read finds anywhere in the cartridge is the one Offset names *)
(* under the registers as they are now, which is what the dispatch to      *)
(* translated code goes by; the chip's registers stand in front of it in   *)
(* their window, and only while bank 3Fh is selected.                      *)
BytesAreOffset ==
  \A a \in Addrs :
    Cartridge(a) /\ ~ (active /\ a \in ChipWindow) =>
      memory[a] = IF Offset(bank, a) = -1 THEN Undriven ELSE Offset(bank, a)

(* The chip answers exactly while its bank is in its page's register,      *)
(* whatever was written before and however the windows overlap.            *)
ChipFollowsBank == active <=> HasSCC /\ bank[ChipRegister] = ChipBank

(* Copies, registers and the chip's window name the same bank.             *)
BanksInv == TypeOK /\ ChipFollowsBank /\ BytesAreOffset
=============================================================================
