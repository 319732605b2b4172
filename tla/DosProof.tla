------------------------------ MODULE DosProof ------------------------------
(***************************************************************************)
(* The file calls (Dos) for any number of floppies, control blocks, names  *)
(* and records.  Whatever the program does, the state keeps its shape, no  *)
(* name is in a directory twice, and no file stays open on a floppy that   *)
(* was taken out.  A program with the habits Careful names reads what it   *)
(* wrote, and its files held in memory implement files written at once; a  *)
(* search by one with the habits Quiet names finds every file.             *)
(*                                                                         *)
(* Writing the open files back is a recursive function over the order a    *)
(* map gives them in; what holds after each is shown by UpTo, that a set   *)
(* with 0 and the number after each of its numbers has them all.           *)
(***************************************************************************)
EXTENDS Dos, WellFoundedInduction, FiniteSetTheorems, TLAPS

Mounted(d) == \E dr \in Drives : inDrive[dr] = d

(* Inductive: the floppy of an open file is in a drive, and so is Disk,    *)
(* which files opened without naming a drive are taken from.               *)
DosInv ==
  /\ curDrive \in Drives
  /\ disk = inDrive[curDrive]
  /\ files = [b \in Blocks |-> files[b]]
  /\ \A b \in Blocks : files[b] # Closed => Mounted(files[b].disk)

-----------------------------------------------------------------------------

(* The floppy a control block names is in a drive: fcbDisk falls back to   *)
(* the selected one.                                                       *)
LEMMA NamedIsMounted ==
  ASSUME DosInv, NEW drv \in DriveBytes
  PROVE  Mounted(FcbDisk(drv))
  <1>1. CASE drv > 0 /\ drv - 1 \in Drives
    BY <1>1 DEF FcbDisk, Mounted
  <1>2. CASE ~ (drv > 0 /\ drv - 1 \in Drives)
    BY <1>2 DEF FcbDisk, Mounted, DosInv
  <1> QED BY <1>1, <1>2

(* And so is the floppy of the file dosOpen finds.                         *)
LEMMA OpenedIsMounted ==
  ASSUME DosInv, NEW b \in Blocks, NEW drv \in DriveBytes, NEW n \in Names,
         Opened(b, drv, n) # Closed
  PROVE  Mounted(Opened(b, drv, n).disk)
  <1>1. CASE Cached(b, drv, n)
    BY <1>1 DEF Opened, DosInv
  <1>2. CASE ~ Cached(b, drv, n)
    <2> DEFINE data == Look(DirOpening(b, drv, n)[FcbDisk(drv)], n)
    <2>1. data # Missing /\ Opened(b, drv, n) = File(n, data, FcbDisk(drv), FALSE)
      BY <1>2 DEF Opened
    <2>2. Opened(b, drv, n).disk = FcbDisk(drv)
      BY <2>1 DEF File
    <2> QED BY <2>2, NamedIsMounted
  <1> QED BY <1>1, <1>2

(* One block's file replaced by a file of a mounted floppy, or by none.    *)
LEMMA OneBlock ==
  ASSUME DosInv, NEW b \in Blocks, NEW fl, fl # Closed => Mounted(fl.disk),
         files' = [files EXCEPT ![b] = fl],
         UNCHANGED <<inDrive, curDrive, disk>>
  PROVE  DosInv'
  BY DEF DosInv, Mounted, Drives

-----------------------------------------------------------------------------

LEMMA StartMounted == Init => DosInv
  <1> SUFFICES ASSUME Init PROVE DosInv
    OBVIOUS
  <1>1. PICK k \in DriveSets : inDrive = [dr \in 0..k - 1 |-> dr]
    BY DEF Init
  <1>2. k \in {1, 2}
    BY DosAssumption
  <1>3. Drives = 0..k - 1 /\ 0 \in Drives /\ inDrive[0] = 0
    BY <1>1, <1>2 DEF Drives
  <1> QED BY <1>3 DEF Init, DosInv

LEMMA StepMounted == DosInv /\ [Next]_vars => DosInv'
  <1> SUFFICES ASSUME DosInv, [Next]_vars PROVE DosInv'
    OBVIOUS
  <1>1. ASSUME NEW b \in Blocks, NEW drv \in DriveBytes, NEW n \in Names,
               OpenOrRead(b, drv, n)
        PROVE  DosInv'
    BY <1>1, OpenedIsMounted, OneBlock DEF OpenOrRead
  <1>2. ASSUME NEW b \in Blocks, NEW drv \in DriveBytes, NEW n \in Names,
               Create(b, drv, n)
        PROVE  DosInv'
    <2>1. File(n, << >>, FcbDisk(drv), TRUE).disk = FcbDisk(drv)
      BY DEF File
    <2> QED BY <1>2, <2>1, NamedIsMounted, OneBlock DEF Create
  <1>3. ASSUME NEW b \in Blocks, NEW drv \in DriveBytes, NEW n \in Names,
               NEW pos \in Positions, NEW v \in Values, Write(b, drv, n, pos, v)
        PROVE  DosInv'
    <2> DEFINE opened == IF files[b] # Closed THEN files[b] ELSE Opened(b, drv, n)
               fl == IF opened # Closed THEN opened
                     ELSE File(n, << >>, FcbDisk(drv), TRUE)
               new == File(fl.name, Put(fl.data, pos, v), fl.disk, TRUE)
    <2>1. opened # Closed => Mounted(opened.disk)
      BY OpenedIsMounted DEF DosInv
    <2>2. Mounted(fl.disk)
      <3>1. CASE opened # Closed
        BY <3>1, <2>1
      <3>2. CASE opened = Closed
        <4>1. fl.disk = FcbDisk(drv)
          BY <3>2 DEF File
        <4> QED BY <4>1, NamedIsMounted
      <3> QED BY <3>1, <3>2
    <2>3. new.disk = fl.disk
      BY DEF File
    <2>4. files' = [files EXCEPT ![b] = new] /\ UNCHANGED <<inDrive, curDrive, disk>>
      BY <1>3 DEF Write
    <2> QED BY <2>2, <2>3, <2>4, OneBlock
  <1>4. ASSUME NEW b \in Blocks, Close(b) PROVE DosInv'
    BY <1>4, OneBlock DEF Close
  <1>5. ASSUME NEW dr \in Drives, SelectDrive(dr) PROVE DosInv'
    BY <1>5 DEF SelectDrive, DosInv, Mounted, Drives
  <1>6. ASSUME SwapNext(0) PROVE DosInv'
    BY <1>6 DEF SwapNext, Forgotten, DosInv, Drives
  <1>7. ASSUME UNCHANGED <<inDrive, curDrive, disk, files>> PROVE DosInv'
    BY <1>7 DEF DosInv, Mounted, Drives
  <1>8. ASSUME \/ \E drv \in DriveBytes, n \in Names : Delete(drv, n)
               \/ \E drv \in DriveBytes, pat \in Patterns : SearchFirst(drv, pat)
               \/ SearchNext \/ Leave \/ Gone
               \/ UNCHANGED vars
        PROVE  UNCHANGED <<inDrive, curDrive, disk, files>>
    BY <1>8 DEF Delete, SearchFirst, SearchNext, Leave, Gone, vars
  <1> QED BY <1>1, <1>2, <1>3, <1>4, <1>5, <1>6, <1>7, <1>8 DEF Next, Call

(* Whatever the program and the player do, an open file's floppy is in a   *)
(* drive, and Disk is the floppy in the selected one (Insert, syncDisk).   *)
THEOREM NothingOpenOutside == Spec => []OpenOnMounted
  <1>1. DosInv => OpenOnMounted
    BY DEF DosInv, OpenOnMounted, Open, Mounted
  <1> QED BY <1>1, StartMounted, StepMounted, PTL DEF Spec

-----------------------------------------------------------------------------
(* Least numbers, and numbers one after another.                           *)
LEMMA LeastIn ==
  ASSUME NEW S \in SUBSET Nat, S # {}
  PROVE  Least(S) \in S /\ \A y \in S : Least(S) <= y
<1>1. PICK x \in S : \A y \in S : ~ (<<y, x>> \in OpToRel(<, Nat))
  BY NatLessThanWellFounded, WFMin, Zenon
<1>2. \A y \in S : ~ (y < x)
  <2> SUFFICES ASSUME NEW y \in S, y < x PROVE FALSE
    OBVIOUS
  <2>1. y \in Nat /\ x \in Nat
    OBVIOUS
  <2>2. <<y, x>> \in OpToRel(<, Nat)
    BY <2>1, Zenon DEF OpToRel
  <2> QED  BY <1>1, <2>2
<1>3. \A y \in S : x <= y
  BY <1>2
<1> QED  BY <1>3 DEF Least

LEMMA UpTo ==
  ASSUME NEW N \in Nat, NEW S, 0 \in S, \A n \in 0..N - 1 : n \in S => n + 1 \in S
  PROVE  0..N \subseteq S
<1> DEFINE out == (0..N) \ S
<1> SUFFICES ASSUME out # {} PROVE FALSE
  OBVIOUS
<1>1. out \in SUBSET Nat
  OBVIOUS
<1>2. Least(out) \in out /\ \A y \in out : Least(out) <= y
  BY <1>1, LeastIn
<1> DEFINE k == Least(out)
<1> HIDE DEF k
<1>3. k \in 0..N /\ k # 0 /\ k \notin S /\ k - 1 \in 0..N - 1
  BY <1>2 DEF k
<1>4. k - 1 \in S
  BY <1>2, <1>3 DEF k
<1> QED  BY <1>3, <1>4

-----------------------------------------------------------------------------
(* A directory.                                                            *)

LEMMA EntryFacts ==
  /\ AnyName \notin Names
  /\ \A e \in Entries : /\ e = NoEntry <=> e.name = AnyName
                        /\ e # NoEntry => e.name \in Names /\ e.data \in Data
  /\ \A n \in Names, x \in Data :
       /\ Entry(n, x) \in Entries /\ Entry(n, x) # NoEntry
       /\ Entry(n, x).name = n /\ Entry(n, x).data = x
  /\ NoEntry \in Entries /\ NoEntry.name = AnyName /\ NoEntry.data = Missing
<1>1. AnyName \notin Names
  BY DosAssumption
<1>2. NoEntry \in Entries /\ NoEntry.name = AnyName /\ NoEntry.data = Missing
  BY DEF Entries, NoEntry
<1>3. ASSUME NEW e \in Entries
      PROVE  /\ e = NoEntry <=> e.name = AnyName
             /\ e # NoEntry => e.name \in Names /\ e.data \in Data
  BY <1>1, <1>2 DEF Entries
<1>4. ASSUME NEW n \in Names, NEW x \in Data
      PROVE  /\ Entry(n, x) \in Entries /\ Entry(n, x) # NoEntry
             /\ Entry(n, x).name = n /\ Entry(n, x).data = x
  BY <1>1, <1>2 DEF Entries, Entry
<1> QED  BY <1>1, <1>2, <1>3, <1>4

LEMMA MissingIsNoData == Missing \notin Data
<1> SUFFICES ASSUME Missing \in Data PROVE FALSE
  OBVIOUS
<1>1. <<-1>> \in Seq(Nat)
  BY DEF Missing, Data
<1>2. <<-1>>[1] \in Nat
  <2>1. Len(<<-1>>) = 1
    OBVIOUS
  <2> QED  BY <1>1, <2>1
<1> QED  BY <1>2

(* The entry a name has is found.                                          *)
LEMMA LookIs ==
  ASSUME NEW d \in Images, NEW dr, Directory(d, dr), NEW n \in Names
  PROVE  /\ At(dr, n) = {} => Look(dr, n) = Missing
         /\ \A i \in 1..Room[d] : dr[i].name = n =>
              At(dr, n) = {i} /\ Least(At(dr, n)) = i /\ Look(dr, n) = dr[i].data
         /\ At(dr, n) # {} => Look(dr, n) \in Data
<1>0. Room[d] \in Nat /\ dr \in [1..Room[d] -> Entries]
  BY DosAssumption DEF Directory
<1>1. ASSUME NEW i \in 1..Room[d], dr[i].name = n
      PROVE  /\ At(dr, n) = {i} /\ Least(At(dr, n)) = i /\ Look(dr, n) = dr[i].data
             /\ dr[i].data \in Data
  <2>1. dr[i] # NoEntry /\ dr[i].data \in Data
    BY <1>0, <1>1, EntryFacts
  <2>2. At(dr, n) = {i}
    BY <1>0, <1>1, <2>1 DEF At, Directory
  <2>3. Least(At(dr, n)) \in {i}
    <3>1. At(dr, n) \in SUBSET Nat /\ At(dr, n) # {}
      BY <1>0, <2>2
    <3> QED  BY <2>2, <3>1, LeastIn
  <2> QED  BY <2>1, <2>2, <2>3 DEF Look
<1>2. At(dr, n) # {} => \E i \in 1..Room[d] : dr[i].name = n
  BY <1>0 DEF At
<1> QED  BY <1>1, <1>2 DEF Look

(* A file put into a directory.                                            *)
LEMMA SavedSlot ==
  ASSUME NEW d \in Images, NEW dr, Directory(d, dr), NEW n \in Names, ~ Full(dr, n)
  PROVE  LET j == Least(IF At(dr, n) # {} THEN At(dr, n) ELSE At(dr, AnyName))
         IN /\ j \in 1..Room[d]
            /\ dr[j].name = n \/ (dr[j].name = AnyName /\ At(dr, n) = {})
<1>0. Room[d] \in Nat /\ dr \in [1..Room[d] -> Entries]
  BY DosAssumption DEF Directory
<1>1. \A m : At(dr, m) \in SUBSET Nat
  BY <1>0 DEF At
<1>2. \A m : At(dr, m) # {} => /\ Least(At(dr, m)) \in 1..Room[d]
                               /\ dr[Least(At(dr, m))].name = m
  <2> SUFFICES ASSUME NEW m, At(dr, m) # {} PROVE Least(At(dr, m)) \in At(dr, m)
    BY <1>0 DEF At
  <2> QED  BY <1>1, LeastIn
<1> QED  BY <1>2 DEF Full

LEMMA SavedIs ==
  ASSUME NEW d \in Images, NEW dr, Directory(d, dr), NEW n \in Names, NEW x \in Data
  PROVE  /\ Directory(d, Saved(dr, n, x))
         /\ \A m \in Names :
              Look(Saved(dr, n, x), m) = IF m = n /\ ~ Full(dr, n) THEN x ELSE Look(dr, m)
         /\ \A m \in Names : At(dr, m) # {} => At(Saved(dr, n, x), m) # {}
         /\ At(dr, n) # {} =>
              \A i \in 1..Room[d] : Saved(dr, n, x)[i].name = dr[i].name
<1> DEFINE j == Least(IF At(dr, n) # {} THEN At(dr, n) ELSE At(dr, AnyName))
           sv == [dr EXCEPT ![j] = Entry(n, x)]
<1>0. /\ dr \in [1..Room[d] -> Entries]
      /\ \A i, k \in 1..Room[d] : dr[i] # NoEntry /\ i # k => dr[i].name # dr[k].name
  BY DEF Directory
<1>1. CASE Full(dr, n)
  BY <1>1 DEF Saved
<1>2. CASE ~ Full(dr, n)
  <2>1. /\ j \in 1..Room[d]
        /\ dr[j].name = n \/ (dr[j].name = AnyName /\ At(dr, n) = {})
    BY <1>2, SavedSlot
  <2>2. Saved(dr, n, x) = sv
    BY <1>2 DEF Saved
  <2> HIDE DEF j
  <2>3. /\ sv \in [1..Room[d] -> Entries] /\ sv[j].name = n /\ sv[j].data = x
        /\ sv[j] # NoEntry
        /\ \A i \in 1..Room[d] \ {j} : sv[i] = dr[i]
    BY <1>0, <2>1, EntryFacts
  <2> HIDE DEF sv
  <2>4. \A i \in 1..Room[d] \ {j} : dr[i].name # n
    <3>1. CASE dr[j].name = n
      <4>1. dr[j] # NoEntry
        BY <1>0, <2>1, <3>1, EntryFacts
      <4> QED  BY <1>0, <2>1, <3>1, <4>1
    <3>2. CASE At(dr, n) = {}
      BY <1>0, <3>2 DEF At
    <3> QED  BY <2>1, <3>1, <3>2
  <2>5. Directory(d, sv)
    <3> SUFFICES ASSUME NEW i \in 1..Room[d], NEW k \in 1..Room[d],
                        sv[i] # NoEntry, i # k
                 PROVE  sv[i].name # sv[k].name
      BY <2>3 DEF Directory
    <3> QED  BY <1>0, <2>3, <2>4
  <2>6. Look(sv, n) = x
    <3>1. \A i \in 1..Room[d] : sv[i].name = n => Look(sv, n) = sv[i].data
      BY <2>5, LookIs
    <3> QED  BY <2>1, <2>3, <3>1
  <2>7. ASSUME NEW m \in Names, m # n
        PROVE  At(sv, m) = At(dr, m) /\ Look(sv, m) = Look(dr, m)
    <3>1. DOMAIN sv = 1..Room[d] /\ DOMAIN dr = 1..Room[d]
      BY <1>0, <2>3
    <3>2. dr[j].name # m /\ sv[j].name # m
      BY <2>1, <2>3, <2>7, EntryFacts
    <3>3. At(sv, m) = At(dr, m)
      BY <2>3, <3>1, <3>2 DEF At
    <3>4. CASE At(dr, m) = {}
      BY <3>3, <3>4 DEF Look
    <3>5. CASE At(dr, m) # {}
      <4>1. PICK i \in 1..Room[d] : dr[i].name = m
        BY <3>1, <3>5 DEF At
      <4>2. sv[i] = dr[i]
        BY <2>3, <3>2, <4>1
      <4> QED  BY <2>5, <3>3, <4>1, <4>2, LookIs
    <3> QED  BY <3>3, <3>4, <3>5
  <2>8. At(sv, n) # {}
    BY <2>1, <2>3 DEF At
  <2>9. At(dr, n) # {} => \A i \in 1..Room[d] : sv[i].name = dr[i].name
    BY <2>1, <2>3
  <2> QED  BY <1>2, <2>2, <2>5, <2>6, <2>7, <2>8, <2>9
<1> QED  BY <1>1, <1>2

(* A file written back to the floppy it came from.                         *)
KeepsEntries(ds, new) ==
  \A d \in Images, n \in Names : At(ds[d], n) # {} => At(new[d], n) # {}
SameNames(ds, new) ==
  \A d \in Images : \A i \in 1..Room[d] : new[d][i].name = ds[d][i].name
HasEntry(ds, fl) == fl.dirty => At(ds[fl.disk], fl.name) # {}
Dirs(ds) == ds = [d \in Images |-> ds[d]] /\ \A d \in Images : Directory(d, ds[d])

LEMMA FileFacts ==
  /\ \A f \in OpenFiles : f # Closed =>
       f.name \in Names /\ f.data \in Data /\ f.disk \in Images /\ f.dirty \in BOOLEAN
  /\ \A f \in OpenFiles : f.dirty => f # Closed
  /\ Closed \in OpenFiles /\ ~ Closed.dirty /\ Closed.data = Missing
  /\ \A n \in Names, x \in Data, d \in Images, y \in BOOLEAN :
       /\ File(n, x, d, y) \in OpenFiles /\ File(n, x, d, y) # Closed
       /\ File(n, x, d, y).name = n /\ File(n, x, d, y).data = x
       /\ File(n, x, d, y).disk = d /\ File(n, x, d, y).dirty = y
<1>1. /\ Closed \in OpenFiles /\ ~ Closed.dirty /\ Closed.data = Missing
      /\ Closed.name = AnyName
  BY DEF OpenFiles, Closed
<1>2. ASSUME NEW n \in Names, NEW x \in Data, NEW d \in Images, NEW y \in BOOLEAN
      PROVE  /\ File(n, x, d, y) \in OpenFiles /\ File(n, x, d, y) # Closed
             /\ File(n, x, d, y).name = n /\ File(n, x, d, y).data = x
             /\ File(n, x, d, y).disk = d /\ File(n, x, d, y).dirty = y
  BY <1>1, DosAssumption DEF OpenFiles, File
<1>3. ASSUME NEW f \in OpenFiles, f # Closed
      PROVE  f.name \in Names /\ f.data \in Data /\ f.disk \in Images /\ f.dirty \in BOOLEAN
  BY <1>3 DEF OpenFiles
<1> QED  BY <1>1, <1>2, <1>3

LEMMA FlushedIs ==
  ASSUME NEW ds, Dirs(ds), NEW fl \in OpenFiles
  PROVE  /\ Dirs(Flushed(ds, fl))
         /\ \A d \in Images, n \in Names :
              Look(Flushed(ds, fl)[d], n) =
                IF fl.dirty /\ ~ Fails(ds, fl) /\ fl.disk = d /\ fl.name = n
                THEN fl.data ELSE Look(ds[d], n)
         /\ KeepsEntries(ds, Flushed(ds, fl))
         /\ HasEntry(ds, fl) => SameNames(ds, Flushed(ds, fl))
<1> USE DEF KeepsEntries, SameNames, HasEntry
<1>1. CASE ~ fl.dirty
  BY <1>1 DEF Flushed
<1>2. CASE fl.dirty
  <2>1. fl.name \in Names /\ fl.data \in Data /\ fl.disk \in Images
    BY <1>2, FileFacts
  <2> DEFINE new == Flushed(ds, fl)
             sv == Saved(ds[fl.disk], fl.name, fl.data)
  <2>2. new = [ds EXCEPT ![fl.disk] = sv]
    BY <1>2 DEF Flushed
  <2>3. new[fl.disk] = sv /\ \A d \in Images \ {fl.disk} : new[d] = ds[d]
    BY <2>1, <2>2 DEF Dirs
  <2>4. /\ Directory(fl.disk, sv)
        /\ \A m \in Names :
             Look(sv, m) = IF m = fl.name /\ ~ Full(ds[fl.disk], fl.name)
                           THEN fl.data ELSE Look(ds[fl.disk], m)
        /\ \A m \in Names : At(ds[fl.disk], m) # {} => At(sv, m) # {}
        /\ At(ds[fl.disk], fl.name) # {} =>
             \A i \in 1..Room[fl.disk] : sv[i].name = ds[fl.disk][i].name
    <3>1. Directory(fl.disk, ds[fl.disk])
      BY <2>1 DEF Dirs
    <3> QED  BY <2>1, <3>1, SavedIs
  <2>5. Fails(ds, fl) <=> Full(ds[fl.disk], fl.name)
    BY <1>2 DEF Fails
  <2> HIDE DEF new, sv
  <2>6. Dirs(new)
    <3>1. new = [d \in Images |-> new[d]]
      BY <2>2 DEF Dirs
    <3>2. \A d \in Images : Directory(d, new[d])
      BY <2>3, <2>4 DEF Dirs
    <3> QED  BY <3>1, <3>2 DEF Dirs
  <2>7. ASSUME NEW d \in Images, NEW n \in Names
        PROVE  /\ Look(new[d], n) = IF ~ Fails(ds, fl) /\ fl.disk = d /\ fl.name = n
                                    THEN fl.data ELSE Look(ds[d], n)
               /\ At(ds[d], n) # {} => At(new[d], n) # {}
    <3>1. CASE d = fl.disk
      BY <2>3, <2>4, <2>5, <3>1
    <3>2. CASE d # fl.disk
      BY <2>3, <3>2
    <3> QED  BY <3>1, <3>2
  <2>8. ASSUME At(ds[fl.disk], fl.name) # {}, NEW d \in Images, NEW i \in 1..Room[d]
        PROVE  new[d][i].name = ds[d][i].name
    <3>1. CASE d = fl.disk
      BY <2>3, <2>4, <2>8, <3>1
    <3>2. CASE d # fl.disk
      BY <2>3, <3>2
    <3> QED  BY <3>1, <3>2
  <2> QED  BY <1>2, <2>6, <2>7, <2>8 DEF new
<1> QED  BY <1>1, <1>2

-----------------------------------------------------------------------------
(* The open files written back one after another, as far as the k-th.      *)
Many == Cardinality(Open)
WrittenBack(o, N, g) ==
  \A k \in 0..N : g[k] = IF k = 0 THEN dir ELSE Flushed(g[k - 1], files[o[k]])

LEMMA OpenCount == Many \in Nat
<1>1. IsFiniteSet(Blocks) /\ Open \in SUBSET Blocks
  BY DosAssumption DEF Open
<1> QED  BY <1>1, FS_Subset, FS_CardinalityType DEF Many

LEMMA WriteBackExists ==
  ASSUME NEW o, NEW N \in Nat
  PROVE  \E g : WrittenBack(o, N, g)
<1> DEFINE S == {n \in 0..N : \E g : WrittenBack(o, n, g)}
<1>1. 0 \in S
  <2>1. WrittenBack(o, 0, [k \in {0} |-> dir])
    BY DEF WrittenBack
  <2> QED  BY <2>1
<1>2. ASSUME NEW n \in 0..N - 1, n \in S PROVE n + 1 \in S
  <2>1. PICK g : WrittenBack(o, n, g)
    BY <1>2
  <2> DEFINE h == [k \in 0..n + 1 |-> IF k <= n THEN g[k] ELSE Flushed(g[n], files[o[k]])]
  <2>2. WrittenBack(o, n + 1, h)
    BY <2>1 DEF WrittenBack
  <2> QED  BY <2>2
<1> HIDE DEF S
<1>3. 0..N \subseteq S
  BY <1>1, <1>2, UpTo
<1> QED  BY <1>3 DEF S

LEMMA AfterIs ==
  ASSUME NEW o
  PROVE  /\ After(o)[0] = dir
         /\ \A k \in 0..Many - 1 : After(o)[k + 1] = Flushed(After(o)[k], files[o[k + 1]])
<1>1. Many \in Nat
  BY OpenCount
<1>2. PICK g : WrittenBack(o, Many, g)
  BY <1>1, WriteBackExists
<1> DEFINE Rec(h) == [k \in 0..Many |->
                        IF k = 0 THEN dir ELSE Flushed(h[k - 1], files[o[k]])]
           f == [k \in 0..Many |-> g[k]]
<1>3. f = Rec(f)
  BY <1>1, <1>2 DEF WrittenBack
<1>4. After(o) = CHOOSE h : h = Rec(h)
  BY DEF After, Many
<1>5. After(o) = Rec(After(o))
  BY <1>3, <1>4
<1> DEFINE w == After(o)
<1> HIDE DEF w
<1>6. w = Rec(w)
  BY <1>5 DEF w
<1>7. \A k \in 0..Many : w[k] = IF k = 0 THEN dir ELSE Flushed(w[k - 1], files[o[k]])
  BY <1>6
<1>8. w[0] = dir
  BY <1>1, <1>7
<1>9. ASSUME NEW k \in 0..Many - 1 PROVE w[k + 1] = Flushed(w[k], files[o[k + 1]])
  <2>1. k + 1 \in 0..Many /\ k + 1 # 0 /\ (k + 1) - 1 = k
    BY <1>1
  <2> QED  BY <1>7, <2>1
<1> QED  BY <1>8, <1>9 DEF w

FilesType == files \in [Blocks -> OpenFiles]
HaveEntries == \A b \in Blocks : HasEntry(dir, files[b])

LEMMA InOrder ==
  ASSUME NEW o \in Orders, NEW k \in 0..Many - 1
  PROVE  k + 1 \in DOMAIN o /\ k + 1 \in 1..Many /\ o[k + 1] \in Open /\ o[k + 1] \in Blocks
<1>1. Many \in Nat
  BY OpenCount
<1>2. k + 1 \in 1..Many
  BY <1>1
<1> QED  BY <1>2 DEF Orders, Many, Open

(* Written back in whatever order, and as far as ever: the directories are *)
(* directories, and no name has lost its entry.                            *)
LEMMA AfterType ==
  ASSUME Dirs(dir), FilesType, NEW o \in Orders, NEW m \in 0..Many
  PROVE  /\ Dirs(After(o)[m])
         /\ KeepsEntries(dir, After(o)[m])
         /\ HaveEntries => SameNames(dir, After(o)[m])
<1> DEFINE ds == After(o)
           Fine(k) == /\ Dirs(ds[k]) /\ KeepsEntries(dir, ds[k])
                      /\ HaveEntries => SameNames(dir, ds[k])
           S == {k \in 0..Many : Fine(k)}
<1>0. Many \in Nat
  BY OpenCount
<1>1. ds[0] = dir /\ \A k \in 0..Many - 1 : ds[k + 1] = Flushed(ds[k], files[o[k + 1]])
  BY AfterIs
<1> HIDE DEF ds
<1>2. 0 \in S
  BY <1>0, <1>1 DEF KeepsEntries, SameNames
<1>3. ASSUME NEW k \in 0..Many - 1, k \in S PROVE k + 1 \in S
  <2> DEFINE fl == files[o[k + 1]]
  <2>1. fl \in OpenFiles /\ o[k + 1] \in Blocks
    BY InOrder DEF FilesType
  <2>2. /\ Dirs(ds[k]) /\ KeepsEntries(dir, ds[k])
        /\ HaveEntries => SameNames(dir, ds[k])
        /\ ds[k + 1] = Flushed(ds[k], fl)
    BY <1>1, <1>3
  <2>3. HaveEntries => HasEntry(ds[k], fl)
    <3>1. fl.dirty => fl.disk \in Images /\ fl.name \in Names
      BY <2>1, FileFacts
    <3> QED  BY <2>1, <2>2, <3>1 DEF HaveEntries, HasEntry, KeepsEntries
  <2> HIDE DEF fl
  <2>4. /\ Dirs(ds[k + 1]) /\ KeepsEntries(ds[k], ds[k + 1])
        /\ HasEntry(ds[k], fl) => SameNames(ds[k], ds[k + 1])
    BY <2>1, <2>2, FlushedIs
  <2>5. KeepsEntries(dir, ds[k + 1])
    BY <2>2, <2>4 DEF KeepsEntries
  <2>6. HaveEntries => SameNames(dir, ds[k + 1])
    BY <2>2, <2>3, <2>4 DEF SameNames
  <2>7. k + 1 \in 0..Many
    BY <1>0
  <2> QED  BY <2>4, <2>5, <2>6, <2>7
<1> HIDE DEF S
<1>4. 0..Many \subseteq S
  BY <1>0, <1>2, <1>3, UpTo
<1>5. Fine(m)
  BY <1>4 DEF S
<1> QED  BY <1>5 DEF ds

(* A file is written through one block at a time, and through no other     *)
(* open meanwhile.                                                         *)
OneWriter ==
  \A d \in Images, n \in Names : \A b \in Writers(d, n), c \in Blocks :
    Holds(c, d, n) => c = b

LEMMA WriterIs ==
  ASSUME FilesType, NEW b \in Blocks, files[b].dirty
  PROVE  /\ files[b] # Closed /\ files[b].disk \in Images /\ files[b].name \in Names
         /\ b \in Writers(files[b].disk, files[b].name)
         /\ files[b].data \in Data
<1>1. files[b] \in OpenFiles
  BY DEF FilesType
<1> QED  BY <1>1, FileFacts DEF Writers, Holds

(* Of each file: it holds what it held, if no open copy has changed, and   *)
(* what the changed copy holds once that has been written back.            *)
LEMMA AfterLooks ==
  ASSUME Dirs(dir), FilesType, OneWriter, NEW o \in Orders, NEW m \in 0..Many,
         NEW d \in Images, NEW n \in Names
  PROVE  /\ Writers(d, n) = {} => Look(After(o)[m][d], n) = Look(dir[d], n)
         /\ \A b \in Writers(d, n) :
              (\E j \in 1..m : o[j] = b) /\ (\A j \in FailAt(o) : j > m) =>
                Look(After(o)[m][d], n) = files[b].data
<1> DEFINE ds == After(o)
           Fine(k) ==
             /\ Writers(d, n) = {} => Look(ds[k][d], n) = Look(dir[d], n)
             /\ \A b \in Writers(d, n) :
                  (\E j \in 1..k : o[j] = b) /\ (\A j \in FailAt(o) : j > k) =>
                    Look(ds[k][d], n) = files[b].data
           S == {k \in 0..Many : Fine(k)}
<1>0. Many \in Nat
  BY OpenCount
<1>1. ds[0] = dir /\ \A k \in 0..Many - 1 : ds[k + 1] = Flushed(ds[k], files[o[k + 1]])
  BY AfterIs
<1>2. FailAt(o) = {k \in DOMAIN o : Fails(ds[k - 1], files[o[k]])} /\ DOMAIN o = 1..Many
  BY DEF FailAt, Orders, Many
<1>3. \A k \in 0..Many : Dirs(ds[k])
  BY AfterType
<1> HIDE DEF ds
<1>4. 0 \in S
  BY <1>0, <1>1
<1>5. ASSUME NEW k \in 0..Many - 1, k \in S PROVE k + 1 \in S
  <2> DEFINE c == o[k + 1]
             fl == files[c]
  <2>1. fl \in OpenFiles /\ c \in Blocks /\ fl # Closed
    BY InOrder DEF FilesType, Open
  <2>2. /\ Fine(k) /\ ds[k + 1] = Flushed(ds[k], fl) /\ Dirs(ds[k])
        /\ k + 1 \in 0..Many /\ k + 1 \in 1..Many /\ (k + 1) - 1 = k
    BY <1>0, <1>1, <1>3, <1>5
  <2>3. Look(ds[k + 1][d], n) =
          IF fl.dirty /\ ~ Fails(ds[k], fl) /\ fl.disk = d /\ fl.name = n
          THEN fl.data ELSE Look(ds[k][d], n)
    BY <2>1, <2>2, FlushedIs
  <2>4. fl.dirty /\ fl.disk = d /\ fl.name = n <=> c \in Writers(d, n)
    BY <2>1 DEF Writers, Holds
  <2>5. k + 1 \in FailAt(o) <=> Fails(ds[k], fl)
    BY <1>2, <2>2
  <2>6. ASSUME Writers(d, n) = {} PROVE Look(ds[k + 1][d], n) = Look(dir[d], n)
    BY <2>2, <2>3, <2>4, <2>6
  <2>7. ASSUME NEW b \in Writers(d, n), NEW j \in 1..k + 1, o[j] = b,
               \A i \in FailAt(o) : i > k + 1
        PROVE  Look(ds[k + 1][d], n) = files[b].data
    <3>1. ~ Fails(ds[k], fl)
      <4>1. k + 1 \notin FailAt(o)
        BY <2>2, <2>7
      <4> QED  BY <2>5, <4>1
    <3>2. c \in Writers(d, n) => c = b
      BY <2>7 DEF OneWriter, Writers
    <3>3. CASE c = b
      <4>1. fl.dirty /\ fl.disk = d /\ fl.name = n
        BY <2>4, <2>7, <3>3
      <4> QED  BY <2>3, <3>1, <3>3, <4>1
    <3>4. CASE c # b
      <4>1. j # k + 1
        BY <2>7, <3>4
      <4>2. j \in 1..k
        BY <4>1
      <4>3. \A i \in FailAt(o) : i > k
        BY <1>0, <1>2, <2>7
      <4>4. Look(ds[k][d], n) = files[b].data
        BY <2>2, <2>7, <4>2, <4>3
      <4>5. Look(ds[k + 1][d], n) = Look(ds[k][d], n)
        BY <2>3, <2>4, <3>2, <3>4
      <4> QED  BY <4>4, <4>5
    <3> QED  BY <3>3, <3>4
  <2> HIDE DEF c, fl
  <2>8. Fine(k + 1)
    BY <2>6, <2>7
  <2> HIDE DEF Fine
  <2> QED  BY <2>2, <2>8
<1> HIDE DEF S
<1>6. 0..Many \subseteq S
  BY <1>0, <1>4, <1>5, UpTo
<1>7. Fine(m)
  BY <1>6 DEF S
<1> QED  BY <1>7 DEF ds

(* All of them written back, and none of it failed.                        *)
LEMMA AllWrittenBack ==
  ASSUME Dirs(dir), FilesType, OneWriter, NEW o \in Orders, FailAt(o) = {},
         NEW d \in Images, NEW n \in Names
  PROVE  /\ Writers(d, n) = {} => Look(After(o)[Many][d], n) = Look(dir[d], n)
         /\ \A b \in Writers(d, n) : Look(After(o)[Many][d], n) = files[b].data
<1>1. Many \in 0..Many
  BY OpenCount
<1>2. ASSUME NEW b \in Writers(d, n) PROVE \E j \in 1..Many : o[j] = b
  <2>1. b \in Open /\ DOMAIN o = 1..Many
    BY DEF Writers, Holds, Open, Orders, Many
  <2> QED  BY <2>1 DEF Orders
<1> QED  BY <1>1, <1>2, AfterLooks

(* The list of a directory's files.                                        *)

LEMMA GreatestIn ==
  ASSUME NEW N \in Nat, NEW S \in SUBSET (0..N), S # {}
  PROVE  \E g \in S : \A y \in S : y <= g
<1> DEFINE gaps == {N - x : x \in S}
<1>0. \A x \in S : x \in Nat /\ x <= N /\ N - x \in Nat
  OBVIOUS
<1>1. gaps \in SUBSET Nat /\ gaps # {}
  BY <1>0
<1>2. Least(gaps) \in gaps /\ \A y \in gaps : Least(gaps) <= y
  BY <1>1, LeastIn
<1>3. PICK g \in S : Least(gaps) = N - g
  BY <1>2
<1>4. \A y \in S : N - g <= N - y
  BY <1>2, <1>3
<1> QED  BY <1>0, <1>4

LEMMA InInterval ==
  ASSUME NEW N \in Nat, NEW S \in SUBSET (0..N)
  PROVE  IsFiniteSet(S) /\ Cardinality(S) \in Nat /\ S \in SUBSET Nat
<1>1. 0 \in Int /\ N \in Int
  OBVIOUS
<1>2. IsFiniteSet(0..N)
  BY <1>1, FS_Interval
<1>3. IsFiniteSet(S)
  BY <1>2, FS_Subset
<1>4. Cardinality(S) \in Nat
  BY <1>3, FS_CardinalityType
<1>5. S \in SUBSET Nat
  OBVIOUS
<1> QED  BY <1>3, <1>4, <1>5

LEMMA NthIn ==
  ASSUME NEW N \in Nat, NEW S \in SUBSET (0..N), NEW k \in 1..Cardinality(S)
  PROVE  Nth(S, k) \in S /\ Cardinality({j \in S : j <= Nth(S, k)}) = k
<1> DEFINE upto(i) == {j \in S : j <= i}
           count(i) == Cardinality(upto(i))
           A == {i \in S : count(i) >= k}
           i == Least(A)
           B == {j \in S : j < i}
<1>1. IsFiniteSet(S) /\ Cardinality(S) \in Nat /\ S \in SUBSET Nat
  BY InInterval
<1>2. k \in Nat /\ k >= 1 /\ Cardinality(S) >= k
  BY <1>1
<1>3. ASSUME NEW T \in SUBSET S PROVE IsFiniteSet(T) /\ Cardinality(T) \in Nat
  <2>1. T \in SUBSET (0..N)
    OBVIOUS
  <2> QED  BY <2>1, InInterval
<1>4. Cardinality({}) = 0
  BY FS_EmptySet
<1>5. S # {}
  BY <1>2, <1>4
<1>6. \A j \in S : upto(j) \in SUBSET S /\ count(j) \in Nat
  BY <1>3
<1>7. A # {} /\ A \in SUBSET Nat /\ A \subseteq S
  <2>1. PICK g \in S : \A y \in S : y <= g
    BY <1>5, GreatestIn
  <2>2. upto(g) = S
    BY <2>1
  <2>3. count(g) >= k
    BY <1>2, <2>2
  <2> QED  BY <1>1, <2>3
<1>8. i \in A /\ \A y \in A : i <= y
  BY <1>7, LeastIn
<1> HIDE DEF i
<1>9. i \in S /\ i \in Nat /\ count(i) >= k /\ \A y \in S : count(y) >= k => i <= y
  BY <1>1, <1>8
<1>10. B \in SUBSET S /\ IsFiniteSet(B) /\ Cardinality(B) \in Nat
  BY <1>3
<1>11. Cardinality(B) < k
  <2> SUFFICES ASSUME Cardinality(B) >= k PROVE FALSE
    BY <1>2, <1>10
  <2>1. B # {} /\ B \in SUBSET (0..N)
    <3>1. B = {} => Cardinality(B) = 0
      BY <1>4
    <3>2. B # {}
      <4> HIDE DEF B
      <4> QED  BY <1>2, <3>1
    <3>3. B \in SUBSET S
      BY <1>10
    <3> HIDE DEF B
    <3> QED  BY <3>2, <3>3
  <2>2. PICK p \in B : \A y \in B : y <= p
    BY <2>1, GreatestIn
  <2>3. p \in S /\ p \in Nat /\ p < i
    BY <1>1
  <2>4. upto(p) = B
    <3>1. \A j \in S : j \in Nat /\ (j <= p => j < i)
      BY <1>1, <1>9, <2>3
    <3>2. \A j \in S : j < i => j <= p
      BY <2>2
    <3> HIDE DEF i
    <3> QED  BY <3>1, <3>2
  <2>5. count(p) >= k
    BY <2>4
  <2> QED  BY <1>9, <2>3, <2>5
<1>12. upto(i) = B \cup {i} /\ i \notin B
  <2>1. \A j \in S : j <= i <=> j < i \/ j = i
    BY <1>1, <1>9
  <2>2. ~ (i < i)
    BY <1>9
  <2> QED  BY <1>9, <2>1, <2>2
<1>13. Cardinality(B \cup {i}) = Cardinality(B) + 1
  BY <1>10, <1>12, FS_AddElement
<1>14. count(i) = Cardinality(B) + 1
  BY <1>12, <1>13
<1>15. count(i) = k
  <2> HIDE DEF B, count
  <2> QED  BY <1>2, <1>9, <1>10, <1>11, <1>14
<1>16. \E j \in S : Cardinality({m \in S : m <= j}) = k
  BY <1>9, <1>15
<1> HIDE DEF B, A, upto, count
<1> QED  BY <1>16 DEF Nth

LEMMA ListedIs ==
  ASSUME NEW d \in Images, NEW dr, Directory(d, dr)
  PROVE  /\ Len(Listed(dr)) = Cardinality(Used(dr)) /\ Len(Listed(dr)) \in Nat
         /\ \A k \in 1..Len(Listed(dr)) :
              /\ Nth(Used(dr), k) \in Used(dr) /\ Nth(Used(dr), k) \in 1..Room[d]
              /\ Cardinality({j \in Used(dr) : j <= Nth(Used(dr), k)}) = k
              /\ Listed(dr)[k] = dr[Nth(Used(dr), k)]
              /\ Listed(dr)[k].name \in Names
<1>1. Room[d] \in Nat /\ dr \in [1..Room[d] -> Entries]
  BY DosAssumption DEF Directory
<1>2. Used(dr) \in SUBSET (0..Room[d]) /\ Used(dr) \subseteq 1..Room[d]
  BY <1>1 DEF Used
<1>3. Cardinality(Used(dr)) \in Nat
  BY <1>1, <1>2, InInterval
<1> DEFINE n == Cardinality(Used(dr))
           nth(k) == dr[Nth(Used(dr), k)]
<1>4. Listed(dr) = [k \in 1..n |-> nth(k)]
  BY DEF Listed
<1> HIDE DEF nth
<1>5. Len(Listed(dr)) = n /\ \A k \in 1..n : Listed(dr)[k] = nth(k)
  BY <1>3, <1>4
<1>6. ASSUME NEW k \in 1..n
      PROVE  /\ Nth(Used(dr), k) \in Used(dr)
             /\ Cardinality({j \in Used(dr) : j <= Nth(Used(dr), k)}) = k
  BY <1>1, <1>2, NthIn
<1>7. ASSUME NEW i \in Used(dr) PROVE i \in 1..Room[d] /\ dr[i].name \in Names
  BY <1>1, EntryFacts DEF Used
<1> QED  BY <1>3, <1>5, <1>6, <1>7 DEF nth

-----------------------------------------------------------------------------
(* What the machine's state is, whatever the program does.                 *)
TypeInv == TypeOK /\ Dirs(dir) /\ Dirs(home)

LEMMA TypeFacts ==
  ASSUME TypeInv
  PROVE  /\ FilesType /\ disk \in Images /\ \A dr \in Drives : inDrive[dr] \in Images
         /\ \A drv \in DriveBytes : FcbDisk(drv) \in Images
<1>1. FilesType /\ disk \in Images /\ inDrive \in [Drives -> Images]
  BY DEF TypeInv, TypeOK, FilesType
<1>2. \A drv \in DriveBytes : FcbDisk(drv) \in Images
  BY <1>1 DEF FcbDisk
<1> QED  BY <1>1, <1>2

(* dosOpen's file, and the directory it is read from.                      *)
LEMMA OpenedIs ==
  ASSUME Dirs(dir), FilesType, NEW b \in Blocks, NEW drv, FcbDisk(drv) \in Images,
         NEW n \in Names
  PROVE  /\ Dirs(DirOpening(b, drv, n))
         /\ Opened(b, drv, n) \in OpenFiles
         /\ Opened(b, drv, n) # Closed =>
              Opened(b, drv, n).disk = FcbDisk(drv) /\ Opened(b, drv, n).name = n
         /\ ~ Cached(b, drv, n) =>
              /\ Opened(b, drv, n).data = Look(dir[FcbDisk(drv)], n)
              /\ ~ Opened(b, drv, n).dirty
              /\ Opened(b, drv, n) = Closed => Look(dir[FcbDisk(drv)], n) = Missing
<1>1. files[b] \in OpenFiles
  BY DEF FilesType
<1>2. CASE Cached(b, drv, n)
  BY <1>1, <1>2 DEF Opened, DirOpening, Cached, Holds
<1>3. CASE ~ Cached(b, drv, n)
  <2> DEFINE d == FcbDisk(drv)
             data == Look(DirOpening(b, drv, n)[d], n)
  <2>1. DirOpening(b, drv, n) = Flushed(dir, files[b])
    BY <1>3 DEF DirOpening
  <2>2. Dirs(DirOpening(b, drv, n))
    BY <1>1, <2>1, FlushedIs
  <2>3. ~ (files[b].dirty /\ files[b].disk = d /\ files[b].name = n)
    BY <1>1, <1>3, FileFacts DEF Cached, Holds
  <2>4. data = Look(dir[d], n)
    BY <1>1, <2>1, <2>3, FlushedIs
  <2>5. data = Missing \/ data \in Data
    <3>1. Directory(d, DirOpening(b, drv, n)[d])
      BY <2>2 DEF Dirs
    <3> QED  BY <3>1, LookIs
  <2>6. Opened(b, drv, n) = IF data = Missing THEN Closed ELSE File(n, data, d, FALSE)
    BY <1>3 DEF Opened
  <2> HIDE DEF data
  <2>7. CASE data = Missing
    BY <1>3, <2>2, <2>4, <2>6, <2>7, FileFacts
  <2>8. CASE data \in Data
    <3>1. data # Missing
      BY <2>8, MissingIsNoData
    <3>2. Opened(b, drv, n) = File(n, data, d, FALSE)
      BY <2>6, <3>1
    <3>3. /\ File(n, data, d, FALSE) \in OpenFiles
          /\ File(n, data, d, FALSE).name = n /\ File(n, data, d, FALSE).data = data
          /\ File(n, data, d, FALSE).disk = d
          /\ ~ File(n, data, d, FALSE).dirty /\ File(n, data, d, FALSE) # Closed
      <4>1. d \in Images /\ FALSE \in BOOLEAN
        OBVIOUS
      <4>2. ~ File(n, data, d, FALSE).dirty
        BY DEF File
      <4>3. /\ File(n, data, d, FALSE).name = n /\ File(n, data, d, FALSE).data = data
            /\ File(n, data, d, FALSE).disk = d
        BY DEF File
      <4> HIDE DEF d
      <4>4. File(n, data, d, FALSE) \in OpenFiles /\ File(n, data, d, FALSE) # Closed
        BY <2>8, <4>1, DosAssumption DEF OpenFiles, File, Closed
      <4> QED  BY <4>2, <4>3, <4>4
    <3> QED  BY <1>3, <2>2, <2>4, <3>2, <3>3
  <2> QED  BY <2>5, <2>7, <2>8
<1> QED  BY <1>2, <1>3

LEMMA PutIs ==
  ASSUME NEW data \in Data, NEW pos \in Positions, NEW v \in Values
  PROVE  Put(data, pos, v) \in Data
<1>1. pos \in Nat /\ v \in Nat /\ Len(data) \in Nat
  BY DosAssumption DEF Data
<1> DEFINE n == IF pos < Len(data) THEN Len(data) ELSE pos + 1
           at(i) == IF i = pos + 1 THEN v ELSE IF i <= Len(data) THEN data[i] ELSE 0
<1>2. n \in Nat
  BY <1>1
<1>3. \A i \in 1..n : at(i) \in Nat
  BY <1>1 DEF Data
<1>4. Put(data, pos, v) = [i \in 1..n |-> at(i)]
  BY DEF Put
<1> HIDE DEF n, at
<1> QED  BY <1>2, <1>3, <1>4 DEF Data

(* A write's file: the one in the block, or the one it names, or a new one.*)
Target(b, drv, n) ==
  LET opened == IF files[b] # Closed THEN files[b] ELSE Opened(b, drv, n)
  IN IF opened # Closed THEN opened ELSE File(n, << >>, FcbDisk(drv), TRUE)

LEMMA TargetIs ==
  ASSUME Dirs(dir), FilesType, NEW b \in Blocks, NEW drv, FcbDisk(drv) \in Images,
         NEW n \in Names
  PROVE  Target(b, drv, n) \in OpenFiles /\ Target(b, drv, n) # Closed
<1>1. files[b] \in OpenFiles /\ Opened(b, drv, n) \in OpenFiles
  BY OpenedIs DEF FilesType
<1>2. << >> \in Data
  BY DEF Data
<1>3. File(n, << >>, FcbDisk(drv), TRUE) \in OpenFiles \ {Closed}
  BY <1>2, FileFacts
<1> QED  BY <1>1, <1>3 DEF Target

-----------------------------------------------------------------------------
LEMMA AnyFile ==
  ASSUME NEW n \in Names, NEW x \in Data, NEW d \in Images, NEW y \in BOOLEAN
  PROVE  File(n, x, d, y) \in OpenFiles
BY DEF OpenFiles, File

LEMMA DriveFacts ==
  ASSUME TypeInv
  PROVE  /\ 0 \in Drives /\ inDrive = [dr \in Drives |-> inDrive[dr]]
         /\ \A e \in Images : (e + 1) % NImages \in Images
<1>1. PICK k \in DriveSets : Drives = 0..k - 1
  BY DEF TypeInv, TypeOK
<1>2. k \in {1, 2}
  BY DosAssumption
<1>3. \A e \in Images : (e + 1) % NImages \in Images
  <2>1. NImages \in Nat \ {0}
    BY DosAssumption
  <2> QED  BY <2>1 DEF Images
<1>4. inDrive = [dr \in Drives |-> inDrive[dr]]
  BY DEF TypeInv, TypeOK
<1> QED  BY <1>1, <1>2, <1>3, <1>4

(* One block's file replaced, and perhaps a file written back.             *)
LEMMA BlockTyped ==
  ASSUME TypeInv, NEW b \in Blocks, NEW fl \in OpenFiles, NEW ds, Dirs(ds),
         dir' = ds, files' = [files EXCEPT ![b] = fl], lost' \in BOOLEAN,
         UNCHANGED <<inDrive, curDrive, disk, search, home, over, found>>
  PROVE  TypeInv'
<1>1. files' \in [Blocks -> OpenFiles]
  BY DEF TypeInv, TypeOK
<1> QED  BY <1>1 DEF TypeInv, TypeOK, Dirs, Drives

LEMMA SearchTyped ==
  ASSUME TypeInv, NEW on \in Images, NEW pat \in Patterns \cup {AnyName},
         NEW at \in Nat, NEW got \in Seq(Names), SearchFrom(on, pat, at, got)
  PROVE  /\ search'.on \in Images /\ search'.for \in Patterns \cup {AnyName}
         /\ search'.at \in Nat /\ found' \in Seq(Names)
<1> DEFINE list == Listed(dir[on])
           hits == {i \in at + 1..Len(list) : pat \in {AnyName, list[i].name}}
<1>1. Directory(on, dir[on])
  BY DEF TypeInv, Dirs
<1>2. Len(list) \in Nat /\ \A k \in 1..Len(list) : list[k].name \in Names
  BY <1>1, ListedIs
<1>3. CASE hits # {}
  <2>1. search' = [on |-> on, for |-> pat, at |-> NextAt(hits)]
        /\ found' = Append(got, list[Least(hits)].name)
    BY <1>3 DEF SearchFrom
  <2>2. hits \in SUBSET Nat /\ hits \subseteq 1..Len(list)
    BY <1>2
  <2>3. Least(hits) \in hits
    BY <1>3, <2>2, LeastIn
  <2> HIDE DEF hits, list
  <2>4. Least(hits) \in Nat /\ list[Least(hits)].name \in Names
    BY <1>2, <2>2, <2>3
  <2> QED  BY <2>1, <2>4 DEF NextAt
<1>4. CASE hits = {}
  <2>1. search' = Unsearched /\ found' = << >>
    BY <1>4 DEF SearchFrom
  <2>2. 0 \in Images
    BY DosAssumption DEF Images
  <2> QED  BY <2>1, <2>2 DEF Unsearched
<1> QED  BY <1>3, <1>4

(* How far the player's leaving gets.                                      *)
LeaveAt(o) == IF FailAt(o) = {} THEN Many ELSE Least(FailAt(o)) - 1

LEMMA LeaveAtIs ==
  ASSUME NEW o \in Orders
  PROVE  /\ LeaveAt(o) \in 0..Many
         /\ \A j \in FailAt(o) : j > LeaveAt(o)
<1>1. Many \in Nat /\ FailAt(o) \in SUBSET Nat /\ FailAt(o) \subseteq 1..Many
  BY OpenCount DEF FailAt, Orders, Many
<1>2. CASE FailAt(o) = {}
  BY <1>1, <1>2 DEF LeaveAt
<1>3. CASE FailAt(o) # {}
  <2>1. Least(FailAt(o)) \in FailAt(o) /\ \A y \in FailAt(o) : Least(FailAt(o)) <= y
    BY <1>1, <1>3, LeastIn
  <2> QED  BY <1>1, <1>3, <2>1 DEF LeaveAt
<1> QED  BY <1>2, <1>3

(* A file deleted from a directory.                                        *)
LEMMA DeletedIs ==
  ASSUME NEW d \in Images, NEW dr, Directory(d, dr), NEW n \in Names, At(dr, n) # {}
  PROVE  LET cut == [dr EXCEPT ![Least(At(dr, n))] = NoEntry]
         IN /\ Directory(d, cut)
            /\ Look(cut, n) = Missing
            /\ \A m \in Names \ {n} : Look(cut, m) = Look(dr, m)
<1>0. /\ dr \in [1..Room[d] -> Entries] /\ DOMAIN dr = 1..Room[d]
      /\ \A i, k \in 1..Room[d] : dr[i] # NoEntry /\ i # k => dr[i].name # dr[k].name
  BY DEF Directory
<1>1. PICK j \in 1..Room[d] : dr[j].name = n
  BY <1>0 DEF At
<1>2. At(dr, n) = {j} /\ Least(At(dr, n)) = j
  BY <1>1, LookIs
<1> DEFINE cut == [dr EXCEPT ![j] = NoEntry]
<1>3. /\ cut \in [1..Room[d] -> Entries] /\ DOMAIN cut = 1..Room[d] /\ cut[j] = NoEntry
      /\ \A i \in 1..Room[d] \ {j} : cut[i] = dr[i]
  BY <1>0, EntryFacts
<1>4. cut = [dr EXCEPT ![Least(At(dr, n))] = NoEntry]
  BY <1>2
<1> HIDE DEF cut
<1>5. Directory(d, cut)
  <2> SUFFICES ASSUME NEW i \in 1..Room[d], NEW k \in 1..Room[d], cut[i] # NoEntry, i # k
               PROVE  cut[i].name # cut[k].name
    BY <1>3 DEF Directory
  <2>1. i # j /\ cut[i] = dr[i]
    BY <1>3
  <2>2. CASE k = j
    <3>1. cut[i].name # AnyName
      BY <1>0, <2>1, EntryFacts
    <3> QED  BY <1>3, <2>2, <3>1, EntryFacts
  <2>3. CASE k # j
    BY <1>0, <1>3, <2>1, <2>3
  <2> QED  BY <2>2, <2>3
<1>6. Look(cut, n) = Missing
  <2>1. \A i \in 1..Room[d] : cut[i].name # n
    <3> SUFFICES ASSUME NEW i \in 1..Room[d] PROVE cut[i].name # n
      OBVIOUS
    <3>1. CASE i = j
      BY <1>3, <3>1, EntryFacts
    <3>2. CASE i # j
      <4>1. dr[j] # NoEntry
        BY <1>0, <1>1, EntryFacts
      <4> QED  BY <1>0, <1>1, <1>3, <3>2, <4>1
    <3> QED  BY <3>1, <3>2
  <2>2. At(cut, n) = {}
    BY <1>3, <2>1 DEF At
  <2> QED  BY <2>2 DEF Look
<1>7. ASSUME NEW m \in Names \ {n} PROVE Look(cut, m) = Look(dr, m)
  <2>1. At(cut, m) = At(dr, m)
    <3>1. cut[j].name # m /\ dr[j].name # m
      BY <1>1, <1>3, EntryFacts
    <3> QED  BY <1>0, <1>3, <3>1 DEF At
  <2>2. CASE At(dr, m) = {}
    BY <2>1, <2>2 DEF Look
  <2>3. CASE At(dr, m) # {}
    <3>1. PICK i \in 1..Room[d] : dr[i].name = m
      BY <1>0, <2>3 DEF At
    <3>2. i # j /\ cut[i] = dr[i]
      BY <1>1, <1>3, <3>1
    <3> QED  BY <1>5, <3>1, <3>2, LookIs
  <2> QED  BY <2>2, <2>3
<1> QED  BY <1>4, <1>5, <1>6, <1>7

DeleteLooks(n) ==
  \A d \in Images, m \in Names :
    Look(dir'[d], m) = IF d = disk /\ m = n THEN Missing ELSE Look(dir[d], m)

LEMMA DeleteIs ==
  ASSUME Dirs(dir), disk \in Images, NEW drv, NEW n \in Names, Delete(drv, n)
  PROVE  Dirs(dir') /\ DeleteLooks(n)
<1> DEFINE cut == [dir[disk] EXCEPT ![Least(At(dir[disk], n))] = NoEntry]
<1>1. dir' = [dir EXCEPT ![disk] = cut] /\ At(dir[disk], n) # {}
  BY DEF Delete
<1>2. /\ Directory(disk, cut) /\ Look(cut, n) = Missing
      /\ \A m \in Names \ {n} : Look(cut, m) = Look(dir[disk], m)
  <2>1. Directory(disk, dir[disk])
    BY DEF Dirs
  <2> QED  BY <1>1, <2>1, DeletedIs
<1> HIDE DEF cut
<1>3. dir' = [d \in Images |-> IF d = disk THEN cut ELSE dir[d]]
  BY <1>1 DEF Dirs
<1>4. dir' = [d \in Images |-> dir'[d]]
  BY <1>3
<1>5. \A d \in Images : Directory(d, dir'[d])
  BY <1>2, <1>3 DEF Dirs
<1>6. DeleteLooks(n)
  BY <1>2, <1>3 DEF DeleteLooks
<1> QED  BY <1>4, <1>5, <1>6 DEF Dirs

LEMMA StartTyped == Init => TypeInv
<1> SUFFICES ASSUME Init PROVE TypeInv
  OBVIOUS
<1>1. PICK n \in Names :
        dir = [d \in Images |-> [i \in 1..Room[d] |->
                 IF i = 1 THEN Entry(n, <<d>>) ELSE NoEntry]]
  BY DEF Init
<1>2. \A d \in Images : d \in Nat
  BY DosAssumption DEF Images
<1>3. ASSUME NEW d \in Images PROVE Directory(d, dir[d])
  <2>1. Entry(n, <<d>>) \in Entries /\ NoEntry \in Entries
    <3>1. <<d>> \in Data
      BY <1>2 DEF Data
    <3> QED  BY <3>1, EntryFacts
  <2>2. dir[d] \in [1..Room[d] -> Entries]
    BY <1>1, <2>1
  <2>3. ASSUME NEW i \in 1..Room[d], NEW j \in 1..Room[d], dir[d][i] # NoEntry, i # j
        PROVE  dir[d][i].name # dir[d][j].name
    <3>1. Entry(n, <<d>>).name = n /\ NoEntry.name = AnyName /\ AnyName \notin Names
      BY DosAssumption DEF Entry, NoEntry
    <3>2. i = 1 /\ dir[d][i] = Entry(n, <<d>>) /\ dir[d][j] = NoEntry
      BY <1>1, <2>3
    <3> QED  BY <3>1, <3>2
  <2> QED  BY <2>2, <2>3 DEF Directory
<1>4. Dirs(dir)
  <2>1. dir = [d \in Images |-> dir[d]]
    BY <1>1
  <2> QED  BY <1>3, <2>1 DEF Dirs
<1>5. home = dir
  BY DEF Init
<1>6. PICK k \in DriveSets : inDrive = [dr \in 0..k - 1 |-> dr]
  BY DEF Init
<1>7. Drives = 0..k - 1 /\ inDrive \in [Drives -> Images] /\ 0 \in Drives /\ 0 \in Images
  <2>1. k \in {1, 2} /\ NImages \in Nat \ {0} /\ (k = 2 => NImages > 1)
    BY DosAssumption
  <2>2. Drives = 0..k - 1
    BY <1>6 DEF Drives
  <2>3. \A dr \in 0..k - 1 : dr \in 0..NImages - 1
    BY <2>1
  <2> QED  BY <1>6, <2>1, <2>2, <2>3 DEF Images
<1>8. files \in [Blocks -> OpenFiles]
  BY FileFacts DEF Init
<1>9. /\ search.on \in Images /\ search.for \in Patterns \cup {AnyName} /\ search.at \in Nat
      /\ found \in Seq(Names)
  BY <1>7 DEF Init, Unsearched
<1>10. over \in BOOLEAN /\ lost \in BOOLEAN /\ curDrive \in Drives /\ disk \in Images
  BY <1>7 DEF Init
<1>11. \A d \in Images : Directory(d, dir[d]) /\ Directory(d, home[d])
  BY <1>3, <1>5
<1>12. Dirs(home)
  BY <1>4, <1>5
<1> QED  BY <1>4, <1>6, <1>7, <1>8, <1>9, <1>10, <1>11, <1>12 DEF TypeInv, TypeOK

LEMMA StepTyped == TypeInv /\ [Next]_vars => TypeInv'
<1> SUFFICES ASSUME TypeInv, [Next]_vars PROVE TypeInv'
  OBVIOUS
<1>0. /\ FilesType /\ Dirs(dir) /\ Dirs(home) /\ disk \in Images
      /\ inDrive \in [Drives -> Images] /\ curDrive \in Drives
      /\ search.on \in Images /\ search.for \in Patterns \cup {AnyName}
      /\ search.at \in Nat /\ found \in Seq(Names)
      /\ \A drv \in DriveBytes : FcbDisk(drv) \in Images
  BY TypeFacts DEF TypeInv, TypeOK
<1>1. ASSUME NEW b \in Blocks, NEW drv \in DriveBytes, NEW n \in Names,
             OpenOrRead(b, drv, n)
      PROVE  TypeInv'
  <2>1. Dirs(DirOpening(b, drv, n)) /\ Opened(b, drv, n) \in OpenFiles
    BY <1>0, OpenedIs
  <2>2. lost' \in BOOLEAN
    BY <1>1, Zenon DEF OpenOrRead, LostOpening
  <2> QED  BY <1>1, <2>1, <2>2, BlockTyped DEF OpenOrRead
<1>2. ASSUME NEW b \in Blocks, NEW drv \in DriveBytes, NEW n \in Names,
             Create(b, drv, n)
      PROVE  TypeInv'
  <2>1. Dirs(Flushed(dir, files[b]))
    BY <1>0, FlushedIs DEF FilesType
  <2>2. File(n, << >>, FcbDisk(drv), TRUE) \in OpenFiles
    <3>1. << >> \in Data /\ TRUE \in BOOLEAN /\ FcbDisk(drv) \in Images
      BY <1>0 DEF Data
    <3> QED  BY <3>1, AnyFile
  <2>3. lost' \in BOOLEAN
    BY <1>2, Zenon DEF Create
  <2> QED  BY <1>2, <2>1, <2>2, <2>3, BlockTyped DEF Create
<1>3. ASSUME NEW b \in Blocks, NEW drv \in DriveBytes, NEW n \in Names,
             NEW pos \in Positions, NEW v \in Values, Write(b, drv, n, pos, v)
      PROVE  TypeInv'
  <2> DEFINE fl == Target(b, drv, n)
             new == File(fl.name, Put(fl.data, pos, v), fl.disk, TRUE)
  <2>1. fl \in OpenFiles /\ fl # Closed
    BY <1>0, TargetIs
  <2>2. fl.name \in Names /\ fl.data \in Data /\ fl.disk \in Images
    BY <2>1, FileFacts
  <2> HIDE DEF fl
  <2>3. new \in OpenFiles
    <3>1. Put(fl.data, pos, v) \in Data /\ TRUE \in BOOLEAN
      BY <2>2, PutIs
    <3> QED  BY <2>2, <3>1, AnyFile
  <2>4. files' = [files EXCEPT ![b] = new]
    BY <1>3 DEF Write, Target, fl
  <2>5. dir' = dir /\ UNCHANGED <<inDrive, curDrive, disk, search, home, over, found>>
        /\ lost' = lost
    BY <1>3 DEF Write
  <2>6. lost' \in BOOLEAN
    BY <2>5 DEF TypeInv, TypeOK
  <2> HIDE DEF new
  <2> QED  BY <1>0, <2>3, <2>4, <2>5, <2>6, BlockTyped
<1>4. ASSUME NEW b \in Blocks, Close(b) PROVE TypeInv'
  <2>1. Dirs(Flushed(dir, files[b]))
    BY <1>0, FlushedIs DEF FilesType
  <2>2. lost' \in BOOLEAN
    BY <1>4, Zenon DEF Close
  <2> QED  BY <1>4, <2>1, <2>2, FileFacts, BlockTyped DEF Close
<1>5. ASSUME NEW drv \in DriveBytes, NEW n \in Names, Delete(drv, n) PROVE TypeInv'
  <2>1. Dirs(dir')
    BY <1>0, <1>5, DeleteIs
  <2>2. \A d \in Images : Directory(d, dir'[d])
    BY <2>1 DEF Dirs
  <2>3. UNCHANGED <<inDrive, curDrive, disk, files, search, home, over, found, lost>>
    BY <1>5 DEF Delete
  <2> QED  BY <2>1, <2>2, <2>3 DEF TypeInv, TypeOK, Drives
<1>6. ASSUME NEW drv \in DriveBytes, NEW pat \in Patterns, SearchFirst(drv, pat)
      PROVE  TypeInv'
  <2>1. SearchFrom(FcbDisk(drv), pat, 0, << >>)
    BY <1>6 DEF SearchFirst
  <2>2. << >> \in Seq(Names) /\ 0 \in Nat /\ pat \in Patterns \cup {AnyName}
        /\ FcbDisk(drv) \in Images
    BY <1>0
  <2>3. /\ search'.on \in Images /\ search'.for \in Patterns \cup {AnyName}
        /\ search'.at \in Nat /\ found' \in Seq(Names)
    BY <2>1, <2>2, SearchTyped
  <2> QED  BY <1>6, <2>3 DEF SearchFirst, TypeInv, TypeOK, Drives
<1>7. ASSUME SearchNext PROVE TypeInv'
  <2>1. /\ search'.on \in Images /\ search'.for \in Patterns \cup {AnyName}
        /\ search'.at \in Nat /\ found' \in Seq(Names)
    BY <1>0, <1>7, SearchTyped DEF SearchNext
  <2> QED  BY <1>7, <2>1 DEF SearchNext, TypeInv, TypeOK, Drives
<1>8. ASSUME NEW dr \in Drives, SelectDrive(dr) PROVE TypeInv'
  BY <1>0, <1>8 DEF SelectDrive, TypeInv, TypeOK, Drives
<1>9. ASSUME SwapNext(0) PROVE TypeInv'
  <2>1. PICK o \in Orders : /\ dir' = After(o)[Many]
                            /\ lost' = (lost \/ FailAt(o) # {})
    BY <1>9 DEF SwapNext, Many
  <2>2. Dirs(After(o)[Many])
    <3>1. Many \in 0..Many
      BY OpenCount
    <3> QED  BY <1>0, <3>1, AfterType
  <2>3. lost' \in BOOLEAN
    BY <2>1, Zenon
  <2>4. 0 \in Drives /\ \A e \in Images : (e + 1) % NImages \in Images
    BY DriveFacts
  <2>5. inDrive' \in [Drives -> Images] /\ Drives' = Drives /\ curDrive' = curDrive
    <3>1. inDrive' = [inDrive EXCEPT ![0] = (inDrive[0] + 1) % NImages]
      BY <1>9 DEF SwapNext
    <3>2. (inDrive[0] + 1) % NImages \in Images
      BY <1>0, <2>4
    <3> DEFINE x == (inDrive[0] + 1) % NImages
    <3> HIDE DEF x
    <3>3. inDrive' = [inDrive EXCEPT ![0] = x] /\ x \in Images
      BY <3>1, <3>2 DEF x
    <3>4. inDrive' \in [Drives -> Images]
      BY <1>0, <3>3
    <3> QED  BY <1>0, <1>9, <3>4 DEF SwapNext, Drives
  <2>6. disk' \in Images
    BY <1>0, <1>9, <2>5 DEF SwapNext
  <2>7. files' \in [Blocks -> OpenFiles]
    BY <1>9, FileFacts DEF SwapNext, Forgotten
  <2>8. Dirs(dir') /\ \A d \in Images : Directory(d, dir'[d])
    BY <2>1, <2>2 DEF Dirs
  <2>9. UNCHANGED <<search, home, over, found>>
    BY <1>9 DEF SwapNext
  <2>10. Drives' \in {0..k - 1 : k \in DriveSets} /\ inDrive' \in [Drives' -> Images]
         /\ curDrive' \in Drives'
    BY <1>0, <2>5 DEF TypeInv, TypeOK
  <2> QED  BY <2>3, <2>6, <2>7, <2>8, <2>9, <2>10 DEF TypeInv, TypeOK
<1>10. ASSUME Leave PROVE TypeInv'
  <2>1. PICK o \in Orders : /\ dir' = After(o)[LeaveAt(o)]
                            /\ lost' = (lost \/ FailAt(o) # {})
    BY <1>10 DEF Leave, Many, LeaveAt
  <2>2. Dirs(After(o)[LeaveAt(o)])
    BY <1>0, LeaveAtIs, AfterType
  <2>3. lost' \in BOOLEAN
    BY <2>1, Zenon
  <2>4. Dirs(dir') /\ \A d \in Images : Directory(d, dir'[d])
    BY <2>1, <2>2 DEF Dirs
  <2>5. home' = [home EXCEPT ![disk] = dir'[disk]] /\ over' = TRUE
        /\ UNCHANGED <<inDrive, curDrive, disk, files, search, found>>
    BY <1>10 DEF Leave
  <2>6. Dirs(home') /\ \A d \in Images : Directory(d, home'[d])
    <3>1. home' = [d \in Images |-> IF d = disk THEN dir'[disk] ELSE home[d]]
      BY <1>0, <2>5 DEF Dirs
    <3>2. \A d \in Images : Directory(d, home'[d])
      BY <1>0, <2>4, <3>1 DEF Dirs
    <3>3. home' = [d \in Images |-> home'[d]]
      BY <3>1
    <3> QED  BY <3>2, <3>3 DEF Dirs
  <2> QED  BY <2>3, <2>4, <2>5, <2>6 DEF TypeInv, TypeOK, Drives
<1>11. ASSUME UNCHANGED vars PROVE TypeInv'
  BY <1>11 DEF TypeInv, TypeOK, vars, Drives
<1> QED  BY <1>1, <1>2, <1>3, <1>4, <1>5, <1>6, <1>7, <1>8, <1>9, <1>10, <1>11
        DEF Next, Call, Gone

(* Whatever the program does, every directory is one, with no name in it   *)
(* twice, and so is every floppy image the player has (Save, Delete).      *)
THEOREM NamesStaySingle == Spec => []TypeOK
<1>1. TypeInv => TypeOK
  BY DEF TypeInv
<1> QED  BY <1>1, StartTyped, StepTyped, PTL DEF Spec

-----------------------------------------------------------------------------
(* A careful program.                                                      *)
(* A program that writes a file through one block at a time, opens a block *)
(* afresh for another file and deletes no open one.                        *)
Careful == {"oneWriter", "reopen", "closedDelete"} \subseteq Habits

(* An open file that was not written to is the file on its floppy.         *)
Current ==
  \A b \in Open : ~ files[b].dirty =>
    Look(dir[files[b].disk], files[b].name) = files[b].data

CareInv == TypeInv /\ OneWriter /\ Current /\ ExitKeepsSelected

(* What a file holds, by whether an open copy of it has changed.           *)
ContentsFact ==
  OneWriter =>
    \A d \in Images, n \in Names :
      /\ Writers(d, n) = {} => Contents[d][n] = Look(dir[d], n)
      /\ \A b \in Writers(d, n) : Contents[d][n] = files[b].data

LEMMA ContentsIs == ContentsFact
<1> SUFFICES ASSUME OneWriter, NEW d \in Images, NEW n \in Names
             PROVE  /\ Writers(d, n) = {} => Contents[d][n] = Look(dir[d], n)
                    /\ \A b \in Writers(d, n) : Contents[d][n] = files[b].data
  BY DEF ContentsFact
<1> DEFINE w == CHOOSE b \in Writers(d, n) : TRUE
<1>1. Contents[d][n] = IF Writers(d, n) = {} THEN Look(dir[d], n) ELSE files[w].data
  BY DEF Contents
<1>2. ASSUME NEW b \in Writers(d, n) PROVE w = b
  <2>1. w \in Writers(d, n)
    BY <1>2
  <2> HIDE DEF w
  <2> QED  BY <1>2, <2>1 DEF OneWriter, Writers
<1> HIDE DEF w
<1> QED  BY <1>1, <1>2

ContentsShape == Contents = [d \in Images |-> [n \in Names |-> Contents[d][n]]]

LEMMA ContentsShaped == ContentsShape
BY DEF ContentsShape, Contents

LEMMA SameContents ==
  ASSUME \A d \in Images, n \in Names : Contents'[d][n] = Contents[d][n]
  PROVE  Contents' = Contents
<1>1. ContentsShape /\ ContentsShape'
  BY ContentsShaped, PTL
<1> DEFINE x == Contents
           y == Contents'
<1>2. /\ x = [d \in Images |-> [n \in Names |-> x[d][n]]]
      /\ y = [d \in Images |-> [n \in Names |-> y[d][n]]]
  BY <1>1 DEF ContentsShape
<1>3. \A d \in Images, n \in Names : y[d][n] = x[d][n]
  OBVIOUS
<1> HIDE DEF x, y
<1>4. x = y
  BY <1>2, <1>3
<1> QED  BY <1>4 DEF x, y

LEMMA OneFile ==
  ASSUME NEW d \in Images, NEW n \in Names, NEW new,
         \A e \in Images, m \in Names :
           Contents'[e][m] = IF e = d /\ m = n THEN new ELSE Contents[e][m]
  PROVE  Contents' = [Contents EXCEPT ![d][n] = new]
<1>1. ContentsShape /\ ContentsShape'
  BY ContentsShaped, PTL
<1> DEFINE x == Contents
           y == Contents'
<1>2. /\ x = [e \in Images |-> [m \in Names |-> x[e][m]]]
      /\ y = [e \in Images |-> [m \in Names |-> y[e][m]]]
  BY <1>1 DEF ContentsShape
<1>3. \A e \in Images, m \in Names :
        y[e][m] = IF e = d /\ m = n THEN new ELSE x[e][m]
  OBVIOUS
<1> HIDE DEF x, y
<1> DEFINE z == [x EXCEPT ![d][n] = new]
<1>4. z = [e \in Images |-> IF e = d THEN [x[d] EXCEPT ![n] = new] ELSE x[e]]
  BY <1>2
<1>5. x[d] = [m \in Names |-> x[d][m]]
  BY <1>2
<1>6. [x[d] EXCEPT ![n] = new] = [m \in Names |-> IF m = n THEN new ELSE x[d][m]]
  BY <1>5
<1>7. y[d] = [m \in Names |-> IF m = n THEN new ELSE x[d][m]]
  BY <1>2, <1>3
<1>8. \A e \in Images \ {d} : y[e] = x[e]
  BY <1>2, <1>3
<1> HIDE DEF z
<1>9. z = y
  BY <1>2, <1>4, <1>6, <1>7, <1>8
<1> QED  BY <1>9 DEF x, y, z

-----------------------------------------------------------------------------
(* A read finds what the file holds.                                       *)
Alone(b, d, n) == \A c \in Blocks \ {b} : Holds(c, d, n) => ~ files[c].dirty

LEMMA ReadIs ==
  ASSUME CareInv, NEW b \in Blocks, NEW drv, FcbDisk(drv) \in Images, NEW n \in Names,
         Alone(b, FcbDisk(drv), n)
  PROVE  Opened(b, drv, n).data = Contents[FcbDisk(drv)][n]
<1> DEFINE d == FcbDisk(drv)
<1>0. OneWriter /\ Current /\ FilesType /\ Dirs(dir) /\ ContentsFact
  BY TypeFacts, ContentsIs DEF CareInv, TypeInv
<1>1. /\ Writers(d, n) = {} => Contents[d][n] = Look(dir[d], n)
      /\ \A c \in Writers(d, n) : Contents[d][n] = files[c].data
  BY <1>0 DEF ContentsFact
<1>2. CASE Cached(b, drv, n)
  <2>1. Opened(b, drv, n) = files[b]
    BY <1>2 DEF Opened
  <2>2. Holds(b, d, n)
    BY <1>2 DEF Cached
  <2>3. CASE files[b].dirty
    <3>1. b \in Writers(d, n)
      BY <2>2, <2>3 DEF Writers
    <3> QED  BY <1>1, <2>1, <3>1
  <2>4. CASE ~ files[b].dirty
    <3>1. Writers(d, n) = {}
      <4> SUFFICES ASSUME NEW c \in Writers(d, n) PROVE FALSE
        OBVIOUS
      <4>1. b = c
        BY <1>0, <2>2 DEF OneWriter
      <4> QED  BY <2>4, <4>1 DEF Writers
    <3>2. Look(dir[d], n) = files[b].data
      BY <1>0, <2>2, <2>4 DEF Current, Holds, Open
    <3> QED  BY <1>1, <2>1, <3>1, <3>2
  <2> QED  BY <2>3, <2>4
<1>3. CASE ~ Cached(b, drv, n)
  <2>1. Opened(b, drv, n).data = Look(dir[d], n)
    BY <1>0, <1>3, OpenedIs
  <2>2. Writers(d, n) = {}
    BY <1>3 DEF Writers, Alone, Cached
  <2> QED  BY <1>1, <2>1, <2>2
<1> QED  BY <1>2, <1>3

LEMMA CareReads ==
  ASSUME Careful, CareInv
  PROVE  ReadsAreCurrent
<1> SUFFICES ASSUME NEW b \in Blocks, NEW drv \in DriveBytes, NEW n \in Names,
                    SoleReader(b, drv, n)
             PROVE  Opened(b, drv, n).data = Contents[FcbDisk(drv)][n]
  BY DEF ReadsAreCurrent
<1>1. FcbDisk(drv) \in Images
  BY TypeFacts DEF CareInv
<1>2. Alone(b, FcbDisk(drv), n)
  BY DEF Alone, SoleReader, Careful
<1> QED  BY <1>1, <1>2, ReadIs

-----------------------------------------------------------------------------
(* One block's file replaced.                                              *)
Replaced(b, new) == files' = [files EXCEPT ![b] = new]
(* The new one may be written to only if no other block has the file open, *)
(* and read only if none has changed it.                                   *)
Fresh(b, new) ==
  new # Closed =>
    \A c \in Blocks \ {b} :
      Holds(c, new.disk, new.name) => ~ new.dirty /\ ~ files[c].dirty
(* Where the old one was written back.                                     *)
IsAt(f, d, n) == f.dirty /\ f.disk = d /\ f.name = n
LooksAfter(b, new) ==
  \A d \in Images, n \in Names : ~ IsAt(new, d, n) =>
    Look(dir'[d], n) = IF IsAt(files[b], d, n) THEN files[b].data ELSE Look(dir[d], n)

LEMMA ReplacedIs ==
  ASSUME FilesType, NEW b \in Blocks, NEW new, Replaced(b, new)
  PROVE  files'[b] = new /\ \A c \in Blocks \ {b} : files'[c] = files[c]
BY DEF FilesType, Replaced

WritersFact ==
  FilesType =>
    \A d, n : \A b \in Blocks : b \in Writers(d, n) <=> IsAt(files[b], d, n)

LEMMA WriterAt == WritersFact
<1> SUFFICES ASSUME FilesType, NEW d, NEW n, NEW b \in Blocks
             PROVE  b \in Writers(d, n) <=> IsAt(files[b], d, n)
  BY DEF WritersFact
<1>1. files[b] \in OpenFiles
  BY DEF FilesType
<1>2. files[b].dirty => files[b] # Closed
  BY <1>1, FileFacts
<1> QED  BY <1>2 DEF Writers, Holds, IsAt

LEMMA OneWriterStays ==
  ASSUME FilesType, OneWriter, NEW b \in Blocks, NEW new \in OpenFiles,
         Replaced(b, new), Fresh(b, new)
  PROVE  OneWriter'
<1>1. files'[b] = new /\ \A c \in Blocks \ {b} : files'[c] = files[c]
  BY ReplacedIs
<1> SUFFICES ASSUME NEW d \in Images, NEW n \in Names, NEW w \in Blocks, NEW c \in Blocks,
                    Holds(w, d, n)', files'[w].dirty, Holds(c, d, n)', c # w
             PROVE  FALSE
  BY DEF OneWriter, Writers
<1>2. CASE w = b
  <2>1. new # Closed /\ new.disk = d /\ new.name = n /\ new.dirty
    BY <1>1, <1>2 DEF Holds
  <2>2. Holds(c, d, n) /\ c \in Blocks \ {b}
    BY <1>1, <1>2 DEF Holds
  <2> QED  BY <2>1, <2>2 DEF Fresh
<1>3. CASE c = b
  <2>1. new # Closed /\ new.disk = d /\ new.name = n
    BY <1>1, <1>3 DEF Holds
  <2>2. Holds(w, d, n) /\ w \in Blocks \ {b} /\ files[w].dirty
    BY <1>1, <1>3 DEF Holds
  <2> QED  BY <2>1, <2>2 DEF Fresh
<1>4. CASE w # b /\ c # b
  <2>1. Holds(w, d, n) /\ files[w].dirty /\ Holds(c, d, n)
    BY <1>1, <1>4 DEF Holds
  <2> QED  BY <2>1 DEF OneWriter, Writers
<1> QED  BY <1>2, <1>3, <1>4

LEMMA CurrentStays ==
  ASSUME FilesType, OneWriter, Current, NEW b \in Blocks, NEW new \in OpenFiles,
         Replaced(b, new), Fresh(b, new),
         \A d \in Images, n \in Names :
           Look(dir'[d], n) # Look(dir[d], n) => IsAt(files[b], d, n),
         new # Closed /\ ~ new.dirty => Look(dir'[new.disk], new.name) = new.data
  PROVE  Current'
<1>1. files'[b] = new /\ \A c \in Blocks \ {b} : files'[c] = files[c]
  BY ReplacedIs
<1> SUFFICES ASSUME NEW c \in Blocks, files'[c] # Closed, ~ files'[c].dirty
             PROVE  Look(dir'[files'[c].disk], files'[c].name) = files'[c].data
  BY DEF Current, Open
<1>2. CASE c = b
  BY <1>1, <1>2
<1>3. CASE c # b
  <2>1. files'[c] = files[c] /\ files[c] \in OpenFiles
    BY <1>1, <1>3 DEF FilesType
  <2> DEFINE d == files[c].disk
             n == files[c].name
  <2>2. d \in Images /\ n \in Names
    BY <2>1, FileFacts
  <2>3. Look(dir[d], n) = files[c].data
    BY <2>1 DEF Current, Open
  <2>4. ~ IsAt(files[b], d, n)
    <3> SUFFICES ASSUME IsAt(files[b], d, n) PROVE FALSE
      OBVIOUS
    <3>1. b \in Writers(d, n)
      BY WriterAt DEF WritersFact
    <3>2. Holds(c, d, n)
      BY <2>1 DEF Holds
    <3> HIDE DEF d, n
    <3> QED  BY <1>3, <2>2, <3>1, <3>2 DEF OneWriter
  <2>5. Look(dir'[d], n) = Look(dir[d], n)
    BY <2>2, <2>4
  <2> QED  BY <2>1, <2>3, <2>5
<1> QED  BY <1>2, <1>3

(* Whatever a block is given, its file's changes are its own.              *)
LEMMA BlockContents ==
  ASSUME FilesType, FilesType', OneWriter, OneWriter', NEW b \in Blocks, NEW new,
         Replaced(b, new), LooksAfter(b, new), NEW d \in Images, NEW n \in Names
  PROVE  Contents'[d][n] = IF IsAt(new, d, n) THEN new.data ELSE Contents[d][n]
<1>1. files'[b] = new /\ \A c \in Blocks \ {b} : files'[c] = files[c]
  BY ReplacedIs
<1>2. /\ Writers(d, n) = {} => Contents[d][n] = Look(dir[d], n)
      /\ \A c \in Writers(d, n) : Contents[d][n] = files[c].data
  BY ContentsIs DEF ContentsFact
<1>3. ContentsFact'
  BY ContentsIs, PTL
<1> DEFINE was == Writers(d, n)
           is == Writers(d, n)'
<1>4. /\ is = {} => Contents'[d][n] = Look(dir'[d], n)
      /\ \A c \in is : Contents'[d][n] = files'[c].data
  BY <1>3 DEF ContentsFact
<1>5. \A c \in Blocks : c \in was <=> IsAt(files[c], d, n)
  BY WriterAt DEF WritersFact
<1>6. \A c \in Blocks : c \in is <=> IsAt(files'[c], d, n)
  <2>1. WritersFact'
    BY WriterAt, PTL
  <2> QED  BY <2>1 DEF WritersFact
<1>7. was \subseteq Blocks /\ is \subseteq Blocks
  BY DEF Writers
<1> HIDE DEF was, is
<1>8. CASE IsAt(new, d, n)
  <2>1. b \in is
    BY <1>1, <1>6, <1>8
  <2> QED  BY <1>1, <1>4, <1>8, <2>1
<1>9. CASE ~ IsAt(new, d, n)
  <2>1. b \notin is /\ \A c \in Blocks \ {b} : c \in is <=> c \in was
    BY <1>1, <1>5, <1>6, <1>9
  <2>2. CASE is # {}
    <3>1. PICK c \in is : TRUE
      BY <2>2
    <3>2. c \in Blocks \ {b} /\ c \in was
      BY <1>7, <2>1, <3>1
    <3>3. Contents[d][n] = files[c].data
      BY <1>2, <3>2 DEF was
    <3> QED  BY <1>1, <1>4, <1>9, <3>1, <3>2, <3>3
  <2>3. CASE is = {}
    <3>1. Look(dir'[d], n) = IF IsAt(files[b], d, n) THEN files[b].data
                             ELSE Look(dir[d], n)
      BY <1>9 DEF LooksAfter
    <3>2. CASE b \in was
      <4>1. Contents[d][n] = files[b].data
        BY <1>2, <3>2 DEF was
      <4> QED  BY <1>4, <1>5, <1>9, <2>3, <3>1, <3>2, <4>1
    <3>3. CASE b \notin was
      <4>1. was = {}
        BY <1>7, <2>1, <2>3, <3>3
      <4>2. Contents[d][n] = Look(dir[d], n)
        BY <1>2, <4>1 DEF was
      <4> QED  BY <1>4, <1>5, <1>9, <2>3, <3>1, <3>3, <4>2
    <3> QED  BY <3>2, <3>3
  <2> QED  BY <2>2, <2>3
<1> QED  BY <1>8, <1>9

-----------------------------------------------------------------------------
(* Its steps.                                                              *)
LEMMA Untouched ==
  ASSUME UNCHANGED <<dir, files>>
  PROVE  /\ OneWriter => OneWriter'
         /\ Current => Current'
         /\ Contents' = Contents
<1>1. dir' = dir /\ files' = files
  OBVIOUS
<1>2. OneWriter => OneWriter'
  BY <1>1 DEF OneWriter, Writers, Holds
<1>3. Current => Current'
  BY <1>1 DEF Current, Open
<1>4. Contents' = Contents
  BY <1>1 DEF Contents, Writers, Holds
<1> QED  BY <1>2, <1>3, <1>4

(* What writing the old file back does to the floppies.                    *)
LEMMA FlushLooks ==
  ASSUME FilesType, Dirs(dir), NEW b \in Blocks, dir' = Flushed(dir, files[b])
  PROVE  /\ \A d \in Images, n \in Names :
              Look(dir'[d], n) # Look(dir[d], n) => IsAt(files[b], d, n)
         /\ \A new : ~ Fails(dir, files[b]) => LooksAfter(b, new)
<1>1. files[b] \in OpenFiles
  BY DEF FilesType
<1>2. \A d \in Images, n \in Names :
        Look(dir'[d], n) =
          IF files[b].dirty /\ ~ Fails(dir, files[b]) /\ files[b].disk = d
             /\ files[b].name = n
          THEN files[b].data ELSE Look(dir[d], n)
  BY <1>1, FlushedIs
<1> QED  BY <1>2 DEF IsAt, LooksAfter

LEMMA CareFacts ==
  ASSUME CareInv
  PROVE  /\ TypeInv /\ FilesType /\ Dirs(dir) /\ OneWriter /\ Current
         /\ disk \in Images
         /\ \A drv \in DriveBytes : FcbDisk(drv) \in Images
BY TypeFacts DEF CareInv, TypeInv

(* A block that was written back, and given a file no other block has      *)
(* changed: every file holds what it held, but for the new one's changes.  *)
LEMMA FlushStep ==
  ASSUME CareInv, TypeInv', NEW b \in Blocks, NEW new \in OpenFiles, Replaced(b, new),
         Fresh(b, new), dir' = Flushed(dir, files[b]),
         new # Closed /\ ~ new.dirty => Look(dir'[new.disk], new.name) = new.data
  PROVE  /\ OneWriter' /\ Current'
         /\ ~ Fails(dir, files[b]) =>
              \A d \in Images, n \in Names :
                Contents'[d][n] = IF IsAt(new, d, n) THEN new.data ELSE Contents[d][n]
<1>1. FilesType /\ Dirs(dir) /\ OneWriter /\ Current /\ FilesType'
  BY CareFacts DEF TypeInv, TypeOK, FilesType
<1>2. /\ \A d \in Images, n \in Names :
           Look(dir'[d], n) # Look(dir[d], n) => IsAt(files[b], d, n)
      /\ ~ Fails(dir, files[b]) => LooksAfter(b, new)
  BY <1>1, FlushLooks
<1>3. OneWriter'
  BY <1>1, OneWriterStays
<1>4. Current'
  BY <1>1, <1>2, CurrentStays
<1>5. ASSUME ~ Fails(dir, files[b]), NEW d \in Images, NEW n \in Names
      PROVE  Contents'[d][n] = IF IsAt(new, d, n) THEN new.data ELSE Contents[d][n]
  BY <1>1, <1>2, <1>3, <1>5, BlockContents
<1> QED  BY <1>3, <1>4, <1>5

LEMMA CareOpen ==
  ASSUME Careful, CareInv, TypeInv', NEW b \in Blocks, NEW drv \in DriveBytes,
         NEW n \in Names, OpenOrRead(b, drv, n)
  PROVE  OneWriter' /\ Current' /\ (~ lost' => Contents' = Contents)
<1>1. FilesType /\ Dirs(dir) /\ OneWriter /\ Current /\ FcbDisk(drv) \in Images
  BY CareFacts
<1> DEFINE d == FcbDisk(drv)
           new == Opened(b, drv, n)
<1>2. CASE Cached(b, drv, n)
  <2>1. files' = [files EXCEPT ![b] = files[b]] /\ dir' = dir
    BY <1>2 DEF OpenOrRead, Opened, DirOpening
  <2>2. UNCHANGED <<dir, files>>
    BY <1>1, <2>1 DEF FilesType
  <2> QED  BY <1>1, <2>2, Untouched
<1>3. CASE ~ Cached(b, drv, n)
  <2>1. dir' = Flushed(dir, files[b]) /\ Replaced(b, new)
    BY <1>3 DEF OpenOrRead, DirOpening, Replaced
  <2>2. /\ new \in OpenFiles /\ ~ new.dirty /\ new.data = Look(dir[d], n)
        /\ new # Closed => new.disk = d /\ new.name = n
    BY <1>1, <1>3, OpenedIs
  <2>3. ~ IsAt(files[b], d, n)
    <3>1. files[b] \in OpenFiles
      BY <1>1 DEF FilesType
    <3> QED  BY <1>3, <3>1, FileFacts DEF IsAt, Cached, Holds
  <2>4. Look(dir'[d], n) = Look(dir[d], n)
    BY <1>1, <2>1, <2>3, FlushLooks
  <2>5. Fresh(b, new)
    <3>1. \A c \in Blocks \ {b} : Holds(c, d, n) => ~ files[c].dirty
      BY DEF OpenOrRead, SoleReader, Careful
    <3> HIDE DEF d, new
    <3> QED  BY <2>2, <3>1 DEF Fresh
  <2>6. ~ lost' => ~ Fails(dir, files[b])
    BY <1>3 DEF OpenOrRead, LostOpening
  <2> HIDE DEF new, d
  <2>7. new # Closed /\ ~ new.dirty => Look(dir'[new.disk], new.name) = new.data
    BY <2>2, <2>4
  <2>8. /\ OneWriter' /\ Current'
        /\ ~ Fails(dir, files[b]) =>
             \A e \in Images, m \in Names :
               Contents'[e][m] = IF IsAt(new, e, m) THEN new.data ELSE Contents[e][m]
    BY <2>1, <2>2, <2>5, <2>7, FlushStep
  <2>9. \A e, m : ~ IsAt(new, e, m)
    BY <2>2 DEF IsAt
  <2> QED  BY <2>6, <2>8, <2>9, SameContents
<1> QED  BY <1>2, <1>3

LEMMA CareClose ==
  ASSUME CareInv, TypeInv', NEW b \in Blocks, Close(b)
  PROVE  OneWriter' /\ Current' /\ (~ lost' => Contents' = Contents)
<1>1. dir' = Flushed(dir, files[b]) /\ Replaced(b, Closed)
  BY DEF Close, Replaced
<1>2. Closed \in OpenFiles /\ ~ Closed.dirty
  BY FileFacts
<1>3. Fresh(b, Closed)
  BY DEF Fresh
<1>4. /\ OneWriter' /\ Current'
      /\ ~ Fails(dir, files[b]) =>
           \A e \in Images, m \in Names :
             Contents'[e][m] = IF IsAt(Closed, e, m) THEN Closed.data ELSE Contents[e][m]
  BY <1>1, <1>2, <1>3, FlushStep
<1>5. \A e, m : ~ IsAt(Closed, e, m)
  BY <1>2 DEF IsAt
<1>6. ~ lost' => ~ Fails(dir, files[b])
  BY DEF Close
<1> QED  BY <1>4, <1>5, <1>6, SameContents

LEMMA CareCreate ==
  ASSUME Careful, CareInv, TypeInv', NEW b \in Blocks, NEW drv \in DriveBytes,
         NEW n \in Names, Create(b, drv, n)
  PROVE  OneWriter' /\ Current' /\ (~ lost' => Floppy!Create(FcbDisk(drv), n))
<1>1. FcbDisk(drv) \in Images
  BY CareFacts
<1> DEFINE d == FcbDisk(drv)
           new == File(n, << >>, d, TRUE)
<1>2. dir' = Flushed(dir, files[b]) /\ Replaced(b, new)
  BY DEF Create, Replaced
<1>3. new \in OpenFiles
  <2>1. << >> \in Data /\ TRUE \in BOOLEAN
    BY DEF Data
  <2> QED  BY <1>1, <2>1, AnyFile
<1>4. new.name = n /\ new.data = << >> /\ new.disk = d /\ new.dirty
  BY DEF File
<1>5. \A c \in Blocks \ {b} : ~ Holds(c, d, n)
  BY DEF Create, SoleWriter, Careful
<1>6. ~ lost' => ~ Fails(dir, files[b])
  BY DEF Create
<1> HIDE DEF new, d
<1>7. Fresh(b, new)
  BY <1>4, <1>5 DEF Fresh
<1>8. /\ OneWriter' /\ Current'
      /\ ~ Fails(dir, files[b]) =>
           \A e \in Images, m \in Names :
             Contents'[e][m] = IF IsAt(new, e, m) THEN new.data ELSE Contents[e][m]
  BY <1>2, <1>3, <1>4, <1>7, FlushStep
<1>9. \A e, m : IsAt(new, e, m) <=> e = d /\ m = n
  BY <1>4 DEF IsAt
<1>10. ~ lost' => Contents' = [Contents EXCEPT ![d][n] = << >>]
  <2> SUFFICES ASSUME ~ lost' PROVE Contents' = [Contents EXCEPT ![d][n] = << >>]
    OBVIOUS
  <2>1. \A e \in Images, m \in Names :
          Contents'[e][m] = IF e = d /\ m = n THEN << >> ELSE Contents[e][m]
    BY <1>4, <1>6, <1>8, <1>9
  <2>2. d \in Images
    BY <1>1 DEF d
  <2> QED  BY <2>1, <2>2, OneFile
<1> QED  BY <1>8, <1>10 DEF Floppy!Create, d

LEMMA CareWrite ==
  ASSUME Careful, CareInv, TypeInv', NEW b \in Blocks, NEW drv \in DriveBytes,
         NEW n \in Names, NEW pos \in Positions, NEW v \in Values, Write(b, drv, n, pos, v)
  PROVE  OneWriter' /\ Current' /\ Floppy!Write(FcbDisk(drv), n, pos, v)
<1>1. FilesType /\ Dirs(dir) /\ OneWriter /\ Current /\ FcbDisk(drv) \in Images /\ FilesType'
  BY CareFacts DEF TypeInv, TypeOK, FilesType
<1> DEFINE d == FcbDisk(drv)
           opened == Opened(b, drv, n)
           fl == Target(b, drv, n)
           x == Put(fl.data, pos, v)
           new == File(fl.name, x, fl.disk, TRUE)
<1>2. Replaced(b, new) /\ dir' = dir
  BY DEF Write, Target, Replaced
<1>3. files[b] = Closed \/ Cached(b, drv, n)
  BY DEF Write, Careful
<1>4. \A c \in Blocks \ {b} : ~ Holds(c, d, n)
  BY DEF Write, SoleWriter, Careful
<1>5. opened = Closed \/ (opened.disk = d /\ opened.name = n)
  BY <1>1, OpenedIs
<1>6. /\ opened # Closed => fl = opened
      /\ opened = Closed => fl = File(n, << >>, d, TRUE)
  <2>1. files[b] # Closed => opened = files[b]
    BY <1>3 DEF Opened
  <2> QED  BY <2>1 DEF Target
<1>7. fl.disk = d /\ fl.name = n /\ (opened = Closed => fl.data = << >>)
  BY <1>5, <1>6 DEF File
<1>8. fl \in OpenFiles /\ fl # Closed /\ opened \in OpenFiles
  BY <1>1, TargetIs, OpenedIs
<1>9. opened.data = Contents[d][n]
  <2>1. Alone(b, d, n)
    BY <1>4 DEF Alone
  <2> QED  BY <1>1, <2>1, ReadIs
<1> HIDE DEF opened, fl
<1>10. Floppy!Held(d, n) = fl.data
  <2>1. CASE opened = Closed
    BY <1>7, <1>9, <2>1, FileFacts DEF Floppy!Held, Floppy!Missing, Missing
  <2>2. CASE opened # Closed
    <3>1. opened.data \in Data
      BY <1>8, <2>2, FileFacts
    <3>2. opened.data # Missing
      BY <3>1, MissingIsNoData
    <3> QED  BY <1>6, <1>9, <2>2, <3>2 DEF Floppy!Held, Floppy!Missing, Missing
  <2> QED  BY <2>1, <2>2
<1>11. new \in OpenFiles /\ new.name = n /\ new.disk = d /\ new.dirty /\ new.data = x
  <2>1. fl.data \in Data
    BY <1>8, FileFacts
  <2>2. x \in Data /\ TRUE \in BOOLEAN
    BY <2>1, PutIs
  <2>3. new.name = n /\ new.disk = d /\ new.dirty /\ new.data = x
    BY <1>7 DEF File
  <2> HIDE DEF x
  <2>4. new \in OpenFiles
    BY <1>1, <1>7, <2>2, AnyFile
  <2> QED  BY <2>3, <2>4
<1>12. Floppy!Put(fl.data, pos, v) = x
  BY DEF Floppy!Put, Put
<1> HIDE DEF new, x, d
<1>13. Fresh(b, new)
  BY <1>4, <1>11 DEF Fresh
<1>14. OneWriter'
  BY <1>1, <1>2, <1>11, <1>13, OneWriterStays
<1>15. Current'
  <2>1. \A e \in Images, m \in Names :
          Look(dir'[e], m) # Look(dir[e], m) => IsAt(files[b], e, m)
    BY <1>2
  <2> QED  BY <1>1, <1>2, <1>11, <1>13, <2>1, CurrentStays
<1>16. LooksAfter(b, new)
  <2>1. \A e, m : IsAt(files[b], e, m) => e = d /\ m = n
    <3>1. files[b] \in OpenFiles
      BY <1>1 DEF FilesType
    <3>2. files[b].dirty => files[b] # Closed
      BY <3>1, FileFacts
    <3> QED  BY <1>3, <3>2 DEF IsAt, Cached, Holds, d
  <2>2. IsAt(new, d, n)
    BY <1>11 DEF IsAt
  <2> QED  BY <1>2, <2>1, <2>2 DEF LooksAfter
<1>17. \A e \in Images, m \in Names :
         Contents'[e][m] = IF e = d /\ m = n THEN x ELSE Contents[e][m]
  <2>1. \A e \in Images, m \in Names :
          Contents'[e][m] = IF IsAt(new, e, m) THEN new.data ELSE Contents[e][m]
    BY <1>1, <1>2, <1>14, <1>16, BlockContents
  <2>2. \A e, m : IsAt(new, e, m) <=> e = d /\ m = n
    BY <1>11 DEF IsAt
  <2> QED  BY <1>11, <2>1, <2>2
<1>18. Contents' = [Contents EXCEPT ![d][n] = x]
  <2>1. d \in Images
    BY <1>1 DEF d
  <2> QED  BY <1>17, <2>1, OneFile
<1> QED  BY <1>10, <1>12, <1>14, <1>15, <1>18 DEF Floppy!Write, d

LEMMA CareDelete ==
  ASSUME Careful, CareInv, NEW drv \in DriveBytes, NEW n \in Names, Delete(drv, n)
  PROVE  OneWriter' /\ Current' /\ Floppy!Delete(disk, n)
<1>1. FilesType /\ Dirs(dir) /\ OneWriter /\ Current /\ disk \in Images
  BY CareFacts
<1>2. files' = files /\ At(dir[disk], n) # {} /\ \A b \in Blocks : ~ Holds(b, disk, n)
  BY DEF Delete, Careful
<1>3. \A d \in Images, m \in Names :
        Look(dir'[d], m) = IF d = disk /\ m = n THEN Missing ELSE Look(dir[d], m)
  BY <1>1, DeleteIs DEF DeleteLooks
<1>4. OneWriter'
  BY <1>1, <1>2 DEF OneWriter, Writers, Holds
<1>5. Current'
  <2> SUFFICES ASSUME NEW b \in Blocks, files[b] # Closed, ~ files[b].dirty
               PROVE  Look(dir'[files[b].disk], files[b].name) = files[b].data
    BY <1>2 DEF Current, Open
  <2>1. files[b].disk \in Images /\ files[b].name \in Names
    BY <1>1, FileFacts DEF FilesType
  <2>2. Look(dir[files[b].disk], files[b].name) = files[b].data
    BY <1>1 DEF Current, Open
  <2>3. ~ (files[b].disk = disk /\ files[b].name = n)
    BY <1>2 DEF Holds
  <2> QED  BY <1>3, <2>1, <2>2, <2>3
<1>6. /\ \A d \in Images, m \in Names : Writers(d, m)' = Writers(d, m)
      /\ Writers(disk, n) = {}
  BY <1>2 DEF Writers, Holds
<1>7. ContentsFact'
  BY ContentsIs, PTL
<1>8. ASSUME NEW d \in Images, NEW m \in Names
      PROVE  Contents'[d][m] = IF d = disk /\ m = n THEN Missing ELSE Contents[d][m]
  <2> DEFINE w == Writers(d, m)
  <2>1. /\ w = {} => Contents[d][m] = Look(dir[d], m)
        /\ \A c \in w : Contents[d][m] = files[c].data
    BY <1>1, ContentsIs DEF ContentsFact
  <2>2. /\ w = {} => Contents'[d][m] = Look(dir'[d], m)
        /\ \A c \in w : Contents'[d][m] = files'[c].data
    BY <1>4, <1>6, <1>7 DEF ContentsFact
  <2>3. d = disk /\ m = n => w = {}
    BY <1>6
  <2> HIDE DEF w
  <2>4. CASE w = {}
    BY <1>3, <2>1, <2>2, <2>4
  <2>5. CASE w # {}
    BY <1>2, <2>1, <2>2, <2>3, <2>5
  <2> QED  BY <2>4, <2>5
<1>9. Contents' = [Contents EXCEPT ![disk][n] = Missing]
  <2> DEFINE d == disk
  <2>1. d \in Images /\ \A e \in Images, m \in Names :
          Contents'[e][m] = IF e = d /\ m = n THEN Missing ELSE Contents[e][m]
    BY <1>1, <1>8
  <2> HIDE DEF d
  <2>2. Contents' = [Contents EXCEPT ![d][n] = Missing]
    BY <2>1, OneFile
  <2> QED  BY <2>2 DEF d
<1>10. Contents[disk][n] # Missing
  <2>1. Contents[disk][n] = Look(dir[disk], n)
    BY <1>1, <1>6, ContentsIs DEF ContentsFact
  <2>2. Directory(disk, dir[disk])
    BY <1>1 DEF Dirs
  <2>3. Look(dir[disk], n) \in Data
    BY <1>1, <1>2, <2>2, LookIs
  <2> QED  BY <2>1, <2>3, MissingIsNoData
<1> QED  BY <1>4, <1>5, <1>9, <1>10 DEF Floppy!Delete, Floppy!Missing, Missing

LEMMA CareSwap ==
  ASSUME CareInv, NEW dr, SwapNext(dr)
  PROVE  OneWriter' /\ Current' /\ (~ lost' => Contents' = Contents)
<1>1. FilesType /\ Dirs(dir) /\ OneWriter
  BY CareFacts
<1>2. PICK o \in Orders : /\ dir' = After(o)[Many]
                          /\ lost' = (lost \/ FailAt(o) # {})
  BY DEF SwapNext, Many
<1>3. \A b \in Blocks : files'[b] = Closed
  BY DEF SwapNext, Forgotten
<1>4. \A d, n : Writers(d, n)' = {}
  BY <1>3 DEF Writers, Holds
<1>5. OneWriter' /\ Current'
  BY <1>3 DEF OneWriter, Writers, Holds, Current, Open
<1>6. ContentsFact'
  BY ContentsIs, PTL
<1>7. ASSUME ~ lost', NEW d \in Images, NEW n \in Names
      PROVE  Contents'[d][n] = Contents[d][n]
  <2>1. /\ Writers(d, n) = {} => Contents[d][n] = Look(dir[d], n)
        /\ \A c \in Writers(d, n) : Contents[d][n] = files[c].data
    BY <1>1, ContentsIs DEF ContentsFact
  <2>2. Contents'[d][n] = Look(dir'[d], n)
    BY <1>4, <1>5, <1>6 DEF ContentsFact
  <2>3. FailAt(o) = {}
    BY <1>2, <1>7
  <2>4. /\ Writers(d, n) = {} => Look(After(o)[Many][d], n) = Look(dir[d], n)
        /\ \A b \in Writers(d, n) : Look(After(o)[Many][d], n) = files[b].data
    BY <1>1, <2>3, AllWrittenBack
  <2> QED  BY <1>2, <2>1, <2>2, <2>4
<1>8. ~ lost' => Contents' = Contents
  BY <1>7, SameContents
<1> QED  BY <1>5, <1>8

(* The files that are open when the player leaves are on the floppies, and *)
(* those of the selected one are in its image.                             *)
LEMMA CareLeave ==
  ASSUME CareInv, Leave
  PROVE  /\ OneWriter' /\ Current' /\ (~ lost' => Contents' = Contents)
         /\ ExitKeepsSelected'
<1>1. FilesType /\ Dirs(dir) /\ OneWriter /\ Current /\ disk \in Images /\ Dirs(home)
  BY CareFacts DEF TypeInv
<1>2. PICK o \in Orders : /\ dir' = After(o)[LeaveAt(o)]
                          /\ lost' = (lost \/ FailAt(o) # {})
  BY DEF Leave, Many, LeaveAt
<1>3. files' = files /\ disk' = disk /\ home' = [home EXCEPT ![disk] = dir'[disk]]
  BY DEF Leave
<1>4. \A d, n : Writers(d, n)' = Writers(d, n)
  BY <1>3 DEF Writers, Holds
<1>5. OneWriter'
  BY <1>1, <1>3 DEF OneWriter, Writers, Holds
<1>6. ASSUME NEW d \in Images, NEW n \in Names, Writers(d, n) = {}
      PROVE  Look(dir'[d], n) = Look(dir[d], n)
  <2>1. LeaveAt(o) \in 0..Many
    BY LeaveAtIs
  <2> QED  BY <1>1, <1>2, <1>6, <2>1, AfterLooks
<1>7. Current'
  <2> SUFFICES ASSUME NEW b \in Blocks, files[b] # Closed, ~ files[b].dirty
               PROVE  Look(dir'[files[b].disk], files[b].name) = files[b].data
    BY <1>3 DEF Current, Open
  <2> DEFINE d == files[b].disk
             n == files[b].name
  <2>1. d \in Images /\ n \in Names
    BY <1>1, FileFacts DEF FilesType
  <2>2. Look(dir[d], n) = files[b].data
    BY <1>1 DEF Current, Open
  <2>3. Writers(d, n) = {}
    <3> SUFFICES ASSUME NEW c \in Writers(d, n) PROVE FALSE
      OBVIOUS
    <3>1. Holds(b, d, n)
      BY DEF Holds
    <3> HIDE DEF d, n
    <3>2. b = c
      BY <1>1, <2>1, <3>1 DEF OneWriter
    <3> QED  BY <3>2 DEF Writers
  <2> QED  BY <1>6, <2>1, <2>2, <2>3
<1>8. ContentsFact'
  BY ContentsIs, PTL
<1>9. ASSUME ~ lost', NEW d \in Images, NEW n \in Names
      PROVE  Contents'[d][n] = Contents[d][n] /\ Contents'[d][n] = Look(dir'[d], n)
  <2> DEFINE w == Writers(d, n)
  <2>1. /\ w = {} => Contents[d][n] = Look(dir[d], n)
        /\ \A c \in w : Contents[d][n] = files[c].data
    BY <1>1, ContentsIs DEF ContentsFact
  <2>2. /\ w = {} => Contents'[d][n] = Look(dir'[d], n)
        /\ \A c \in w : Contents'[d][n] = files'[c].data
    BY <1>4, <1>5, <1>8 DEF ContentsFact
  <2>3. FailAt(o) = {} /\ dir' = After(o)[Many]
    BY <1>2, <1>9 DEF LeaveAt
  <2>4. /\ w = {} => Look(dir'[d], n) = Look(dir[d], n)
        /\ \A b \in w : Look(dir'[d], n) = files[b].data
    BY <1>1, <2>3, AllWrittenBack
  <2> HIDE DEF w
  <2>5. CASE w = {}
    BY <2>1, <2>2, <2>4, <2>5
  <2>6. CASE w # {}
    BY <1>3, <2>1, <2>2, <2>4, <2>6
  <2> QED  BY <2>5, <2>6
<1>10. ~ lost' => Contents' = Contents
  BY <1>9, SameContents
<1>11. ExitKeepsSelected'
  <2> SUFFICES ASSUME ~ lost', NEW n \in Names
               PROVE  Look(home'[disk], n) = Contents'[disk][n]
    BY <1>3 DEF ExitKeepsSelected
  <2>1. home'[disk] = dir'[disk]
    BY <1>1, <1>3 DEF Dirs
  <2> QED  BY <1>1, <1>9, <2>1
<1> QED  BY <1>5, <1>7, <1>10, <1>11

-----------------------------------------------------------------------------

LEMMA StartCare == Init => CareInv
<1> SUFFICES ASSUME Init PROVE CareInv
  OBVIOUS
<1>1. \A b \in Blocks : files[b] = Closed
  BY DEF Init
<1>2. OneWriter /\ Current
  BY <1>1 DEF OneWriter, Writers, Holds, Current, Open
<1>3. ExitKeepsSelected
  BY DEF Init, ExitKeepsSelected
<1> QED  BY <1>2, <1>3, StartTyped DEF CareInv

(* Every step keeps what a careful program relies on, and is a step of the *)
(* floppies, or of none, unless a file could not be written back.          *)
LEMMA StepCare ==
  ASSUME Careful, CareInv, [Next]_vars
  PROVE  CareInv' /\ (lost' \/ Floppy!Next \/ UNCHANGED <<lost, Contents>>)
<1>0. TypeInv' /\ OneWriter /\ Current /\ lost \in BOOLEAN /\ disk \in Images
      /\ \A drv \in DriveBytes : FcbDisk(drv) \in Images
  BY StepTyped, CareFacts DEF CareInv, TypeInv, TypeOK
<1> DEFINE Good == OneWriter' /\ Current' /\ (~ lost' => Contents' = Contents \/ Floppy!Next)
<1>1. ASSUME Good, ~ over' \/ ExitKeepsSelected', lost => lost'
      PROVE  CareInv' /\ (lost' \/ Floppy!Next \/ UNCHANGED <<lost, Contents>>)
  <2>1. ExitKeepsSelected'
    BY <1>1 DEF ExitKeepsSelected
  <2>2. CareInv'
    BY <1>0, <1>1, <2>1 DEF CareInv
  <2>3. ~ lost' => lost' = lost
    <3>1. lost' \in BOOLEAN
      BY <1>0 DEF TypeInv, TypeOK
    <3> QED  BY <1>0, <1>1, <3>1, Zenon
  <2> QED  BY <1>1, <2>2, <2>3
<1>2. ASSUME NEW b \in Blocks, NEW drv \in DriveBytes, NEW n \in Names,
             OpenOrRead(b, drv, n)
      PROVE  Good /\ ~ over' /\ (lost => lost')
  BY <1>0, <1>2, CareOpen DEF OpenOrRead, LostOpening
<1>3. ASSUME NEW b \in Blocks, NEW drv \in DriveBytes, NEW n \in Names,
             Create(b, drv, n)
      PROVE  Good /\ ~ over' /\ (lost => lost')
  <2>1. OneWriter' /\ Current' /\ (~ lost' => Floppy!Create(FcbDisk(drv), n))
    BY <1>0, <1>3, CareCreate
  <2>2. Floppy!Create(FcbDisk(drv), n) => Floppy!Next
    BY <1>0 DEF Floppy!Next
  <2> QED  BY <1>3, <2>1, <2>2 DEF Create
<1>4. ASSUME NEW b \in Blocks, NEW drv \in DriveBytes, NEW n \in Names,
             NEW pos \in Positions, NEW v \in Values, Write(b, drv, n, pos, v)
      PROVE  Good /\ ~ over' /\ (lost => lost')
  <2>1. OneWriter' /\ Current' /\ Floppy!Write(FcbDisk(drv), n, pos, v)
    BY <1>0, <1>4, CareWrite
  <2>2. Floppy!Write(FcbDisk(drv), n, pos, v) => Floppy!Next
    BY <1>0 DEF Floppy!Next
  <2> QED  BY <1>4, <2>1, <2>2 DEF Write
<1>5. ASSUME NEW b \in Blocks, Close(b) PROVE Good /\ ~ over' /\ (lost => lost')
  BY <1>0, <1>5, CareClose DEF Close
<1>6. ASSUME NEW drv \in DriveBytes, NEW n \in Names, Delete(drv, n)
      PROVE  Good /\ ~ over' /\ (lost => lost')
  <2>1. OneWriter' /\ Current' /\ Floppy!Delete(disk, n)
    BY <1>6, CareDelete
  <2>2. Floppy!Delete(disk, n) => Floppy!Next
    BY <1>0 DEF Floppy!Next
  <2> QED  BY <1>6, <2>1, <2>2 DEF Delete
<1>7. ASSUME \/ \E drv \in DriveBytes, pat \in Patterns : SearchFirst(drv, pat)
             \/ SearchNext
             \/ \E dr \in Drives : SelectDrive(dr)
      PROVE  Good /\ ~ over' /\ (lost => lost')
  <2>1. UNCHANGED <<dir, files, lost, over>> /\ ~ over
    BY <1>7 DEF SearchFirst, SearchNext, SelectDrive
  <2> QED  BY <1>0, <2>1, Untouched
<1>8. ASSUME SwapNext(0) PROVE Good /\ ~ over' /\ (lost => lost')
  BY <1>8, CareSwap DEF SwapNext
<1>9. ASSUME Leave PROVE Good /\ ExitKeepsSelected' /\ (lost => lost')
  BY <1>9, CareLeave DEF Leave
<1>10. ASSUME UNCHANGED vars
       PROVE  Good /\ ExitKeepsSelected' /\ (lost => lost')
  <2>1. UNCHANGED <<dir, files, home, over, lost, disk>>
    BY <1>10 DEF vars
  <2>2. Contents' = Contents /\ OneWriter' /\ Current'
    BY <1>0, <2>1, Untouched
  <2>3. ExitKeepsSelected'
    BY <2>1, <2>2 DEF CareInv, ExitKeepsSelected
  <2> QED  BY <2>1, <2>2, <2>3
<1> HIDE DEF Good
<1> QED  BY <1>1, <1>2, <1>3, <1>4, <1>5, <1>6, <1>7, <1>8, <1>9, <1>10
        DEF Next, Call, Gone

LEMMA CareHolds == ASSUME Careful PROVE Spec => []CareInv
<1>1. CareInv /\ [Next]_vars => CareInv'
  BY StepCare
<1> QED  BY <1>1, StartCare, PTL DEF Spec

(* Whatever floppies, blocks and names there are: what a careful program   *)
(* wrote is what it reads, through whichever block and after any swap, and *)
(* the player finds it in the floppy left in the selected drive (dosOpen,  *)
(* dosFlush, DOSFlushAll).                                                 *)
THEOREM WhatIsWrittenIsRead == ASSUME Careful PROVE Spec => []ContentsAreKept
<1>1. CareInv => ContentsAreKept
  BY CareReads DEF CareInv, TypeInv, ContentsAreKept
<1> QED  BY <1>1, CareHolds, PTL

(* Files held whole and written back when a block is closed or reused, a   *)
(* floppy swapped or the player gone implement files that are written at   *)
(* once: no other step changes any file of any floppy, until one cannot be *)
(* written back.                                                           *)
THEOREM FilesAreWritten == ASSUME Careful PROVE Spec => ImplementsFloppies
<1>1. CareInv /\ [Next]_vars => [lost' \/ Floppy!Next]_<<lost, Contents>>
  BY StepCare
<1> QED  BY <1>1, CareHolds, PTL DEF Spec, ImplementsFloppies

(* A write or a create changes the file its block names, on the floppy its *)
(* block names, and nothing else.                                          *)
THEOREM WritesGoWhereNamed == ASSUME Careful PROVE Spec => WritesLandWhereNamed
<1> DEFINE Lands ==
      \A b \in Blocks : files'[b].dirty /\ files'[b] # files[b] =>
        \A drv \in DriveBytes, n \in Names :
          IF files'[b].data = << >>
          THEN Create(b, drv, n) => lost' \/ Floppy!Create(FcbDisk(drv), n)
          ELSE \A pos \in Positions, v \in Values :
                 Write(b, drv, n, pos, v) => Floppy!Write(FcbDisk(drv), n, pos, v)
<1>1. ASSUME CareInv, [Next]_vars PROVE Lands
  <2>1. TypeInv'
    BY <1>1, StepTyped DEF CareInv
  <2>2. ASSUME NEW b \in Blocks, NEW drv \in DriveBytes, NEW n \in Names
        PROVE  /\ Create(b, drv, n) => lost' \/ Floppy!Create(FcbDisk(drv), n)
               /\ \A pos \in Positions, v \in Values :
                    Write(b, drv, n, pos, v) => Floppy!Write(FcbDisk(drv), n, pos, v)
    BY <1>1, <2>1, CareCreate, CareWrite
  <2> QED  BY <2>2
<1>2. CareInv /\ [Next]_vars => [Lands]_vars
  BY <1>1
<1> QED  BY <1>2, CareHolds, PTL DEF Spec, WritesLandWhereNamed

-----------------------------------------------------------------------------
(* Searches.                                                               *)
(* What a search has found, of a directory and its place there.            *)
Hits(dr, pat, at) == {i \in 1..at : pat \in {AnyName, Listed(dr)[i].name}}
FoundIs(dr, pat, at, got) ==
  /\ at <= Len(Listed(dr))
  /\ {got[i] : i \in DOMAIN got} = {Listed(dr)[i].name : i \in Hits(dr, pat, at)}
  /\ Len(got) = Cardinality(Hits(dr, pat, at))

FoundFact ==
  SearchFindsAll <=> (Searching => FoundIs(dir[search.on], search.for, search.at, found))

LEMMA FoundMeans == FoundFact
BY DEF FoundFact, SearchFindsAll, FoundIs, Hits

(* Files that keep their places are found as they were.                    *)
LEMMA SameNamesFound ==
  ASSUME NEW d \in Images, NEW dr, NEW new, Directory(d, dr), Directory(d, new),
         \A i \in 1..Room[d] : new[i].name = dr[i].name,
         NEW pat, NEW at \in Nat, NEW got, FoundIs(dr, pat, at, got)
  PROVE  FoundIs(new, pat, at, got)
<1>1. /\ dr \in [1..Room[d] -> Entries] /\ new \in [1..Room[d] -> Entries]
      /\ DOMAIN dr = 1..Room[d] /\ DOMAIN new = 1..Room[d]
  BY DEF Directory
<1>2. \A i \in 1..Room[d] : new[i] = NoEntry <=> dr[i] = NoEntry
  BY <1>1, EntryFacts
<1>3. Used(new) = Used(dr)
  BY <1>1, <1>2 DEF Used
<1>4. Len(Listed(new)) = Len(Listed(dr)) /\ Len(Listed(dr)) \in Nat
  BY <1>3, ListedIs
<1>5. ASSUME NEW k \in 1..Len(Listed(dr)) PROVE Listed(new)[k].name = Listed(dr)[k].name
  <2>1. /\ Listed(dr)[k] = dr[Nth(Used(dr), k)] /\ Nth(Used(dr), k) \in 1..Room[d]
        /\ Listed(new)[k] = new[Nth(Used(new), k)]
    BY <1>4, ListedIs, ZenonT(30)
  <2> QED  BY <1>3, <2>1
<1>6. at <= Len(Listed(dr)) /\ \A i \in 1..at : i \in 1..Len(Listed(dr))
  BY <1>4 DEF FoundIs
<1>7. Hits(new, pat, at) = Hits(dr, pat, at)
  BY <1>5, <1>6 DEF Hits
<1>8. {Listed(new)[i].name : i \in Hits(dr, pat, at)} = {Listed(dr)[i].name : i \in Hits(dr, pat, at)}
  BY <1>5, <1>6 DEF Hits
<1> QED  BY <1>4, <1>7, <1>8 DEF FoundIs

(* The next file is one more.                                              *)
LEMMA SearchOneMore ==
  ASSUME NEW on \in Images, Directory(on, dir[on]), NEW pat, NEW at \in Nat,
         NEW got \in Seq(Names), FoundIs(dir[on], pat, at, got),
         SearchFrom(on, pat, at, got)
  PROVE  search' # Unsearched =>
           /\ search'.on = on /\ search'.for = pat
           /\ FoundIs(dir[on], pat, search'.at, found')
<1> DEFINE dr == dir[on]
           list == Listed(dr)
           next == {i \in at + 1..Len(list) : pat \in {AnyName, list[i].name}}
           g == Least(next)
           was == Hits(dr, pat, at)
<1>1. Len(list) \in Nat /\ \A k \in 1..Len(list) : list[k].name \in Names
  BY ListedIs
<1>2. CASE next = {}
  BY <1>2 DEF SearchFrom
<1>3. CASE next # {}
  <2>1. search' = [on |-> on, for |-> pat, at |-> g] /\ found' = Append(got, list[g].name)
    BY <1>3 DEF SearchFrom, NextAt
  <2>2. next \in SUBSET Nat
    BY <1>1
  <2>3. g \in next /\ \A y \in next : g <= y
    BY <1>3, <2>2, LeastIn
  <2> HIDE DEF g
  <2>4. /\ g \in Nat /\ g <= Len(list) /\ at < g /\ g \in 1..Len(list)
        /\ pat \in {AnyName, list[g].name}
    BY <1>1, <2>3
  <2>5. \A i \in at + 1..g : pat \in {AnyName, list[i].name} => i = g
    <3> SUFFICES ASSUME NEW i \in at + 1..g, pat \in {AnyName, list[i].name} PROVE i = g
      OBVIOUS
    <3>1. i \in at + 1..Len(list)
      BY <1>1, <2>4
    <3>2. i \in next
      BY <3>1
    <3>3. g <= i
      BY <2>3, <3>2
    <3> QED  BY <2>4, <3>3
  <2>6. Hits(dr, pat, g) = was \cup {g} /\ g \notin was
    <3>1. \A i \in 1..g : i \in 1..at \/ i \in at + 1..g
      BY <2>4
    <3>2. 1..at \subseteq 1..g /\ g \in 1..g /\ g \notin 1..at
      BY <2>4
    <3> HIDE DEF list
    <3>3. \A i \in 1..g : pat \in {AnyName, list[i].name} => i \in 1..at \/ i = g
      BY <2>5, <3>1
    <3> QED  BY <2>4, <3>2, <3>3 DEF Hits, list
  <2>7. Cardinality(was \cup {g}) = Cardinality(was) + 1
    <3>1. was \in SUBSET (0..at)
      BY DEF Hits
    <3>2. IsFiniteSet(was)
      BY <3>1, InInterval
    <3> QED  BY <2>6, <3>2, FS_AddElement
  <2>8. Len(got) = Cardinality(was)
        /\ {got[i] : i \in DOMAIN got} = {list[i].name : i \in was}
    BY DEF FoundIs
  <2> DEFINE new == list[g].name
  <2>9. /\ Len(found') = Len(got) + 1 /\ DOMAIN found' = 1..Len(got) + 1
        /\ DOMAIN got = 1..Len(got) /\ Len(got) \in Nat
        /\ found'[Len(got) + 1] = new /\ \A i \in 1..Len(got) : found'[i] = got[i]
    <3>1. new \in Names
      BY <1>1, <2>4
    <3> HIDE DEF new
    <3>2. found' = Append(got, new)
      BY <2>1 DEF new
    <3> QED  BY <3>1, <3>2
  <2>10. {found'[i] : i \in DOMAIN found'} = {got[i] : i \in DOMAIN got} \cup {new}
    <3>1. 1..Len(got) + 1 = 1..Len(got) \cup {Len(got) + 1}
      BY <2>9
    <3> HIDE DEF new
    <3> QED  BY <2>9, <3>1
  <2>11. {list[i].name : i \in was \cup {g}} = {list[i].name : i \in was} \cup {new}
    OBVIOUS
  <2>12. FoundIs(dr, pat, g, found')
    <3>1. g <= Len(list)
      BY <2>4
    <3>2. Len(found') = Cardinality(Hits(dr, pat, g))
      BY <2>6, <2>7, <2>8, <2>9
    <3>3. {found'[i] : i \in DOMAIN found'} = {list[i].name : i \in Hits(dr, pat, g)}
      BY <2>6, <2>8, <2>10, <2>11
    <3> QED  BY <3>1, <3>2, <3>3 DEF FoundIs
  <2> HIDE DEF new, list, dr, next, was
  <2> QED  BY <2>1, <2>12 DEF dr
<1> QED  BY <1>2, <1>3

-----------------------------------------------------------------------------

(* A program that opens a block afresh for another file, and makes and     *)
(* deletes none while it searches.                                         *)
Quiet == {"quietSearch", "reopen"} \subseteq Habits

(* While a search is on, every file that was written to has its entry.     *)
SearchInv == TypeInv /\ SearchFindsAll /\ (Searching => HaveEntries)

Kept == SameNames(dir, dir') /\ HaveEntries'

LEMMA SearchKept ==
  ASSUME SearchInv, TypeInv', UNCHANGED <<search, found>>, Searching => Kept
  PROVE  SearchInv'
<1>1. Searching' <=> Searching
  BY DEF Searching
<1>2. ASSUME Searching
      PROVE  FoundIs(dir'[search.on], search.for, search.at, found)
  <2>1. search.on \in Images /\ search.at \in Nat
    BY DEF SearchInv, TypeInv, TypeOK
  <2>2. Directory(search.on, dir[search.on]) /\ Directory(search.on, dir'[search.on])
    BY <2>1 DEF SearchInv, TypeInv, Dirs
  <2>3. \A i \in 1..Room[search.on] : dir'[search.on][i].name = dir[search.on][i].name
    BY <1>2, <2>1 DEF Kept, SameNames
  <2>4. FoundIs(dir[search.on], search.for, search.at, found)
    BY <1>2, FoundMeans DEF FoundFact, SearchInv
  <2> QED  BY <2>1, <2>2, <2>3, <2>4, SameNamesFound
<1>3. SearchFindsAll' <=>
        (Searching' => FoundIs(dir'[search'.on], search'.for, search'.at, found'))
  <2>1. FoundFact'
    BY FoundMeans, PTL
  <2> QED  BY <2>1 DEF FoundFact
<1>4. SearchFindsAll'
  BY <1>1, <1>2, <1>3
<1>5. Searching' => HaveEntries'
  BY <1>1 DEF Kept
<1> QED  BY <1>4, <1>5 DEF SearchInv

(* A block written back while a search is on.                              *)
LEMMA SearchFlush ==
  ASSUME SearchInv, Searching, NEW b \in Blocks, NEW new \in OpenFiles, Replaced(b, new),
         dir' = Flushed(dir, files[b]),
         new.dirty => At(dir[new.disk], new.name) # {}
  PROVE  Kept
<1>1. FilesType /\ Dirs(dir) /\ HaveEntries /\ files[b] \in OpenFiles
  BY TypeFacts DEF SearchInv, TypeInv, FilesType
<1>2. KeepsEntries(dir, dir') /\ SameNames(dir, dir')
  <2>1. HasEntry(dir, files[b])
    BY <1>1 DEF HaveEntries
  <2> QED  BY <1>1, <2>1, FlushedIs
<1>3. files'[b] = new /\ \A c \in Blocks \ {b} : files'[c] = files[c]
  BY <1>1, ReplacedIs
<1>4. HaveEntries'
  <2> SUFFICES ASSUME NEW c \in Blocks, files'[c].dirty
               PROVE  At(dir'[files'[c].disk], files'[c].name) # {}
    BY DEF HaveEntries, HasEntry
  <2> DEFINE f == files'[c]
  <2>1. f \in OpenFiles
    BY <1>1, <1>3 DEF FilesType
  <2>2. At(dir[f.disk], f.name) # {}
    <3>1. CASE c = b
      BY <1>3, <3>1
    <3>2. CASE c # b
      <4>1. HasEntry(dir, files[c])
        BY <1>1 DEF HaveEntries
      <4> QED  BY <1>3, <3>2, <4>1 DEF HasEntry
    <3> QED  BY <3>1, <3>2
  <2>3. f.disk \in Images /\ f.name \in Names
    BY <2>1, FileFacts
  <2> HIDE DEF f
  <2>4. At(dir'[f.disk], f.name) # {}
    BY <1>2, <2>2, <2>3 DEF KeepsEntries
  <2> QED  BY <2>4 DEF f
<1> QED  BY <1>2, <1>4 DEF Kept

(* And one that was not.                                                   *)
LEMMA SearchBlock ==
  ASSUME SearchInv, Searching, NEW b \in Blocks, NEW new \in OpenFiles, Replaced(b, new),
         dir' = dir, new.dirty => At(dir[new.disk], new.name) # {}
  PROVE  Kept
<1>1. FilesType /\ HaveEntries
  BY TypeFacts DEF SearchInv
<1>2. files'[b] = new /\ \A c \in Blocks \ {b} : files'[c] = files[c]
  BY <1>1, ReplacedIs
<1> QED  BY <1>1, <1>2 DEF Kept, SameNames, HaveEntries, HasEntry

LEMMA EntryThere ==
  ASSUME NEW d, NEW n, Look(dir[d], n) # Missing
  PROVE  At(dir[d], n) # {}
BY DEF Look

(* The open files written back, in whatever order and as far as ever.      *)
LEMMA SearchWriteBack ==
  ASSUME SearchInv, Searching, NEW o \in Orders, NEW m \in 0..Many,
         dir' = After(o)[m], files' = files \/ files' = Forgotten
  PROVE  Kept
<1>1. FilesType /\ Dirs(dir) /\ HaveEntries
  BY TypeFacts DEF SearchInv, TypeInv
<1>2. KeepsEntries(dir, dir') /\ SameNames(dir, dir')
  BY <1>1, AfterType
<1>3. CASE files' = Forgotten
  <2>1. \A b \in Blocks : ~ files'[b].dirty
    BY <1>3, FileFacts DEF Forgotten
  <2> QED  BY <1>2, <2>1 DEF Kept, HaveEntries, HasEntry
<1>4. CASE files' = files
  <2> SUFFICES ASSUME NEW c \in Blocks, files[c].dirty
               PROVE  At(dir'[files[c].disk], files[c].name) # {}
    BY <1>2, <1>4 DEF Kept, HaveEntries, HasEntry
  <2>1. At(dir[files[c].disk], files[c].name) # {}
    BY <1>1 DEF HaveEntries, HasEntry
  <2>2. files[c].disk \in Images /\ files[c].name \in Names
    BY <1>1, FileFacts DEF FilesType
  <2> QED  BY <1>2, <2>1, <2>2 DEF KeepsEntries
<1> QED  BY <1>3, <1>4

(* A step of the search itself.                                            *)
LEMMA SearchGoesOn ==
  ASSUME SearchInv, TypeInv', NEW on \in Images, NEW pat, NEW at \in Nat,
         NEW got \in Seq(Names), FoundIs(dir[on], pat, at, got),
         SearchFrom(on, pat, at, got), UNCHANGED <<dir, files>>,
         HaveEntries
  PROVE  SearchInv'
<1>1. Directory(on, dir[on])
  BY DEF SearchInv, TypeInv, Dirs
<1>2. Searching' =>
        /\ search'.on = on /\ search'.for = pat
        /\ FoundIs(dir[on], pat, search'.at, found')
  BY <1>1, SearchOneMore DEF Searching
<1>3. SearchFindsAll' <=>
        (Searching' => FoundIs(dir'[search'.on], search'.for, search'.at, found'))
  <2>1. FoundFact'
    BY FoundMeans, PTL
  <2> QED  BY <2>1 DEF FoundFact
<1>4. SearchFindsAll'
  BY <1>2, <1>3
<1>5. HaveEntries'
  BY DEF HaveEntries, HasEntry
<1> QED  BY <1>4, <1>5 DEF SearchInv

LEMMA StartSearch == Init => SearchInv
<1> SUFFICES ASSUME Init PROVE SearchInv
  OBVIOUS
<1>1. ~ Searching
  BY DEF Init, Searching
<1> QED  BY <1>1, StartTyped DEF SearchInv, SearchFindsAll

LEMMA StepSearch ==
  ASSUME Quiet, SearchInv, [Next]_vars
  PROVE  SearchInv'
<1>0. /\ TypeInv' /\ FilesType /\ Dirs(dir)
      /\ \A drv \in DriveBytes : FcbDisk(drv) \in Images
  BY StepTyped, TypeFacts DEF SearchInv, TypeInv
<1>1. ASSUME NEW b \in Blocks, NEW drv \in DriveBytes, NEW n \in Names,
             OpenOrRead(b, drv, n)
      PROVE  SearchInv'
  <2>1. UNCHANGED <<search, found>> /\ Replaced(b, Opened(b, drv, n))
    BY <1>1 DEF OpenOrRead, Replaced
  <2>2. Opened(b, drv, n) \in OpenFiles
    BY <1>0, OpenedIs
  <2>3. CASE Cached(b, drv, n)
    <3>1. files' = [files EXCEPT ![b] = files[b]] /\ dir' = dir
      BY <1>1, <2>3 DEF OpenOrRead, Opened, DirOpening
    <3>2. files' = files
      BY <1>0, <3>1 DEF FilesType
    <3>3. Searching => Kept
      BY <3>1, <3>2 DEF Kept, SameNames, HaveEntries, HasEntry, SearchInv
    <3> QED  BY <1>0, <2>1, <3>3, SearchKept
  <2>4. CASE ~ Cached(b, drv, n)
    <3>1. dir' = Flushed(dir, files[b])
      BY <1>1, <2>4 DEF OpenOrRead, DirOpening
    <3>2. ~ Opened(b, drv, n).dirty
      BY <1>0, <2>4, OpenedIs
    <3>3. Searching => Kept
      BY <2>1, <2>2, <3>1, <3>2, SearchFlush
    <3> QED  BY <1>0, <2>1, <3>3, SearchKept
  <2> QED  BY <2>3, <2>4
<1>2. ASSUME NEW b \in Blocks, NEW drv \in DriveBytes, NEW n \in Names,
             Create(b, drv, n)
      PROVE  SearchInv'
  <2> DEFINE d == FcbDisk(drv)
             new == File(n, << >>, d, TRUE)
  <2>1. UNCHANGED <<search, found>> /\ Replaced(b, new) /\ dir' = Flushed(dir, files[b])
    BY <1>2 DEF Create, Replaced
  <2>2. new \in OpenFiles
    <3>1. << >> \in Data /\ TRUE \in BOOLEAN
      BY DEF Data
    <3> QED  BY <1>0, <3>1, AnyFile
  <2>3. new.disk = d /\ new.name = n
    BY DEF File
  <2>4. Searching => At(dir[d], n) # {}
    BY <1>2, EntryThere DEF Create, MayMake, Quiet
  <2> HIDE DEF new, d
  <2>5. Searching => Kept
    BY <2>1, <2>2, <2>3, <2>4, SearchFlush
  <2> QED  BY <1>0, <2>1, <2>5, SearchKept
<1>3. ASSUME NEW b \in Blocks, NEW drv \in DriveBytes, NEW n \in Names,
             NEW pos \in Positions, NEW v \in Values, Write(b, drv, n, pos, v)
      PROVE  SearchInv'
  <2> DEFINE d == FcbDisk(drv)
             opened == Opened(b, drv, n)
             fl == Target(b, drv, n)
             new == File(fl.name, Put(fl.data, pos, v), fl.disk, TRUE)
  <2>1. UNCHANGED <<search, found>> /\ Replaced(b, new) /\ dir' = dir
    BY <1>3 DEF Write, Target, Replaced
  <2>2. fl \in OpenFiles /\ fl # Closed
    BY <1>0, TargetIs
  <2>3. opened # Closed => opened.disk = d /\ opened.name = n
    BY <1>0, OpenedIs
  <2>4. fl.disk = d /\ fl.name = n
    <3>1. files[b] # Closed => opened = files[b]
      BY <1>3 DEF Write, Quiet, Opened
    <3>2. /\ opened # Closed => fl = opened
          /\ opened = Closed => fl = File(n, << >>, d, TRUE)
      <4>1. CASE files[b] # Closed
        BY <3>1, <4>1 DEF Target
      <4>2. CASE files[b] = Closed
        BY <4>2 DEF Target
      <4> QED  BY <4>1, <4>2
    <3>3. File(n, << >>, d, TRUE).disk = d /\ File(n, << >>, d, TRUE).name = n
      BY DEF File
    <3> HIDE DEF fl, opened
    <3> QED  BY <2>3, <3>2, <3>3
  <2> HIDE DEF fl
  <2>5. new \in OpenFiles
    <3>1. fl.name \in Names /\ fl.data \in Data /\ fl.disk \in Images
      BY <2>2, FileFacts
    <3>2. Put(fl.data, pos, v) \in Data /\ TRUE \in BOOLEAN
      BY <3>1, PutIs
    <3> QED  BY <3>1, <3>2, AnyFile
  <2>6. new.disk = d /\ new.name = n
    BY <2>4 DEF File
  <2>7. Searching => At(dir[d], n) # {}
    BY <1>3, EntryThere DEF Write, MayMake, Quiet
  <2> HIDE DEF new, d
  <2>8. Searching => Kept
    BY <2>1, <2>5, <2>6, <2>7, SearchBlock
  <2> QED  BY <1>0, <2>1, <2>8, SearchKept
<1>4. ASSUME NEW b \in Blocks, Close(b) PROVE SearchInv'
  <2>1. UNCHANGED <<search, found>> /\ Replaced(b, Closed) /\ dir' = Flushed(dir, files[b])
    BY <1>4 DEF Close, Replaced
  <2>2. Searching => Kept
    BY <2>1, FileFacts, SearchFlush
  <2> QED  BY <1>0, <2>1, <2>2, SearchKept
<1>5. ASSUME NEW drv \in DriveBytes, NEW n \in Names, Delete(drv, n) PROVE SearchInv'
  <2>1. UNCHANGED <<search, found>> /\ ~ Searching
    BY <1>5 DEF Delete, Quiet
  <2> QED  BY <1>0, <2>1, SearchKept
<1>6. ASSUME NEW drv \in DriveBytes, NEW pat \in Patterns, SearchFirst(drv, pat)
      PROVE  SearchInv'
  <2>1. SearchFrom(FcbDisk(drv), pat, 0, << >>) /\ UNCHANGED <<dir, files>>
    BY <1>6 DEF SearchFirst
  <2>2. HaveEntries
    <3> SUFFICES ASSUME NEW b \in Blocks, files[b].dirty
                 PROVE  At(dir[files[b].disk], files[b].name) # {}
      BY DEF HaveEntries, HasEntry
    <3>1. b \in Open
      BY <1>0, FileFacts DEF FilesType, Open
    <3> QED  BY <1>6, <3>1 DEF SearchFirst, Quiet
  <2>3. FoundIs(dir[FcbDisk(drv)], pat, 0, << >>)
    <3>1. Hits(dir[FcbDisk(drv)], pat, 0) = {}
      BY DEF Hits
    <3>2. Cardinality({}) = 0
      BY FS_EmptySet
    <3>3. Len(Listed(dir[FcbDisk(drv)])) \in Nat
      BY <1>0, ListedIs DEF Dirs
    <3> DEFINE list == Listed(dir[FcbDisk(drv)])
    <3> HIDE DEF list
    <3>4. {<< >>[i] : i \in DOMAIN << >>} = {} /\ {list[i].name : i \in {}} = {}
          /\ Len(<< >>) = 0
      OBVIOUS
    <3>5. 0 <= Len(list)
      BY <3>3 DEF list
    <3> QED  BY <3>1, <3>2, <3>4, <3>5 DEF FoundIs, list
  <2>4. << >> \in Seq(Names) /\ 0 \in Nat
    OBVIOUS
  <2> QED  BY <1>0, <2>1, <2>2, <2>3, <2>4, SearchGoesOn
<1>7. ASSUME SearchNext PROVE SearchInv'
  <2>1. /\ SearchFrom(search.on, search.for, search.at, found) /\ UNCHANGED <<dir, files>>
        /\ Searching
    BY <1>7 DEF SearchNext
  <2>2. search.on \in Images /\ search.at \in Nat /\ found \in Seq(Names) /\ HaveEntries
    BY <2>1 DEF SearchInv, TypeInv, TypeOK
  <2>3. FoundIs(dir[search.on], search.for, search.at, found)
    BY <2>1, FoundMeans DEF FoundFact, SearchInv
  <2> QED  BY <1>0, <2>1, <2>2, <2>3, SearchGoesOn
<1>8. ASSUME UNCHANGED <<dir, files, search, found>> PROVE SearchInv'
  <2>1. Searching => Kept
    BY <1>8 DEF Kept, SameNames, HaveEntries, HasEntry, SearchInv
  <2> QED  BY <1>0, <1>8, <2>1, SearchKept
<1>9. ASSUME SwapNext(0) PROVE SearchInv'
  <2>1. PICK o \in Orders : dir' = After(o)[Many]
    BY <1>9 DEF SwapNext, Many
  <2>2. Many \in 0..Many
    BY OpenCount
  <2>3. UNCHANGED <<search, found>> /\ files' = Forgotten
    BY <1>9 DEF SwapNext
  <2>4. Searching => Kept
    BY <2>1, <2>2, <2>3, SearchWriteBack
  <2> QED  BY <1>0, <2>3, <2>4, SearchKept
<1>10. ASSUME Leave PROVE SearchInv'
  <2>1. PICK o \in Orders : dir' = After(o)[LeaveAt(o)]
    BY <1>10 DEF Leave, Many, LeaveAt
  <2>2. LeaveAt(o) \in 0..Many
    BY LeaveAtIs
  <2>3. UNCHANGED <<search, found>> /\ files' = files
    BY <1>10 DEF Leave
  <2>4. Searching => Kept
    BY <2>1, <2>2, <2>3, SearchWriteBack
  <2> QED  BY <1>0, <2>3, <2>4, SearchKept
<1>11. (\E dr \in Drives : SelectDrive(dr)) \/ Gone \/ UNCHANGED vars =>
         UNCHANGED <<dir, files, search, found>>
  BY DEF SelectDrive, Gone, vars
<1> QED  BY <1>1, <1>2, <1>3, <1>4, <1>5, <1>6, <1>7, <1>8, <1>9, <1>10, <1>11
        DEF Next, Call

(* Of a floppy of any size: a search that was not disturbed by a file made *)
(* or deleted has found each matching file behind its place in the         *)
(* directory, once, whatever was written, closed and swapped on the way    *)
(* (dosSearch).                                                            *)
THEOREM SearchesFindAll == ASSUME Quiet PROVE Spec => []SearchFindsAll
<1>1. SearchInv /\ [Next]_vars => SearchInv'
  BY StepSearch
<1>2. SearchInv => SearchFindsAll
  BY DEF SearchInv
<1> QED  BY <1>1, <1>2, StartSearch, PTL DEF Spec
=============================================================================
