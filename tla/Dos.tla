-------------------------------- MODULE Dos --------------------------------
(***************************************************************************)
(* The file calls of the disk operating system (dos.go) on a machine with  *)
(* one drive or two and floppies that are swapped (disks.go).  A file is   *)
(* named by a control block in the program's memory and remembered by the  *)
(* block's address: opening one reads it whole, writes change the copy,    *)
(* and the copy goes back to the floppy it came from when the block is     *)
(* closed or reused, when any floppy is swapped, and when the player       *)
(* leaves.                                                                 *)
(*                                                                         *)
(* What a block says, drive, name and record, is the program's to change   *)
(* between any two calls, so it is an input of each.  A floppy here is its *)
(* root directory in order, each entry with its contents: Disk models      *)
(* what is below, and a save fails here only when the directory is full.   *)
(***************************************************************************)
EXTENDS Integers, Sequences, FiniteSets

CONSTANTS
  NImages,    \* how many floppies the machine was given
  Room,       \* the directory entries of each
  Blocks,     \* the addresses of the program's control blocks
  Names,      \* the names it puts in them
  Values,     \* what it writes to a record
  Positions,  \* the records it reads and writes, from 0
  Patterns,   \* what it searches for
  DriveSets,  \* how many drives the machine may have
  Habits      \* what the program refrains from, of AllHabits

Images == 0..NImages - 1
AnyName == "????????.???"   \* the pattern of a listing

(* What a careful program does: it writes a file through one block at a    *)
(* time and reads it through no other meanwhile; it opens a block afresh   *)
(* when it has changed what the block names; it deletes no open file, and  *)
(* only from the drive selected; and between the calls of a search it      *)
(* makes no file and deletes none.  None asks for the next file when a     *)
(* search has ended.                                                       *)
AllHabits == {"oneWriter", "reopen", "closedDelete", "ownDrive", "quietSearch"}

ASSUME DosAssumption ==
  /\ NImages \in Nat \ {0}
  /\ Room \in [Images -> Nat]
  /\ AnyName \notin Names
  /\ Values \subseteq Nat /\ Positions \subseteq Nat
  /\ Patterns \subseteq Names \cup {AnyName}
  /\ DriveSets \subseteq {1, 2} /\ (2 \in DriveSets => NImages > 1)
  /\ Habits \subseteq AllHabits
  /\ IsFiniteSet(Blocks)

VARIABLES
  dir,        \* the directory of each floppy, its unused entries included
  inDrive,    \* the floppy in each drive
  curDrive,   \* the selected drive
  disk,       \* M.Disk
  files,      \* the open file of each block
  search,     \* searchOn, searchFor and searchAt
  home,       \* the image file of each floppy, as the player has it
  over,       \* the player has left
  found,      \* history: what the search in progress has found
  lost        \* history: a file could not be written back

vars == <<dir, inDrive, curDrive, disk, files, search, home, over, found,
          lost>>

Drives == DOMAIN inDrive

Missing == <<-1>>
NoEntry == [name |-> AnyName, data |-> Missing]
Entry(n, data) == [name |-> n, data |-> data]
Closed == [name |-> AnyName, data |-> Missing, disk |-> 0, dirty |-> FALSE]
File(n, data, d, dirty) == [name |-> n, data |-> data, disk |-> d, dirty |-> dirty]

Unsearched == [on |-> 0, for |-> AnyName, at |-> 0]
Searching == search # Unsearched

Least(S) == CHOOSE x \in S : \A y \in S : x <= y
Open == {b \in Blocks : files[b] # Closed}

-----------------------------------------------------------------------------
(* A floppy: Save, ReadAt and Files, of a directory dr.                    *)

At(dr, n) == {i \in DOMAIN dr : dr[i].name = n}
Look(dr, n) == IF At(dr, n) = {} THEN Missing ELSE dr[Least(At(dr, n))].data
Full(dr, n) == At(dr, n) = {} /\ At(dr, AnyName) = {}
(* Mutant of Saved: a file is written to a new entry when there is one.    *)
SavedAnew(dr, n, data) ==
  IF Full(dr, n) THEN dr
  ELSE [dr EXCEPT ![Least(IF At(dr, AnyName) # {} THEN At(dr, AnyName) ELSE At(dr, n))]
          = Entry(n, data)]
Saved(dr, n, data) ==
  IF Full(dr, n) THEN dr
  ELSE [dr EXCEPT ![Least(IF At(dr, n) # {} THEN At(dr, n) ELSE At(dr, AnyName))]
          = Entry(n, data)]
(* The files in the order of their entries.                                *)
Used(dr) == {i \in DOMAIN dr : dr[i] # NoEntry}
Nth(S, k) == CHOOSE i \in S : Cardinality({j \in S : j <= i}) = k
Listed(dr) == [k \in 1..Cardinality(Used(dr)) |-> dr[Nth(Used(dr), k)]]

Put(data, pos, v) ==
  [i \in 1..(IF pos < Len(data) THEN Len(data) ELSE pos + 1) |->
     IF i = pos + 1 THEN v ELSE IF i <= Len(data) THEN data[i] ELSE 0]

-----------------------------------------------------------------------------
(* fcbDisk: the floppy a block names, 0 for the selected drive.            *)
FcbDisk(drv) ==
  IF drv > 0 /\ drv - 1 \in Drives THEN inDrive[drv - 1] ELSE disk

(* dosFlush: a file goes back to the floppy it was opened on.              *)
(* Mutant of Flushed: to the floppy in the selected drive.                 *)
FlushedHere(ds, fl) ==
  IF fl.dirty THEN [ds EXCEPT ![disk] = Saved(ds[disk], fl.name, fl.data)] ELSE ds
Flushed(ds, fl) ==
  IF fl.dirty THEN [ds EXCEPT ![fl.disk] = Saved(ds[fl.disk], fl.name, fl.data)]
  ELSE ds
Fails(ds, fl) == fl.dirty /\ Full(ds[fl.disk], fl.name)

(* The open files written back one after another, as a map's iteration     *)
(* gives them: what the floppies hold after the first k.                   *)
Orders == {o \in [1..Cardinality(Open) -> Open] : \A b \in Open : \E i \in DOMAIN o : o[i] = b}
After(o) ==
  LET ds[k \in 0..Cardinality(Open)] ==
        IF k = 0 THEN dir ELSE Flushed(ds[k - 1], files[o[k]])
  IN ds
FailAt(o) == {k \in DOMAIN o : Fails(After(o)[k - 1], files[o[k]])}

Holds(b, d, n) == files[b] # Closed /\ files[b].disk = d /\ files[b].name = n

(* Mutant of Cached: the block's address is enough.                        *)
CachedByAddress(b, drv, n) == files[b] # Closed
Cached(b, drv, n) == Holds(b, FcbDisk(drv), n)

(* dosOpen: the file the block names, when it is not the one open in it,   *)
(* is read in its place; the old one goes back first.                      *)
DirOpening(b, drv, n) == IF Cached(b, drv, n) THEN dir ELSE Flushed(dir, files[b])
Opened(b, drv, n) ==
  LET data == Look(DirOpening(b, drv, n)[FcbDisk(drv)], n)
  IN IF Cached(b, drv, n) THEN files[b]
     ELSE IF data = Missing THEN Closed ELSE File(n, data, FcbDisk(drv), FALSE)
LostOpening(b, drv, n) == lost \/ (~ Cached(b, drv, n) /\ Fails(dir, files[b]))

-----------------------------------------------------------------------------
(* What a careful program checks before a call.                            *)

SoleReader(b, drv, n) ==
  "oneWriter" \in Habits =>
    \A c \in Blocks \ {b} : Holds(c, FcbDisk(drv), n) => ~ files[c].dirty
SoleWriter(b, drv, n) ==
  "oneWriter" \in Habits => \A c \in Blocks \ {b} : ~ Holds(c, FcbDisk(drv), n)
MayMake(drv, n) ==
  "quietSearch" \in Habits /\ Searching => Look(dir[FcbDisk(drv)], n) # Missing

-----------------------------------------------------------------------------

(* One file on the first floppy, and one of the same name on the second.   *)
Init ==
  /\ \E n \in Names :
       dir = [d \in Images |-> [i \in 1..Room[d] |->
                IF i = 1 THEN Entry(n, <<d>>) ELSE NoEntry]]
  /\ \E k \in DriveSets : inDrive = [dr \in 0..k - 1 |-> dr]
  /\ curDrive = 0 /\ disk = 0
  /\ files = [b \in Blocks |-> Closed]
  /\ search = Unsearched /\ found = << >>
  /\ home = dir /\ over = FALSE /\ lost = FALSE

(* 0Fh, 23h: open, and the file's size; 14h, 21h, 27h: a read, which ends  *)
(* with the record in the transfer address.                                *)
OpenOrRead(b, drv, n) ==
  /\ ~ over
  /\ SoleReader(b, drv, n)
  /\ dir' = DirOpening(b, drv, n)
  /\ files' = [files EXCEPT ![b] = Opened(b, drv, n)]
  /\ lost' = LostOpening(b, drv, n)
  /\ UNCHANGED <<inDrive, curDrive, disk, search, home, over, found>>

(* 15h, 22h, 26h: a write, to whatever file the block's address has open,  *)
(* or the one it names, or one that is made for it.                        *)
Write(b, drv, n, pos, v) ==
  LET opened == IF files[b] # Closed THEN files[b] ELSE Opened(b, drv, n)
      fl == IF opened # Closed THEN opened ELSE File(n, << >>, FcbDisk(drv), TRUE)
  IN /\ ~ over
     /\ "reopen" \in Habits => files[b] = Closed \/ Cached(b, drv, n)
     /\ SoleWriter(b, drv, n) /\ MayMake(drv, n)
     /\ files' = [files EXCEPT ![b] =
                    File(fl.name, Put(fl.data, pos, v), fl.disk, TRUE)]
     /\ UNCHANGED <<dir, inDrive, curDrive, disk, search, home, over,
                    found, lost>>

(* Mutant of Create: on the selected drive.                                *)
CreateHere(b, drv, n) ==
  /\ ~ over
  /\ SoleWriter(b, drv, n) /\ MayMake(drv, n)
  /\ dir' = Flushed(dir, files[b])
  /\ files' = [files EXCEPT ![b] = File(n, << >>, disk, TRUE)]
  /\ lost' = (lost \/ Fails(dir, files[b]))
  /\ UNCHANGED <<inDrive, curDrive, disk, search, home, over, found>>

(* 16h: create, in place of whatever was open in the block.                *)
Create(b, drv, n) ==
  /\ ~ over
  /\ SoleWriter(b, drv, n) /\ MayMake(drv, n)
  /\ dir' = Flushed(dir, files[b])
  /\ files' = [files EXCEPT ![b] = File(n, << >>, FcbDisk(drv), TRUE)]
  /\ lost' = (lost \/ Fails(dir, files[b]))
  /\ UNCHANGED <<inDrive, curDrive, disk, search, home, over, found>>

(* 10h: close.  The file is forgotten whether it could be written or not.  *)
Close(b) ==
  /\ ~ over
  /\ files[b] # Closed
  /\ dir' = Flushed(dir, files[b])
  /\ files' = [files EXCEPT ![b] = Closed]
  /\ lost' = (lost \/ Fails(dir, files[b]))
  /\ UNCHANGED <<inDrive, curDrive, disk, search, home, over, found>>

(* 13h: delete, from the selected drive.                                   *)
Delete(drv, n) ==
  /\ ~ over
  /\ "closedDelete" \in Habits => \A b \in Blocks : ~ Holds(b, disk, n)
  /\ "ownDrive" \in Habits => FcbDisk(drv) = disk
  /\ "quietSearch" \in Habits => ~ Searching
  /\ At(dir[disk], n) # {}
  /\ dir' = [dir EXCEPT ![disk][Least(At(dir[disk], n))] = NoEntry]
  /\ UNCHANGED <<inDrive, curDrive, disk, files, search, home, over,
                 found, lost>>

(* dosSearch: the next matching entry of the floppy the search began on,   *)
(* by its number among the files there now; a search that has ended is     *)
(* forgotten.                                                              *)
(* Mutant of NextAt: the entry found is looked at again.                   *)
NextAtSame(hits) == Least(hits) - 1
NextAt(hits) == Least(hits)

SearchFrom(on, pat, at, got) ==
  LET list == Listed(dir[on])
      hits == {i \in at + 1..Len(list) : pat \in {AnyName, list[i].name}}
  IN IF hits # {}
     THEN /\ search' = [on |-> on, for |-> pat, at |-> NextAt(hits)]
          /\ found' = Append(got, list[Least(hits)].name)
     ELSE search' = Unsearched /\ found' = << >>

(* 11h: find the first.                                                    *)
SearchFirst(drv, pat) ==
  /\ ~ over
  /\ "quietSearch" \in Habits =>
       \A b \in Open : files[b].dirty => ~ (At(dir[files[b].disk], files[b].name) = {})
  /\ SearchFrom(FcbDisk(drv), pat, 0, << >>)
  /\ UNCHANGED <<dir, inDrive, curDrive, disk, files, home, over, lost>>

(* 12h: and the next.                                                      *)
SearchNext ==
  /\ ~ over
  /\ Searching
  /\ SearchFrom(search.on, search.for, search.at, found)
  /\ UNCHANGED <<dir, inDrive, curDrive, disk, files, home, over, lost>>

-----------------------------------------------------------------------------

(* syncDisk: Disk is the floppy in the selected drive.                     *)
SelectDrive(dr) ==
  /\ ~ over
  /\ curDrive' = dr /\ disk' = inDrive[dr]
  /\ UNCHANGED <<dir, inDrive, files, search, home, over, found, lost>>

(* Mutant of Forgotten: the files of the selected floppy only.             *)
ForgottenHere == [b \in Blocks |-> IF files[b].disk = disk THEN Closed ELSE files[b]]
(* flushOpenFiles forgets every file.                                      *)
Forgotten == [b \in Blocks |-> Closed]

(* SwapNext, on the player's key: every open file goes back, in the order  *)
(* of a map, and the next floppy goes in the drive.                        *)
SwapNext(dr) ==
  /\ ~ over
  /\ NImages > 1
  /\ \E o \in Orders :
       /\ dir' = After(o)[Cardinality(Open)]
       /\ lost' = (lost \/ FailAt(o) # {})
  /\ files' = Forgotten
  /\ inDrive' = [inDrive EXCEPT ![dr] = (@ + 1) % NImages]
  /\ disk' = inDrive'[curDrive]
  /\ UNCHANGED <<curDrive, search, home, over, found>>

(* Mutant of Leave: the open files are left where they are.                *)
LeaveAtOnce ==
  /\ ~ over
  /\ home' = [home EXCEPT ![disk] = dir[disk]]
  /\ over' = TRUE
  /\ UNCHANGED <<dir, inDrive, curDrive, disk, files, search, found, lost>>

(* The player leaves: DOSFlushAll, up to the first error, and the floppy   *)
(* in the selected drive is written to its file.                           *)
Leave ==
  /\ ~ over
  /\ \E o \in Orders :
       /\ dir' = After(o)[IF FailAt(o) = {} THEN Cardinality(Open) ELSE Least(FailAt(o)) - 1]
       /\ lost' = (lost \/ FailAt(o) # {})
  /\ home' = [home EXCEPT ![disk] = dir'[disk]]
  /\ over' = TRUE
  /\ UNCHANGED <<inDrive, curDrive, disk, files, search, found>>

Gone == over /\ UNCHANGED vars

Call(b, drv, n) ==
  \/ OpenOrRead(b, drv, n)
  \/ Create(b, drv, n)
  \/ \E pos \in Positions, v \in Values : Write(b, drv, n, pos, v)

DriveBytes == 0..2   \* what a block says of its drive

Next ==
  \/ \E b \in Blocks, drv \in DriveBytes, n \in Names : Call(b, drv, n)
  \/ \E b \in Blocks : Close(b)
  \/ \E drv \in DriveBytes, n \in Names : Delete(drv, n)
  \/ \E drv \in DriveBytes, pat \in Patterns : SearchFirst(drv, pat)
  \/ SearchNext
  \/ \E dr \in Drives : SelectDrive(dr)
  \/ SwapNext(0)
  \/ Leave \/ Gone

Spec == Init /\ [][Next]_vars

-----------------------------------------------------------------------------
(* PROPERTIES                                                              *)

Data == Seq(Nat)
Entries == [name : Names, data : Data] \cup {NoEntry}
OpenFiles == [name : Names, data : Data, disk : Images, dirty : BOOLEAN] \cup {Closed}
Directory(d, dr) ==
  /\ dr \in [1..Room[d] -> Entries]
  /\ \A i, j \in 1..Room[d] : dr[i] # NoEntry /\ i # j => dr[i].name # dr[j].name

(* A name is in a directory once, whatever was saved over what.            *)
TypeOK ==
  /\ \A d \in Images : Directory(d, dir[d]) /\ Directory(d, home[d])
  /\ Drives \in {0..k - 1 : k \in DriveSets} /\ inDrive \in [Drives -> Images]
  /\ curDrive \in Drives /\ disk \in Images
  /\ files \in [Blocks -> OpenFiles]
  /\ search.on \in Images /\ search.for \in Patterns \cup {AnyName} /\ search.at \in Nat
  /\ over \in BOOLEAN /\ lost \in BOOLEAN
  /\ found \in Seq(Names)

(* What a file holds as far as the program knows: what it wrote to the     *)
(* open copy, or what is on the floppy.                                    *)
Writers(d, n) == {b \in Blocks : Holds(b, d, n) /\ files[b].dirty}
Contents ==
  [d \in Images |-> [n \in Names |->
     IF Writers(d, n) = {} THEN Look(dir[d], n)
     ELSE files[CHOOSE b \in Writers(d, n) : TRUE].data]]

Floppy == INSTANCE Floppies WITH files <- Contents

(* Files held whole and written back later are files written at once: no   *)
(* close, swap, reuse of a block or change of drive changes any file on    *)
(* any floppy, until one cannot be written back.                           *)
ImplementsFloppies == [][lost' \/ Floppy!Next]_<<lost, Contents>>

(* A write or a create lands in the file its block names, on the floppy    *)
(* its block names ("a file control block naming drive A or B gets that    *)
(* drive", README.md:94), and in no other.                                 *)
WritesLandWhereNamed ==
  [][\A b \in Blocks : files'[b].dirty /\ files'[b] # files[b] =>
       \A drv \in DriveBytes, n \in Names :
         IF files'[b].data = << >>
         THEN Create(b, drv, n) => lost' \/ Floppy!Create(FcbDisk(drv), n)
         ELSE \A pos \in Positions, v \in Values :
                Write(b, drv, n, pos, v) => Floppy!Write(FcbDisk(drv), n, pos, v)]_vars

(* What a read through a block finds is what was last written to the file  *)
(* the block names on the floppy that is in its drive now, through this    *)
(* block or another, before the last swap or after it.                     *)
ReadsAreCurrent ==
  ~ lost /\ ~ over =>
    \A b \in Blocks, drv \in DriveBytes, n \in Names :
      SoleReader(b, drv, n) /\ ~ Fails(dir, files[b]) =>
        Opened(b, drv, n).data = Contents[FcbDisk(drv)][n]

(* No file stays open on a floppy that was taken out, and Disk is the      *)
(* floppy in the selected drive.                                           *)
OpenOnMounted ==
  /\ disk = inDrive[curDrive]
  /\ \A b \in Open : \E dr \in Drives : inDrive[dr] = files[b].disk

(* A search has found, each once, the files that match among those its     *)
(* place in the directory is past, although files were written, closed and *)
(* floppies swapped on the way: run to its end it has found every one.     *)
SearchFindsAll ==
  Searching =>
    LET list == Listed(dir[search.on])
        hits == {i \in 1..search.at : search.for \in {AnyName, list[i].name}}
    IN search.at <= Len(list)
       /\ {found[i] : i \in DOMAIN found} = {list[i].name : i \in hits}
       /\ Len(found) = Cardinality(hits)

(* The floppy in the selected drive is kept as the program left it, open   *)
(* files included.                                                         *)
ExitKeepsSelected ==
  over /\ ~ lost => \A n \in Names : Look(home[disk], n) = Contents[disk][n]

(* What a program wrote is what it reads, and what the player finds.       *)
ContentsAreKept == TypeOK /\ ReadsAreCurrent /\ ExitKeepsSelected
=============================================================================
