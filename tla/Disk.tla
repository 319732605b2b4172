-------------------------------- MODULE Disk --------------------------------
(***************************************************************************)
(* A FAT12 floppy image (disk.go): the allocation table, the root          *)
(* directory and the data area, under Save, Delete and WriteSector.  A     *)
(* file is replaced whole: its old chain is freed, a new one allocated     *)
(* from the lowest free clusters, the contents written along it, and the   *)
(* directory entry rewritten.                                              *)
(*                                                                         *)
(* The unit of contents is a sector.  Names are as Save compares them,     *)
(* upper case and trimmed.  The packing of two entries in three bytes and  *)
(* the copies of the table are abstracted: fat is what next() reads.       *)
(***************************************************************************)
EXTENDS Integers, Sequences, FiniteSets

CONSTANTS
  NClusters,   \* how many clusters the image has room for
  Spc,         \* spc, sectors per cluster
  NDir,        \* ndir, entries in the root directory
  Names,       \* the names a program saves and deletes
  Contents,    \* what it saves: sequences of sectors
  Values,      \* what it writes to a sector
  RawSectors,  \* the sectors of the data area it writes by number
  Subdirs      \* how many clusters the image's subdirectory takes, 0 for none

ASSUME GeometryAssumption ==
  /\ NClusters \in Nat \ {0} /\ NClusters < 4078   \* 2..FEFh
  /\ Spc \in Nat \ {0} /\ NDir \in Nat \ {0}
Clusters == 2..NClusters + 1
Slots == 1..NDir
Sectors == 1..Spc
Unused == 0     \* the table entry of a free cluster
EndOfChain == 4095
NoName == "no name"
NoFile == <<-1>>

ASSUME UseAssumption ==
  /\ Values \subseteq Nat
  /\ \A d \in Contents : d \in Seq(Values)
  /\ Subdirs \subseteq 0..NClusters
  /\ RawSectors \subseteq Clusters \X Sectors
  /\ NoName \notin Names

VARIABLES
  fat,      \* the table: what follows each cluster
  root,     \* the directory entries
  content,  \* the sectors of each cluster
  dirty,    \* whether the image has been written to since it was mounted
  mounted,  \* history: the image as it was mounted
  torn      \* history: a replacement has failed on a full disk

image == <<fat, root, content>>
vars == <<fat, root, content, dirty, mounted, torn>>

Entry(kind, name, size, first) ==
  [kind |-> kind, name |-> name, size |-> size, first |-> first]
Never == Entry("never", NoName, 0, 0)
Deleted == Entry("deleted", NoName, 0, 0)

Least(S) == CHOOSE x \in S : \A y \in S : x <= y

-----------------------------------------------------------------------------
(* Chains.                                                                 *)

(* The clusters a walk from `first` visits: the least set that holds the   *)
(* first and whatever follows one of its own.                              *)
Closed(nx, S) == \A c \in S : nx[c] \in Clusters => nx[c] \in S
Chain(nx, first) ==
  {c \in Clusters :
     /\ first \in Clusters
     /\ \A S \in SUBSET Clusters : first \in S /\ Closed(nx, S) => c \in S}

(* The same clusters in their order, and 0 past the end.                   *)
Walk(nx, first) ==
  LET at[k \in 0..NClusters] ==
        IF k = 0 THEN first
        ELSE IF at[k - 1] \in Clusters THEN nx[at[k - 1]] ELSE 0
  IN at

(* free: every cluster of a chain becomes unused.                          *)
(* Mutant: the entry is read after it has been cleared.                    *)
FreedOne(nx, first) == [c \in Clusters |-> IF c = first THEN Unused ELSE nx[c]]
Freed(nx, first) ==
  [c \in Clusters |-> IF c \in Chain(nx, first) THEN Unused ELSE nx[c]]

(* alloc: the n lowest free clusters, in ascending order.                  *)
FreeIn(nx) == {c \in Clusters : nx[c] = Unused}
Lowest(n, S) == {c \in S : Cardinality({d \in S : d < c}) < n}

Follows(got, c, d) == c < d /\ \A e \in got : ~ (c < e /\ e < d)
Linked(nx, got) ==
  [c \in Clusters |->
     IF c \notin got THEN nx[c]
     ELSE IF \E d \in got : Follows(got, c, d)
          THEN CHOOSE d \in got : Follows(got, c, d)
          ELSE EndOfChain]
FirstOf(got) ==
  IF \E c \in got : \A d \in got : c <= d
  THEN CHOOSE c \in got : \A d \in got : c <= d ELSE 0

-----------------------------------------------------------------------------
(* The directory.                                                          *)

(* The entries a scan reaches: it stops at one never used.                 *)
Reached(i) == \A j \in 1..i - 1 : root[j].kind # "never"

Matches(n) ==
  {i \in Slots : Reached(i) /\ root[i].kind = "file" /\ root[i].name = n}

(* Mutant of Vacant: any entry free to be used will do.                    *)
VacantAnywhere == {i \in Slots : root[i].kind \in {"never", "deleted"}
                     /\ \A j \in Slots : root[j].kind \in {"never", "deleted"} => j <= i}
Vacant == {i \in Slots : Reached(i) /\ root[i].kind \in {"never", "deleted"}}

(* Mutant of Need: the last, partly filled cluster is forgotten.           *)
NeedFull(d) == Len(d) \div Spc
Need(d) == (Len(d) + Spc - 1) \div Spc

(* The contents put down along the chain that starts at `first`.           *)
Written(nx, first, d) ==
  LET at == Walk(nx, first)
      index(k, s) == (k * Spc) + s
  IN [c \in Clusters |-> [s \in Sectors |->
        IF \E k \in 0..NClusters - 1 : at[k] = c /\ index(k, s) <= Len(d)
        THEN d[index(Least({k \in 0..NClusters - 1 : at[k] = c}), s)]
        ELSE content[c][s]]]

(* Open: the sectors along the chain, up to the size.                      *)
Read(e) ==
  LET at == Walk(fat, e.first)
      held == Spc * Cardinality({k \in 0..NClusters - 1 : at[k] \in Clusters})
  IN [i \in 1..(IF e.size < held THEN e.size ELSE held) |->
        content[at[(i - 1) \div Spc]][((i - 1) % Spc) + 1]]

Open(n) == IF Matches(n) = {} THEN NoFile ELSE Read(root[Least(Matches(n))])

-----------------------------------------------------------------------------

(* An image as it is mounted: empty, or with a subdirectory in its first   *)
(* entry.                                                                  *)
Init ==
  /\ \E len \in Subdirs :
       /\ fat = [c \in Clusters |-> IF c > len + 1 THEN Unused
                                    ELSE IF c = len + 1 THEN EndOfChain
                                    ELSE c + 1]
       /\ root = [i \in Slots |-> IF i = 1 /\ len > 0
                                  THEN Entry("other", NoName, 0, 2) ELSE Never]
  /\ content = [c \in Clusters |-> [s \in Sectors |-> 0]]
  /\ dirty = FALSE
  /\ mounted = image /\ torn = FALSE

(* Mutant of FileEntry: an empty file goes on naming its old chain.        *)
FileEntryKeeps(i, n, d, first) ==
  Entry("file", n, Len(d), IF first = 0 THEN root[i].first ELSE first)
FileEntry(i, n, d, first) == Entry("file", n, Len(d), first)

(* Save into entry i, once the file's old chain, if there was one, is      *)
(* free.  A save with no entry for it, or of a new name that does not fit, *)
(* changes nothing.                                                        *)
SaveIn(i, freed, n, d) ==
  LET got   == Lowest(Need(d), FreeIn(freed))
      first == FirstOf(got)
  IN /\ Cardinality(FreeIn(freed)) >= Need(d)
     /\ fat' = Linked(freed, got)
     /\ content' = Written(fat', first, d)
     /\ root' = [root EXCEPT ![i] = FileEntry(i, n, d, first)]
     /\ dirty' = TRUE
     /\ UNCHANGED <<mounted, torn>>

Replace(n, d) ==
  /\ Matches(n) # {}
  /\ LET i == Least(Matches(n)) IN SaveIn(i, Freed(fat, root[i].first), n, d)

Create(n, d) ==
  /\ Matches(n) = {} /\ Vacant # {}
  /\ SaveIn(Least(Vacant), fat, n, d)

(* Save fails: the disk is full, and the file's old chain has gone.        *)
ReplaceFails(n, d) ==
  /\ Matches(n) # {}
  /\ LET first == root[Least(Matches(n))].first
         freed == Freed(fat, first)
     IN /\ Cardinality(FreeIn(freed)) < Need(d)
        /\ fat' = freed
        /\ dirty' = (dirty \/ first \in Clusters)
  /\ torn' = TRUE
  /\ UNCHANGED <<root, content, mounted>>

Delete(n) ==
  /\ Matches(n) # {}
  /\ LET i == Least(Matches(n))
     IN /\ fat' = Freed(fat, root[i].first)
        /\ root' = [root EXCEPT ![i] = Deleted]
  /\ dirty' = TRUE
  /\ UNCHANGED <<content, mounted, torn>>

(* Mutant of WriteSector: the image does not say it was written to.        *)
WriteSectorQuiet(c, s, v) ==
  /\ content' = [content EXCEPT ![c][s] = v]
  /\ UNCHANGED <<fat, root, dirty, mounted, torn>>
WriteSector(c, s, v) ==
  /\ content' = [content EXCEPT ![c][s] = v]
  /\ dirty' = TRUE
  /\ UNCHANGED <<fat, root, mounted, torn>>

Next ==
  \/ \E n \in Names : Delete(n)
  \/ \E n \in Names, d \in Contents : Replace(n, d) \/ Create(n, d) \/ ReplaceFails(n, d)
  \/ \E at \in RawSectors, v \in Values : WriteSector(at[1], at[2], v)

Spec == Init /\ [][Next]_vars

-----------------------------------------------------------------------------

Held(i) == root[i].kind \in {"file", "other"}

Entries ==
  [kind : {"file"}, name : Names, size : Nat, first : Clusters \cup {0}]
    \cup {Never, Deleted}
    \cup [kind : {"other"}, name : {NoName}, size : {0}, first : Clusters \cup {0}]

(* The image keeps its shape; in the directory the entries never used stay *)
(* together at the end, where every scan stops.                            *)
TypeOK ==
  /\ fat \in [Clusters -> Clusters \cup {Unused, EndOfChain}]
  /\ root \in [Slots -> Entries]
  /\ content \in [Clusters -> [Sectors -> Values \cup {0}]]
  /\ dirty \in BOOLEAN /\ torn \in BOOLEAN
  /\ \A i \in Slots : root[i].kind # "never" => Reached(i)

(* No two directory entries, subdirectories among them, share a cluster.   *)
FilesDisjoint ==
  \A i, j \in Slots : Held(i) /\ Held(j) /\ i # j =>
    Chain(fat, root[i].first) \cap Chain(fat, root[j].first) = {}

(* Every cluster an entry's chain visits is allocated, so that no later    *)
(* save writes over it.                                                    *)
ChainsAllocated ==
  \A i \in Slots : Held(i) => Chain(fat, root[i].first) \cap FreeIn(fat) = {}

(* Both hold from the mount on, whatever is saved and deleted in whatever  *)
(* order, unless a replacement fails on a full disk.                       *)
SoundUntilTorn == ~ torn => FilesDisjoint /\ ChainsAllocated

(* Every allocated cluster belongs to an entry, whether saves failed or    *)
(* not: a disk written to over and over does not fill up with clusters no  *)
(* file has.                                                               *)
NoClusterLost ==
  \A c \in Clusters : fat[c] # Unused =>
    \E i \in Slots : Held(i) /\ c \in Chain(fat, root[i].first)

(* An image that says it is clean is the image that was mounted: the       *)
(* harness writes back only the floppies that say they are not.            *)
CleanIsUnchanged == ~ dirty => image = mounted

(* What Open reads under each name is what FileStore says it holds, step   *)
(* by step, until a replacement fails.                                     *)
Store == INSTANCE FileStore WITH files <- [n \in Names |-> Open(n)]

ImplementsFileStore ==
  Store!Init /\ [][torn' \/ Store!Next]_<<torn, [n \in Names |-> Open(n)]>>

(* Whatever fails: every cluster in use is reachable from the directory,   *)
(* and what was written is remembered as written.                          *)
NothingLost == TypeOK /\ NoClusterLost /\ CleanIsUnchanged
=============================================================================
