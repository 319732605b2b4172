----------------------------- MODULE DiskProof -----------------------------
(***************************************************************************)
(* A floppy of any size, whatever is saved and deleted in whatever order.  *)
(*                                                                         *)
(* Files never share a cluster, until a replacement fails.  The argument   *)
(* is local: no chain is followed from end to end.  In a sound table no    *)
(* two clusters are followed by the same one, what follows a cluster is    *)
(* allocated, and the first cluster of a file follows none and is no other *)
(* file's first.  Freeing a chain and linking a new one keep that; and two *)
(* chains that met would have to meet for the first time at a cluster with *)
(* two predecessors.                                                       *)
(*                                                                         *)
(* No cluster is lost, failures or not: a chain is the least closed set,   *)
(* so what freeing or linking leaves of another one is read off that.      *)
(*                                                                         *)
(* And the floppy is a store of files by name (FileStore).  A walk along a *)
(* file's chain comes to no cluster twice, so what Save put down at each   *)
(* step is what Open finds there; and the chain of every other file is     *)
(* where it was, in the table and in the data area.                        *)
(***************************************************************************)
EXTENDS Disk, WellFoundedInduction, FiniteSetTheorems, TLAPS

TableType(nx) == nx \in [Clusters -> Clusters \cup {Unused, EndOfChain}]

(* No two clusters are followed by one; what follows a cluster is in use.  *)
OneBefore(nx) ==
  \A c, d \in Clusters : nx[c] \in Clusters /\ nx[c] = nx[d] => c = d
Backed(nx) == \A c \in Clusters : nx[c] \in Clusters => nx[nx[c]] # Unused
Table(nx) == TableType(nx) /\ OneBefore(nx) /\ Backed(nx)

(* A first cluster is in use and follows none.                             *)
IsHead(nx, h) ==
  h \in Clusters => nx[h] # Unused /\ \A c \in Clusters : nx[c] # h

LEMMA ClusterNumbers ==
  Clusters \subseteq Nat /\ Unused \notin Clusters /\ EndOfChain \notin Clusters
  /\ EndOfChain # Unused
  BY GeometryAssumption DEF Clusters, Unused, EndOfChain

(* The least of some numbers is one of them.                               *)
LEMMA LeastIn ==
  ASSUME NEW S \in SUBSET Nat, S # {}
  PROVE  Least(S) \in S /\ \A y \in S : Least(S) <= y
<1>1. PICK x \in S : \A y \in S : ~ (<<y, x>> \in OpToRel(<, Nat))
  BY NatLessThanWellFounded, WFMin, Zenon
<1>2. \A y \in S : ~ (y < x)
  <2> SUFFICES ASSUME NEW y \in S, y < x PROVE FALSE
    OBVIOUS
  <2>1. y \in Nat /\ x \in Nat
    OBVIOUS
  <2>2. <<y, x>> \in OpToRel(<, Nat)
    BY <2>1, Zenon DEF OpToRel
  <2> QED  BY <1>1, <2>2
<1>3. \A y \in S : x <= y
  BY <1>2
<1> QED  BY <1>3 DEF Least

-----------------------------------------------------------------------------
(* A chain holds its first cluster, is closed, and is the least that is.   *)
LEMMA ChainClosed ==
  ASSUME NEW nx, NEW f \in Clusters
  PROVE  f \in Chain(nx, f) /\ Closed(nx, Chain(nx, f))
<1>1. f \in Chain(nx, f)
  BY DEF Chain
<1>2. ASSUME NEW c \in Chain(nx, f), nx[c] \in Clusters
      PROVE  nx[c] \in Chain(nx, f)
  <2>1. ASSUME NEW S \in SUBSET Clusters, f \in S, Closed(nx, S)
        PROVE  nx[c] \in S
    BY <1>2, <2>1 DEF Chain, Closed
  <2> QED  BY <1>2, <2>1 DEF Chain
<1> QED  BY <1>1, <1>2 DEF Closed

LEMMA ChainLeast ==
  ASSUME NEW nx, NEW f, NEW S \in SUBSET Clusters, f \in S, Closed(nx, S)
  PROVE  Chain(nx, f) \subseteq S
  BY DEF Chain

LEMMA ChainType ==
  ASSUME NEW nx, NEW f
  PROVE  Chain(nx, f) \subseteq Clusters /\ (f \notin Clusters => Chain(nx, f) = {})
  BY DEF Chain

(* Whatever a chain holds but its first follows something the chain holds. *)
LEMMA ChainStep ==
  ASSUME NEW nx, NEW f, NEW e \in Chain(nx, f), e # f
  PROVE  \E b \in Chain(nx, f) : nx[b] = e
<1> SUFFICES ASSUME \A b \in Chain(nx, f) : nx[b] # e PROVE FALSE
  OBVIOUS
<1> DEFINE S == Chain(nx, f) \ {e}
<1>1. f \in Clusters
  BY ChainType
<1>2. f \in S /\ S \in SUBSET Clusters
  BY <1>1, ChainClosed, ChainType
<1>3. Closed(nx, S)
  BY <1>1, ChainClosed DEF Closed
<1>4. Chain(nx, f) \subseteq S
  BY <1>2, <1>3, ChainLeast
<1> QED  BY <1>4

(* In a sound table every cluster of a chain is in use.                    *)
LEMMA ChainInUse ==
  ASSUME NEW nx, Table(nx), NEW f, IsHead(nx, f)
  PROVE  \A c \in Chain(nx, f) : nx[c] # Unused
<1> DEFINE S == {c \in Chain(nx, f) : nx[c] # Unused}
<1>1. CASE f \in Clusters
  <2>1. f \in S /\ S \in SUBSET Clusters
    BY <1>1, ChainClosed, ChainType DEF IsHead
  <2>2. Closed(nx, S)
    BY <1>1, ChainClosed, ChainType DEF Closed, Table, Backed
  <2>3. Chain(nx, f) \subseteq S
    BY <2>1, <2>2, ChainLeast
  <2> QED  BY <2>3
<1>2. CASE f \notin Clusters
  BY <1>2, ChainType
<1> QED  BY <1>1, <1>2

(* In a sound table chains with different first clusters are disjoint.     *)
LEMMA ChainsApart ==
  ASSUME NEW nx, Table(nx), NEW f, NEW g, IsHead(nx, f), IsHead(nx, g),
         f \in Clusters => f # g
  PROVE  Chain(nx, f) \cap Chain(nx, g) = {}
<1>1. CASE f \in Clusters /\ g \in Clusters
  <2> DEFINE S == Chain(nx, f) \ Chain(nx, g)
  <2>1. f \in S
    <3>1. f \in Chain(nx, f)
      BY <1>1, ChainClosed
    <3>2. f \notin Chain(nx, g)
      BY <1>1, ChainStep, ChainType DEF IsHead
    <3> QED  BY <3>1, <3>2
  <2>2. ASSUME NEW c \in S, nx[c] \in Clusters PROVE nx[c] \in S
    <3>1. c \in Clusters /\ nx[c] \in Chain(nx, f)
      BY <1>1, <2>2, ChainClosed, ChainType DEF Closed
    <3>2. nx[c] # g
      BY <1>1, <3>1 DEF IsHead
    <3>3. nx[c] \notin Chain(nx, g)
      <4> SUFFICES ASSUME nx[c] \in Chain(nx, g) PROVE FALSE
        OBVIOUS
      <4>1. PICK b \in Chain(nx, g) : nx[b] = nx[c]
        BY <3>2, ChainStep
      <4>2. b = c
        BY <2>2, <3>1, <4>1, ChainType DEF Table, OneBefore
      <4> QED  BY <4>1, <4>2
    <3> QED  BY <3>1, <3>3
  <2>3. S \in SUBSET Clusters /\ Closed(nx, S)
    BY <2>2, ChainType DEF Closed
  <2>4. Chain(nx, f) \subseteq S
    BY <2>1, <2>3, ChainLeast
  <2> QED  BY <2>4
<1>2. CASE ~ (f \in Clusters /\ g \in Clusters)
  BY <1>2, ChainType
<1> QED  BY <1>1, <1>2

-----------------------------------------------------------------------------
(* free: a whole chain leaves a sound table sound, and every other file    *)
(* its first cluster.                                                      *)
LEMMA FreedSound ==
  ASSUME NEW nx, Table(nx), NEW f, IsHead(nx, f)
  PROVE  /\ Table(Freed(nx, f))
         /\ \A h : IsHead(nx, h) /\ (h \in Clusters => h # f) => IsHead(Freed(nx, f), h)
<1> DEFINE fr == Freed(nx, f)
           ch == Chain(nx, f)
<1>0. /\ fr = [c \in Clusters |-> IF c \in ch THEN Unused ELSE nx[c]]
      /\ TableType(nx) /\ OneBefore(nx) /\ Backed(nx) /\ ch \subseteq Clusters
  BY ChainType DEF Freed, Table
<1>a. \A c \in Clusters : fr[c] = IF c \in ch THEN Unused ELSE nx[c]
  BY <1>0
<1>1. TableType(fr)
  BY <1>0 DEF TableType
<1>2. OneBefore(fr)
  BY <1>0, <1>a, ClusterNumbers DEF OneBefore
<1>3. ASSUME NEW c \in Clusters, c \notin ch, nx[c] \in Clusters
      PROVE  nx[c] \notin ch
  <2> SUFFICES ASSUME nx[c] \in ch PROVE FALSE
    OBVIOUS
  <2>1. nx[c] # f
    BY <1>3 DEF IsHead
  <2>2. PICK b \in ch : nx[b] = nx[c]
    BY <2>1, ChainStep
  <2>3. b = c
    BY <1>0, <1>3, <2>2 DEF OneBefore
  <2> QED  BY <1>3, <2>2, <2>3
<1>4. Backed(fr)
  <2> SUFFICES ASSUME NEW c \in Clusters, fr[c] \in Clusters PROVE fr[fr[c]] # Unused
    BY DEF Backed
  <2>1. c \notin ch /\ fr[c] = nx[c]
    BY <1>a, ClusterNumbers
  <2>2. nx[c] \notin ch /\ nx[nx[c]] # Unused
    BY <1>0, <1>3, <2>1 DEF Backed
  <2> QED  BY <1>a, <2>1, <2>2
<1>5. ASSUME NEW h, IsHead(nx, h), h \in Clusters => h # f PROVE IsHead(fr, h)
  <2> SUFFICES ASSUME h \in Clusters PROVE fr[h] # Unused /\ \A c \in Clusters : fr[c] # h
    BY DEF IsHead
  <2>1. nx[h] # Unused /\ \A c \in Clusters : nx[c] # h
    BY <1>5 DEF IsHead
  <2>2. h \notin ch
    BY <1>0, <1>5, <2>1, ChainStep
  <2> QED  BY <1>a, <2>1, <2>2, ClusterNumbers
<1> HIDE DEF fr
<1> QED  BY <1>1, <1>2, <1>4, <1>5 DEF Table, fr

(* alloc: clusters that were free, linked in ascending order, leave a      *)
(* sound table sound; the first of them is a first cluster, and no other   *)
(* file's.                                                                 *)
LEMMA LinkedSound ==
  ASSUME NEW nx, Table(nx), NEW got, got \subseteq FreeIn(nx)
  PROVE  /\ Table(Linked(nx, got))
         /\ IsHead(Linked(nx, got), FirstOf(got))
         /\ FirstOf(got) \in Clusters \cup {0}
         /\ \A h : IsHead(nx, h) /\ h \in Clusters =>
                     IsHead(Linked(nx, got), h) /\ h # FirstOf(got)
<1> DEFINE li == Linked(nx, got)
           f  == FirstOf(got)
<1>0. /\ TableType(nx) /\ OneBefore(nx) /\ Backed(nx)
      /\ got \subseteq Clusters /\ \A c \in got : nx[c] = Unused
  BY DEF Table, FreeIn
<1>1. \A c \in Clusters \ got : li[c] = nx[c]
  BY DEF Linked
<1>2. ASSUME NEW c \in got
      PROVE  li[c] = EndOfChain \/ (li[c] \in got /\ Follows(got, c, li[c]))
  <2>1. CASE \E d \in got : Follows(got, c, d)
    <3>1. li[c] = CHOOSE d \in got : Follows(got, c, d)
      BY <1>0, <2>1 DEF Linked
    <3> QED  BY <2>1, <3>1
  <2>2. CASE ~ \E d \in got : Follows(got, c, d)
    <3>1. li[c] = EndOfChain
      BY <1>0, <2>2 DEF Linked
    <3> QED  BY <3>1
  <2> QED  BY <2>1, <2>2
<1>3. f = 0 \/ (f \in got /\ \A d \in got : f <= d)
  BY DEF FirstOf
<1>4. \A c \in Clusters \ got : nx[c] \in Clusters => nx[c] \notin got
  BY <1>0 DEF Backed
<1> USE ClusterNumbers
<1>5. TableType(li)
  <2>1. li = [c \in Clusters |-> li[c]]
    BY DEF Linked
  <2>2. \A c \in Clusters : li[c] \in Clusters \cup {Unused, EndOfChain}
    BY <1>0, <1>1, <1>2 DEF TableType
  <2> HIDE DEF li
  <2> QED  BY <2>1, <2>2 DEF TableType
<1> HIDE DEF li, f
<1>6. OneBefore(li)
  <2> SUFFICES ASSUME NEW c \in Clusters, NEW d \in Clusters,
                      li[c] \in Clusters, li[c] = li[d], c # d
               PROVE  FALSE
    BY DEF OneBefore
  <2>1. CASE c \in got /\ d \in got
    <3>1. Follows(got, c, li[c]) /\ Follows(got, d, li[c])
      BY <1>2, <2>1
    <3>2. c \in Nat /\ d \in Nat
      OBVIOUS
    <3> QED  BY <2>1, <3>1, <3>2 DEF Follows
  <2>2. CASE c \notin got /\ d \notin got
    BY <1>0, <1>1, <2>2 DEF OneBefore
  <2>3. CASE c \in got /\ d \notin got
    BY <1>1, <1>2, <1>4, <2>3
  <2>4. CASE c \notin got /\ d \in got
    BY <1>1, <1>2, <1>4, <2>4
  <2> QED  BY <2>1, <2>2, <2>3, <2>4
<1>7. Backed(li)
  <2> SUFFICES ASSUME NEW c \in Clusters, li[c] \in Clusters PROVE li[li[c]] # Unused
    BY DEF Backed
  <2>1. CASE c \in got
    BY <1>0, <1>2, <2>1
  <2>2. CASE c \notin got
    <3>1. nx[nx[c]] # Unused /\ nx[c] \notin got /\ li[c] = nx[c]
      BY <1>0, <1>1, <1>4, <2>2 DEF Backed
    <3> QED  BY <1>1, <3>1
  <2> QED  BY <2>1, <2>2
<1>8. IsHead(li, f)
  <2> SUFFICES ASSUME f \in Clusters
               PROVE  li[f] # Unused /\ \A c \in Clusters : li[c] # f
    BY DEF IsHead
  <2>1. f \in got /\ (\A d \in got : f <= d) /\ f \in Nat
    BY <1>3 DEF Unused
  <2>2. li[f] # Unused
    BY <1>0, <1>2, <2>1
  <2>3. ASSUME NEW c \in got PROVE li[c] # f
    <3>1. c \in Nat /\ f <= c
      BY <1>0, <2>1
    <3> QED  BY <1>2, <2>1, <3>1 DEF Follows
  <2>4. \A c \in Clusters \ got : li[c] # f
    BY <1>1, <1>4, <2>1
  <2> QED  BY <2>2, <2>3, <2>4
<1>9. f \in Clusters \cup {0}
  BY <1>0, <1>3
<1>10. ASSUME NEW h, IsHead(nx, h), h \in Clusters PROVE IsHead(li, h) /\ h # f
  <2>1. nx[h] # Unused /\ (\A c \in Clusters : nx[c] # h) /\ h \notin got
    BY <1>0, <1>10 DEF IsHead
  <2>2. h # f
    BY <1>3, <1>10, <2>1 DEF Unused
  <2>3. li[h] # Unused
    BY <1>1, <1>10, <2>1
  <2>4. \A c \in Clusters : li[c] # h
    BY <1>1, <1>2, <1>10, <2>1
  <2> QED  BY <2>2, <2>3, <2>4 DEF IsHead
<1> QED  BY <1>5, <1>6, <1>7, <1>8, <1>9, <1>10 DEF Table, li, f

-----------------------------------------------------------------------------
(* The inductive invariant: the table and the directory keep their types,  *)
(* and until a replacement fails the table is sound and every entry has a  *)
(* first cluster of its own.                                               *)
Shape ==
  /\ TableType(fat)
  /\ root \in [Slots -> Entries]
  /\ torn \in BOOLEAN
Heads ==
  /\ \A i \in Slots : Held(i) => IsHead(fat, root[i].first)
  /\ \A i, j \in Slots :
       Held(i) /\ Held(j) /\ i # j /\ root[i].first \in Clusters =>
         root[i].first # root[j].first
Sound == Table(fat) /\ Heads
IInv == Shape /\ (~ torn => Sound)

LEMMA MatchesSlot ==
  ASSUME NEW n, Matches(n) # {}
  PROVE  LET i == Least(Matches(n))
         IN i \in Slots /\ root[i].kind = "file"
<1>1. Matches(n) \in SUBSET Nat
  BY DEF Matches, Slots
<1>2. Least(Matches(n)) \in Matches(n)
  BY <1>1, LeastIn
<1> QED  BY <1>2 DEF Matches

LEMMA VacantSlot ==
  ASSUME Vacant # {}
  PROVE  LET i == Least(Vacant)
         IN i \in Slots /\ root[i].kind \in {"never", "deleted"}
<1>1. Vacant \in SUBSET Nat
  BY DEF Vacant, Slots
<1>2. Least(Vacant) \in Vacant
  BY <1>1, LeastIn
<1> QED  BY <1>2 DEF Vacant

(* The type of the tables, sound or not.                                   *)
LEMMA FreedType ==
  ASSUME NEW nx, TableType(nx), NEW f PROVE TableType(Freed(nx, f))
  BY DEF TableType, Freed

LEMMA LinkedType ==
  ASSUME NEW nx, TableType(nx), NEW got, got \subseteq FreeIn(nx)
  PROVE  TableType(Linked(nx, got)) /\ FirstOf(got) \in Clusters \cup {0}
<1>1. got \subseteq Clusters
  BY DEF FreeIn
<1>2. ASSUME NEW c \in Clusters
      PROVE  Linked(nx, got)[c] \in Clusters \cup {Unused, EndOfChain}
  <2>1. CASE c \notin got
    BY <2>1 DEF Linked, TableType
  <2>2. CASE c \in got /\ \E d \in got : Follows(got, c, d)
    BY <1>1, <2>2 DEF Linked
  <2>3. CASE c \in got /\ ~ \E d \in got : Follows(got, c, d)
    BY <1>1, <2>3 DEF Linked
  <2> QED  BY <2>1, <2>2, <2>3
<1>3. Linked(nx, got) = [c \in Clusters |-> Linked(nx, got)[c]]
  BY DEF Linked
<1>4. FirstOf(got) \in Clusters \cup {0}
  BY <1>1 DEF FirstOf
<1> QED  BY <1>2, <1>3, <1>4 DEF TableType

LEMMA LowestFree ==
  ASSUME NEW n, NEW nx PROVE Lowest(n, FreeIn(nx)) \subseteq FreeIn(nx)
  BY DEF Lowest

(* Save into entry i, whose old chain has been freed.                      *)
LEMMA SaveStep ==
  ASSUME IInv, NEW i \in Slots, NEW nx, TableType(nx),
         ~ torn => /\ Table(nx)
                   /\ \A j \in Slots : Held(j) /\ j # i => IsHead(nx, root[j].first),
         NEW n \in Names, NEW d \in Contents, SaveIn(i, nx, n, d)
  PROVE  IInv'
<1> DEFINE got == Lowest(Need(d), FreeIn(nx))
           f   == FirstOf(got)
<1>1. /\ fat' = Linked(nx, got)
      /\ root' = [root EXCEPT ![i] = FileEntry(i, n, d, f)]
      /\ torn' = torn
  BY DEF SaveIn
<1>2. got \subseteq FreeIn(nx)
  BY LowestFree
<1> HIDE DEF got
<1>3. TableType(fat') /\ f \in Clusters \cup {0}
  BY <1>1, <1>2, LinkedType
<1>4. FileEntry(i, n, d, f) \in Entries
  <2>1. Len(d) \in Nat
    BY UseAssumption
  <2> HIDE DEF f
  <2> QED  BY <1>3, <2>1 DEF FileEntry, Entry, Entries
<1>5. /\ root \in [Slots -> Entries] /\ torn \in BOOLEAN
      /\ root'[i].first = f
      /\ \A j \in Slots \ {i} : root'[j] = root[j]
  BY <1>1 DEF IInv, Shape, FileEntry, Entry
<1>6. Shape'
  BY <1>1, <1>3, <1>4, <1>5 DEF Shape
<1>7. ASSUME ~ torn PROVE Sound'
  <2>1. /\ Table(nx) /\ Heads
        /\ \A j \in Slots : Held(j) /\ j # i => IsHead(nx, root[j].first)
    BY <1>7 DEF IInv, Sound
  <2>2. /\ Table(fat') /\ IsHead(fat', f)
        /\ \A h : IsHead(nx, h) /\ h \in Clusters => IsHead(fat', h) /\ h # f
    BY <1>1, <1>2, <2>1, LinkedSound
  <2> HIDE DEF f
  <2>3. \A j \in Slots \ {i} : Held(j)' <=> Held(j)
    BY <1>5 DEF Held
  <2>4. ASSUME NEW j \in Slots, Held(j)' PROVE IsHead(fat', root'[j].first)
    <3>1. CASE j = i
      BY <1>5, <2>2, <3>1
    <3>2. CASE j # i
      <4>1. IsHead(nx, root[j].first) /\ root'[j].first = root[j].first
        BY <1>5, <2>1, <2>3, <2>4, <3>2
      <4> QED  BY <2>2, <4>1 DEF IsHead
    <3> QED  BY <3>1, <3>2
  <2>5. ASSUME NEW j \in Slots, NEW k \in Slots, Held(j)', Held(k)', j # k,
               root'[j].first \in Clusters
        PROVE  root'[j].first # root'[k].first
    <3>1. CASE j # i /\ k # i
      BY <1>5, <2>1, <2>3, <2>5, <3>1 DEF Heads
    <3>2. ASSUME NEW m \in Slots \ {i}, Held(m)', root'[m].first \in Clusters
          PROVE  root'[m].first # f
      BY <1>5, <2>1, <2>2, <2>3, <3>2
    <3>3. CASE j = i
      BY <1>5, <2>5, <3>2, <3>3
    <3>4. CASE k = i
      BY <1>5, <2>5, <3>2, <3>4
    <3> QED  BY <3>1, <3>3, <3>4
  <2> QED  BY <2>2, <2>4, <2>5 DEF Sound, Heads
<1> QED  BY <1>1, <1>6, <1>7 DEF IInv

LEMMA InitSound == Init => IInv
<1> SUFFICES ASSUME Init PROVE IInv
  OBVIOUS
<1>1. PICK len \in Subdirs :
        /\ fat = [c \in Clusters |-> IF c > len + 1 THEN Unused
                                     ELSE IF c = len + 1 THEN EndOfChain
                                     ELSE c + 1]
        /\ root = [i \in Slots |-> IF i = 1 /\ len > 0
                                   THEN Entry("other", NoName, 0, 2) ELSE Never]
  BY DEF Init
<1>2. len \in Nat /\ len <= NClusters /\ NClusters \in Nat
  BY UseAssumption, GeometryAssumption
<1>3. Clusters = 2..NClusters + 1 /\ Unused = 0 /\ EndOfChain = 4095
      /\ NClusters + 1 < 4095
  BY GeometryAssumption DEF Clusters, Unused, EndOfChain
<1>a. \A c \in Clusters : fat[c] = IF c > len + 1 THEN Unused
                                   ELSE IF c = len + 1 THEN EndOfChain ELSE c + 1
  BY <1>1
<1>b. \A i \in Slots : root[i] = IF i = 1 /\ len > 0
                                 THEN Entry("other", NoName, 0, 2) ELSE Never
  BY <1>1
<1>c. Entry("other", NoName, 0, 2) \in Entries \/ len = 0
  BY <1>2, <1>3 DEF Entry, Entries
<1>4. Shape
  <2>1. \A c \in Clusters : fat[c] \in Clusters \cup {Unused, EndOfChain}
    BY <1>a, <1>2, <1>3
  <2>2. TableType(fat)
    BY <1>1, <2>1 DEF TableType
  <2>3. \A i \in Slots : root[i] \in Entries
    BY <1>b, <1>c, <1>2 DEF Entries
  <2> QED  BY <1>1, <2>2, <2>3 DEF Shape, Init
<1>5. OneBefore(fat)
  BY <1>a, <1>2, <1>3 DEF OneBefore
<1>6. Backed(fat)
  BY <1>a, <1>2, <1>3 DEF Backed
<1>7. ASSUME NEW i \in Slots, Held(i)
      PROVE  i = 1 /\ len > 0 /\ root[i].first = 2
  BY <1>b, <1>7 DEF Held, Entry, Never
<1>8. len > 0 => IsHead(fat, 2)
  BY <1>a, <1>2, <1>3 DEF IsHead
<1>9. Heads
  BY <1>7, <1>8 DEF Heads
<1> QED  BY <1>4, <1>5, <1>6, <1>9 DEF IInv, Sound, Table, Shape

(* A file's own chain, freed, leaves the others their first clusters.      *)
LEMMA FreedOthers ==
  ASSUME IInv, NEW i \in Slots, Held(i)
  PROVE  /\ TableType(Freed(fat, root[i].first))
         /\ ~ torn =>
              /\ Table(Freed(fat, root[i].first))
              /\ \A j \in Slots : Held(j) /\ j # i =>
                   IsHead(Freed(fat, root[i].first), root[j].first)
<1>1. TableType(Freed(fat, root[i].first))
  BY FreedType DEF IInv, Shape
<1>2. ASSUME ~ torn
      PROVE  /\ Table(Freed(fat, root[i].first))
             /\ \A j \in Slots : Held(j) /\ j # i =>
                  IsHead(Freed(fat, root[i].first), root[j].first)
  <2>1. Table(fat) /\ Heads
    BY <1>2 DEF IInv, Sound
  <2>2. IsHead(fat, root[i].first)
    BY <2>1 DEF Heads
  <2>3. \A j \in Slots : Held(j) /\ j # i =>
          /\ IsHead(fat, root[j].first)
          /\ root[j].first \in Clusters => root[j].first # root[i].first
    BY <2>1 DEF Heads
  <2> QED  BY <2>1, <2>2, <2>3, FreedSound
<1> QED  BY <1>1, <1>2

LEMMA DeleteStep == ASSUME IInv, NEW n \in Names, Delete(n) PROVE IInv'
<1> DEFINE i == Least(Matches(n))
<1>1. i \in Slots /\ Held(i)
  BY MatchesSlot DEF Delete, Held
<1>2. /\ fat' = Freed(fat, root[i].first) /\ torn' = torn
      /\ root' = [root EXCEPT ![i] = Deleted]
  BY DEF Delete
<1> HIDE DEF i
<1>3. Shape'
  BY <1>1, <1>2, FreedOthers DEF IInv, Shape, Entries
<1>4. \A j \in Slots : Held(j)' => j # i /\ Held(j) /\ root'[j] = root[j]
  BY <1>1, <1>2 DEF IInv, Shape, Held, Deleted, Entry
<1>5. ~ torn => Sound'
  BY <1>1, <1>2, <1>4, FreedOthers DEF IInv, Sound, Heads
<1> QED  BY <1>2, <1>3, <1>5 DEF IInv

LEMMA NextStep == IInv /\ [Next]_vars => IInv'
<1> SUFFICES ASSUME IInv, [Next]_vars PROVE IInv'
  OBVIOUS
<1>1. ASSUME NEW n \in Names, Delete(n) PROVE IInv'
  BY <1>1, DeleteStep
<1>2. ASSUME NEW n \in Names, NEW d \in Contents, Replace(n, d) PROVE IInv'
  <2> DEFINE i == Least(Matches(n))
  <2>1. i \in Slots /\ Held(i) /\ SaveIn(i, Freed(fat, root[i].first), n, d)
    BY <1>2, MatchesSlot DEF Replace, Held
  <2> HIDE DEF i
  <2> QED  BY <2>1, FreedOthers, SaveStep
<1>3. ASSUME NEW n \in Names, NEW d \in Contents, Create(n, d) PROVE IInv'
  <2> DEFINE i == Least(Vacant)
  <2>1. i \in Slots /\ SaveIn(i, fat, n, d)
    BY <1>3, VacantSlot DEF Create
  <2> HIDE DEF i
  <2>2. TableType(fat)
    BY DEF IInv, Shape
  <2>3. ~ torn => /\ Table(fat)
                  /\ \A j \in Slots : Held(j) /\ j # i => IsHead(fat, root[j].first)
    BY DEF IInv, Sound, Heads
  <2> QED  BY <2>1, <2>2, <2>3, SaveStep
<1>4. ASSUME NEW n \in Names, NEW d \in Contents, ReplaceFails(n, d) PROVE IInv'
  <2>1. PICK f : fat' = Freed(fat, f)
    BY <1>4 DEF ReplaceFails
  <2>2. root' = root /\ torn' = TRUE
    BY <1>4 DEF ReplaceFails
  <2> QED  BY <2>1, <2>2, FreedType DEF IInv, Shape
<1>5. ASSUME UNCHANGED <<fat, root, torn>> PROVE IInv'
  BY <1>5 DEF IInv, Shape, Sound, Heads, Held
<1>6. ASSUME NEW c, NEW s, NEW v, WriteSector(c, s, v) PROVE IInv'
  BY <1>5, <1>6 DEF WriteSector
<1>7. CASE UNCHANGED vars
  BY <1>5, <1>7 DEF vars
<1> QED  BY <1>1, <1>2, <1>3, <1>4, <1>6, <1>7 DEF Next

(* No two files, nor a file and a subdirectory, ever share a cluster, and  *)
(* no file's chain is given away while it names it: for every size of      *)
(* floppy, cluster, directory and file, until a replacement fails on a     *)
(* full disk (disk.go, Save and Delete).                                   *)
THEOREM FilesKeepTheirClusters == Spec => []SoundUntilTorn
<1>1. IInv => SoundUntilTorn
  <2> SUFFICES ASSUME IInv, ~ torn PROVE FilesDisjoint /\ ChainsAllocated
    BY DEF SoundUntilTorn
  <2>1. Table(fat) /\ Heads
    BY DEF IInv, Sound
  <2>2. FilesDisjoint
    BY <2>1, ChainsApart DEF FilesDisjoint, Heads
  <2>3. ChainsAllocated
    BY <2>1, ChainInUse DEF ChainsAllocated, Heads, FreeIn
  <2> QED  BY <2>2, <2>3
<1> QED  BY <1>1, InitSound, NextStep, PTL DEF Spec

-----------------------------------------------------------------------------
(* Nothing is lost, torn or not.  Here too no chain is followed: what      *)
(* freeing or linking does to one chain is read off the least closed set   *)
(* another one is.                                                         *)

(* A chain keeps every cluster when no cluster with a successor loses it.  *)
LEMMA ChainGrows ==
  ASSUME NEW nx, NEW new, NEW g,
         \A c \in Clusters : nx[c] \in Clusters => new[c] = nx[c]
  PROVE  Chain(nx, g) \subseteq Chain(new, g)
<1>1. CASE g \in Clusters
  <2>1. g \in Chain(new, g) /\ Chain(new, g) \in SUBSET Clusters
    BY <1>1, ChainClosed, ChainType
  <2>2. Closed(nx, Chain(new, g))
    BY <1>1, <2>1, ChainClosed DEF Closed
  <2> QED  BY <2>1, <2>2, ChainLeast
<1>2. CASE g \notin Clusters
  BY <1>2, ChainType
<1> QED  BY <1>1, <1>2

(* Freeing one chain takes from another only what the two share.           *)
LEMMA ChainLeft ==
  ASSUME NEW nx, NEW f, NEW g
  PROVE  Chain(nx, g) \subseteq Chain(Freed(nx, f), g) \cup Chain(nx, f)
<1> DEFINE fr == Freed(nx, f)
           S  == Chain(fr, g) \cup Chain(nx, f)
<1>1. CASE g \in Clusters
  <2>1. g \in S /\ S \in SUBSET Clusters
    BY <1>1, ChainClosed, ChainType
  <2>2. ASSUME NEW c \in S, nx[c] \in Clusters PROVE nx[c] \in S
    <3>1. CASE c \in Chain(nx, f)
      BY <2>2, <3>1, ChainClosed, ChainType DEF Closed
    <3>2. CASE c \in Chain(fr, g) \ Chain(nx, f)
      <4>1. c \in Clusters /\ fr[c] = nx[c]
        BY <3>2, ChainType DEF Freed
      <4> QED  BY <1>1, <2>2, <3>2, <4>1, ChainClosed DEF Closed
    <3> QED  BY <2>2, <3>1, <3>2
  <2>3. Closed(nx, S)
    BY <2>2 DEF Closed
  <2> HIDE DEF S
  <2>4. Chain(nx, g) \subseteq S
    BY <2>1, <2>3, ChainLeast
  <2> QED  BY <2>4 DEF S
<1>2. CASE g \notin Clusters
  BY <1>2, ChainType
<1> QED  BY <1>1, <1>2

(* Among the numbers of a set below c there is a greatest.                 *)
LEMMA GreatestBelow ==
  ASSUME NEW S \in SUBSET Nat, NEW c \in Nat, NEW a \in S, a < c
  PROVE  \E b \in S : Follows(S \cup {c}, b, c)
<1> DEFINE gaps == {c - b : b \in {x \in S : x < c}}
<1>1. gaps \in SUBSET Nat /\ c - a \in gaps
  OBVIOUS
<1>2. Least(gaps) \in gaps /\ \A y \in gaps : Least(gaps) <= y
  BY <1>1, LeastIn
<1>3. PICK b \in S : b < c /\ Least(gaps) = c - b
  BY <1>2
<1>4. \A e \in S : e < c => c - b <= c - e
  BY <1>2, <1>3
<1>5. \A e \in S \cup {c} : ~ (b < e /\ e < c)
  BY <1>3, <1>4
<1> QED  BY <1>3, <1>5 DEF Follows

(* The chain of a new file holds every cluster it was given.               *)
LEMMA LinkedHoldsAll ==
  ASSUME NEW nx, NEW got \in SUBSET Clusters
  PROVE  got \subseteq Chain(Linked(nx, got), FirstOf(got))
<1> DEFINE li == Linked(nx, got)
           f  == FirstOf(got)
           out == got \ Chain(li, f)
<1> SUFFICES ASSUME out # {} PROVE FALSE
  OBVIOUS
<1>1. got \in SUBSET Nat /\ out \in SUBSET Nat /\ got # {}
  BY ClusterNumbers
<1>2. f \in got /\ \A d \in got : f <= d
  <2>1. \E c \in got : \A d \in got : c <= d
    BY <1>1, LeastIn
  <2> QED  BY <2>1 DEF FirstOf
<1> HIDE DEF f
<1>3. f \in Chain(li, f) /\ Closed(li, Chain(li, f))
  BY <1>2, ChainClosed
<1>4. PICK c \in out : \A y \in out : c <= y
  BY <1>1, LeastIn
<1>5. f < c /\ c \in Nat /\ f \in Nat
  BY <1>1, <1>2, <1>3, <1>4
<1>6. PICK b \in got : Follows(got, b, c)
  <2>1. got \cup {c} = got
    OBVIOUS
  <2> HIDE DEF out
  <2>2. \E b \in got : Follows(got \cup {c}, b, c)
    BY <1>1, <1>2, <1>5, GreatestBelow
  <2> QED  BY <2>1, <2>2
<1>7. b \in Nat /\ b < c
  BY <1>1, <1>6 DEF Follows
<1>8. b \in Chain(li, f)
  BY <1>4, <1>5, <1>7
<1>9. \A d \in got : Follows(got, b, d) => d = c
  BY <1>1, <1>4, <1>6 DEF Follows
<1>10. li[b] = c
  <2>1. li[b] = CHOOSE d \in got : Follows(got, b, d)
    BY <1>6, <1>4 DEF Linked
  <2>2. \E d \in got : Follows(got, b, d)
    BY <1>4, <1>6
  <2> HIDE DEF li
  <2> QED  BY <1>9, <2>1, <2>2
<1>11. c \in Chain(li, f)
  BY <1>3, <1>4, <1>8, <1>10 DEF Closed
<1> QED  BY <1>4, <1>11

(* Where a save puts the sectors of its data.                              *)
LEMMA Products == ASSUME NEW k \in Nat, NEW m \in Nat, NEW n \in Nat, k <= m
                  PROVE  k * n \in Nat /\ m * n \in Nat /\ k * n <= m * n
<1>1. m * n = k * n + (m - k) * n
  OBVIOUS
<1>2. k * n \in Nat /\ m * n \in Nat /\ (m - k) * n \in Nat
  OBVIOUS
<1> DEFINE x == k * n
           y == m * n
           z == (m - k) * n
<1> HIDE DEF x, y, z
<1>3. y = x + z /\ x \in Nat /\ y \in Nat /\ z \in Nat
  BY <1>1, <1>2 DEF x, y, z
<1> QED  BY <1>3 DEF x, y

ContentType(held) == held \in [Clusters -> [Sectors -> Values \cup {0}]]

LEMMA WrittenType ==
  ASSUME ContentType(content), NEW nx, NEW f, NEW d \in Contents
  PROVE  ContentType(Written(nx, f, d))
<1> DEFINE at == Walk(nx, f)
           places(c) == {k \in 0..NClusters - 1 : at[k] = c}
           index(k, s) == (k * Spc) + s
<1>1. Spc \in Nat /\ NClusters \in Nat /\ d \in Seq(Values)
  BY GeometryAssumption, UseAssumption
<1> HIDE DEF at
<1>2. ASSUME NEW c \in Clusters, NEW s \in Sectors,
             NEW k \in 0..NClusters - 1, at[k] = c, index(k, s) <= Len(d)
      PROVE  d[index(Least(places(c)), s)] \in Values
  <2>1. k \in places(c) /\ places(c) \in SUBSET Nat
    BY <1>1, <1>2
  <2>2. Least(places(c)) \in places(c) /\ Least(places(c)) <= k
    BY <2>1, LeastIn
  <2>3. Least(places(c)) \in Nat /\ k \in Nat /\ s \in Nat /\ 1 <= s
    BY <1>1, <2>1, <2>2 DEF Sectors
  <2> DEFINE m == Least(places(c))
             x == k * Spc
             y == m * Spc
  <2> HIDE DEF m
  <2>4. y \in Nat /\ x \in Nat /\ y <= x
    BY <1>1, <2>2, <2>3, Products DEF m
  <2>5. x + s <= Len(d)
    BY <1>2
  <2> HIDE DEF x, y
  <2>6. y + s \in 1..Len(d)
    BY <1>1, <2>3, <2>4, <2>5
  <2>7. d[y + s] \in Values
    BY <1>1, <2>6
  <2> QED  BY <2>7 DEF y, m
<1>3. ASSUME NEW c \in Clusters, NEW s \in Sectors
      PROVE  Written(nx, f, d)[c][s] \in Values \cup {0}
  <2>1. Written(nx, f, d)[c][s] =
          IF \E k \in 0..NClusters - 1 : at[k] = c /\ index(k, s) <= Len(d)
          THEN d[index(Least(places(c)), s)] ELSE content[c][s]
    BY DEF Written, at
  <2>2. content[c][s] \in Values \cup {0}
    BY DEF ContentType
  <2> HIDE DEF index, places
  <2> QED  BY <1>2, <2>1, <2>2
<1>4. /\ Written(nx, f, d) = [c \in Clusters |-> Written(nx, f, d)[c]]
      /\ \A c \in Clusters :
           Written(nx, f, d)[c] = [s \in Sectors |-> Written(nx, f, d)[c][s]]
  BY DEF Written
<1> DEFINE wr == Written(nx, f, d)
<1> HIDE DEF wr
<1>5. \A c \in Clusters : wr[c] \in [Sectors -> Values \cup {0}]
  BY <1>3, <1>4 DEF wr
<1>6. wr = [c \in Clusters |-> wr[c]]
  BY <1>4 DEF wr
<1>7. ContentType(wr)
  BY <1>5, <1>6 DEF ContentType
<1> QED  BY <1>7 DEF wr

(* The directory: entry i, where a scan comes to, is given something that  *)
(* was used; the entries never used stay together at the end.              *)
Ordered == \A i \in Slots : root[i].kind # "never" => Reached(i)

LEMMA StaysOrdered ==
  ASSUME root \in [Slots -> Entries], Ordered, NEW i \in Slots, Reached(i),
         NEW e \in Entries, e.kind # "never", root' = [root EXCEPT ![i] = e]
  PROVE  root' \in [Slots -> Entries] /\ Ordered'
<1>1. root'[i] = e /\ \A j \in Slots \ {i} : root'[j] = root[j]
  OBVIOUS
<1>2. Slots \subseteq Nat /\ \A j \in Slots : 1..j - 1 \subseteq Slots
  BY GeometryAssumption DEF Slots
<1>3. ASSUME NEW j \in Slots, Reached(j) PROVE Reached(j)'
  BY <1>1, <1>2, <1>3 DEF Reached
<1> QED  BY <1>1, <1>3 DEF Ordered

LEMMA MatchesReached ==
  ASSUME NEW n, Matches(n) # {}
  PROVE  LET i == Least(Matches(n)) IN i \in Slots /\ Reached(i) /\ Held(i)
<1>1. Matches(n) \in SUBSET Nat
  BY DEF Matches, Slots
<1>2. Least(Matches(n)) \in Matches(n)
  BY <1>1, LeastIn
<1> QED  BY <1>2 DEF Matches, Held

LEMMA VacantReached ==
  ASSUME Vacant # {}
  PROVE  LET i == Least(Vacant) IN i \in Slots /\ Reached(i) /\ ~ Held(i)
<1>1. Vacant \in SUBSET Nat
  BY DEF Vacant, Slots
<1>2. Least(Vacant) \in Vacant
  BY <1>1, LeastIn
<1> QED  BY <1>2 DEF Vacant, Held

(* Every cluster in use belongs to an entry other than i.                  *)
OwnedWithout(nx, i) ==
  \A c \in Clusters : nx[c] # Unused =>
    \E j \in Slots \ {i} : Held(j) /\ c \in Chain(nx, root[j].first)

(* Once an entry's chain is free, what is left belongs to the others.      *)
LEMMA FreedIsOwned ==
  ASSUME NoClusterLost, TableType(fat), NEW i \in Slots
  PROVE  OwnedWithout(Freed(fat, root[i].first), i)
<1> DEFINE fr == Freed(fat, root[i].first)
<1> SUFFICES ASSUME NEW c \in Clusters, fr[c] # Unused
             PROVE  \E j \in Slots \ {i} : Held(j) /\ c \in Chain(fr, root[j].first)
  BY DEF OwnedWithout
<1>1. c \notin Chain(fat, root[i].first) /\ fat[c] # Unused
  BY DEF Freed
<1>2. PICK j \in Slots : Held(j) /\ c \in Chain(fat, root[j].first)
  BY <1>1 DEF NoClusterLost
<1>3. c \in Chain(fr, root[j].first)
  BY <1>1, <1>2, ChainLeft
<1> QED  BY <1>1, <1>2, <1>3

LEMMA SaveLosesNothing ==
  ASSUME TypeOK, NEW i \in Slots, Reached(i), NEW nx, TableType(nx),
         OwnedWithout(nx, i),
         NEW n \in Names, NEW d \in Contents, SaveIn(i, nx, n, d)
  PROVE  NothingLost'
<1> DEFINE got == Lowest(Need(d), FreeIn(nx))
           f   == FirstOf(got)
           e   == FileEntry(i, n, d, f)
<1>1. /\ fat' = Linked(nx, got)
      /\ root' = [root EXCEPT ![i] = e]
      /\ content' = Written(fat', f, d)
      /\ dirty' = TRUE /\ torn' = torn
  BY Zenon DEF SaveIn
<1>2. got \subseteq FreeIn(nx) /\ got \in SUBSET Clusters
  BY LowestFree DEF FreeIn
<1> HIDE DEF got
<1>3. TableType(fat') /\ f \in Clusters \cup {0}
  BY <1>1, <1>2, LinkedType
<1>4. e \in Entries /\ e.kind = "file" /\ e.first = f
  <2>1. Len(d) \in Nat
    BY UseAssumption
  <2> HIDE DEF f
  <2> QED  BY <1>3, <2>1 DEF FileEntry, Entry, Entries
<1>5. root \in [Slots -> Entries] /\ Ordered /\ ContentType(content)
  BY DEF TypeOK, Ordered, ContentType
<1> HIDE DEF f, e
<1>6. root' \in [Slots -> Entries] /\ Ordered'
  BY <1>1, <1>4, <1>5, StaysOrdered
<1>7. ContentType(content')
  BY <1>1, <1>5, WrittenType
<1>8. TypeOK'
  <2>1. dirty' \in BOOLEAN /\ torn' \in BOOLEAN
    BY <1>1 DEF TypeOK
  <2> QED  BY <1>3, <1>6, <1>7, <2>1 DEF TypeOK, TableType, Ordered, ContentType
<1>9. /\ root'[i] = e /\ Held(i)'
      /\ \A j \in Slots \ {i} : root'[j] = root[j] /\ (Held(j) => Held(j)')
  BY <1>1, <1>4, <1>5 DEF Held
<1>10. ASSUME NEW c \in Clusters, fat'[c] # Unused
       PROVE  \E j \in Slots : Held(j)' /\ c \in Chain(fat', root'[j].first)
  <2>1. CASE c \in got
    <3>1. c \in Chain(fat', f)
      BY <1>1, <1>2, <2>1, LinkedHoldsAll DEF f
    <3> QED  BY <1>4, <1>9, <3>1
  <2>2. CASE c \notin got
    <3>1. nx[c] # Unused
      BY <1>1, <1>10, <2>2 DEF Linked
    <3>2. PICK j \in Slots \ {i} : Held(j) /\ c \in Chain(nx, root[j].first)
      BY <3>1 DEF OwnedWithout
    <3>3. \A b \in Clusters : nx[b] \in Clusters => fat'[b] = nx[b]
      BY <1>1, <1>2, ClusterNumbers DEF Linked, FreeIn
    <3>4. c \in Chain(fat', root[j].first)
      BY <3>2, <3>3, ChainGrows
    <3> QED  BY <1>9, <3>2, <3>4
  <2> QED  BY <2>1, <2>2
<1>11. NoClusterLost'
  BY <1>10 DEF NoClusterLost
<1> QED  BY <1>1, <1>8, <1>11 DEF NothingLost, CleanIsUnchanged

(* A step of the table and the directory alone, which frees a chain.       *)
LEMMA DeleteLosesNothing ==
  ASSUME NothingLost, NEW n \in Names, Delete(n) PROVE NothingLost'
<1> DEFINE i == Least(Matches(n))
           fr == Freed(fat, root[i].first)
<1>1. i \in Slots /\ Reached(i)
  BY MatchesReached DEF Delete
<1>2. /\ fat' = fr /\ root' = [root EXCEPT ![i] = Deleted]
      /\ dirty' = TRUE /\ torn' = torn /\ content' = content
  BY DEF Delete
<1> HIDE DEF i
<1>3. /\ TableType(fat) /\ root \in [Slots -> Entries] /\ Ordered
      /\ ContentType(content) /\ torn \in BOOLEAN /\ NoClusterLost
  BY DEF NothingLost, TypeOK, Ordered, ContentType, TableType
<1>4. TableType(fr) /\ OwnedWithout(fr, i)
  BY <1>1, <1>3, FreedType, FreedIsOwned
<1> HIDE DEF fr
<1>5. Deleted \in Entries /\ Deleted.kind = "deleted"
  BY DEF Entries, Deleted, Entry
<1>6. root' \in [Slots -> Entries] /\ Ordered'
  BY <1>1, <1>2, <1>3, <1>5, StaysOrdered
<1>7. TypeOK'
  <2>1. torn' \in BOOLEAN
    BY <1>2, <1>3, Zenon
  <2> QED  BY <1>2, <1>3, <1>4, <1>6, <2>1 DEF TypeOK, Ordered, TableType, ContentType
<1>8. NoClusterLost'
  <2>1. \A j \in Slots \ {i} : root'[j] = root[j] /\ (Held(j) => Held(j)')
    BY <1>2, <1>3 DEF Held
  <2> QED  BY <1>2, <1>4, <2>1 DEF OwnedWithout, NoClusterLost
<1> QED  BY <1>2, <1>7, <1>8 DEF NothingLost, CleanIsUnchanged

(* A replacement that fails: its file's clusters are free, and every other *)
(* one still has its entry.                                                *)
LEMMA FailureLosesNothing ==
  ASSUME NothingLost, NEW n \in Names, NEW d \in Contents, ReplaceFails(n, d)
  PROVE  NothingLost'
<1> DEFINE i == Least(Matches(n))
           first == root[i].first
           fr == Freed(fat, first)
<1>1. i \in Slots
  BY MatchesReached DEF ReplaceFails
<1>2. /\ fat' = fr /\ dirty' = (dirty \/ first \in Clusters) /\ torn' = TRUE
      /\ root' = root /\ content' = content /\ mounted' = mounted
  BY DEF ReplaceFails
<1>3. TypeOK /\ TableType(fat) /\ NoClusterLost /\ CleanIsUnchanged
  BY DEF NothingLost, TypeOK, TableType
<1>4. TableType(fr) /\ OwnedWithout(fr, i)
  BY <1>1, <1>3, FreedType, FreedIsOwned
<1>5. first \notin Clusters => fr = fat
  BY <1>3, ChainType DEF Freed, TableType
<1> HIDE DEF fr, first
<1>6. TypeOK'
  <2>1. dirty' \in BOOLEAN /\ torn' \in BOOLEAN
    BY <1>2
  <2> QED  BY <1>2, <1>3, <1>4, <2>1 DEF TypeOK, TableType, Reached
<1>7. NoClusterLost'
  BY <1>2, <1>4 DEF OwnedWithout, NoClusterLost, Held
<1>8. CleanIsUnchanged'
  BY <1>2, <1>3, <1>5 DEF CleanIsUnchanged, image
<1> QED  BY <1>6, <1>7, <1>8 DEF NothingLost

LEMMA InitLosesNothing == Init => NothingLost
<1> SUFFICES ASSUME Init PROVE NothingLost
  OBVIOUS
<1>1. PICK len \in Subdirs :
        /\ fat = [c \in Clusters |-> IF c > len + 1 THEN Unused
                                     ELSE IF c = len + 1 THEN EndOfChain
                                     ELSE c + 1]
        /\ root = [i \in Slots |-> IF i = 1 /\ len > 0
                                   THEN Entry("other", NoName, 0, 2) ELSE Never]
  BY DEF Init
<1>2. len \in Nat /\ len <= NClusters /\ NClusters \in Nat /\ NDir \in Nat \ {0}
  BY UseAssumption, GeometryAssumption
<1>3. Clusters = 2..NClusters + 1 /\ Slots = 1..NDir
  BY DEF Clusters, Slots
<1>4. TypeOK
  <2>1. TableType(fat) /\ root \in [Slots -> Entries] /\ torn \in BOOLEAN
    BY InitSound DEF IInv, Shape
  <2>2. content \in [Clusters -> [Sectors -> Values \cup {0}]] /\ dirty \in BOOLEAN
    BY DEF Init
  <2>3. ASSUME NEW i \in Slots, root[i].kind # "never" PROVE Reached(i)
    <3>1. i = 1
      BY <1>1, <2>3 DEF Never, Entry
    <3> QED  BY <3>1 DEF Reached
  <2> QED  BY <2>1, <2>2, <2>3 DEF TypeOK, TableType
<1>5. ASSUME NEW c \in Clusters, fat[c] # Unused
      PROVE  \E i \in Slots : Held(i) /\ c \in Chain(fat, root[i].first)
  <2>1. len > 0 /\ c <= len + 1 /\ c \in Nat /\ 2 \in Clusters
    BY <1>1, <1>2, <1>3, <1>5
  <2>2. 1 \in Slots /\ Held(1) /\ root[1].first = 2
    BY <1>1, <1>2, <1>3, <2>1 DEF Held, Entry
  <2> DEFINE out == (2..len + 1) \ Chain(fat, 2)
  <2>3. ASSUME out # {} PROVE FALSE
    <3>1. out \in SUBSET Nat
      BY <1>2
    <3>2. Least(out) \in out /\ \A y \in out : Least(out) <= y
      BY <2>3, <3>1, LeastIn
    <3> DEFINE k == Least(out)
    <3> HIDE DEF k, out
    <3>3. k \in 2..len + 1 /\ k \notin Chain(fat, 2)
      BY <3>2 DEF out, k
    <3>4. 2 \in Chain(fat, 2) /\ Closed(fat, Chain(fat, 2))
      BY <2>1, ChainClosed
    <3>5. k - 1 \in 2..len + 1 /\ k \in Nat
      BY <1>2, <3>3, <3>4
    <3>6. k - 1 \in Chain(fat, 2)
      <4>1. k - 1 \notin out
        BY <3>2, <3>5 DEF k
      <4> QED  BY <3>5, <4>1 DEF out
    <3>7. fat[k - 1] = k /\ k \in Clusters
      BY <1>1, <1>2, <1>3, <3>3, <3>5
    <3> QED  BY <3>3, <3>4, <3>6, <3>7 DEF Closed
  <2>4. c \in Chain(fat, 2)
    BY <1>2, <1>3, <2>1, <2>3
  <2> QED  BY <2>2, <2>4
<1>6. CleanIsUnchanged
  BY DEF Init, CleanIsUnchanged
<1> QED  BY <1>4, <1>5, <1>6 DEF NothingLost, NoClusterLost

LEMMA NextLosesNothing == NothingLost /\ [Next]_vars => NothingLost'
<1> SUFFICES ASSUME NothingLost, [Next]_vars PROVE NothingLost'
  OBVIOUS
<1>0. TypeOK /\ TableType(fat) /\ NoClusterLost /\ CleanIsUnchanged
  BY DEF NothingLost, TypeOK, TableType
<1>1. ASSUME NEW n \in Names, Delete(n) PROVE NothingLost'
  BY <1>1, DeleteLosesNothing
<1>2. ASSUME NEW n \in Names, NEW d \in Contents, Replace(n, d) PROVE NothingLost'
  <2> DEFINE i == Least(Matches(n))
  <2>1. i \in Slots /\ Reached(i) /\ SaveIn(i, Freed(fat, root[i].first), n, d)
    BY <1>2, MatchesReached DEF Replace
  <2> HIDE DEF i
  <2> QED  BY <1>0, <2>1, FreedType, FreedIsOwned, SaveLosesNothing
<1>3. ASSUME NEW n \in Names, NEW d \in Contents, Create(n, d) PROVE NothingLost'
  <2> DEFINE i == Least(Vacant)
  <2>1. i \in Slots /\ Reached(i) /\ ~ Held(i) /\ SaveIn(i, fat, n, d)
    BY <1>3, VacantReached DEF Create
  <2> HIDE DEF i
  <2>2. OwnedWithout(fat, i)
    BY <1>0, <2>1 DEF OwnedWithout, NoClusterLost
  <2> QED  BY <1>0, <2>1, <2>2, SaveLosesNothing
<1>4. ASSUME NEW n \in Names, NEW d \in Contents, ReplaceFails(n, d) PROVE NothingLost'
  BY <1>4, FailureLosesNothing
<1>5. ASSUME NEW at \in RawSectors, NEW v \in Values, WriteSector(at[1], at[2], v)
      PROVE  NothingLost'
  <2>1. /\ content' = [content EXCEPT ![at[1]][at[2]] = v] /\ dirty' = TRUE
        /\ fat' = fat /\ root' = root /\ torn' = torn
    BY <1>5 DEF WriteSector
  <2>2. at[1] \in Clusters /\ at[2] \in Sectors
    BY UseAssumption
  <2>3. content' \in [Clusters -> [Sectors -> Values \cup {0}]]
    BY <1>0, <2>1, <2>2 DEF TypeOK
  <2>4. torn' \in BOOLEAN
    BY <1>0, <2>1, Zenon DEF TypeOK
  <2>5. TypeOK'
    BY <1>0, <2>1, <2>3, <2>4 DEF TypeOK, Reached
  <2> QED  BY <1>0, <2>1, <2>5 DEF NothingLost, NoClusterLost, CleanIsUnchanged, Held
<1>6. CASE UNCHANGED vars
  <2>1. /\ fat' = fat /\ root' = root /\ content' = content /\ dirty' = dirty
        /\ mounted' = mounted /\ torn' = torn
    BY <1>6 DEF vars
  <2>2. TypeOK'
    <3>1. dirty' \in BOOLEAN /\ torn' \in BOOLEAN
      BY <1>0, <2>1, Zenon DEF TypeOK
    <3> QED  BY <1>0, <2>1, <3>1 DEF TypeOK, Reached
  <2> QED  BY <1>0, <2>1, <2>2 DEF NothingLost, NoClusterLost, CleanIsUnchanged, Held, image
<1> QED  BY <1>1, <1>2, <1>3, <1>4, <1>5, <1>6 DEF Next

(* Whatever is saved, deleted and written, on a floppy of any size, and    *)
(* however often a replacement fails: every cluster in use belongs to some *)
(* entry of the directory, so a disk written to over and over never fills  *)
(* with clusters no file has; the directory stays scannable; and an image  *)
(* that says it is clean is the image that was mounted (disk.go, Save,     *)
(* Delete, WriteSector).                                                   *)
THEOREM NothingIsLost == Spec => []NothingLost
  BY InitLosesNothing, NextLosesNothing, PTL DEF Spec

-----------------------------------------------------------------------------
(* Walks.  What is computed along a chain is shown step by step with the   *)
(* least number that would break it, as Walk is a recursive function.      *)

(* Division, as Save and Open use it.                                      *)
LEMMA Euclid ==
  ASSUME NEW a \in Nat, NEW m \in Nat \ {0}
  PROVE  /\ a \div m \in Nat /\ a % m \in 0..m - 1
         /\ a = ((a \div m) * m) + (a % m)
<1>1. a = ((a \div m) * m) + (a % m)
  OBVIOUS
<1>2. a \div m \in Nat
  OBVIOUS
<1>3. a % m \in 0..m - 1
  OBVIOUS
<1> QED  BY <1>1, <1>2, <1>3

(* What holds of 0 and goes from each number to the next holds up to N.    *)
LEMMA UpTo ==
  ASSUME NEW N \in Nat, NEW S, 0 \in S, \A n \in 0..N - 1 : n \in S => n + 1 \in S
  PROVE  0..N \subseteq S
<1> DEFINE out == (0..N) \ S
<1> SUFFICES ASSUME out # {} PROVE FALSE
  OBVIOUS
<1>1. out \in SUBSET Nat
  OBVIOUS
<1>2. Least(out) \in out /\ \A y \in out : Least(out) <= y
  BY <1>1, LeastIn
<1> DEFINE k == Least(out)
<1> HIDE DEF k
<1>3. k \in 0..N /\ k # 0 /\ k \notin S /\ k - 1 \in 0..N - 1
  BY <1>2 DEF k
<1>4. k - 1 \in S
  BY <1>2, <1>3 DEF k
<1> QED  BY <1>3, <1>4

(* The recursion of a walk has a solution.                                 *)
Along(nx, first, N, g) ==
  \A k \in 0..N : g[k] = IF k = 0 THEN first
                         ELSE IF g[k - 1] \in Clusters THEN nx[g[k - 1]] ELSE 0

(* As far as any N, and so there is one.                                   *)
LEMMA WalkExists ==
  ASSUME NEW nx, NEW first, NEW N \in Nat
  PROVE  \E g : Along(nx, first, N, g)
<1> DEFINE S == {n \in 0..N : \E g : Along(nx, first, n, g)}
<1>1. 0 \in S
  <2>1. Along(nx, first, 0, [k \in {0} |-> first])
    BY DEF Along
  <2> QED  BY <2>1
<1>2. ASSUME NEW n \in 0..N - 1, n \in S PROVE n + 1 \in S
  <2>1. PICK g : Along(nx, first, n, g)
    BY <1>2
  <2> DEFINE h == [k \in 0..n + 1 |->
                     IF k <= n THEN g[k]
                     ELSE IF g[n] \in Clusters THEN nx[g[n]] ELSE 0]
  <2>2. Along(nx, first, n + 1, h)
    BY <2>1 DEF Along
  <2> QED  BY <2>2
<1> HIDE DEF S
<1>3. 0..N \subseteq S
  BY <1>1, <1>2, UpTo
<1> QED  BY <1>3 DEF S

LEMMA WalkIs ==
  ASSUME NEW nx, NEW first
  PROVE  Along(nx, first, NClusters, Walk(nx, first))
<1>1. NClusters \in Nat
  BY GeometryAssumption
<1>2. PICK g : Along(nx, first, NClusters, g)
  BY <1>1, WalkExists
<1> DEFINE Rec(h) == [k \in 0..NClusters |->
                     IF k = 0 THEN first
                     ELSE IF h[k - 1] \in Clusters THEN nx[h[k - 1]] ELSE 0]
           f == [k \in 0..NClusters |-> g[k]]
<1>3. f = Rec(f)
  BY <1>1, <1>2 DEF Along
<1>4. Walk(nx, first) = CHOOSE h : h = Rec(h)
  BY DEF Walk
<1>5. Walk(nx, first) = Rec(Walk(nx, first))
  BY <1>3, <1>4
<1> DEFINE w == Walk(nx, first)
<1> HIDE DEF w
<1>6. w = Rec(w)
  BY <1>5 DEF w
<1>7. \A k \in 0..NClusters : w[k] = IF k = 0 THEN first
                         ELSE IF w[k - 1] \in Clusters THEN nx[w[k - 1]] ELSE 0
  BY <1>6
<1> QED  BY <1>7 DEF Along, w

(* The steps at which a walk is at a cluster of the data area.             *)
Steps(nx, first) ==
  {k \in 0..NClusters - 1 : Walk(nx, first)[k] \in Clusters}

LEMMA WalkStep ==
  ASSUME NEW nx, NEW first, NEW k \in 0..NClusters - 1
  PROVE  /\ Walk(nx, first)[0] = first
         /\ Walk(nx, first)[k] \in Clusters =>
              Walk(nx, first)[k + 1] = nx[Walk(nx, first)[k]]
         /\ Walk(nx, first)[k + 1] \in Clusters => Walk(nx, first)[k] \in Clusters
<1>1. /\ NClusters \in Nat /\ 0 \in 0..NClusters
      /\ k + 1 \in 0..NClusters /\ k + 1 # 0 /\ (k + 1) - 1 = k
  BY GeometryAssumption
<1>2. Along(nx, first, NClusters, Walk(nx, first))
  BY WalkIs
<1>3. 0 \notin Clusters
  BY ClusterNumbers DEF Unused
<1>4. Walk(nx, first)[0] = first
  BY <1>1, <1>2 DEF Along
<1>5. Walk(nx, first)[k + 1] = IF Walk(nx, first)[k] \in Clusters
                               THEN nx[Walk(nx, first)[k]] ELSE 0
  BY <1>1, <1>2 DEF Along
<1> QED  BY <1>3, <1>4, <1>5

(* A walk is in the data area up to some step, and out of it from there.   *)
LEMMA StepsAreFirst ==
  ASSUME NEW nx, NEW first
  PROVE  /\ Cardinality(Steps(nx, first)) \in Nat
         /\ IsFiniteSet(Steps(nx, first))
         /\ Steps(nx, first) = 0..Cardinality(Steps(nx, first)) - 1
<1> DEFINE P == Steps(nx, first)
           out == (0..NClusters) \ P
           m == Least(out)
<1>1. NClusters \in Nat /\ P \subseteq 0..NClusters - 1
  BY GeometryAssumption DEF Steps
<1>2. NClusters \in out /\ out \in SUBSET Nat
  BY <1>1
<1>3. m \in out /\ \A y \in out : m <= y
  BY <1>2, LeastIn
<1>4. \A k \in 0..NClusters - 1 : k + 1 \in P => k \in P
  BY WalkStep DEF Steps
<1> HIDE DEF m, P
<1>5. m \in 0..NClusters /\ m \notin P /\ \A k \in 0..m - 1 : k \in P
  <2>1. m \in 0..NClusters /\ m \notin P
    BY <1>3
  <2>2. ASSUME NEW k \in 0..m - 1 PROVE k \in P
    <3>1. k \notin out
      BY <1>1, <1>3, <2>1
    <3> QED  BY <1>1, <2>1, <3>1
  <2> QED  BY <2>1, <2>2
<1> DEFINE S == {j \in 0..NClusters - m : m + j \notin P}
<1>6. 0..NClusters - m \subseteq S
  <2>1. 0 \in S
    BY <1>1, <1>5
  <2>2. ASSUME NEW j \in 0..(NClusters - m) - 1, j \in S PROVE j + 1 \in S
    <3>1. m + j \in 0..NClusters - 1 /\ m + (j + 1) = (m + j) + 1
      BY <1>1, <1>5
    <3>2. m + (j + 1) \notin P
      BY <1>4, <2>2, <3>1
    <3> QED  BY <1>1, <1>5, <3>2
  <2>3. NClusters - m \in Nat
    BY <1>1, <1>5
  <2> HIDE DEF S
  <2> QED  BY <2>1, <2>2, <2>3, UpTo
<1>7. P = 0..m - 1
  <2>1. ASSUME NEW k \in P PROVE k \in 0..m - 1
    <3>1. k \in 0..NClusters - 1
      BY <1>1
    <3>2. CASE k >= m
      <4>1. k - m \in 0..NClusters - m /\ m + (k - m) = k
        BY <1>1, <1>5, <3>1, <3>2
      <4> QED  BY <1>6, <2>1, <4>1
    <3> QED  BY <1>5, <3>1, <3>2
  <2> QED  BY <1>5, <2>1
<1>8. IsFiniteSet(P) /\ Cardinality(P) = m
  BY <1>5, <1>7, FS_Interval
<1> QED  BY <1>5, <1>7, <1>8 DEF P

(* What a walk visits is the chain, and a table that agrees along it gives *)
(* the same walk.                                                          *)
LEMMA WalkSame ==
  ASSUME NEW nx, NEW new, NEW first, \A c \in Chain(nx, first) : new[c] = nx[c]
  PROVE  \A k \in 0..NClusters :
           /\ Walk(new, first)[k] = Walk(nx, first)[k]
           /\ Walk(nx, first)[k] \in Clusters => Walk(nx, first)[k] \in Chain(nx, first)
<1> DEFINE w == Walk(nx, first)
           u == Walk(new, first)
           S == {k \in 0..NClusters : /\ u[k] = w[k]
                                      /\ w[k] \in Clusters => w[k] \in Chain(nx, first)}
<1>0. NClusters \in Nat /\ NClusters # 0 /\ 0 \notin Clusters
  BY GeometryAssumption, ClusterNumbers DEF Unused
<1>1. w[0] = first /\ u[0] = first
  BY <1>0, WalkStep
<1>2. 0 \in S
  BY <1>0, <1>1, ChainClosed
<1>3. Along(nx, first, NClusters, w) /\ Along(new, first, NClusters, u)
  BY WalkIs
<1> HIDE DEF w, u
<1>4. ASSUME NEW k \in 0..NClusters - 1, k \in S PROVE k + 1 \in S
  <2>1. k + 1 \in 0..NClusters /\ k + 1 # 0 /\ (k + 1) - 1 = k
    BY <1>0
  <2>2. /\ w[k + 1] = IF w[k] \in Clusters THEN nx[w[k]] ELSE 0
        /\ u[k + 1] = IF u[k] \in Clusters THEN new[u[k]] ELSE 0
    BY <1>3, <2>1 DEF Along
  <2>3. u[k] = w[k] /\ (w[k] \in Clusters => w[k] \in Chain(nx, first))
    BY <1>4
  <2>4. w[k] \in Clusters => /\ new[w[k]] = nx[w[k]]
                             /\ nx[w[k]] \in Clusters => nx[w[k]] \in Chain(nx, first)
    <3> SUFFICES ASSUME w[k] \in Clusters
                 PROVE  /\ new[w[k]] = nx[w[k]]
                        /\ nx[w[k]] \in Clusters => nx[w[k]] \in Chain(nx, first)
      OBVIOUS
    <3>1. first \in Clusters
      BY <2>3, ChainType
    <3> QED  BY <2>3, <3>1, ChainClosed DEF Closed
  <2> QED  BY <1>0, <2>1, <2>2, <2>3, <2>4
<1> HIDE DEF S
<1>5. 0..NClusters \subseteq S
  BY <1>0, <1>2, <1>4, UpTo
<1> QED  BY <1>5 DEF S, w, u

(* In a sound table a walk from a first cluster comes to none twice.       *)
LEMMA WalkOnce ==
  ASSUME NEW nx, OneBefore(nx), NEW first, IsHead(nx, first)
  PROVE  \A k, m \in 0..NClusters :
           k < m /\ Walk(nx, first)[k] \in Clusters =>
             Walk(nx, first)[m] # Walk(nx, first)[k]
<1> DEFINE w == Walk(nx, first)
           S == {k \in 0..NClusters : \A m \in 0..NClusters :
                   k < m /\ w[k] \in Clusters => w[m] # w[k]}
<1>0. NClusters \in Nat /\ NClusters # 0
  BY GeometryAssumption
<1>1. w[0] = first
  BY <1>0, WalkStep
<1>2. ASSUME NEW m \in 0..NClusters, m # 0, w[m] \in Clusters
      PROVE  m - 1 \in 0..NClusters /\ w[m - 1] \in Clusters /\ w[m] = nx[w[m - 1]]
  <2>1. m - 1 \in 0..NClusters - 1 /\ (m - 1) + 1 = m
    BY <1>0, <1>2
  <2> QED  BY <1>0, <1>2, <2>1, WalkStep
<1> HIDE DEF w
<1>3. 0 \in S
  <2> SUFFICES ASSUME NEW m \in 0..NClusters, 0 < m, w[0] \in Clusters, w[m] = w[0]
               PROVE  FALSE
    BY <1>0
  <2> QED  BY <1>1, <1>2 DEF IsHead
<1>4. ASSUME NEW k \in 0..NClusters - 1, k \in S PROVE k + 1 \in S
  <2>1. k + 1 \in 0..NClusters /\ k + 1 # 0 /\ (k + 1) - 1 = k
    BY <1>0
  <2> SUFFICES ASSUME NEW m \in 0..NClusters, k + 1 < m, w[k + 1] \in Clusters,
                      w[m] = w[k + 1]
               PROVE  FALSE
    BY <2>1
  <2>2. w[k] \in Clusters /\ w[k + 1] = nx[w[k]]
    BY <1>2, <2>1
  <2>3. m # 0 /\ k < m - 1
    BY <1>0
  <2>4. m - 1 \in 0..NClusters /\ w[m - 1] \in Clusters /\ w[m] = nx[w[m - 1]]
    BY <1>2, <2>3
  <2>5. w[m - 1] = w[k]
    BY <2>2, <2>4 DEF OneBefore
  <2> QED  BY <1>4, <2>2, <2>3, <2>4, <2>5
<1> HIDE DEF S
<1>5. 0..NClusters \subseteq S
  BY <1>0, <1>3, <1>4, UpTo
<1> QED  BY <1>5 DEF S, w

-----------------------------------------------------------------------------
(* What is read along a chain.                                             *)

(* The place of sector i of a file: the step of the walk, and the sector   *)
(* of the cluster it comes to.                                             *)
StepOf(i) == (i - 1) \div Spc
SectorOf(i) == ((i - 1) % Spc) + 1

LEMMA Place ==
  ASSUME NEW K \in Nat, NEW i \in 1..Spc * K
  PROVE  /\ StepOf(i) \in 0..K - 1 /\ SectorOf(i) \in Sectors
         /\ (StepOf(i) * Spc) + SectorOf(i) = i
<1>1. Spc \in Nat \ {0} /\ Spc * K \in Nat
  BY GeometryAssumption
<1> DEFINE q == StepOf(i)
           r == (i - 1) % Spc
           x == q * Spc
           y == Spc * K
<1>2. i - 1 \in Nat
  BY <1>1
<1>3. q \in Nat /\ r \in 0..Spc - 1 /\ i - 1 = x + r
  BY <1>1, <1>2, Euclid DEF StepOf
<1>4. x \in Nat
  BY <1>1, <1>3
<1>5. i <= y /\ y \in Nat
  BY <1>1
<1>6. K <= q => y <= x
  <2> SUFFICES ASSUME K <= q PROVE y <= x
    OBVIOUS
  <2>1. K * Spc <= q * Spc
    BY <1>1, <1>3, Products
  <2>2. K * Spc = Spc * K
    BY <1>1
  <2> QED  BY <2>1, <2>2
<1>7. SectorOf(i) = r + 1
  BY DEF SectorOf
<1> HIDE DEF q, r, x, y
<1>8. q \in 0..K - 1
  BY <1>1, <1>3, <1>4, <1>5, <1>6
<1>9. SectorOf(i) \in Sectors
  BY <1>1, <1>3, <1>7 DEF Sectors
<1>10. x + SectorOf(i) = i
  BY <1>1, <1>3, <1>4, <1>7
<1> QED  BY <1>8, <1>9, <1>10 DEF q, x

(* Read, of any table and any contents.                                    *)
Extent(nx, e) ==
  LET held == Spc * Cardinality(Steps(nx, e.first))
  IN IF e.size < held THEN e.size ELSE held
ReadOf(nx, ct, e) ==
  [i \in 1..Extent(nx, e) |-> ct[Walk(nx, e.first)[StepOf(i)]][SectorOf(i)]]

LEMMA ReadIs == \A e : Read(e) = ReadOf(fat, content, e)
  BY DEF Read, ReadOf, Extent, Steps, StepOf, SectorOf

(* Where each sector that is read comes from.                              *)
LEMMA ReadPlaces ==
  ASSUME NEW nx, NEW e, e.size \in Nat, NEW i \in 1..Extent(nx, e)
  PROVE  /\ Extent(nx, e) \in Nat
         /\ StepOf(i) \in 0..NClusters - 1 /\ SectorOf(i) \in Sectors
         /\ (StepOf(i) * Spc) + SectorOf(i) = i
         /\ Walk(nx, e.first)[StepOf(i)] \in Clusters
<1> DEFINE K == Cardinality(Steps(nx, e.first))
           held == Spc * K
<1>1. /\ K \in Nat /\ Steps(nx, e.first) = 0..K - 1
      /\ Steps(nx, e.first) \subseteq 0..NClusters - 1
  BY StepsAreFirst DEF Steps
<1>2. held \in Nat
  BY <1>1, GeometryAssumption
<1>3. Extent(nx, e) = IF e.size < held THEN e.size ELSE held
  BY DEF Extent
<1> HIDE DEF held, K
<1>4. Extent(nx, e) \in Nat /\ i \in 1..held
  BY <1>2, <1>3
<1>5. /\ StepOf(i) \in 0..K - 1 /\ SectorOf(i) \in Sectors
      /\ (StepOf(i) * Spc) + SectorOf(i) = i
  BY <1>1, <1>4, Place DEF held
<1>6. StepOf(i) \in Steps(nx, e.first)
  BY <1>1, <1>5
<1> QED  BY <1>4, <1>5, <1>6 DEF Steps

(* A file whose chain is left alone, table and contents, reads the same.   *)
LEMMA ReadSame ==
  ASSUME NEW nx, NEW new, NEW ct, NEW cn, NEW e, e.size \in Nat,
         \A c \in Chain(nx, e.first) : new[c] = nx[c] /\ cn[c] = ct[c]
  PROVE  ReadOf(new, cn, e) = ReadOf(nx, ct, e)
<1>1. \A k \in 0..NClusters :
        /\ Walk(new, e.first)[k] = Walk(nx, e.first)[k]
        /\ Walk(nx, e.first)[k] \in Clusters =>
             Walk(nx, e.first)[k] \in Chain(nx, e.first)
  BY WalkSame
<1>2. 0..NClusters - 1 \subseteq 0..NClusters
  BY GeometryAssumption
<1>3. Steps(new, e.first) = Steps(nx, e.first)
  BY <1>1, <1>2 DEF Steps
<1>4. Extent(new, e) = Extent(nx, e)
  BY <1>3 DEF Extent
<1>5. ASSUME NEW i \in 1..Extent(nx, e)
      PROVE  cn[Walk(new, e.first)[StepOf(i)]][SectorOf(i)]
               = ct[Walk(nx, e.first)[StepOf(i)]][SectorOf(i)]
  BY <1>1, <1>2, ReadPlaces
<1> QED  BY <1>4, <1>5 DEF ReadOf

(* What is read is sectors, as many as were read.                          *)
LEMMA ReadType ==
  ASSUME NEW nx, NEW ct, ContentType(ct), NEW e, e.size \in Nat
  PROVE  /\ ReadOf(nx, ct, e) \in Seq(Values \cup {0})
         /\ Len(ReadOf(nx, ct, e)) = Extent(nx, e)
<1>1. Extent(nx, e) \in Nat
  <2>1. Cardinality(Steps(nx, e.first)) \in Nat /\ Spc \in Nat
    BY StepsAreFirst, GeometryAssumption
  <2> DEFINE held == Spc * Cardinality(Steps(nx, e.first))
  <2>2. held \in Nat
    BY <2>1
  <2>3. Extent(nx, e) = IF e.size < held THEN e.size ELSE held
    BY DEF Extent
  <2> HIDE DEF held
  <2> QED  BY <2>2, <2>3
<1>2. ASSUME NEW i \in 1..Extent(nx, e)
      PROVE  ct[Walk(nx, e.first)[StepOf(i)]][SectorOf(i)] \in Values \cup {0}
  BY ReadPlaces DEF ContentType
<1> DEFINE n == Extent(nx, e)
           f(i) == ct[Walk(nx, e.first)[StepOf(i)]][SectorOf(i)]
<1>3. ReadOf(nx, ct, e) = [i \in 1..n |-> f(i)]
  BY DEF ReadOf
<1> HIDE DEF n, f
<1>4. \A i \in 1..n : f(i) \in Values \cup {0}
  BY <1>2 DEF n, f
<1>5. n \in Nat
  BY <1>1 DEF n
<1> QED  BY <1>3, <1>4, <1>5 DEF n

Patched(ct, c, s, v) == [ct EXCEPT ![c][s] = v]
Changed(f, i, v) == [f EXCEPT ![i] = v]

(* A sector of one cluster is written.  A file reads as it did, or differs *)
(* in one sector, which holds what was written.                            *)
LEMMA ReadPatched ==
  ASSUME NEW nx, OneBefore(nx), NEW e, e.size \in Nat, IsHead(nx, e.first),
         NEW ct, ContentType(ct), NEW c \in Clusters, NEW s \in Sectors, NEW v,
         NEW cn, cn = Patched(ct, c, s, v)
  PROVE  \/ ReadOf(nx, cn, e) = ReadOf(nx, ct, e)
         \/ \E i \in 1..Extent(nx, e) :
              ReadOf(nx, cn, e) = Changed(ReadOf(nx, ct, e), i, v)
<1> DEFINE old == ReadOf(nx, ct, e)
           new == ReadOf(nx, cn, e)
           n == Extent(nx, e)
           w == Walk(nx, e.first)
           hit(i) == w[StepOf(i)] = c /\ SectorOf(i) = s
<1>1. \A i \in 1..n : w[StepOf(i)] \in Clusters /\ SectorOf(i) \in Sectors
  BY ReadPlaces
<1>2. \A k \in Clusters, t \in Sectors :
        cn[k][t] = IF k = c /\ t = s THEN v ELSE ct[k][t]
  BY DEF ContentType, Patched
<1> HIDE DEF w
<1>3. /\ old = [i \in 1..n |-> ct[w[StepOf(i)]][SectorOf(i)]]
      /\ new = [i \in 1..n |-> cn[w[StepOf(i)]][SectorOf(i)]]
  BY DEF ReadOf, w
<1> HIDE DEF old, new, n
<1>4. \A i \in 1..n : /\ old[i] = ct[w[StepOf(i)]][SectorOf(i)]
                      /\ new[i] = IF hit(i) THEN v ELSE old[i]
  BY <1>1, <1>2, <1>3
<1>a. old = [i \in 1..n |-> old[i]] /\ new = [i \in 1..n |-> new[i]]
  BY <1>3
<1>5. CASE \A i \in 1..n : ~ hit(i)
  <2>1. \A i \in 1..n : new[i] = old[i]
    BY <1>4, <1>5
  <2>2. new = old
    BY <1>a, <2>1
  <2> QED  BY <2>2 DEF old, new
<1>6. CASE \E i \in 1..n : hit(i)
  <2>1. PICK i \in 1..n : hit(i)
    BY <1>6
  <2>2. ASSUME NEW j \in 1..n, hit(j) PROVE j = i
    <3>1. /\ StepOf(j) \in 0..NClusters - 1 /\ (StepOf(j) * Spc) + SectorOf(j) = j
          /\ StepOf(i) \in 0..NClusters - 1 /\ (StepOf(i) * Spc) + SectorOf(i) = i
      BY ReadPlaces DEF n
    <3>2. \A k, m \in 0..NClusters : k < m /\ w[k] \in Clusters => w[m] # w[k]
      BY WalkOnce DEF w
    <3>3. StepOf(j) = StepOf(i)
      <4>1. StepOf(j) \in 0..NClusters /\ StepOf(i) \in 0..NClusters
        BY <3>1, GeometryAssumption
      <4>2. ~ (StepOf(j) < StepOf(i)) /\ ~ (StepOf(i) < StepOf(j))
        BY <2>1, <2>2, <3>2, <4>1
      <4> QED  BY <4>1, <4>2
    <3> QED  BY <2>1, <2>2, <3>1, <3>3
  <2>3. \A j \in 1..n : new[j] = IF j = i THEN v ELSE old[j]
    BY <1>4, <2>1, <2>2
  <2>4. new = [old EXCEPT ![i] = v]
    BY <1>a, <2>3
  <2> QED  BY <2>4 DEF n, old, new, Changed
<1> QED  BY <1>5, <1>6 DEF old, new

-----------------------------------------------------------------------------
(* What a save puts down, and where.                                       *)

LEMMA ClustersFinite ==
  ASSUME NEW S \in SUBSET Clusters
  PROVE  IsFiniteSet(S) /\ Cardinality(S) \in Nat /\ S \in SUBSET Nat
<1>1. IsFiniteSet(Clusters)
  BY FS_Interval, GeometryAssumption DEF Clusters
<1> QED  BY <1>1, FS_Subset, FS_CardinalityType, ClusterNumbers

(* alloc finds as many clusters as it looks for, where there are as many.  *)
LEMMA LowestEnough ==
  ASSUME NEW n \in Nat, NEW S \in SUBSET Clusters, Cardinality(S) >= n
  PROVE  Cardinality(Lowest(n, S)) >= n
<1> DEFINE L == Lowest(n, S)
           c == Least(S \ L)
           below == {d \in S : d < c}
<1>1. L \in SUBSET Clusters /\ L \subseteq S
  BY DEF Lowest
<1>2. Cardinality(L) \in Nat /\ Cardinality(S) \in Nat /\ IsFiniteSet(S) /\ IsFiniteSet(L)
  BY <1>1, ClustersFinite
<1> SUFFICES ASSUME Cardinality(L) < n PROVE FALSE
  BY <1>2
<1>3. S \ L # {} /\ S \ L \in SUBSET Nat
  BY <1>1, <1>2, ClustersFinite
<1>4. c \in S \ L /\ \A y \in S \ L : c <= y
  BY <1>3, LeastIn
<1> HIDE DEF c
<1>5. below \subseteq L
  BY <1>3, <1>4, ClusterNumbers
<1>6. Cardinality(below) <= Cardinality(L) /\ Cardinality(below) \in Nat
  BY <1>1, <1>2, <1>5, FS_Subset, FS_CardinalityType
<1>7. c \in L
  BY <1>2, <1>4, <1>6 DEF Lowest
<1> QED  BY <1>4, <1>7

(* Save looks for clusters enough for the data.                            *)
LEMMA NeedEnough ==
  ASSUME NEW d \in Contents
  PROVE  Need(d) \in Nat /\ Len(d) \in Nat /\ Len(d) <= Spc * Need(d)
<1>1. Len(d) \in Nat /\ Spc \in Nat \ {0}
  BY UseAssumption, GeometryAssumption
<1> DEFINE a == Len(d) + Spc - 1
           r == a % Spc
           x == Need(d) * Spc
<1>2. a \in Nat
  BY <1>1
<1>3. Need(d) \in Nat /\ r \in 0..Spc - 1 /\ a = x + r
  BY <1>1, <1>2, Euclid DEF Need
<1>4. x = Spc * Need(d) /\ x \in Nat
  BY <1>1, <1>3
<1>5. Len(d) <= x
  <2> HIDE DEF x, r
  <2> QED  BY <1>1, <1>3, <1>4
<1> QED  BY <1>1, <1>3, <1>4, <1>5

(* The walk of a new file climbs through the clusters it was given, and    *)
(* comes to every one.                                                     *)
LEMMA LinkedClimbs ==
  ASSUME NEW nx, NEW got \in SUBSET Clusters, NEW k \in 0..NClusters,
         Walk(Linked(nx, got), FirstOf(got))[k] \in Clusters
  PROVE  /\ Walk(Linked(nx, got), FirstOf(got))[k] \in got
         /\ Walk(Linked(nx, got), FirstOf(got))[k] >= k + 2
<1> DEFINE li == Linked(nx, got)
           f == FirstOf(got)
           w == Walk(li, f)
           S == {j \in 0..NClusters : w[j] \in Clusters => w[j] \in got /\ w[j] >= j + 2}
<1>0. /\ NClusters \in Nat /\ NClusters # 0 /\ Clusters = 2..NClusters + 1
      /\ NClusters + 1 < EndOfChain
  BY GeometryAssumption DEF Clusters, EndOfChain
<1>1. f = 0 \/ f \in got
  BY DEF FirstOf
<1>2. w[0] = f
  BY <1>0, WalkStep
<1>3. ASSUME NEW c \in got PROVE li[c] \notin Clusters \/ (li[c] \in got /\ c < li[c])
  <2>1. CASE \E d \in got : Follows(got, c, d)
    <3>1. li[c] = CHOOSE d \in got : Follows(got, c, d)
      BY <2>1 DEF Linked
    <3>2. li[c] \in got /\ Follows(got, c, li[c])
      BY <2>1, <3>1
    <3> QED  BY <3>2 DEF Follows
  <2>2. CASE ~ \E d \in got : Follows(got, c, d)
    <3>1. li[c] = EndOfChain
      BY <2>2 DEF Linked
    <3> QED  BY <3>1, ClusterNumbers
  <2> QED  BY <2>1, <2>2
<1>4. ASSUME NEW j \in 0..NClusters - 1
      PROVE  /\ w[j] \in Clusters => w[j + 1] = li[w[j]]
             /\ w[j + 1] \in Clusters => w[j] \in Clusters
  BY WalkStep
<1> HIDE DEF w, f, li
<1>5. 0 \in S
  BY <1>0, <1>1, <1>2
<1>6. ASSUME NEW j \in 0..NClusters - 1, j \in S PROVE j + 1 \in S
  <2>1. j + 1 \in 0..NClusters
    BY <1>0
  <2> SUFFICES ASSUME w[j + 1] \in Clusters PROVE w[j + 1] \in got /\ w[j + 1] >= j + 1 + 2
    BY <2>1
  <2>2. w[j] \in Clusters /\ w[j + 1] = li[w[j]]
    BY <1>4
  <2>3. w[j] \in got /\ w[j] >= j + 2
    BY <1>6, <2>2
  <2>4. w[j + 1] \in got /\ w[j] < w[j + 1]
    BY <1>3, <2>2, <2>3
  <2> QED  BY <1>0, <2>2, <2>3, <2>4
<1> HIDE DEF S
<1>7. 0..NClusters \subseteq S
  BY <1>0, <1>5, <1>6, UpTo
<1> QED  BY <1>7 DEF S, w, f, li

LEMMA LinkedWalksAll ==
  ASSUME NEW nx, NEW got \in SUBSET Clusters
  PROVE  Cardinality(got) <= Cardinality(Steps(Linked(nx, got), FirstOf(got)))
<1> DEFINE li == Linked(nx, got)
           f == FirstOf(got)
           w == Walk(li, f)
           P == Steps(li, f)
           T == {w[k] : k \in P}
           onto == [k \in P |-> w[k]]
<1>0. /\ NClusters \in Nat /\ NClusters # 0 /\ Clusters = 2..NClusters + 1
  BY GeometryAssumption DEF Clusters
<1>1. P = {k \in 0..NClusters - 1 : w[k] \in Clusters}
  BY DEF Steps
<1>2. w[0] = f /\ \A k \in 0..NClusters - 1 : w[k] \in Clusters => w[k + 1] = li[w[k]]
  BY <1>0, WalkStep
<1>3. w[NClusters] \notin Clusters
  BY <1>0, LinkedClimbs
<1>4. got \subseteq Chain(li, f)
  BY LinkedHoldsAll
<1>5. IsFiniteSet(P) /\ Cardinality(P) \in Nat
  BY StepsAreFirst
<1> HIDE DEF P, w, f, li
<1>6. T \in SUBSET Clusters
  BY <1>1
<1>7. Closed(li, T)
  <2> SUFFICES ASSUME NEW k \in P, li[w[k]] \in Clusters PROVE li[w[k]] \in T
    BY DEF Closed
  <2>1. k \in 0..NClusters - 1 /\ w[k + 1] = li[w[k]]
    BY <1>1, <1>2
  <2>2. k + 1 # NClusters
    BY <1>3, <2>1
  <2>3. k + 1 \in P
    BY <1>0, <1>1, <2>1, <2>2
  <2> QED  BY <2>1, <2>3
<1>8. got \subseteq T
  <2>1. CASE f \in Clusters
    <3>1. f \in T
      BY <1>0, <1>1, <1>2, <2>1
    <3> HIDE DEF T
    <3> QED  BY <1>4, <1>6, <1>7, <3>1, ChainLeast
  <2>2. CASE f \notin Clusters
    BY <1>4, <2>2, ChainType
  <2> QED  BY <2>1, <2>2
<1>9. onto \in Surjection(P, T)
  BY DEF Surjection
<1> HIDE DEF onto, T
<1>10. IsFiniteSet(T) /\ Cardinality(T) <= Cardinality(P)
  BY <1>5, <1>9, FS_Surjection
<1>11. Cardinality(got) <= Cardinality(T)
  BY <1>8, <1>10, FS_Subset
<1>12. Cardinality(got) \in Nat /\ Cardinality(T) \in Nat
  BY <1>10, ClustersFinite, FS_CardinalityType
<1>13. Cardinality(got) <= Cardinality(P)
  BY <1>5, <1>10, <1>11, <1>12
<1> QED  BY <1>13 DEF P, f, li

(* A file just saved reads as what was saved.                              *)
LEMMA ReadWritten ==
  ASSUME NEW nx, Table(nx), NEW got, got \subseteq FreeIn(nx),
         NEW d \in Contents, Cardinality(got) >= Need(d),
         NEW e, e.size = Len(d), e.first = FirstOf(got)
  PROVE  ReadOf(Linked(nx, got), Written(Linked(nx, got), FirstOf(got), d), e) = d
<1> DEFINE li == Linked(nx, got)
           f == FirstOf(got)
           ct == Written(li, f, d)
           w == Walk(li, f)
           P == Steps(li, f)
           held == Spc * Cardinality(P)
<1>1. /\ got \in SUBSET Clusters /\ OneBefore(li) /\ IsHead(li, f)
      /\ d \in Seq(Values) /\ Spc \in Nat /\ NClusters \in Nat
  BY LinkedSound, UseAssumption, GeometryAssumption DEF Table, FreeIn
<1>2. Len(d) <= held
  <2>1. /\ Need(d) \in Nat /\ Len(d) \in Nat /\ Len(d) <= Spc * Need(d)
        /\ Cardinality(P) \in Nat /\ Cardinality(got) \in Nat
        /\ Cardinality(got) <= Cardinality(P)
    BY <1>1, NeedEnough, StepsAreFirst, ClustersFinite, LinkedWalksAll
  <2> DEFINE K == Cardinality(P)
             N == Need(d)
  <2> HIDE DEF P
  <2>2. N <= K
    BY <2>1
  <2> HIDE DEF K, N
  <2>3. N * Spc <= K * Spc
    BY <1>1, <2>1, <2>2, Products DEF N, K
  <2>4. N * Spc = Spc * N /\ K * Spc = Spc * K /\ Spc * N \in Nat /\ Spc * K \in Nat
    BY <1>1, <2>1 DEF N, K
  <2>5. Spc * N <= Spc * K
    BY <2>3, <2>4
  <2>6. Len(d) <= Spc * N
    BY <2>1 DEF N
  <2>7. Len(d) <= Spc * K
    <3> DEFINE x == Spc * N
               y == Spc * K
    <3>1. x \in Nat /\ y \in Nat /\ x <= y /\ Len(d) <= x
      BY <2>4, <2>5, <2>6
    <3> HIDE DEF x, y
    <3>2. Len(d) <= y
      BY <2>1, <3>1
    <3> QED  BY <3>2 DEF y
  <2> QED  BY <2>7 DEF K
<1>3. Extent(li, e) = Len(d)
  <2>1. held \in Nat /\ Len(d) \in Nat
    BY <1>1, StepsAreFirst, NeedEnough
  <2>2. Extent(li, e) = IF Len(d) < held THEN Len(d) ELSE held
    BY DEF Extent
  <2> HIDE DEF held
  <2> QED  BY <1>2, <2>1, <2>2
<1>4. ASSUME NEW i \in 1..Len(d) PROVE ct[w[StepOf(i)]][SectorOf(i)] = d[i]
  <2> DEFINE k == StepOf(i)
             s == SectorOf(i)
             c == w[k]
             places == {j \in 0..NClusters - 1 : w[j] = c}
  <2>1. /\ k \in 0..NClusters - 1 /\ s \in Sectors /\ (k * Spc) + s = i
        /\ c \in Clusters
    BY <1>3, ReadPlaces, NeedEnough
  <2>2. ct[c][s] = IF \E j \in 0..NClusters - 1 : w[j] = c /\ (j * Spc) + s <= Len(d)
                   THEN d[(Least(places) * Spc) + s] ELSE content[c][s]
    <3>1. c \in Clusters /\ s \in Sectors
      BY <2>1
    <3> HIDE DEF k, s, c, w, li, f
    <3> QED  BY <3>1 DEF Written, ct, w
  <2>3. \A j, m \in 0..NClusters : j < m /\ w[j] \in Clusters => w[m] # w[j]
    BY <1>1, WalkOnce
  <2> HIDE DEF w, ct
  <2>4. places = {k}
    <3>1. \A j \in places : ~ (j < k) /\ ~ (k < j)
      BY <1>1, <2>1, <2>3
    <3> HIDE DEF k
    <3> QED  BY <1>1, <2>1, <3>1
  <2>5. Least(places) = k
    <3>1. k \in Nat
      BY <1>1, <2>1
    <3> HIDE DEF places, k
    <3>2. places \in SUBSET Nat /\ places # {}
      BY <2>4, <3>1
    <3>3. Least(places) \in places
      BY <3>2, LeastIn
    <3> QED  BY <2>4, <3>3
  <2>6. (k * Spc) + s <= Len(d)
    BY <1>1, <2>1
  <2>7. \E j \in 0..NClusters - 1 : w[j] = c /\ (j * Spc) + s <= Len(d)
    <3> HIDE DEF k, s
    <3> QED  BY <2>1, <2>6
  <2> HIDE DEF places, k, s, c
  <2>8. ct[c][s] = d[(k * Spc) + s]
    BY <2>2, <2>5, <2>7, Zenon
  <2> QED  BY <2>1, <2>8 DEF k, s, c
<1>5. ReadOf(li, ct, e) = [i \in 1..Len(d) |-> ct[w[StepOf(i)]][SectorOf(i)]]
  BY <1>3 DEF ReadOf
<1> HIDE DEF w, ct, li, f
<1>6. ReadOf(li, ct, e) = [i \in 1..Len(d) |-> d[i]]
  BY <1>4, <1>5
<1>7. ReadOf(li, ct, e) = d
  BY <1>1, <1>6
<1> QED  BY <1>7 DEF ct, li, f

-----------------------------------------------------------------------------
(* The store: what each name holds, and what each call does to it.         *)

(* The directory by name.                                                  *)
Named(rt, n) == {i \in Slots : rt[i].kind = "file" /\ rt[i].name = n}
OpenOf(rt, nx, ct, n) ==
  IF Named(rt, n) = {} THEN NoFile ELSE ReadOf(nx, ct, rt[Least(Named(rt, n))])

LEMMA MatchesNamed == Ordered => \A n : Matches(n) = Named(root, n)
  BY DEF Ordered, Matches, Named

LEMMA OpenIs ==
  Ordered => \A n : Open(n) = OpenOf(root, fat, content, n)
  BY MatchesNamed, ReadIs DEF Open, OpenOf

LEMMA OpenIsNext ==
  (Ordered => \A n : Open(n) = OpenOf(root, fat, content, n))'
  BY OpenIs, PTL

(* A name is in the directory once.                                        *)
NamedOnce ==
  \A i, j \in Slots : /\ root[i].kind = "file" /\ root[j].kind = "file"
                      /\ root[i].name = root[j].name
                      => i = j
StoreInv == IInv /\ NothingLost /\ NamedOnce

LEMMA LeastOne == \A i \in Nat : Least({i}) = i
  BY LeastIn

View == [n \in Names |-> Open(n)]

(* Save into entry i, of a name no other entry has, with the chains of the *)
(* other entries as they were: the name holds what was saved, and every    *)
(* other name what it held.                                                *)
LEMMA SaveStores ==
  ASSUME StoreInv, StoreInv', NEW i \in Slots, NEW nx, Table(nx),
         \A j \in Slots \ {i} : Held(j) =>
           \A c \in Chain(fat, root[j].first) : nx[c] = fat[c] /\ nx[c] # Unused,
         NEW n \in Names, NEW d \in Contents, SaveIn(i, nx, n, d),
         Named(root, n) \subseteq {i},
         root[i].kind = "file" => root[i].name = n
  PROVE  View' = [View EXCEPT ![n] = d]
<1> DEFINE got == Lowest(Need(d), FreeIn(nx))
           f   == FirstOf(got)
           e   == FileEntry(i, n, d, f)
<1>1. /\ fat' = Linked(nx, got)
      /\ content' = Written(Linked(nx, got), f, d)
      /\ root' = [root EXCEPT ![i] = e]
      /\ Cardinality(FreeIn(nx)) >= Need(d)
  BY Zenon DEF SaveIn
<1>2. got \subseteq FreeIn(nx) /\ got \in SUBSET Clusters /\ FreeIn(nx) \in SUBSET Clusters
  BY LowestFree DEF FreeIn
<1>3. Cardinality(got) >= Need(d)
  BY <1>1, <1>2, NeedEnough, LowestEnough
<1>4. e.size = Len(d) /\ e.first = f /\ e.kind = "file" /\ e.name = n
  BY DEF FileEntry, Entry
<1>5. root \in [Slots -> Entries] /\ root' \in [Slots -> Entries]
  BY DEF StoreInv, IInv, Shape
<1>6. root'[i] = e /\ \A j \in Slots \ {i} : root'[j] = root[j]
  BY <1>1, <1>5
<1>7. /\ \A m : Open(m) = OpenOf(root, fat, content, m)
      /\ \A m : Open(m)' = OpenOf(root', fat', content', m)
  BY OpenIs, OpenIsNext DEF StoreInv, NothingLost, TypeOK, Ordered
<1> HIDE DEF got, f, e
<1>8. Open(n)' = d
  <2>1. Named(root', n) = {i}
    BY <1>4, <1>6 DEF Named
  <2>2. ReadOf(fat', content', e) = d
    BY <1>1, <1>2, <1>3, <1>4, ReadWritten DEF f
  <2>3. OpenOf(root', fat', content', n) = ReadOf(fat', content', root'[i])
    BY <2>1, LeastOne DEF OpenOf, Slots
  <2>4. Open(n)' = OpenOf(root', fat', content', n)
    BY <1>7
  <2> QED  BY <1>6, <2>2, <2>3, <2>4
<1>9. ASSUME NEW m \in Names, m # n PROVE Open(m)' = Open(m)
  <2>1. Named(root', m) = Named(root, m) /\ i \notin Named(root, m)
    BY <1>4, <1>6, <1>9 DEF Named
  <2>2. CASE Named(root, m) = {}
    BY <1>7, <2>1, <2>2 DEF OpenOf
  <2>3. CASE Named(root, m) # {}
    <3>1. PICK j : j = Least(Named(root, m))
      OBVIOUS
    <3>2. j \in Named(root, m)
      <4>1. Named(root, m) \in SUBSET Nat
        BY DEF Named, Slots
      <4> QED  BY <2>3, <3>1, <4>1, LeastIn
    <3>3. j \in Slots \ {i} /\ Held(j) /\ root[j] \in Entries /\ root[j].kind = "file"
      BY <1>5, <2>1, <3>2 DEF Named, Held
    <3>4. root[j].size \in Nat
      BY <3>3 DEF Entries, Never, Deleted, Entry
    <3>5. ASSUME NEW c \in Chain(fat, root[j].first)
          PROVE  fat'[c] = fat[c] /\ content'[c] = content[c]
      <4>1. c \in Clusters /\ c \notin got /\ nx[c] = fat[c]
        BY <1>2, <3>3, ChainType DEF FreeIn
      <4>2. fat'[c] = fat[c]
        BY <1>1, <4>1 DEF Linked
      <4>3. \A k \in 0..NClusters - 1 : Walk(Linked(nx, got), f)[k] # c
        <5>1. 0..NClusters - 1 \subseteq 0..NClusters
          BY GeometryAssumption
        <5> QED  BY <1>2, <4>1, <5>1, LinkedClimbs DEF f
      <4>4. content[c] = [s \in Sectors |-> content[c][s]]
        BY <4>1 DEF StoreInv, NothingLost, TypeOK
      <4>5. content'[c] = [s \in Sectors |-> content[c][s]]
        BY <1>1, <4>1, <4>3 DEF Written
      <4> QED  BY <4>2, <4>4, <4>5
    <3>6. ReadOf(fat', content', root[j]) = ReadOf(fat, content, root[j])
      <4>1. PICK ent : ent = root[j]
        OBVIOUS
      <4> QED  BY <3>4, <3>5, <4>1, ReadSame
    <3> QED  BY <1>6, <1>7, <2>1, <2>3, <3>1, <3>3, <3>6 DEF OpenOf
  <2> QED  BY <2>2, <2>3
<1>10. View' = [m \in Names |-> Open(m)']
  BY DEF View
<1>11. View = [m \in Names |-> Open(m)]
  BY DEF View
<1> QED  BY <1>8, <1>9, <1>10, <1>11

(* The other entries' chains, when one entry's is freed.                   *)
LEMMA FreedLeaves ==
  ASSUME StoreInv, ~ torn, NEW i \in Slots, Held(i)
  PROVE  /\ Table(Freed(fat, root[i].first))
         /\ \A j \in Slots \ {i} : Held(j) =>
              \A c \in Chain(fat, root[j].first) :
                /\ Freed(fat, root[i].first)[c] = fat[c]
                /\ Freed(fat, root[i].first)[c] # Unused
<1>1. Table(fat) /\ Heads /\ IInv
  BY DEF StoreInv, IInv, Sound
<1>2. Table(Freed(fat, root[i].first))
  BY <1>1, FreedOthers
<1>3. ASSUME NEW j \in Slots \ {i}, Held(j), NEW c \in Chain(fat, root[j].first)
      PROVE  c \in Clusters /\ c \notin Chain(fat, root[i].first) /\ fat[c] # Unused
  <2>1. IsHead(fat, root[i].first) /\ IsHead(fat, root[j].first)
    BY <1>1, <1>3 DEF Heads
  <2>2. root[i].first \in Clusters => root[i].first # root[j].first
    BY <1>1, <1>3 DEF Heads
  <2>3. Chain(fat, root[i].first) \cap Chain(fat, root[j].first) = {}
    BY <1>1, <2>1, <2>2, ChainsApart
  <2> QED  BY <1>1, <1>3, <2>1, <2>3, ChainInUse, ChainType
<1> QED  BY <1>2, <1>3 DEF Freed

(* A name stays in the directory once: a save renames no other entry.      *)
LEMMA StaysNamedOnce ==
  ASSUME StoreInv, NEW i \in Slots, NEW e \in Entries, root' = [root EXCEPT ![i] = e],
         e.kind = "file" => Named(root, e.name) \subseteq {i}
  PROVE  NamedOnce'
<1>1. root'[i] = e /\ \A j \in Slots \ {i} : root'[j] = root[j]
  BY DEF StoreInv, IInv, Shape
<1>2. \A j \in Slots \ {i} : e.kind = "file" /\ root[j].kind = "file" => root[j].name # e.name
  BY DEF Named
<1> QED  BY <1>1, <1>2 DEF StoreInv, NamedOnce

LEMMA FileEntryType ==
  ASSUME NEW i, NEW n \in Names, NEW d \in Contents, NEW f \in Clusters \cup {0}
  PROVE  FileEntry(i, n, d, f) \in Entries /\ FileEntry(i, n, d, f).name = n
<1>1. Len(d) \in Nat
  BY NeedEnough
<1> QED  BY <1>1 DEF FileEntry, Entry, Entries

LEMMA SaveNamedOnce ==
  ASSUME StoreInv, NEW i \in Slots, NEW nx, TableType(nx),
         NEW n \in Names, NEW d \in Contents, SaveIn(i, nx, n, d),
         Named(root, n) \subseteq {i}
  PROVE  NamedOnce'
<1> DEFINE got == Lowest(Need(d), FreeIn(nx))
           f   == FirstOf(got)
<1>1. root' = [root EXCEPT ![i] = FileEntry(i, n, d, f)]
  BY Zenon DEF SaveIn
<1>2. got \subseteq FreeIn(nx)
  BY LowestFree
<1>3. f \in Clusters \cup {0}
  BY <1>2, LinkedType
<1> DEFINE e == FileEntry(i, n, d, f)
<1> HIDE DEF got, f
<1>4. e \in Entries /\ e.name = n
  BY <1>3, FileEntryType
<1>5. root' = [root EXCEPT ![i] = e]
  BY <1>1
<1> HIDE DEF e
<1> QED  BY <1>4, <1>5, StaysNamedOnce

(* Which entry each call is about.                                         *)
LEMMA TheEntry ==
  ASSUME StoreInv, NEW n, Matches(n) # {}
  PROVE  LET i == Least(Matches(n))
         IN /\ i \in Slots /\ Held(i) /\ root[i].kind = "file" /\ root[i].name = n
            /\ Named(root, n) = {i}
<1>1. Matches(n) \in SUBSET Nat
  BY DEF Matches, Slots
<1>2. Least(Matches(n)) \in Matches(n)
  BY <1>1, LeastIn
<1>3. Matches(n) = Named(root, n)
  BY MatchesNamed DEF StoreInv, NothingLost, TypeOK, Ordered
<1> QED  BY <1>2, <1>3 DEF Named, Held, StoreInv, NamedOnce

LEMMA InitNamedOnce == Init => NamedOnce
  BY DEF Init, NamedOnce, Entry, Never

LEMMA NextNamedOnce == StoreInv /\ [Next]_vars => NamedOnce'
<1> SUFFICES ASSUME StoreInv, [Next]_vars PROVE NamedOnce'
  OBVIOUS
<1>1. ASSUME NEW n \in Names, Delete(n) PROVE NamedOnce'
  <2>1. PICK i \in Slots : root' = [root EXCEPT ![i] = Deleted]
    BY <1>1, TheEntry DEF Delete
  <2>2. Deleted \in Entries /\ Deleted.kind # "file"
    BY DEF Entries, Deleted, Entry
  <2> QED  BY <2>1, <2>2, StaysNamedOnce
<1>2. ASSUME NEW n \in Names, NEW d \in Contents, Replace(n, d) PROVE NamedOnce'
  <2> DEFINE i == Least(Matches(n))
  <2>1. i \in Slots /\ Named(root, n) = {i} /\ SaveIn(i, Freed(fat, root[i].first), n, d)
    BY <1>2, TheEntry DEF Replace
  <2> HIDE DEF i
  <2>2. TableType(Freed(fat, root[i].first))
    BY FreedType DEF StoreInv, IInv, Shape
  <2> QED  BY <2>1, <2>2, SaveNamedOnce
<1>3. ASSUME NEW n \in Names, NEW d \in Contents, Create(n, d) PROVE NamedOnce'
  <2> DEFINE i == Least(Vacant)
  <2>1. i \in Slots /\ SaveIn(i, fat, n, d) /\ Matches(n) = {}
    BY <1>3, VacantReached DEF Create
  <2> HIDE DEF i
  <2>2. Named(root, n) = {} /\ TableType(fat)
    BY <2>1, MatchesNamed DEF StoreInv, NothingLost, TypeOK, Ordered, TableType
  <2> QED  BY <2>1, <2>2, SaveNamedOnce
<1>4. ASSUME UNCHANGED root PROVE NamedOnce'
  BY <1>4 DEF StoreInv, NamedOnce
<1>5. ASSUME \/ \E n \in Names, d \in Contents : ReplaceFails(n, d)
             \/ \E at \in RawSectors, v \in Values : WriteSector(at[1], at[2], v)
             \/ UNCHANGED vars
      PROVE  UNCHANGED root
  BY <1>5 DEF ReplaceFails, WriteSector, vars
<1> QED  BY <1>1, <1>2, <1>3, <1>4, <1>5 DEF Next

LEMMA StoreInduct ==
  (Init => StoreInv) /\ (StoreInv /\ [Next]_vars => StoreInv')
<1>1. Init => StoreInv
  BY InitSound, InitLosesNothing, InitNamedOnce DEF StoreInv
<1>2. StoreInv /\ [Next]_vars => StoreInv'
  <2> SUFFICES ASSUME StoreInv, [Next]_vars PROVE StoreInv'
    OBVIOUS
  <2>1. IInv'
    BY NextStep DEF StoreInv
  <2>2. NothingLost'
    BY NextLosesNothing DEF StoreInv
  <2>3. NamedOnce'
    BY NextNamedOnce
  <2> QED  BY <2>1, <2>2, <2>3 DEF StoreInv
<1> QED  BY <1>1, <1>2

LEMMA OpensAre ==
  ASSUME StoreInv, StoreInv'
  PROVE  /\ \A n : Open(n) = OpenOf(root, fat, content, n)
         /\ \A n : Open(n)' = OpenOf(root', fat', content', n)
         /\ View = [n \in Names |-> Open(n)]
         /\ View' = [n \in Names |-> Open(n)']
  BY OpenIs, OpenIsNext DEF StoreInv, NothingLost, TypeOK, Ordered, View

LEMMA ReplaceStores ==
  ASSUME StoreInv, StoreInv', ~ torn, NEW n \in Names, NEW d \in Contents, Replace(n, d)
  PROVE  View' = [View EXCEPT ![n] = d]
<1> DEFINE i == Least(Matches(n))
<1>1. /\ i \in Slots /\ Held(i) /\ root[i].name = n /\ Named(root, n) = {i}
      /\ SaveIn(i, Freed(fat, root[i].first), n, d)
  BY TheEntry DEF Replace
<1> HIDE DEF i
<1> DEFINE nx == Freed(fat, root[i].first)
<1>2. /\ Table(nx)
      /\ \A j \in Slots \ {i} : Held(j) =>
           \A c \in Chain(fat, root[j].first) : nx[c] = fat[c] /\ nx[c] # Unused
  BY <1>1, FreedLeaves
<1>3. SaveIn(i, nx, n, d)
  BY <1>1
<1> HIDE DEF nx
<1> QED  BY <1>1, <1>2, <1>3, SaveStores

LEMMA CreateStores ==
  ASSUME StoreInv, StoreInv', ~ torn, NEW n \in Names, NEW d \in Contents, Create(n, d)
  PROVE  View' = [View EXCEPT ![n] = d]
<1> DEFINE i == Least(Vacant)
<1>1. i \in Slots /\ ~ Held(i) /\ Matches(n) = {} /\ SaveIn(i, fat, n, d)
  BY VacantReached DEF Create
<1> HIDE DEF i
<1>2. Table(fat) /\ Heads
  BY DEF StoreInv, IInv, Sound
<1>3. Named(root, n) = {} /\ root[i].kind # "file"
  BY <1>1, MatchesNamed DEF Held, StoreInv, NothingLost, TypeOK, Ordered
<1>4. \A j \in Slots \ {i} : Held(j) =>
        \A c \in Chain(fat, root[j].first) : fat[c] # Unused
  BY <1>2, ChainInUse DEF Heads
<1> QED  BY <1>1, <1>2, <1>3, <1>4, SaveStores

(* Every file but the one whose entry changes reads as it did.             *)
LEMMA OthersRead ==
  ASSUME NEW n, Named(root', n) = Named(root, n),
         \A j \in Named(root, n) :
           /\ root'[j] = root[j] /\ root[j].size \in Nat
           /\ \A c \in Chain(fat, root[j].first) : fat'[c] = fat[c] /\ content'[c] = content[c]
  PROVE  OpenOf(root', fat', content', n) = OpenOf(root, fat, content, n)
<1>1. CASE Named(root, n) = {}
  BY <1>1 DEF OpenOf
<1>2. CASE Named(root, n) # {}
  <2>1. PICK j : j = Least(Named(root, n))
    OBVIOUS
  <2>2. j \in Named(root, n)
    <3>1. Named(root, n) \in SUBSET Nat
      BY DEF Named, Slots
    <3> QED  BY <1>2, <2>1, <3>1, LeastIn
  <2>3. PICK e : e = root[j]
    OBVIOUS
  <2>4. ReadOf(fat', content', e) = ReadOf(fat, content, e)
    BY <2>2, <2>3, ReadSame
  <2> QED  BY <1>2, <2>1, <2>2, <2>3, <2>4 DEF OpenOf
<1> QED  BY <1>1, <1>2

LEMMA SizesAre == StoreInv => \A n : \A j \in Named(root, n) : root[j].size \in Nat
<1> SUFFICES ASSUME StoreInv, NEW n, NEW j \in Named(root, n) PROVE root[j].size \in Nat
  OBVIOUS
<1>1. root[j] \in Entries /\ root[j].kind = "file"
  BY DEF StoreInv, IInv, Shape, Named
<1> QED  BY <1>1 DEF Entries, Never, Deleted, Entry

(* What is read of a file is never taken for no file.                      *)
LEMMA ReadNotMissing ==
  ASSUME NEW s \in Seq(Values \cup {0}) PROVE s # NoFile
<1> SUFFICES ASSUME s = <<-1>> PROVE FALSE
  BY DEF NoFile
<1>1. Len(s) = 1 /\ s[1] = -1
  OBVIOUS
<1>2. s[1] \in Values \cup {0}
  BY <1>1
<1> QED  BY <1>1, <1>2, UseAssumption

LEMMA DeleteStores ==
  ASSUME StoreInv, StoreInv', ~ torn, NEW n \in Names, Delete(n)
  PROVE  View[n] # NoFile /\ View' = [View EXCEPT ![n] = NoFile]
<1> DEFINE i == Least(Matches(n))
<1>1. /\ i \in Slots /\ Held(i) /\ root[i].name = n /\ Named(root, n) = {i}
      /\ root[i].kind = "file"
  BY TheEntry DEF Delete
<1>2. /\ fat' = Freed(fat, root[i].first) /\ root' = [root EXCEPT ![i] = Deleted]
      /\ content' = content
  BY DEF Delete
<1> HIDE DEF i
<1>3. root'[i] = Deleted /\ \A j \in Slots \ {i} : root'[j] = root[j]
  BY <1>1, <1>2 DEF StoreInv, IInv, Shape
<1>4. \A j \in Slots \ {i} : Held(j) =>
        \A c \in Chain(fat, root[j].first) : fat'[c] = fat[c]
  BY <1>1, <1>2, FreedLeaves
<1>5. Open(n)' = NoFile
  <2>1. Named(root', n) = {}
    BY <1>1, <1>3 DEF Named, Deleted, Entry
  <2>2. Open(n)' = OpenOf(root', fat', content', n)
    BY OpensAre
  <2> QED  BY <2>1, <2>2 DEF OpenOf
<1>6. Open(n) # NoFile
  <2>1. PICK e : e = root[i]
    OBVIOUS
  <2>2. e.size \in Nat /\ ContentType(content)
    BY <1>1, <2>1, SizesAre DEF StoreInv, NothingLost, TypeOK, ContentType
  <2>3. ReadOf(fat, content, e) # NoFile
    BY <2>2, ReadType, ReadNotMissing
  <2>4. Open(n) = OpenOf(root, fat, content, n)
    BY OpensAre
  <2>5. OpenOf(root, fat, content, n) = ReadOf(fat, content, root[i])
    BY <1>1, LeastOne DEF OpenOf, Slots
  <2> QED  BY <2>1, <2>3, <2>4, <2>5
<1>7. ASSUME NEW m \in Names, m # n PROVE Open(m)' = Open(m)
  <2>1. Named(root', m) = Named(root, m) /\ i \notin Named(root, m)
    BY <1>1, <1>3, <1>7 DEF Named, Deleted, Entry
  <2>2. ASSUME NEW j \in Named(root, m)
        PROVE  /\ root'[j] = root[j] /\ root[j].size \in Nat
               /\ \A c \in Chain(fat, root[j].first) :
                    fat'[c] = fat[c] /\ content'[c] = content[c]
    <3>1. j \in Slots \ {i} /\ Held(j) /\ root[j].size \in Nat
      BY <2>1, SizesAre DEF Named, Held
    <3> QED  BY <1>2, <1>3, <1>4, <3>1
  <2>3. OpenOf(root', fat', content', m) = OpenOf(root, fat, content, m)
    BY <2>1, <2>2, OthersRead
  <2> QED  BY <2>3, OpensAre
<1> QED  BY <1>5, <1>6, <1>7, OpensAre

(* A sector written by its number shows in one file at most, and there in  *)
(* one sector.                                                             *)
LEMMA SectorStores ==
  ASSUME StoreInv, StoreInv', ~ torn, NEW c \in Clusters, NEW s \in Sectors, NEW v,
         WriteSector(c, s, v)
  PROVE  \/ View' = View
         \/ \E n \in Names : /\ View[n] # NoFile
                             /\ \E i \in 1..Len(View[n]) : View' = [View EXCEPT ![n][i] = v]
<1>1. fat' = fat /\ root' = root /\ content' = [content EXCEPT ![c][s] = v]
  BY DEF WriteSector
<1>2. ContentType(content) /\ Table(fat) /\ Heads /\ root \in [Slots -> Entries]
  BY DEF StoreInv, NothingLost, TypeOK, ContentType, IInv, Sound, Shape
<1>3. \A b \in Clusters \ {c} : content'[b] = content[b]
  BY <1>1, <1>2 DEF ContentType
<1>4. ASSUME NEW m \in Names, \A j \in Named(root, m) : c \notin Chain(fat, root[j].first)
      PROVE  Open(m)' = Open(m)
  <2>1. ASSUME NEW j \in Named(root, m)
        PROVE  /\ root'[j] = root[j] /\ root[j].size \in Nat
               /\ \A b \in Chain(fat, root[j].first) :
                    fat'[b] = fat[b] /\ content'[b] = content[b]
    <3>1. root[j].size \in Nat
      BY <2>1, SizesAre
    <3>2. \A b \in Chain(fat, root[j].first) : b \in Clusters \ {c}
      BY <1>4, <2>1, ChainType
    <3> QED  BY <1>1, <1>3, <3>1, <3>2
  <2>2. OpenOf(root', fat', content', m) = OpenOf(root, fat, content, m)
    BY <1>1, <2>1, OthersRead
  <2> QED  BY <2>2, OpensAre
<1>5. CASE \A m \in Names : \A j \in Named(root, m) : c \notin Chain(fat, root[j].first)
  BY <1>4, <1>5, OpensAre
<1>6. ASSUME NEW n \in Names, NEW j \in Named(root, n), c \in Chain(fat, root[j].first)
      PROVE  \/ View' = View
             \/ /\ View[n] # NoFile
                /\ \E i \in 1..Len(View[n]) : View' = [View EXCEPT ![n][i] = v]
  <2>1. j \in Slots /\ Held(j) /\ root[j].size \in Nat /\ Named(root, n) = {j} /\ j \in Nat
    BY <1>6, SizesAre DEF Named, Held, StoreInv, NamedOnce, Slots
  <2>2. PICK e : e = root[j]
    OBVIOUS
  <2> DEFINE old == ReadOf(fat, content, e)
             new == ReadOf(fat, content', e)
  <2>3. Open(n) = old /\ Open(n)' = new
    <3>1. Least(Named(root, n)) = j
      BY <2>1, LeastOne
    <3> QED  BY <1>1, <2>1, <2>2, <3>1, OpensAre DEF OpenOf
  <2>4. e.size \in Nat /\ OneBefore(fat) /\ IsHead(fat, e.first)
    BY <1>2, <2>1, <2>2 DEF Heads, Table
  <2>5. new = old \/ \E i \in 1..Extent(fat, e) : new = Changed(old, i, v)
    <3> HIDE DEF old, new
    <3>1. OneBefore(fat) /\ ContentType(content) /\ content' = Patched(content, c, s, v)
      BY <1>1, <1>2 DEF Table, Patched
    <3> QED  BY <2>4, <3>1, ReadPatched DEF old, new
  <2>6. old \in Seq(Values \cup {0}) /\ Len(old) = Extent(fat, e) /\ old # NoFile
    BY <1>2, <2>4, ReadType, ReadNotMissing
  <2>7. ASSUME NEW m \in Names, m # n PROVE Open(m)' = Open(m)
    <3>1. ASSUME NEW k \in Named(root, m) PROVE c \notin Chain(fat, root[k].first)
      <4>1. k \in Slots /\ Held(k) /\ k # j
        BY <2>1, <2>7, <3>1, <1>6 DEF Named, Held
      <4>2. /\ IsHead(fat, root[k].first) /\ IsHead(fat, root[j].first)
            /\ root[j].first \in Clusters => root[j].first # root[k].first
        BY <1>2, <2>1, <4>1 DEF Heads
      <4>3. Chain(fat, root[j].first) \cap Chain(fat, root[k].first) = {}
        BY <1>2, <4>2, ChainsApart
      <4> QED  BY <1>6, <4>3
    <3> QED  BY <1>4, <3>1
  <2> HIDE DEF old, new
  <2>8. CASE new = old
    BY <2>3, <2>7, <2>8, OpensAre
  <2>9. ASSUME NEW i \in 1..Extent(fat, e), new = Changed(old, i, v)
        PROVE  /\ View[n] # NoFile /\ i \in 1..Len(View[n])
               /\ View' = [View EXCEPT ![n][i] = v]
    <3>1. View[n] = old /\ View = [m \in Names |-> View[m]]
      BY <2>3, OpensAre
    <3>2. View' = [View EXCEPT ![n] = new]
      BY <2>3, <2>7, OpensAre
    <3>3. [View EXCEPT ![n][i] = v] = [View EXCEPT ![n] = [old EXCEPT ![i] = v]]
      BY <3>1
    <3> QED  BY <2>6, <2>9, <3>1, <3>2, <3>3 DEF Changed
  <2> QED  BY <2>5, <2>8, <2>9
<1> QED  BY <1>5, <1>6

LEMMA StoreStep ==
  ASSUME StoreInv, StoreInv', [Next]_vars
  PROVE  torn' \/ Store!Next \/ UNCHANGED <<torn, View>>
<1>0. Store!Missing = NoFile
  BY DEF Store!Missing, NoFile
<1> SUFFICES ASSUME ~ torn' PROVE Store!Next \/ UNCHANGED <<torn, View>>
  OBVIOUS
<1>1. ASSUME NEW n \in Names, NEW d \in Contents, View' = [View EXCEPT ![n] = d]
      PROVE  Store!Next
  BY <1>1 DEF Store!Next, Store!Save, View
<1>2. ASSUME NEW n \in Names, Delete(n) PROVE Store!Next
  <2>1. ~ torn
    BY <1>2 DEF Delete
  <2> QED  BY <1>0, <1>2, <2>1, DeleteStores DEF Store!Next, Store!Delete, View
<1>3. ASSUME NEW n \in Names, NEW d \in Contents, Replace(n, d) PROVE Store!Next
  <2>1. ~ torn
    BY <1>3 DEF Replace, SaveIn
  <2> QED  BY <1>1, <1>3, <2>1, ReplaceStores
<1>4. ASSUME NEW n \in Names, NEW d \in Contents, Create(n, d) PROVE Store!Next
  <2>1. ~ torn
    BY <1>4 DEF Create, SaveIn
  <2> QED  BY <1>1, <1>4, <2>1, CreateStores
<1>5. ASSUME NEW n \in Names, NEW d \in Contents, ReplaceFails(n, d) PROVE FALSE
  BY <1>5 DEF ReplaceFails
<1>6. ASSUME NEW at \in RawSectors, NEW v \in Values, WriteSector(at[1], at[2], v)
      PROVE  Store!Next \/ UNCHANGED <<torn, View>>
  <2>1. torn' = torn /\ ~ torn /\ at[1] \in Clusters /\ at[2] \in Sectors
    BY <1>6, UseAssumption DEF WriteSector
  <2>2. \/ View' = View
        \/ \E n \in Names : /\ View[n] # NoFile
                            /\ \E i \in 1..Len(View[n]) : View' = [View EXCEPT ![n][i] = v]
    BY <1>6, <2>1, SectorStores
  <2>3. ASSUME NEW n \in Names, View[n] # NoFile, NEW i \in 1..Len(View[n]),
               View' = [View EXCEPT ![n][i] = v]
        PROVE  Store!Next
    <3>1. Store!Overwrite(n, i, v)
      BY <1>0, <2>3 DEF Store!Overwrite, View
    <3>2. i \in 1..Len([m \in Names |-> Open(m)][n])
      BY DEF View
    <3> QED  BY <3>1, <3>2 DEF Store!Next
  <2> QED  BY <2>1, <2>2, <2>3
<1>7. CASE UNCHANGED vars
  <2>1. /\ fat' = fat /\ root' = root /\ content' = content /\ torn' = torn
    BY <1>7 DEF vars
  <2> QED  BY <2>1, OpensAre
<1> QED  BY <1>2, <1>3, <1>4, <1>5, <1>6, <1>7 DEF Next

LEMMA StoreStart == Init => Store!Init
<1> SUFFICES ASSUME Init PROVE Store!Init
  OBVIOUS
<1>1. Ordered
  BY InitLosesNothing DEF NothingLost, TypeOK, Ordered
<1>2. \A n : Named(root, n) = {}
  BY DEF Init, Named, Entry, Never
<1>3. \A n : Open(n) = NoFile
  BY <1>1, <1>2, OpenIs DEF OpenOf
<1> QED  BY <1>3 DEF Store!Init, Store!Missing, NoFile

(* The table, the directory and the data area of a floppy implement a      *)
(* store of files by name: what is saved under a name is what is read      *)
(* there until it is saved again or deleted, no call shows in another      *)
(* file, and a sector written by its number changes one sector of one file *)
(* at most.  For every size of floppy, cluster, directory and file, until  *)
(* a replacement fails on a full disk (disk.go, Save, Delete, Open,        *)
(* WriteSector).                                                           *)
THEOREM FilesAreStored == Spec => ImplementsFileStore
<1>1. Spec => []StoreInv
  BY StoreInduct, PTL DEF Spec
<1>2. StoreInv /\ StoreInv' /\ [Next]_vars
        => [torn' \/ Store!Next]_<<torn, [n \in Names |-> Open(n)]>>
  BY StoreStep DEF View
<1> QED  BY <1>1, <1>2, StoreStart, PTL DEF Spec, ImplementsFileStore
=============================================================================
