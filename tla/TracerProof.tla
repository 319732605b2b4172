---------------------------- MODULE TracerProof ----------------------------
(***************************************************************************)
(* Proofs about Tracer: what a walk takes for granted is so                *)
(* (WalksAreSound), and the search is closed when it is reported (Closed), *)
(* for every cartridge, mapper, entry and bound.                           *)
(*                                                                         *)
(* SearchInv says of the search in the middle of a run what Closed says of *)
(* it at the end: whatever an instruction decoded so far leads to is       *)
(* answered, or still in the queue, or where the walk is (SoFar).  WalkInv *)
(* says of the program beside the walk what NeverInvents needs of its      *)
(* registers, stack and memory together: a value that the walk does not    *)
(* know, but knows to have come from a bank shadow, is the bank that the   *)
(* shadow's page had when the path began (Agree), which is why a switch    *)
(* back to it may be taken for a restore (applyStores).                    *)
(***************************************************************************)
EXTENDS Tracer, FiniteSetTheorems, SequenceTheorems, WellFoundedInduction, TLAPS

-----------------------------------------------------------------------------
(* The registers and the stores of one instruction (TracerStep): they keep *)
(* their types.                                                            *)

(* The registers: a known or unknown byte and where it came from, and a    *)
(* stack of pairs of them.                                                 *)
Values == [v : Int, src : Int]
Entry == Values \X Values
Regs == [r : [RegNames -> Values], stk : Seq(Entry)]

(* The halves of the pairs are registers.                                  *)
LEMMA HalvesAre ==
  /\ Hi["BC"] = "B" /\ Hi["DE"] = "D" /\ Hi["HL"] = "H" /\ Hi["AF"] = "A"
  /\ Lo["BC"] = "C" /\ Lo["DE"] = "E" /\ Lo["HL"] = "L"
  /\ \A p \in PairNames : Hi[p] \in RegNames /\ Lo[p] \in RegNames /\ Hi[p] # Lo[p]
BY DEF Hi, Lo, PairNames, RegNames

(* Arithmetic on bytes and words gives numbers.                            *)
LEMMA BytesAre ==
  ASSUME NEW a, a \in Int, NEW b, b \in Int
  PROVE  /\ HiByte(a) \in Int /\ LoByte(a) \in Int /\ Word(a, b) \in Int
         /\ AddByte(a, b) \in Int /\ AddWord(a, b) \in Int
<1>1. ByteSize \in Nat /\ ByteSize > 0
  BY StepAssumption
<1>2. ByteSize * ByteSize \in Nat /\ ByteSize * ByteSize > 0
  BY <1>1
<1>3. \A n \in Int, m \in Nat : m > 0 => n % m \in Int /\ n \div m \in Int
  OBVIOUS
<1>4. a + b \in Int /\ a * ByteSize \in Int
  BY <1>1
<1>5. a \div ByteSize \in Int
  BY <1>1, <1>3
<1> QED  BY <1>1, <1>2, <1>3, <1>4, <1>5 DEF HiByte, LoByte, Word, AddByte, AddWord

(* A register set, the rest stays.                                         *)
LEMMA SetRegIn ==
  ASSUME NEW g \in Regs, NEW k \in RegNames, NEW v, v \in Int, NEW src, src \in Int
  PROVE  /\ SetReg(g, k, v, src) \in Regs
         /\ SetReg(g, k, v, src).stk = g.stk
         /\ SetReg(g, k, v, src).r = [g.r EXCEPT ![k] = Value(v, src)]
BY DEF SetReg, Regs, Value, Values

(* A pair is known when both its halves are.                               *)
LEMMA PairOfIs ==
  ASSUME NEW g \in Regs, NEW p \in PairNames
  PROVE  /\ PairOf(g, p) \in Int
         /\ PairOf(g, p) # Unknown =>
              /\ g.r[Hi[p]].v # Unknown /\ g.r[Lo[p]].v # Unknown
              /\ PairOf(g, p) = Word(g.r[Hi[p]].v, g.r[Lo[p]].v)
<1>1. g.r[Hi[p]].v \in Int /\ g.r[Lo[p]].v \in Int
  <2>1. Hi[p] \in RegNames /\ Lo[p] \in RegNames
    BY HalvesAre
  <2>2. g.r[Hi[p]] \in Values /\ g.r[Lo[p]] \in Values
    BY <2>1 DEF Regs
  <2> QED  BY <2>2 DEF Values
<1>2. Word(g.r[Hi[p]].v, g.r[Lo[p]].v) \in Int
  BY <1>1, BytesAre
<1> QED  BY <1>1, <1>2 DEF PairOf, Unknown

(* A pair set or forgotten, the stack stays.                               *)
LEMMA SetPairIn ==
  ASSUME NEW g \in Regs, NEW p \in PairNames, NEW n, n \in Int
  PROVE  /\ SetPair(g, p, n) \in Regs
         /\ SetPair(g, p, n).stk = g.stk
         /\ n # Unknown => SetPair(g, p, n).r = [g.r EXCEPT ![Hi[p]] = Value(HiByte(n), Nosrc),
                                                           ![Lo[p]] = Value(LoByte(n), Nosrc)]
         /\ n = Unknown => SetPair(g, p, n).r = [g.r EXCEPT ![Hi[p]] = Forgotten,
                                                           ![Lo[p]] = Forgotten]
<1>1. HiByte(n) \in Int /\ LoByte(n) \in Int
  BY BytesAre
<1>2. Hi[p] \in RegNames /\ Lo[p] \in RegNames
  BY HalvesAre
<1>3. Value(HiByte(n), Nosrc) \in Values /\ Value(LoByte(n), Nosrc) \in Values /\ Forgotten \in Values
  BY <1>1 DEF Value, Values, Nosrc, Unknown, Forgotten
<1> QED  BY <1>2, <1>3 DEF SetPair, Regs

(* The last m of a sequence.                                               *)
LEMMA LastsAre ==
  ASSUME NEW X, NEW s \in Seq(X), NEW m \in 0..Len(s), NEW d,
         d = SubSeq(s, Len(s) - m + 1, Len(s))
  PROVE  /\ d \in Seq(X) /\ Len(d) = m
         /\ \A i \in 0..m - 1 : d[m - i] = s[Len(s) - i]
         /\ \A i \in 1..m : \E j \in 1..Len(s) : d[i] = s[j]
<1>0. Len(s) \in Nat
  BY LenProperties
<1>3. d \in Seq(X) /\ Len(d) = m /\ \A i \in 1..m : d[i] = s[Len(s) - m + i]
  <2> DEFINE a == Len(s) - m + 1
             b == Len(s)
  <2>1. b \in Nat /\ a \in 1..b + 1 /\ b - a + 1 = m /\ \A i \in 1..m : a + i - 1 = b - m + i
    BY <1>0
  <2>2. \A i \in a..b : s[i] \in X
    BY <2>1, ElementOfSeq
  <2>3. d = SubSeq(s, a, b)
    OBVIOUS
  <2> HIDE DEF a, b
  <2>4. /\ SubSeq(s, a, b) \in Seq(X)
        /\ Len(SubSeq(s, a, b)) = IF a <= b THEN b - a + 1 ELSE 0
        /\ \A i \in 1..b - a + 1 : SubSeq(s, a, b)[i] = s[a + i - 1]
    BY <2>1, <2>2, SubSeqProperties
  <2>5. Len(d) = m
    <3>1. CASE a <= b
      BY <2>1, <2>3, <2>4, <3>1
    <3>2. CASE ~ (a <= b)
      <4>1. m = 0
        BY <2>1, <3>2
      <4> QED  BY <2>3, <2>4, <3>2, <4>1
    <3> QED  BY <3>1, <3>2
  <2>6. \A i \in 1..m : d[i] = s[b - m + i]
    BY <2>1, <2>3, <2>4
  <2> QED  BY <2>3, <2>4, <2>5, <2>6 DEF b
<1>4. \A i \in 0..m - 1 : d[m - i] = s[Len(s) - i]
  <2> SUFFICES ASSUME NEW i \in 0..m - 1 PROVE d[m - i] = s[Len(s) - i]
    OBVIOUS
  <2>1. m - i \in 1..m /\ Len(s) - m + (m - i) = Len(s) - i
    BY <1>0
  <2> QED  BY <1>3, <2>1
<1>5. \A i \in 1..m : \E j \in 1..Len(s) : d[i] = s[j]
  <2> SUFFICES ASSUME NEW i \in 1..m PROVE \E j \in 1..Len(s) : d[i] = s[j]
    OBVIOUS
  <2>1. Len(s) - m + i \in 1..Len(s)
    BY <1>0
  <2> QED  BY <1>3, <2>1
<1> QED  BY <1>3, <1>4, <1>5

(* The top of a stack is kept as it is pushed, popped and cut short.       *)
LEMMA PushEntryIs ==
  ASSUME NEW g \in Regs, NEW e \in Entry
  PROVE  /\ PushEntry(g, e) \in Regs /\ PushEntry(g, e).r = g.r
         /\ Len(PushEntry(g, e).stk) <= Len(g.stk) + 1
         /\ \A i \in 0..Len(PushEntry(g, e).stk) - 1 :
              PushEntry(g, e).stk[Len(PushEntry(g, e).stk) - i] =
                IF i = 0 THEN e ELSE g.stk[Len(g.stk) + 1 - i]
<1> DEFINE all == Append(g.stk, e)
           m == Lesser(Len(all), MaxStack)
           d == SubSeq(all, Len(all) - m + 1, Len(all))
           n == Len(g.stk)
<1>1. all \in Seq(Entry) /\ Len(all) = n + 1 /\ all[n + 1] = e
        /\ \A i \in 1..n : all[i] = g.stk[i]
  <2>1. g.stk \in Seq(Entry)
    BY DEF Regs
  <2> QED  BY <2>1, AppendProperties
<1>2. PushEntry(g, e) = [g EXCEPT !.stk = d]
  BY DEF PushEntry
<1>5. g.stk \in Seq(Entry) /\ n \in Nat
  BY DEF Regs
<1>6. m \in 0..Len(all)
  BY <1>1, <1>5, StepAssumption DEF Lesser
<1>a. d = SubSeq(all, Len(all) - m + 1, Len(all))
  OBVIOUS
<1> HIDE DEF all, d, m
<1>3. d \in Seq(Entry) /\ Len(d) = m /\ \A i \in 0..m - 1 : d[m - i] = all[Len(all) - i]
  BY <1>1, <1>a, <1>6, LastsAre
<1>4. PushEntry(g, e) \in Regs /\ PushEntry(g, e).r = g.r /\ PushEntry(g, e).stk = d
  BY <1>2, <1>3 DEF Regs
<1> HIDE DEF n
<1>7. ASSUME NEW i \in 0..m - 1
      PROVE  d[m - i] = IF i = 0 THEN e ELSE g.stk[n + 1 - i]
  <2>1. d[m - i] = all[n + 1 - i]
    BY <1>1, <1>3, <1>5
  <2>2. i # 0 => n + 1 - i \in 1..n
    BY <1>1, <1>5, <1>6
  <2>4. CASE i = 0
    BY <1>1, <1>5, <2>1, <2>4
  <2>5. CASE i # 0
    BY <1>1, <2>1, <2>2, <2>5
  <2> QED  BY <2>4, <2>5
<1>8. m <= n + 1
  BY <1>1, <1>5, <1>6
<1> QED  BY <1>3, <1>4, <1>7, <1>8 DEF n

(* A pop takes the last entry alone.                                       *)
LEMMA PopEntryIs ==
  ASSUME NEW g \in Regs, g.stk # <<>>
  PROVE  /\ PopEntry(g) \in Regs /\ PopEntry(g).r = g.r
         /\ Len(PopEntry(g).stk) = Len(g.stk) - 1 /\ Len(g.stk) \in Nat \ {0}
         /\ g.stk[Len(g.stk)] \in Entry
         /\ \A i \in 1..Len(g.stk) - 1 : PopEntry(g).stk[i] = g.stk[i]
<1> DEFINE n == Len(g.stk)
           d == SubSeq(g.stk, 1, n - 1)
<1>1. g.stk \in Seq(Entry) /\ n \in Nat /\ n > 0
  BY DEF Regs
<1>2. d \in Seq(Entry) /\ Len(d) = n - 1 /\ \A i \in 1..n - 1 : d[i] = g.stk[i]
  BY <1>1
<1>3. PopEntry(g) = [g EXCEPT !.stk = d]
  BY DEF PopEntry
<1> HIDE DEF d
<1>4. PopEntry(g) \in Regs /\ PopEntry(g).r = g.r /\ PopEntry(g).stk = d
  BY <1>2, <1>3 DEF Regs
<1>5. g.stk[n] \in Entry
  BY <1>1
<1> QED  BY <1>1, <1>2, <1>4, <1>5

(* A push puts an entry of the registers.                                  *)
LEMMA PushedIn ==
  ASSUME NEW g \in Regs, NEW p \in PairNames \cup {"AF"}
  PROVE  /\ <<g.r[Hi[p]], IF p = "AF" THEN Forgotten ELSE g.r[Lo[p]]>> \in Entry
         /\ Pushed(g, p) \in Regs
<1>1. Hi[p] \in RegNames /\ (p # "AF" => Lo[p] \in RegNames)
  BY HalvesAre DEF RegNames
<1>2. Forgotten \in Values
  BY DEF Forgotten, Value, Values, Unknown, Nosrc
<1>3. g.r[Hi[p]] \in Values /\ (p # "AF" => g.r[Lo[p]] \in Values)
  BY <1>1 DEF Regs
<1>4. <<g.r[Hi[p]], IF p = "AF" THEN Forgotten ELSE g.r[Lo[p]]>> \in Entry
  BY <1>2, <1>3 DEF Entry
<1> QED  BY <1>4, PushEntryIs DEF Pushed

(* What a pop takes and leaves. *)
Taken(g) == IF g.stk = <<>> THEN <<Forgotten, Forgotten>> ELSE g.stk[Len(g.stk)]
LessTop(g) == IF g.stk = <<>> THEN g ELSE PopEntry(g)

(* The registers after a pop.                                              *)
LEMMA PoppedIs ==
  ASSUME NEW g \in Regs, NEW p \in PairNames \cup {"AF"}
  PROVE  /\ Popped(g, p) \in Regs /\ Popped(g, p).stk = LessTop(g).stk
         /\ Taken(g)[1] \in Values /\ Taken(g)[2] \in Values
         /\ Popped(g, p).r = IF p = "AF" THEN [g.r EXCEPT !["A"] = Taken(g)[1]]
                             ELSE [g.r EXCEPT ![Hi[p]] = Taken(g)[1], ![Lo[p]] = Taken(g)[2]]
<1>1. /\ Hi[p] \in RegNames /\ (p = "AF" => Hi[p] = "A")
      /\ (p # "AF" => Lo[p] \in RegNames /\ Lo[p] # Hi[p])
  BY HalvesAre DEF RegNames
<1>2. Forgotten \in Values
  BY DEF Forgotten, Value, Values, Unknown, Nosrc
<1>3. Taken(g) \in Entry
  <2>1. <<Forgotten, Forgotten>> \in Entry
    BY <1>2 DEF Entry
  <2> QED  BY <2>1, PopEntryIs DEF Taken
<1>4. Taken(g)[1] \in Values /\ Taken(g)[2] \in Values
  BY <1>3 DEF Entry
<1>5. LessTop(g) \in Regs /\ LessTop(g).r = g.r
  BY PopEntryIs DEF LessTop
<1> DEFINE e == Taken(g)
           less == LessTop(g)
           high == [less EXCEPT !.r[Hi[p]] = e[1]]
<1>6. Popped(g, p) = IF p = "AF" THEN high ELSE [high EXCEPT !.r[Lo[p]] = e[2]]
  BY DEF Popped, Taken, LessTop
<1> HIDE DEF e, less
<1>7. less \in Regs /\ less.r = g.r /\ e[1] \in Values /\ e[2] \in Values
  BY <1>4, <1>5 DEF e, less
<1>8. high \in Regs /\ high.stk = less.stk /\ high.r = [g.r EXCEPT ![Hi[p]] = e[1]]
  BY <1>1, <1>7 DEF Regs
<1> HIDE DEF high
<1>9. CASE p = "AF"
  BY <1>1, <1>4, <1>6, <1>8, <1>9 DEF e, less
<1>10. CASE p # "AF"
  <2>1. Popped(g, p) = [high EXCEPT !.r[Lo[p]] = e[2]]
    BY <1>6, <1>10
  <2>2. /\ Popped(g, p) \in Regs /\ Popped(g, p).stk = high.stk
        /\ Popped(g, p).r = [high.r EXCEPT ![Lo[p]] = e[2]]
    BY <1>1, <1>7, <1>8, <1>10, <2>1 DEF Regs
  <2> QED  BY <1>4, <1>8, <1>10, <2>2 DEF e, less
<1> QED  BY <1>9, <1>10

(* A load gives a value.                                                   *)
LEMMA LoadedIn ==
  ASSUME NEW shadows, \A a \in DOMAIN shadows : shadows[a] \in Int, NEW a, a \in Int
  PROVE  Loaded(shadows, a) \in Values
BY DEF Loaded, Value, Values, Unknown

(* Step gives registers.                                                   *)
LEMMA RegsStay ==
  ASSUME NEW g \in Regs, NEW ins, WellFormed(ins),
         NEW shadows, \A a \in DOMAIN shadows : shadows[a] \in Int
  PROVE  RegsAfter(g, ins, shadows) \in Regs
<1> DEFINE next == RegsAfter(g, ins, shadows)
<1>a. /\ ins.op \in {"LdRN", "LdPN", "IncR", "IncP", "AddAN"} => ins.n \in Int
      /\ ins.op \in {"LdRN", "LdRR", "IncR"} => ins.r \in RegNames
      /\ ins.op = "LdRR" => ins.q \in RegNames
      /\ ins.op \in {"LdPN", "IncP"} => ins.p \in PairNames
  BY DEF WellFormed
<1>0. /\ \A k \in RegNames : g.r[k] \in Values /\ g.r[k].v \in Int
      /\ Nosrc \in Int /\ Unknown \in Int /\ Forgotten \in Values
      /\ {"A", "B", "D", "E", "H", "L"} \subseteq RegNames /\ "HL" \in PairNames
      /\ \A r \in [RegNames -> Values] : [g EXCEPT !.r = r] \in Regs
  <2>1. /\ Forgotten \in Values /\ {"A", "B", "D", "E", "H", "L"} \subseteq RegNames
        /\ "HL" \in PairNames
    BY DEF Values, Forgotten, Value, RegNames, PairNames, Unknown, Nosrc
  <2>2. \A k \in RegNames : g.r[k] \in Values /\ g.r[k].v \in Int
    BY DEF Regs, Values
  <2>3. \A r \in [RegNames -> Values] : [g EXCEPT !.r = r] \in Regs
    BY DEF Regs
  <2>4. Nosrc \in Int /\ Unknown \in Int
    BY DEF Nosrc, Unknown
  <2> QED  BY <2>1, <2>2, <2>3, <2>4
<1>1. CASE ins.op = "LdRN"
  <2>1. next = SetReg(g, ins.r, ins.n, Nosrc)
    BY <1>1 DEF RegsAfter
  <2>2. ins.r \in RegNames /\ ins.n \in Int /\ Nosrc \in Int
    BY <1>0, <1>a, <1>1
  <2>3. SetReg(g, ins.r, ins.n, Nosrc) \in Regs
    BY <2>2, SetRegIn, Zenon
  <2> QED  BY <2>1, <2>3
<1>2. CASE ins.op = "LdRR"
  <2>1. next = [g EXCEPT !.r[ins.r] = g.r[ins.q]]
    BY <1>2 DEF RegsAfter
  <2> QED  BY <1>0, <1>2, <2>1 DEF WellFormed, Regs
<1>3. CASE ins.op = "LdPN"
  <2>1. next = SetPair(g, ins.p, ins.n)
    BY <1>3 DEF RegsAfter
  <2>2. ins.p \in PairNames /\ ins.n \in Int
    BY <1>a, <1>3
  <2>3. SetPair(g, ins.p, ins.n) \in Regs
    BY <2>2, SetPairIn, Zenon
  <2> QED  BY <2>1, <2>3
<1>4. CASE ins.op = "LdAM"
  <2>1. next = [g EXCEPT !.r["A"] = Loaded(shadows, ins.n)]
    BY <1>4 DEF RegsAfter
  <2>2. Loaded(shadows, ins.n) \in Values
    BY <1>4, LoadedIn DEF WellFormed
  <2> QED  BY <1>0, <2>1, <2>2 DEF Regs
<1>5. CASE ins.op = "LdHLM"
  <2>1. next = [g EXCEPT !.r["L"] = Loaded(shadows, ins.n), !.r["H"] = Loaded(shadows, ins.n + 1)]
    BY <1>5 DEF RegsAfter
  <2>2. Loaded(shadows, ins.n) \in Values /\ Loaded(shadows, ins.n + 1) \in Values
    <3>1. ins.n \in Int /\ ins.n + 1 \in Int
      BY <1>5 DEF WellFormed
    <3> QED  BY <3>1, LoadedIn
  <2> QED  BY <1>0, <2>1, <2>2 DEF Regs
<1>6. CASE ins.op = "IncR"
  <2>1. next = SetReg(g, ins.r, MovedByte(g.r[ins.r].v, ins.n), Nosrc)
    BY <1>6 DEF RegsAfter
  <2>2. MovedByte(g.r[ins.r].v, ins.n) \in Int
    BY <1>0, <1>a, <1>6, BytesAre DEF MovedByte
  <2>3. ins.r \in RegNames /\ MovedByte(g.r[ins.r].v, ins.n) \in Int /\ Nosrc \in Int
    BY <1>0, <1>a, <1>6, <2>2
  <2>4. SetReg(g, ins.r, MovedByte(g.r[ins.r].v, ins.n), Nosrc) \in Regs
    BY <2>3, SetRegIn, Zenon
  <2> QED  BY <2>1, <2>4
<1>7. CASE ins.op = "IncP"
  <2>1. next = SetPair(g, ins.p, MovedWord(PairOf(g, ins.p), ins.n))
    BY <1>7 DEF RegsAfter
  <2>2. MovedWord(PairOf(g, ins.p), ins.n) \in Int
    <3>1. PairOf(g, ins.p) \in Int /\ ins.n \in Int
      BY <1>7, PairOfIs DEF WellFormed
    <3> QED  BY <1>0, <3>1, BytesAre DEF MovedWord
  <2>3. ins.p \in PairNames /\ MovedWord(PairOf(g, ins.p), ins.n) \in Int
    BY <1>a, <1>7, <2>2
  <2>4. SetPair(g, ins.p, MovedWord(PairOf(g, ins.p), ins.n)) \in Regs
    BY <2>3, SetPairIn, Zenon
  <2> QED  BY <2>1, <2>4
<1>8. CASE ins.op = "AddAN"
  <2>1. next = SetReg(g, "A", MovedByte(g.r["A"].v, ins.n), Nosrc)
    BY <1>8 DEF RegsAfter
  <2>2. MovedByte(g.r["A"].v, ins.n) \in Int
    BY <1>0, <1>a, <1>8, BytesAre DEF MovedByte
  <2>3. "A" \in RegNames /\ MovedByte(g.r["A"].v, ins.n) \in Int /\ Nosrc \in Int
    BY <1>0, <2>2
  <2>4. SetReg(g, "A", MovedByte(g.r["A"].v, ins.n), Nosrc) \in Regs
    BY <2>3, SetRegIn, Zenon
  <2> QED  BY <2>1, <2>4
<1>9. CASE ins.op \in {"Alu", "LdAIndirect", "ExAF", "LdRIndex"}
  <2>1. next = SetReg(g, "A", Unknown, Nosrc)
    BY <1>9 DEF RegsAfter
  <2>2. "A" \in RegNames /\ Unknown \in Int /\ Nosrc \in Int
    BY <1>0
  <2>3. SetReg(g, "A", Unknown, Nosrc) \in Regs
    BY <2>2, SetRegIn, Zenon
  <2> QED  BY <2>1, <2>3
<1>10. CASE ins.op = "AddHL"
  <2>1. next = SetPair(g, "HL", Unknown)
    BY <1>10 DEF RegsAfter
  <2>2. "HL" \in PairNames /\ Unknown \in Int
    BY <1>0
  <2>3. SetPair(g, "HL", Unknown) \in Regs
    BY <2>2, SetPairIn, Zenon
  <2> QED  BY <2>1, <2>3
<1>11. CASE ins.op = "ExDEHL"
  <2>1. next = [g EXCEPT !.r["D"] = g.r["H"], !.r["H"] = g.r["D"],
                         !.r["E"] = g.r["L"], !.r["L"] = g.r["E"]]
    BY <1>11 DEF RegsAfter
  <2> QED  BY <1>0, <2>1 DEF Regs
<1>12. CASE ins.op = "Exx"
  <2>1. next = [g EXCEPT !.r = [k \in RegNames |-> IF k = "A" THEN g.r[k] ELSE Forgotten]]
    BY <1>12 DEF RegsAfter
  <2> QED  BY <1>0, <2>1
<1>13. CASE ins.op = "Push"
  <2>1. next = Pushed(g, ins.p)
    BY <1>13 DEF RegsAfter
  <2> QED  BY <1>13, <2>1, PushedIn DEF WellFormed
<1>14. CASE ins.op = "Pop"
  <2>1. next = Popped(g, ins.p)
    BY <1>14 DEF RegsAfter
  <2> QED  BY <1>14, <2>1, PoppedIs DEF WellFormed
<1>15. CASE ins.op = "ExSPHL"
  <2>1. next = [SetPair(g, "HL", Unknown) EXCEPT !.stk = <<>>]
    BY <1>15 DEF RegsAfter
  <2>2. SetPair(g, "HL", Unknown) \in Regs
    BY <1>0, SetPairIn
  <2> QED  BY <2>1, <2>2, EmptySeq DEF Regs
<1>16. CASE ins.op = "LdSP"
  <2>1. next = [g EXCEPT !.stk = <<>>]
    BY <1>16 DEF RegsAfter
  <2> QED  BY <2>1, EmptySeq DEF Regs
<1>17. CASE ins.op = "Djnz"
  <2>1. next = SetReg(g, "B", MovedByte(g.r["B"].v, ByteSize - 1), Nosrc)
    BY <1>17 DEF RegsAfter
  <2>2. MovedByte(g.r["B"].v, ByteSize - 1) \in Int
    <3>1. ByteSize - 1 \in Int
      BY StepAssumption
    <3> QED  BY <1>0, <3>1, BytesAre DEF MovedByte
  <2>3. "B" \in RegNames /\ MovedByte(g.r["B"].v, ByteSize - 1) \in Int /\ Nosrc \in Int
    BY <1>0, <2>2
  <2>4. SetReg(g, "B", MovedByte(g.r["B"].v, ByteSize - 1), Nosrc) \in Regs
    BY <2>3, SetRegIn, Zenon
  <2> QED  BY <2>1, <2>4
<1>18. CASE ins.op \in {"Call", "Rst", "Block"}
  <2>1. next = Clear(g)
    BY <1>18 DEF RegsAfter
  <2> QED  BY <1>0, <2>1 DEF Clear
<1>19. CASE ins.op \notin {"LdRN", "LdRR", "LdPN", "LdAM", "LdHLM", "IncR", "IncP", "AddAN", "Alu",
                         "LdAIndirect", "ExAF", "LdRIndex", "AddHL", "ExDEHL", "Exx", "Push",
                         "Pop", "ExSPHL", "LdSP", "Djnz", "Call", "Rst", "Block"}
  <2>1. next = g
    BY <1>19 DEF RegsAfter
  <2> QED  BY <2>1
<1> QED
  BY <1>1, <1>2, <1>3, <1>4, <1>5, <1>6, <1>7, <1>8, <1>9, <1>10, <1>11, <1>12, <1>13, <1>14,
     <1>15, <1>16, <1>17, <1>18, <1>19

(* A store of Step has an address; one instruction has two at most.        *)
IsStore(st) == st.at \in Int /\ st.at # Nosrc /\ st.v \in Int /\ st.src \in Int
AreStores(q) == /\ Len(q) \in {0, 1, 2} /\ DOMAIN q = 1..Len(q)
                /\ \A i \in 1..Len(q) : IsStore(q[i])

(* One store, two, and none.                                               *)
LEMMA OneStore ==
  ASSUME NEW st, IsStore(st)
  PROVE  AreStores(<<st>>) /\ Len(<<st>>) = 1 /\ <<st>>[1] = st /\ <<st>> # <<>>
BY DEF AreStores

LEMMA TwoStores ==
  ASSUME NEW st, IsStore(st), NEW su, IsStore(su)
  PROVE  /\ AreStores(<<st, su>>) /\ Len(<<st, su>>) = 2
         /\ <<st, su>>[1] = st /\ <<st, su>>[2] = su /\ <<st, su>> # <<>>
BY DEF AreStores

LEMMA NoStore == AreStores(<<>>)
BY DEF AreStores

(* What a store says.                                                      *)
LEMMA StoreIs ==
  ASSUME NEW a, a \in Int, a # Nosrc, NEW x \in Values
  PROVE  IsStore(Store(a, x)) /\ Store(a, x).at = a /\ Store(a, x).v = x.v /\ Store(a, x).src = x.src
BY DEF IsStore, Store, Values

(* A store by a pair is there when the pair is known.                      *)
LEMMA ByPairIs ==
  ASSUME NEW g \in Regs, NEW p \in PairNames, NEW x \in Values
  PROVE  /\ AreStores(ByPair(g, p, x))
         /\ PairOf(g, p) = Unknown => ByPair(g, p, x) = <<>>
         /\ PairOf(g, p) # Unknown => ByPair(g, p, x) = <<Store(PairOf(g, p), x)>>
<1>1. CASE PairOf(g, p) = Unknown
  BY <1>1, NoStore DEF ByPair
<1>2. CASE PairOf(g, p) # Unknown
  <2>1. PairOf(g, p) \in Int /\ PairOf(g, p) # Nosrc
    BY <1>2, PairOfIs DEF Nosrc, Unknown
  <2>2. ByPair(g, p, x) = <<Store(PairOf(g, p), x)>>
    BY <1>2 DEF ByPair
  <2>3. IsStore(Store(PairOf(g, p), x))
    BY <2>1, StoreIs
  <2> QED  BY <1>2, <2>2, <2>3, OneStore
<1> QED  BY <1>1, <1>2

(* Step gives stores, and only an instruction that stores does.            *)
LEMMA StoresAre ==
  ASSUME NEW g \in Regs, NEW ins, WellFormed(ins)
  PROVE  AreStores(StoresOf(g, ins)) /\ (ins.op \notin Storing => StoresOf(g, ins) = <<>>)
<1>0. /\ \A k \in RegNames : g.r[k] \in Values
      /\ {"A", "H", "L"} \subseteq RegNames /\ "HL" \in PairNames
  BY DEF Regs, RegNames, PairNames
<1>a. /\ ins.op \in {"StMA", "StMHL"} => ins.n \in Int /\ ins.n # Nosrc /\ ins.n + 1 \in Int
                                        /\ ins.n + 1 # Nosrc
      /\ ins.op = "StHLN" => Value(ins.n, Nosrc) \in Values
      /\ ins.op = "StHLR" => ins.r \in RegNames
      /\ ins.op = "StPA" => ins.p \in PairNames
  BY DEF WellFormed, Nosrc, Value, Values
<1>1. CASE ins.op = "StMA"
  <2>1. StoresOf(g, ins) = <<Store(ins.n, g.r["A"])>>
    BY <1>1 DEF StoresOf
  <2>2. IsStore(Store(ins.n, g.r["A"]))
    BY <1>0, <1>a, <1>1, StoreIs
  <2> QED  BY <1>1, <2>1, <2>2, OneStore DEF Storing
<1>2. CASE ins.op = "StMHL"
  <2>1. StoresOf(g, ins) = <<Store(ins.n, g.r["L"]), Store(ins.n + 1, g.r["H"])>>
    BY <1>2 DEF StoresOf
  <2>2. IsStore(Store(ins.n, g.r["L"])) /\ IsStore(Store(ins.n + 1, g.r["H"]))
    BY <1>0, <1>a, <1>2, StoreIs
  <2> QED  BY <1>2, <2>1, <2>2, TwoStores DEF Storing
<1>3. CASE ins.op = "StHLN"
  <2>1. StoresOf(g, ins) = ByPair(g, "HL", Value(ins.n, Nosrc))
    BY <1>3 DEF StoresOf
  <2> QED  BY <1>0, <1>a, <1>3, <2>1, ByPairIs DEF Storing
<1>4. CASE ins.op = "StHLR"
  <2>1. StoresOf(g, ins) = ByPair(g, "HL", g.r[ins.r])
    BY <1>4 DEF StoresOf
  <2> QED  BY <1>0, <1>a, <1>4, <2>1, ByPairIs DEF Storing
<1>5. CASE ins.op = "StPA"
  <2>1. StoresOf(g, ins) = ByPair(g, ins.p, g.r["A"])
    BY <1>5 DEF StoresOf
  <2> QED  BY <1>0, <1>a, <1>5, <2>1, ByPairIs DEF Storing
<1>6. CASE ins.op \notin Storing
  <2>1. StoresOf(g, ins) = <<>>
    BY <1>6 DEF StoresOf, Storing
  <2> QED  BY <2>1, NoStore
<1> QED  BY <1>1, <1>2, <1>3, <1>4, <1>5, <1>6 DEF Storing

-----------------------------------------------------------------------------
(* The loops.  Each is a function on 0..n that ends in its last value;     *)
(* such a function exists, by its least undefined place.                   *)

(* A set of numbers has a least.                                           *)
LEMMA LeastIn ==
  ASSUME NEW S \in SUBSET Nat, S # {}
  PROVE  \E x \in S : \A y \in S : x <= y
<1>1. PICK x \in S : \A y \in S : ~ (<<y, x>> \in OpToRel(<, Nat))
  BY NatLessThanWellFounded, WFMin, Zenon
<1>2. \A y \in S : ~ (y < x)
  <2> SUFFICES ASSUME NEW y \in S, y < x PROVE FALSE
    OBVIOUS
  <2>1. y \in Nat /\ x \in Nat
    OBVIOUS
  <2>2. <<y, x>> \in OpToRel(<, Nat)
    BY <2>1, Zenon DEF OpToRel
  <2> QED  BY <1>1, <2>2
<1>3. \A y \in S : x <= y
  BY <1>2
<1> QED  BY <1>3

(* What holds at 0 and goes on to the next holds up to N.                  *)
LEMMA UpTo ==
  ASSUME NEW N \in Nat, NEW S, 0 \in S, \A n \in 0..N - 1 : n \in S => n + 1 \in S
  PROVE  0..N \subseteq S
<1> DEFINE out == (0..N) \ S
<1> SUFFICES ASSUME out # {} PROVE FALSE
  OBVIOUS
<1>1. out \in SUBSET Nat
  OBVIOUS
<1>2. PICK k \in out : \A y \in out : k <= y
  BY <1>1, LeastIn
<1>3. k \in 0..N /\ k # 0 /\ k \notin S /\ k - 1 \in 0..N - 1
  BY <1>2
<1>4. k - 1 \in S
  BY <1>2, <1>3
<1> QED  BY <1>3, <1>4

(* Each loop below goes from its first value to its last by its own step.  *)
Queues(g, s, ws) ==
  /\ g[0] = s
  /\ \A k \in 0..Len(ws) - 1 : g[k + 1] = Enqueue(g[k], ws[k + 1])
  /\ EnqueueAll(s, ws) = g[Len(ws)]

LEMMA EnqueueAllSteps ==
  ASSUME NEW s, NEW ws, Len(ws) \in Nat
  PROVE  \E g : Queues(g, s, ws)
<1> DEFINE N == Len(ws)
           Rec(g, m) == [i \in 0..m |-> IF i = 0 THEN s ELSE Enqueue(g[i - 1], ws[i])]
           Found(m) == \E g : g = Rec(g, m)
           S == {m \in 0..N : Found(m)}
           after == CHOOSE g : g = Rec(g, N)
<1>1. EnqueueAll(s, ws) = after[N]
  BY DEF EnqueueAll
<1>2. 0 \in S
  <2>1. [i \in 0..0 |-> s] = Rec([i \in 0..0 |-> s], 0)
    OBVIOUS
  <2> HIDE DEF Rec
  <2>2. Found(0)
    BY <2>1, Zenon
  <2> HIDE DEF Found
  <2> QED  BY <2>2
<1>3. ASSUME NEW m \in 0..N - 1, m \in S PROVE m + 1 \in S
  <2>1. PICK g : g = Rec(g, m)
    BY <1>3
  <2> DEFINE h == [i \in 0..m + 1 |-> IF i <= m THEN g[i] ELSE Enqueue(g[m], ws[m + 1])]
  <2>2. \A i \in 0..m + 1 : h[i] = IF i = 0 THEN s ELSE Enqueue(h[i - 1], ws[i])
    <3>1. \A i \in 0..m : g[i] = IF i = 0 THEN s ELSE Enqueue(g[i - 1], ws[i])
      BY <2>1
    <3>2. \A i \in 0..m + 1 : h[i] = IF i <= m THEN g[i] ELSE Enqueue(g[m], ws[m + 1])
      OBVIOUS
    <3> HIDE DEF h
    <3> SUFFICES ASSUME NEW i \in 0..m + 1
                 PROVE  h[i] = IF i = 0 THEN s ELSE Enqueue(h[i - 1], ws[i])
      OBVIOUS
    <3>3. CASE i = 0
      BY <3>1, <3>2, <3>3
    <3>4. CASE i \in 1..m
      <4>1. i - 1 \in 0..m /\ h[i] = g[i] /\ h[i - 1] = g[i - 1]
        BY <3>2, <3>4
      <4> QED  BY <3>1, <3>4, <4>1
    <3>5. CASE i = m + 1
      <4>1. m \in 0..m + 1 /\ i # 0 /\ i - 1 = m /\ h[i - 1] = g[m]
        BY <3>2, <3>5
      <4> QED  BY <3>2, <3>5, <4>1
    <3> QED  BY <3>3, <3>4, <3>5
  <2>3. h = Rec(h, m + 1)
    <3> HIDE DEF h
    <3>1. h = [i \in 0..m + 1 |-> h[i]]
      BY DEF h
    <3> QED  BY <2>2, <3>1
  <2> HIDE DEF h, Rec
  <2>4. Found(m + 1)
    BY <2>3, Zenon
  <2> HIDE DEF Found
  <2> QED  BY <2>4
<1> HIDE DEF S
<1>4. 0..N \subseteq S
  BY <1>2, <1>3, UpTo
<1> HIDE DEF Rec
<1>5. after = Rec(after, N)
  <2>1. Found(N)
    <3> HIDE DEF Found
    <3> QED  BY <1>4 DEF S
  <2> QED  BY <2>1
<1> HIDE DEF after
<1> USE DEF Rec
<1>6. after[0] = s /\ \A k \in 0..N - 1 : after[k + 1] = Enqueue(after[k], ws[k + 1])
  <2>1. \A i \in 0..N : after[i] = IF i = 0 THEN s ELSE Enqueue(after[i - 1], ws[i])
    BY <1>5
  <2> QED  BY <2>1
<1>7. Queues(after, s, ws)
  BY <1>1, <1>6 DEF Queues
<1> HIDE DEF Rec
<1> QED  BY <1>7

LEMMA DeclaredTablesSteps ==
  ASSUME NEW s, Len(Tables) \in Nat
  PROVE  \E g : /\ g[0] = s
                /\ \A k \in 0..Len(Tables) - 1 : g[k + 1] = DeclaredTable(g[k], Tables[k + 1])
                /\ DeclaredTables(s) = g[Len(Tables)]
<1> DEFINE N == Len(Tables)
           Rec(g, m) == [i \in 0..m |-> IF i = 0 THEN s ELSE DeclaredTable(g[i - 1], Tables[i])]
           Found(m) == \E g : g = Rec(g, m)
           S == {m \in 0..N : Found(m)}
           after == CHOOSE g : g = Rec(g, N)
<1>1. DeclaredTables(s) = after[N]
  BY DEF DeclaredTables
<1>2. 0 \in S
  <2>1. [i \in 0..0 |-> s] = Rec([i \in 0..0 |-> s], 0)
    OBVIOUS
  <2> HIDE DEF Rec
  <2>2. Found(0)
    BY <2>1, Zenon
  <2> HIDE DEF Found
  <2> QED  BY <2>2
<1>3. ASSUME NEW m \in 0..N - 1, m \in S PROVE m + 1 \in S
  <2>1. PICK g : g = Rec(g, m)
    BY <1>3
  <2> DEFINE h == [i \in 0..m + 1 |-> IF i <= m THEN g[i] ELSE DeclaredTable(g[m], Tables[m + 1])]
  <2>2. \A i \in 0..m + 1 : h[i] = IF i = 0 THEN s ELSE DeclaredTable(h[i - 1], Tables[i])
    <3>1. \A i \in 0..m : g[i] = IF i = 0 THEN s ELSE DeclaredTable(g[i - 1], Tables[i])
      BY <2>1
    <3>2. \A i \in 0..m + 1 : h[i] = IF i <= m THEN g[i] ELSE DeclaredTable(g[m], Tables[m + 1])
      OBVIOUS
    <3> HIDE DEF h
    <3> SUFFICES ASSUME NEW i \in 0..m + 1
                 PROVE  h[i] = IF i = 0 THEN s ELSE DeclaredTable(h[i - 1], Tables[i])
      OBVIOUS
    <3>3. CASE i = 0
      BY <3>1, <3>2, <3>3
    <3>4. CASE i \in 1..m
      <4>1. i - 1 \in 0..m /\ h[i] = g[i] /\ h[i - 1] = g[i - 1]
        BY <3>2, <3>4
      <4> QED  BY <3>1, <3>4, <4>1
    <3>5. CASE i = m + 1
      <4>1. m \in 0..m + 1 /\ i # 0 /\ i - 1 = m /\ h[i - 1] = g[m]
        BY <3>2, <3>5
      <4> QED  BY <3>2, <3>5, <4>1
    <3> QED  BY <3>3, <3>4, <3>5
  <2>3. h = Rec(h, m + 1)
    <3> HIDE DEF h
    <3>1. h = [i \in 0..m + 1 |-> h[i]]
      BY DEF h
    <3> QED  BY <2>2, <3>1
  <2> HIDE DEF h, Rec
  <2>4. Found(m + 1)
    BY <2>3, Zenon
  <2> HIDE DEF Found
  <2> QED  BY <2>4
<1> HIDE DEF S
<1>4. 0..N \subseteq S
  BY <1>2, <1>3, UpTo
<1> HIDE DEF Rec
<1>5. after = Rec(after, N)
  <2>1. Found(N)
    <3> HIDE DEF Found
    <3> QED  BY <1>4 DEF S
  <2> QED  BY <2>1
<1> HIDE DEF after
<1> USE DEF Rec
<1>6. after[0] = s /\ \A k \in 0..N - 1 : after[k + 1] = DeclaredTable(after[k], Tables[k + 1])
  <2>1. \A i \in 0..N : after[i] = IF i = 0 THEN s ELSE DeclaredTable(after[i - 1], Tables[i])
    BY <1>5
  <2> QED  BY <2>1
<1> QED  BY <1>1, <1>6

LEMMA AllPairedSteps ==
  ASSUME NEW s, NEW st, NEW page, Len(s.recent) \in Nat
  PROVE  \E g : /\ g[0] = s
                /\ \A k \in 0..Len(s.recent) - 1 : g[k + 1] = Paired(g[k], s.recent[k + 1], st, page)
                /\ AllPaired(s, st, page) = g[Len(s.recent)]
<1> DEFINE N == Len(s.recent)
           Rec(g, m) == [i \in 0..m |-> IF i = 0 THEN s ELSE Paired(g[i - 1], s.recent[i], st, page)]
           Found(m) == \E g : g = Rec(g, m)
           S == {m \in 0..N : Found(m)}
           after == CHOOSE g : g = Rec(g, N)
<1>1. AllPaired(s, st, page) = after[N]
  BY DEF AllPaired
<1>2. 0 \in S
  <2>1. [i \in 0..0 |-> s] = Rec([i \in 0..0 |-> s], 0)
    OBVIOUS
  <2> HIDE DEF Rec
  <2>2. Found(0)
    BY <2>1, Zenon
  <2> HIDE DEF Found
  <2> QED  BY <2>2
<1>3. ASSUME NEW m \in 0..N - 1, m \in S PROVE m + 1 \in S
  <2>1. PICK g : g = Rec(g, m)
    BY <1>3
  <2> DEFINE h == [i \in 0..m + 1 |-> IF i <= m THEN g[i] ELSE Paired(g[m], s.recent[m + 1], st, page)]
  <2>2. \A i \in 0..m + 1 : h[i] = IF i = 0 THEN s ELSE Paired(h[i - 1], s.recent[i], st, page)
    <3>1. \A i \in 0..m : g[i] = IF i = 0 THEN s ELSE Paired(g[i - 1], s.recent[i], st, page)
      BY <2>1
    <3>2. \A i \in 0..m + 1 : h[i] = IF i <= m THEN g[i] ELSE Paired(g[m], s.recent[m + 1], st, page)
      OBVIOUS
    <3> HIDE DEF h
    <3> SUFFICES ASSUME NEW i \in 0..m + 1
                 PROVE  h[i] = IF i = 0 THEN s ELSE Paired(h[i - 1], s.recent[i], st, page)
      OBVIOUS
    <3>3. CASE i = 0
      BY <3>1, <3>2, <3>3
    <3>4. CASE i \in 1..m
      <4>1. i - 1 \in 0..m /\ h[i] = g[i] /\ h[i - 1] = g[i - 1]
        BY <3>2, <3>4
      <4> QED  BY <3>1, <3>4, <4>1
    <3>5. CASE i = m + 1
      <4>1. m \in 0..m + 1 /\ i # 0 /\ i - 1 = m /\ h[i - 1] = g[m]
        BY <3>2, <3>5
      <4> QED  BY <3>2, <3>5, <4>1
    <3> QED  BY <3>3, <3>4, <3>5
  <2>3. h = Rec(h, m + 1)
    <3> HIDE DEF h
    <3>1. h = [i \in 0..m + 1 |-> h[i]]
      BY DEF h
    <3> QED  BY <2>2, <3>1
  <2> HIDE DEF h, Rec
  <2>4. Found(m + 1)
    BY <2>3, Zenon
  <2> HIDE DEF Found
  <2> QED  BY <2>4
<1> HIDE DEF S
<1>4. 0..N \subseteq S
  BY <1>2, <1>3, UpTo
<1> HIDE DEF Rec
<1>5. after = Rec(after, N)
  <2>1. Found(N)
    <3> HIDE DEF Found
    <3> QED  BY <1>4 DEF S
  <2> QED  BY <2>1
<1> HIDE DEF after
<1> USE DEF Rec
<1>6. after[0] = s /\ \A k \in 0..N - 1 : after[k + 1] = Paired(after[k], s.recent[k + 1], st, page)
  <2>1. \A i \in 0..N : after[i] = IF i = 0 THEN s ELSE Paired(after[i - 1], s.recent[i], st, page)
    BY <1>5
  <2> QED  BY <2>1
<1> QED  BY <1>1, <1>6

LEMMA StoredSteps ==
  ASSUME NEW x, NEW stores, Len(stores) \in Nat
  PROVE  \E g : /\ g[0] = x
                /\ \A k \in 0..Len(stores) - 1 : g[k + 1] = ApplyStore(g[k], stores[k + 1])
                /\ Stored(x, stores) = g[Len(stores)]
<1> DEFINE N == Len(stores)
           Rec(g, m) == [i \in 0..m |-> IF i = 0 THEN x ELSE ApplyStore(g[i - 1], stores[i])]
           Found(m) == \E g : g = Rec(g, m)
           S == {m \in 0..N : Found(m)}
           after == CHOOSE g : g = Rec(g, N)
<1>1. Stored(x, stores) = after[N]
  BY DEF Stored
<1>2. 0 \in S
  <2>1. [i \in 0..0 |-> x] = Rec([i \in 0..0 |-> x], 0)
    OBVIOUS
  <2> HIDE DEF Rec
  <2>2. Found(0)
    BY <2>1, Zenon
  <2> HIDE DEF Found
  <2> QED  BY <2>2
<1>3. ASSUME NEW m \in 0..N - 1, m \in S PROVE m + 1 \in S
  <2>1. PICK g : g = Rec(g, m)
    BY <1>3
  <2> DEFINE h == [i \in 0..m + 1 |-> IF i <= m THEN g[i] ELSE ApplyStore(g[m], stores[m + 1])]
  <2>2. \A i \in 0..m + 1 : h[i] = IF i = 0 THEN x ELSE ApplyStore(h[i - 1], stores[i])
    <3>1. \A i \in 0..m : g[i] = IF i = 0 THEN x ELSE ApplyStore(g[i - 1], stores[i])
      BY <2>1
    <3>2. \A i \in 0..m + 1 : h[i] = IF i <= m THEN g[i] ELSE ApplyStore(g[m], stores[m + 1])
      OBVIOUS
    <3> HIDE DEF h
    <3> SUFFICES ASSUME NEW i \in 0..m + 1
                 PROVE  h[i] = IF i = 0 THEN x ELSE ApplyStore(h[i - 1], stores[i])
      OBVIOUS
    <3>3. CASE i = 0
      BY <3>1, <3>2, <3>3
    <3>4. CASE i \in 1..m
      <4>1. i - 1 \in 0..m /\ h[i] = g[i] /\ h[i - 1] = g[i - 1]
        BY <3>2, <3>4
      <4> QED  BY <3>1, <3>4, <4>1
    <3>5. CASE i = m + 1
      <4>1. m \in 0..m + 1 /\ i # 0 /\ i - 1 = m /\ h[i - 1] = g[m]
        BY <3>2, <3>5
      <4> QED  BY <3>2, <3>5, <4>1
    <3> QED  BY <3>3, <3>4, <3>5
  <2>3. h = Rec(h, m + 1)
    <3> HIDE DEF h
    <3>1. h = [i \in 0..m + 1 |-> h[i]]
      BY DEF h
    <3> QED  BY <2>2, <3>1
  <2> HIDE DEF h, Rec
  <2>4. Found(m + 1)
    BY <2>3, Zenon
  <2> HIDE DEF Found
  <2> QED  BY <2>4
<1> HIDE DEF S
<1>4. 0..N \subseteq S
  BY <1>2, <1>3, UpTo
<1> HIDE DEF Rec
<1>5. after = Rec(after, N)
  <2>1. Found(N)
    <3> HIDE DEF Found
    <3> QED  BY <1>4 DEF S
  <2> QED  BY <2>1
<1> HIDE DEF after
<1> USE DEF Rec
<1>6. after[0] = x /\ \A k \in 0..N - 1 : after[k + 1] = ApplyStore(after[k], stores[k + 1])
  <2>1. \A i \in 0..N : after[i] = IF i = 0 THEN x ELSE ApplyStore(after[i - 1], stores[i])
    BY <1>5
  <2> QED  BY <2>1
<1> QED  BY <1>1, <1>6

LEMMA RepagedSteps ==
  ASSUME NEW banks, NEW writes, Len(writes) \in Nat
  PROVE  \E g : /\ g[0] = banks
                /\ \A k \in 0..Len(writes) - 1 : g[k + 1] = Paged(g[k], writes[k + 1])
                /\ Repaged(banks, writes) = g[Len(writes)]
<1> DEFINE N == Len(writes)
           Rec(g, m) == [i \in 0..m |-> IF i = 0 THEN banks ELSE Paged(g[i - 1], writes[i])]
           Found(m) == \E g : g = Rec(g, m)
           S == {m \in 0..N : Found(m)}
           after == CHOOSE g : g = Rec(g, N)
<1>1. Repaged(banks, writes) = after[N]
  BY DEF Repaged
<1>2. 0 \in S
  <2>1. [i \in 0..0 |-> banks] = Rec([i \in 0..0 |-> banks], 0)
    OBVIOUS
  <2> HIDE DEF Rec
  <2>2. Found(0)
    BY <2>1, Zenon
  <2> HIDE DEF Found
  <2> QED  BY <2>2
<1>3. ASSUME NEW m \in 0..N - 1, m \in S PROVE m + 1 \in S
  <2>1. PICK g : g = Rec(g, m)
    BY <1>3
  <2> DEFINE h == [i \in 0..m + 1 |-> IF i <= m THEN g[i] ELSE Paged(g[m], writes[m + 1])]
  <2>2. \A i \in 0..m + 1 : h[i] = IF i = 0 THEN banks ELSE Paged(h[i - 1], writes[i])
    <3>1. \A i \in 0..m : g[i] = IF i = 0 THEN banks ELSE Paged(g[i - 1], writes[i])
      BY <2>1
    <3>2. \A i \in 0..m + 1 : h[i] = IF i <= m THEN g[i] ELSE Paged(g[m], writes[m + 1])
      OBVIOUS
    <3> HIDE DEF h
    <3> SUFFICES ASSUME NEW i \in 0..m + 1
                 PROVE  h[i] = IF i = 0 THEN banks ELSE Paged(h[i - 1], writes[i])
      OBVIOUS
    <3>3. CASE i = 0
      BY <3>1, <3>2, <3>3
    <3>4. CASE i \in 1..m
      <4>1. i - 1 \in 0..m /\ h[i] = g[i] /\ h[i - 1] = g[i - 1]
        BY <3>2, <3>4
      <4> QED  BY <3>1, <3>4, <4>1
    <3>5. CASE i = m + 1
      <4>1. m \in 0..m + 1 /\ i # 0 /\ i - 1 = m /\ h[i - 1] = g[m]
        BY <3>2, <3>5
      <4> QED  BY <3>2, <3>5, <4>1
    <3> QED  BY <3>3, <3>4, <3>5
  <2>3. h = Rec(h, m + 1)
    <3> HIDE DEF h
    <3>1. h = [i \in 0..m + 1 |-> h[i]]
      BY DEF h
    <3> QED  BY <2>2, <3>1
  <2> HIDE DEF h, Rec
  <2>4. Found(m + 1)
    BY <2>3, Zenon
  <2> HIDE DEF Found
  <2> QED  BY <2>4
<1> HIDE DEF S
<1>4. 0..N \subseteq S
  BY <1>2, <1>3, UpTo
<1> HIDE DEF Rec
<1>5. after = Rec(after, N)
  <2>1. Found(N)
    <3> HIDE DEF Found
    <3> QED  BY <1>4 DEF S
  <2> QED  BY <2>1
<1> HIDE DEF after
<1> USE DEF Rec
<1>6. after[0] = banks /\ \A k \in 0..N - 1 : after[k + 1] = Paged(after[k], writes[k + 1])
  <2>1. \A i \in 0..N : after[i] = IF i = 0 THEN banks ELSE Paged(after[i - 1], writes[i])
    BY <1>5
  <2> QED  BY <2>1
<1> QED  BY <1>1, <1>6

LEMMA AllDecidedSteps ==
  ASSUME Len(t.candidates) \in Nat
  PROVE  \E g : /\ g[0] = [t EXCEPT !.candidates = <<>>]
                /\ \A k \in 0..Len(t.candidates) - 1 : g[k + 1] = Decided(g[k], t.candidates[k + 1])
                /\ AllDecided = g[Len(t.candidates)]
<1> DEFINE N == Len(t.candidates)
           Rec(g, m) == [i \in 0..m |-> IF i = 0 THEN [t EXCEPT !.candidates = <<>>] ELSE Decided(g[i - 1], t.candidates[i])]
           Found(m) == \E g : g = Rec(g, m)
           S == {m \in 0..N : Found(m)}
           after == CHOOSE g : g = Rec(g, N)
<1>1. AllDecided = after[N]
  BY DEF AllDecided
<1>2. 0 \in S
  <2>1. [i \in 0..0 |-> [t EXCEPT !.candidates = <<>>]] = Rec([i \in 0..0 |-> [t EXCEPT !.candidates = <<>>]], 0)
    OBVIOUS
  <2> HIDE DEF Rec
  <2>2. Found(0)
    BY <2>1, Zenon
  <2> HIDE DEF Found
  <2> QED  BY <2>2
<1>3. ASSUME NEW m \in 0..N - 1, m \in S PROVE m + 1 \in S
  <2>1. PICK g : g = Rec(g, m)
    BY <1>3
  <2> DEFINE h == [i \in 0..m + 1 |-> IF i <= m THEN g[i] ELSE Decided(g[m], t.candidates[m + 1])]
  <2>2. \A i \in 0..m + 1 : h[i] = IF i = 0 THEN [t EXCEPT !.candidates = <<>>] ELSE Decided(h[i - 1], t.candidates[i])
    <3>1. \A i \in 0..m : g[i] = IF i = 0 THEN [t EXCEPT !.candidates = <<>>] ELSE Decided(g[i - 1], t.candidates[i])
      BY <2>1
    <3>2. \A i \in 0..m + 1 : h[i] = IF i <= m THEN g[i] ELSE Decided(g[m], t.candidates[m + 1])
      OBVIOUS
    <3> HIDE DEF h
    <3> SUFFICES ASSUME NEW i \in 0..m + 1
                 PROVE  h[i] = IF i = 0 THEN [t EXCEPT !.candidates = <<>>] ELSE Decided(h[i - 1], t.candidates[i])
      OBVIOUS
    <3>3. CASE i = 0
      BY <3>1, <3>2, <3>3
    <3>4. CASE i \in 1..m
      <4>1. i - 1 \in 0..m /\ h[i] = g[i] /\ h[i - 1] = g[i - 1]
        BY <3>2, <3>4
      <4> QED  BY <3>1, <3>4, <4>1
    <3>5. CASE i = m + 1
      <4>1. m \in 0..m + 1 /\ i # 0 /\ i - 1 = m /\ h[i - 1] = g[m]
        BY <3>2, <3>5
      <4> QED  BY <3>2, <3>5, <4>1
    <3> QED  BY <3>3, <3>4, <3>5
  <2>3. h = Rec(h, m + 1)
    <3> HIDE DEF h
    <3>1. h = [i \in 0..m + 1 |-> h[i]]
      BY DEF h
    <3> QED  BY <2>2, <3>1
  <2> HIDE DEF h, Rec
  <2>4. Found(m + 1)
    BY <2>3, Zenon
  <2> HIDE DEF Found
  <2> QED  BY <2>4
<1> HIDE DEF S
<1>4. 0..N \subseteq S
  BY <1>2, <1>3, UpTo
<1> HIDE DEF Rec
<1>5. after = Rec(after, N)
  <2>1. Found(N)
    <3> HIDE DEF Found
    <3> QED  BY <1>4 DEF S
  <2> QED  BY <2>1
<1> HIDE DEF after
<1> USE DEF Rec
<1>6. after[0] = [t EXCEPT !.candidates = <<>>] /\ \A k \in 0..N - 1 : after[k + 1] = Decided(after[k], t.candidates[k + 1])
  <2>1. \A i \in 0..N : after[i] = IF i = 0 THEN [t EXCEPT !.candidates = <<>>] ELSE Decided(after[i - 1], t.candidates[i])
    BY <1>5
  <2> QED  BY <2>1
<1> QED  BY <1>1, <1>6

-----------------------------------------------------------------------------
(* The search, and how it grows.                                           *)

(* What is queued, a candidate and a store remembered.                     *)
Shadows == [DOMAIN shadowMap -> (0..NBanks - 1) \cup {Unknown}]
Works == [addr : Int, banks : Pagings, shadows : Shadows, regs : Regs]
Candidates == [push : Int, work : Works]
Recents == [at : Int, v : Int, page : Int]

(* Result and Tracer have these fields, and no other.                      *)
SearchFields == {"queue", "visit", "code", "pointers", "logical", "calls", "jumps", "candidates",
                 "pushed", "rejected", "tables", "stops", "unresolved", "restores", "notes",
                 "recent", "shadows", "overflowed"}
Entire(s) == s = [f \in SearchFields |-> s[f]]

(* What is queued is an address of the image.                              *)
QueueTyped(s) ==
  /\ s.queue \in Seq(Works)
  /\ \A i \in 1..Len(s.queue) : ~Refused(s.queue[i].banks, s.queue[i].addr)
(* Code and pointers are apart, and of the image.                          *)
CodeTyped(s) ==
  /\ s.code \cap s.pointers = {} /\ s.code \subseteq 0..Cells - 1
  /\ DOMAIN s.logical \subseteq 0..Cells - 1
CandidatesTyped(s) == s.candidates \in Seq(Candidates)
(* The last stores, each with the page it switches.                        *)
RecentTyped(s) ==
  /\ s.recent \in Seq(Recents)
  /\ \A i \in 1..Len(s.recent) : /\ s.recent[i].at # Nosrc
                                 /\ s.recent[i].page = SwitchPage(s.recent[i].at)
(* What is noted of an address: a page it was read for, and a page its     *)
(* value was written with, which an address that switches no page has.     *)
NotesTyped(s) ==
  \A a \in DOMAIN s.notes :
    /\ s.notes[a].readAs \in DOMAIN Selects \cup {-1}
    /\ s.notes[a].writtenAs \in DOMAIN Selects \cup {-1}
    /\ s.notes[a].writtenAs # -1 => a # Nosrc /\ SwitchPage(a) = -1
(* A shadow is an address that switches no page.                           *)
IsShadow(a, page) == a # Nosrc /\ page \in DOMAIN Selects /\ SwitchPage(a) = -1
ShadowsTyped(s) == \A a \in DOMAIN s.shadows : IsShadow(a, s.shadows[a])

IsSearch(s) ==
  /\ Entire(s)
  /\ QueueTyped(s) /\ CodeTyped(s) /\ CandidatesTyped(s)
  /\ RecentTyped(s) /\ NotesTyped(s) /\ ShadowsTyped(s)

(* What was to be walked is still, or has been. *)
Reached(s, a, banks) ==
  \/ Refused(banks, a)
  \/ \E k \in s.visit : k.addr = a /\ k.banks = banks
  \/ \E i \in 1..Len(s.queue) : s.queue[i].addr = a /\ s.queue[i].banks = banks

(* A search with more in its queue: what was there is.                     *)
Grown(s, d) ==
  /\ Len(s.queue) <= Len(d.queue) /\ \A i \in 1..Len(s.queue) : d.queue[i] = s.queue[i]
  /\ d.visit = s.visit /\ d.tables = s.tables /\ d.overflowed = s.overflowed
  /\ s.unresolved \subseteq d.unresolved

(* The queue has a length.                                                 *)
LEMMA QueueLen ==
  ASSUME NEW s, IsSearch(s)
  PROVE  Len(s.queue) \in Nat
BY LenProperties DEF IsSearch, QueueTyped

(* Growing is reflexive and transitive, and keeps what was reached.        *)
LEMMA GrownSelf ==
  ASSUME NEW s, IsSearch(s)
  PROVE  Grown(s, s)
BY QueueLen DEF Grown

LEMMA GrownOn ==
  ASSUME NEW s, NEW d, NEW e, IsSearch(s), IsSearch(d), IsSearch(e), Grown(s, d), Grown(d, e)
  PROVE  Grown(s, e)
<1>1. Len(s.queue) \in Nat /\ Len(d.queue) \in Nat /\ Len(e.queue) \in Nat
  BY QueueLen
<1> QED  BY <1>1 DEF Grown

LEMMA ReachedStays ==
  ASSUME NEW s, NEW d, IsSearch(s), IsSearch(d), Grown(s, d), NEW a, NEW banks, Reached(s, a, banks)
  PROVE  Reached(d, a, banks)
<1>1. Len(s.queue) \in Nat /\ Len(d.queue) \in Nat
  BY QueueLen
<1>2. ASSUME NEW i \in 1..Len(s.queue) PROVE i \in 1..Len(d.queue) /\ d.queue[i] = s.queue[i]
  BY <1>1, <1>2 DEF Grown
<1> QED  BY <1>2 DEF Reached, Grown

(* Enqueue: what is queued is reached, and nothing is lost.                *)
LEMMA EnqueueIs ==
  ASSUME NEW s, IsSearch(s), NEW w \in Works
  PROVE  /\ IsSearch(Enqueue(s, w)) /\ Grown(s, Enqueue(s, w))
         /\ Reached(Enqueue(s, w), w.addr, w.banks)
         /\ \A f \in SearchFields \ {"queue"} : Enqueue(s, w)[f] = s[f]
<1> DEFINE d == Enqueue(s, w)
<1>1. CASE Refused(w.banks, w.addr)
  <2>1. d = s
    BY <1>1 DEF Enqueue
  <2> QED  BY <1>1, <2>1, GrownSelf DEF Reached
<1>2. CASE Key(w) \in s.visit
  <2>1. d = s
    BY <1>2 DEF Enqueue
  <2>2. Key(w).addr = w.addr /\ Key(w).banks = w.banks
    BY DEF Key
  <2>3. Reached(s, w.addr, w.banks)
    BY <1>2, <2>2 DEF Reached
  <2> QED  BY <2>1, <2>3, GrownSelf
<1>3. CASE ~Refused(w.banks, w.addr) /\ Key(w) \notin s.visit
  <2> DEFINE q == Append(s.queue, w)
             n == Len(s.queue)
  <2>1. d = [s EXCEPT !.queue = q]
    BY <1>3 DEF Enqueue
  <2>2. /\ q \in Seq(Works) /\ Len(q) = n + 1 /\ \A i \in 1..n : q[i] = s.queue[i]
        /\ q[n + 1] = w /\ n \in Nat
    <3>1. s.queue \in Seq(Works)
      BY DEF IsSearch, QueueTyped
    <3> QED  BY <3>1, AppendProperties, LenProperties
  <2> HIDE DEF q
  <2>3. Entire(d) /\ d.queue = q /\ \A f \in SearchFields \ {"queue"} : d[f] = s[f]
    BY <2>1 DEF IsSearch, Entire, SearchFields
  <2>4. QueueTyped(d)
    <3>1. ASSUME NEW i \in 1..n + 1 PROVE ~Refused(q[i].banks, q[i].addr)
      <4>1. CASE i = n + 1
        BY <1>3, <2>2, <4>1
      <4>2. CASE i \in 1..n
        BY <2>2, <4>2 DEF IsSearch, QueueTyped
      <4> QED  BY <2>2, <4>1, <4>2
    <3> QED  BY <2>2, <2>3, <3>1 DEF QueueTyped
  <2> HIDE DEF d
  <2>5. /\ d.code = s.code /\ d.pointers = s.pointers /\ d.logical = s.logical
        /\ d.candidates = s.candidates /\ d.recent = s.recent /\ d.notes = s.notes
        /\ d.shadows = s.shadows /\ d.visit = s.visit /\ d.tables = s.tables
        /\ d.overflowed = s.overflowed /\ d.unresolved = s.unresolved
    BY <2>3 DEF SearchFields
  <2>6. IsSearch(d)
    BY <2>3, <2>4, <2>5
       DEF IsSearch, CodeTyped, CandidatesTyped, RecentTyped, NotesTyped, ShadowsTyped
  <2>7. Grown(s, d)
    BY <2>2, <2>3, <2>5 DEF Grown
  <2>8. Reached(d, w.addr, w.banks)
    <3>1. n + 1 \in 1..Len(d.queue) /\ d.queue[n + 1] = w
      BY <2>2, <2>3
    <3> QED  BY <3>1 DEF Reached
  <2> QED  BY <2>3, <2>6, <2>7, <2>8 DEF d
<1> QED  BY <1>1, <1>2, <1>3

-----------------------------------------------------------------------------
(* Pages, switches and offsets; the fields of a search; the queue.         *)

(* The cartridge and the shadows that the search takes as they are.        *)
Ground ==
  /\ image \in Images
  /\ \A a \in DOMAIN shadowMap : IsShadow(a, shadowMap[a])

(* Unknown and no source are no addresses.                                 *)
LEMMA NamesAre == Unknown \in Int /\ Nosrc \in Int /\ Forgotten \in Values
BY DEF Unknown, Nosrc, Forgotten, Value, Values

(* There is a bank, and the mask gives one.                                *)
LEMMA BanksAre ==
  /\ NBanks \in Nat \ {0}
  /\ \A n \in Int : Mask(n) \in 0..NBanks - 1
  /\ \A n \in 0..NBanks - 1 : Mask(n) = n
<1>1. NBanks \in Nat \ {0}
  <2>1. Cells \in Nat /\ BankCells \in Nat \ {0} /\ Cells >= BankCells
    BY TracerAssumption
  <2>2. Cells \div BankCells \in Nat
    BY <2>1
  <2>3. Cells \div BankCells # 0
    BY <2>1
  <2> QED  BY <2>2, <2>3 DEF NBanks
<1>2. \A n \in Int : n % NBanks \in 0..NBanks - 1
  BY <1>1
<1>3. \A n \in 0..NBanks - 1 : n % NBanks = n
  BY <1>1
<1> QED  BY <1>1, <1>2, <1>3 DEF Mask

(* The page of an address, if it is in one.                                *)
LEMMA PageIs ==
  ASSUME NEW a, a \in Int
  PROVE  \/ PageOf(a) = -1
         \/ PageOf(a) \in DOMAIN Pages /\ Within(Pages[PageOf(a)], a)
BY DEF PageOf

(* The page an address switches, if it does.                               *)
LEMMA SwitchIs ==
  ASSUME NEW a, a \in Int
  PROVE  /\ SwitchPage(a) \in DOMAIN Selects \cup {-1}
         /\ SwitchPage(a) \in Int /\ (SwitchPage(a) # -1 => SwitchPage(a) \in DOMAIN Pages)
         /\ SwitchPage(a) >= 0 <=> SwitchPage(a) # -1
<1>1. SwitchPage(a) \in DOMAIN Selects \cup {-1}
  BY DEF SwitchPage
<1> QED  BY <1>1, MapperAssumption

(* An offset is in the image, and its address in a page.                   *)
LEMMA OffsetIs ==
  ASSUME NEW a, a \in Int, NEW banks \in Pagings
  PROVE  \/ Offset(banks, a) = -1
         \/ /\ Offset(banks, a) \in 0..Cells - 1
            /\ a \in 0..ByteSize * ByteSize - 1
            /\ PageOf(a) \in DOMAIN Pages
<1>1. CASE PageOf(a) = -1
  BY <1>1 DEF Offset
<1>2. CASE PageOf(a) # -1
  <2> DEFINE i == PageOf(a)
             m == Mask(banks[i])
             off == m * BankCells + (a - Pages[i][1])
  <2>1. i \in DOMAIN Pages /\ Within(Pages[i], a)
    BY <1>2, PageIs
  <2>2. /\ Pages[i][1] \in Nat /\ Pages[i][2] \in Nat /\ Pages[i][2] <= ByteSize * ByteSize
        /\ BankCells \in Nat /\ Cells \in Nat
    BY <2>1, MapperAssumption, TracerAssumption
  <2>3. Pages[i][1] <= a /\ a < Pages[i][2]
    BY <2>1 DEF Within
  <2>4. m \in Nat
    <3>1. banks[i] \in 0..NBanks - 1
      BY <2>1 DEF Pagings
    <3> QED  BY <3>1, BanksAre
  <2>5. Offset(banks, a) = IF off >= Cells THEN -1 ELSE off
    BY <1>2 DEF Offset
  <2> HIDE DEF i, m
  <2>6. m * BankCells \in Nat
    BY <2>2, <2>4
  <2>7. off \in Nat
    BY <2>2, <2>3, <2>6
  <2>8. ByteSize * ByteSize \in Nat
    BY StepAssumption
  <2>9. a \in 0..ByteSize * ByteSize - 1
    BY <2>2, <2>3, <2>8
  <2> HIDE DEF off
  <2> QED  BY <2>1, <2>2, <2>5, <2>7, <2>9 DEF i
<1> QED  BY <1>1, <1>2

(* What the image holds is an instruction with its operands.               *)
LEMMA CellIs ==
  ASSUME Ground, NEW a, a \in Int, NEW banks \in Pagings, Offset(banks, a) # -1
  PROVE  WellFormed(Cell(banks, a))
<1>1. Offset(banks, a) \in 0..Cells - 1
  BY OffsetIs
<1> QED  BY <1>1, MapperAssumption DEF Ground, Cell

(* A word is a number, or none.                                            *)
LEMMA WordIs ==
  ASSUME Ground, NEW a, a \in Int, NEW banks \in Pagings
  PROVE  WordAt(banks, a) \in Int
BY CellIs DEF WordAt, WellFormed

(* One field of a search changes.                                          *)
LEMMA Changed ==
  ASSUME NEW s, Entire(s), NEW f \in SearchFields, NEW v
  PROVE  /\ Entire([s EXCEPT ![f] = v]) /\ [s EXCEPT ![f] = v][f] = v
         /\ \A g \in SearchFields \ {f} : [s EXCEPT ![f] = v][g] = s[g]
BY DEF Entire

(* What is neither typed nor of the walk.                                  *)
LEMMA Quiet ==
  ASSUME NEW s, IsSearch(s), NEW d, Entire(d),
         \A f \in {"queue", "code", "pointers", "logical", "candidates", "recent", "notes",
                   "shadows"} : d[f] = s[f]
  PROVE  IsSearch(d)
<1>1. /\ d.queue = s.queue /\ d.code = s.code /\ d.pointers = s.pointers
      /\ d.logical = s.logical /\ d.candidates = s.candidates /\ d.recent = s.recent
      /\ d.notes = s.notes /\ d.shadows = s.shadows
  OBVIOUS
<1> QED
  BY <1>1 DEF IsSearch, QueueTyped, CodeTyped, CandidatesTyped, RecentTyped, NotesTyped, ShadowsTyped

(* Whatever is queued together is reached.                                 *)
LEMMA EnqueueAllIs ==
  ASSUME NEW s, IsSearch(s), NEW ws, Len(ws) \in Nat,
         \A k \in 1..Len(ws) : ws[k] \in Works
  PROVE  /\ IsSearch(EnqueueAll(s, ws)) /\ Grown(s, EnqueueAll(s, ws))
         /\ \A k \in 1..Len(ws) : Reached(EnqueueAll(s, ws), ws[k].addr, ws[k].banks)
         /\ \A f \in SearchFields \ {"queue"} : EnqueueAll(s, ws)[f] = s[f]
<1> DEFINE Folds(g) == /\ g[0] = s
                       /\ \A k \in 0..Len(ws) - 1 : g[k + 1] = Enqueue(g[k], ws[k + 1])
                       /\ EnqueueAll(s, ws) = g[Len(ws)]
<1>0. \E g : Queues(g, s, ws)
  <2>1. Len(ws) \in Nat
    OBVIOUS
  <2> QED  BY <2>1, EnqueueAllSteps
<1>1. PICK g : Folds(g)
  BY <1>0 DEF Queues
<1> DEFINE N == Len(ws)
           Good(k) == /\ IsSearch(g[k]) /\ Grown(s, g[k])
                      /\ \A j \in 1..k : Reached(g[k], ws[j].addr, ws[j].banks)
                      /\ \A f \in SearchFields \ {"queue"} : g[k][f] = s[f]
           Goods == {k \in 0..N : Good(k)}
<1>2. Good(0)
  BY <1>1, GrownSelf
<1>3. ASSUME NEW k \in 0..N - 1, Good(k) PROVE Good(k + 1)
  <2>1. g[k + 1] = Enqueue(g[k], ws[k + 1]) /\ ws[k + 1] \in Works
    BY <1>1, <1>3
  <2>2. /\ IsSearch(g[k + 1]) /\ Grown(g[k], g[k + 1])
        /\ Reached(g[k + 1], ws[k + 1].addr, ws[k + 1].banks)
        /\ \A f \in SearchFields \ {"queue"} : g[k + 1][f] = g[k][f]
    BY <1>3, <2>1, EnqueueIs
  <2>3. Grown(s, g[k + 1])
    BY <1>3, <2>2, GrownOn
  <2>4. ASSUME NEW j \in 1..k PROVE Reached(g[k + 1], ws[j].addr, ws[j].banks)
    BY <1>3, <2>2, <2>4, ReachedStays
  <2>5. \A j \in 1..k + 1 : j \in 1..k \/ j = k + 1
    OBVIOUS
  <2>6. \A f \in SearchFields \ {"queue"} : g[k + 1][f] = s[f]
    BY <1>3, <2>2
  <2> QED  BY <2>2, <2>3, <2>4, <2>5, <2>6
<1> HIDE DEF Good
<1>4. 0 \in Goods /\ \A k \in 0..N - 1 : k \in Goods => k + 1 \in Goods
  BY <1>2, <1>3
<1>5. 0..N \subseteq Goods
  <2> HIDE DEF Goods
  <2> QED  BY <1>4, UpTo
<1>6. Good(N)
  BY <1>5
<1> QED  BY <1>1, <1>6 DEF Good

-----------------------------------------------------------------------------
(* Run begins.                                                             *)

(* A root is a state to walk.                                              *)
LEMMA FromNothingIn ==
  ASSUME NEW a, a \in Int, NEW banks \in Pagings
  PROVE  /\ FromNothing(a, banks) \in Works
         /\ FromNothing(a, banks).addr = a /\ FromNothing(a, banks).banks = banks
<1>1. [x \in DOMAIN shadowMap |-> Unknown] \in Shadows
  BY DEF Shadows
<1>2. NewRegs \in Regs
  BY NamesAre, EmptySeq DEF NewRegs, Regs
<1> QED  BY <1>1, <1>2 DEF FromNothing, Work, Works

(* The empty search.                                                       *)
LEMMA BlankIs ==
  /\ IsSearch(Blank) /\ Blank.visit = {} /\ Blank.overflowed = FALSE /\ Blank.code = {}
  /\ Blank.tables = {}
<1>1. Entire(Blank)
  BY DEF Entire, Blank, SearchFields
<1>2. /\ Blank.queue = <<>> /\ Blank.code = {} /\ Blank.pointers = {} /\ Blank.logical = NoMap
      /\ Blank.candidates = <<>> /\ Blank.recent = <<>> /\ Blank.notes = NoMap
      /\ Blank.shadows = NoMap /\ Blank.visit = {} /\ Blank.overflowed = FALSE
      /\ Blank.tables = {}
  BY DEF Blank
<1>3. DOMAIN NoMap = {}
  BY DEF NoMap
<1>4. QueueTyped(Blank) /\ CandidatesTyped(Blank) /\ RecentTyped(Blank)
  BY <1>2, EmptySeq DEF QueueTyped, CandidatesTyped, RecentTyped
<1>5. CodeTyped(Blank) /\ NotesTyped(Blank) /\ ShadowsTyped(Blank)
  BY <1>2, <1>3 DEF CodeTyped, NotesTyped, ShadowsTyped
<1> QED  BY <1>1, <1>2, <1>4, <1>5 DEF IsSearch

(* The declared tables are queued and are no code.                         *)
LEMMA DeclaredTableIs ==
  ASSUME Ground, NEW s, IsSearch(s), s.code = {}, NEW spec \in [addr : Nat, count : Nat]
  PROVE  /\ IsSearch(DeclaredTable(s, spec)) /\ Grown(s, DeclaredTable(s, spec))
         /\ DeclaredTable(s, spec).code = {}
<1> DEFINE offsets == {Offset(Initial, spec.addr + i) : i \in 0..spec.count - 1} \ {-1}
           ws == [i \in 1..spec.count |-> FromNothing(WordAt(Initial, spec.addr + i - 1), Initial)]
           p == s.pointers \cup offsets
           d == [s EXCEPT !.pointers = p]
<1>1. DeclaredTable(s, spec) = EnqueueAll(d, ws)
  BY DEF DeclaredTable
<1>2. Len(ws) \in Nat /\ \A k \in 1..Len(ws) : ws[k] \in Works
  <2>1. Len(ws) = spec.count /\ spec.count \in Nat
    OBVIOUS
  <2>2. ASSUME NEW k \in 1..spec.count PROVE ws[k] \in Works
    <3>1. spec.addr + k - 1 \in Int /\ Initial \in Pagings
      BY MapperAssumption
    <3>2. WordAt(Initial, spec.addr + k - 1) \in Int
      BY <3>1, WordIs
    <3> QED  BY <3>1, <3>2, FromNothingIn
  <2> QED  BY <2>1, <2>2
<1> HIDE DEF ws, p
<1>3. /\ Entire(d) /\ d.pointers = p /\ \A f \in SearchFields \ {"pointers"} : d[f] = s[f]
  <2>1. "pointers" \in SearchFields /\ Entire(s)
    BY DEF IsSearch, SearchFields
  <2> QED  BY <2>1, Changed
<1> HIDE DEF d
<1>4. /\ d.queue = s.queue /\ d.code = {} /\ d.logical = s.logical
      /\ d.candidates = s.candidates /\ d.recent = s.recent /\ d.notes = s.notes
      /\ d.shadows = s.shadows /\ d.visit = s.visit /\ d.tables = s.tables
      /\ d.overflowed = s.overflowed /\ d.unresolved = s.unresolved
  BY <1>3 DEF SearchFields
<1>5. IsSearch(d)
  BY <1>3, <1>4
     DEF IsSearch, QueueTyped, CodeTyped, CandidatesTyped, RecentTyped, NotesTyped, ShadowsTyped
<1>6. Grown(s, d)
  BY <1>4, QueueLen DEF Grown
<1>7. /\ IsSearch(EnqueueAll(d, ws)) /\ Grown(d, EnqueueAll(d, ws))
      /\ \A f \in SearchFields \ {"queue"} : EnqueueAll(d, ws)[f] = d[f]
  BY <1>2, <1>5, EnqueueAllIs
<1>8. EnqueueAll(d, ws).code = {}
  BY <1>4, <1>7 DEF SearchFields
<1>9. Grown(s, EnqueueAll(d, ws))
  BY <1>5, <1>6, <1>7, GrownOn
<1> QED  BY <1>1, <1>7, <1>8, <1>9

LEMMA DeclaredTablesIs ==
  ASSUME Ground, NEW s, IsSearch(s), s.code = {}
  PROVE  /\ IsSearch(DeclaredTables(s)) /\ Grown(s, DeclaredTables(s))
<1>0. Tables \in Seq([addr : Nat, count : Nat]) /\ Len(Tables) \in Nat
  BY MapperAssumption, LenProperties
<1> DEFINE Folds(g) == /\ g[0] = s
                       /\ \A k \in 0..Len(Tables) - 1 : g[k + 1] = DeclaredTable(g[k], Tables[k + 1])
                       /\ DeclaredTables(s) = g[Len(Tables)]
<1>1. \E g : Folds(g)
  BY <1>0, DeclaredTablesSteps
<1>2. PICK g : Folds(g)
  BY <1>1
<1> DEFINE N == Len(Tables)
           Good(k) == IsSearch(g[k]) /\ Grown(s, g[k]) /\ g[k].code = {}
           Goods == {k \in 0..N : Good(k)}
<1>3. Good(0)
  BY <1>2, GrownSelf
<1>4. ASSUME NEW k \in 0..N - 1, Good(k) PROVE Good(k + 1)
  <2>1. Tables[k + 1] \in [addr : Nat, count : Nat]
    <3>1. k + 1 \in 1..Len(Tables)
      BY <1>0
    <3> QED  BY <1>0, <3>1, ElementOfSeq
  <2>2. g[k + 1] = DeclaredTable(g[k], Tables[k + 1]) /\ Tables[k + 1] \in [addr : Nat, count : Nat]
    BY <1>2, <2>1
  <2>3. IsSearch(g[k + 1]) /\ Grown(g[k], g[k + 1]) /\ g[k + 1].code = {}
    BY <1>4, <2>2, DeclaredTableIs
  <2> QED  BY <1>4, <2>3, GrownOn
<1> HIDE DEF Good
<1>5. 0 \in Goods /\ \A k \in 0..N - 1 : k \in Goods => k + 1 \in Goods
  BY <1>0, <1>3, <1>4
<1>6. 0..N \subseteq Goods
  <2> HIDE DEF Goods
  <2> QED  BY <1>0, <1>5, UpTo
<1>7. Good(N)
  BY <1>0, <1>6
<1> QED  BY <1>2, <1>7 DEF Good

(* Run begins with the entries and the sites reached.                      *)
LEMMA BegunIs ==
  ASSUME Ground, NEW extra, Len(extra) \in Nat,
         \A k \in 1..Len(extra) : extra[k].addr \in Int /\ extra[k].banks \in Pagings
  PROVE  /\ IsSearch(Begun(extra)) /\ Begun(extra).visit = {} /\ Begun(extra).overflowed = FALSE
         /\ Begun(extra).tables = {}
         /\ \A i \in DOMAIN Entries : Reached(Begun(extra), Entries[i], Initial)
         /\ \A k \in 1..Len(extra) : Reached(Begun(extra), extra[k].addr, extra[k].banks)
<1> DEFINE roots == [i \in 1..Len(Entries) |-> FromNothing(Entries[i], Initial)]
           found == [i \in 1..Len(extra) |-> FromNothing(extra[i].addr, extra[i].banks)]
           a == EnqueueAll(Blank, roots)
           b == EnqueueAll(a, found)
           c == DeclaredTables(b)
<1>0. /\ Entries \in Seq(Nat) /\ Len(Entries) \in Nat /\ DOMAIN Entries = 1..Len(Entries)
      /\ Initial \in Pagings
  BY MapperAssumption, LenProperties
<1>1. /\ Len(roots) = Len(Entries)
      /\ \A i \in 1..Len(Entries) : /\ roots[i] \in Works
                                    /\ roots[i].addr = Entries[i] /\ roots[i].banks = Initial
  <2>1. ASSUME NEW i \in 1..Len(Entries)
        PROVE  /\ FromNothing(Entries[i], Initial) \in Works
               /\ FromNothing(Entries[i], Initial).addr = Entries[i]
               /\ FromNothing(Entries[i], Initial).banks = Initial
    <3>1. Entries[i] \in Int
      BY <1>0
    <3> QED  BY <1>0, <3>1, FromNothingIn
  <2> QED  BY <1>0, <2>1
<1>2. /\ Len(found) = Len(extra)
      /\ \A k \in 1..Len(extra) : /\ found[k] \in Works
                                  /\ found[k].addr = extra[k].addr /\ found[k].banks = extra[k].banks
  BY FromNothingIn
<1>3. Begun(extra) = c
  BY DEF Begun
<1> HIDE DEF roots, found
<1>4. /\ IsSearch(a) /\ Grown(Blank, a)
      /\ \A i \in 1..Len(Entries) : Reached(a, Entries[i], Initial)
      /\ \A f \in SearchFields \ {"queue"} : a[f] = Blank[f]
  <2>1. Len(roots) \in Nat /\ \A i \in 1..Len(roots) : roots[i] \in Works
    BY <1>0, <1>1
  <2>2. /\ IsSearch(a) /\ Grown(Blank, a)
        /\ \A i \in 1..Len(roots) : Reached(a, roots[i].addr, roots[i].banks)
        /\ \A f \in SearchFields \ {"queue"} : a[f] = Blank[f]
    BY <2>1, BlankIs, EnqueueAllIs
  <2> QED  BY <1>1, <2>2
<1> HIDE DEF a
<1>5. /\ IsSearch(b) /\ Grown(a, b)
      /\ \A k \in 1..Len(extra) : Reached(b, extra[k].addr, extra[k].banks)
      /\ \A f \in SearchFields \ {"queue"} : b[f] = a[f]
  <2>1. Len(found) \in Nat /\ \A k \in 1..Len(found) : found[k] \in Works
    BY <1>2
  <2>2. /\ IsSearch(b) /\ Grown(a, b)
        /\ \A k \in 1..Len(found) : Reached(b, found[k].addr, found[k].banks)
        /\ \A f \in SearchFields \ {"queue"} : b[f] = a[f]
    BY <1>4, <2>1, EnqueueAllIs
  <2> QED  BY <1>2, <2>2
<1> HIDE DEF b
<1>6. a.code = {} /\ b.code = {}
  BY <1>4, <1>5, BlankIs DEF SearchFields
<1>7. IsSearch(c) /\ Grown(b, c)
  BY <1>5, <1>6, DeclaredTablesIs
<1> HIDE DEF c
<1>8. Grown(Blank, c) /\ Grown(a, c)
  BY <1>4, <1>5, <1>7, BlankIs, GrownOn
<1>9. c.visit = {} /\ c.overflowed = FALSE /\ c.tables = {}
  BY <1>8, BlankIs DEF Grown
<1>10. ASSUME NEW i \in DOMAIN Entries PROVE Reached(c, Entries[i], Initial)
  BY <1>0, <1>4, <1>7, <1>8, <1>10, ReachedStays
<1>11. ASSUME NEW k \in 1..Len(extra) PROVE Reached(c, extra[k].addr, extra[k].banks)
  BY <1>5, <1>7, <1>11, ReachedStays
<1> QED  BY <1>3, <1>7, <1>9, <1>10, <1>11

-----------------------------------------------------------------------------
(* Bank shadows.                                                           *)

(* What is noted on the side leaves the rest.                              *)
LEMMA Aside ==
  ASSUME NEW s, IsSearch(s), NEW d, Entire(d),
         \A f \in SearchFields \ {"notes", "recent", "shadows"} : d[f] = s[f],
         NotesTyped(d), RecentTyped(d), ShadowsTyped(d)
  PROVE  IsSearch(d) /\ Grown(s, d)
<1>1. /\ d.queue = s.queue /\ d.code = s.code /\ d.pointers = s.pointers
      /\ d.logical = s.logical /\ d.candidates = s.candidates
      /\ d.visit = s.visit /\ d.tables = s.tables
      /\ d.overflowed = s.overflowed /\ d.unresolved = s.unresolved
  BY DEF SearchFields
<1>2. IsSearch(d)
  BY <1>1 DEF IsSearch, QueueTyped, CodeTyped, CandidatesTyped
<1> QED  BY <1>1, <1>2, QueueLen DEF Grown

(* A note that may be kept.                                                *)
IsNote(a, n) ==
  /\ n.readAs \in DOMAIN Selects \cup {-1}
  /\ n.writtenAs \in DOMAIN Selects \cup {-1}
  /\ n.writtenAs # -1 => a # Nosrc /\ SwitchPage(a) = -1

(* Noting, and believing what has been noted from both sides.              *)
LEMMA NotedIs ==
  ASSUME NEW s, IsSearch(s), NEW a, NEW n, IsNote(a, n)
  PROVE  /\ IsSearch(Noted(s, a, n)) /\ Grown(s, Noted(s, a, n))
<1> DEFINE v == With(s.notes, a, n)
           d == [s EXCEPT !.notes = v]
<1>1. Noted(s, a, n) = d
  BY DEF Noted
<1>2. /\ DOMAIN v = DOMAIN s.notes \cup {a} /\ v[a] = n
      /\ \A x \in DOMAIN s.notes : x # a => v[x] = s.notes[x]
  BY DEF With
<1> HIDE DEF v
<1>3. Entire(d) /\ d.notes = v /\ \A f \in SearchFields \ {"notes"} : d[f] = s[f]
  <2>1. "notes" \in SearchFields /\ Entire(s)
    BY DEF IsSearch, SearchFields
  <2> QED  BY <2>1, Changed
<1> HIDE DEF d
<1>4. d.recent = s.recent /\ d.shadows = s.shadows
  BY <1>3 DEF SearchFields
<1>5. NotesTyped(d)
  BY <1>2, <1>3 DEF NotesTyped, IsNote, IsSearch
<1>6. RecentTyped(d) /\ ShadowsTyped(d)
  BY <1>4 DEF IsSearch, RecentTyped, ShadowsTyped
<1> QED  BY <1>1, <1>3, <1>5, <1>6, Aside

LEMMA NoteIs ==
  ASSUME NEW s, IsSearch(s), NEW a
  PROVE  IsNote(a, Note(s, a))
BY DEF Note, IsNote, IsSearch, NotesTyped

LEMMA ConfirmedIs ==
  ASSUME NEW s, IsSearch(s), NEW a, NEW page \in DOMAIN Selects
  PROVE  IsSearch(Confirmed(s, a, page)) /\ Grown(s, Confirmed(s, a, page))
<1> DEFINE v == With(s.shadows, a, page)
           d == [s EXCEPT !.shadows = v]
<1>1. CASE Confirmed(s, a, page) = s
  BY <1>1, GrownSelf
<1>2. CASE Confirmed(s, a, page) # s
  <2>1. Confirmed(s, a, page) = d /\ Note(s, a).writtenAs = page
    BY <1>2 DEF Confirmed
  <2>2. IsShadow(a, page)
    <3>1. page # -1
      BY MapperAssumption
    <3> QED  BY <2>1, <3>1, NoteIs DEF IsNote, IsShadow
  <2>3. /\ DOMAIN v = DOMAIN s.shadows \cup {a} /\ v[a] = page
        /\ \A x \in DOMAIN s.shadows : x # a => v[x] = s.shadows[x]
    BY DEF With
  <2> HIDE DEF v
  <2>4. Entire(d) /\ d.shadows = v /\ \A f \in SearchFields \ {"shadows"} : d[f] = s[f]
    <3>1. "shadows" \in SearchFields /\ Entire(s)
      BY DEF IsSearch, SearchFields
    <3> QED  BY <3>1, Changed
  <2> HIDE DEF d
  <2>5. d.recent = s.recent /\ d.notes = s.notes
    BY <2>4 DEF SearchFields
  <2>6. ShadowsTyped(d)
    <3>1. ASSUME NEW x \in DOMAIN d.shadows PROVE IsShadow(x, d.shadows[x])
      <4>1. CASE x = a
        BY <2>2, <2>3, <2>4, <4>1
      <4>2. CASE x # a
        BY <2>3, <2>4, <4>2, <3>1 DEF IsSearch, ShadowsTyped
      <4> QED  BY <4>1, <4>2
    <3> QED  BY <3>1 DEF ShadowsTyped
  <2>7. RecentTyped(d) /\ NotesTyped(d)
    BY <2>5 DEF IsSearch, RecentTyped, NotesTyped
  <2> QED  BY <2>1, <2>4, <2>6, <2>7, Aside
<1> QED  BY <1>1, <1>2

(* A register given a value that was read from RAM.                        *)
LEMMA NoteSourceIs ==
  ASSUME NEW s, IsSearch(s), NEW src, NEW page \in DOMAIN Selects
  PROVE  IsSearch(NoteSource(s, src, page)) /\ Grown(s, NoteSource(s, src, page))
<1> DEFINE n == [Note(s, src) EXCEPT !.readAs = IfUnset(@, page)]
           d == Noted(s, src, n)
<1>1. NoteSource(s, src, page) = s \/ NoteSource(s, src, page) = Confirmed(d, src, page)
  BY DEF NoteSource
<1>2. IsNote(src, n)
  <2>1. IsNote(src, Note(s, src))
    BY NoteIs
  <2>2. n.writtenAs = Note(s, src).writtenAs
    BY DEF Note
  <2>3. n.readAs \in DOMAIN Selects \cup {-1}
    <3>1. n.readAs = IfUnset(Note(s, src).readAs, page) \/ n.readAs = Note(s, src).readAs
      OBVIOUS
    <3> QED  BY <2>1, <3>1 DEF IsNote, IfUnset
  <2> QED  BY <2>1, <2>2, <2>3 DEF IsNote
<1> HIDE DEF n
<1>3. IsSearch(d) /\ Grown(s, d)
  BY <1>2, NotedIs
<1> HIDE DEF d
<1>4. IsSearch(Confirmed(d, src, page)) /\ Grown(d, Confirmed(d, src, page))
  BY <1>3, ConfirmedIs
<1>5. Grown(s, Confirmed(d, src, page))
  BY <1>3, <1>4, GrownOn
<1> QED  BY <1>1, <1>4, <1>5, GrownSelf

(* A RAM byte given the value of a register.                               *)
LEMMA NoteWrittenIs ==
  ASSUME NEW s, IsSearch(s), NEW a, a # Nosrc, SwitchPage(a) = -1, NEW page \in DOMAIN Selects
  PROVE  IsSearch(NoteWritten(s, a, page)) /\ Grown(s, NoteWritten(s, a, page))
<1> DEFINE n == [Note(s, a) EXCEPT !.writtenAs = IfUnset(@, page)]
           d == Noted(s, a, n)
<1>1. NoteWritten(s, a, page) = Confirmed(d, a, page)
  BY DEF NoteWritten
<1>2. IsNote(a, n)
  <2>1. IsNote(a, Note(s, a))
    BY NoteIs
  <2>2. n.readAs = Note(s, a).readAs
    BY DEF Note
  <2>3. n.writtenAs \in DOMAIN Selects \cup {-1}
    <3>1. n.writtenAs = IfUnset(Note(s, a).writtenAs, page) \/ n.writtenAs = Note(s, a).writtenAs
      OBVIOUS
    <3> QED  BY <2>1, <3>1 DEF IsNote, IfUnset
  <2> QED  BY <2>1, <2>2, <2>3 DEF IsNote
<1> HIDE DEF n
<1>3. IsSearch(d) /\ Grown(s, d)
  BY <1>2, NotedIs
<1> HIDE DEF d
<1>4. IsSearch(Confirmed(d, a, page)) /\ Grown(d, Confirmed(d, a, page))
  BY <1>3, ConfirmedIs
<1> QED  BY <1>1, <1>3, <1>4, GrownOn

(* A store beside an earlier one of the same value.                        *)
LEMMA PairedIs ==
  ASSUME NEW s, IsSearch(s),
         NEW prev \in Recents, prev.at # Nosrc, prev.page = SwitchPage(prev.at),
         NEW st, IsStore(st)
  PROVE  /\ IsSearch(Paired(s, prev, st, SwitchPage(st.at)))
         /\ Grown(s, Paired(s, prev, st, SwitchPage(st.at)))
<1> DEFINE page == SwitchPage(st.at)
<1>0. prev.at \in Int /\ st.at \in Int /\ st.at # Nosrc
  BY DEF Recents, IsStore
<1>1. /\ page \in Int /\ (page >= 0 => page \in DOMAIN Selects) /\ (page < 0 => page = -1)
      /\ prev.page \in Int /\ (prev.page >= 0 => prev.page \in DOMAIN Selects)
      /\ (prev.page < 0 => prev.page = -1)
  <2>1. /\ page \in DOMAIN Selects \cup {-1} /\ page \in Int
        /\ prev.page \in DOMAIN Selects \cup {-1} /\ prev.page \in Int
    BY <1>0, SwitchIs
  <2>2. DOMAIN Selects \subseteq Nat
    BY MapperAssumption
  <2> QED  BY <2>1, <2>2
<1> HIDE DEF page
<1>2. CASE prev.v = st.v /\ page >= 0 /\ prev.page < 0
  <2>1. Paired(s, prev, st, page) = NoteWritten(s, prev.at, page)
    BY <1>1, <1>2 DEF Paired
  <2>2. prev.at # Nosrc /\ SwitchPage(prev.at) = -1 /\ page \in DOMAIN Selects
    BY <1>1, <1>2
  <2> QED  BY <2>1, <2>2, NoteWrittenIs DEF page
<1>3. CASE prev.v = st.v /\ page < 0 /\ prev.page >= 0
  <2>1. Paired(s, prev, st, page) = NoteWritten(s, st.at, prev.page)
    BY <1>1, <1>3 DEF Paired
  <2>2. st.at # Nosrc /\ SwitchPage(st.at) = -1 /\ prev.page \in DOMAIN Selects
    BY <1>0, <1>1, <1>3 DEF page
  <2> QED  BY <2>1, <2>2, NoteWrittenIs DEF page
<1>4. CASE ~(prev.v = st.v /\ page >= 0 /\ prev.page < 0) /\ ~(prev.v = st.v /\ page < 0 /\ prev.page >= 0)
  <2>1. Paired(s, prev, st, page) = s
    BY <1>4 DEF Paired
  <2> QED  BY <2>1, GrownSelf DEF page
<1> QED  BY <1>2, <1>3, <1>4

-----------------------------------------------------------------------------
(* Stores, as they are noted and applied.                                  *)

(* A store beside each of the last six.                                    *)
LEMMA AllPairedIs ==
  ASSUME NEW s, IsSearch(s), NEW st, IsStore(st)
  PROVE  /\ IsSearch(AllPaired(s, st, SwitchPage(st.at)))
         /\ Grown(s, AllPaired(s, st, SwitchPage(st.at)))
<1> DEFINE page == SwitchPage(st.at)
           N == Len(s.recent)
           Folds(g) == /\ g[0] = s
                       /\ \A k \in 0..Len(s.recent) - 1 :
                            g[k + 1] = Paired(g[k], s.recent[k + 1], st, page)
                       /\ AllPaired(s, st, page) = g[Len(s.recent)]
<1>0. s.recent \in Seq(Recents) /\ N \in Nat
  BY LenProperties DEF IsSearch, RecentTyped
<1>1. \E g : Folds(g)
  <2> HIDE DEF page
  <2>1. Len(s.recent) \in Nat
    BY <1>0
  <2>2. \E g : /\ g[0] = s
               /\ \A k \in 0..Len(s.recent) - 1 : g[k + 1] = Paired(g[k], s.recent[k + 1], st, page)
               /\ AllPaired(s, st, page) = g[Len(s.recent)]
    BY <2>1, AllPairedSteps
  <2> QED  BY <2>2
<1>2. PICK g : Folds(g)
  BY <1>1
<1> DEFINE Good(k) == IsSearch(g[k]) /\ Grown(s, g[k])
           Goods == {k \in 0..N : Good(k)}
<1>3. Good(0)
  BY <1>2, GrownSelf
<1>4. ASSUME NEW k \in 0..N - 1, Good(k) PROVE Good(k + 1)
  <2>1. k + 1 \in 1..N
    BY <1>0
  <2>2. /\ s.recent[k + 1] \in Recents /\ s.recent[k + 1].at # Nosrc
        /\ s.recent[k + 1].page = SwitchPage(s.recent[k + 1].at)
    BY <1>0, <2>1, ElementOfSeq DEF IsSearch, RecentTyped
  <2>3. g[k + 1] = Paired(g[k], s.recent[k + 1], st, page)
    BY <1>2
  <2>4. IsSearch(g[k + 1]) /\ Grown(g[k], g[k + 1])
    BY <1>4, <2>2, <2>3, PairedIs
  <2> QED  BY <1>4, <2>4, GrownOn
<1> HIDE DEF Good
<1>5. 0 \in Goods /\ \A k \in 0..N - 1 : k \in Goods => k + 1 \in Goods
  BY <1>0, <1>3, <1>4
<1>6. 0..N \subseteq Goods
  <2> HIDE DEF Goods
  <2> QED  BY <1>0, <1>5, UpTo
<1>7. Good(N)
  BY <1>0, <1>6
<1> QED  BY <1>2, <1>7 DEF Good

(* noteStore keeps the search.                                             *)
LEMMA NoteStoreIs ==
  ASSUME NEW s, IsSearch(s), NEW st, IsStore(st)
  PROVE  /\ IsSearch(NoteStore(s, st, SwitchPage(st.at)))
         /\ Grown(s, NoteStore(s, st, SwitchPage(st.at)))
<1> DEFINE page == SwitchPage(st.at)
           p == AllPaired(s, st, page)
           e == [at |-> st.at, v |-> st.v, page |-> page]
           all == Append(p.recent, e)
           m == Lesser(Len(all), 6)
           q == SubSeq(all, Len(all) - m + 1, Len(all))
           d == [p EXCEPT !.recent = q]
<1>1. CASE st.v = Unknown
  <2>1. NoteStore(s, st, page) = s
    BY <1>1 DEF NoteStore
  <2> QED  BY <2>1, GrownSelf
<1>2. CASE st.v # Unknown
  <2>1. NoteStore(s, st, page) = d
    BY <1>2 DEF NoteStore, Last6
  <2>2. IsSearch(p) /\ Grown(s, p)
    BY AllPairedIs
  <2>3. e \in Recents /\ e.at # Nosrc /\ e.page = SwitchPage(e.at)
    BY SwitchIs DEF IsStore, Recents
  <2> HIDE DEF p, e
  <2>4. /\ p.recent \in Seq(Recents) /\ Len(p.recent) \in Nat
        /\ \A i \in 1..Len(p.recent) : /\ p.recent[i].at # Nosrc
                                       /\ p.recent[i].page = SwitchPage(p.recent[i].at)
    BY <2>2, LenProperties DEF IsSearch, RecentTyped
  <2>5. /\ all \in Seq(Recents) /\ Len(all) = Len(p.recent) + 1
        /\ \A i \in 1..Len(all) : /\ all[i].at # Nosrc
                                  /\ all[i].page = SwitchPage(all[i].at)
    <3>1. /\ all \in Seq(Recents) /\ Len(all) = Len(p.recent) + 1 /\ all[Len(p.recent) + 1] = e
          /\ \A i \in 1..Len(p.recent) : all[i] = p.recent[i]
      BY <2>3, <2>4, AppendProperties
    <3>2. \A i \in 1..Len(p.recent) + 1 : i \in 1..Len(p.recent) \/ i = Len(p.recent) + 1
      BY <2>4
    <3> HIDE DEF all
    <3> QED  BY <2>3, <2>4, <3>1, <3>2
  <2>6. m \in 0..Len(all)
    BY <2>4, <2>5 DEF Lesser
  <2>7. q = SubSeq(all, Len(all) - m + 1, Len(all))
    OBVIOUS
  <2> HIDE DEF all, m, q
  <2>8. q \in Seq(Recents) /\ Len(q) = m /\ \A i \in 1..m : \E j \in 1..Len(all) : q[i] = all[j]
    <3>1. all \in Seq(Recents) /\ m \in 0..Len(all)
      BY <2>5, <2>6
    <3>2. q \in Seq(Recents) /\ Len(q) = m
      BY <2>7, <3>1, LastsAre
    <3>3. \A i \in 1..m : \E j \in 1..Len(all) : q[i] = all[j]
      BY <2>7, <3>1, LastsAre
    <3> QED  BY <3>2, <3>3
  <2>9. Entire(d) /\ d.recent = q /\ \A f \in SearchFields \ {"recent"} : d[f] = p[f]
    <3>1. "recent" \in SearchFields /\ Entire(p)
      BY <2>2 DEF IsSearch, SearchFields
    <3> QED  BY <3>1, Changed
  <2> HIDE DEF d
  <2>10. d.notes = p.notes /\ d.shadows = p.shadows
    BY <2>9 DEF SearchFields
  <2>11. RecentTyped(d)
    BY <2>5, <2>8, <2>9 DEF RecentTyped
  <2>12. NotesTyped(d) /\ ShadowsTyped(d)
    BY <2>2, <2>10 DEF IsSearch, NotesTyped, ShadowsTyped
  <2>13. IsSearch(d) /\ Grown(p, d)
    BY <2>2, <2>9, <2>11, <2>12, Aside
  <2> QED  BY <2>1, <2>2, <2>13, GrownOn
<1> QED  BY <1>1, <1>2

(* A walk in the middle of an instruction.                                 *)
IsWalk(x) ==
  /\ x = [addr |-> x.addr, entry |-> x.entry, banks |-> x.banks, shadows |-> x.shadows,
          regs |-> x.regs, t |-> x.t, stop |-> x.stop]
  /\ x.addr \in Int /\ x.entry \in Pagings /\ x.banks \in Pagings /\ x.shadows \in Shadows
  /\ x.regs \in Regs /\ x.stop \in BOOLEAN
  /\ IsSearch(x.t)

(* The bank a store switches to, and the paging and shadows after it, when *)
(* it is known.                                                            *)
SwitchTo(x, st) == IF st.v # Unknown THEN Mask(st.v) ELSE x.entry[SwitchPage(st.at)]
BanksAfter(x, st) ==
  IF SwitchPage(st.at) >= 0 THEN [x.banks EXCEPT ![SwitchPage(st.at)] = SwitchTo(x, st)]
  ELSE x.banks
ShadowsAfter(x, st) ==
  IF SwitchPage(st.at) < 0 /\ st.at \in DOMAIN shadowMap
  THEN [x.shadows EXCEPT ![st.at] = Masked(st.v)] ELSE x.shadows
IsKnown(st) == SwitchPage(st.at) >= 0 /\ st.v = Unknown => Restores(st.src, SwitchPage(st.at))

(* applyStores, one store: the walk goes on in the paging the store makes, *)
(* or ends and says so.                                                    *)
LEMMA ApplyStoreIs ==
  ASSUME NEW x, IsWalk(x), NEW st, IsStore(st)
  PROVE  LET d == ApplyStore(x, st) IN
         /\ IsWalk(d) /\ Grown(x.t, d.t)
         /\ d.addr = x.addr /\ d.entry = x.entry /\ d.regs = x.regs
         /\ x.stop => d.stop
         /\ d.stop => x.stop \/ x.addr \in d.t.unresolved
         /\ ~d.stop => d.banks = BanksAfter(x, st) /\ d.shadows = ShadowsAfter(x, st) /\ IsKnown(st)
         /\ d.banks \in {x.banks, BanksAfter(x, st)}
<1> DEFINE page == SwitchPage(st.at)
           s == NoteStore(x.t, st, page)
           heard == [x EXCEPT !.t = s]
           u == NoteSource(s, st.src, page)
           w == [heard EXCEPT !.t = u]
           d == ApplyStore(x, st)
<1>0. st.at \in Int /\ st.at # Nosrc /\ st.v \in Int /\ st.src \in Int
  BY DEF IsStore
<1>1. /\ page \in DOMAIN Selects \cup {-1} /\ page \in Int /\ (page # -1 => page \in DOMAIN Pages)
      /\ page >= 0 <=> page # -1
  BY <1>0, SwitchIs
<1>2. IsSearch(s) /\ Grown(x.t, s)
  BY NoteStoreIs DEF IsWalk
<1>3. heard = [x EXCEPT !.t = NoteStore(@, st, page)]
  OBVIOUS
<1> HIDE DEF s
<1>4. IsWalk(heard) /\ heard.t = s /\ heard.addr = x.addr /\ heard.entry = x.entry
        /\ heard.banks = x.banks /\ heard.shadows = x.shadows /\ heard.regs = x.regs
        /\ heard.stop = x.stop
  BY <1>2 DEF IsWalk
<1>5. CASE page >= 0
  <2>1. page \in DOMAIN Selects /\ page \in DOMAIN Pages
    BY <1>1, <1>5
  <2>2. IsSearch(u) /\ Grown(s, u)
    BY <1>2, <2>1, NoteSourceIs
  <2>3. Grown(x.t, u)
    BY <1>2, <2>2, GrownOn DEF IsWalk
  <2>4. d = Switched(w, st, page)
    <3>1. d = Switched([heard EXCEPT !.t = NoteSource(@, st.src, page)], st, page)
      BY <1>1, <1>5 DEF ApplyStore, s
    <3>2. [heard EXCEPT !.t = NoteSource(@, st.src, page)] = w
      BY <1>4
    <3> QED  BY <3>1, <3>2
  <2> HIDE DEF u, heard
  <2>5. IsWalk(w) /\ w.t = u /\ w.addr = x.addr /\ w.entry = x.entry
        /\ w.banks = x.banks /\ w.shadows = x.shadows /\ w.regs = x.regs
        /\ w.stop = x.stop
    BY <1>4, <2>2 DEF IsWalk
  <2> HIDE DEF w, d, page
  <2>6. ShadowsAfter(x, st) = x.shadows
    BY <1>1, <1>5 DEF ShadowsAfter, page
  <2>7. BanksAfter(x, st) = [x.banks EXCEPT ![page] = SwitchTo(x, st)]
    BY <1>5 DEF BanksAfter, page
  <2>8. CASE st.v # Unknown
    <3>1. d = [w EXCEPT !.banks[page] = Mask(st.v)]
      BY <2>4, <2>8 DEF Switched
    <3>2. Mask(st.v) \in 0..NBanks - 1
      BY <1>0, BanksAre
    <3>3. IsWalk(d) /\ d.t = u /\ d.addr = x.addr /\ d.entry = x.entry /\ d.regs = x.regs
            /\ d.shadows = x.shadows /\ d.stop = x.stop
            /\ d.banks = [x.banks EXCEPT ![page] = Mask(st.v)]
      BY <2>1, <2>5, <3>1, <3>2 DEF IsWalk, Pagings
    <3>4. SwitchTo(x, st) = Mask(st.v) /\ IsKnown(st)
      BY <2>8 DEF SwitchTo, IsKnown
    <3> QED  BY <2>3, <2>6, <2>7, <3>3, <3>4 DEF d
  <2>9. CASE st.v = Unknown /\ Restores(st.src, page)
    <3> DEFINE r == [u EXCEPT !.restores = @ \cup {w.addr}]
    <3>1. d = [w EXCEPT !.t = r, !.banks[page] = w.entry[page]]
      BY <2>4, <2>5, <2>9 DEF Switched
    <3>2. IsSearch(r) /\ Grown(u, r)
      <4>1. Entire(r) /\ \A f \in SearchFields \ {"restores"} : r[f] = u[f]
        <5>1. "restores" \in SearchFields /\ Entire(u)
          BY <2>2 DEF IsSearch, SearchFields
        <5> QED  BY <5>1, Changed
      <4> HIDE DEF r
      <4>2. IsSearch(r)
        BY <2>2, <4>1, Quiet DEF SearchFields
      <4> QED  BY <2>2, <4>1, <4>2, QueueLen DEF Grown, SearchFields
    <3> HIDE DEF r
    <3>3. w.entry[page] \in 0..NBanks - 1
      BY <2>1, <2>5 DEF IsWalk, Pagings
    <3>4. IsWalk(d) /\ d.t = r /\ d.addr = x.addr /\ d.entry = x.entry /\ d.regs = x.regs
            /\ d.shadows = x.shadows /\ d.stop = x.stop
            /\ d.banks = [x.banks EXCEPT ![page] = x.entry[page]]
      BY <2>1, <2>5, <3>1, <3>2, <3>3 DEF IsWalk, Pagings
    <3>5. SwitchTo(x, st) = x.entry[page] /\ IsKnown(st)
      BY <2>9 DEF SwitchTo, IsKnown, page
    <3>6. Grown(x.t, r)
      BY <2>2, <2>3, <3>2, GrownOn DEF IsWalk
    <3> QED  BY <2>6, <2>7, <3>4, <3>5, <3>6 DEF d
  <2>10. CASE st.v = Unknown /\ ~Restores(st.src, page)
    <3> DEFINE r == [u EXCEPT !.unresolved = @ \cup {w.addr}]
    <3>1. d = [w EXCEPT !.t = r, !.stop = TRUE]
      BY <2>4, <2>5, <2>10 DEF Switched
    <3>2. IsSearch(r) /\ Grown(u, r) /\ w.addr \in r.unresolved
      <4>1. Entire(r) /\ r.unresolved = u.unresolved \cup {w.addr}
              /\ \A f \in SearchFields \ {"unresolved"} : r[f] = u[f]
        <5>1. "unresolved" \in SearchFields /\ Entire(u)
          BY <2>2 DEF IsSearch, SearchFields
        <5> QED  BY <5>1, Changed
      <4> HIDE DEF r
      <4>2. IsSearch(r)
        BY <2>2, <4>1, Quiet DEF SearchFields
      <4> QED  BY <2>2, <4>1, <4>2, QueueLen DEF Grown, SearchFields
    <3> HIDE DEF r
    <3>3. IsWalk(d) /\ d.t = r /\ d.addr = x.addr /\ d.entry = x.entry /\ d.regs = x.regs
            /\ d.shadows = x.shadows /\ d.stop = TRUE /\ d.banks = x.banks
      BY <2>1, <2>5, <3>1, <3>2 DEF IsWalk, Pagings
    <3>4. Grown(x.t, r)
      BY <2>2, <2>3, <3>2, GrownOn DEF IsWalk
    <3> QED  BY <2>5, <3>2, <3>3, <3>4 DEF d
  <2> QED  BY <2>8, <2>9, <2>10
<1>6. CASE page < 0
  <2>1. BanksAfter(x, st) = x.banks /\ IsKnown(st)
    BY <1>6, <1>1 DEF BanksAfter, IsKnown
  <2>2. CASE st.at \in DOMAIN shadowMap
    <3>1. d = [heard EXCEPT !.shadows[st.at] = Masked(st.v)]
      BY <1>1, <1>6, <2>2 DEF ApplyStore, s
    <3>2. Masked(st.v) \in 0..NBanks - 1 \cup {Unknown}
      BY <1>0, BanksAre DEF Masked
    <3> HIDE DEF d, heard, page
    <3>3. IsWalk(d) /\ d.t = s /\ d.addr = x.addr /\ d.entry = x.entry /\ d.regs = x.regs
            /\ d.shadows = [x.shadows EXCEPT ![st.at] = Masked(st.v)] /\ d.stop = x.stop
            /\ d.banks = x.banks
      BY <1>4, <2>2, <3>1, <3>2 DEF IsWalk, Shadows
    <3>4. ShadowsAfter(x, st) = [x.shadows EXCEPT ![st.at] = Masked(st.v)]
      BY <1>6, <2>2 DEF ShadowsAfter, page
    <3> QED  BY <1>2, <2>1, <3>3, <3>4 DEF d
  <2>3. CASE st.at \notin DOMAIN shadowMap
    <3>1. d = heard
      BY <1>1, <1>6, <2>3 DEF ApplyStore, s
    <3>2. ShadowsAfter(x, st) = x.shadows
      BY <2>3 DEF ShadowsAfter
    <3> HIDE DEF heard, d
    <3> QED  BY <1>2, <1>4, <2>1, <3>1, <3>2 DEF d
  <2> QED  BY <2>2, <2>3
<1> QED  BY <1>1, <1>5, <1>6

(* applyStores, for none, one or two stores.                               *)
LEMMA StoredIs ==
  ASSUME NEW x, NEW stores, AreStores(stores)
  PROVE  /\ Len(stores) = 0 => Stored(x, stores) = x
         /\ Len(stores) = 1 => Stored(x, stores) = ApplyStore(x, stores[1])
         /\ Len(stores) = 2 => Stored(x, stores) = ApplyStore(ApplyStore(x, stores[1]), stores[2])
<1>0. Len(stores) \in {0, 1, 2} /\ Len(stores) \in Nat
  BY DEF AreStores
<1> DEFINE Folds(g) == /\ g[0] = x
                       /\ \A k \in 0..Len(stores) - 1 : g[k + 1] = ApplyStore(g[k], stores[k + 1])
                       /\ Stored(x, stores) = g[Len(stores)]
<1>1. \E g : Folds(g)
  <2>1. \E g : /\ g[0] = x
               /\ \A k \in 0..Len(stores) - 1 : g[k + 1] = ApplyStore(g[k], stores[k + 1])
               /\ Stored(x, stores) = g[Len(stores)]
    BY <1>0, StoredSteps
  <2> QED  BY <2>1
<1>2. PICK g : Folds(g)
  BY <1>1
<1>3. CASE Len(stores) = 0
  BY <1>2, <1>3
<1>4. CASE Len(stores) = 1
  <2>1. 0 \in 0..Len(stores) - 1 /\ 0 + 1 = 1
    BY <1>4
  <2>2. g[1] = ApplyStore(x, stores[1])
    BY <1>2, <2>1
  <2> QED  BY <1>2, <1>4, <2>2
<1>5. CASE Len(stores) = 2
  <2>1. 0 \in 0..Len(stores) - 1 /\ 1 \in 0..Len(stores) - 1 /\ 0 + 1 = 1 /\ 1 + 1 = 2
    BY <1>5
  <2>2. g[1] = ApplyStore(x, stores[1])
    BY <1>2, <2>1
  <2>3. g[2] = ApplyStore(g[1], stores[2])
    BY <1>2, <2>1
  <2> QED  BY <1>2, <1>5, <2>2, <2>3
<1> QED  BY <1>0, <1>3, <1>4, <1>5

(* A store switches one page at most.                                      *)
LEMMA BanksAfterIs ==
  ASSUME NEW x, IsWalk(x), NEW st, IsStore(st), NEW p \in DOMAIN Pages
  PROVE  \E i \in DOMAIN Pages, b \in 0..NBanks - 1 : BanksAfter(x, st) = [x.banks EXCEPT ![i] = b]
<1>0. x.banks \in Pagings /\ x.entry \in Pagings /\ st.at \in Int /\ st.v \in Int
  BY DEF IsWalk, IsStore
<1>1. CASE SwitchPage(st.at) >= 0
  <2>1. SwitchPage(st.at) \in DOMAIN Pages
    BY <1>0, <1>1, SwitchIs
  <2>2. SwitchTo(x, st) \in 0..NBanks - 1
    BY <1>0, <2>1, BanksAre DEF SwitchTo, Pagings
  <2> QED  BY <1>1, <2>1, <2>2 DEF BanksAfter
<1>2. CASE ~(SwitchPage(st.at) >= 0)
  <2>1. x.banks[p] \in 0..NBanks - 1
    BY <1>0 DEF Pagings
  <2>2. x.banks = [x.banks EXCEPT ![p] = x.banks[p]]
    BY <1>0 DEF Pagings
  <2> QED  BY <1>2, <2>1, <2>2 DEF BanksAfter
<1> QED  BY <1>1, <1>2

(* After an instruction's stores two pages at most are switched, or the    *)
(* walk has ended at a reported switch.                                    *)
LEMMA StoredStays ==
  ASSUME NEW x, IsWalk(x), ~x.stop, NEW stores, AreStores(stores), NEW p \in DOMAIN Pages
  PROVE  LET d == Stored(x, stores) IN
         /\ IsWalk(d) /\ Grown(x.t, d.t)
         /\ d.addr = x.addr /\ d.entry = x.entry /\ d.regs = x.regs
         /\ d.stop => x.addr \in d.t.unresolved
         /\ d.banks \in TwoPages(x.banks)
         /\ stores = <<>> => d = x
<1>0. /\ IsSearch(x.t) /\ x.banks \in Pagings /\ Len(stores) \in {0, 1, 2}
      /\ \A i \in 1..Len(stores) : IsStore(stores[i])
  BY DEF IsWalk, AreStores
<1>a. x.banks[p] \in 0..NBanks - 1 /\ x.banks = [x.banks EXCEPT ![p] = x.banks[p]]
  BY <1>0 DEF Pagings
<1>1. CASE Len(stores) = 0
  <2>1. Stored(x, stores) = x
    BY <1>1, StoredIs
  <2>2. x.banks = [x.banks EXCEPT ![p] = x.banks[p], ![p] = x.banks[p]]
    BY <1>a
  <2>3. x.banks \in TwoPages(x.banks)
    BY <1>a, <2>2 DEF TwoPages
  <2> QED  BY <1>0, <2>1, <2>3, GrownSelf
<1>2. CASE Len(stores) = 1
  <2> DEFINE d == ApplyStore(x, stores[1])
  <2>1. Stored(x, stores) = d /\ IsStore(stores[1]) /\ stores # <<>>
    BY <1>0, <1>2, StoredIs
  <2>2. /\ IsWalk(d) /\ Grown(x.t, d.t)
        /\ d.addr = x.addr /\ d.entry = x.entry /\ d.regs = x.regs
        /\ d.stop => x.addr \in d.t.unresolved
        /\ d.banks \in {x.banks, BanksAfter(x, stores[1])}
    BY <2>1, ApplyStoreIs
  <2> HIDE DEF d
  <2>3. PICK i \in DOMAIN Pages, b \in 0..NBanks - 1 : d.banks = [x.banks EXCEPT ![i] = b]
    <3>1. CASE d.banks = x.banks
      BY <1>a, <3>1
    <3>2. CASE d.banks = BanksAfter(x, stores[1])
      <4>1. \E i \in DOMAIN Pages, b \in 0..NBanks - 1 :
              BanksAfter(x, stores[1]) = [x.banks EXCEPT ![i] = b]
        BY <2>1, BanksAfterIs
      <4> QED  BY <3>2, <4>1
    <3> QED  BY <2>2, <3>1, <3>2
  <2>4. d.banks = [x.banks EXCEPT ![i] = b, ![i] = b]
    BY <2>3
  <2>5. d.banks \in TwoPages(x.banks)
    BY <2>4 DEF TwoPages
  <2> QED  BY <2>1, <2>2, <2>5
<1>3. CASE Len(stores) = 2
  <2> DEFINE y == ApplyStore(x, stores[1])
             d == ApplyStore(y, stores[2])
  <2>1. Stored(x, stores) = d /\ IsStore(stores[1]) /\ IsStore(stores[2]) /\ stores # <<>>
    BY <1>0, <1>3, StoredIs
  <2>2. /\ IsWalk(y) /\ Grown(x.t, y.t)
        /\ y.addr = x.addr /\ y.entry = x.entry /\ y.regs = x.regs
        /\ y.stop => x.addr \in y.t.unresolved
        /\ y.banks \in {x.banks, BanksAfter(x, stores[1])}
    BY <2>1, ApplyStoreIs
  <2> HIDE DEF y
  <2>3. /\ IsWalk(d) /\ Grown(y.t, d.t)
        /\ d.addr = y.addr /\ d.entry = y.entry /\ d.regs = y.regs
        /\ d.stop => y.stop \/ y.addr \in d.t.unresolved
        /\ d.banks \in {y.banks, BanksAfter(y, stores[2])}
    BY <2>1, <2>2, ApplyStoreIs
  <2> HIDE DEF d
  <2>4. Grown(x.t, d.t)
    BY <1>0, <2>2, <2>3, GrownOn DEF IsWalk
  <2>5. y.t.unresolved \subseteq d.t.unresolved
    BY <2>3 DEF Grown
  <2>6. PICK i \in DOMAIN Pages, b \in 0..NBanks - 1 : y.banks = [x.banks EXCEPT ![i] = b]
    <3>1. CASE y.banks = x.banks
      BY <1>a, <3>1
    <3>2. CASE y.banks = BanksAfter(x, stores[1])
      <4>1. \E i \in DOMAIN Pages, b \in 0..NBanks - 1 :
              BanksAfter(x, stores[1]) = [x.banks EXCEPT ![i] = b]
        BY <2>1, BanksAfterIs
      <4> QED  BY <3>2, <4>1
    <3> QED  BY <2>2, <3>1, <3>2
  <2>7. PICK j \in DOMAIN Pages, c \in 0..NBanks - 1 : d.banks = [y.banks EXCEPT ![j] = c]
    <3>0. y.banks[p] \in 0..NBanks - 1 /\ y.banks = [y.banks EXCEPT ![p] = y.banks[p]]
      BY <2>2 DEF IsWalk, Pagings
    <3>1. CASE d.banks = y.banks
      BY <3>0, <3>1
    <3>2. CASE d.banks = BanksAfter(y, stores[2])
      <4>1. \E j \in DOMAIN Pages, c \in 0..NBanks - 1 :
              BanksAfter(y, stores[2]) = [y.banks EXCEPT ![j] = c]
        BY <2>1, <2>2, BanksAfterIs
      <4> QED  BY <3>2, <4>1
    <3> QED  BY <2>3, <3>1, <3>2
  <2>8. d.banks = [x.banks EXCEPT ![i] = b, ![j] = c]
    BY <2>6, <2>7
  <2>9. d.banks \in TwoPages(x.banks)
    BY <2>8 DEF TwoPages
  <2> QED  BY <2>1, <2>2, <2>3, <2>4, <2>5, <2>9
<1> QED  BY <1>0, <1>1, <1>2, <1>3

(* A state walked is kept.                                                 *)
LEMMA VisitedIs ==
  ASSUME NEW s, IsSearch(s), NEW w
  PROVE  LET d == Visited(s, w) IN
         /\ IsSearch(d) /\ d.visit = s.visit \cup {Key(w)}
         /\ \A f \in SearchFields \ {"visit"} : d[f] = s[f]
<1> DEFINE v == s.visit \cup {Key(w)}
           d == [s EXCEPT !.visit = v]
<1>1. Visited(s, w) = d
  BY DEF Visited
<1> HIDE DEF v
<1>2. Entire(d) /\ d.visit = v /\ \A f \in SearchFields \ {"visit"} : d[f] = s[f]
  <2>1. "visit" \in SearchFields /\ Entire(s)
    BY DEF IsSearch, SearchFields
  <2> QED  BY <2>1, Changed
<1> HIDE DEF d
<1>3. IsSearch(d)
  BY <1>2, Quiet DEF SearchFields
<1> QED  BY <1>1, <1>2, <1>3 DEF v

(* mark: the offset is code, and no pointer.                               *)
LEMMA MarkIs ==
  ASSUME NEW s, IsSearch(s), NEW off \in 0..Cells - 1, NEW a
  PROVE  IsSearch(Mark(s, off, a)) /\ Grown(s, Mark(s, off, a))
<1> DEFINE l == IF off \in DOMAIN s.logical THEN s.logical ELSE With(s.logical, off, a)
           c == s.code \cup {off}
           p == s.pointers \ {off}
           d == [s EXCEPT !.code = c, !.pointers = p, !.logical = l]
<1>1. Mark(s, off, a) = d
  BY DEF Mark
<1>2. DOMAIN l \subseteq DOMAIN s.logical \cup {off}
  BY DEF With
<1>3. c \cap p = {} /\ c \subseteq 0..Cells - 1 /\ DOMAIN l \subseteq 0..Cells - 1
  BY <1>2 DEF IsSearch, CodeTyped
<1> HIDE DEF l, c, p
<1>4. /\ Entire(d) /\ d.code = c /\ d.pointers = p /\ d.logical = l
      /\ d.queue = s.queue /\ d.candidates = s.candidates /\ d.recent = s.recent
      /\ d.notes = s.notes /\ d.shadows = s.shadows /\ d.visit = s.visit /\ d.tables = s.tables
      /\ d.overflowed = s.overflowed /\ d.unresolved = s.unresolved
  BY DEF IsSearch, Entire, SearchFields
<1> HIDE DEF d
<1>5. IsSearch(d)
  BY <1>3, <1>4
     DEF IsSearch, QueueTyped, CodeTyped, CandidatesTyped, RecentTyped, NotesTyped, ShadowsTyped
<1> QED  BY <1>1, <1>4, <1>5, QueueLen DEF Grown

(* A candidate is kept with the state it is to be walked in.               *)
LEMMA PushedReturnIs ==
  ASSUME NEW s, IsSearch(s), NEW w, w.addr \in Int, w.banks \in Pagings, w.shadows \in Shadows,
         w.regs \in Regs, NEW ins, WellFormed(ins)
  PROVE  IsSearch(PushedReturn(s, w, ins)) /\ Grown(s, PushedReturn(s, w, ins))
<1> DEFINE c == [push |-> w.addr + 1, work |-> Work(ins.n, w.banks, w.shadows, w.regs)]
           q == Append(s.candidates, c)
           d == [s EXCEPT !.candidates = q]
<1>1. CASE PushedReturn(s, w, ins) = s
  BY <1>1, GrownSelf
<1>2. CASE PushedReturn(s, w, ins) # s
  <2>1. PushedReturn(s, w, ins) = d /\ ins.op = "LdPN"
    BY <1>2 DEF PushedReturn
  <2>2. c \in Candidates
    BY <2>1 DEF WellFormed, Candidates, Work, Works
  <2> HIDE DEF c
  <2>3. q \in Seq(Candidates)
    BY <2>2, AppendProperties DEF IsSearch, CandidatesTyped
  <2> HIDE DEF q
  <2>4. Entire(d) /\ d.candidates = q /\ \A f \in SearchFields \ {"candidates"} : d[f] = s[f]
    <3>1. "candidates" \in SearchFields /\ Entire(s)
      BY DEF IsSearch, SearchFields
    <3> QED  BY <3>1, Changed
  <2> HIDE DEF d
  <2>5. /\ d.queue = s.queue /\ d.code = s.code /\ d.pointers = s.pointers
        /\ d.logical = s.logical /\ d.recent = s.recent /\ d.notes = s.notes
        /\ d.shadows = s.shadows /\ d.visit = s.visit /\ d.tables = s.tables
        /\ d.overflowed = s.overflowed /\ d.unresolved = s.unresolved
    BY <2>4 DEF SearchFields
  <2>6. IsSearch(d)
    BY <2>3, <2>4, <2>5
       DEF IsSearch, QueueTyped, CodeTyped, CandidatesTyped, RecentTyped, NotesTyped, ShadowsTyped
  <2> QED  BY <2>1, <2>5, <2>6, QueueLen DEF Grown
<1> QED  BY <1>1, <1>2

-----------------------------------------------------------------------------
(* What one instruction adds to the search.                                *)

(* A state to walk.                                                        *)
LEMMA WorkIs ==
  ASSUME NEW a, a \in Int, NEW banks \in Pagings, NEW shadows \in Shadows, NEW regs \in Regs
  PROVE  /\ Work(a, banks, shadows, regs) \in Works
         /\ Work(a, banks, shadows, regs).addr = a /\ Work(a, banks, shadows, regs).banks = banks
BY DEF Work, Works

(* A hook is queued.                                                       *)
LEMMA HookIs ==
  ASSUME NEW s, IsSearch(s), NEW x, IsWalk(x), NEW ins
  PROVE  IsSearch(InstalledHook(s, x, ins)) /\ Grown(s, InstalledHook(s, x, ins))
<1> DEFINE a == PairOf(x.regs, "HL")
           w == Work(a, x.banks, x.shadows, x.regs)
<1>1. InstalledHook(s, x, ins) = s \/ InstalledHook(s, x, ins) = Enqueue(s, w)
  BY DEF InstalledHook
<1>2. a \in Int
  BY PairOfIs DEF IsWalk, PairNames
<1> HIDE DEF a
<1>3. w \in Works
  BY <1>2, WorkIs DEF IsWalk
<1> HIDE DEF w
<1>4. IsSearch(Enqueue(s, w)) /\ Grown(s, Enqueue(s, w))
  BY <1>3, EnqueueIs
<1> QED  BY <1>1, <1>4, GrownSelf

(* A call or jump noted leaves the queue.                                  *)
LEMMA Listed ==
  ASSUME NEW s, IsSearch(s), NEW f \in {"calls", "jumps"}, NEW v
  PROVE  /\ IsSearch([s EXCEPT ![f] = v]) /\ Grown(s, [s EXCEPT ![f] = v])
         /\ [s EXCEPT ![f] = v].queue = s.queue
<1> DEFINE d == [s EXCEPT ![f] = v]
<1>1. Entire(d) /\ \A g \in SearchFields \ {f} : d[g] = s[g]
  <2>1. f \in SearchFields /\ Entire(s)
    BY DEF IsSearch, SearchFields
  <2> QED  BY <2>1, Changed
<1> HIDE DEF d
<1>2. IsSearch(d)
  BY <1>1, Quiet DEF SearchFields
<1>3. Grown(s, d) /\ d.queue = s.queue
  BY <1>1, <1>2, QueueLen DEF Grown, SearchFields
<1> QED  BY <1>2, <1>3 DEF d

(* The target of a call or jump is reached.                                *)
LEMMA TargetsIs ==
  ASSUME NEW s, IsSearch(s), NEW x, IsWalk(x), NEW ins, WellFormed(ins)
  PROVE  /\ IsSearch(Targets(s, x, ins)) /\ Grown(s, Targets(s, x, ins))
         /\ ins.op \in {"Call", "Jp", "Djnz"} => Reached(Targets(s, x, ins), ins.n, x.banks)
<1> DEFINE w == Work(ins.n, x.banks, x.shadows, x.regs)
           e == Enqueue(s, w)
           d == Targets(s, x, ins)
<1>1. CASE ins.op \in {"Call", "Jp", "Djnz"}
  <2>1. w \in Works /\ w.addr = ins.n /\ w.banks = x.banks
    <3>1. ins.n \in Int
      BY <1>1 DEF WellFormed
    <3> QED  BY <3>1, WorkIs DEF IsWalk
  <2> HIDE DEF w
  <2>2. IsSearch(e) /\ Grown(s, e) /\ Reached(e, ins.n, x.banks)
    BY <2>1, EnqueueIs
  <2> HIDE DEF e
  <2>3. \E f \in {"calls", "jumps"} : d = [e EXCEPT ![f] = @ \cup {ins.n}]
    <3>1. CASE ins.op = "Call"
      BY <3>1 DEF Targets, e, w
    <3>2. CASE ins.op \in {"Jp", "Djnz"}
      BY <3>2 DEF Targets, e, w
    <3> QED  BY <1>1, <3>1, <3>2
  <2> HIDE DEF d
  <2>4. IsSearch(d) /\ Grown(e, d)
    <3>1. PICK f \in {"calls", "jumps"} : d = [e EXCEPT ![f] = @ \cup {ins.n}]
      BY <2>3
    <3> DEFINE v == e[f] \cup {ins.n}
    <3>2. d = [e EXCEPT ![f] = v]
      BY <3>1
    <3> HIDE DEF v
    <3> QED  BY <2>2, <3>2, Listed
  <2>5. Grown(s, d) /\ Reached(d, ins.n, x.banks)
    BY <2>2, <2>4, GrownOn, ReachedStays
  <2> QED  BY <2>4, <2>5 DEF d
<1>2. CASE ins.op = "Rst"
  <2>1. d = [s EXCEPT !.calls = @ \cup {ins.n}]
    BY <1>2 DEF Targets
  <2> HIDE DEF d
  <2>2. IsSearch(d) /\ Grown(s, d)
    BY <2>1, Listed
  <2> QED  BY <1>2, <2>2 DEF d
<1>3. CASE ins.op \notin {"Call", "Jp", "Djnz", "Rst"}
  <2>1. d = s
    BY <1>3 DEF Targets
  <2> QED  BY <1>3, <2>1, GrownSelf
<1> QED  BY <1>1, <1>2, <1>3

(* A table ends: the address space does.                                   *)
LEMMA TableLengthIs ==
  ASSUME NEW s, NEW banks \in Pagings, NEW at \in Nat
  PROVE  TableLength(s, banks, at) \in Nat
<1> DEFINE fits(i) == LET a == at + i IN
             /\ Offset(banks, a) # -1
             /\ i > 0 => Offset(banks, a) \notin s.code
             /\ WordAt(banks, a) # -1 /\ Offset(banks, WordAt(banks, a)) # -1
             /\ PageOf(WordAt(banks, a)) = PageOf(WordAt(banks, at))
             /\ \A j \in 0..i - 1 : LET h == WordAt(banks, at + j) IN h <= at \/ a < h
           M == ByteSize * ByteSize
           Halts(n) == ~fits(n)
           E == {n \in 0..M : Halts(n)}
<1>1. M \in Nat
  BY StepAssumption
<1>2. Halts(M)
  <2>1. at + M \in Int /\ at + M \notin 0..M - 1
    BY <1>1
  <2>2. Offset(banks, at + M) = -1
    BY <2>1, OffsetIs
  <2> QED  BY <2>2
<1>3. TableLength(s, banks, at) = CHOOSE n \in 0..M : ~fits(n) /\ \A i \in 0..n - 1 : fits(i)
  BY DEF TableLength
<1> HIDE DEF fits, M
<1>4. E \in SUBSET Nat /\ E # {}
  BY <1>1, <1>2
<1>5. PICK n \in E : \A m \in E : n <= m
  BY <1>4, LeastIn
<1>6. n \in 0..M /\ ~fits(n) /\ \A i \in 0..n - 1 : fits(i)
  <2>1. n \in 0..M /\ ~fits(n)
    BY <1>5
  <2>2. ASSUME NEW i \in 0..n - 1 PROVE fits(i)
    <3>1. i \in 0..M /\ ~(n <= i)
      BY <1>1, <2>1
    <3>2. i \notin E
      BY <1>5, <3>1
    <3> QED  BY <3>1, <3>2
  <2> QED  BY <2>1, <2>2
<1>7. TableLength(s, banks, at) \in 0..M
  BY <1>3, <1>6
<1> QED  BY <1>1, <1>7

(* The table read at an address.                                           *)
TableOf(x, at, n) == [at |-> at, banks |-> x.banks, count |-> n]
(* Every word of an inline table is reached, and the table is kept.        *)
LEMMA InlineTableIs ==
  ASSUME Ground, NEW s, IsSearch(s), NEW x, IsWalk(x), NEW at \in Int, NEW n \in Nat
  PROVE  LET d == InlineTable(s, x, at, n) IN
         /\ IsSearch(d) /\ d.visit = s.visit /\ d.overflowed = s.overflowed
         /\ s.unresolved \subseteq d.unresolved
         /\ \A a, banks : Reached(s, a, banks) => Reached(d, a, banks)
         /\ d.tables = IF n = 0 THEN s.tables ELSE s.tables \cup {TableOf(x, at, n)}
         /\ n # 0 => \A i \in 0..n - 1 : Reached(d, WordAt(x.banks, at + i), x.banks)
<1> DEFINE ws == [i \in 1..n |-> Work(WordAt(x.banks, at + i - 1), x.banks, x.shadows, x.regs)]
           offsets == {Offset(x.banks, at + i) : i \in 0..n - 1}
           b == s.tables \cup {TableOf(x, at, n)}
           p == s.pointers \cup offsets
           c == s.code \ offsets
           e == [s EXCEPT !.tables = b, !.pointers = p, !.code = c]
           d == InlineTable(s, x, at, n)
<1>1. CASE n = 0
  <2>1. d = s
    BY <1>1 DEF InlineTable
  <2> QED  BY <1>1, <2>1
<1>2. CASE n # 0
  <2>1. d = EnqueueAll(e, ws)
    BY <1>2 DEF InlineTable, TableOf
  <2>2. c \cap p = {} /\ c \subseteq 0..Cells - 1
    BY DEF IsSearch, CodeTyped
  <2>3. Len(ws) = n /\ Len(ws) \in Nat
    OBVIOUS
  <2>4. ASSUME NEW k \in 1..n
        PROVE  /\ ws[k] \in Works /\ ws[k].addr = WordAt(x.banks, at + k - 1)
               /\ ws[k].banks = x.banks
    <3>1. WordAt(x.banks, at + k - 1) \in Int
      <4>1. at + k - 1 \in Int
        OBVIOUS
      <4> QED  BY <4>1, WordIs DEF IsWalk
    <3> QED  BY <3>1, WorkIs DEF IsWalk
  <2> HIDE DEF ws, p, c, b
  <2>5. /\ Entire(e) /\ e.code = c /\ e.pointers = p /\ e.logical = s.logical /\ e.tables = b
        /\ e.queue = s.queue /\ e.candidates = s.candidates /\ e.recent = s.recent
        /\ e.notes = s.notes /\ e.shadows = s.shadows /\ e.visit = s.visit
        /\ e.overflowed = s.overflowed /\ e.unresolved = s.unresolved
    BY DEF IsSearch, Entire, SearchFields
  <2> HIDE DEF e
  <2>6. IsSearch(e)
    BY <2>2, <2>5
       DEF IsSearch, QueueTyped, CodeTyped, CandidatesTyped, RecentTyped, NotesTyped, ShadowsTyped
  <2>7. /\ IsSearch(d) /\ Grown(e, d)
        /\ \A k \in 1..n : Reached(d, ws[k].addr, ws[k].banks)
    <3>1. \A k \in 1..Len(ws) : ws[k] \in Works
      BY <2>3, <2>4
    <3>2. /\ IsSearch(EnqueueAll(e, ws)) /\ Grown(e, EnqueueAll(e, ws))
          /\ \A k \in 1..Len(ws) : Reached(EnqueueAll(e, ws), ws[k].addr, ws[k].banks)
      BY <2>3, <2>6, <3>1, EnqueueAllIs
    <3> QED  BY <2>1, <2>3, <3>2
  <2> HIDE DEF d
  <2>8. ASSUME NEW i \in 0..n - 1 PROVE Reached(d, WordAt(x.banks, at + i), x.banks)
    <3>1. i + 1 \in 1..n /\ at + (i + 1) - 1 = at + i
      OBVIOUS
    <3>2. ws[i + 1].addr = WordAt(x.banks, at + (i + 1) - 1) /\ ws[i + 1].banks = x.banks
      BY <2>4, <3>1
    <3> QED  BY <2>7, <3>1, <3>2
  <2>9. ASSUME NEW a, NEW banks, Reached(s, a, banks) PROVE Reached(d, a, banks)
    <3>1. Reached(e, a, banks)
      BY <2>5, <2>9 DEF Reached
    <3> QED  BY <2>6, <2>7, <3>1, ReachedStays
  <2>10. d.visit = s.visit /\ d.overflowed = s.overflowed /\ s.unresolved \subseteq d.unresolved
           /\ d.tables = b
    BY <2>5, <2>7 DEF Grown
  <2> QED  BY <1>2, <2>7, <2>8, <2>9, <2>10 DEF d, b
<1> QED  BY <1>1, <1>2

-----------------------------------------------------------------------------
(* One turn of walk.                                                       *)

(* A state that walk is at.                                                *)
Places == [addr : Int, banks : Pagings, shadows : Shadows, regs : Regs, entry : Pagings]

(* It is somewhere.                                                        *)
LEMMA NotNowhere ==
  ASSUME NEW w \in Places
  PROVE  w # Nowhere
<1>1. w = [addr |-> w.addr, banks |-> w.banks, shadows |-> w.shadows, regs |-> w.regs,
           entry |-> w.entry]
  BY DEF Places
<1>2. "addr" \in DOMAIN w /\ "addr" \notin DOMAIN Nowhere
  BY <1>1 DEF Nowhere
<1> QED  BY <1>2

(* A shadow holds a bank or is not known.                                  *)
LEMMA ShadowsAre ==
  ASSUME NEW shadows \in Shadows
  PROVE  \A a \in DOMAIN shadows : shadows[a] \in Int
BY BanksAre, NamesAre DEF Shadows

(* Where a walk is when an instruction's stores are done.                  *)
ReadOf(w, ins) == PushedReturn(Mark(Visited(t, w), Offset(w.banks, w.addr), w.addr), w, ins)
CarriedOf(w, ins) == Carried(w, ReadOf(w, ins), RegsAfter(w.regs, ins, w.shadows))
Landed(w, ins) == Hooked(Stored(CarriedOf(w, ins), StoresOf(w.regs, ins)), ins)

(* A turn of walk is what the instruction does, and then where the walk    *)
(* goes.                                                                   *)
LEMMA WalkedAs ==
  ASSUME NEW w, NEW ins
  PROVE  Walked(w, ins) = Left(Landed(w, ins), ins)
BY DEF Walked, Landed, CarriedOf, ReadOf

(* The instruction is decoded and the registers moved.                     *)
LEMMA CarriedIs ==
  ASSUME Ground, IsSearch(t), NEW w \in Places, Offset(w.banks, w.addr) # -1,
         NEW ins, WellFormed(ins)
  PROVE  LET x == CarriedOf(w, ins) IN
         /\ IsWalk(x) /\ x.addr = w.addr /\ x.entry = w.entry /\ x.banks = w.banks
         /\ x.shadows = w.shadows /\ x.regs = RegsAfter(w.regs, ins, w.shadows) /\ x.stop = FALSE
         /\ Grown(Visited(t, w), x.t)
<1> DEFINE off == Offset(w.banks, w.addr)
           v == Visited(t, w)
           m == Mark(v, off, w.addr)
           r == PushedReturn(m, w, ins)
           g == RegsAfter(w.regs, ins, w.shadows)
           x == CarriedOf(w, ins)
<1>1. /\ w.addr \in Int /\ w.banks \in Pagings /\ w.shadows \in Shadows /\ w.regs \in Regs
      /\ w.entry \in Pagings
  BY DEF Places
<1>2. IsSearch(v)
  BY VisitedIs
<1>3. off \in 0..Cells - 1
  BY <1>1, OffsetIs
<1> HIDE DEF v, off
<1>4. IsSearch(m) /\ Grown(v, m)
  BY <1>2, <1>3, MarkIs
<1> HIDE DEF m
<1>5. IsSearch(r) /\ Grown(m, r)
  BY <1>1, <1>4, PushedReturnIs
<1>6. r = ReadOf(w, ins)
  BY DEF ReadOf, m, v, off
<1> HIDE DEF r
<1>7. g \in Regs
  BY <1>1, ShadowsAre, RegsStay
<1> HIDE DEF g
<1>8. x = [addr |-> w.addr, entry |-> w.entry, banks |-> w.banks, shadows |-> w.shadows,
           regs |-> g, t |-> r, stop |-> FALSE]
  BY <1>6 DEF CarriedOf, Carried, g
<1> HIDE DEF x
<1>9. Grown(v, r)
  BY <1>2, <1>4, <1>5, GrownOn
<1>10. IsWalk(x)
  BY <1>1, <1>5, <1>7, <1>8 DEF IsWalk
<1> QED  BY <1>8, <1>9, <1>10 DEF x, g, v

(* And its stores applied.                                                 *)
LEMMA LandedIs ==
  ASSUME Ground, IsSearch(t), NEW w \in Places, Offset(w.banks, w.addr) # -1,
         NEW ins, WellFormed(ins)
  PROVE  LET x == Landed(w, ins)
             y == Stored(CarriedOf(w, ins), StoresOf(w.regs, ins)) IN
         /\ IsWalk(x) /\ x.addr = w.addr /\ x.entry = w.entry
         /\ x.regs = RegsAfter(w.regs, ins, w.shadows)
         /\ x.banks = y.banks /\ x.shadows = y.shadows /\ x.stop = y.stop
         /\ Grown(Visited(t, w), x.t)
         /\ x.stop => w.addr \in x.t.unresolved
         /\ x.banks \in PagingsAfter(w.banks, ins)
         /\ ins.op \notin Storing => ~x.stop
<1> DEFINE c == CarriedOf(w, ins)
           q == StoresOf(w.regs, ins)
           y == Stored(c, q)
           h == InstalledHook(y.t, y, ins)
           x == Landed(w, ins)
<1>1. /\ w.addr \in Int /\ w.banks \in Pagings /\ w.shadows \in Shadows /\ w.regs \in Regs
      /\ w.entry \in Pagings
  BY DEF Places
<1>2. /\ IsWalk(c) /\ c.addr = w.addr /\ c.entry = w.entry /\ c.banks = w.banks
      /\ c.shadows = w.shadows /\ c.regs = RegsAfter(w.regs, ins, w.shadows) /\ c.stop = FALSE
      /\ Grown(Visited(t, w), c.t)
  BY CarriedIs
<1>3. AreStores(q) /\ (ins.op \notin Storing => q = <<>>)
  BY <1>1, StoresAre
<1>4. PICK p \in DOMAIN Pages : TRUE
  BY <1>1, OffsetIs
<1>5. x = [y EXCEPT !.t = h]
  BY DEF Landed, Hooked
<1> HIDE DEF c, q
<1>6. /\ IsWalk(y) /\ Grown(c.t, y.t)
      /\ y.addr = c.addr /\ y.entry = c.entry /\ y.regs = c.regs
      /\ y.stop => c.addr \in y.t.unresolved
      /\ y.banks \in TwoPages(c.banks)
      /\ q = <<>> => y = c
  BY <1>2, <1>3, StoredStays
<1> HIDE DEF y
<1>7. IsSearch(h) /\ Grown(y.t, h)
  BY <1>6, HookIs DEF IsWalk
<1> HIDE DEF h, x
<1>8. /\ IsWalk(x) /\ x.t = h /\ x.addr = y.addr /\ x.entry = y.entry /\ x.regs = y.regs
      /\ x.banks = y.banks /\ x.shadows = y.shadows /\ x.stop = y.stop
  BY <1>5, <1>6, <1>7 DEF IsWalk
<1>9. Grown(Visited(t, w), x.t)
  <2>1. IsSearch(Visited(t, w)) /\ IsSearch(c.t) /\ IsSearch(y.t)
    BY <1>2, <1>6, VisitedIs DEF IsWalk
  <2>2. Grown(Visited(t, w), y.t)
    BY <1>2, <1>6, <2>1, GrownOn
  <2> QED  BY <1>7, <1>8, <2>1, <2>2, GrownOn
<1>10. x.stop => w.addr \in x.t.unresolved
  BY <1>2, <1>6, <1>7, <1>8 DEF Grown
<1>11. x.banks \in PagingsAfter(w.banks, ins)
  BY <1>2, <1>3, <1>6, <1>8 DEF PagingsAfter
<1>12. ins.op \notin Storing => ~x.stop
  BY <1>2, <1>3, <1>6, <1>8
<1> QED  BY <1>2, <1>6, <1>8, <1>9, <1>10, <1>11, <1>12 DEF c, q, y, x

-----------------------------------------------------------------------------
(* What an instruction leads to is answered, or is still to be.            *)

(* What is to be walked is reached, or is where the walk is.               *)
Held(s, h, a, banks) ==
  Reached(s, a, banks) \/ (h # Nowhere /\ h.addr = a /\ h.banks = banks)
(* Answered and Followed of Tracer, for a search that is going on: what is *)
(* in the queue, and where the walk is, is still to be answered.           *)
TablesAt(s, a, banks) == {e \in s.tables : e.at = a /\ e.banks = banks}
TableHeld(s, h, e) ==
  /\ Held(s, h, e.at + e.count, e.banks)
  /\ \A i \in 0..e.count - 1 : Held(s, h, WordAt(e.banks, e.at + i), e.banks)
GoesOn(s, h, k, ins) ==
  \/ Returnless(ins) \/ ~FallsThrough(ins) \/ k.addr \in s.unresolved
  \/ \E bk \in PagingsAfter(k.banks, ins) : Held(s, h, k.addr + 1, bk)
FollowedBy(s, h, k, ins) ==
  IF Dispatches(ins) /\ TablesAt(s, k.addr + 1, k.banks) # {}
  THEN \E e \in TablesAt(s, k.addr + 1, k.banks) : TableHeld(s, h, e)
  ELSE GoesOn(s, h, k, ins)
AnsweredBy(s, h, k, ins) ==
  ins.op # "Pad" => /\ ins.op \in {"Call", "Jp", "Djnz"} => Held(s, h, ins.n, k.banks)
                    /\ FollowedBy(s, h, k, ins)

(* A search that grows keeps its answers.                                  *)
LEMMA AnswersStay ==
  ASSUME NEW s, NEW h, NEW d, NEW g,
         \A a, banks : Held(s, h, a, banks) => Held(d, g, a, banks),
         s.unresolved \subseteq d.unresolved, s.tables \subseteq d.tables,
         \A e \in d.tables : e \in s.tables \/ TableHeld(d, g, e),
         NEW k, NEW ins, AnsweredBy(s, h, k, ins)
  PROVE  AnsweredBy(d, g, k, ins)
<1> DEFINE T(z) == TablesAt(z, k.addr + 1, k.banks)
<1>1. \A e : TableHeld(s, h, e) => TableHeld(d, g, e)
  BY DEF TableHeld
<1>2. GoesOn(s, h, k, ins) => GoesOn(d, g, k, ins)
  BY DEF GoesOn
<1>3. T(s) \subseteq T(d) /\ \A e \in T(d) : e \in T(s) \/ TableHeld(d, g, e)
  BY DEF TablesAt
<1> HIDE DEF T
<1>4. ASSUME FollowedBy(s, h, k, ins) PROVE FollowedBy(d, g, k, ins)
  <2>1. CASE Dispatches(ins) /\ T(d) # {}
    <3>1. \E e \in T(d) : TableHeld(d, g, e)
      <4>1. CASE T(s) = {}
        BY <1>3, <2>1, <4>1
      <4>2. CASE T(s) # {}
        <5>1. \E e \in T(s) : TableHeld(s, h, e)
          BY <1>4, <2>1, <4>2 DEF FollowedBy, T
        <5> QED  BY <1>1, <1>3, <5>1
      <4> QED  BY <4>1, <4>2
    <3> QED  BY <2>1, <3>1 DEF FollowedBy, T
  <2>2. CASE ~(Dispatches(ins) /\ T(d) # {})
    <3>1. ~(Dispatches(ins) /\ T(s) # {})
      BY <1>3, <2>2
    <3>2. GoesOn(s, h, k, ins)
      BY <1>4, <3>1 DEF FollowedBy, T
    <3> QED  BY <1>2, <2>2, <3>2 DEF FollowedBy, T
  <2> QED  BY <2>1, <2>2
<1> QED  BY <1>4 DEF AnsweredBy

(* The walk goes on at an address.                                         *)
LEMMA OnIs ==
  ASSUME NEW x, IsWalk(x), NEW s, NEW a \in Int
  PROVE  LET res == On(x, s, a) IN
         /\ res.t = s /\ res.here \in Places /\ res.here # Nowhere
         /\ res.here.addr = a /\ res.here.banks = x.banks /\ res.here.shadows = x.shadows
         /\ res.here.regs = x.regs /\ res.here.entry = x.entry
<1> DEFINE w == [addr |-> a, banks |-> x.banks, shadows |-> x.shadows, regs |-> x.regs,
                 entry |-> x.entry]
<1>1. w \in Places
  BY DEF Places, IsWalk
<1>2. On(x, s, a).t = s /\ On(x, s, a).here = w
  BY DEF On
<1>3. /\ w.addr = a /\ w.banks = x.banks /\ w.shadows = x.shadows
      /\ w.regs = x.regs /\ w.entry = x.entry
  OBVIOUS
<1> HIDE DEF w
<1> QED  BY <1>1, <1>2, <1>3, NotNowhere

(* Where the walk goes after its stores, and what it has put in the search.*)
Onward(x, res) ==
  res.here # Nowhere =>
    /\ ~x.stop /\ res.here \in Places
    /\ res.here.banks = x.banks /\ res.here.shadows = x.shadows
    /\ res.here.regs = x.regs /\ res.here.entry = x.entry

(* Where walk goes, and what it queues, answers the instruction.           *)
LEMMA LeftIs ==
  ASSUME Ground, NEW x, IsWalk(x), NEW ins, WellFormed(ins), x.addr \in Nat,
         x.stop => x.addr \in x.t.unresolved /\ ins.op \in Storing,
         NEW banks, x.banks \in PagingsAfter(banks, ins)
  PROVE  LET res == Left(x, ins) IN
         /\ Onward(x, res) /\ IsSearch(res.t)
         /\ res.t.visit = x.t.visit /\ res.t.overflowed = x.t.overflowed
         /\ x.t.unresolved \subseteq res.t.unresolved /\ x.t.tables \subseteq res.t.tables
         /\ \A a, bk : Reached(x.t, a, bk) => Reached(res.t, a, bk)
         /\ \A e \in res.t.tables : e \in x.t.tables \/ TableHeld(res.t, res.here, e)
         /\ ins.op \in {"Call", "Jp", "Djnz"} => Held(res.t, res.here, ins.n, banks)
         /\ \/ GoesOn(res.t, res.here, [addr |-> x.addr, banks |-> banks], ins)
            \/ /\ Dispatches(ins)
               /\ \E e \in TablesAt(res.t, x.addr + 1, banks) : TableHeld(res.t, res.here, e)
<1> DEFINE s == Targets(x.t, x, ins)
           res == Left(x, ins)
           k == [addr |-> x.addr, banks |-> banks]
<1>0. IsSearch(x.t) /\ x.addr + 1 \in Nat /\ x.banks \in Pagings /\ x.stop \in BOOLEAN
  BY DEF IsWalk
<1>1. /\ IsSearch(s) /\ Grown(x.t, s)
      /\ ins.op \in {"Call", "Jp", "Djnz"} => Reached(s, ins.n, x.banks)
  BY <1>0, TargetsIs
<1>2. ins.op \in {"Call", "Jp", "Djnz"} => ins.op \notin Storing /\ x.banks = banks
  BY DEF Storing, PagingsAfter
<1>3. \A a, bk : Reached(x.t, a, bk) => Reached(s, a, bk)
  BY <1>0, <1>1, ReachedStays
<1>4. CASE x.stop
  <2>1. res = Over(x.t)
    BY <1>4 DEF Left
  <2>2. res.t = x.t /\ res.here = Nowhere
    BY <2>1 DEF Over
  <2>3. GoesOn(res.t, res.here, k, ins)
    BY <1>4, <2>2 DEF GoesOn
  <2>4. ins.op \notin {"Call", "Jp", "Djnz"}
    BY <1>2, <1>4
  <2> HIDE DEF res
  <2> QED  BY <1>0, <2>2, <2>3, <2>4 DEF Onward, res
<1>5. CASE ~x.stop /\ Dispatches(ins)
  <2> DEFINE n == TableLength(s, x.banks, x.addr + 1)
             d == InlineTable(s, x, x.addr + 1, n)
             e == TableOf(x, x.addr + 1, n)
  <2>1. res = On(x, d, x.addr + 1 + n)
    BY <1>5 DEF Left, PastTable
  <2>2. n \in Nat
    BY <1>0, TableLengthIs
  <2>3. ins.op = "Call" /\ x.banks = banks
    BY <1>2, <1>5 DEF Dispatches
  <2> HIDE DEF n, s
  <2>4. /\ IsSearch(d) /\ d.visit = s.visit /\ d.overflowed = s.overflowed
        /\ s.unresolved \subseteq d.unresolved
        /\ \A a, bk : Reached(s, a, bk) => Reached(d, a, bk)
        /\ d.tables = IF n = 0 THEN s.tables ELSE s.tables \cup {e}
        /\ n # 0 => \A i \in 0..n - 1 : Reached(d, WordAt(x.banks, x.addr + 1 + i), x.banks)
    <3>1. x.addr + 1 \in Int
      BY <1>0
    <3> QED  BY <1>1, <2>2, <3>1, InlineTableIs
  <2> HIDE DEF d, res
  <2>5. /\ res.t = d /\ res.here \in Places /\ res.here # Nowhere
        /\ res.here.addr = x.addr + 1 + n /\ res.here.banks = x.banks
        /\ res.here.shadows = x.shadows /\ res.here.regs = x.regs /\ res.here.entry = x.entry
    <3>1. x.addr + 1 + n \in Int
      BY <1>0, <2>2
    <3> QED  BY <2>1, <3>1, OnIs
  <2>6. e.at = x.addr + 1 /\ e.banks = x.banks /\ e.count = n
    BY DEF TableOf
  <2> HIDE DEF e
  <2>7. n # 0 => TableHeld(res.t, res.here, e)
    BY <2>2, <2>4, <2>5, <2>6 DEF TableHeld, Held
  <2>8. Held(res.t, res.here, x.addr + 1 + n, banks)
    BY <2>3, <2>5 DEF Held
  <2>9. CASE n = 0
    <3>1. Held(res.t, res.here, k.addr + 1, k.banks)
      BY <1>0, <2>8, <2>9
    <3>2. k.banks \in PagingsAfter(k.banks, ins)
      BY <2>3 DEF PagingsAfter, Storing
    <3>3. GoesOn(res.t, res.here, k, ins)
      BY <3>1, <3>2 DEF GoesOn
    <3>4. res.t.tables = x.t.tables
      BY <1>1, <2>4, <2>5, <2>9 DEF Grown
    <3>5. x.t.unresolved \subseteq res.t.unresolved /\ res.t.visit = x.t.visit
            /\ res.t.overflowed = x.t.overflowed
      BY <1>1, <2>4, <2>5 DEF Grown
    <3>6. Onward(x, res)
      BY <1>5, <2>5 DEF Onward
    <3>7. \A a, bk : Reached(x.t, a, bk) => Reached(res.t, a, bk)
      BY <1>3, <2>4, <2>5
    <3>8. Held(res.t, res.here, ins.n, banks)
      BY <1>1, <2>3, <2>4, <2>5 DEF Held
    <3> QED  BY <2>4, <2>5, <3>3, <3>4, <3>5, <3>6, <3>7, <3>8 DEF res
  <2>10. CASE n # 0
    <3>1. e \in TablesAt(res.t, x.addr + 1, banks)
      BY <2>3, <2>4, <2>5, <2>6, <2>10 DEF TablesAt
    <3>4. x.t.tables \subseteq res.t.tables /\ \A f \in res.t.tables : f \in x.t.tables \/ f = e
      BY <1>1, <2>4, <2>5, <2>10 DEF Grown
    <3>5. x.t.unresolved \subseteq res.t.unresolved /\ res.t.visit = x.t.visit
            /\ res.t.overflowed = x.t.overflowed
      BY <1>1, <2>4, <2>5 DEF Grown
    <3>6. Onward(x, res)
      BY <1>5, <2>5 DEF Onward
    <3>7. \A a, bk : Reached(x.t, a, bk) => Reached(res.t, a, bk)
      BY <1>3, <2>4, <2>5
    <3>8. Held(res.t, res.here, ins.n, banks)
      BY <1>1, <2>3, <2>4, <2>5 DEF Held
    <3>9. \A f \in res.t.tables : f \in x.t.tables \/ TableHeld(res.t, res.here, f)
      BY <2>7, <2>10, <3>4
    <3> QED  BY <1>5, <2>4, <2>5, <2>7, <2>10, <3>1, <3>4, <3>5, <3>6, <3>7, <3>8, <3>9 DEF res
  <2> QED  BY <2>9, <2>10
<1>6. CASE ~x.stop /\ ~Dispatches(ins)
  <2>1. \/ FallsThrough(ins) /\ ~Returnless(ins) /\ res = On(x, s, x.addr + 1)
        \/ (~FallsThrough(ins) \/ Returnless(ins)) /\ res = Over(s)
    BY <1>6 DEF Left
  <2> HIDE DEF s, res
  <2>2. res.t = s /\ Onward(x, res) /\ GoesOn(res.t, res.here, k, ins)
    <3>1. CASE res = On(x, s, x.addr + 1)
      <4>1. /\ res.t = s /\ res.here \in Places /\ res.here # Nowhere
            /\ res.here.addr = x.addr + 1 /\ res.here.banks = x.banks
            /\ res.here.shadows = x.shadows /\ res.here.regs = x.regs /\ res.here.entry = x.entry
        <5>1. x.addr + 1 \in Int
          BY <1>0
        <5> QED  BY <3>1, <5>1, OnIs
      <4>2. Held(res.t, res.here, k.addr + 1, x.banks)
        BY <4>1 DEF Held
      <4>3. x.banks \in PagingsAfter(k.banks, ins)
        OBVIOUS
      <4>4. GoesOn(res.t, res.here, k, ins)
        BY <4>2, <4>3 DEF GoesOn
      <4> QED  BY <1>6, <4>1, <4>4 DEF Onward
    <3>2. CASE (~FallsThrough(ins) \/ Returnless(ins)) /\ res = Over(s)
      BY <3>2 DEF Over, Onward, GoesOn
    <3> QED  BY <2>1, <3>1, <3>2
  <2>3. /\ res.t.visit = x.t.visit /\ res.t.overflowed = x.t.overflowed
        /\ x.t.unresolved \subseteq res.t.unresolved /\ res.t.tables = x.t.tables
    BY <1>1, <2>2 DEF Grown
  <2>4. ins.op \in {"Call", "Jp", "Djnz"} => Held(res.t, res.here, ins.n, banks)
    BY <1>1, <1>2, <2>2 DEF Held
  <2> QED  BY <1>1, <1>3, <2>2, <2>3, <2>4 DEF res
<1> QED  BY <1>0, <1>4, <1>5, <1>6

(* walk, a turn: the state it was at is answered, and what was is.         *)
LEMMA WalkedIs ==
  ASSUME Ground, IsSearch(t), NEW w \in Places, Offset(w.banks, w.addr) # -1,
         NEW ins, WellFormed(ins)
  PROVE  LET res == Walked(w, ins) IN
         /\ Onward(Landed(w, ins), res) /\ IsSearch(res.t)
         /\ res.t.visit = t.visit \cup {Key(w)} /\ res.t.overflowed = t.overflowed
         /\ t.unresolved \subseteq res.t.unresolved /\ t.tables \subseteq res.t.tables
         /\ \A a, bk : Held(t, w, a, bk) => Held(res.t, res.here, a, bk)
         /\ (\A e \in t.tables : TableHeld(t, w, e)) =>
              /\ \A e \in res.t.tables : TableHeld(res.t, res.here, e)
              /\ AnsweredBy(res.t, res.here, Key(w), ins)
<1> DEFINE x == Landed(w, ins)
           v == Visited(t, w)
           res == Walked(w, ins)
           k == Key(w)
           z == [addr |-> x.addr, banks |-> w.banks]
<1>1. /\ IsWalk(x) /\ x.addr = w.addr /\ Grown(v, x.t)
      /\ x.stop => w.addr \in x.t.unresolved
      /\ x.banks \in PagingsAfter(w.banks, ins)
      /\ ins.op \notin Storing => ~x.stop
  BY LandedIs
<1>2. res = Left(x, ins)
  BY WalkedAs
<1>3. w.addr \in Int /\ w.banks \in Pagings /\ w.addr \in Nat
  <2>1. w.addr \in Int /\ w.banks \in Pagings
    BY DEF Places
  <2>2. w.addr \in 0..ByteSize * ByteSize - 1
    BY <2>1, OffsetIs
  <2> QED  BY <2>1, <2>2
<1>4. /\ IsSearch(v) /\ v.visit = t.visit \cup {k}
      /\ v.queue = t.queue /\ v.overflowed = t.overflowed /\ v.unresolved = t.unresolved
      /\ v.tables = t.tables
  BY VisitedIs DEF SearchFields
<1> HIDE DEF x, v, res
<1>5. /\ Onward(x, res) /\ IsSearch(res.t)
      /\ res.t.visit = x.t.visit /\ res.t.overflowed = x.t.overflowed
      /\ x.t.unresolved \subseteq res.t.unresolved /\ x.t.tables \subseteq res.t.tables
      /\ \A a, bk : Reached(x.t, a, bk) => Reached(res.t, a, bk)
      /\ \A e \in res.t.tables : e \in x.t.tables \/ TableHeld(res.t, res.here, e)
      /\ ins.op \in {"Call", "Jp", "Djnz"} => Held(res.t, res.here, ins.n, w.banks)
      /\ \/ GoesOn(res.t, res.here, z, ins)
         \/ /\ Dispatches(ins)
            /\ \E e \in TablesAt(res.t, x.addr + 1, w.banks) : TableHeld(res.t, res.here, e)
  <2>1. x.addr \in Nat /\ (x.stop => x.addr \in x.t.unresolved /\ ins.op \in Storing)
    BY <1>1, <1>3
  <2> QED  BY <1>1, <1>2, <2>1, LeftIs
<1>6. k.addr = w.addr /\ k.banks = w.banks
  BY DEF Key
<1>7. /\ res.t.visit = t.visit \cup {k} /\ res.t.overflowed = t.overflowed
      /\ t.unresolved \subseteq res.t.unresolved /\ t.tables \subseteq res.t.tables
      /\ x.t.tables = t.tables
  BY <1>1, <1>4, <1>5 DEF Grown
<1> HIDE DEF k
<1>8. ASSUME NEW a, NEW bk, Held(t, w, a, bk) PROVE Held(res.t, res.here, a, bk)
  <2>1. CASE Reached(t, a, bk)
    <3>1. Reached(v, a, bk)
      BY <1>4, <2>1 DEF Reached
    <3>2. Reached(x.t, a, bk)
      BY <1>1, <1>4, <3>1, ReachedStays DEF IsWalk
    <3> QED  BY <1>5, <3>2 DEF Held
  <2>2. CASE w.addr = a /\ w.banks = bk
    <3>1. Reached(res.t, a, bk)
      BY <1>6, <1>7, <2>2 DEF Reached
    <3> QED  BY <3>1 DEF Held
  <2> QED  BY <1>8, <2>1, <2>2 DEF Held
<1>9. \A e \in res.t.tables : e \in t.tables \/ TableHeld(res.t, res.here, e)
  BY <1>5, <1>7
<1> HIDE DEF z
<1>a. z.addr = k.addr /\ z.banks = k.banks
  BY <1>1, <1>6 DEF z
<1>10. ASSUME \A e \in t.tables : TableHeld(t, w, e)
       PROVE  /\ \A e \in res.t.tables : TableHeld(res.t, res.here, e)
              /\ FollowedBy(res.t, res.here, k, ins)
  <2>0. \A e : TableHeld(t, w, e) => TableHeld(res.t, res.here, e)
    BY <1>8 DEF TableHeld
  <2>a. \A e \in res.t.tables : TableHeld(res.t, res.here, e)
    BY <1>9, <1>10, <2>0
  <2> DEFINE T == TablesAt(res.t, k.addr + 1, k.banks)
  <2>b. T \subseteq res.t.tables
    BY DEF TablesAt
  <2>1. CASE Dispatches(ins) /\ T # {}
    <3>1. \E e \in T : TableHeld(res.t, res.here, e)
      BY <2>1, <2>a, <2>b
    <3> QED  BY <2>a, <2>1, <3>1 DEF FollowedBy
  <2>2. CASE ~(Dispatches(ins) /\ T # {})
    <3>1. GoesOn(res.t, res.here, z, ins)
      <4>1. T = TablesAt(res.t, x.addr + 1, w.banks)
        BY <1>1, <1>6
      <4> HIDE DEF T
      <4> QED  BY <1>5, <2>2, <4>1
    <3>3. GoesOn(res.t, res.here, k, ins)
      BY <1>a, <3>1 DEF GoesOn
    <3> QED  BY <2>a, <2>2, <3>3 DEF FollowedBy
  <2> QED  BY <2>a, <2>1, <2>2
<1>11. ASSUME \A e \in t.tables : TableHeld(t, w, e)
       PROVE  AnsweredBy(res.t, res.here, k, ins)
  BY <1>5, <1>6, <1>10, <1>11 DEF AnsweredBy
<1> QED  BY <1>1, <1>5, <1>7, <1>8, <1>10, <1>11 DEF x, res, k

-----------------------------------------------------------------------------
(* The end of a run, and the invariant of the search.                      *)

(* A candidate decided.                                                    *)
LEMMA DecidedIs ==
  ASSUME NEW s, IsSearch(s), NEW c \in Candidates
  PROVE  IsSearch(Decided(s, c)) /\ Grown(s, Decided(s, c))
<1> DEFINE r == [s EXCEPT !.rejected = @ \cup {c.work.addr}]
           p == [s EXCEPT !.pushed = @ \cup {c.work.addr}]
<1>0. c.work \in Works /\ Entire(s) /\ "rejected" \in SearchFields /\ "pushed" \in SearchFields
  BY DEF Candidates, IsSearch, SearchFields
<1>1. Decided(s, c) = r \/ Decided(s, c) = Enqueue(p, c.work)
  BY DEF Decided
<1>2. IsSearch(r) /\ Grown(s, r)
  <2>1. Entire(r) /\ \A f \in SearchFields \ {"rejected"} : r[f] = s[f]
    BY <1>0, Changed
  <2> HIDE DEF r
  <2>2. IsSearch(r)
    BY <2>1, Quiet DEF SearchFields
  <2> QED  BY <2>1, <2>2, QueueLen DEF Grown, SearchFields
<1>3. IsSearch(p) /\ Grown(s, p)
  <2>1. Entire(p) /\ \A f \in SearchFields \ {"pushed"} : p[f] = s[f]
    BY <1>0, Changed
  <2> HIDE DEF p
  <2>2. IsSearch(p)
    BY <2>1, Quiet DEF SearchFields
  <2> QED  BY <2>1, <2>2, QueueLen DEF Grown, SearchFields
<1> HIDE DEF r, p
<1>4. IsSearch(Enqueue(p, c.work)) /\ Grown(s, Enqueue(p, c.work))
  <2>1. IsSearch(Enqueue(p, c.work)) /\ Grown(p, Enqueue(p, c.work))
    BY <1>0, <1>3, EnqueueIs
  <2> QED  BY <1>3, <2>1, GrownOn
<1> QED  BY <1>1, <1>2, <1>4

(* decideCandidates keeps the search.                                      *)
LEMMA AllDecidedIs ==
  ASSUME IsSearch(t)
  PROVE  IsSearch(AllDecided) /\ Grown(t, AllDecided)
<1> DEFINE start == [t EXCEPT !.candidates = <<>>]
           N == Len(t.candidates)
           Folds(g) == /\ g[0] = start
                       /\ \A k \in 0..N - 1 : g[k + 1] = Decided(g[k], t.candidates[k + 1])
                       /\ AllDecided = g[N]
<1>0. t.candidates \in Seq(Candidates) /\ N \in Nat
  BY LenProperties DEF IsSearch, CandidatesTyped
<1>1. \E g : Folds(g)
  <2>1. \E g : /\ g[0] = [t EXCEPT !.candidates = <<>>]
               /\ \A k \in 0..Len(t.candidates) - 1 : g[k + 1] = Decided(g[k], t.candidates[k + 1])
               /\ AllDecided = g[Len(t.candidates)]
    BY <1>0, AllDecidedSteps
  <2> QED  BY <2>1
<1>2. PICK g : Folds(g)
  BY <1>1
<1>3. IsSearch(start) /\ Grown(t, start)
  <2>1. Entire(start) /\ start.candidates = <<>>
          /\ \A f \in SearchFields \ {"candidates"} : start[f] = t[f]
    <3>1. "candidates" \in SearchFields /\ Entire(t)
      BY DEF IsSearch, SearchFields
    <3> DEFINE none == <<>>
               d == [t EXCEPT !.candidates = none]
    <3>2. start = d
      OBVIOUS
    <3> HIDE DEF none
    <3>3. Entire(d) /\ d.candidates = none /\ \A f \in SearchFields \ {"candidates"} : d[f] = t[f]
      BY <3>1, Changed
    <3> HIDE DEF start, d
    <3> QED  BY <3>2, <3>3 DEF none
  <2> HIDE DEF start
  <2>2. /\ start.queue = t.queue /\ start.code = t.code /\ start.pointers = t.pointers
        /\ start.logical = t.logical /\ start.recent = t.recent /\ start.notes = t.notes
        /\ start.shadows = t.shadows /\ start.visit = t.visit /\ start.tables = t.tables
        /\ start.overflowed = t.overflowed /\ start.unresolved = t.unresolved
    BY <2>1 DEF SearchFields
  <2>3. start.candidates \in Seq(Candidates)
    BY <2>1, EmptySeq
  <2>4. IsSearch(start)
    BY <2>1, <2>2, <2>3
       DEF IsSearch, QueueTyped, CodeTyped, CandidatesTyped, RecentTyped, NotesTyped, ShadowsTyped
  <2> QED  BY <2>2, <2>4, QueueLen DEF Grown
<1> HIDE DEF start
<1> DEFINE Good(k) == IsSearch(g[k]) /\ Grown(t, g[k])
           Goods == {k \in 0..N : Good(k)}
<1>4. Good(0)
  BY <1>2, <1>3
<1>5. ASSUME NEW k \in 0..N - 1, Good(k) PROVE Good(k + 1)
  <2>1. k + 1 \in 1..N
    BY <1>0
  <2>2. t.candidates[k + 1] \in Candidates
    BY <1>0, <2>1, ElementOfSeq
  <2>3. g[k + 1] = Decided(g[k], t.candidates[k + 1])
    BY <1>2
  <2>4. IsSearch(g[k + 1]) /\ Grown(g[k], g[k + 1])
    BY <1>5, <2>2, <2>3, DecidedIs
  <2> QED  BY <1>5, <2>4, GrownOn
<1> HIDE DEF Good
<1>6. 0 \in Goods /\ \A k \in 0..N - 1 : k \in Goods => k + 1 \in Goods
  BY <1>0, <1>4, <1>5
<1>7. 0..N \subseteq Goods
  <2> HIDE DEF Goods
  <2> QED  BY <1>0, <1>6, UpTo
<1>8. Good(N)
  BY <1>0, <1>7
<1> QED  BY <1>2, <1>8 DEF Good

-----------------------------------------------------------------------------
(* What has been found of the search so far is answered, or is to be.      *)
SoFar(s, h) ==
  /\ \A i \in DOMAIN Entries : Held(s, h, Entries[i], Initial)
  /\ \A site \in sites : Held(s, h, site.addr, site.banks)
  /\ \A e \in s.tables : TableHeld(s, h, e)
  /\ \A k \in s.visit : AnsweredBy(s, h, k, Cell(k.banks, k.addr))

(* The sites are addresses under pagings the mapper has.                   *)
Sited == IsFiniteSet(sites) /\ \A site \in sites : site.addr \in Int /\ site.banks \in Pagings
Phases == {"run", "traced", "restart", "generated", "refused", "gave up", "converged"}
Searched ==
  /\ \A i \in DOMAIN t.queue : ~Refused(t.queue[i].banks, t.queue[i].addr)
  /\ CodeTyped(t)

(* The inductive invariant of the search.                                  *)
SearchInv ==
  /\ Ground /\ Sited /\ phase \in Phases /\ Searched
  /\ phase \in {"run", "traced"} => IsSearch(t)
  /\ here # Nowhere => phase = "run" /\ here \in Places
  /\ phase = "run" /\ ~t.overflowed => SoFar(t, here)
  /\ Closed

(* What TypeOK says of a search.                                           *)
LEMMA SearchedIs ==
  ASSUME IsSearch(t)
  PROVE  Searched
<1>1. DOMAIN t.queue = 1..Len(t.queue)
  BY LenProperties DEF IsSearch, QueueTyped
<1> QED  BY <1>1 DEF IsSearch, QueueTyped, Searched

(* What has been answered stays so while the search grows.                 *)
LEMMA SoFarStays ==
  ASSUME NEW s, NEW h, NEW d, NEW g, SoFar(s, h),
         \A a, banks : Held(s, h, a, banks) => Held(d, g, a, banks),
         s.unresolved \subseteq d.unresolved, s.tables = d.tables, d.visit = s.visit
  PROVE  SoFar(d, g)
<1>1. \A e \in d.tables : TableHeld(d, g, e)
  BY DEF SoFar, TableHeld
<1>2. ASSUME NEW k \in d.visit PROVE AnsweredBy(d, g, k, Cell(k.banks, k.addr))
  <2>1. AnsweredBy(s, h, k, Cell(k.banks, k.addr))
    BY DEF SoFar
  <2> QED  BY <2>1, AnswersStay
<1> QED  BY <1>1, <1>2 DEF SoFar

-----------------------------------------------------------------------------
(* Every action keeps it.                                                  *)

(* The same at the next state.                                             *)
LEMMA SearchNext ==
  ASSUME shadowMap' = shadowMap, IsSearch(t')
  PROVE  IsSearch(t)'
<1>1. Works' = Works
  BY DEF Works, Shadows
<1>2. Candidates' = Candidates
  BY <1>1 DEF Candidates
<1>3. /\ Entire(t)' /\ QueueTyped(t)' /\ CodeTyped(t)' /\ CandidatesTyped(t)'
      /\ RecentTyped(t)' /\ NotesTyped(t)' /\ ShadowsTyped(t)'
  BY <1>1, <1>2 DEF IsSearch, Entire, QueueTyped, CodeTyped, CandidatesTyped, RecentTyped, NotesTyped, ShadowsTyped
<1> QED  BY <1>3 DEF IsSearch

LEMMA SearchedNext ==
  ASSUME IsSearch(t')
  PROVE  Searched'
<1>1. DOMAIN t'.queue = 1..Len(t'.queue)
  BY LenProperties DEF IsSearch, QueueTyped
<1> QED  BY <1>1 DEF IsSearch, QueueTyped, CodeTyped, Searched

LEMMA SoFarNext ==
  ASSUME UNCHANGED <<image, dispatchers, sites>>, SoFar(t', here')
  PROVE  SoFar(t, here)'
<1>1. \A b, a : Cell(b, a)' = Cell(b, a)
  BY DEF Cell
<1>2. \A b, a : WordAt(b, a)' = WordAt(b, a)
  BY <1>1 DEF WordAt
<1>3. ASSUME NEW e, TableHeld(t', here', e) PROVE TableHeld(t, here, e)'
  BY <1>2, <1>3 DEF TableHeld
<1>4. ASSUME NEW k, NEW ins, AnsweredBy(t', here', k, ins) PROVE AnsweredBy(t, here, k, ins)'
  <2>1. Dispatches(ins)' = Dispatches(ins)
    BY DEF Dispatches
  <2>2. FollowedBy(t', here', k, ins) => FollowedBy(t, here, k, ins)'
    BY <1>3, <2>1 DEF FollowedBy
  <2> QED  BY <1>4, <2>2 DEF AnsweredBy
<1> QED  BY <1>1, <1>3, <1>4 DEF SoFar

(* A step within a run keeps the invariant when it keeps these.            *)
LEMMA RunStays ==
  ASSUME SearchInv, UNCHANGED <<image, dispatchers, shadowMap, sites>>, phase' = "run",
         IsSearch(t'), here' = Nowhere \/ here' \in Places,
         ~t'.overflowed => SoFar(t', here')
  PROVE  SearchInv'
<1>1. Ground' /\ Sited' /\ phase' \in Phases
  BY DEF SearchInv, Ground, Sited, Phases, IsShadow
<1>2. IsSearch(t)' /\ Searched'
  BY SearchNext, SearchedNext
<1>3. (here # Nowhere => phase = "run" /\ here \in Places)'
  BY DEF Places, Shadows
<1>4. (phase = "run" /\ ~t.overflowed => SoFar(t, here))'
  BY SoFarNext
<1>5. Closed'
  BY DEF Closed
<1> QED  BY <1>1, <1>2, <1>3, <1>4, <1>5 DEF SearchInv

(* The first run begins with the entries queued.                           *)
LEMMA InitSearch ==
  ASSUME Init
  PROVE  SearchInv
<1>1. Ground
  <2>1. DOMAIN shadowMap = {}
    BY DEF Init, NoMap
  <2> QED  BY <2>1 DEF Init, Ground
<1>2. /\ IsSearch(t) /\ t.visit = {} /\ t.overflowed = FALSE /\ t.tables = {}
      /\ \A i \in DOMAIN Entries : Reached(t, Entries[i], Initial)
  <2>1. Len(<<>>) = 0 /\ t = Begun(<<>>)
    BY DEF Init
  <2> DEFINE none == <<>>
  <2>2. Len(none) \in Nat
    BY <2>1
  <2>3. \A k \in 1..Len(none) : none[k].addr \in Int /\ none[k].banks \in Pagings
    BY <2>1
  <2>4. t = Begun(none)
    BY <2>1
  <2> HIDE DEF none
  <2> QED  BY <1>1, <2>2, <2>3, <2>4, BegunIs
<1>3. Sited /\ sites = {} /\ phase = "run" /\ here = Nowhere
  BY FS_EmptySet DEF Init, Sited
<1>4. SoFar(t, here)
  BY <1>2, <1>3 DEF SoFar, Held
<1> QED  BY <1>1, <1>2, <1>3, <1>4, SearchedIs DEF SearchInv, Phases, Closed

(* Run takes the last state queued: it is where the walk is.               *)
LEMMA TakeSearch ==
  ASSUME SearchInv, NEW junk \in Junk, Take(junk)
  PROVE  SearchInv'
<1> DEFINE n == Len(t.queue)
           w == t.queue[n]
           p == [addr |-> w.addr, banks |-> w.banks, shadows |-> w.shadows, regs |-> w.regs,
                 entry |-> w.banks]
           q == SubSeq(t.queue, 1, n - 1)
           d == [t EXCEPT !.queue = q]
<1>1. IsSearch(t) /\ t.queue \in Seq(Works) /\ n \in Nat /\ n # 0 /\ here = Nowhere
  <2>1. IsSearch(t) /\ here = Nowhere
    BY DEF SearchInv, Take
  <2>2. t.queue \in Seq(Works) /\ n \in Nat
    BY <2>1, LenProperties DEF IsSearch, QueueTyped
  <2>3. t.queue # <<>>
    BY DEF Take
  <2>4. n # 0
    BY <2>2, <2>3, EmptySeq
  <2> QED  BY <2>1, <2>2, <2>4
<1>2. w \in Works
  BY <1>1, ElementOfSeq
<1>3. t' = d /\ here' = p /\ phase' = "run" /\ UNCHANGED <<image, dispatchers, shadowMap, sites>>
  BY DEF Take
<1>4. p \in Places /\ p.addr = w.addr /\ p.banks = w.banks
  BY <1>2 DEF Works, Places
<1>5. q \in Seq(Works) /\ Len(q) = n - 1 /\ \A i \in 1..n - 1 : q[i] = t.queue[i]
  BY <1>1
<1> HIDE DEF p, q
<1>6. Entire(d) /\ d.queue = q /\ \A f \in SearchFields \ {"queue"} : d[f] = t[f]
  <2>1. "queue" \in SearchFields /\ Entire(t)
    BY <1>1 DEF IsSearch, SearchFields
  <2> QED  BY <2>1, Changed
<1> HIDE DEF d
<1>7. /\ d.code = t.code /\ d.pointers = t.pointers
      /\ d.logical = t.logical /\ d.recent = t.recent /\ d.notes = t.notes
      /\ d.shadows = t.shadows /\ d.visit = t.visit /\ d.tables = t.tables
      /\ d.overflowed = t.overflowed /\ d.unresolved = t.unresolved
      /\ d.candidates = t.candidates
  BY <1>6 DEF SearchFields
<1>8. QueueTyped(d)
  <2>1. \A i \in 1..n - 1 : i \in 1..n
    BY <1>1
  <2> QED  BY <1>1, <1>5, <1>6, <2>1 DEF IsSearch, QueueTyped
<1>9. IsSearch(d)
  BY <1>1, <1>6, <1>7, <1>8
     DEF IsSearch, CodeTyped, CandidatesTyped, RecentTyped, NotesTyped, ShadowsTyped
<1>10. p # Nowhere
  BY <1>4, NotNowhere
<1>11. ASSUME NEW a, NEW banks, Held(t, here, a, banks) PROVE Held(d, p, a, banks)
  <2>1. Reached(t, a, banks)
    BY <1>1, <1>11 DEF Held
  <2>2. CASE \E i \in 1..n : t.queue[i].addr = a /\ t.queue[i].banks = banks
    <3>1. PICK i \in 1..n : t.queue[i].addr = a /\ t.queue[i].banks = banks
      BY <2>2
    <3>2. CASE i = n
      BY <1>4, <1>10, <3>1, <3>2 DEF Held
    <3>3. CASE i # n
      <4>1. i \in 1..n - 1
        BY <1>1, <3>3
      <4>2. d.queue[i].addr = a /\ d.queue[i].banks = banks /\ i \in 1..Len(d.queue)
        BY <1>5, <1>6, <3>1, <4>1
      <4> QED  BY <4>2 DEF Held, Reached
    <3> QED  BY <3>2, <3>3
  <2>3. CASE ~ \E i \in 1..n : t.queue[i].addr = a /\ t.queue[i].banks = banks
    BY <1>7, <2>1, <2>3 DEF Held, Reached
  <2> QED  BY <2>2, <2>3
<1>12. ASSUME ~d.overflowed PROVE SoFar(d, p)
  <2>1. SoFar(t, here)
    BY <1>7, <1>12 DEF SearchInv, Take
  <2> QED  BY <1>7, <1>11, <2>1, SoFarStays
<1> QED  BY <1>3, <1>4, <1>9, <1>12, RunStays

(* What the invariant says while walk is somewhere.                        *)
LEMMA WalkingIs ==
  ASSUME SearchInv, Walking
  PROVE  IsSearch(t) /\ here \in Places /\ Ground /\ phase = "run"
         /\ (~t.overflowed => SoFar(t, here))
BY DEF SearchInv, Walking

(* The walk ends at too many states, and the result says so.               *)
LEMMA OverflowSearch ==
  ASSUME SearchInv, Overflow
  PROVE  SearchInv'
<1> DEFINE d == [t EXCEPT !.overflowed = TRUE]
<1>1. /\ t' = d /\ here' = Nowhere /\ phase' = "run"
      /\ UNCHANGED <<image, dispatchers, shadowMap, sites>> /\ IsSearch(t)
  BY WalkingIs DEF Overflow, Ends
<1>2. Entire(d) /\ d.overflowed /\ \A f \in SearchFields \ {"overflowed"} : d[f] = t[f]
  <2>1. "overflowed" \in SearchFields /\ Entire(t)
    BY <1>1 DEF IsSearch, SearchFields
  <2> QED  BY <2>1, Changed
<1> HIDE DEF d
<1>3. IsSearch(d)
  BY <1>1, <1>2, Quiet DEF SearchFields
<1> QED  BY <1>1, <1>2, <1>3, RunStays

(* The walk ends at a state already walked.                                *)
LEMMA ArriveSearch ==
  ASSUME SearchInv, Arrive
  PROVE  SearchInv'
<1>1. /\ t' = t /\ here' = Nowhere /\ phase' = "run" /\ Known
      /\ UNCHANGED <<image, dispatchers, shadowMap, sites>> /\ IsSearch(t) /\ here \in Places
      /\ (~t.overflowed => SoFar(t, here))
  BY WalkingIs DEF Arrive, Ends
<1>2. Reached(t, here.addr, here.banks)
  <2>1. Key(here).addr = here.addr /\ Key(here).banks = here.banks
    BY DEF Key
  <2> QED  BY <1>1, <2>1 DEF Known, Reached
<1>3. \A a, banks : Held(t, here, a, banks) => Held(t, Nowhere, a, banks)
  BY <1>2 DEF Held
<1>4. ~t.overflowed => SoFar(t, Nowhere)
  BY <1>1, <1>3, SoFarStays
<1> QED  BY <1>1, <1>4, RunStays

(* The walk ends at padding.                                               *)
LEMMA PaddingSearch ==
  ASSUME SearchInv, StopAtPadding
  PROVE  SearchInv'
<1> DEFINE v == Visited(t, here)
           d == [v EXCEPT !.stops = @ \cup {here.addr}]
           k == Key(here)
<1>1. /\ t' = d /\ here' = Nowhere /\ phase' = "run" /\ Padding
      /\ UNCHANGED <<image, dispatchers, shadowMap, sites>> /\ IsSearch(t) /\ here \in Places
      /\ (~t.overflowed => SoFar(t, here))
  BY WalkingIs DEF StopAtPadding, Ends
<1>2. /\ IsSearch(v) /\ v.visit = t.visit \cup {k}
      /\ v.queue = t.queue /\ v.overflowed = t.overflowed /\ v.unresolved = t.unresolved
      /\ v.tables = t.tables
  BY <1>1, VisitedIs DEF SearchFields
<1>3. k.addr = here.addr /\ k.banks = here.banks
  BY DEF Key
<1> HIDE DEF v, k
<1>4. Entire(d) /\ \A f \in SearchFields \ {"stops"} : d[f] = v[f]
  <2>1. "stops" \in SearchFields /\ Entire(v)
    BY <1>2 DEF IsSearch, SearchFields
  <2> QED  BY <2>1, Changed
<1> HIDE DEF d
<1>5. IsSearch(d)
  BY <1>2, <1>4, Quiet DEF SearchFields
<1>6. /\ d.visit = t.visit \cup {k} /\ d.queue = t.queue /\ d.overflowed = t.overflowed
      /\ d.unresolved = t.unresolved /\ d.tables = t.tables
  BY <1>2, <1>4 DEF SearchFields
<1>7. ASSUME NEW a, NEW banks, Held(t, here, a, banks) PROVE Held(d, Nowhere, a, banks)
  BY <1>3, <1>6, <1>7 DEF Held, Reached
<1>8. ASSUME ~d.overflowed PROVE SoFar(d, Nowhere)
  <2>1. SoFar(t, here)
    BY <1>1, <1>6, <1>8
  <2>2. \A e \in d.tables : TableHeld(d, Nowhere, e)
    BY <1>6, <1>7, <2>1 DEF SoFar, TableHeld
  <2>3. ASSUME NEW j \in d.visit PROVE AnsweredBy(d, Nowhere, j, Cell(j.banks, j.addr))
    <3>1. CASE j \in t.visit
      <4>1. AnsweredBy(t, here, j, Cell(j.banks, j.addr))
        BY <2>1, <3>1 DEF SoFar
      <4> QED  BY <1>6, <1>7, <4>1, AnswersStay
    <3>2. CASE j = k
      <4>1. Cell(j.banks, j.addr).op = "Pad"
        BY <1>1, <1>3, <3>2 DEF Padding
      <4> QED  BY <4>1 DEF AnsweredBy
    <3> QED  BY <1>6, <3>1, <3>2
  <2> QED  BY <1>7, <2>1, <2>2, <2>3 DEF SoFar
<1> QED  BY <1>1, <1>5, <1>8, RunStays

(* The walk goes a turn.                                                   *)
LEMMA WalkSearch ==
  ASSUME SearchInv, Walk
  PROVE  SearchInv'
<1> DEFINE ins == Cell(here.banks, here.addr)
           res == Walked(here, ins)
           d == res.t
           g == res.here
           k == Key(here)
<1>1. /\ t' = d /\ here' = g /\ phase' = "run" /\ ~Known
      /\ UNCHANGED <<image, dispatchers, shadowMap, sites>> /\ IsSearch(t) /\ here \in Places
      /\ (~t.overflowed => SoFar(t, here)) /\ Ground
  BY WalkingIs DEF Walk
<1>2. Offset(here.banks, here.addr) # -1
  BY <1>1 DEF Known, Refused
<1>3. WellFormed(ins)
  BY <1>1, <1>2, CellIs DEF Places
<1>4. k.addr = here.addr /\ k.banks = here.banks
  BY DEF Key
<1>5. ins = Cell(k.banks, k.addr)
  BY <1>4
<1> HIDE DEF ins, k
<1>6. /\ Onward(Landed(here, ins), res) /\ IsSearch(d)
      /\ d.visit = t.visit \cup {k} /\ d.overflowed = t.overflowed
      /\ t.unresolved \subseteq d.unresolved /\ t.tables \subseteq d.tables
      /\ \A a, bk : Held(t, here, a, bk) => Held(d, g, a, bk)
      /\ (\A e \in t.tables : TableHeld(t, here, e)) =>
           (\A e \in d.tables : TableHeld(d, g, e)) /\ AnsweredBy(d, g, k, ins)
  BY <1>1, <1>2, <1>3, WalkedIs DEF k
<1>7. g = Nowhere \/ g \in Places
  BY <1>6 DEF Onward
<1> HIDE DEF res, d, g
<1>8. ASSUME ~d.overflowed PROVE SoFar(d, g)
  <2>1. SoFar(t, here)
    BY <1>1, <1>6, <1>8
  <2>2. (\A e \in d.tables : TableHeld(d, g, e)) /\ AnsweredBy(d, g, k, ins)
    BY <1>6, <2>1 DEF SoFar
  <2>3. ASSUME NEW j \in d.visit PROVE AnsweredBy(d, g, j, Cell(j.banks, j.addr))
    <3>1. CASE j \in t.visit
      <4>1. AnsweredBy(t, here, j, Cell(j.banks, j.addr))
        BY <2>1, <3>1 DEF SoFar
      <4> QED  BY <1>6, <2>2, <4>1, AnswersStay
    <3>2. CASE j = k
      BY <1>5, <2>2, <3>2
    <3> QED  BY <1>6, <3>1, <3>2
  <2> QED  BY <1>6, <2>1, <2>2, <2>3 DEF SoFar
<1> QED  BY <1>1, <1>6, <1>7, <1>8, RunStays

(* What Closed says of one state walked.                                   *)
Entered(k) ==
  LET ins == Cell(k.banks, k.addr) IN
  ins.op # "Pad" => /\ ins.op \in {"Call", "Jp", "Djnz"} => Answered(ins.n, k.banks)
                    /\ Followed(k, ins)

(* When the queue is empty, what was to be walked has been.                *)
LEMMA ClosedThen ==
  ASSUME SoFar(t, Nowhere), t.queue = <<>>, UNCHANGED <<image, dispatchers, sites>>,
         t'.visit = t.visit, t'.tables = t.tables, t.unresolved \subseteq t'.unresolved
  PROVE  Closed'
<1>1. ASSUME NEW a, NEW banks, Held(t, Nowhere, a, banks) PROVE Answered(a, banks)'
  <2>1. Len(t.queue) = 0
    OBVIOUS
  <2> QED  BY <1>1, <2>1 DEF Held, Reached, Answered
<1>2. \A b, a : Cell(b, a)' = Cell(b, a)
  BY DEF Cell
<1>3. \A b, a : WordAt(b, a)' = WordAt(b, a)
  BY <1>2 DEF WordAt
<1>4. ASSUME NEW k \in t.visit, NEW ins, AnsweredBy(t, Nowhere, k, ins), ins.op # "Pad"
      PROVE  /\ ins.op \in {"Call", "Jp", "Djnz"} => Answered(ins.n, k.banks)'
             /\ Followed(k, ins)'
  <2>1. FollowedBy(t, Nowhere, k, ins)
    BY <1>4 DEF AnsweredBy
  <2>2. ins.op \in {"Call", "Jp", "Djnz"} => Answered(ins.n, k.banks)'
    BY <1>1, <1>4 DEF AnsweredBy
  <2>3. Dispatches(ins)' = Dispatches(ins)
    BY DEF Dispatches
  <2> DEFINE T == TablesAt(t, k.addr + 1, k.banks)
  <2>4. T = {e \in t'.tables : e.at = k.addr + 1 /\ e.banks = k.banks}
    BY DEF TablesAt
  <2>5. CASE Dispatches(ins) /\ T # {}
    <3>1. PICK e \in T : TableHeld(t, Nowhere, e)
      BY <2>1, <2>5 DEF FollowedBy
    <3>2. e.at = k.addr + 1 /\ e.banks = k.banks
      BY <2>4
    <3>3. /\ Answered(k.addr + 1 + e.count, k.banks)'
          /\ \A i \in 0..e.count - 1 : Answered(WordAt(k.banks, k.addr + 1 + i), k.banks)'
      BY <1>1, <1>3, <3>1, <3>2 DEF TableHeld
    <3> HIDE DEF T
    <3> QED  BY <2>2, <2>3, <2>4, <2>5, <3>3 DEF Followed
  <2>6. CASE ~(Dispatches(ins) /\ T # {})
    <3>1. GoesOn(t, Nowhere, k, ins)
      BY <2>1, <2>6 DEF FollowedBy
    <3>2. \/ Returnless(ins) \/ ~FallsThrough(ins) \/ k.addr \in t'.unresolved
          \/ \E bk \in PagingsAfter(k.banks, ins) : Answered(k.addr + 1, bk)'
      BY <1>1, <3>1 DEF GoesOn
    <3> HIDE DEF T
    <3> QED  BY <2>2, <2>3, <2>4, <2>6, <3>2 DEF Followed
  <2> QED  BY <2>5, <2>6
<1>5. /\ \A i \in DOMAIN Entries : Answered(Entries[i], Initial)'
      /\ \A site \in sites' : Answered(site.addr, site.banks)'
  BY <1>1 DEF SoFar
<1>6. ASSUME NEW k \in t'.visit PROVE Entered(k)'
  <2>1. PICK ins : ins = Cell(k.banks, k.addr)
    OBVIOUS
  <2>2. Cell(k.banks, k.addr)' = ins
    BY <1>2, <2>1
  <2>3. AnsweredBy(t, Nowhere, k, ins)
    BY <2>1 DEF SoFar
  <2>4. ins.op # "Pad" => /\ ins.op \in {"Call", "Jp", "Djnz"} => Answered(ins.n, k.banks)'
                          /\ Followed(k, ins)'
    BY <1>4, <2>3
  <2> QED  BY <2>2, <2>4 DEF Entered
<1> QED  BY <1>5, <1>6 DEF Closed, Entered

(* The queue is empty: the candidates are walked, or the search is closed. *)
LEMMA DecideSearch ==
  ASSUME SearchInv, Decide
  PROVE  SearchInv'
<1>1. /\ phase = "run" /\ here = Nowhere /\ t.queue = <<>> /\ here' = Nowhere
      /\ UNCHANGED <<image, dispatchers, shadowMap, sites>> /\ IsSearch(t)
      /\ t' \in {t, AllDecided} /\ phase' \in {"run", "traced"}
      /\ ~t.overflowed => SoFar(t, Nowhere)
  BY DEF SearchInv, Decide
<1>2. IsSearch(AllDecided) /\ Grown(t, AllDecided)
  BY <1>1, AllDecidedIs
<1>3. IsSearch(t') /\ Grown(t, t')
  BY <1>1, <1>2, GrownSelf
<1>4. t'.visit = t.visit /\ t'.tables = t.tables /\ t'.overflowed = t.overflowed
        /\ t.unresolved \subseteq t'.unresolved
  BY <1>3 DEF Grown
<1>5. CASE phase' = "run"
  <2>1. ASSUME NEW a, NEW banks, Held(t, Nowhere, a, banks) PROVE Held(t', Nowhere, a, banks)
    <3>1. Reached(t, a, banks)
      BY <2>1 DEF Held
    <3>2. Reached(t', a, banks)
      BY <1>1, <1>3, <3>1, ReachedStays
    <3> QED  BY <3>2 DEF Held
  <2>2. ~t'.overflowed => SoFar(t', Nowhere)
    BY <1>1, <1>4, <2>1, SoFarStays
  <2> QED  BY <1>1, <1>3, <1>5, <2>2, RunStays
<1>6. CASE phase' = "traced"
  <2>1. Ground' /\ Sited' /\ phase' \in Phases
    BY <1>1, <1>6 DEF SearchInv, Ground, Sited, Phases, IsShadow
  <2>2. IsSearch(t)' /\ Searched'
    BY <1>1, <1>3, SearchNext, SearchedNext
  <2>3. Closed'
    <3>1. CASE t.overflowed
      BY <1>4, <3>1 DEF Closed
    <3>2. CASE ~t.overflowed
      BY <1>1, <1>4, <3>2, ClosedThen
    <3> QED  BY <3>1, <3>2
  <2> QED  BY <1>1, <1>6, <2>1, <2>2, <2>3 DEF SearchInv
<1> QED  BY <1>1, <1>5, <1>6

(* No search is made in the other phases.                                  *)
LEMMA ElseStays ==
  ASSUME SearchInv, phase' \in Phases \ {"run", "traced"}, here' = Nowhere, t' = t,
         Ground', Sited'
  PROVE  SearchInv'
<1>1. Searched'
  BY DEF SearchInv, Searched, CodeTyped
<1> QED  BY <1>1 DEF SearchInv, Phases, Closed

(* Trace goes round again, or is over.                                     *)
LEMMA SettleSearch ==
  ASSUME SearchInv, Settle
  PROVE  SearchInv'
<1>1. /\ phase = "traced" /\ IsSearch(t) /\ here = Nowhere /\ Ground /\ Sited
      /\ UNCHANGED <<image, sites, t, here>> /\ phase' \in {"restart", "generated"}
      /\ shadowMap' = [a \in DOMAIN shadowMap \cup DOMAIN t.shadows |->
                        IF a \in DOMAIN shadowMap THEN shadowMap[a] ELSE t.shadows[a]]
  BY DEF SearchInv, Settle
<1>2. Ground'
  <2>1. ASSUME NEW a \in DOMAIN shadowMap' PROVE IsShadow(a, shadowMap'[a])
    BY <1>1, <2>1 DEF Ground, IsSearch, ShadowsTyped
  <2> QED  BY <1>1, <2>1 DEF Ground, IsShadow
<1>3. Sited'
  BY <1>1 DEF Sited
<1> QED  BY <1>1, <1>2, <1>3, ElseStays DEF Phases

(* A place that the program reports is a site.                             *)
LEMMA DiscoverSearch ==
  ASSUME SearchInv, NEW site \in Reports, Discover(site)
  PROVE  SearchInv'
<1>1. /\ phase = "generated" /\ here = Nowhere /\ Ground /\ Sited
      /\ UNCHANGED <<image, t, here>> /\ phase' \in {"refused", "restart", "gave up"}
      /\ shadowMap' \in {shadowMap, NoMap} /\ sites' \in {sites, sites \cup {site}}
  BY DEF SearchInv, Discover, AddSite
<1>2. Ground'
  <2>1. DOMAIN NoMap = {}
    BY DEF NoMap
  <2> QED  BY <1>1, <2>1 DEF Ground, IsShadow
<1>3. Sited'
  <2>1. site.addr \in Int /\ site.banks \in Pagings
    BY MapperAssumption
  <2>2. IsFiniteSet(sites \cup {site})
    BY <1>1, FS_AddElement DEF Sited
  <2> QED  BY <1>1, <2>1, <2>2 DEF Sited
<1> QED  BY <1>1, <1>2, <1>3, ElseStays DEF Phases

(* The program ran without a report.                                       *)
LEMMA ConvergeSearch ==
  ASSUME SearchInv, Converge
  PROVE  SearchInv'
<1>1. /\ here = Nowhere /\ Ground /\ Sited /\ phase' = "converged"
      /\ UNCHANGED <<image, dispatchers, shadowMap, sites, t, here>>
  BY DEF SearchInv, Converge
<1>2. Ground' /\ Sited'
  BY <1>1 DEF Ground, Sited, IsShadow
<1> QED  BY <1>1, <1>2, ElseStays DEF Phases

(* A run begins with the sites.                                            *)
LEMMA RestartSearch ==
  ASSUME SearchInv, Restart
  PROVE  SearchInv'
<1>1. /\ here = Nowhere /\ Ground /\ Sited /\ phase' = "run"
      /\ UNCHANGED <<image, dispatchers, shadowMap, sites, here>>
  BY DEF SearchInv, Restart
<1>2. PICK extra \in ReadSites : t' = Begun(extra)
  BY DEF Restart
<1>3. Cardinality(sites) \in Nat
  BY <1>1, FS_CardinalityType DEF Sited
<1>4. /\ extra \in [1..Cardinality(sites) -> sites]
      /\ \A site \in sites : \E i \in DOMAIN extra : extra[i] = site
  BY <1>2 DEF ReadSites
<1>5. /\ Len(extra) = Cardinality(sites) /\ DOMAIN extra = 1..Len(extra)
      /\ \A k \in 1..Len(extra) : extra[k] \in sites
  <2>1. extra \in Seq(sites) /\ Len(extra) = Cardinality(sites)
    BY <1>3, <1>4
  <2> QED  BY <1>4, <2>1
<1>6. \A k \in 1..Len(extra) : extra[k].addr \in Int /\ extra[k].banks \in Pagings
  BY <1>1, <1>5 DEF Sited
<1>7. /\ IsSearch(t') /\ t'.visit = {} /\ t'.tables = {}
      /\ \A i \in DOMAIN Entries : Reached(t', Entries[i], Initial)
      /\ \A k \in 1..Len(extra) : Reached(t', extra[k].addr, extra[k].banks)
  BY <1>1, <1>2, <1>3, <1>5, <1>6, BegunIs
<1>8. ASSUME NEW site \in sites PROVE Held(t', Nowhere, site.addr, site.banks)
  BY <1>4, <1>5, <1>7 DEF Held
<1>9. SoFar(t', Nowhere)
  BY <1>7, <1>8 DEF SoFar, Held
<1> QED  BY <1>1, <1>7, <1>9, RunStays

(* Every step of the tool keeps the invariant of the search (Tracer.Run,   *)
(* walk, Trace, discover).                                                 *)
THEOREM SearchStays == SearchInv /\ [Next]_vars => SearchInv'
<1> SUFFICES ASSUME SearchInv, [Next]_vars PROVE SearchInv'
  OBVIOUS
<1>1. ASSUME NEW junk \in Junk, Take(junk) PROVE SearchInv'
  BY <1>1, TakeSearch
<1>2. CASE Overflow \/ Arrive \/ StopAtPadding \/ Walk
  BY <1>2, OverflowSearch, ArriveSearch, PaddingSearch, WalkSearch
<1>3. CASE Decide \/ Settle \/ Restart
  BY <1>3, DecideSearch, SettleSearch, RestartSearch
<1>4. ASSUME NEW site \in Reports, Discover(site) PROVE SearchInv'
  BY <1>4, DiscoverSearch
<1>5. CASE Converge
  BY <1>5, ConvergeSearch
<1>6. CASE UNCHANGED vars
  <2>1. /\ image' = image /\ dispatchers' = dispatchers /\ shadowMap' = shadowMap
        /\ sites' = sites /\ t' = t /\ here' = here /\ phase' = phase
    BY <1>6 DEF vars
  <2>2. CASE phase = "run"
    <3>1. /\ IsSearch(t) /\ (here = Nowhere \/ here \in Places)
          /\ (~t.overflowed => SoFar(t, here))
      BY <2>2 DEF SearchInv
    <3>2. /\ IsSearch(t') /\ (here' = Nowhere \/ here' \in Places)
          /\ (~t'.overflowed => SoFar(t', here'))
      BY <2>1, <3>1
    <3> QED  BY <2>1, <2>2, <3>2, RunStays
  <2>3. CASE phase # "run"
    <3>1. Ground' /\ Sited' /\ phase' \in Phases /\ Searched'
      BY <2>1 DEF SearchInv, Ground, Sited, Phases, IsShadow, Searched, CodeTyped
    <3>2. phase' = "traced" => IsSearch(t)'
      <4>1. phase = "traced" => IsSearch(t)
        BY DEF SearchInv
      <4> QED  BY <2>1, <4>1, SearchNext
    <3>3. Closed'
      <4>1. Closed
        BY DEF SearchInv
      <4> QED
        BY <2>1, <4>1 DEF Closed, Answered, Followed, Dispatches, WordAt, Cell
    <3> QED  BY <2>1, <2>3, <3>1, <3>2, <3>3 DEF SearchInv
  <2> QED  BY <2>2, <2>3
<1> QED  BY <1>1, <1>2, <1>3, <1>4, <1>5, <1>6 DEF Next

(* The search is as SearchInv says for as long as the tool runs.           *)
THEOREM SearchAlways == Spec => []SearchInv
<1>1. Init => SearchInv
  BY InitSearch
<1> QED  BY <1>1, SearchStays, PTL DEF Spec

(* Whenever Run reports a result that did not overflow, every call, jump   *)
(* and successor it decoded has been walked, or is padding, outside the    *)
(* image or behind a reported switch (walk and enqueue in trace.go).       *)
THEOREM ClosedAlways == Spec => []Closed
<1>1. SearchInv => Closed
  BY DEF SearchInv
<1> QED  BY <1>1, SearchAlways, PTL

-----------------------------------------------------------------------------
(* The program beside the walk: what the walk knows, it holds.             *)

(* A value the tracer holds and the program's: the tracer does not know it,*)
(* or knows it right; and what it does not know that has been loaded from  *)
(* a shadow is the bank the shadow's page had as the path began.           *)
Agree(x, v, e) ==
  /\ x.v = Unknown \/ x.v = v
  /\ x.v = Unknown /\ x.src \in DOMAIN shadowMap => v = e[shadowMap[x.src]]
(* A program's registers and stack.                                        *)
RegFile == [RegNames -> Int]
Pairs == Int \X Int
Matching(r, s, e) == \A k \in RegNames : Agree(r[k], s[k], e)
(* The top of the program's stack is the tracer's.                         *)
StackAgrees(stk, stack, e) ==
  /\ Len(stk) <= Len(stack)
  /\ \A i \in 0..Len(stk) - 1 :
       /\ Agree(stk[Len(stk) - i][1], stack[Len(stack) - i][1], e)
       /\ Agree(stk[Len(stk) - i][2], stack[Len(stack) - i][2], e)
(* The shadows hold what the walk takes them to hold.                      *)
MemoryAgrees(shadows, mem, e) ==
  \A a \in DOMAIN shadowMap : Agree(Value(shadows[a], a), mem[a], e)

(* A value forgotten agrees with any; a constant with itself.              *)
LEMMA AgreeAlways ==
  ASSUME Ground, NEW v, NEW e
  PROVE  Agree(Forgotten, v, e) /\ Agree(Value(v, Nosrc), v, e) /\ Agree(Value(Unknown, Nosrc), v, e)
<1>1. Nosrc \notin DOMAIN shadowMap
  BY DEF Ground, IsShadow
<1> QED  BY <1>1 DEF Agree, Forgotten, Value

(* A byte moved by a constant still agrees.                                *)
LEMMA AgreeMoved ==
  ASSUME Ground, NEW x, NEW v, NEW e, Agree(x, v, e), NEW n
  PROVE  Agree(Value(MovedByte(x.v, n), Nosrc), AddByte(v, n), e)
<1>1. MovedByte(x.v, n) = Unknown \/ MovedByte(x.v, n) = AddByte(v, n)
  BY DEF Agree, MovedByte
<1> QED  BY <1>1, AgreeAlways

(* One register set in both, and two.                                      *)
LEMMA OneMatches ==
  ASSUME NEW r \in [RegNames -> Values], NEW s \in RegFile, NEW e, Matching(r, s, e),
         NEW k \in RegNames, NEW x, NEW v, v \in Int, Agree(x, v, e)
  PROVE  [s EXCEPT ![k] = v] \in RegFile /\ Matching([r EXCEPT ![k] = x], [s EXCEPT ![k] = v], e)
BY DEF Matching, RegFile

LEMMA TwoMatch ==
  ASSUME NEW r \in [RegNames -> Values], NEW s \in RegFile, NEW e, Matching(r, s, e),
         NEW i \in RegNames, NEW x, NEW u, u \in Int, Agree(x, u, e),
         NEW j \in RegNames, NEW y, NEW v, v \in Int, Agree(y, v, e)
  PROVE  /\ [s EXCEPT ![i] = u, ![j] = v] \in RegFile
         /\ Matching([r EXCEPT ![i] = x, ![j] = y], [s EXCEPT ![i] = u, ![j] = v], e)
BY DEF Matching, RegFile

(* A pair that the tracer knows is the program's.                          *)
LEMMA PairMatches ==
  ASSUME NEW g \in Regs, NEW c, NEW e, Matching(g.r, c.r, e), NEW p \in PairNames,
         PairOf(g, p) # Unknown
  PROVE  PairOf(g, p) = PairIn(c, p)
<1>1. /\ g.r[Hi[p]].v # Unknown /\ g.r[Lo[p]].v # Unknown
      /\ PairOf(g, p) = Word(g.r[Hi[p]].v, g.r[Lo[p]].v)
  BY PairOfIs
<1>2. Hi[p] \in RegNames /\ Lo[p] \in RegNames
  BY HalvesAre
<1>3. g.r[Hi[p]].v = c.r[Hi[p]] /\ g.r[Lo[p]].v = c.r[Lo[p]]
  BY <1>1, <1>2 DEF Matching, Agree
<1> QED  BY <1>1, <1>3 DEF PairIn

(* A pair set in both.                                                     *)
LEMMA PairSet ==
  ASSUME Ground, NEW g \in Regs, NEW c, c.r \in RegFile, NEW e, Matching(g.r, c.r, e),
         NEW p \in PairNames, NEW n, n \in Int, NEW m, m \in Int, n = Unknown \/ n = m
  PROVE  /\ WithPair(c, p, m) \in RegFile /\ Matching(SetPair(g, p, n).r, WithPair(c, p, m), e)
         /\ SetPair(g, p, n).stk = g.stk
<1> DEFINE h == HiByte(m)
           l == LoByte(m)
<1>1. h \in Int /\ l \in Int
  BY BytesAre
<1>2. Hi[p] \in RegNames /\ Lo[p] \in RegNames
  BY HalvesAre
<1>3. g.r \in [RegNames -> Values]
  BY DEF Regs
<1>4. WithPair(c, p, m) = [c.r EXCEPT ![Hi[p]] = h, ![Lo[p]] = l]
  BY DEF WithPair
<1>5. /\ SetPair(g, p, n).stk = g.stk
      /\ n # Unknown => SetPair(g, p, n).r = [g.r EXCEPT ![Hi[p]] = Value(HiByte(n), Nosrc),
                                                        ![Lo[p]] = Value(LoByte(n), Nosrc)]
      /\ n = Unknown => SetPair(g, p, n).r = [g.r EXCEPT ![Hi[p]] = Forgotten,
                                                        ![Lo[p]] = Forgotten]
  BY DEF SetPair, Regs
<1>6. CASE n = Unknown
  <2>1. SetPair(g, p, n).r = [g.r EXCEPT ![Hi[p]] = Forgotten, ![Lo[p]] = Forgotten]
    BY <1>5, <1>6
  <2> HIDE DEF h, l
  <2>2. Agree(Forgotten, h, e) /\ Agree(Forgotten, l, e)
    BY AgreeAlways
  <2>3. /\ [c.r EXCEPT ![Hi[p]] = h, ![Lo[p]] = l] \in RegFile
        /\ Matching([g.r EXCEPT ![Hi[p]] = Forgotten, ![Lo[p]] = Forgotten],
                    [c.r EXCEPT ![Hi[p]] = h, ![Lo[p]] = l], e)
    <3>1. c.r \in RegFile /\ Matching(g.r, c.r, e)
      OBVIOUS
    <3> QED  BY <1>1, <1>2, <1>3, <2>2, <3>1, TwoMatch, Zenon
  <2> QED  BY <1>4, <1>5, <2>1, <2>3
<1>7. CASE n # Unknown
  <2>1. SetPair(g, p, n).r = [g.r EXCEPT ![Hi[p]] = Value(h, Nosrc), ![Lo[p]] = Value(l, Nosrc)]
    BY <1>5, <1>7 DEF h, l
  <2> HIDE DEF h, l
  <2>2. Agree(Value(h, Nosrc), h, e) /\ Agree(Value(l, Nosrc), l, e)
    BY AgreeAlways
  <2>3. /\ [c.r EXCEPT ![Hi[p]] = h, ![Lo[p]] = l] \in RegFile
        /\ Matching([g.r EXCEPT ![Hi[p]] = Value(h, Nosrc), ![Lo[p]] = Value(l, Nosrc)],
                    [c.r EXCEPT ![Hi[p]] = h, ![Lo[p]] = l], e)
    <3>1. c.r \in RegFile /\ Matching(g.r, c.r, e)
      OBVIOUS
    <3> QED  BY <1>1, <1>2, <1>3, <2>2, <3>1, TwoMatch, Zenon
  <2> QED  BY <1>4, <1>5, <2>1, <2>3
<1> QED  BY <1>6, <1>7

(* A load of both.                                                         *)
LEMMA LoadMatches ==
  ASSUME Ground, NEW shadows \in Shadows, NEW c, c.mem \in [DOMAIN shadowMap -> Int],
         c.junk \in Int, NEW e, MemoryAgrees(shadows, c.mem, e), NEW a
  PROVE  InMemory(c, a) \in Int /\ Agree(Loaded(shadows, a), InMemory(c, a), e)
<1>1. DOMAIN shadows = DOMAIN shadowMap /\ DOMAIN c.mem = DOMAIN shadowMap
  BY DEF Shadows
<1>2. CASE a \in DOMAIN shadowMap
  BY <1>1, <1>2 DEF InMemory, Loaded, MemoryAgrees
<1>3. CASE a \notin DOMAIN shadowMap
  BY <1>1, <1>3 DEF InMemory, Loaded, Agree, Value
<1> QED  BY <1>2, <1>3

(* What a pop gives. *)
LEMMA TopMatches ==
  ASSUME Ground, NEW g \in Regs, NEW c, c.stack \in Seq(Pairs), c.junk \in Int, NEW e,
         StackAgrees(g.stk, c.stack, e)
  PROVE  /\ Top(c)[1] \in Int /\ Top(c)[2] \in Int
         /\ Agree(Taken(g)[1], Top(c)[1], e) /\ Agree(Taken(g)[2], Top(c)[2], e)
         /\ Below(c) \in Seq(Pairs) /\ StackAgrees(LessTop(g).stk, Below(c), e)
<1> DEFINE n == Len(g.stk)
           m == Len(c.stack)
<1>0. g.stk \in Seq(Entry) /\ n \in Nat /\ m \in Nat /\ n <= m
  BY LenProperties DEF Regs, StackAgrees
<1>1. CASE c.stack = <<>>
  <2>1. m = 0 /\ n = 0
    BY <1>0, <1>1
  <2>2. g.stk = <<>>
    BY <1>0, <2>1
  <2>3. Top(c) = <<c.junk, c.junk>> /\ Below(c) = <<>>
    BY <1>1 DEF Top, Below
  <2>4. Taken(g) = <<Forgotten, Forgotten>> /\ LessTop(g) = g
    BY <2>2 DEF Taken, LessTop
  <2>5. Agree(Forgotten, c.junk, e)
    BY AgreeAlways
  <2>6. StackAgrees(<<>>, <<>>, e)
    BY DEF StackAgrees
  <2> QED  BY <2>2, <2>3, <2>4, <2>5, <2>6, EmptySeq
<1>2. CASE c.stack # <<>>
  <2> DEFINE b == SubSeq(c.stack, 1, m - 1)
  <2>0. m > 0
    BY <1>0, <1>2, EmptySeq
  <2>1. Top(c) = c.stack[m] /\ Below(c) = b
    BY <1>2 DEF Top, Below
  <2>2. b \in Seq(Pairs) /\ Len(b) = m - 1 /\ \A i \in 1..m - 1 : b[i] = c.stack[i]
    BY <1>0, <2>0
  <2>3. c.stack[m] \in Pairs
    BY <1>0, <2>0, ElementOfSeq
  <2> HIDE DEF b
  <2>4. CASE g.stk = <<>>
    <3>1. Taken(g) = <<Forgotten, Forgotten>> /\ LessTop(g) = g
      BY <2>4 DEF Taken, LessTop
    <3>2. Agree(Forgotten, c.stack[m][1], e) /\ Agree(Forgotten, c.stack[m][2], e)
      BY AgreeAlways
    <3>3. StackAgrees(<<>>, b, e)
      BY <1>0, <2>0, <2>2 DEF StackAgrees
    <3> QED  BY <2>1, <2>2, <2>3, <2>4, <3>1, <3>2, <3>3 DEF Pairs
  <2>5. CASE g.stk # <<>>
    <3>1. /\ Taken(g) = g.stk[n] /\ LessTop(g) = PopEntry(g) /\ n > 0
          /\ Len(PopEntry(g).stk) = n - 1
          /\ \A i \in 1..n - 1 : PopEntry(g).stk[i] = g.stk[i]
      BY <1>0, <2>5, PopEntryIs DEF Taken, LessTop
    <3>2. Agree(g.stk[n][1], c.stack[m][1], e) /\ Agree(g.stk[n][2], c.stack[m][2], e)
      <4>1. 0 \in 0..n - 1 /\ n - 0 = n /\ m - 0 = m
        BY <1>0, <3>1
      <4> QED  BY <4>1 DEF StackAgrees
    <3> DEFINE q == PopEntry(g).stk
    <3> HIDE DEF q
    <3>3. Len(q) = n - 1 /\ \A i \in 1..n - 1 : q[i] = g.stk[i]
      BY <3>1 DEF q
    <3>4. ASSUME NEW i \in 0..n - 2
          PROVE  /\ Agree(q[n - 1 - i][1], b[m - 1 - i][1], e)
                 /\ Agree(q[n - 1 - i][2], b[m - 1 - i][2], e)
      <4> HIDE DEF n, m
      <4>0. n \in Int /\ m \in Int /\ i \in Int /\ 0 <= i /\ i <= n - 2 /\ n <= m
        BY <1>0
      <4>1. /\ n - 1 - i \in 1..n - 1 /\ m - 1 - i \in 1..m - 1 /\ i + 1 \in 0..n - 1
            /\ n - 1 - i = n - (i + 1) /\ m - 1 - i = m - (i + 1)
        BY <4>0
      <4>2. q[n - 1 - i] = g.stk[n - (i + 1)] /\ b[m - 1 - i] = c.stack[m - (i + 1)]
        BY <2>2, <3>3, <4>1
      <4> DEFINE j == i + 1
      <4>3. j \in 0..n - 1 /\ q[n - 1 - i] = g.stk[n - j] /\ b[m - 1 - i] = c.stack[m - j]
        BY <4>1, <4>2
      <4> HIDE DEF j
      <4>4. Agree(g.stk[n - j][1], c.stack[m - j][1], e) /\ Agree(g.stk[n - j][2], c.stack[m - j][2], e)
        BY <4>3 DEF StackAgrees, n, m
      <4> QED  BY <4>3, <4>4
    <3>5. StackAgrees(q, b, e)
      <4>1. n - 1 <= m - 1 /\ (n - 1) - 1 = n - 2
        BY <1>0
      <4> QED  BY <2>2, <3>3, <3>4, <4>1 DEF StackAgrees
    <3> QED  BY <2>1, <2>2, <2>3, <3>1, <3>2, <3>5 DEF Pairs, q
  <2> QED  BY <2>4, <2>5
<1> QED  BY <1>1, <1>2

(* A processor whose registers are all known.                              *)
Frame(c) ==
  /\ c = [r |-> c.r, stack |-> c.stack, mem |-> c.mem, banks |-> c.banks,
          junk |-> c.junk, keeps |-> c.keeps]
  /\ c.r \in RegFile /\ c.junk \in Int /\ c.keeps \in BOOLEAN
  /\ c.mem \in [DOMAIN shadowMap -> Int] /\ c.stack \in Seq(Pairs)

(* Step: what an instruction leaves known of the registers, they hold.     *)
LEMMA RegsMatch ==
  ASSUME Ground, NEW g \in Regs, NEW c, Frame(c), NEW e, Matching(g.r, c.r, e),
         StackAgrees(g.stk, c.stack, e), NEW shadows \in Shadows, MemoryAgrees(shadows, c.mem, e),
         NEW ins, WellFormed(ins), ins.op = "LdRIndex" => ins.r = "A"
  PROVE  /\ RegsThen(c, ins) \in RegFile
         /\ Matching(RegsAfter(g, ins, shadows).r, RegsThen(c, ins), e)
<1> DEFINE after == RegsAfter(g, ins, shadows)
           then == RegsThen(c, ins)
           Fine == then \in RegFile /\ Matching(after.r, then, e)
<1> HIDE DEF after, then
<1> SUFFICES Fine
  BY DEF after, then
<1>0. /\ g.r \in [RegNames -> Values] /\ DOMAIN g = {"r", "stk"} /\ c.r \in RegFile /\ c.junk \in Int
      /\ Matching(g.r, c.r, e) /\ DOMAIN g.r = RegNames /\ DOMAIN c.r = RegNames
      /\ \A k \in RegNames : g.r[k] \in Values /\ c.r[k] \in Int /\ Agree(g.r[k], c.r[k], e)
      /\ {"A", "B", "D", "E", "H", "L"} \subseteq RegNames /\ "HL" \in PairNames
      /\ g = [r |-> g.r, stk |-> g.stk]
  BY DEF Frame, Matching, Regs, RegFile, RegNames, PairNames
<1>a. \A v : Agree(Forgotten, v, e) /\ Agree(Value(v, Nosrc), v, e) /\ Agree(Value(Unknown, Nosrc), v, e)
  BY AgreeAlways
<1>b. \A a : InMemory(c, a) \in Int /\ Agree(Loaded(shadows, a), InMemory(c, a), e)
  BY LoadMatches DEF Frame
<1>c. ASSUME NEW k \in RegNames, NEW x, NEW v, v \in Int, Agree(x, v, e),
             then = [c.r EXCEPT ![k] = v], after.r = [g.r EXCEPT ![k] = x]
      PROVE  Fine
  <2>1. g.r \in [RegNames -> Values] /\ c.r \in RegFile /\ Matching(g.r, c.r, e)
    BY <1>0
  <2>2. [c.r EXCEPT ![k] = v] \in RegFile /\ Matching([g.r EXCEPT ![k] = x], [c.r EXCEPT ![k] = v], e)
    BY <1>c, <2>1, OneMatches
  <2> QED  BY <1>c, <2>2
<1>d. ASSUME NEW i \in RegNames, NEW x, NEW u, u \in Int, Agree(x, u, e),
             NEW j \in RegNames, NEW y, NEW v, v \in Int, Agree(y, v, e),
             then = [c.r EXCEPT ![i] = u, ![j] = v], after.r = [g.r EXCEPT ![i] = x, ![j] = y]
      PROVE  Fine
  <2>1. g.r \in [RegNames -> Values] /\ c.r \in RegFile /\ Matching(g.r, c.r, e)
    BY <1>0
  <2>2. /\ [c.r EXCEPT ![i] = u, ![j] = v] \in RegFile
        /\ Matching([g.r EXCEPT ![i] = x, ![j] = y], [c.r EXCEPT ![i] = u, ![j] = v], e)
    BY <1>d, <2>1, TwoMatch, Zenon
  <2> QED  BY <1>d, <2>2
<1>1. CASE ins.op = "LdRN"
  <2>1. after.r = [g.r EXCEPT ![ins.r] = Value(ins.n, Nosrc)]
    BY <1>0, <1>1 DEF RegsAfter, SetReg, after
  <2>2. then = [c.r EXCEPT ![ins.r] = ins.n]
    BY <1>1 DEF RegsThen, then
  <2>3. ins.r \in RegNames /\ ins.n \in Int
    BY <1>1 DEF WellFormed
  <2> QED  BY <1>a, <1>c, <2>1, <2>2, <2>3
<1>2. CASE ins.op = "LdRR"
  <2>1. after.r = [g.r EXCEPT ![ins.r] = g.r[ins.q]]
    BY <1>0, <1>2 DEF RegsAfter, after
  <2>2. then = [c.r EXCEPT ![ins.r] = c.r[ins.q]]
    BY <1>2 DEF RegsThen, then
  <2>3. ins.r \in RegNames /\ ins.q \in RegNames
    BY <1>2 DEF WellFormed
  <2> QED  BY <1>0, <1>c, <2>1, <2>2, <2>3
<1>3. CASE ins.op = "LdPN"
  <2>1. after = SetPair(g, ins.p, ins.n)
    BY <1>3 DEF RegsAfter, after
  <2>2. then = WithPair(c, ins.p, ins.n)
    BY <1>3 DEF RegsThen, then
  <2>3. ins.p \in PairNames /\ ins.n \in Int
    BY <1>3 DEF WellFormed
  <2> QED  BY <1>0, <2>1, <2>2, <2>3, PairSet
<1>4. CASE ins.op = "LdAM"
  <2>1. after.r = [g.r EXCEPT !["A"] = Loaded(shadows, ins.n)]
    BY <1>0, <1>4 DEF RegsAfter, after
  <2>2. then = [c.r EXCEPT !["A"] = InMemory(c, ins.n)]
    BY <1>4 DEF RegsThen, then
  <2> QED  BY <1>0, <1>b, <1>c, <2>1, <2>2
<1>5. CASE ins.op = "LdHLM"
  <2> DEFINE x == Loaded(shadows, ins.n)
             y == Loaded(shadows, ins.n + 1)
             u == InMemory(c, ins.n)
             v == InMemory(c, ins.n + 1)
  <2>1. after = [g EXCEPT !.r["L"] = x, !.r["H"] = y]
    BY <1>5 DEF RegsAfter, after
  <2>2. then = [c.r EXCEPT !["L"] = u, !["H"] = v]
    BY <1>5 DEF RegsThen, then
  <2>3. u \in Int /\ v \in Int /\ Agree(x, u, e) /\ Agree(y, v, e)
    BY <1>b
  <2> HIDE DEF x, y, u, v
  <2>4. after.r = [g.r EXCEPT !["L"] = x, !["H"] = y]
    BY <1>0, <2>1
  <2> QED  BY <1>0, <1>d, <2>2, <2>3, <2>4
<1>6. CASE ins.op = "IncR"
  <2>1. after.r = [g.r EXCEPT ![ins.r] = Value(MovedByte(g.r[ins.r].v, ins.n), Nosrc)]
    BY <1>0, <1>6 DEF RegsAfter, SetReg, after
  <2>2. then = [c.r EXCEPT ![ins.r] = AddByte(c.r[ins.r], ins.n)]
    BY <1>6 DEF RegsThen, then
  <2>3. ins.r \in RegNames /\ ins.n \in Int
    BY <1>6 DEF WellFormed
  <2>4. AddByte(c.r[ins.r], ins.n) \in Int
    BY <1>0, <2>3, BytesAre
  <2>5. Agree(Value(MovedByte(g.r[ins.r].v, ins.n), Nosrc), AddByte(c.r[ins.r], ins.n), e)
    BY <1>0, <2>3, AgreeMoved
  <2> QED  BY <1>c, <2>1, <2>2, <2>3, <2>4, <2>5
<1>7. CASE ins.op = "IncP"
  <2> DEFINE n == MovedWord(PairOf(g, ins.p), ins.n)
             m == AddWord(PairIn(c, ins.p), ins.n)
  <2>1. after = SetPair(g, ins.p, n)
    BY <1>7 DEF RegsAfter, after
  <2>2. then = WithPair(c, ins.p, m)
    BY <1>7 DEF RegsThen, then
  <2>3. ins.p \in PairNames /\ ins.n \in Int /\ Hi[ins.p] \in RegNames /\ Lo[ins.p] \in RegNames
    BY <1>7, HalvesAre DEF WellFormed
  <2>4. PairOf(g, ins.p) \in Int /\ PairIn(c, ins.p) \in Int
    BY <1>0, <2>3, PairOfIs, BytesAre DEF PairIn
  <2>5. AddWord(PairOf(g, ins.p), ins.n) \in Int /\ m \in Int
    BY <2>3, <2>4, BytesAre
  <2>6. n \in Int
    BY <2>5, NamesAre DEF MovedWord
  <2>7. n = Unknown \/ n = m
    <3>1. CASE PairOf(g, ins.p) = Unknown
      BY <3>1 DEF MovedWord
    <3>2. CASE PairOf(g, ins.p) # Unknown
      <4>1. PairOf(g, ins.p) = PairIn(c, ins.p)
        BY <1>0, <2>3, <3>2, PairMatches
      <4> QED  BY <3>2, <4>1 DEF MovedWord
    <3> QED  BY <3>1, <3>2
  <2> HIDE DEF n, m
  <2> QED  BY <1>0, <2>1, <2>2, <2>3, <2>5, <2>6, <2>7, PairSet
<1>8. CASE ins.op = "AddAN"
  <2>1. after.r = [g.r EXCEPT !["A"] = Value(MovedByte(g.r["A"].v, ins.n), Nosrc)]
    BY <1>0, <1>8 DEF RegsAfter, SetReg, after
  <2>2. then = [c.r EXCEPT !["A"] = AddByte(c.r["A"], ins.n)]
    BY <1>8 DEF RegsThen, then
  <2>3. ins.n \in Int
    BY <1>8 DEF WellFormed
  <2>4. AddByte(c.r["A"], ins.n) \in Int
    BY <1>0, <2>3, BytesAre
  <2>5. Agree(Value(MovedByte(g.r["A"].v, ins.n), Nosrc), AddByte(c.r["A"], ins.n), e)
    BY <1>0, <2>3, AgreeMoved
  <2> QED  BY <1>0, <1>c, <2>1, <2>2, <2>4, <2>5
<1>9. CASE ins.op \in {"Alu", "LdAIndirect", "ExAF", "LdRIndex"}
  <2>1. after.r = [g.r EXCEPT !["A"] = Value(Unknown, Nosrc)]
    BY <1>0, <1>9 DEF RegsAfter, SetReg, after
  <2>2. then = [c.r EXCEPT !["A"] = c.junk]
    BY <1>9 DEF RegsThen, then
  <2> QED  BY <1>0, <1>a, <1>c, <2>1, <2>2
<1>10. CASE ins.op = "AddHL"
  <2> DEFINE m == AddWord(PairIn(c, "HL"), PairIn(c, ins.p))
  <2>1. after = SetPair(g, "HL", Unknown)
    BY <1>10 DEF RegsAfter, after
  <2>2. then = WithPair(c, "HL", m)
    BY <1>10 DEF RegsThen, then
  <2>3. ins.p \in PairNames /\ Hi[ins.p] \in RegNames /\ Lo[ins.p] \in RegNames
        /\ Hi["HL"] \in RegNames /\ Lo["HL"] \in RegNames
    BY <1>0, <1>10, HalvesAre DEF WellFormed
  <2>4. PairIn(c, "HL") \in Int /\ PairIn(c, ins.p) \in Int
    BY <1>0, <2>3, BytesAre DEF PairIn
  <2>5. m \in Int
    BY <2>4, BytesAre
  <2> HIDE DEF m
  <2> QED  BY <1>0, <2>1, <2>2, <2>5, NamesAre, PairSet
<1>11. CASE ins.op = "ExDEHL"
  <2>1. after = [g EXCEPT !.r["D"] = g.r["H"], !.r["H"] = g.r["D"],
                          !.r["E"] = g.r["L"], !.r["L"] = g.r["E"]]
    BY <1>11 DEF RegsAfter, after
  <2>2. then = [c.r EXCEPT !["D"] = c.r["H"], !["H"] = c.r["D"],
                           !["E"] = c.r["L"], !["L"] = c.r["E"]]
    BY <1>11 DEF RegsThen, then
  <2>3. after.r = [g.r EXCEPT !["D"] = g.r["H"], !["H"] = g.r["D"],
                              !["E"] = g.r["L"], !["L"] = g.r["E"]]
    BY <1>0, <2>1
  <2> QED  BY <1>0, <2>2, <2>3 DEF RegFile, Matching
<1>12. CASE ins.op = "Exx"
  <2>1. after.r = [k \in RegNames |-> IF k = "A" THEN g.r[k] ELSE Forgotten]
    BY <1>0, <1>12 DEF RegsAfter, after
  <2>2. then = [k \in RegNames |-> IF k = "A" THEN c.r[k] ELSE c.junk]
    BY <1>12 DEF RegsThen, then
  <2> QED  BY <1>0, <1>a, <2>1, <2>2 DEF RegFile, Matching
<1>13. CASE ins.op = "Push"
  <2>1. after.r = g.r
    <3>1. after = Pushed(g, ins.p)
      BY <1>13 DEF RegsAfter, after
    <3>2. <<g.r[Hi[ins.p]], IF ins.p = "AF" THEN Forgotten ELSE g.r[Lo[ins.p]]>> \in Entry
      BY <1>13, PushedIn DEF WellFormed
    <3> QED  BY <3>1, <3>2, PushEntryIs DEF Pushed
  <2>2. then = c.r
    BY <1>13 DEF RegsThen, then
  <2> QED  BY <1>0, <2>1, <2>2
<1>14. CASE ins.op = "Pop"
  <2>1. after = Popped(g, ins.p) /\ ins.p \in PairNames \cup {"AF"}
    BY <1>14 DEF RegsAfter, after, WellFormed
  <2>2. /\ Taken(g)[1] \in Values /\ Taken(g)[2] \in Values
        /\ after.r = IF ins.p = "AF" THEN [g.r EXCEPT !["A"] = Taken(g)[1]]
                     ELSE [g.r EXCEPT ![Hi[ins.p]] = Taken(g)[1], ![Lo[ins.p]] = Taken(g)[2]]
    BY <2>1, PoppedIs
  <2>3. then = IF ins.p = "AF" THEN [c.r EXCEPT !["A"] = Top(c)[1]]
               ELSE [c.r EXCEPT ![Hi[ins.p]] = Top(c)[1], ![Lo[ins.p]] = Top(c)[2]]
    BY <1>14 DEF RegsThen, then
  <2>4. /\ Top(c)[1] \in Int /\ Top(c)[2] \in Int
        /\ Agree(Taken(g)[1], Top(c)[1], e) /\ Agree(Taken(g)[2], Top(c)[2], e)
    BY TopMatches DEF Frame
  <2> DEFINE x == Taken(g)[1]
             y == Taken(g)[2]
             u == Top(c)[1]
             v == Top(c)[2]
  <2>5. x \in Values /\ y \in Values /\ u \in Int /\ v \in Int /\ Agree(x, u, e) /\ Agree(y, v, e)
    BY <2>2, <2>4
  <2>6. CASE ins.p = "AF"
    <3>1. after.r = [g.r EXCEPT !["A"] = x] /\ then = [c.r EXCEPT !["A"] = u]
      BY <2>2, <2>3, <2>6
    <3> HIDE DEF x, y, u, v
    <3> QED  BY <1>0, <1>c, <2>5, <3>1
  <2>7. CASE ins.p # "AF"
    <3>1. /\ after.r = [g.r EXCEPT ![Hi[ins.p]] = x, ![Lo[ins.p]] = y]
          /\ then = [c.r EXCEPT ![Hi[ins.p]] = u, ![Lo[ins.p]] = v]
      BY <2>2, <2>3, <2>7
    <3>2. Hi[ins.p] \in RegNames /\ Lo[ins.p] \in RegNames
      BY <2>1, <2>7, HalvesAre
    <3> HIDE DEF x, y, u, v
    <3> QED  BY <1>d, <2>5, <3>1, <3>2
  <2> QED  BY <2>6, <2>7
<1>15. CASE ins.op = "ExSPHL"
  <2> DEFINE u == Top(c)[1]
             v == Top(c)[2]
  <2>1. after.r = SetPair(g, "HL", Unknown).r
    <3>1. after = [SetPair(g, "HL", Unknown) EXCEPT !.stk = <<>>]
      BY <1>15 DEF RegsAfter, after
    <3>2. SetPair(g, "HL", Unknown) \in Regs
      BY <1>0, NamesAre, SetPairIn
    <3> QED  BY <3>1, <3>2 DEF Regs
  <2>2. after.r = [g.r EXCEPT !["H"] = Forgotten, !["L"] = Forgotten]
    BY <1>0, <2>1, HalvesAre DEF SetPair
  <2>3. then = [c.r EXCEPT !["H"] = u, !["L"] = v]
    BY <1>15 DEF RegsThen, then
  <2>4. u \in Int /\ v \in Int
    BY TopMatches DEF Frame
  <2> HIDE DEF u, v
  <2>5. Agree(Forgotten, u, e) /\ Agree(Forgotten, v, e)
    BY <1>a
  <2> QED  BY <1>0, <1>d, <2>2, <2>3, <2>4, <2>5
<1>16. CASE ins.op = "LdSP"
  <2>1. after.r = g.r
    <3>1. after = [g EXCEPT !.stk = <<>>]
      BY <1>16 DEF RegsAfter, after
    <3> QED  BY <1>0, <3>1
  <2>2. then = c.r
    BY <1>16 DEF RegsThen, then
  <2> QED  BY <1>0, <2>1, <2>2
<1>17. CASE ins.op = "Djnz"
  <2>1. after.r = [g.r EXCEPT !["B"] = Value(MovedByte(g.r["B"].v, ByteSize - 1), Nosrc)]
    BY <1>0, <1>17 DEF RegsAfter, SetReg, after
  <2>2. then = [c.r EXCEPT !["B"] = AddByte(c.r["B"], ByteSize - 1)]
    BY <1>17 DEF RegsThen, then
  <2>3. ByteSize - 1 \in Int
    BY StepAssumption
  <2>4. AddByte(c.r["B"], ByteSize - 1) \in Int
    BY <1>0, <2>3, BytesAre
  <2>5. Agree(Value(MovedByte(g.r["B"].v, ByteSize - 1), Nosrc), AddByte(c.r["B"], ByteSize - 1), e)
    BY <1>0, <2>3, AgreeMoved
  <2> QED  BY <1>0, <1>c, <2>1, <2>2, <2>4, <2>5
<1>18. CASE ins.op \in {"Call", "Rst", "Block"}
  <2>1. after.r = [k \in RegNames |-> Forgotten]
    BY <1>0, <1>18 DEF RegsAfter, Clear, after
  <2>2. then = [k \in RegNames |-> c.junk]
    BY <1>18 DEF RegsThen, then
  <2> QED  BY <1>0, <1>a, <2>1, <2>2 DEF RegFile, Matching
<1>19. CASE ins.op \notin {"LdRN", "LdRR", "LdPN", "LdAM", "LdHLM", "IncR", "IncP", "AddAN", "Alu",
                         "LdAIndirect", "ExAF", "LdRIndex", "AddHL", "ExDEHL", "Exx", "Push",
                         "Pop", "ExSPHL", "LdSP", "Djnz", "Call", "Rst", "Block"}
  <2>1. after = g /\ then = c.r
    BY <1>19 DEF RegsAfter, RegsThen, after, then
  <2> QED  BY <1>0, <2>1
<1> QED
  BY <1>1, <1>2, <1>3, <1>4, <1>5, <1>6, <1>7, <1>8, <1>9, <1>10, <1>11, <1>12, <1>13, <1>14,
     <1>15, <1>16, <1>17, <1>18, <1>19

(* Other instructions leave the stack.                                     *)
LEMMA StackIs ==
  ASSUME NEW g \in Regs, NEW ins, NEW shadows,
         ins.op \notin {"Push", "Pop", "ExSPHL", "LdSP"}
  PROVE  RegsAfter(g, ins, shadows).stk = g.stk
<1>1. g = [r |-> g.r, stk |-> g.stk]
  BY DEF Regs
<1> QED  BY <1>1 DEF RegsAfter, SetReg, SetPair, Clear

(* A pair is pushed on both.                                               *)
LEMMA PushMatches ==
  ASSUME Ground, NEW g \in Regs, NEW stack \in Seq(Pairs), NEW e, StackAgrees(g.stk, stack, e),
         NEW x \in Entry, NEW y \in Pairs, Agree(x[1], y[1], e), Agree(x[2], y[2], e)
  PROVE  /\ Append(stack, y) \in Seq(Pairs)
         /\ StackAgrees(PushEntry(g, x).stk, Append(stack, y), e)
<1> DEFINE d == PushEntry(g, x).stk
           n == Len(g.stk)
           m == Len(stack)
           b == Append(stack, y)
<1>1. /\ d \in Seq(Entry) /\ Len(d) <= n + 1
      /\ \A i \in 0..Len(d) - 1 : d[Len(d) - i] = IF i = 0 THEN x ELSE g.stk[n + 1 - i]
  BY PushEntryIs DEF Regs
<1>2. n \in Nat /\ m \in Nat /\ n <= m /\ Len(d) \in Nat
  BY <1>1 DEF StackAgrees, Regs
<1>3. b \in Seq(Pairs) /\ Len(b) = m + 1 /\ b[m + 1] = y /\ \A i \in 1..m : b[i] = stack[i]
  BY <1>2
<1> HIDE DEF d, b
<1>4. ASSUME NEW i \in 0..Len(d) - 1
      PROVE  Agree(d[Len(d) - i][1], b[m + 1 - i][1], e) /\ Agree(d[Len(d) - i][2], b[m + 1 - i][2], e)
  <2>1. CASE i = 0
    <3>1. d[Len(d) - i] = x
      BY <1>1, <2>1
    <3>2. m + 1 - i = m + 1
      BY <1>2, <2>1
    <3> QED  BY <1>3, <3>1, <3>2
  <2>2. CASE i # 0
    <3> DEFINE j == i - 1
    <3>1. d[Len(d) - i] = g.stk[n + 1 - i]
      BY <1>1, <2>2
    <3> HIDE DEF n, m
    <3>0. i \in Int /\ 1 <= i /\ i <= n
      BY <1>1, <1>2, <2>2
    <3>2. j \in 0..n - 1 /\ n + 1 - i = n - j /\ m + 1 - i = m - j /\ m + 1 - i \in 1..m
      BY <1>2, <3>0
    <3>3. b[m + 1 - i] = stack[m - j]
      BY <1>3, <3>2
    <3> HIDE DEF j
    <3>4. Agree(g.stk[n - j][1], stack[m - j][1], e) /\ Agree(g.stk[n - j][2], stack[m - j][2], e)
      BY <3>2 DEF StackAgrees, n, m
    <3> QED  BY <3>1, <3>2, <3>3, <3>4
  <2> QED  BY <2>1, <2>2
<1>5. StackAgrees(d, b, e)
  <2>1. Len(d) <= m + 1
    BY <1>1, <1>2
  <2> QED  BY <1>3, <1>4, <2>1 DEF StackAgrees
<1> QED  BY <1>3, <1>5 DEF d, b

(* Step: what it leaves known of the stack, the stack holds.               *)
LEMMA StackMatches ==
  ASSUME Ground, NEW g \in Regs, NEW c, Frame(c), NEW e, Matching(g.r, c.r, e),
         StackAgrees(g.stk, c.stack, e), NEW shadows, NEW ins, WellFormed(ins)
  PROVE  /\ StackThen(c, ins) \in Seq(Pairs)
         /\ StackAgrees(RegsAfter(g, ins, shadows).stk, StackThen(c, ins), e)
<1> DEFINE after == RegsAfter(g, ins, shadows).stk
           then == StackThen(c, ins)
<1>0. c.stack \in Seq(Pairs) /\ c.r \in RegFile /\ c.junk \in Int
  BY DEF Frame
<1>a. ASSUME NEW stack \in Seq(Pairs)
      PROVE  StackAgrees(<<>>, stack, e)
  <2>1. Len(<<>>) = 0 /\ Len(stack) \in Nat
    BY LenProperties
  <2> QED  BY <2>1 DEF StackAgrees
<1>b. Top(c)[1] \in Int /\ Top(c)[2] \in Int /\ Below(c) \in Seq(Pairs)
      /\ StackAgrees(LessTop(g).stk, Below(c), e)
  BY <1>0, TopMatches
<1>1. CASE ins.op = "Push"
  <2> DEFINE x == <<g.r[Hi[ins.p]], IF ins.p = "AF" THEN Forgotten ELSE g.r[Lo[ins.p]]>>
             y == <<c.r[Hi[ins.p]], IF ins.p = "AF" THEN c.junk ELSE c.r[Lo[ins.p]]>>
  <2>1. after = PushEntry(g, x).stk
    BY <1>1 DEF RegsAfter, Pushed
  <2>2. then = Append(c.stack, y)
    BY <1>1 DEF StackThen
  <2>3. ins.p \in PairNames \cup {"AF"}
    BY <1>1 DEF WellFormed
  <2>4. x \in Entry
    BY <2>3, PushedIn
  <2>5. Hi[ins.p] \in RegNames /\ (ins.p # "AF" => Lo[ins.p] \in RegNames)
    BY <2>3, HalvesAre DEF RegNames
  <2>6. Agree(x[1], y[1], e) /\ Agree(x[2], y[2], e)
    BY <2>5, AgreeAlways DEF Matching
  <2>7. y \in Pairs
    BY <1>0, <2>5 DEF Pairs, RegFile
  <2> HIDE DEF x, y
  <2> QED  BY <1>0, <2>1, <2>2, <2>4, <2>6, <2>7, PushMatches
<1>2. CASE ins.op = "Pop"
  <2>1. after = Popped(g, ins.p).stk /\ ins.p \in PairNames \cup {"AF"}
    BY <1>2 DEF RegsAfter, WellFormed
  <2>2. then = Below(c)
    BY <1>2 DEF StackThen
  <2> QED  BY <1>b, <2>1, <2>2, PoppedIs
<1>3. CASE ins.op = "ExSPHL"
  <2>1. after = <<>>
    <3>1. RegsAfter(g, ins, shadows) = [SetPair(g, "HL", Unknown) EXCEPT !.stk = <<>>]
      BY <1>3 DEF RegsAfter
    <3>2. SetPair(g, "HL", Unknown) \in Regs
      BY NamesAre, SetPairIn DEF PairNames
    <3> QED  BY <3>1, <3>2 DEF Regs
  <2>2. then \in Seq(Pairs)
    <3>1. CASE c.stack = <<>>
      BY <1>0, <1>3, <3>1 DEF StackThen
    <3>2. CASE c.stack # <<>>
      <4>1. then = Append(Below(c), <<c.r["H"], c.r["L"]>>)
        BY <1>3, <3>2 DEF StackThen
      <4>2. <<c.r["H"], c.r["L"]>> \in Pairs
        BY <1>0 DEF Pairs, RegFile, RegNames
      <4> QED  BY <1>b, <4>1, <4>2, AppendProperties
    <3> QED  BY <3>1, <3>2
  <2> QED  BY <1>a, <2>1, <2>2
<1>4. CASE ins.op = "LdSP"
  <2>1. after = <<>>
    BY <1>4 DEF RegsAfter, Regs
  <2>2. then = <<>>
    BY <1>4 DEF StackThen
  <2>3. <<>> \in Seq(Pairs)
    BY EmptySeq
  <2> QED  BY <1>a, <2>1, <2>2, <2>3
<1>5. CASE ins.op \notin {"Push", "Pop", "ExSPHL", "LdSP"}
  <2>1. after = g.stk
    BY <1>5, StackIs
  <2>2. then = c.stack
    BY <1>5 DEF StackThen
  <2> QED  BY <1>0, <2>1, <2>2
<1> QED  BY <1>1, <1>2, <1>3, <1>4, <1>5

(* A store the tracer knows the address of, and the program's: its value   *)
(* is the program's, or it is not known.                                   *)
Told(st, w, e) == st.at = w.at /\ Agree(Value(st.v, st.src), w.v, e)
(* The writes of an instruction, two at most and at two addresses.         *)
AreWrites(q) == /\ Len(q) \in {0, 1, 2} /\ DOMAIN q = 1..Len(q)
                /\ \A i \in 1..Len(q) : q[i].v \in Int
                /\ Len(q) = 2 => q[1].at # q[2].at
AreTold(stores, writes, e) ==
  /\ Len(stores) = Len(writes)
  /\ \A i \in 1..Len(stores) : Told(stores[i], writes[i], e)

(* One write, and two.                                                     *)
LEMMA OneWrite ==
  ASSUME NEW a, NEW v, v \in Int
  PROVE  /\ AreWrites(<<Write(a, v)>>) /\ Len(<<Write(a, v)>>) = 1
         /\ <<Write(a, v)>>[1].at = a /\ <<Write(a, v)>>[1].v = v
BY DEF AreWrites, Write

LEMMA TwoWrites ==
  ASSUME NEW a, NEW v, v \in Int, NEW b, NEW u, u \in Int, a # b
  PROVE  /\ AreWrites(<<Write(a, v), Write(b, u)>>) /\ Len(<<Write(a, v), Write(b, u)>>) = 2
         /\ <<Write(a, v), Write(b, u)>>[1].at = a /\ <<Write(a, v), Write(b, u)>>[1].v = v
         /\ <<Write(a, v), Write(b, u)>>[2].at = b /\ <<Write(a, v), Write(b, u)>>[2].v = u
BY DEF AreWrites, Write

(* One store by a pair.                                                    *)
LEMMA PairStoreMatches ==
  ASSUME NEW g \in Regs, NEW c, Frame(c), NEW e, Matching(g.r, c.r, e), NEW p \in PairNames,
         NEW x \in Values, NEW v, v \in Int, Agree(x, v, e), ByPair(g, p, x) # <<>>
  PROVE  AreTold(ByPair(g, p, x), <<Write(PairIn(c, p), v)>>, e)
<1>1. PairOf(g, p) # Unknown /\ ByPair(g, p, x) = <<Store(PairOf(g, p), x)>>
  BY ByPairIs
<1>2. PairOf(g, p) = PairIn(c, p)
  BY <1>1, PairMatches
<1>3. Told(Store(PairOf(g, p), x), Write(PairIn(c, p), v), e)
  BY <1>2 DEF Told, Store, Write, Agree, Value
<1> QED  BY <1>1, <1>3 DEF AreTold

(* Step: the stores it gives are the program's.                            *)
LEMMA StoresMatch ==
  ASSUME NEW g \in Regs, NEW c, Frame(c), NEW e, Matching(g.r, c.r, e), Ground,
         NEW ins, WellFormed(ins)
  PROVE  /\ AreWrites(Writes(c, ins))
         /\ StoresOf(g, ins) # <<>> => AreTold(StoresOf(g, ins), Writes(c, ins), e)
<1> DEFINE stores == StoresOf(g, ins)
           writes == Writes(c, ins)
           Fine == AreWrites(writes) /\ (stores # <<>> => AreTold(stores, writes, e))
<1> HIDE DEF stores, writes
<1> SUFFICES Fine
  BY DEF stores, writes
<1>0. /\ \A k \in RegNames : g.r[k] \in Values /\ c.r[k] \in Int /\ Agree(g.r[k], c.r[k], e)
      /\ {"A", "H", "L"} \subseteq RegNames /\ "HL" \in PairNames
  BY DEF Regs, Frame, RegFile, Matching, RegNames, PairNames
<1>1. CASE ins.op = "StMA"
  <2>1. stores = <<Store(ins.n, g.r["A"])>> /\ writes = <<Write(ins.n, c.r["A"])>>
    BY <1>1 DEF StoresOf, Writes, stores, writes
  <2>2. Told(Store(ins.n, g.r["A"]), Write(ins.n, c.r["A"]), e)
    BY <1>0 DEF Told, Store, Write, Agree, Value
  <2>3. AreWrites(writes)
    BY <1>0, <2>1, OneWrite
  <2> QED  BY <2>1, <2>2, <2>3 DEF AreTold
<1>2. CASE ins.op = "StMHL"
  <2>1. /\ stores = <<Store(ins.n, g.r["L"]), Store(ins.n + 1, g.r["H"])>>
        /\ writes = <<Write(ins.n, c.r["L"]), Write(ins.n + 1, c.r["H"])>>
    BY <1>2 DEF StoresOf, Writes, stores, writes
  <2>2. /\ Told(Store(ins.n, g.r["L"]), Write(ins.n, c.r["L"]), e)
        /\ Told(Store(ins.n + 1, g.r["H"]), Write(ins.n + 1, c.r["H"]), e)
    BY <1>0 DEF Told, Store, Write, Agree, Value
  <2>3. AreWrites(writes)
    <3>1. ins.n # ins.n + 1
      BY <1>2 DEF WellFormed
    <3> QED  BY <1>0, <2>1, <3>1, TwoWrites
  <2>4. /\ Len(stores) = 2 /\ Len(writes) = 2
        /\ stores[1] = Store(ins.n, g.r["L"]) /\ stores[2] = Store(ins.n + 1, g.r["H"])
        /\ writes[1] = Write(ins.n, c.r["L"]) /\ writes[2] = Write(ins.n + 1, c.r["H"])
    BY <2>1
  <2> QED  BY <2>2, <2>3, <2>4 DEF AreTold
<1>3. CASE ins.op = "StHLN"
  <2>1. /\ stores = ByPair(g, "HL", Value(ins.n, Nosrc))
        /\ writes = <<Write(PairIn(c, "HL"), ins.n)>>
    BY <1>3 DEF StoresOf, Writes, stores, writes
  <2>2. ins.n \in Int /\ Value(ins.n, Nosrc) \in Values
    BY <1>3 DEF WellFormed, Value, Values, Nosrc
  <2>3. Agree(Value(ins.n, Nosrc), ins.n, e)
    BY AgreeAlways
  <2> QED  BY <1>0, <2>1, <2>2, <2>3, OneWrite, PairStoreMatches
<1>4. CASE ins.op = "StHLR"
  <2>1. /\ stores = ByPair(g, "HL", g.r[ins.r])
        /\ writes = <<Write(PairIn(c, "HL"), c.r[ins.r])>>
    BY <1>4 DEF StoresOf, Writes, stores, writes
  <2>2. ins.r \in RegNames
    BY <1>4 DEF WellFormed
  <2> QED  BY <1>0, <2>1, <2>2, OneWrite, PairStoreMatches
<1>5. CASE ins.op = "StPA"
  <2>1. /\ stores = ByPair(g, ins.p, g.r["A"])
        /\ writes = <<Write(PairIn(c, ins.p), c.r["A"])>>
    BY <1>5 DEF StoresOf, Writes, stores, writes
  <2>2. ins.p \in PairNames
    BY <1>5 DEF WellFormed
  <2> QED  BY <1>0, <2>1, <2>2, OneWrite, PairStoreMatches
<1>6. CASE ins.op \notin Storing
  <2>1. stores = <<>> /\ writes = <<>>
    BY <1>6 DEF StoresOf, Writes, Storing, stores, writes
  <2> QED  BY <2>1 DEF AreWrites
<1> QED  BY <1>1, <1>2, <1>3, <1>4, <1>5, <1>6 DEF Storing

(* The pages after none, one or two writes.                                *)
LEMMA RepagedIs ==
  ASSUME NEW banks, NEW q, AreWrites(q)
  PROVE  /\ Len(q) = 0 => Repaged(banks, q) = banks
         /\ Len(q) = 1 => Repaged(banks, q) = Paged(banks, q[1])
         /\ Len(q) = 2 => Repaged(banks, q) = Paged(Paged(banks, q[1]), q[2])
<1>1. Len(q) \in Nat
  BY DEF AreWrites
<1>2. PICK g : /\ g[0] = banks
               /\ \A k \in 0..Len(q) - 1 : g[k + 1] = Paged(g[k], q[k + 1])
               /\ Repaged(banks, q) = g[Len(q)]
  BY <1>1, RepagedSteps
<1>3. ASSUME Len(q) = 1
      PROVE  Repaged(banks, q) = Paged(banks, q[1])
  <2>1. 0 \in 0..Len(q) - 1 /\ 0 + 1 = 1
    BY <1>3
  <2> QED  BY <1>2, <1>3, <2>1
<1>4. ASSUME Len(q) = 2
      PROVE  Repaged(banks, q) = Paged(Paged(banks, q[1]), q[2])
  <2>1. 0 \in 0..Len(q) - 1 /\ 1 \in 0..Len(q) - 1 /\ 0 + 1 = 1 /\ 1 + 1 = 2
    BY <1>4
  <2> QED  BY <1>2, <1>4, <2>1
<1> QED  BY <1>2, <1>3, <1>4

(* Memory after one write.                                                 *)
Put(mem, w) == [a \in DOMAIN mem |-> IF a = w.at THEN w.v ELSE mem[a]]

(* Memory after none, one or two writes.                                   *)
LEMMA WrittenIs ==
  ASSUME NEW D, NEW mem \in [D -> Int], NEW q, AreWrites(q)
  PROVE  /\ Written(mem, q) \in [D -> Int]
         /\ Len(q) = 0 => Written(mem, q) = mem
         /\ Len(q) = 1 => Written(mem, q) = Put(mem, q[1])
         /\ Len(q) = 2 => Written(mem, q) = Put(Put(mem, q[1]), q[2])
<1>1. Written(mem, q) \in [D -> Int]
  <2>1. ASSUME NEW a, \E i \in DOMAIN q : q[i].at = a
        PROVE  q[CHOOSE i \in DOMAIN q : q[i].at = a].v \in Int
    <3>1. (CHOOSE i \in DOMAIN q : q[i].at = a) \in 1..Len(q)
      BY <2>1 DEF AreWrites
    <3> QED  BY <3>1 DEF AreWrites
  <2> QED  BY <2>1 DEF Written
<1>2. CASE Len(q) = 0
  <2>1. DOMAIN q = {}
    BY <1>2 DEF AreWrites
  <2>2. Written(mem, q) = mem
    BY <2>1 DEF Written
  <2> QED  BY <1>1, <1>2, <2>2
<1>3. CASE Len(q) = 1
  <2>1. DOMAIN q = {1}
    BY <1>3 DEF AreWrites
  <2>2. \A a : (\E i \in DOMAIN q : q[i].at = a) <=> q[1].at = a
    BY <2>1
  <2>3. \A a : q[1].at = a => (CHOOSE i \in DOMAIN q : q[i].at = a) = 1
    BY <2>1
  <2>4. Written(mem, q) = Put(mem, q[1])
    BY <2>2, <2>3 DEF Written, Put
  <2> QED  BY <1>1, <1>3, <2>4
<1>4. CASE Len(q) = 2
  <2>1. DOMAIN q = {1, 2} /\ q[1].at # q[2].at
    BY <1>4 DEF AreWrites
  <2>2. \A a : (\E i \in DOMAIN q : q[i].at = a) <=> q[1].at = a \/ q[2].at = a
    BY <2>1
  <2>3. /\ \A a : q[1].at = a => (CHOOSE i \in DOMAIN q : q[i].at = a) = 1
        /\ \A a : q[2].at = a => (CHOOSE i \in DOMAIN q : q[i].at = a) = 2
    BY <2>1
  <2>4. Written(mem, q) = Put(Put(mem, q[1]), q[2])
    BY <2>1, <2>2, <2>3 DEF Written, Put
  <2> QED  BY <1>1, <1>4, <2>4
<1> QED  BY <1>2, <1>3, <1>4 DEF AreWrites

(* A store switches the page the program's does, to the same bank.         *)
LEMMA OneSwitch ==
  ASSUME Ground, NEW x, IsWalk(x), NEW st, IsStore(st), IsKnown(st),
         NEW w, w.v \in Int, Told(st, w, x.entry)
  PROVE  BanksAfter(x, st) = Paged(x.banks, w)
<1> DEFINE p == SwitchPage(st.at)
<1>1. st.at = w.at /\ Agree(Value(st.v, st.src), w.v, x.entry)
  BY DEF Told
<1>2. CASE p >= 0
  <2>1. p \in DOMAIN Pages
    BY <1>2, SwitchIs DEF IsStore
  <2>2. SwitchTo(x, st) = Mask(w.v)
    <3>1. CASE st.v # Unknown
      <4>1. st.v = w.v
        BY <1>1, <3>1 DEF Agree, Value
      <4> QED  BY <3>1, <4>1 DEF SwitchTo
    <3>2. CASE st.v = Unknown
      <4>1. st.src \in DOMAIN shadowMap /\ shadowMap[st.src] = p
        BY <1>2, <3>2 DEF IsKnown, Restores
      <4>2. w.v = x.entry[p]
        BY <1>1, <3>2, <4>1 DEF Agree, Value
      <4>3. x.entry[p] \in 0..NBanks - 1
        BY <2>1 DEF IsWalk, Pagings
      <4> QED  BY <3>2, <4>2, <4>3, BanksAre DEF SwitchTo
    <3> QED  BY <3>1, <3>2
  <2> QED  BY <1>1, <1>2, <2>2 DEF BanksAfter, Paged
<1>3. CASE ~(p >= 0)
  BY <1>1, <1>3 DEF BanksAfter, Paged
<1> QED  BY <1>2, <1>3

(* What the tracer takes a shadow to hold, it holds.                       *)
LEMMA OneShadow ==
  ASSUME Ground, NEW x, IsWalk(x), NEW st, IsStore(st),
         st.at \in DOMAIN shadowMap => st.v \in 0..NBanks - 1,
         NEW w, w.v \in Int, Told(st, w, x.entry),
         NEW mem, mem \in [DOMAIN shadowMap -> Int], MemoryAgrees(x.shadows, mem, x.entry)
  PROVE  /\ Put(mem, w) \in [DOMAIN shadowMap -> Int]
         /\ MemoryAgrees(ShadowsAfter(x, st), Put(mem, w), x.entry)
<1>1. st.at = w.at /\ Agree(Value(st.v, st.src), w.v, x.entry)
  BY DEF Told
<1>2. DOMAIN x.shadows = DOMAIN shadowMap
  BY DEF IsWalk, Shadows
<1>3. Put(mem, w) \in [DOMAIN shadowMap -> Int]
  BY DEF Put
<1>4. CASE st.at \in DOMAIN shadowMap
  <2>1. SwitchPage(st.at) < 0
    BY <1>4 DEF Ground, IsShadow
  <2>2. st.v \in 0..NBanks - 1 /\ st.v # Unknown
    BY <1>4 DEF Unknown
  <2>3. st.v = w.v /\ Masked(st.v) = w.v /\ w.v # Unknown
    BY <1>1, <2>2, BanksAre DEF Agree, Value, Masked
  <2>4. ShadowsAfter(x, st) = [x.shadows EXCEPT ![w.at] = w.v]
    BY <1>1, <1>4, <2>1, <2>3 DEF ShadowsAfter
  <2> QED  BY <1>1, <1>2, <1>3, <1>4, <2>3, <2>4 DEF MemoryAgrees, Put, Agree, Value
<1>5. CASE st.at \notin DOMAIN shadowMap
  <2>1. ShadowsAfter(x, st) = x.shadows
    BY <1>5 DEF ShadowsAfter
  <2>2. \A a \in DOMAIN shadowMap : Put(mem, w)[a] = mem[a]
    BY <1>1, <1>5 DEF Put
  <2> QED  BY <1>3, <2>1, <2>2 DEF MemoryAgrees
<1> QED  BY <1>4, <1>5

(* applyStores: the walk goes on in the program's banks and shadows.       *)
LEMMA StoredMatches ==
  ASSUME Ground, NEW x, IsWalk(x), NEW stores, AreStores(stores), NEW writes, AreWrites(writes),
         AreTold(stores, writes, x.entry), ~Stored(x, stores).stop,
         \A i \in 1..Len(stores) : stores[i].at \in DOMAIN shadowMap => stores[i].v \in 0..NBanks - 1,
         NEW mem, mem \in [DOMAIN shadowMap -> Int], MemoryAgrees(x.shadows, mem, x.entry)
  PROVE  /\ Stored(x, stores).banks = Repaged(x.banks, writes)
         /\ Written(mem, writes) \in [DOMAIN shadowMap -> Int]
         /\ MemoryAgrees(Stored(x, stores).shadows, Written(mem, writes), x.entry)
<1>1. Written(mem, writes) \in [DOMAIN shadowMap -> Int]
  BY WrittenIs
<1>2. CASE Len(stores) = 0
  <2>1. Stored(x, stores) = x /\ Repaged(x.banks, writes) = x.banks /\ Written(mem, writes) = mem
    BY <1>2, StoredIs, RepagedIs, WrittenIs DEF AreTold
  <2> QED  BY <1>1, <2>1
<1>3. CASE Len(stores) = 1
  <2> DEFINE st == stores[1]
             w == writes[1]
             d == ApplyStore(x, st)
  <2>1. /\ Stored(x, stores) = d /\ Repaged(x.banks, writes) = Paged(x.banks, w)
        /\ Written(mem, writes) = Put(mem, w)
    <3>1. Len(writes) = 1
      BY <1>3 DEF AreTold
    <3>2. Stored(x, stores) = ApplyStore(x, stores[1])
      BY <1>3, StoredIs
    <3>3. Repaged(x.banks, writes) = Paged(x.banks, writes[1])
      BY <3>1, RepagedIs
    <3>4. Written(mem, writes) = Put(mem, writes[1])
      BY <3>1, WrittenIs
    <3> QED  BY <3>2, <3>3, <3>4
  <2>2. /\ IsStore(st) /\ w.v \in Int /\ Told(st, w, x.entry)
        /\ st.at \in DOMAIN shadowMap => st.v \in 0..NBanks - 1
    BY <1>3 DEF AreStores, AreWrites, AreTold
  <2>3. ~d.stop
    BY <2>1
  <2> HIDE DEF st, w
  <2>4. d.banks = BanksAfter(x, st) /\ d.shadows = ShadowsAfter(x, st) /\ IsKnown(st)
    BY <2>2, <2>3, ApplyStoreIs
  <2>5. BanksAfter(x, st) = Paged(x.banks, w)
    BY <2>2, <2>4, OneSwitch
  <2>6. MemoryAgrees(ShadowsAfter(x, st), Put(mem, w), x.entry)
    BY <2>2, OneShadow
  <2> QED  BY <1>1, <2>1, <2>4, <2>5, <2>6
<1>4. CASE Len(stores) = 2
  <2> DEFINE st == stores[1]
             su == stores[2]
             v == writes[1]
             w == writes[2]
             c == ApplyStore(x, st)
             d == ApplyStore(c, su)
  <2>1. /\ Stored(x, stores) = d /\ Repaged(x.banks, writes) = Paged(Paged(x.banks, v), w)
        /\ Written(mem, writes) = Put(Put(mem, v), w)
    <3>1. Len(writes) = 2
      BY <1>4 DEF AreTold
    <3>2. Stored(x, stores) = ApplyStore(ApplyStore(x, stores[1]), stores[2])
      BY <1>4, StoredIs
    <3>3. Repaged(x.banks, writes) = Paged(Paged(x.banks, writes[1]), writes[2])
      BY <3>1, RepagedIs
    <3>4. Written(mem, writes) = Put(Put(mem, writes[1]), writes[2])
      BY <3>1, WrittenIs
    <3> QED  BY <3>2, <3>3, <3>4
  <2>2. /\ IsStore(st) /\ v.v \in Int /\ Told(st, v, x.entry)
        /\ st.at \in DOMAIN shadowMap => st.v \in 0..NBanks - 1
        /\ IsStore(su) /\ w.v \in Int /\ Told(su, w, x.entry)
        /\ su.at \in DOMAIN shadowMap => su.v \in 0..NBanks - 1
    BY <1>4 DEF AreStores, AreWrites, AreTold
  <2>3. ~d.stop
    BY <2>1
  <2> HIDE DEF st, su, v, w
  <2>4. IsWalk(c) /\ c.entry = x.entry
    BY <2>2, ApplyStoreIs
  <2> HIDE DEF c
  <2>5. (c.stop => d.stop) /\ d.entry = c.entry
    BY <2>2, <2>4, ApplyStoreIs
  <2>6. d.banks = BanksAfter(c, su) /\ d.shadows = ShadowsAfter(c, su) /\ IsKnown(su)
    BY <2>2, <2>3, <2>4, ApplyStoreIs
  <2>7. c.banks = BanksAfter(x, st) /\ c.shadows = ShadowsAfter(x, st) /\ IsKnown(st)
    BY <2>2, <2>3, <2>5, ApplyStoreIs DEF c
  <2>8. BanksAfter(x, st) = Paged(x.banks, v) /\ BanksAfter(c, su) = Paged(c.banks, w)
    BY <2>2, <2>4, <2>6, <2>7, OneSwitch
  <2>9. Put(mem, v) \in [DOMAIN shadowMap -> Int] /\ MemoryAgrees(c.shadows, Put(mem, v), c.entry)
    BY <2>2, <2>4, <2>7, OneShadow
  <2>10. MemoryAgrees(ShadowsAfter(c, su), Put(Put(mem, v), w), c.entry)
    BY <2>2, <2>4, <2>9, OneShadow
  <2> QED  BY <1>1, <2>1, <2>4, <2>6, <2>7, <2>8, <2>10
<1> QED  BY <1>2, <1>3, <1>4 DEF AreStores

(* Stores the walk knows nothing of have been to no register and no shadow.*)
LEMMA Elsewhere ==
  ASSUME NEW writes, AreWrites(writes), NEW mem, mem \in [DOMAIN shadowMap -> Int], NEW banks,
         \A i \in DOMAIN writes : writes[i].at \notin DOMAIN shadowMap /\ SwitchPage(writes[i].at) = -1
  PROVE  Repaged(banks, writes) = banks /\ Written(mem, writes) = mem
<1>1. Written(mem, writes) = mem
  BY DEF Written
<1>2. \A i \in 1..Len(writes) : Paged(banks, writes[i]) = banks
  BY DEF Paged, AreWrites
<1>3. CASE Len(writes) = 0
  BY <1>1, <1>3, RepagedIs
<1>4. CASE Len(writes) = 1
  BY <1>1, <1>2, <1>4, RepagedIs
<1>5. CASE Len(writes) = 2
  BY <1>1, <1>2, <1>5, RepagedIs
<1> QED  BY <1>3, <1>4, <1>5 DEF AreWrites

(* The record of the program.                                              *)
Shaped(c) ==
  /\ c = [r |-> c.r, stack |-> c.stack, mem |-> c.mem, banks |-> c.banks,
          junk |-> c.junk, keeps |-> c.keeps]
  /\ c.keeps \in BOOLEAN
(* The program at a walk that has been what the tracer takes it to be.     *)
Alike(h, c) ==
  /\ Matching(h.regs.r, c.r, h.entry)
  /\ StackAgrees(h.regs.stk, c.stack, h.entry)
  /\ MemoryAgrees(h.shadows, c.mem, h.entry)
  /\ c.banks = h.banks
(* The program has been what the tracer takes it to be, and then the walk  *)
(* is right about it; or it has not.                                       *)
Besides(h, c) == Shaped(c) /\ (c.keeps => Frame(c) /\ Alike(h, c))

(* The program after an instruction, field by field.                       *)
LEMMA RanIs ==
  ASSUME NEW c, Shaped(c), NEW w, NEW ins
  PROVE  LET d == Ran(c, w, ins) IN
         /\ d.r = RegsThen(c, ins) /\ d.stack = StackThen(c, ins)
         /\ d.mem = Written(c.mem, Writes(c, ins)) /\ d.banks = Repaged(c.banks, Writes(c, ins))
         /\ d.junk = c.junk /\ d.keeps = (c.keeps /\ Keeps(StoresOf(w.regs, ins), Writes(c, ins), ins))
         /\ Shaped(d)
<1> DEFINE r == RegsThen(c, ins)
           stack == StackThen(c, ins)
           mem == Written(c.mem, Writes(c, ins))
           banks == Repaged(c.banks, Writes(c, ins))
           keeps == Keeps(StoresOf(w.regs, ins), Writes(c, ins), ins)
           kept == c.keeps /\ keeps
           d == Ran(c, w, ins)
<1>1. keeps \in BOOLEAN
  BY DEF Keeps
<1>2. Exec(c, ins) = [c EXCEPT !.r = r, !.stack = stack, !.mem = mem]
  BY DEF Exec
<1> DEFINE x == Exec(c, ins)
<1>3. d = [x EXCEPT !.banks = Repaged(x.banks, Writes(c, ins)), !.keeps = x.keeps /\ keeps]
  BY DEF Ran
<1> HIDE DEF r, stack, mem, keeps, d
<1>4. x = [r |-> r, stack |-> stack, mem |-> mem, banks |-> c.banks,
           junk |-> c.junk, keeps |-> c.keeps]
  BY <1>2 DEF Shaped
<1> HIDE DEF x
<1>5. d = [r |-> r, stack |-> stack, mem |-> mem, banks |-> banks, junk |-> c.junk,
           keeps |-> kept]
  <2>1. x.banks = c.banks /\ x.keeps = c.keeps
    BY <1>4
  <2>2. (x.keeps /\ keeps) = kept /\ Repaged(x.banks, Writes(c, ins)) = banks
    BY <2>1
  <2> HIDE DEF kept, banks
  <2>3. d = [x EXCEPT !.banks = banks, !.keeps = kept]
    BY <1>3, <2>2
  <2> QED  BY <1>4, <2>3
<1> HIDE DEF banks
<1>6. kept \in BOOLEAN
  OBVIOUS
<1> HIDE DEF kept
<1>7. /\ d.r = r /\ d.stack = stack /\ d.mem = mem /\ d.banks = banks /\ d.junk = c.junk
      /\ d.keeps = kept
  BY <1>5
<1>8. Shaped(d)
  BY <1>5, <1>6, <1>7 DEF Shaped
<1> QED  BY <1>7, <1>8 DEF r, stack, mem, banks, keeps, kept, d

(* An instruction walked beside the program.                               *)
LEMMA RanBesides ==
  ASSUME Ground, IsSearch(t), NEW w \in Places, Offset(w.banks, w.addr) # -1,
         NEW ins, WellFormed(ins), NEW c, Besides(w, c), NEW h, ~Landed(w, ins).stop,
         h.banks = Landed(w, ins).banks, h.shadows = Landed(w, ins).shadows,
         h.regs = Landed(w, ins).regs, h.entry = Landed(w, ins).entry
  PROVE  Besides(h, Ran(c, w, ins))
<1> DEFINE d == Ran(c, w, ins)
           g == w.regs
           stores == StoresOf(w.regs, ins)
           writes == Writes(c, ins)
           x == CarriedOf(w, ins)
           e == w.entry
<1>1. /\ d.r = RegsThen(c, ins) /\ d.stack = StackThen(c, ins)
      /\ d.mem = Written(c.mem, writes) /\ d.banks = Repaged(c.banks, writes)
      /\ d.junk = c.junk /\ d.keeps = (c.keeps /\ Keeps(stores, writes, ins))
      /\ Shaped(d)
  BY RanIs DEF Besides
<1>2. g \in Regs /\ w.shadows \in Shadows
  BY DEF Places
<1>3. /\ IsWalk(x) /\ x.entry = e /\ x.banks = w.banks /\ x.shadows = w.shadows
  BY CarriedIs
<1>4. /\ h.entry = e /\ h.regs = RegsAfter(g, ins, w.shadows)
      /\ h.banks = Stored(x, stores).banks /\ h.shadows = Stored(x, stores).shadows
      /\ ~Stored(x, stores).stop
  BY LandedIs
<1> HIDE DEF d, g, stores, writes, x, e
<1>5. ASSUME d.keeps
      PROVE  Frame(d) /\ Alike(h, d)
  <2>1. c.keeps /\ Keeps(stores, writes, ins)
    BY <1>1, <1>5
  <2>2. Frame(c) /\ Alike(w, c)
    BY <2>1 DEF Besides
  <2>3. /\ Matching(g.r, c.r, e) /\ StackAgrees(g.stk, c.stack, e)
        /\ MemoryAgrees(w.shadows, c.mem, e) /\ c.banks = w.banks
    BY <2>2 DEF Alike, g, e
  <2>4. ins.op = "LdRIndex" => ins.r = "A"
    BY <2>1 DEF Keeps
  <2>5. RegsThen(c, ins) \in RegFile /\ Matching(h.regs.r, d.r, e)
    BY <1>1, <1>2, <1>4, <2>2, <2>3, <2>4, RegsMatch
  <2>6. StackThen(c, ins) \in Seq(Pairs) /\ StackAgrees(h.regs.stk, d.stack, e)
    BY <1>1, <1>2, <1>4, <2>2, <2>3, StackMatches
  <2>7. AreStores(stores)
    BY <1>2, StoresAre DEF stores, g
  <2>8. AreWrites(writes) /\ (stores # <<>> => AreTold(stores, writes, e))
    BY <1>2, <2>2, <2>3, StoresMatch DEF stores, g, writes
  <2>9. c.mem \in [DOMAIN shadowMap -> Int]
    BY <2>2 DEF Frame
  <2>10. /\ h.banks = d.banks /\ d.mem \in [DOMAIN shadowMap -> Int]
         /\ MemoryAgrees(h.shadows, d.mem, e)
    <3>1. CASE stores = <<>>
      <4>1. \A i \in DOMAIN writes : /\ writes[i].at \notin DOMAIN shadowMap
                                     /\ SwitchPage(writes[i].at) = -1
        BY <2>1, <3>1 DEF Keeps
      <4>2. d.banks = c.banks /\ d.mem = c.mem
        BY <1>1, <2>8, <2>9, <4>1, Elsewhere
      <4>3. Stored(x, stores) = x
        BY <2>7, <3>1, StoredIs
      <4> QED  BY <1>3, <1>4, <2>3, <2>9, <4>2, <4>3
    <3>2. CASE stores # <<>>
      <4>1. \A i \in 1..Len(stores) : stores[i].at \in DOMAIN shadowMap => stores[i].v \in 0..NBanks - 1
        BY <2>1, <2>7 DEF Keeps, AreStores
      <4>2. AreTold(stores, writes, x.entry) /\ MemoryAgrees(x.shadows, c.mem, x.entry)
        BY <1>3, <2>3, <2>8, <3>2
      <4>3. /\ Stored(x, stores).banks = Repaged(x.banks, writes)
            /\ Written(c.mem, writes) \in [DOMAIN shadowMap -> Int]
            /\ MemoryAgrees(Stored(x, stores).shadows, Written(c.mem, writes), x.entry)
        BY <1>3, <1>4, <2>7, <2>8, <2>9, <4>1, <4>2, StoredMatches
      <4> QED  BY <1>1, <1>3, <1>4, <2>3, <4>3
    <3> QED  BY <3>1, <3>2
  <2>11. Frame(d)
    BY <1>1, <2>2, <2>5, <2>6, <2>10 DEF Frame, Shaped
  <2>12. Alike(h, d)
    BY <1>4, <2>5, <2>6, <2>10 DEF Alike
  <2> QED  BY <2>11, <2>12
<1>6. Besides(h, d)
  BY <1>1, <1>5 DEF Besides
<1> QED  BY <1>6 DEF d

(* What the program holds of a value that the walk takes up.               *)
Holding(w, x, junk) ==
  CASE x.v # Unknown -> x.v
    [] x.v = Unknown /\ x.src \in DOMAIN shadowMap -> w.banks[shadowMap[x.src]]
    [] OTHER -> junk

LEMMA HoldingIs ==
  ASSUME Ground, NEW w \in Works, NEW junk \in Int, NEW x, x.v \in Int
  PROVE  Holding(w, x, junk) \in Int /\ Agree(x, Holding(w, x, junk), w.banks)
<1>1. CASE x.v # Unknown
  BY <1>1 DEF Holding, Agree
<1>2. CASE x.v = Unknown /\ x.src \in DOMAIN shadowMap
  <2>1. shadowMap[x.src] \in DOMAIN Pages
    BY <1>2, MapperAssumption DEF Ground, IsShadow
  <2>2. w.banks[shadowMap[x.src]] \in 0..NBanks - 1
    BY <2>1 DEF Works, Pagings
  <2>3. Holding(w, x, junk) = w.banks[shadowMap[x.src]]
    BY <1>2 DEF Holding
  <2> QED  BY <1>2, <2>2, <2>3, BanksAre DEF Agree
<1>3. CASE x.v = Unknown /\ x.src \notin DOMAIN shadowMap
  <2>1. Holding(w, x, junk) = junk
    BY <1>3 DEF Holding
  <2> QED  BY <1>3, <2>1 DEF Agree
<1> QED  BY <1>1, <1>2, <1>3

(* The program that the walk takes up holds what the walk takes it to.     *)
LEMMA BesideIs ==
  ASSUME Ground, NEW w \in Works, NEW junk \in Int, NEW h, h.regs = w.regs,
         h.shadows = w.shadows, h.banks = w.banks, h.entry = w.banks
  PROVE  Besides(h, Beside(w, junk))
<1> DEFINE c == Beside(w, junk)
           e == w.banks
           stk == w.regs.stk
           r == [k \in RegNames |-> Holding(w, w.regs.r[k], junk)]
           stack == [i \in DOMAIN stk |-> <<Holding(w, stk[i][1], junk), Holding(w, stk[i][2], junk)>>]
           mem == [a \in DOMAIN shadowMap |-> Holding(w, Value(w.shadows[a], a), junk)]
<1>1. c = [r |-> r, stack |-> stack, mem |-> mem, banks |-> w.banks, junk |-> junk, keeps |-> TRUE]
  BY DEF Beside, Holding
<1>2. w.regs \in Regs /\ w.shadows \in Shadows
  BY DEF Works
<1>3. r \in RegFile /\ Matching(w.regs.r, r, e)
  <2>1. \A k \in RegNames : w.regs.r[k] \in Values
    BY <1>2 DEF Regs
  <2> QED  BY <2>1, HoldingIs DEF RegFile, Matching, Values
<1>4. stack \in Seq(Pairs) /\ StackAgrees(stk, stack, e)
  <2>1. stk \in Seq(Entry) /\ Len(stk) \in Nat /\ DOMAIN stk = 1..Len(stk)
    BY <1>2, LenProperties DEF Regs
  <2>2. \A i \in 1..Len(stk) : stk[i] \in Entry
    BY <2>1, ElementOfSeq
  <2>3. \A i \in 1..Len(stk) : stk[i][1] \in Values /\ stk[i][2] \in Values
    BY <2>2 DEF Entry
  <2>4. \A i \in 1..Len(stk) : stack[i] \in Pairs
    BY <2>1, <2>3, HoldingIs DEF Pairs, Values
  <2>5. /\ \A i \in 1..Len(stk) : Agree(stk[i][1], stack[i][1], e) /\ Agree(stk[i][2], stack[i][2], e)
    BY <2>1, <2>3, HoldingIs DEF Values
  <2>6. stack \in [1..Len(stk) -> Pairs]
    BY <2>1, <2>4
  <2>7. stack \in Seq(Pairs) /\ Len(stack) = Len(stk)
    BY <2>1, <2>6
  <2> HIDE DEF stack, stk, e
  <2>8. ASSUME NEW i \in 0..Len(stk) - 1
        PROVE  /\ Agree(stk[Len(stk) - i][1], stack[Len(stack) - i][1], e)
               /\ Agree(stk[Len(stk) - i][2], stack[Len(stack) - i][2], e)
    <3> DEFINE j == Len(stk) - i
    <3>1. j \in 1..Len(stk) /\ Len(stack) - i = j
      BY <2>1, <2>7
    <3> HIDE DEF j
    <3>2. Agree(stk[j][1], stack[j][1], e) /\ Agree(stk[j][2], stack[j][2], e)
      BY <2>5, <3>1
    <3> QED  BY <3>1, <3>2 DEF j
  <2>9. Len(stk) <= Len(stack)
    BY <2>1, <2>7
  <2> QED  BY <2>7, <2>8, <2>9 DEF StackAgrees
<1>5. mem \in [DOMAIN shadowMap -> Int] /\ MemoryAgrees(w.shadows, mem, e)
  <2>1. \A a \in DOMAIN shadowMap : Value(w.shadows[a], a).v \in Int
    BY <1>2, ShadowsAre DEF Value, Shadows
  <2> QED  BY <2>1, HoldingIs DEF MemoryAgrees
<1> HIDE DEF c, r, stack, mem, stk, e
<1>6. /\ c.r = r /\ c.stack = stack /\ c.mem = mem /\ c.banks = w.banks /\ c.junk = junk
      /\ c.keeps = TRUE
      /\ c = [r |-> c.r, stack |-> c.stack, mem |-> c.mem, banks |-> c.banks,
              junk |-> c.junk, keeps |-> c.keeps]
  BY <1>1
<1>7. Frame(c)
  BY <1>3, <1>4, <1>5, <1>6 DEF Frame
<1>8. Alike(h, c)
  BY <1>3, <1>4, <1>5, <1>6 DEF Alike, stk, e
<1>9. Besides(h, c)
  BY <1>6, <1>7, <1>8 DEF Besides, Shaped
<1> QED  BY <1>9 DEF c

-----------------------------------------------------------------------------
(* Every action keeps the program beside the walk.                         *)

(* The inductive invariant of the walk and the program.                    *)
WalkInv == SearchInv /\ (here # Nowhere => Besides(here, cpu))

(* The same at the next state.                                             *)
LEMMA BesidesNext ==
  ASSUME shadowMap' = shadowMap, Besides(here', cpu')
  PROVE  Besides(here, cpu)'
BY DEF Besides, Shaped, Frame, Alike, Matching, StackAgrees, MemoryAgrees, Agree

(* A walk is taken up with the program as the walk has it.                 *)
LEMMA TakeBesides ==
  ASSUME SearchInv, NEW junk \in Junk, Take(junk)
  PROVE  Besides(here, cpu)'
<1> DEFINE w == t.queue[Len(t.queue)]
<1>1. IsSearch(t) /\ Ground /\ t.queue # <<>> /\ shadowMap' = shadowMap
  BY DEF SearchInv, Take
<1>2. w \in Works
  <2>1. t.queue \in Seq(Works)
    BY <1>1 DEF IsSearch, QueueTyped
  <2>2. Len(t.queue) \in 1..Len(t.queue)
    BY <1>1, <2>1, EmptySeq, LenProperties
  <2> QED  BY <2>1, <2>2, ElementOfSeq
<1>3. /\ here' = [addr |-> w.addr, banks |-> w.banks, shadows |-> w.shadows,
                  regs |-> w.regs, entry |-> w.banks]
      /\ cpu' = Beside(w, junk)
  BY DEF Take
<1>4. junk \in Int
  BY MapperAssumption
<1> HIDE DEF w
<1>5. PICK h : h = [addr |-> w.addr, banks |-> w.banks, shadows |-> w.shadows,
                    regs |-> w.regs, entry |-> w.banks]
  OBVIOUS
<1>6. h.regs = w.regs /\ h.shadows = w.shadows /\ h.banks = w.banks /\ h.entry = w.banks
  BY <1>5
<1>7. Besides(h, Beside(w, junk))
  BY <1>1, <1>2, <1>4, <1>6, BesideIs
<1>8. Besides(here', cpu')
  BY <1>3, <1>5, <1>7
<1> QED  BY <1>1, <1>8, BesidesNext

(* A turn of walk and the instruction it decodes keep together.            *)
LEMMA WalkBesides ==
  ASSUME WalkInv, Walk, here' # Nowhere
  PROVE  Besides(here, cpu)'
<1> DEFINE ins == Cell(here.banks, here.addr)
           res == Walked(here, ins)
<1>1. /\ here' = res.here /\ ~Known /\ Walking /\ shadowMap' = shadowMap
      /\ (res.here # Nowhere => cpu' = Ran(cpu, here, ins))
  BY DEF Walk
<1>2. IsSearch(t) /\ here \in Places /\ Ground /\ Besides(here, cpu)
  BY <1>1, WalkingIs DEF WalkInv, Walking
<1>3. Offset(here.banks, here.addr) # -1
  BY <1>1 DEF Known, Refused
<1>4. WellFormed(ins)
  BY <1>2, <1>3, CellIs DEF Places
<1> HIDE DEF ins
<1>5. Onward(Landed(here, ins), res)
  BY <1>2, <1>3, <1>4, WalkedIs
<1> HIDE DEF res
<1>6. /\ ~Landed(here, ins).stop
      /\ res.here.banks = Landed(here, ins).banks /\ res.here.shadows = Landed(here, ins).shadows
      /\ res.here.regs = Landed(here, ins).regs /\ res.here.entry = Landed(here, ins).entry
  BY <1>1, <1>5, LandedIs, <1>2, <1>3, <1>4 DEF Onward
<1>7. Besides(res.here, Ran(cpu, here, ins))
  BY <1>2, <1>3, <1>4, <1>6, RanBesides
<1>8. Besides(here', cpu')
  BY <1>1, <1>7
<1> QED  BY <1>1, <1>8, BesidesNext

(* Every step of the tool keeps the program beside the walk (walk, Step    *)
(* and applyStores).                                                       *)
THEOREM WalksStay == WalkInv /\ [Next]_vars => WalkInv'
<1> SUFFICES ASSUME WalkInv, [Next]_vars, here' # Nowhere
             PROVE  Besides(here, cpu)'
  BY SearchStays DEF WalkInv
<1>1. ASSUME NEW junk \in Junk, Take(junk)
      PROVE  Besides(here, cpu)'
  BY <1>1, TakeBesides DEF WalkInv
<1>2. CASE Overflow \/ Arrive \/ StopAtPadding
  BY <1>2 DEF Overflow, Arrive, StopAtPadding, Ends
<1>3. CASE Walk
  BY <1>3, WalkBesides
<1>4. ASSUME Decide \/ Settle \/ Restart \/ Converge \/ (\E site \in Reports : Discover(site))
      PROVE  FALSE
  <2>1. phase # "run" \/ here = Nowhere
    BY <1>4 DEF Decide, Settle, Restart, Converge, Discover
  <2>2. here' = here
    BY <1>4 DEF Decide, Settle, Restart, Converge, Discover
  <2> QED  BY <2>1, <2>2 DEF WalkInv, SearchInv
<1>5. CASE UNCHANGED vars
  <2>1. here' = here /\ cpu' = cpu /\ shadowMap' = shadowMap
    BY <1>5 DEF vars
  <2>2. Besides(here', cpu')
    BY <2>1 DEF WalkInv
  <2> QED  BY <2>1, <2>2, BesidesNext
<1> QED  BY <1>1, <1>2, <1>3, <1>4, <1>5 DEF Next

(* Whatever the program held where the tracer knew nothing, on every walk  *)
(* the registers the tracer gives a value have that value, and the paging  *)
(* it decodes under is the one the program has made (regs.go:11,           *)
(* applyStores in banks.go); every state queued is of the image and every  *)
(* paging one of the mapper's.                                             *)
THEOREM WalksAreSoundAlways == Spec => []WalksAreSound
<1>1. Init => WalkInv
  BY InitSearch DEF WalkInv, Init
<1>2. WalkInv => WalksAreSound
  <2> SUFFICES ASSUME WalkInv
               PROVE  TypeOK /\ NeverInvents
    BY DEF WalksAreSound
  <2>1. TypeOK
    BY DEF WalkInv, SearchInv, Searched, CodeTyped, Phases, Places, TypeOK
  <2>2. NeverInvents
    <3> SUFFICES ASSUME here # Nowhere, cpu.keeps
                 PROVE  /\ \A k \in RegNames : here.regs.r[k].v \in {Unknown, cpu.r[k]}
                        /\ here.banks = cpu.banks
      BY DEF NeverInvents
    <3>1. Alike(here, cpu)
      BY DEF WalkInv, Besides
    <3> QED  BY <3>1 DEF Alike, Matching, Agree
  <2> QED  BY <2>1, <2>2
<1> QED  BY <1>1, <1>2, WalksStay, PTL DEF Spec
=============================================================================
