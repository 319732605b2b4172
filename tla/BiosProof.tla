----------------------------- MODULE BiosProof -----------------------------
(***************************************************************************)
(* Proofs about Bios: every key is read as itself, and once; the chip is   *)
(* in the screen asked for after any sequence of entries, and the copies   *)
(* of its registers are what was last written.                             *)
(*                                                                         *)
(* KeysInv says how the host's keys, the matrix, the joystick port and the *)
(* last character given belong together.  ScreenInv says of ScreenIsKnown  *)
(* what the next step needs besides: the registers and the work area hold  *)
(* bytes, the tables are those of power on but for their names, which are  *)
(* where register 2 can say, and a chip that never was the later one has   *)
(* nothing in register 9.                                                  *)
(***************************************************************************)
EXTENDS Bios, WellFoundedInduction, SequenceTheorems, TLAPS

-----------------------------------------------------------------------------
(* The matrix.  Typed are the characters keyWaiting makes, KeyOf the key   *)
(* of each.                                                                *)
Typed == Letters \cup Digits \cup {13, 32}
KeyOf(c) ==
  CASE c \in Letters -> LetterKey(c) [] c \in Digits -> DigitKey(c)
    [] c = 32 -> KeySpace [] OTHER -> KeyReturn
LookedKeys == {Looked[i] : i \in DOMAIN Looked}

(* Where the scan of keyWaiting finds each key. *)
LEMMA LookedAt ==
  /\ DOMAIN Looked = 1..38
  /\ \A i \in 1..8 : Looked[i] = <<0, i - 1>>
  /\ Looked[9] = <<1, 0>> /\ Looked[10] = <<1, 1>>
  /\ Looked[11] = <<2, 6>> /\ Looked[12] = <<2, 7>>
  /\ \A i \in 13..36 : Looked[i] = <<3 + (i - 13) \div 8, (i - 13) % 8>>
  /\ Looked[37] = KeySpace /\ Looked[38] = KeyReturn
<1> DEFINE first == [i \in 1..8 |-> <<0, i - 1>>]
           second == <<<<1, 0>>, <<1, 1>>, <<2, 6>>, <<2, 7>>>>
           third == [i \in 1..24 |-> <<3 + (i - 1) \div 8, (i - 1) % 8>>]
           last == <<KeySpace, KeyReturn>>
           S == Int \X Int
<1>1. first \in Seq(S) /\ Len(first) = 8
  <2>1. \A i \in 1..8 : <<0, i - 1>> \in S
    OBVIOUS
  <2>2. first \in [1..8 -> S]
    BY <2>1
  <2> HIDE DEF first, S
  <2>3. first \in Seq(S)
    BY <2>2, SeqDef
  <2>4. Len(first) \in Nat /\ 1..Len(first) = 1..8
    BY <2>2, <2>3, LenProperties
  <2>5. 8 \in 1..Len(first)
    BY <2>4
  <2>6. Len(first) \in 1..Len(first)
    BY <2>4, <2>5
  <2>7. Len(first) \in 1..8
    BY <2>4, <2>6, Zenon
  <2>8. Len(first) = 8
    <3> DEFINE n == Len(first)
    <3>1. n \in Nat /\ 8 \in 1..n /\ n \in 1..8
      BY <2>4, <2>5, <2>7, Zenon
    <3> HIDE DEF n
    <3>2. n = 8
      BY <3>1
    <3>3. QED BY <3>2 DEF n
  <2>9. QED BY <2>3, <2>8
<1>2. second \in Seq(S) /\ Len(second) = 4
  OBVIOUS
<1>3. third \in Seq(S) /\ Len(third) = 24
  <2>1. \A i \in 1..24 : <<3 + (i - 1) \div 8, (i - 1) % 8>> \in S
    OBVIOUS
  <2>2. third \in [1..24 -> S]
    BY <2>1
  <2> HIDE DEF third, S
  <2>3. third \in Seq(S)
    BY <2>2, SeqDef
  <2>4. Len(third) \in Nat /\ 1..Len(third) = 1..24
    BY <2>2, <2>3, LenProperties
  <2>5. 24 \in 1..Len(third)
    BY <2>4
  <2>6. Len(third) \in 1..Len(third)
    BY <2>4, <2>5
  <2>7. Len(third) \in 1..24
    BY <2>4, <2>6, Zenon
  <2>8. Len(third) = 24
    <3> DEFINE n == Len(third)
    <3>1. n \in Nat /\ 24 \in 1..n /\ n \in 1..24
      BY <2>4, <2>5, <2>7, Zenon
    <3> HIDE DEF n
    <3>2. n = 24
      BY <3>1
    <3>3. QED BY <3>2 DEF n
  <2>9. QED BY <2>3, <2>8
<1>4. last \in Seq(S) /\ Len(last) = 2
  BY DEF KeySpace, KeyReturn
<1>5. /\ \A i \in 1..8 : first[i] = <<0, i - 1>>
      /\ second[1] = <<1, 0>> /\ second[2] = <<1, 1>>
      /\ second[3] = <<2, 6>> /\ second[4] = <<2, 7>>
      /\ \A i \in 1..24 : third[i] = <<3 + (i - 1) \div 8, (i - 1) % 8>>
      /\ last[1] = KeySpace /\ last[2] = KeyReturn
  OBVIOUS
<1>6. Looked = first \o second \o third \o last
  BY DEF Looked
<1> HIDE DEF first, second, third, last, S
<1>7. /\ first \o second \in Seq(S) /\ Len(first \o second) = 12
      /\ \A i \in 1..12 : (first \o second)[i] = IF i <= 8 THEN first[i] ELSE second[i - 8]
  <2>1. /\ first \o second \in Seq(S) /\ Len(first \o second) = Len(first) + Len(second)
        /\ \A i \in 1..Len(first) + Len(second) : (first \o second)[i] =
             IF i <= Len(first) THEN first[i] ELSE second[i - Len(first)]
    BY <1>1, <1>2, ConcatProperties
  <2>2. Len(first) + Len(second) = 12
    BY <1>1, <1>2
  <2>3. QED BY <2>1, <2>2, <1>1, <1>2
<1> DEFINE two == first \o second
<1> HIDE DEF two
<1>8. two \in Seq(S) /\ Len(two) = 12
  BY <1>7 DEF two
<1>9. /\ two \o third \in Seq(S) /\ Len(two \o third) = 36
      /\ \A i \in 1..36 : (two \o third)[i] = IF i <= 12 THEN two[i] ELSE third[i - 12]
  <2>1. /\ two \o third \in Seq(S) /\ Len(two \o third) = Len(two) + Len(third)
        /\ \A i \in 1..Len(two) + Len(third) : (two \o third)[i] =
             IF i <= Len(two) THEN two[i] ELSE third[i - Len(two)]
    BY <1>8, <1>3, ConcatProperties
  <2>2. Len(two) + Len(third) = 36
    BY <1>8, <1>3
  <2>3. QED BY <2>1, <2>2, <1>8, <1>3
<1> DEFINE three == two \o third
<1> HIDE DEF three
<1>10. three \in Seq(S) /\ Len(three) = 36
  BY <1>9 DEF three
<1>11. /\ three \o last \in Seq(S) /\ Len(three \o last) = 38
       /\ \A i \in 1..38 : (three \o last)[i] = IF i <= 36 THEN three[i] ELSE last[i - 36]
  <2>1. /\ three \o last \in Seq(S) /\ Len(three \o last) = Len(three) + Len(last)
        /\ \A i \in 1..Len(three) + Len(last) : (three \o last)[i] =
             IF i <= Len(three) THEN three[i] ELSE last[i - Len(three)]
    BY <1>10, <1>4, ConcatProperties, ZenonT(30)
  <2>2. Len(three) + Len(last) = 38
    BY <1>10, <1>4
  <2>3. QED BY <2>1, <2>2, <1>10, <1>4
<1>12. Looked = three \o last
  BY <1>6 DEF three, two
<1>13. DOMAIN Looked = 1..38
  BY <1>11, <1>12, LenProperties
<1>14. \A i \in 1..8 : Looked[i] = <<0, i - 1>>
  <2> SUFFICES ASSUME NEW i \in 1..8 PROVE Looked[i] = <<0, i - 1>>
    OBVIOUS
  <2>1. i \in 1..12 /\ i \in 1..36 /\ i \in 1..38 /\ i <= 8 /\ i <= 12 /\ i <= 36
    OBVIOUS
  <2>2. Looked[i] = three[i] /\ three[i] = two[i] /\ two[i] = first[i]
    BY <2>1, <1>7, <1>9, <1>11, <1>12 DEF three, two
  <2>3. QED BY <2>2, <1>5
<1>15. \A i \in 9..12 : Looked[i] = second[i - 8]
  <2> SUFFICES ASSUME NEW i \in 9..12 PROVE Looked[i] = second[i - 8]
    OBVIOUS
  <2>1. i \in 1..12 /\ i \in 1..36 /\ i \in 1..38 /\ ~(i <= 8) /\ i <= 12 /\ i <= 36
    OBVIOUS
  <2>2. Looked[i] = three[i] /\ three[i] = two[i] /\ two[i] = second[i - 8]
    BY <2>1, <1>7, <1>9, <1>11, <1>12 DEF three, two
  <2>3. QED BY <2>2
<1>16. \A i \in 13..36 : Looked[i] = <<3 + (i - 13) \div 8, (i - 13) % 8>>
  <2> SUFFICES ASSUME NEW i \in 13..36
               PROVE Looked[i] = <<3 + (i - 13) \div 8, (i - 13) % 8>>
    OBVIOUS
  <2>1. i \in 1..36 /\ i \in 1..38 /\ ~(i <= 12) /\ i <= 36 /\ i - 12 \in 1..24 /\ i - 12 - 1 = i - 13
    OBVIOUS
  <2>2. Looked[i] = three[i] /\ three[i] = third[i - 12]
    BY <2>1, <1>9, <1>11, <1>12 DEF three
  <2>3. third[i - 12] = <<3 + (i - 12 - 1) \div 8, (i - 12 - 1) % 8>>
    BY <2>1, <1>5
  <2>4. QED BY <2>2, <2>3, <2>1
<1>17. Looked[37] = last[1] /\ Looked[38] = last[2]
  <2>1. Looked[37] = last[37 - 36] /\ Looked[38] = last[38 - 36]
    <3>1. 37 \in 1..38 /\ 38 \in 1..38 /\ ~(37 <= 36) /\ ~(38 <= 36)
      OBVIOUS
    <3>2. QED BY <3>1, <1>11, <1>12
  <2>2. QED BY <2>1
<1>18. Looked[9] = second[1] /\ Looked[10] = second[2]
         /\ Looked[11] = second[3] /\ Looked[12] = second[4]
  <2>1. /\ Looked[9] = second[9 - 8] /\ Looked[10] = second[10 - 8]
        /\ Looked[11] = second[11 - 8] /\ Looked[12] = second[12 - 8]
    BY <1>15
  <2>2. QED BY <2>1
<1>19. QED BY <1>13, <1>14, <1>16, <1>17, <1>18, <1>5

(* A character's key is scanned, and makes that character.                 *)
LEMMA TypedLooked ==
  ASSUME NEW c \in Typed
  PROVE  /\ KeyOf(c) \in LookedKeys
         /\ CharOf(KeyOf(c)) = c
<1> USE DEF Typed
<1>1. CASE c \in Letters
  <2>1. KeyOf(c) = <<(c - 43) \div 8, (c - 43) % 8>>
    BY <1>1 DEF KeyOf, LetterKey, At, Letters, Digits
  <2>2. CASE c < 67
    <3>1. c - 54 \in 11..12 /\ Looked[c - 54] = <<2, c - 59>>
      BY <1>1, <2>2, LookedAt DEF Letters
    <3>2. KeyOf(c) = <<2, c - 59>>
      BY <1>1, <2>1, <2>2 DEF Letters
    <3>3. QED BY <3>1, <3>2, <1>1, <2>2, LookedAt DEF LookedKeys, CharOf, KeySpace, Letters
  <2>3. CASE c >= 67
    <3>1. c - 54 \in 13..36 /\ Looked[c - 54] = <<3 + (c - 67) \div 8, (c - 67) % 8>>
      <4>1. c - 54 \in 13..36 /\ (c - 54) - 13 = c - 67
        BY <1>1, <2>3 DEF Letters
      <4>2. QED BY <4>1, LookedAt
    <3>2. KeyOf(c) = <<3 + (c - 67) \div 8, (c - 67) % 8>>
      BY <1>1, <2>1, <2>3 DEF Letters
    <3>3. 3 + (c - 67) \div 8 \in 3..5 /\ 67 + 8 * ((3 + (c - 67) \div 8) - 3) + ((c - 67) % 8) = c
      BY <1>1, <2>3 DEF Letters
    <3>4. c - 54 \in DOMAIN Looked
      BY <3>1, LookedAt
    <3>5. QED BY <3>1, <3>2, <3>3, <3>4 DEF LookedKeys, CharOf, KeySpace
  <2>4. QED BY <1>1, <2>2, <2>3 DEF Letters
<1>2. CASE c \in Digits
  <2>1. KeyOf(c) = <<(c - 48) \div 8, (c - 48) % 8>>
    BY <1>2 DEF KeyOf, DigitKey, At, Letters, Digits
  <2>2. CASE c < 56
    <3>1. c - 47 \in 1..8 /\ Looked[c - 47] = <<0, c - 48>>
      BY <1>2, <2>2, LookedAt DEF Digits
    <3>2. KeyOf(c) = <<0, c - 48>>
      BY <1>2, <2>1, <2>2 DEF Digits
    <3>3. QED BY <3>1, <3>2, <1>2, <2>2, LookedAt DEF LookedKeys, CharOf, KeySpace, Digits
  <2>3. CASE c = 56
    <3>1. KeyOf(c) = Looked[9] /\ KeyOf(c) = <<1, 0>>
      BY <2>1, <2>3, LookedAt
    <3>2. QED BY <3>1, <2>3, LookedAt DEF LookedKeys, CharOf, KeySpace
  <2>4. CASE c = 57
    <3>1. KeyOf(c) = Looked[10] /\ KeyOf(c) = <<1, 1>>
      BY <2>1, <2>4, LookedAt
    <3>2. QED BY <3>1, <2>4, LookedAt DEF LookedKeys, CharOf, KeySpace
  <2>5. QED BY <1>2, <2>2, <2>3, <2>4 DEF Digits
<1>3. CASE c = 32
  <2>1. KeyOf(c) = KeySpace /\ Looked[37] = KeySpace /\ 37 \in DOMAIN Looked
    BY <1>3, LookedAt DEF KeyOf, Letters, Digits
  <2>2. QED BY <2>1, <1>3 DEF LookedKeys, CharOf, KeySpace
<1>4. CASE c = 13
  <2>1. KeyOf(c) = KeyReturn /\ Looked[38] = KeyReturn /\ 38 \in DOMAIN Looked
    BY <1>4, LookedAt DEF KeyOf, Letters, Digits
  <2>2. QED BY <2>1, <1>4 DEF LookedKeys, CharOf, KeySpace, KeyReturn
<1>5. QED BY <1>1, <1>2, <1>3, <1>4

(* A scanned key makes a character, whose key it is; only two are in the   *)
(* rows a tape sets.                                                       *)
LEMMA LookedTyped ==
  ASSUME NEW k \in LookedKeys
  PROVE  /\ CharOf(k) \in Typed
         /\ KeyOf(CharOf(k)) = k
         /\ k[1] < 7 \/ k = KeySpace \/ k = KeyReturn
<1>1. PICK i \in 1..38 : k = Looked[i]
  BY LookedAt DEF LookedKeys
<1>2. CASE i \in 1..8
  <2>1. k = <<0, i - 1>>
    BY <1>1, <1>2, LookedAt
  <2>2. CharOf(k) = 47 + i
    BY <2>1 DEF CharOf, KeySpace
  <2>3. KeyOf(47 + i) = <<(i - 1) \div 8, (i - 1) % 8>>
    BY <1>2 DEF KeyOf, DigitKey, At, Letters, Digits
  <2>4. QED BY <2>1, <2>2, <2>3, <1>2 DEF Typed, Digits
<1>3. CASE i \in 9..12
  <2>1. \/ k = <<1, 0>> /\ CharOf(k) = 56
        \/ k = <<1, 1>> /\ CharOf(k) = 57
        \/ k = <<2, 6>> /\ CharOf(k) = 65
        \/ k = <<2, 7>> /\ CharOf(k) = 66
    BY <1>1, <1>3, LookedAt DEF CharOf, KeySpace
  <2>2. QED BY <2>1 DEF KeyOf, LetterKey, DigitKey, At, Letters, Digits, Typed
<1>4. CASE i \in 13..36
  <2>1. k = <<3 + (i - 13) \div 8, (i - 13) % 8>>
    BY <1>1, <1>4, LookedAt
  <2>2. k[1] \in 3..5 /\ 67 + 8 * (k[1] - 3) + k[2] = 54 + i
    BY <2>1, <1>4
  <2>3. CharOf(k) = 54 + i
    BY <2>2 DEF CharOf, KeySpace
  <2>4. 54 + i \in Letters
    BY <1>4 DEF Letters
  <2>5. KeyOf(54 + i) = <<(11 + i) \div 8, (11 + i) % 8>>
    <3>1. (54 + i) - 65 + 22 = 11 + i
      BY <1>4
    <3>2. QED BY <2>4, <3>1 DEF KeyOf, LetterKey, At, Letters, Digits
  <2>6. (11 + i) \div 8 = 3 + (i - 13) \div 8 /\ (11 + i) % 8 = (i - 13) % 8
    BY <1>4
  <2>7. QED BY <2>1, <2>2, <2>3, <2>4, <2>5, <2>6 DEF Typed
<1>5. CASE i \in 37..38
  <2>1. \/ k = KeySpace /\ CharOf(k) = 32
        \/ k = KeyReturn /\ CharOf(k) = 13
    BY <1>1, <1>5, LookedAt DEF CharOf, KeySpace, KeyReturn
  <2>2. QED BY <2>1 DEF KeyOf, Letters, Digits, Typed
<1>6. QED BY <1>2, <1>3, <1>4, <1>5

(* The keys a host key presses.                                            *)
LEMMA MsxLooked ==
  ASSUME NEW h, NEW k \in Msx(h)
  PROVE  /\ \A d \in Directions : k # Arrow(d)
         /\ k = KeySpace => h = 32 \/ h = 90
         /\ k \in LookedKeys => CharOf(k) = h \/ (k = KeySpace /\ h = 90)
<1>0. KeySelect \notin LookedKeys
  <2> SUFFICES ASSUME KeySelect \in LookedKeys PROVE FALSE
    OBVIOUS
  <2>1. KeySelect[1] < 7 \/ KeySelect = KeySpace \/ KeySelect = KeyReturn
    BY LookedTyped
  <2>2. QED BY <2>1 DEF KeySelect, KeySpace, KeyReturn
<1>1. CASE h \in Letters /\ k = LetterKey(h)
  <2>1. k = KeyOf(h) /\ CharOf(k) = h
    BY <1>1, TypedLooked DEF KeyOf, Typed, Letters, Digits
  <2>2. k[1] < 8
    BY <1>1 DEF LetterKey, At, Letters
  <2>3. QED BY <2>1, <2>2 DEF Arrow, KeySpace
<1>2. CASE h \in Digits /\ k = DigitKey(h)
  <2>1. k = KeyOf(h) /\ CharOf(k) = h
    BY <1>2, TypedLooked DEF KeyOf, Typed, Letters, Digits
  <2>2. k[1] < 8
    BY <1>2 DEF DigitKey, At, Digits
  <2>3. QED BY <2>1, <2>2 DEF Arrow, KeySpace
<1>3. CASE h \in {32, 90} /\ k = KeySpace
  <2>1. CharOf(k) = 32
    BY <1>3 DEF CharOf, KeySpace
  <2>2. QED BY <1>3, <2>1 DEF Arrow, KeySpace
<1>4. CASE h = 88 /\ k = KeySelect
  BY <1>0, <1>4 DEF Arrow, KeySelect, KeySpace
<1>5. CASE h = 13 /\ k = KeyReturn
  <2>1. CharOf(k) = 13
    BY <1>5 DEF CharOf, KeySpace, KeyReturn
  <2>2. QED BY <1>5, <2>1 DEF Arrow, KeyReturn, KeySpace
<1>6. QED BY <1>1, <1>2, <1>3, <1>4, <1>5 DEF Msx

LEMMA MsxOf ==
  ASSUME NEW h
  PROVE  /\ h \in Typed => KeyOf(h) \in Msx(h)
         /\ KeySpace \in Msx(h) <=> h = 32 \/ h = 90
         /\ h \in {13, 32} => Msx(h) = {KeyOf(h)}
<1>1. h \in Typed => KeyOf(h) \in Msx(h)
  BY DEF Typed, KeyOf, Msx, Letters, Digits
<1>2. KeySpace \in Msx(h) <=> h = 32 \/ h = 90
  BY MsxLooked DEF Msx
<1>3. h \in {13, 32} => Msx(h) = {KeyOf(h)}
  BY DEF KeyOf, Msx, Letters, Digits
<1>4. QED BY <1>1, <1>2, <1>3

LEMMA ArrowsAlone ==
  /\ \A d \in Directions : Arrow(d) \notin LookedKeys /\ Arrow(d)[1] = 8
  /\ \A d, e \in Directions : Arrow(d) = Arrow(e) => d = e
  /\ \A d : Arrow(d) # KeySpace /\ Arrow(d) # KeySelect
<1>1. \A d : Arrow(d)[1] = 8 /\ Arrow(d) # KeySpace /\ Arrow(d) # KeySelect /\ Arrow(d) # KeyReturn
  BY DEF Arrow, KeySpace, KeySelect, KeyReturn
<1>2. \A d : Arrow(d) \notin LookedKeys
  BY <1>1, LookedTyped
<1>3. \A d, e \in Directions : Arrow(d) = Arrow(e) => d = e
  BY DEF Arrow, Directions
<1>4. QED BY <1>1, <1>2, <1>3

(* A set of numbers has a least one. *)
LEMMA LeastIn ==
  ASSUME NEW S \in SUBSET Nat, S # {}
  PROVE  \E x \in S : \A y \in S : x <= y
<1>1. PICK x \in S : \A y \in S : ~ (<<y, x>> \in OpToRel(<, Nat))
  BY NatLessThanWellFounded, WFMin, Zenon
<1>2. \A y \in S : ~ (y < x)
  <2> SUFFICES ASSUME NEW y \in S, y < x PROVE FALSE
    OBVIOUS
  <2>1. y \in Nat /\ x \in Nat
    OBVIOUS
  <2>2. <<y, x>> \in OpToRel(<, Nat)
    BY <2>1, Zenon DEF OpToRel
  <2> QED  BY <1>1, <2>2
<1>3. \A y \in S : x <= y
  BY <1>2
<1> QED  BY <1>3

(* What is waiting is a key that is down, and space only before z.         *)
LEMMA Waiting ==
  /\ KeyWaiting = 0 <=> keys \cap LookedKeys = {}
  /\ KeyWaiting # 0 =>
       \E k \in keys \cap LookedKeys :
         /\ KeyWaiting = CharOf(k)
         /\ k = KeySpace => KeyOf(90) \notin keys
<1> DEFINE down == {i \in DOMAIN Looked : Looked[i] \in keys}
<1>1. KeyWaiting = IF down = {} THEN 0 ELSE CharOf(Looked[Min(down)])
  BY DEF KeyWaiting
<1>2. down = {} <=> keys \cap LookedKeys = {}
  BY DEF LookedKeys
<1>3. ASSUME down # {}
      PROVE  Min(down) \in down /\ \A i \in down : Min(down) <= i
  <2>1. down \in SUBSET Nat
    BY LookedAt
  <2> HIDE DEF down
  <2>2. \E n \in down : \A m \in down : n <= m
    BY <1>3, <2>1, LeastIn
  <2>3. QED BY <2>2 DEF Min
<1>4. ASSUME down # {}
      PROVE  /\ Looked[Min(down)] \in keys \cap LookedKeys
             /\ CharOf(Looked[Min(down)]) # 0
             /\ Looked[Min(down)] = KeySpace => KeyOf(90) \notin keys
  <2>1. Looked[Min(down)] \in keys \cap LookedKeys
    BY <1>3, <1>4 DEF LookedKeys
  <2>2. CharOf(Looked[Min(down)]) # 0
    BY <2>1, LookedTyped DEF Typed, Letters, Digits
  <2>3. ASSUME Looked[Min(down)] = KeySpace, KeyOf(90) \in keys PROVE FALSE
    <3>1. KeyOf(90) = <<5, 7>>
      BY DEF KeyOf, LetterKey, At, Letters, Digits
    <3>2. 36 \in down
      <4>1. 36 \in 1..38 /\ 36 \in 13..36 /\ 3 + (36 - 13) \div 8 = 5 /\ (36 - 13) % 8 = 7
        OBVIOUS
      <4>2. Looked[36] = <<5, 7>>
        BY <4>1, LookedAt
      <4>3. QED BY <4>1, <4>2, <3>1, <2>3, LookedAt
    <3>3. Min(down) \in 1..36
      <4>1. Min(down) \in 1..38 /\ Min(down) <= 36
        BY <1>3, <1>4, <3>2, LookedAt
      <4> HIDE DEF down
      <4>2. QED BY <4>1
    <3>4. Looked[Min(down)][1] < 8
      <4>1. \A i \in 1..36 : Looked[i][1] < 8
        <5> SUFFICES ASSUME NEW i \in 1..36 PROVE Looked[i][1] < 8
          OBVIOUS
        <5>1. CASE i \in 1..8
          BY <5>1, LookedAt
        <5>2. CASE i \in 9..12
          BY <5>2, LookedAt
        <5>3. CASE i \in 13..36
          BY <5>3, LookedAt
        <5>4. QED BY <5>1, <5>2, <5>3
      <4>2. QED BY <4>1, <3>3
    <3>5. QED BY <3>4, <2>3 DEF KeySpace
  <2>4. QED BY <2>1, <2>2, <2>3
<1> HIDE DEF down
<1>5. QED BY <1>1, <1>2, <1>4

-----------------------------------------------------------------------------
(* The inductive invariant of the keyboard.  What is held and what is down *)
(* agree, but that z presses space too; the port and the matrix show one   *)
(* stick; and the last character given is the one remembered, with its key *)
(* down.                                                                   *)
HeldAreDown ==
  /\ \A k \in keys \cap LookedKeys : CharOf(k) \in held \/ (k = KeySpace /\ 90 \in held)
  /\ \A h \in held \cap Typed : KeyOf(h) \in keys
OneStick ==
  /\ \A d \in Directions : Arrow(d) \in keys <=> d \in port
  /\ KeySpace \in keys <=> "TriggerA" \in port
GivenIsDown ==
  given # 0 => keySeen = given /\ \E k \in keys \cap LookedKeys : CharOf(k) = given
KeysInv == HeldAreDown /\ OneStick /\ GivenIsDown

LEMMA KeysInvRead == KeysInv => KeysAreRead
<1> SUFFICES ASSUME KeysInv PROVE KeysAreRead
  OBVIOUS
<1>1. TwoWaysAgree
  <2>1. CursorAsStick = port \cap Directions
    BY DEF KeysInv, OneStick, CursorAsStick
  <2>2. \A b : StickDirection(b \cap Directions) = StickDirection(b)
    <3> SUFFICES ASSUME NEW b PROVE StickDirection(b \cap Directions) = StickDirection(b)
      OBVIOUS
    <3>1. \A d \in Directions : d \in b \cap Directions <=> d \in b
      OBVIOUS
    <3> DEFINE a == b \cap Directions
    <3>2. /\ "Up" \in a <=> "Up" \in b
          /\ "Down" \in a <=> "Down" \in b
          /\ "Left" \in a <=> "Left" \in b
          /\ "Right" \in a <=> "Right" \in b
      BY DEF Directions
    <3> HIDE DEF a
    <3>3. QED BY <3>2 DEF StickDirection, a
  <2>3. GTSTCK(0) = GTSTCK(1)
    BY <2>1, <2>2 DEF GTSTCK
  <2>4. GTTRIG(0) = GTTRIG(1)
    BY DEF GTTRIG, KeysInv, OneStick
  <2>5. QED BY <2>3, <2>4 DEF TwoWaysAgree
<1>2. KeyWaiting # 0 => KeyWaiting \in held
  <2> SUFFICES ASSUME KeyWaiting # 0 PROVE KeyWaiting \in held
    OBVIOUS
  <2>1. PICK k \in keys \cap LookedKeys : /\ KeyWaiting = CharOf(k)
                                          /\ k = KeySpace => KeyOf(90) \notin keys
    BY Waiting
  <2>2. 90 \in Typed
    BY DEF Typed, Letters
  <2>3. QED BY <2>1, <2>2 DEF KeysInv, HeldAreDown
<1>3. ASSUME NEW h \in Letters \cup Digits \cup {13, 32}, held = {h}
      PROVE  KeyWaiting = h
  <2>1. KeyOf(h) \in keys \cap LookedKeys
    BY <1>3, TypedLooked DEF KeysInv, HeldAreDown, Typed
  <2>2. QED BY <2>1, <1>2, <1>3, Waiting
<1>4. PressedAreRead
  BY <1>2, <1>3 DEF PressedAreRead
<1>5. HeldIsRemembered
  BY DEF HeldIsRemembered, KeysInv, GivenIsDown
<1>6. QED BY <1>1, <1>4, <1>5 DEF KeysAreRead

LEMMA KeysStart == KeysInit => KeysInv
  BY ArrowsAlone DEF KeysInit, KeysInv, HeldAreDown, OneStick, GivenIsDown

LEMMA StillDownIs ==
  ASSUME NEW down
  PROVE  StillDown(down) # 0 =>
           /\ StillDown(down) = given
           /\ \E k \in down : CharOf(k) = given
  BY DEF StillDown

LEMMA InDown ==
  ASSUME NEW hand \in Hands, NEW k
  PROVE  k \in Down(hand) <=>
           \/ \E h \in hand.typed : k \in Msx(h)
           \/ \E d \in hand.arrows : d \in Directions /\ k = Arrow(d)
<1>1. hand.arrows \subseteq Directions
  BY HandsAssumption
<1>2. k \in UNION {Msx(h) : h \in hand.typed} <=> \E h \in hand.typed : k \in Msx(h)
  OBVIOUS
<1>3. k \in {Arrow(d) : d \in hand.arrows} <=> \E d \in hand.arrows : k = Arrow(d)
  OBVIOUS
<1>4. k \in Down(hand) <=>
        \/ k \in UNION {Msx(h) : h \in hand.typed}
        \/ k \in {Arrow(d) : d \in hand.arrows}
  BY Zenon DEF Down
<1>5. (\E d \in hand.arrows : k = Arrow(d))
        <=> \E d \in hand.arrows : d \in Directions /\ k = Arrow(d)
  BY <1>1
<1>6. QED BY <1>2, <1>3, <1>4, <1>5, Zenon

LEMMA FrameKeeps ==
  ASSUME KeysInv, NEW hand \in Hands, Frame(hand)
  PROVE  KeysInv'
<1> USE DEF Frame
<1>0. hand.arrows \subseteq Directions
  BY HandsAssumption
<1>1. HeldAreDown'
  <2>1. ASSUME NEW k \in Down(hand) \cap LookedKeys
        PROVE  CharOf(k) \in hand.typed \/ (k = KeySpace /\ 90 \in hand.typed)
    <3>1. PICK h \in hand.typed : k \in Msx(h)
      BY InDown, ArrowsAlone
    <3>2. QED BY <3>1, MsxLooked
  <2>2. ASSUME NEW h \in hand.typed \cap Typed PROVE KeyOf(h) \in Down(hand)
    BY MsxOf DEF Down
  <2>3. QED BY <2>1, <2>2 DEF HeldAreDown
<1>2. OneStick'
  <2>1. ASSUME NEW d \in Directions
        PROVE  Arrow(d) \in Down(hand) <=> d \in Buttons(hand)
    <3>1. Arrow(d) \in Down(hand) <=> d \in hand.arrows
      BY InDown, ArrowsAlone, MsxLooked
    <3>2. d \in Buttons(hand) <=> d \in hand.arrows
      BY DEF Buttons, Directions
    <3>3. QED BY <3>1, <3>2
  <2>2. KeySpace \in Down(hand) <=> 32 \in hand.typed \/ 90 \in hand.typed
    BY InDown, ArrowsAlone, MsxOf
  <2>3. "TriggerA" \in Buttons(hand) <=> 32 \in hand.typed \/ 90 \in hand.typed
    BY <1>0 DEF Buttons, Directions
  <2>4. QED BY <2>1, <2>2, <2>3 DEF OneStick
<1>3. GivenIsDown'
  <2>1. given' = StillDown(Down(hand) \cap LookedKeys)
    BY DEF LookedKeys
  <2>2. QED BY <2>1, StillDownIs DEF KeysInv, GivenIsDown
<1>4. QED BY <1>1, <1>2, <1>3 DEF KeysInv

LEMMA TapeKeeps ==
  ASSUME KeysInv, NEW b, Tape(b)
  PROVE  KeysInv'
<1> DEFINE down == {k \in keys : k[1] < 7} \cup StickKeys(b)
<1>0. /\ keys' = down /\ port' = b /\ keySeen' = keySeen
      /\ held' = {h \in held : Msx(h) \cap down # {}}
                   \cup (IF "TriggerA" \in b THEN {32} ELSE {})
      /\ given' = StillDown(down \cap LookedKeys)
  BY DEF Tape, LookedKeys
<1>1. /\ \A d \in Directions : Arrow(d) \in down <=> d \in b
      /\ KeySpace \in down <=> "TriggerA" \in b
      /\ \A k \in StickKeys(b) \cap LookedKeys : k = KeySpace
      /\ KeyReturn \notin down
  <2>1. KeySpace[1] = 8 /\ KeyReturn[1] = 7 /\ KeySelect # KeySpace
        /\ KeySelect # KeyReturn /\ KeySpace # KeyReturn
    BY DEF KeySpace, KeyReturn, KeySelect
  <2>2. KeySelect \notin LookedKeys /\ KeySelect[1] = 7
    BY LookedTyped DEF KeySelect, KeySpace, KeyReturn
  <2>3. \A d : Arrow(d)[1] = 8
    BY DEF Arrow
  <2>4. \A d \in Directions : Arrow(d) \in down <=> d \in b
    BY <2>3, ArrowsAlone DEF StickKeys
  <2>5. KeySpace \in down <=> "TriggerA" \in b
    BY <2>1, ArrowsAlone DEF StickKeys
  <2>6. \A k \in StickKeys(b) \cap LookedKeys : k = KeySpace
    BY <2>2, ArrowsAlone DEF StickKeys
  <2>7. KeyReturn \notin down
    BY <2>1, <2>3 DEF StickKeys
  <2>8. QED BY <2>4, <2>5, <2>6, <2>7
<1>2. HeldAreDown'
  <2>1. ASSUME NEW k \in down \cap LookedKeys PROVE CharOf(k) \in held'
    <3>1. CASE k \in keys /\ k[1] < 7
      <4>1. CharOf(k) \in held
        BY <3>1 DEF KeysInv, HeldAreDown, KeySpace
      <4>2. k \in Msx(CharOf(k))
        BY LookedTyped, MsxOf
      <4>3. QED BY <4>1, <4>2, <1>0
    <3>2. CASE k \in StickKeys(b)
      <4>1. k = KeySpace /\ "TriggerA" \in b
        BY <3>2, <1>1
      <4>2. CharOf(KeySpace) = 32
        BY DEF CharOf, KeySpace
      <4>3. QED BY <4>1, <4>2, <1>0
    <3>3. QED BY <3>1, <3>2
  <2>2. ASSUME NEW h \in held' \cap Typed PROVE KeyOf(h) \in down
    <3>1. CASE "TriggerA" \in b /\ h = 32
      BY <3>1, <1>1 DEF KeyOf, Letters, Digits
    <3>2. CASE h \in held /\ Msx(h) \cap down # {}
      <4>1. CASE h \in {13, 32}
        BY <4>1, <3>2, MsxOf
      <4>2. CASE h \in Letters \cup Digits
        <5>1. KeyOf(h) \in keys
          BY <3>2 DEF KeysInv, HeldAreDown
        <5>2. KeyOf(h)[1] < 7
          BY <4>2 DEF KeyOf, LetterKey, DigitKey, At, Letters, Digits
        <5>3. QED BY <5>1, <5>2
      <4>3. QED BY <4>1, <4>2 DEF Typed
    <3>3. QED BY <3>1, <3>2, <1>0
  <2> HIDE DEF down
  <2>3. QED BY <2>1, <2>2, <1>0 DEF HeldAreDown
<1>3. OneStick'
  BY <1>0, <1>1 DEF OneStick
<1>4. GivenIsDown'
  <2> HIDE DEF down
  <2>1. QED BY <1>0, StillDownIs DEF KeysInv, GivenIsDown
<1>5. QED BY <1>2, <1>3, <1>4 DEF KeysInv

LEMMA AskKeeps ==
  ASSUME KeysInv, CHSNS \/ CHGET
  PROVE  KeysInv'
<1>1. HeldAreDown' /\ OneStick'
  BY DEF KeysInv, HeldAreDown, OneStick, CHSNS, CHGET
<1>2. CASE CHSNS
  <2>1. KeyWaiting = 0 => given = 0
    BY Waiting DEF KeysInv, GivenIsDown
  <2>2. GivenIsDown'
    BY <1>2, <2>1 DEF KeysInv, GivenIsDown, CHSNS
  <2>3. QED BY <1>1, <2>2 DEF KeysInv
<1>3. CASE CHGET
  <2>1. KeyWaiting = 0 => given = 0
    BY Waiting DEF KeysInv, GivenIsDown
  <2>2. KeyWaiting # 0 => \E k \in keys \cap LookedKeys : CharOf(k) = KeyWaiting
    BY Waiting
  <2>3. GivenIsDown'
    BY <1>3, <2>1, <2>2 DEF KeysInv, GivenIsDown, CHGET, Fresh
  <2>4. QED BY <1>1, <2>3 DEF KeysInv
<1>4. QED BY <1>2, <1>3

LEMMA KeysStep == KeysInv /\ [BiosNext]_biosVars => KeysInv'
<1> SUFFICES ASSUME KeysInv, [BiosNext]_biosVars PROVE KeysInv'
  OBVIOUS
<1>1. CASE KeysNext
  BY <1>1, FrameKeeps, TapeKeeps, AskKeeps DEF KeysNext
<1>2. CASE UNCHANGED keyVars
  BY <1>2 DEF keyVars, KeysInv, HeldAreDown, OneStick, GivenIsDown
<1>3. QED BY <1>1, <1>2 DEF BiosNext, biosVars

(* What a program reads is what is held, whatever the hands and tapes do:  *)
(* the matrix and the port show one stick, the key a read gives is held,   *)
(* and the last key given is remembered while it is down (keyEvent).       *)
THEOREM KeysAreReadAlways == BiosSpec => []KeysAreRead
<1>1. BiosInit => KeysInv
  BY KeysStart DEF BiosInit
<1>2. KeysInv /\ [BiosNext]_biosVars => KeysInv'
  BY KeysStep
<1>3. KeysInv => KeysAreRead
  BY KeysInvRead
<1>4. QED BY <1>1, <1>2, <1>3, PTL DEF BiosSpec

-----------------------------------------------------------------------------
(* Bytes as bits, for the registers of the screen.                         *)

(* The eight powers, and a byte as its eight bits. *)
LEMMA Powers ==
  /\ 2 ^ 0 = 1 /\ 2 ^ 1 = 2 /\ 2 ^ 2 = 4 /\ 2 ^ 3 = 8
  /\ 2 ^ 4 = 16 /\ 2 ^ 5 = 32 /\ 2 ^ 6 = 64 /\ 2 ^ 7 = 128
  OBVIOUS

LEMMA Bitwise8 ==
  ASSUME NEW b \in 0..255
  PROVE  /\ BitOf(b, 0) = b % 2 /\ BitOf(b, 1) = (b \div 2) % 2
         /\ BitOf(b, 2) = (b \div 4) % 2 /\ BitOf(b, 3) = (b \div 8) % 2
         /\ BitOf(b, 4) = (b \div 16) % 2 /\ BitOf(b, 5) = (b \div 32) % 2
         /\ BitOf(b, 6) = (b \div 64) % 2 /\ BitOf(b, 7) = (b \div 128) % 2
<1>1. b \div 1 = b
  OBVIOUS
<1>2. QED BY <1>1, Powers DEF BitOf

LEMMA Bits8 ==
  ASSUME NEW b \in 0..255
  PROVE  /\ \A i \in 0..7 : BitOf(b, i) \in 0..1
         /\ b = BitOf(b, 0) + 2 * BitOf(b, 1) + 4 * BitOf(b, 2) + 8 * BitOf(b, 3)
                  + 16 * BitOf(b, 4) + 32 * BitOf(b, 5) + 64 * BitOf(b, 6) + 128 * BitOf(b, 7)
<1>1. \A i \in {0, 1, 2, 3, 4, 5, 6, 7} : BitOf(b, i) \in 0..1
  BY Bitwise8
<1>2. 0..7 = {0, 1, 2, 3, 4, 5, 6, 7}
  OBVIOUS
<1>3. b = BitOf(b, 0) + 2 * BitOf(b, 1) + 4 * BitOf(b, 2) + 8 * BitOf(b, 3)
          + 16 * BitOf(b, 4) + 32 * BitOf(b, 5) + 64 * BitOf(b, 6) + 128 * BitOf(b, 7)
  BY Bitwise8
<1>4. QED BY <1>1, <1>2, <1>3

(* Eight bits make a byte, and the byte has them.                          *)
IsJoined(b, b0, b1, b2, b3, b4, b5, b6, b7) ==
  /\ b0 \in 0..1 /\ b1 \in 0..1 /\ b2 \in 0..1 /\ b3 \in 0..1
  /\ b4 \in 0..1 /\ b5 \in 0..1 /\ b6 \in 0..1 /\ b7 \in 0..1
  /\ b = b0 + 2 * b1 + 4 * b2 + 8 * b3 + 16 * b4 + 32 * b5 + 64 * b6 + 128 * b7

LEMMA Joining ==
  ASSUME NEW b0, NEW b1, NEW b2, NEW b3, NEW b4, NEW b5, NEW b6, NEW b7,
         NEW b, IsJoined(b, b0, b1, b2, b3, b4, b5, b6, b7)
  PROVE  /\ b \in 0..255
         /\ BitOf(b, 0) = b0 /\ BitOf(b, 1) = b1 /\ BitOf(b, 2) = b2 /\ BitOf(b, 3) = b3
         /\ BitOf(b, 4) = b4 /\ BitOf(b, 5) = b5 /\ BitOf(b, 6) = b6 /\ BitOf(b, 7) = b7
<1> SUFFICES ASSUME b0 \in 0..1, b1 \in 0..1, b2 \in 0..1, b3 \in 0..1,
                    b4 \in 0..1, b5 \in 0..1, b6 \in 0..1, b7 \in 0..1,
                    b = b0 + 2 * b1 + 4 * b2 + 8 * b3 + 16 * b4 + 32 * b5 + 64 * b6 + 128 * b7
             PROVE  /\ b \in 0..255
                    /\ BitOf(b, 0) = b0 /\ BitOf(b, 1) = b1 /\ BitOf(b, 2) = b2 /\ BitOf(b, 3) = b3
                    /\ BitOf(b, 4) = b4 /\ BitOf(b, 5) = b5 /\ BitOf(b, 6) = b6 /\ BitOf(b, 7) = b7
  BY DEF IsJoined
<1>1. b \in 0..255
  OBVIOUS
<1>2. BitOf(b, 0) = b0
  <2>1. BitOf(b, 0) = b % 2
    BY <1>1, Bitwise8
  <2>2. QED BY <2>1
<1>3. BitOf(b, 1) = b1
  <2>1. BitOf(b, 1) = (b \div 2) % 2
    BY <1>1, Bitwise8
  <2>2. b \div 2 = b1 + 2 * b2 + 4 * b3 + 8 * b4 + 16 * b5 + 32 * b6 + 64 * b7
    OBVIOUS
  <2>3. QED BY <2>1, <2>2
<1>4. BitOf(b, 2) = b2
  <2>1. BitOf(b, 2) = (b \div 4) % 2
    BY <1>1, Bitwise8
  <2>2. b \div 4 = b2 + 2 * b3 + 4 * b4 + 8 * b5 + 16 * b6 + 32 * b7
    OBVIOUS
  <2>3. QED BY <2>1, <2>2
<1>5. BitOf(b, 3) = b3
  <2>1. BitOf(b, 3) = (b \div 8) % 2
    BY <1>1, Bitwise8
  <2>2. b \div 8 = b3 + 2 * b4 + 4 * b5 + 8 * b6 + 16 * b7
    OBVIOUS
  <2>3. QED BY <2>1, <2>2
<1>6. BitOf(b, 4) = b4
  <2>1. BitOf(b, 4) = (b \div 16) % 2
    BY <1>1, Bitwise8
  <2>2. b \div 16 = b4 + 2 * b5 + 4 * b6 + 8 * b7
    OBVIOUS
  <2>3. QED BY <2>1, <2>2
<1>7. BitOf(b, 5) = b5
  <2>1. BitOf(b, 5) = (b \div 32) % 2
    BY <1>1, Bitwise8
  <2>2. b \div 32 = b5 + 2 * b6 + 4 * b7
    OBVIOUS
  <2>3. QED BY <2>1, <2>2
<1>8. BitOf(b, 6) = b6
  <2>1. BitOf(b, 6) = (b \div 64) % 2
    BY <1>1, Bitwise8
  <2>2. b \div 64 = b6 + 2 * b7
    OBVIOUS
  <2>3. QED BY <2>1, <2>2
<1>9. BitOf(b, 7) = b7
  <2>1. BitOf(b, 7) = (b \div 128) % 2
    BY <1>1, Bitwise8
  <2>2. b \div 128 = b7
    OBVIOUS
  <2>3. QED BY <2>1, <2>2
<1>10. QED BY <1>1, <1>2, <1>3, <1>4, <1>5, <1>6, <1>7, <1>8, <1>9

LEMMA FlippedBits ==
  ASSUME NEW b \in 0..255, NEW i \in 0..7
  PROVE  /\ Flipped(b, i) \in 0..255
         /\ \A j \in 0..7 : BitOf(Flipped(b, i), j) = IF j = i THEN 1 - BitOf(b, i) ELSE BitOf(b, j)
<1> DEFINE f(j) == IF j = i THEN 1 - BitOf(b, i) ELSE BitOf(b, j)
<1>1. \A j \in 0..7 : f(j) \in 0..1 /\ BitOf(b, j) \in 0..1
  <2>1. \A j \in 0..7 : BitOf(b, j) \in 0..1
    BY Bits8
  <2>2. BitOf(b, i) \in 0..1
    BY <2>1
  <2>3. 1 - BitOf(b, i) \in 0..1
    BY <2>2
  <2>4. QED BY <2>1, <2>3
<1>2. Flipped(b, i) = IF BitOf(b, i) = 1 THEN b - 2 ^ i ELSE b + 2 ^ i
  BY DEF Flipped, Bit
<1>3. Flipped(b, i) = f(0) + 2 * f(1) + 4 * f(2) + 8 * f(3)
                        + 16 * f(4) + 32 * f(5) + 64 * f(6) + 128 * f(7)
  <2> DEFINE c(j) == BitOf(b, j)
  <2>0. \A j \in 0..7 : c(j) \in 0..1
    BY <1>1
  <2>1. b = c(0) + 2 * c(1) + 4 * c(2) + 8 * c(3) + 16 * c(4) + 32 * c(5) + 64 * c(6) + 128 * c(7)
    BY Bits8
  <2>2. \A j \in 0..7 : f(j) = IF j = i THEN 1 - c(j) ELSE c(j)
    OBVIOUS
  <2>3. Flipped(b, i) = IF c(i) = 1 THEN b - 2 ^ i ELSE b + 2 ^ i
    BY <1>2
  <2> HIDE DEF c, f
  <2>4. CASE i = 0 BY <2>4, <2>0, <2>1, <2>2, <2>3, Powers
  <2>5. CASE i = 1 BY <2>5, <2>0, <2>1, <2>2, <2>3, Powers
  <2>6. CASE i = 2 BY <2>6, <2>0, <2>1, <2>2, <2>3, Powers
  <2>7. CASE i = 3 BY <2>7, <2>0, <2>1, <2>2, <2>3, Powers
  <2>8. CASE i = 4 BY <2>8, <2>0, <2>1, <2>2, <2>3, Powers
  <2>9. CASE i = 5 BY <2>9, <2>0, <2>1, <2>2, <2>3, Powers
  <2>10. CASE i = 6 BY <2>10, <2>0, <2>1, <2>2, <2>3, Powers
  <2>11. CASE i = 7 BY <2>11, <2>0, <2>1, <2>2, <2>3, Powers
  <2>12. QED BY <2>4, <2>5, <2>6, <2>7, <2>8, <2>9, <2>10, <2>11
<1> HIDE DEF f
<1>4. /\ Flipped(b, i) \in 0..255
      /\ \A j \in {0, 1, 2, 3, 4, 5, 6, 7} : BitOf(Flipped(b, i), j) = f(j)
  <2>1. IsJoined(Flipped(b, i), f(0), f(1), f(2), f(3), f(4), f(5), f(6), f(7))
    BY <1>1, <1>3 DEF IsJoined
  <2> QED  BY <2>1, Joining
<1>5. 0..7 = {0, 1, 2, 3, 4, 5, 6, 7}
  OBVIOUS
<1>6. QED BY <1>4, <1>5 DEF f

(* Bits one to three of register 0, as the chip reads them.                *)
LEMMA Middle ==
  ASSUME NEW b \in 0..255
  PROVE  (b \div 2) % 8 = BitOf(b, 1) + 2 * BitOf(b, 2) + 4 * BitOf(b, 3)
  BY Bitwise8

LEMMA Low7Bits ==
  ASSUME NEW b \in 0..255
  PROVE  /\ Low7(b) \in 0..127 /\ Low7(b) + 128 \in 0..255
         /\ BitOf(Low7(b), 7) = 0 /\ BitOf(Low7(b) + 128, 7) = 1
<1>1. Low7(b) \in 0..127
  BY DEF Low7
<1>2. Low7(b) \in 0..255 /\ Low7(b) + 128 \in 0..255
  BY <1>1
<1>3. BitOf(Low7(b), 7) = (Low7(b) \div 128) % 2
  BY <1>2, Bitwise8
<1>4. BitOf(Low7(b) + 128, 7) = ((Low7(b) + 128) \div 128) % 2
  BY <1>2, Bitwise8
<1>5. QED BY <1>1, <1>2, <1>3, <1>4

-----------------------------------------------------------------------------
WorkFields == {"mode", "old", "page", "ink", "x", "y", "tables"}
TableFields == {"nam", "col", "cgp", "atr", "pat"}
ChipFields == {"reg", "v9938", "pal", "vram"}
Byte == 0..255
NamesAt == {1024 * n : n \in 0..127}

(* The tables of the work area are those it began with, but for the names. *)
TablesOf(w) ==
  /\ DOMAIN w.tables = 0..3
  /\ \A b \in 0..3 :
       /\ DOMAIN w.tables[b] = TableFields
       /\ w.tables[b].nam \in NamesAt
       /\ \A f \in TableFields \ {"nam"} : w.tables[b][f] = BootTables[b][f]
WorkShape(w) ==
  /\ DOMAIN w = WorkFields
  /\ w.mode \in 0..8 /\ w.old \in 0..8
  /\ {w.ink.fore, w.ink.back, w.ink.border} \subseteq Byte
  /\ w.x \in 1..Width /\ w.y \in 1..Height
  /\ TablesOf(w)

(* The first chip has no register 9 that was written. *)
ChipShape(c) ==
  /\ DOMAIN c = ChipFields
  /\ c.reg \in [0..11 -> Byte]
  /\ c.v9938 \in BOOLEAN
  /\ ~c.v9938 => c.reg[9] = 0
  /\ c.pal \in [Entries -> Shades \cup {First}]

(* Registers written, as a function of some of 0..11.                      *)
Writes(f) == DOMAIN f \subseteq 0..11 /\ \A r \in DOMAIN f : f[r] \in Byte

LEMMA OverIs ==
  ASSUME NEW f, NEW g
  PROVE  /\ DOMAIN Over(f, g) = DOMAIN f \cup DOMAIN g
         /\ \A x \in DOMAIN f \cup DOMAIN g :
              Over(f, g)[x] = IF x \in DOMAIN f THEN f[x] ELSE g[x]
  BY DEF Over

LEMMA One ==
  ASSUME NEW d, NEW e
  PROVE  DOMAIN Only(d, e) = {d} /\ Only(d, e)[d] = e
  BY DEF Only

LEMMA Written ==
  ASSUME NEW c, ChipShape(c), NEW f, Writes(f)
  PROVE  /\ ChipShape(Write(c, f))
         /\ \A r \in 0..11 : Write(c, f).reg[r] = IF r \in DOMAIN f THEN f[r] ELSE c.reg[r]
         /\ Write(c, f).v9938 <=> c.v9938 \/ \E r \in DOMAIN f : r > 7
         /\ Write(c, f).pal = c.pal /\ Write(c, f).vram = c.vram
<1>1. /\ DOMAIN Write(c, f) = ChipFields
      /\ Write(c, f).reg = Over(f, c.reg)
      /\ Write(c, f).v9938 = (c.v9938 \/ \E r \in DOMAIN f : r > 7)
      /\ Write(c, f).pal = c.pal /\ Write(c, f).vram = c.vram
  BY DEF Write, ChipShape, ChipFields
<1>2. /\ DOMAIN Over(f, c.reg) = 0..11
      /\ \A r \in 0..11 : Over(f, c.reg)[r] = IF r \in DOMAIN f THEN f[r] ELSE c.reg[r]
  <2>1. DOMAIN c.reg = 0..11
    BY DEF ChipShape
  <2>2. (DOMAIN f) \cup DOMAIN c.reg = 0..11
    BY <2>1 DEF Writes
  <2>3. QED BY <2>2, OverIs
<1>3. Over(f, c.reg) \in [0..11 -> Byte]
  <2>1. \A r \in 0..11 : Over(f, c.reg)[r] \in Byte
    BY <1>2 DEF Writes, ChipShape
  <2>2. Over(f, c.reg) = [r \in 0..11 |-> Over(f, c.reg)[r]]
    BY <1>2 DEF Over
  <2>3. QED BY <2>1, <2>2
<1>4. ~Write(c, f).v9938 => Write(c, f).reg[9] = 0
  <2> SUFFICES ASSUME ~Write(c, f).v9938 PROVE Write(c, f).reg[9] = 0
    OBVIOUS
  <2>0. ~(\E r \in DOMAIN f : r > 7) /\ ~c.v9938
    BY <1>1, Zenon
  <2>1. ~c.v9938 /\ 9 \notin DOMAIN f
    BY <2>0
  <2>2. c.reg[9] = 0
    BY <2>1 DEF ChipShape
  <2>3. Write(c, f).reg[9] = c.reg[9]
    BY <1>1, <1>2, <2>1
  <2>4. QED BY <2>2, <2>3
<1>5. QED BY <1>1, <1>2, <1>3, <1>4 DEF ChipShape

-----------------------------------------------------------------------------
(* What the screen entries write. *)

ModeOfRegs(r0, r1) ==
  IF Bit(r1, 4) THEN "Text"
  ELSE IF Bit(r1, 3) THEN "Multicolour"
  ELSE BitmapOrTile[((r0 \div 2) % 8) + 1]

LEMMA Zeroth ==
  ASSUME NEW n \in 0..127
  PROVE  (1024 * n) \div 1024 = n
  OBVIOUS

LEMMA Or3 == BitOr(0, 3) = 3
<1>1. \A i \in 0..7 : BitOf(0, i) = 0
  <2>1. \A i \in {0, 1, 2, 3, 4, 5, 6, 7} : BitOf(0, i) = 0
    BY Bitwise8
  <2>2. 0..7 = {0, 1, 2, 3, 4, 5, 6, 7}
    OBVIOUS
  <2>3. QED BY <2>1, <2>2
<1>2. \A i \in 0..7 : BitOf(3, i) \in 0..1
  BY Bits8, SMTT(20)
<1>3. \A i \in 0..7 : BitOf(0, i) * BitOf(3, i) = 0
  BY <1>1, <1>2
<1>4. BitAnd(0, 3) = 0
  BY <1>3 DEF BitAnd, Joined
<1>5. QED BY <1>4 DEF BitOr

LEMMA Or127 == BitOr(128, 127) = 255
<1>1. \A i \in 0..7 : BitOf(128, i) = 0 \/ BitOf(127, i) = 0
  <2>1. \A i \in {0, 1, 2, 3, 4, 5, 6, 7} : BitOf(128, i) = 0 \/ BitOf(127, i) = 0
    BY Bitwise8
  <2>2. 0..7 = {0, 1, 2, 3, 4, 5, 6, 7}
    OBVIOUS
  <2>3. QED BY <2>1, <2>2
<1>2. \A i \in 0..7 : BitOf(127, i) \in 0..1 /\ BitOf(128, i) \in 0..1
  BY Bits8, SMTT(20)
<1>3. \A i \in 0..7 : BitOf(128, i) * BitOf(127, i) = 0
  BY <1>1, <1>2
<1>4. BitAnd(128, 127) = 0
  BY <1>3 DEF BitAnd, Joined
<1>5. QED BY <1>4 DEF BitOr

(* The tables a mode uses. *)
TileTables(tables, b) ==
  /\ tables.col = (IF b \in 1..2 THEN 8192 ELSE 0)
  /\ tables.cgp = (IF b = 0 THEN 2048 ELSE 0)
  /\ tables.atr = (IF b = 0 THEN 0 ELSE 6912)
  /\ tables.pat = (IF b = 0 THEN 0 ELSE 14336)

LEMMA TablesAre ==
  ASSUME NEW w, WorkShape(w), NEW b \in 0..3
  PROVE  /\ \E n \in 0..127 : w.tables[b].nam = 1024 * n
         /\ TileTables(w.tables[b], b)
<1>1. \A f \in TableFields \ {"nam"} : w.tables[b][f] = BootTables[b][f]
  BY DEF WorkShape, TablesOf
<1>2. \E n \in 0..127 : w.tables[b].nam = 1024 * n
  BY DEF WorkShape, TablesOf, NamesAt
<1>3. /\ w.tables[b].col = BootTables[b].col /\ w.tables[b].cgp = BootTables[b].cgp
      /\ w.tables[b].atr = BootTables[b].atr /\ w.tables[b].pat = BootTables[b].pat
  BY <1>1 DEF TableFields
<1>4. /\ BootTables[b].col = (IF b \in 1..2 THEN 8192 ELSE 0)
      /\ BootTables[b].cgp = (IF b = 0 THEN 2048 ELSE 0)
      /\ BootTables[b].atr = (IF b = 0 THEN 0 ELSE 6912)
      /\ BootTables[b].pat = (IF b = 0 THEN 0 ELSE 14336)
  BY DEF BootTables
<1>5. TileTables(w.tables[b], b)
  BY <1>3, <1>4 DEF TileTables
<1>6. QED BY <1>2, <1>5

LEMMA TileWrites ==
  ASSUME NEW w, WorkShape(w), NEW mode \in 0..3
  PROVE  LET f == TileRegs(w, mode) IN
         /\ DOMAIN f \subseteq 0..7 /\ {0, 1, 2, 7} \subseteq DOMAIN f /\ Writes(f)
         /\ f[0] = (IF mode = 2 THEN 2 ELSE 0)
         /\ f[1] = (CASE mode = 0 -> 240 [] mode = 3 -> 232 [] OTHER -> 224)
         /\ f[2] * 1024 = w.tables[mode].nam
         /\ mode \in 1..3 => 5 \in DOMAIN f /\ f[5] * 128 = w.tables[mode].atr
<1> DEFINE f == TileRegs(w, mode)
           t == w.tables[mode]
<1>0. TableBlock(mode) = mode
  BY DEF TableBlock
<1>1. PICK n \in 0..127 : t.nam = 1024 * n
  BY TablesAre
<1>2. /\ t.col = (IF mode \in 1..2 THEN 8192 ELSE 0) /\ t.cgp = (IF mode = 0 THEN 2048 ELSE 0)
      /\ t.atr = (IF mode = 0 THEN 0 ELSE 6912) /\ t.pat = (IF mode = 0 THEN 0 ELSE 14336)
  <2>1. TileTables(t, mode)
    BY TablesAre
  <2> QED  BY <2>1 DEF TileTables
<1>3. f = [r \in IF mode = 0 THEN {0, 1, 2, 4, 7} ELSE 0..7 |->
         CASE r = 0 -> IF mode = 2 THEN 2 ELSE 0
           [] r = 1 -> (CASE mode = 0 -> 240 [] mode = 3 -> 232 [] OTHER -> 224)
           [] r = 2 -> t.nam \div 1024
           [] r = 3 -> IF mode = 2 THEN BitOr(t.col \div 64, 127) ELSE t.col \div 64
           [] r = 4 -> IF mode = 2 THEN BitOr(t.cgp \div 2048, 3) ELSE t.cgp \div 2048
           [] r = 5 -> t.atr \div 128
           [] r = 6 -> t.pat \div 2048
           [] OTHER -> Pair(w.ink.fore, IF mode = 0 THEN w.ink.border ELSE w.ink.back)]
  BY <1>0 DEF TileRegs
<1> HIDE DEF f, t
<1>4. DOMAIN f = IF mode = 0 THEN {0, 1, 2, 4, 7} ELSE 0..7
  BY <1>3
<1>5. /\ f[0] = (IF mode = 2 THEN 2 ELSE 0)
      /\ f[1] = (CASE mode = 0 -> 240 [] mode = 3 -> 232 [] OTHER -> 224)
      /\ f[2] = t.nam \div 1024
      /\ f[4] = IF mode = 2 THEN BitOr(t.cgp \div 2048, 3) ELSE t.cgp \div 2048
      /\ f[7] = Pair(w.ink.fore, IF mode = 0 THEN w.ink.border ELSE w.ink.back)
  BY <1>3
<1>6. mode # 0 =>
        /\ f[3] = IF mode = 2 THEN BitOr(t.col \div 64, 127) ELSE t.col \div 64
        /\ f[5] = t.atr \div 128
        /\ f[6] = t.pat \div 2048
  BY <1>3
<1>7. f[2] = n /\ f[2] * 1024 = t.nam
  BY <1>1, <1>5, Zeroth
<1>8. f[0] \in Byte /\ f[1] \in Byte /\ f[2] \in Byte
  BY <1>5, <1>7 DEF Byte
<1>9. f[4] \in Byte
  <2>1. CASE mode = 2
    <3>1. t.cgp \div 2048 = 0
      BY <1>2, <2>1
    <3>2. f[4] = 3
      BY <1>5, <2>1, <3>1, Or3
    <3>3. QED BY <3>2 DEF Byte
  <2>2. CASE mode # 2
    BY <1>2, <1>5, <2>2 DEF Byte
  <2>3. QED BY <2>1, <2>2
<1>10. f[7] \in Byte
  <2>1. w.ink.fore \in 0..255 /\ w.ink.back \in 0..255 /\ w.ink.border \in 0..255
    BY DEF WorkShape, Byte
  <2>2. ASSUME NEW a \in 0..255, NEW z \in 0..255 PROVE Pair(a, z) \in Byte
    BY DEF Pair, Byte
  <2>3. f[7] = Pair(w.ink.fore, w.ink.border) \/ f[7] = Pair(w.ink.fore, w.ink.back)
    BY <1>5
  <2>4. QED BY <2>1, <2>2, <2>3
<1>11. mode # 0 => f[3] \in Byte
  <2>1. CASE mode = 2
    <3>1. t.col \div 64 = 128
      BY <1>2, <2>1
    <3>2. f[3] = 255
      BY <1>6, <2>1, <3>1, Or127
    <3>3. QED BY <3>2 DEF Byte
  <2>2. CASE mode \in {1, 3}
    BY <1>2, <1>6, <2>2 DEF Byte
  <2>3. QED BY <2>1, <2>2
<1>12. mode # 0 => f[5] = 54 /\ f[6] = 7 /\ f[5] * 128 = t.atr
  BY <1>2, <1>6
<1>13. Writes(f)
  <2>1. \A r \in DOMAIN f : r \in {0, 1, 2, 3, 4, 5, 6, 7} /\ (mode = 0 => r \notin {3, 5, 6})
    BY <1>4
  <2>2. \A r \in DOMAIN f : f[r] \in Byte
    BY <2>1, <1>8, <1>9, <1>10, <1>11, <1>12 DEF Byte
  <2>3. QED BY <1>4, <2>2 DEF Writes
<1>14. QED
  BY <1>4, <1>5, <1>7, <1>12, <1>13 DEF f, t

LEMMA BitmapWrites ==
  ASSUME NEW c, ChipShape(c), NEW w, WorkShape(w), NEW mode \in 4..8
  PROVE  LET f == BitmapRegs(c, w, mode) IN
         /\ DOMAIN f = {0, 1, 2, 5, 6, 7, 9, 11} /\ Writes(f)
         /\ f[0] = (CASE mode = 4 -> 4 [] mode = 5 -> 6 [] mode = 6 -> 8 [] mode = 7 -> 10
                      [] OTHER -> 14)
         /\ f[1] = 96
         /\ BitOf(f[9], 7) = 1
<1> DEFINE f == BitmapRegs(c, w, mode)
<1>1. DOMAIN f = {0, 1, 2, 5, 6, 7, 9, 11}
  BY DEF BitmapRegs
<1>2. /\ f[0] = (CASE mode = 4 -> 4 [] mode = 5 -> 6 [] mode = 6 -> 8 [] mode = 7 -> 10
                   [] OTHER -> 14)
      /\ f[1] = 96 /\ f[2] = 31 /\ f[5] = (IF mode < 7 THEN 239 ELSE 247)
      /\ f[6] = (CASE mode = 4 -> 3 [] mode \in {5, 6} -> 15 [] OTHER -> 30)
      /\ f[7] = w.ink.border % 16
      /\ f[9] = Low7(c.reg[9]) + 128
      /\ f[11] = (IF mode < 7 THEN 0 ELSE 1)
  BY DEF BitmapRegs
<1> HIDE DEF f
<1>3. c.reg[9] \in 0..255 /\ w.ink.border \in 0..255
  <2>1. c.reg \in [0..11 -> 0..255]
    BY DEF ChipShape, Byte
  <2>2. w.ink.border \in 0..255
    BY DEF WorkShape, Byte
  <2> QED  BY <2>1, <2>2
<1>4. f[9] \in 0..255 /\ BitOf(f[9], 7) = 1
  <2> DEFINE b == c.reg[9]
  <2>1. b \in 0..255
    BY <1>3
  <2> HIDE DEF b
  <2>2. Low7(b) + 128 \in 0..255 /\ BitOf(Low7(b) + 128, 7) = 1
    BY <2>1, Low7Bits
  <2>3. f[9] = Low7(b) + 128
    BY <1>2 DEF b
  <2>4. QED BY <2>2, <2>3
<1>5. /\ f[0] \in Byte /\ f[1] \in Byte /\ f[2] \in Byte /\ f[5] \in Byte
      /\ f[6] \in Byte /\ f[7] \in Byte /\ f[11] \in Byte
  BY <1>2, <1>3 DEF Byte
<1>6. Writes(f)
  BY <1>1, <1>4, <1>5 DEF Writes, Byte
<1>7. QED BY <1>1, <1>2, <1>4, <1>6 DEF f

(* The mode each screen's registers 0 and 1 choose. *)
LEMMA TileModes ==
  /\ ModeOfRegs(0, 240) = "Text" /\ ModeOfRegs(0, 224) = "Graphic1"
  /\ ModeOfRegs(2, 224) = "Graphic2" /\ ModeOfRegs(0, 232) = "Multicolour"
<1>1. /\ BitOf(240, 4) = 1 /\ BitOf(224, 4) = 0 /\ BitOf(224, 3) = 0
      /\ BitOf(232, 4) = 0 /\ BitOf(232, 3) = 1
  BY Bitwise8
<1>2. /\ BitmapOrTile[((0 \div 2) % 8) + 1] = "Graphic1"
      /\ BitmapOrTile[((2 \div 2) % 8) + 1] = "Graphic2"
  <2>1. ((0 \div 2) % 8) + 1 = 1 /\ ((2 \div 2) % 8) + 1 = 2
    OBVIOUS
  <2>2. BitmapOrTile[1] = "Graphic1" /\ BitmapOrTile[2] = "Graphic2"
    BY DEF BitmapOrTile
  <2>3. QED BY <2>1, <2>2
<1>3. QED BY <1>1, <1>2 DEF ModeOfRegs, Bit

LEMMA BitmapModes ==
  /\ ModeOfRegs(4, 96) = "Graphic3" /\ ModeOfRegs(6, 96) = "Graphic4"
  /\ ModeOfRegs(8, 96) = "Graphic5" /\ ModeOfRegs(10, 96) = "Graphic6"
  /\ ModeOfRegs(14, 96) = "Graphic7"
<1>1. BitOf(96, 4) = 0 /\ BitOf(96, 3) = 0
  BY Bitwise8
<1>2. /\ ((4 \div 2) % 8) + 1 = 3 /\ ((6 \div 2) % 8) + 1 = 4 /\ ((8 \div 2) % 8) + 1 = 5
      /\ ((10 \div 2) % 8) + 1 = 6 /\ ((14 \div 2) % 8) + 1 = 8
  OBVIOUS
<1>3. /\ BitmapOrTile[3] = "Graphic3" /\ BitmapOrTile[4] = "Graphic4"
      /\ BitmapOrTile[5] = "Graphic5" /\ BitmapOrTile[6] = "Graphic6"
      /\ BitmapOrTile[8] = "Graphic7"
  BY DEF BitmapOrTile
<1>4. QED BY <1>1, <1>2, <1>3 DEF ModeOfRegs, Bit

(* The chip shows the screen of the work area: ScreenAsAsked of any two.   *)
AsAsked(c, w) ==
  /\ Mode(c) = ModeName[w.mode + 1]
  /\ Bit(c.reg[9], 7) <=> w.mode > 3
  /\ w.mode <= 3 => c.reg[2] * 1024 = Table(w).nam
  /\ w.mode \in 1..3 /\ ~c.v9938 => SpriteAttr(c) = Table(w).atr

(* All that a screen's registers make of a chip. *)
LEMMA ScreenWritten ==
  ASSUME NEW c, ChipShape(c), NEW w, WorkShape(w), NEW mode \in 0..8
  PROVE  LET f == ScreenRegs(c, w, mode) IN
         /\ Writes(f)
         /\ mode <= 3 => (Write(c, f).v9938 <=> c.v9938)
         /\ 8 \notin DOMAIN f
         /\ \A v : /\ WorkShape(v) /\ v.mode = mode /\ v.tables = w.tables
                   => AsAsked(Write(c, f), v)
<1> DEFINE f == ScreenRegs(c, w, mode)
           d == Write(c, f)
<1>1. CASE mode <= 3
  <2> DEFINE g == TileRegs(w, mode)
             h == LinesOff(c)
  <2>0. mode \in 0..3
    BY <1>1
  <2>1. f = Over(g, h)
    BY <1>1 DEF ScreenRegs
  <2>2. /\ DOMAIN g \subseteq 0..7 /\ {0, 1, 2, 7} \subseteq DOMAIN g /\ Writes(g)
        /\ g[0] = (IF mode = 2 THEN 2 ELSE 0)
        /\ g[1] = (CASE mode = 0 -> 240 [] mode = 3 -> 232 [] OTHER -> 224)
        /\ g[2] * 1024 = w.tables[mode].nam
        /\ mode \in 1..3 => 5 \in DOMAIN g /\ g[5] * 128 = w.tables[mode].atr
    BY <2>0, TileWrites
  <2>3. c.reg[9] \in 0..255
    BY DEF ChipShape, Byte
  <2>4. /\ DOMAIN h = IF c.v9938 THEN {9} ELSE {}
        /\ c.v9938 => h[9] \in Byte /\ BitOf(h[9], 7) = 0
    <3>1. CASE c.v9938
      <4>1. h = Only(9, Low7(c.reg[9]))
        BY <3>1 DEF LinesOff
      <4>2. DOMAIN h = {9} /\ h[9] = Low7(c.reg[9])
        BY <4>1 DEF Only
      <4>3. /\ Low7(c.reg[9]) \in 0..127 /\ BitOf(Low7(c.reg[9]), 7) = 0
        <5> DEFINE b == c.reg[9]
        <5> HIDE DEF b
        <5>1. b \in 0..255
          BY <2>3 DEF b
        <5>2. Low7(b) \in 0..127 /\ BitOf(Low7(b), 7) = 0
          BY <5>1, Low7Bits
        <5>3. QED BY <5>2 DEF b
      <4>4. QED BY <3>1, <4>2, <4>3 DEF Byte
    <3>2. CASE ~c.v9938
      <4>1. h = << >>
        BY <3>2 DEF LinesOff
      <4>2. DOMAIN h = {}
        BY <4>1
      <4>3. QED BY <3>2, <4>2
    <3>3. QED BY <3>1, <3>2
  <2> HIDE DEF g, h, f
  <2>5. /\ DOMAIN f = (DOMAIN g) \cup DOMAIN h
        /\ \A r \in (DOMAIN g) \cup DOMAIN h : f[r] = IF r \in DOMAIN g THEN g[r] ELSE h[r]
    BY <2>1 DEF Over
  <2>6. Writes(f)
    BY <2>2, <2>4, <2>5 DEF Writes, Byte
  <2>7. /\ ChipShape(d)
        /\ \A r \in 0..11 : d.reg[r] = IF r \in DOMAIN f THEN f[r] ELSE c.reg[r]
        /\ d.v9938 <=> c.v9938 \/ \E r \in DOMAIN f : r > 7
    BY <2>6, Written
  <2> HIDE DEF d
  <2>8. d.v9938 <=> c.v9938
    <3>1. (\E r \in DOMAIN f : r > 7) => c.v9938
      BY <2>2, <2>4, <2>5
    <3>2. QED BY <2>7, <3>1, Zenon
  <2>9. /\ d.reg[0] = g[0] /\ d.reg[1] = g[1] /\ d.reg[2] = g[2]
        /\ mode \in 1..3 => d.reg[5] = g[5]
    BY <2>2, <2>5, <2>7
  <2>10. BitOf(d.reg[9], 7) = 0
    <3>1. CASE c.v9938
      BY <3>1, <2>2, <2>4, <2>5, <2>7
    <3>2. CASE ~c.v9938
      <4>1. d.reg[9] = c.reg[9] /\ c.reg[9] = 0
        BY <3>2, <2>2, <2>4, <2>5, <2>7 DEF ChipShape
      <4>2. BitOf(0, 7) = 0
        BY Bitwise8
      <4>3. QED BY <4>1, <4>2
    <3>3. QED BY <3>1, <3>2
  <2>11. Mode(d) = ModeName[mode + 1]
    <3>1. Mode(d) = ModeOfRegs(d.reg[0], d.reg[1])
      BY DEF Mode, ModeOfRegs
    <3>2. /\ ModeName[1] = "Text" /\ ModeName[2] = "Graphic1" /\ ModeName[3] = "Graphic2"
          /\ ModeName[4] = "Multicolour"
      BY DEF ModeName
    <3>3. \/ mode = 0 /\ g[0] = 0 /\ g[1] = 240 /\ mode + 1 = 1
          \/ mode = 1 /\ g[0] = 0 /\ g[1] = 224 /\ mode + 1 = 2
          \/ mode = 2 /\ g[0] = 2 /\ g[1] = 224 /\ mode + 1 = 3
          \/ mode = 3 /\ g[0] = 0 /\ g[1] = 232 /\ mode + 1 = 4
      BY <2>0, <2>2
    <3>4. QED BY <2>9, <3>1, <3>2, <3>3, TileModes
  <2>12. ASSUME NEW v, v.mode = mode, v.tables = w.tables PROVE AsAsked(d, v)
    <3>1. Table(v) = w.tables[mode]
      BY <2>0, <2>12 DEF Table, TableBlock
    <3>2. d.reg[2] * 1024 = Table(v).nam
      BY <2>2, <2>9, <3>1
    <3>3. mode \in 1..3 /\ ~d.v9938 => SpriteAttr(d) = Table(v).atr
      BY <2>2, <2>9, <3>1 DEF SpriteAttr
    <3>4. ~Bit(d.reg[9], 7)
      BY <2>10 DEF Bit
    <3>5. QED BY <1>1, <2>0, <2>11, <2>12, <3>2, <3>3, <3>4 DEF AsAsked
  <2>13. 8 \notin DOMAIN f
    BY <2>2, <2>4, <2>5
  <2>14. QED BY <2>6, <2>8, <2>12, <2>13 DEF f, d
<1>2. CASE mode > 3
  <2>0. mode \in 4..8
    BY <1>2
  <2>1. f = BitmapRegs(c, w, mode)
    BY <1>2 DEF ScreenRegs
  <2>2. /\ DOMAIN f = {0, 1, 2, 5, 6, 7, 9, 11} /\ Writes(f)
        /\ f[0] = (CASE mode = 4 -> 4 [] mode = 5 -> 6 [] mode = 6 -> 8 [] mode = 7 -> 10
                     [] OTHER -> 14)
        /\ f[1] = 96
        /\ BitOf(f[9], 7) = 1
    BY <2>0, <2>1, BitmapWrites
  <2> HIDE DEF f
  <2>3. /\ ChipShape(d)
        /\ \A r \in 0..11 : d.reg[r] = IF r \in DOMAIN f THEN f[r] ELSE c.reg[r]
    BY <2>2, Written
  <2> HIDE DEF d
  <2>4. d.reg[0] = f[0] /\ d.reg[1] = f[1] /\ d.reg[9] = f[9]
    BY <2>2, <2>3
  <2>5. Mode(d) = ModeName[mode + 1]
    <3>1. Mode(d) = ModeOfRegs(d.reg[0], d.reg[1])
      BY DEF Mode, ModeOfRegs
    <3>2. /\ ModeName[5] = "Graphic3" /\ ModeName[6] = "Graphic4" /\ ModeName[7] = "Graphic5"
          /\ ModeName[8] = "Graphic6" /\ ModeName[9] = "Graphic7"
      BY DEF ModeName
    <3>3. \/ mode = 4 /\ f[0] = 4 /\ mode + 1 = 5
          \/ mode = 5 /\ f[0] = 6 /\ mode + 1 = 6
          \/ mode = 6 /\ f[0] = 8 /\ mode + 1 = 7
          \/ mode = 7 /\ f[0] = 10 /\ mode + 1 = 8
          \/ mode = 8 /\ f[0] = 14 /\ mode + 1 = 9
      BY <2>0, <2>2
    <3>4. QED BY <2>2, <2>4, <3>1, <3>2, <3>3, BitmapModes
  <2>6. ASSUME NEW v, v.mode = mode PROVE AsAsked(d, v)
    BY <1>2, <2>0, <2>2, <2>4, <2>5, <2>6 DEF AsAsked, Bit
  <2>7. QED BY <1>2, <2>2, <2>6 DEF f, d
<1>3. QED BY <1>1, <1>2

-----------------------------------------------------------------------------
(* The inductive invariant of the screens. *)

ScreenInv ==
  /\ program \in Programs
  /\ WorkShape(work) /\ ChipShape(chip)
  /\ saved \in [0..11 -> Byte]
  /\ CopiesAgree
  /\ AsAsked(chip, work)

LEMMA ScreenInvKnown == ScreenInv => ScreenIsKnown
  BY DEF ScreenInv, ScreenIsKnown, TypeOK, ScreenAsAsked, AsAsked, ChipShape, WorkShape, Byte

(* What only video memory was written in. *)
SameRegs(c, d) ==
  /\ DOMAIN d = DOMAIN c
  /\ d.reg = c.reg /\ d.v9938 = c.v9938 /\ d.pal = c.pal

LEMMA SameShape ==
  ASSUME NEW c, NEW d, ChipShape(c), SameRegs(c, d)
  PROVE  ChipShape(d)
  BY DEF ChipShape, SameRegs

LEMMA Painted ==
  ASSUME NEW c, ChipShape(c), NEW v
  PROVE  SameRegs(c, [c EXCEPT !.vram = v])
  BY DEF ChipShape, SameRegs, ChipFields

LEMMA Paints ==
  ASSUME NEW c, ChipShape(c)
  PROVE  /\ \A at, n, v : SameRegs(c, FillVRAM(c, at, n, v))
         /\ \A at, v : SameRegs(c, VramWrite(c, at, v))
         /\ \A w : SameRegs(c, ClsScreen(c, w))
         /\ \A w, x, y, v : SameRegs(c, PutGlyph(c, w, x, y, v))
         /\ \A w : SameRegs(c, ScrollUp(c, w))
         /\ \A w, pal : SameRegs(c, PaletteShadow(c, w, pal))
         /\ SameRegs(c, c)
<1>1. \A at, n, v : SameRegs(c, FillVRAM(c, at, n, v))
  BY Painted DEF FillVRAM
<1>2. \A at, v : SameRegs(c, VramWrite(c, at, v))
  BY <1>1 DEF VramWrite
<1>3. \A w : SameRegs(c, ClsScreen(c, w))
  BY <1>1 DEF ClsScreen
<1>4. \A w, x, y, v : SameRegs(c, PutGlyph(c, w, x, y, v))
  BY <1>2 DEF PutGlyph
<1>5. \A w : SameRegs(c, ScrollUp(c, w))
  BY Painted DEF ScrollUp
<1>6. \A w, pal : SameRegs(c, PaletteShadow(c, w, pal))
  BY Painted DEF PaletteShadow
<1>7. SameRegs(c, c)
  BY DEF SameRegs
<1>8. QED BY <1>1, <1>2, <1>3, <1>4, <1>5, <1>6, <1>7

(* The screen stays the one asked for while the registers that choose it   *)
(* and the mode and its tables stay.                                       *)
Stays(c, d, w, v) ==
  /\ (d.reg[0] \div 2) % 8 = (c.reg[0] \div 2) % 8
  /\ Bit(d.reg[1], 3) <=> Bit(c.reg[1], 3)
  /\ Bit(d.reg[1], 4) <=> Bit(c.reg[1], 4)
  /\ Bit(d.reg[9], 7) <=> Bit(c.reg[9], 7)
  /\ d.reg[2] = c.reg[2] /\ d.reg[5] = c.reg[5]
  /\ c.v9938 => d.v9938
  /\ v.mode = w.mode
  /\ Table(v).nam = Table(w).nam /\ Table(v).atr = Table(w).atr

LEMMA StillAsked ==
  ASSUME NEW c, NEW d, NEW w, NEW v, AsAsked(c, w), Stays(c, d, w, v)
  PROVE  AsAsked(d, v)
<1>1. Mode(d) = Mode(c)
  BY DEF Stays, Mode
<1>2. ~d.v9938 => ~c.v9938 /\ SpriteAttr(d) = SpriteAttr(c)
  BY DEF Stays, SpriteAttr
<1>3. QED BY <1>1, <1>2 DEF AsAsked, Stays

LEMMA Quiet ==
  ASSUME ScreenInv, program' = program, saved' = saved, SameRegs(chip, chip'),
         WorkShape(work'), work'.mode = work.mode,
         Table(work').nam = Table(work).nam, Table(work').atr = Table(work).atr
  PROVE  ScreenInv'
<1>1. ChipShape(chip')
  BY SameShape DEF ScreenInv
<1>2. Stays(chip, chip', work, work')
  BY DEF Stays, SameRegs
<1>3. AsAsked(chip', work')
  BY <1>2, StillAsked DEF ScreenInv
<1>4. CopiesAgree'
  BY DEF ScreenInv, CopiesAgree, SameRegs
<1>5. QED BY <1>1, <1>3, <1>4 DEF ScreenInv

(* Registers written to the chip and to the copies.                        *)
LEMMA CopiesWritten ==
  ASSUME ScreenInv, NEW f, Writes(f),
         chip'.reg = Write(chip, f).reg, saved' = Over(f, saved)
  PROVE  saved' \in [0..11 -> Byte] /\ CopiesAgree'
<1>1. \A r \in 0..11 : chip'.reg[r] = IF r \in DOMAIN f THEN f[r] ELSE chip.reg[r]
  BY Written DEF ScreenInv
<1>2. DOMAIN saved = 0..11 /\ (DOMAIN f) \cup (0..11) = 0..11
  BY DEF ScreenInv, Writes
<1>3. saved' = [r \in 0..11 |-> IF r \in DOMAIN f THEN f[r] ELSE saved[r]]
  BY <1>2 DEF Over
<1>4. \A r \in 0..11 : saved'[r] = IF r \in DOMAIN f THEN f[r] ELSE saved[r]
  BY <1>3
<1>5. saved' \in [0..11 -> Byte]
  <2>1. \A r \in 0..11 : (IF r \in DOMAIN f THEN f[r] ELSE saved[r]) \in Byte
    BY DEF ScreenInv, Writes
  <2>2. QED BY <1>3, <2>1
<1>6. CopiesAgree'
  <2>1. \A r \in 0..11 : r \in DOMAIN f => saved'[r] = chip'.reg[r]
    BY <1>1, <1>4
  <2>2. \A r \in 0..11 : r \notin DOMAIN f => saved'[r] = saved[r] /\ chip'.reg[r] = chip.reg[r]
    BY <1>1, <1>4
  <2>3. \A r \in 0..11 \ {1, 7, 8} : saved'[r] = chip'.reg[r]
    BY <2>1, <2>2 DEF ScreenInv, CopiesAgree
  <2>4. \A i \in 0..7 \ {6} : Bit(saved'[1], i) = Bit(chip'.reg[1], i)
    BY <2>1, <2>2 DEF ScreenInv, CopiesAgree
  <2>5. saved'[8] # chip'.reg[8] => saved'[8] = 8 /\ chip'.reg[8] = 0
    BY <2>1, <2>2 DEF ScreenInv, CopiesAgree
  <2>6. QED BY <2>3, <2>4, <2>5 DEF CopiesAgree
<1>7. QED BY <1>5, <1>6

-----------------------------------------------------------------------------
(* The actions. *)

LEMMA Shapes ==
  ASSUME NEW w, WorkShape(w)
  PROVE  /\ \A x \in 1..Width, y \in 1..Height :
              LET v == [w EXCEPT !.x = x, !.y = y]
              IN  WorkShape(v) /\ v.mode = w.mode /\ v.tables = w.tables
         /\ \A page :
              LET v == [w EXCEPT !.page = page]
              IN  WorkShape(v) /\ v.mode = w.mode /\ v.tables = w.tables
         /\ \A ink \in Inks :
              LET v == [w EXCEPT !.ink = ink]
              IN  WorkShape(v) /\ v.mode = w.mode /\ v.tables = w.tables
         /\ \A mode \in 0..8 :
              LET v == Entered(w, mode)
              IN  WorkShape(v) /\ v.mode = mode /\ v.tables = w.tables
<1>1. ASSUME NEW x \in 1..Width, NEW y \in 1..Height
      PROVE  LET v == [w EXCEPT !.x = x, !.y = y]
             IN  WorkShape(v) /\ v.mode = w.mode /\ v.tables = w.tables
  BY DEF WorkShape, TablesOf, WorkFields
<1>2. ASSUME NEW page
      PROVE  LET v == [w EXCEPT !.page = page]
             IN  WorkShape(v) /\ v.mode = w.mode /\ v.tables = w.tables
  BY DEF WorkShape, TablesOf, WorkFields
<1>3. ASSUME NEW ink \in Inks
      PROVE  LET v == [w EXCEPT !.ink = ink]
             IN  WorkShape(v) /\ v.mode = w.mode /\ v.tables = w.tables
  <2>1. {ink.fore, ink.back, ink.border} \subseteq Byte
    BY ScreenAssumption DEF Byte
  <2>2. QED BY <2>1 DEF WorkShape, TablesOf, WorkFields
<1>4. ASSUME NEW mode \in 0..8
      PROVE  LET v == Entered(w, mode)
             IN  WorkShape(v) /\ v.mode = mode /\ v.tables = w.tables
  <2>1. 1 \in 1..Width /\ 1 \in 1..Height
    BY ScreenAssumption
  <2>2. QED BY <2>1 DEF Entered, WorkShape, TablesOf, WorkFields
<1>5. QED BY <1>1, <1>2, <1>3, <1>4

LEMMA SameTable ==
  ASSUME NEW w, NEW v, v.mode = w.mode, v.tables = w.tables
  PROVE  Table(v) = Table(w)
  BY DEF Table

LEMMA ScreenStart == Init => ScreenInv
<1> SUFFICES ASSUME Init PROVE ScreenInv
  OBVIOUS
<1>1. /\ chip = [reg |-> BootReg, v9938 |-> FALSE, pal |-> [e \in Entries |-> First],
                 vram |-> [p \in program.cells |-> Space]]
      /\ saved = [BootReg EXCEPT ![8] = 8]
      /\ work = [mode |-> 1, old |-> 1, page |-> 0, ink |-> [fore |-> 15, back |-> 4, border |-> 4],
                 x |-> 1, y |-> 1, tables |-> BootTables]
      /\ program \in Programs
  BY DEF Init
<1>2. /\ BootReg[0] = 0 /\ BootReg[1] = 96 /\ BootReg[2] = 6 /\ BootReg[5] = 54
      /\ BootReg[8] = 0 /\ BootReg[9] = 0
      /\ BootReg \in [0..11 -> Byte]
  <2>1. \A i \in 1..8 : Boot[i] \in Byte
    BY DEF Boot, Byte
  <2>2. \A r \in 0..11 : (IF r < 8 THEN Boot[r + 1] ELSE 0) \in Byte
    BY <2>1 DEF Byte
  <2>3. BootReg \in [0..11 -> Byte]
    BY <2>2 DEF BootReg
  <2>4. Boot[1] = 0 /\ Boot[2] = 96 /\ Boot[3] = 6 /\ Boot[6] = 54
    BY DEF Boot
  <2>5. BootReg[0] = Boot[0 + 1] /\ BootReg[1] = Boot[1 + 1] /\ BootReg[2] = Boot[2 + 1]
        /\ BootReg[5] = Boot[5 + 1] /\ BootReg[8] = 0 /\ BootReg[9] = 0
    BY DEF BootReg
  <2>6. QED BY <2>3, <2>4, <2>5
<1>3. ChipShape(chip)
  BY <1>1, <1>2 DEF ChipShape, ChipFields
<1>4. WorkShape(work)
  <2>1. TablesOf(work)
    <3>1. \A n \in 0..127 : 1024 * n \in NamesAt
      BY DEF NamesAt
    <3>2. 0 \in NamesAt /\ 2048 \in NamesAt /\ 6144 \in NamesAt
      <4>1. 1024 * 0 = 0 /\ 1024 * 2 = 2048 /\ 1024 * 6 = 6144
        OBVIOUS
      <4>2. QED BY <3>1, <4>1
    <3>3. QED BY <1>1, <3>2 DEF TablesOf, BootTables, TableFields
  <2>2. QED BY <1>1, <2>1, ScreenAssumption DEF WorkShape, WorkFields, Byte
<1>5. saved \in [0..11 -> Byte]
  BY <1>1, <1>2 DEF Byte
<1>6. CopiesAgree
  BY <1>1, <1>2 DEF CopiesAgree
<1>7. AsAsked(chip, work)
  <2>1. Mode(chip) = "Graphic1"
    <3>1. BitOf(96, 4) = 0 /\ BitOf(96, 3) = 0
      BY Bitwise8
    <3>2. ((0 \div 2) % 8) + 1 = 1 /\ BitmapOrTile[1] = "Graphic1"
      BY DEF BitmapOrTile
    <3>3. QED BY <1>1, <1>2, <3>1, <3>2 DEF Mode, Bit
  <2>2. ~Bit(chip.reg[9], 7)
    <3>1. BitOf(0, 7) = 0
      BY Bitwise8
    <3>2. QED BY <1>1, <1>2, <3>1 DEF Bit
  <2>3. Table(work).nam = 6144 /\ Table(work).atr = 6912
    BY <1>1 DEF Table, TableBlock, BootTables
  <2>4. ModeName[work.mode + 1] = "Graphic1"
    <3>1. work.mode + 1 = 2 /\ ModeName[2] = "Graphic1"
      BY <1>1 DEF ModeName
    <3>2. QED BY <3>1
  <2>5. QED BY <1>1, <1>2, <2>1, <2>2, <2>3, <2>4 DEF AsAsked, SpriteAttr
<1>8. QED BY <1>1, <1>3, <1>4, <1>5, <1>6, <1>7 DEF ScreenInv

-----------------------------------------------------------------------------
LEMMA Moved ==
  ASSUME NEW w, WorkShape(w), NEW v,
         \E x \in 1..Width, y \in 1..Height : v = [w EXCEPT !.x = x, !.y = y]
  PROVE  WorkShape(v) /\ v.mode = w.mode /\ v.tables = w.tables
  BY DEF WorkShape, TablesOf, WorkFields

LEMMA ScreenSet ==
  ASSUME ScreenInv, NEW mode \in 0..8, program' = program,
         work' = Entered(work, mode),
         SameRegs(Write(chip, ScreenRegs(chip, work, mode)), chip'),
         saved' = Over(ScreenRegs(chip, work, mode), saved)
  PROVE  ScreenInv'
<1> DEFINE f == ScreenRegs(chip, work, mode)
           d == Write(chip, f)
<1>1. Writes(f) /\ \A v : WorkShape(v) /\ v.mode = mode /\ v.tables = work.tables => AsAsked(d, v)
  BY ScreenWritten DEF ScreenInv
<1>2. WorkShape(work') /\ work'.mode = mode /\ work'.tables = work.tables
  BY Shapes DEF ScreenInv
<1>3. AsAsked(d, work')
  BY <1>1, <1>2
<1> HIDE DEF f
<1>4. ChipShape(d)
  BY <1>1, Written DEF ScreenInv
<1>5. ChipShape(chip')
  BY <1>4, SameShape DEF f
<1>6. chip'.reg = d.reg /\ chip'.v9938 = d.v9938
  BY DEF SameRegs, f
<1> HIDE DEF d
<1>7. AsAsked(chip', work')
  <2>1. Stays(d, chip', work', work')
    BY <1>6 DEF Stays
  <2>2. QED BY <1>3, <2>1, StillAsked
<1>8. saved' \in [0..11 -> Byte] /\ CopiesAgree'
  BY <1>1, <1>6, CopiesWritten DEF f, d
<1>9. QED BY <1>2, <1>5, <1>7, <1>8 DEF ScreenInv

LEMMA ModesKnown ==
  ASSUME ScreenInv
  PROVE  program.modes \subseteq 0..8
  BY ScreenAssumption DEF ScreenInv

LEMMA ChangeModeKeeps ==
  ASSUME ScreenInv, NEW mode \in 0..8, program' = program, ChangeMode(mode)
  PROVE  ScreenInv'
<1> DEFINE f == ScreenRegs(chip, work, mode)
           w == Entered(work, mode)
           d == Write(chip, f)
<1>1. chip' = ClsScreen(d, w) /\ saved' = Over(f, saved) /\ work' = w
  BY DEF ChangeMode
<1>2. ChipShape(d)
  BY ScreenWritten, Written DEF ScreenInv
<1>3. SameRegs(d, chip')
  BY <1>1, <1>2, Paints
<1>4. QED BY <1>1, <1>3, ScreenSet

LEMMA SetScreenKeeps ==
  ASSUME ScreenInv, NEW mode \in program.modes, SetScreen(mode)
  PROVE  ScreenInv'
<1> DEFINE f == ScreenRegs(chip, work, mode)
<1>1. program' = program /\ chip' = Write(chip, f) /\ saved' = Over(f, saved)
      /\ work' = Entered(work, mode) /\ mode \in 0..8
  BY ModesKnown DEF SetScreen, Calls, SetRegs
<1>2. SameRegs(Write(chip, f), chip')
  BY <1>1 DEF SameRegs
<1>3. QED BY <1>1, <1>2, ScreenSet

LEMMA TOTEXTKeeps ==
  ASSUME ScreenInv, TOTEXT
  PROVE  ScreenInv'
<1>1. work.old % 2 \in 0..8
  BY DEF ScreenInv, WorkShape
<1>2. QED BY <1>1, ChangeModeKeeps DEF TOTEXT, Calls

(* The entries that write video memory alone.                              *)
LEMMA PaintingKeeps ==
  ASSUME ScreenInv,
         \/ CLS \/ CLRSPR \/ \E hl \in Places, v \in Shades : WRTVRM(hl, v)
  PROVE  ScreenInv'
<1>0. ChipShape(chip) /\ WorkShape(work)
  BY DEF ScreenInv
<1>1. CASE CLS
  <2>1. SameRegs(chip, chip') /\ saved' = saved /\ program' = program
    BY <1>0, <1>1, Paints DEF CLS, Calls
  <2>2. work' = [work EXCEPT !.x = 1, !.y = 1] /\ 1 \in 1..Width /\ 1 \in 1..Height
    BY <1>1, ScreenAssumption DEF CLS
  <2>3. WorkShape(work') /\ work'.mode = work.mode /\ work'.tables = work.tables
    BY <1>0, <2>2, Shapes, ZenonT(30)
  <2>4. Table(work') = Table(work)
    BY <2>3, SameTable
  <2>5. QED BY <2>1, <2>3, <2>4, Quiet
<1>2. CASE CLRSPR
  <2>1. SameRegs(chip, chip') /\ saved' = saved /\ program' = program /\ work' = work
    BY <1>0, <1>2, Paints DEF CLRSPR, Calls
  <2>2. QED BY <1>0, <2>1, Quiet
<1>3. CASE \E hl \in Places, v \in Shades : WRTVRM(hl, v)
  <2>1. SameRegs(chip, chip') /\ saved' = saved /\ program' = program /\ work' = work
    BY <1>0, <1>3, Paints DEF WRTVRM, Calls
  <2>2. QED BY <1>0, <2>1, Quiet
<1>4. QED BY <1>1, <1>2, <1>3

(* The console: the cursor is never past its end.                          *)
LEMMA SettleKeeps ==
  ASSUME ScreenInv, program' = program, saved' = saved,
         NEW c, SameRegs(chip, c), NEW x \in 0..Width, NEW y \in 0..Height, Settle(c, x, y)
  PROVE  ScreenInv'
<1>0. ChipShape(chip) /\ WorkShape(work) /\ ChipShape(c)
  BY SameShape DEF ScreenInv
<1>1. /\ Width \in Nat \ {0} /\ Height \in Nat \ {0}
  BY ScreenAssumption
<1> DEFINE q == Wrap(x, y)
<1>2. q.x \in 0..Width - 1 /\ q.y \in 0..Height + 1
  BY <1>1 DEF Wrap
<1>3. /\ chip' = IF q.y >= Height THEN ScrollUp(c, work) ELSE c
      /\ work' = [work EXCEPT !.x = q.x + 1, !.y = (IF q.y >= Height THEN Height - 1 ELSE q.y) + 1]
  BY DEF Settle
<1> HIDE DEF q
<1>4. SameRegs(chip, chip')
  <2>1. SameRegs(c, chip')
    BY <1>0, <1>3, Paints
  <2>2. QED BY <2>1 DEF SameRegs
<1>5. q.x + 1 \in 1..Width /\ (IF q.y >= Height THEN Height - 1 ELSE q.y) + 1 \in 1..Height
  BY <1>1, <1>2
<1>6. WorkShape(work') /\ work'.mode = work.mode /\ work'.tables = work.tables
  <2> DEFINE a == q.x + 1
             b == (IF q.y >= Height THEN Height - 1 ELSE q.y) + 1
  <2>1. a \in 1..Width /\ b \in 1..Height /\ work' = [work EXCEPT !.x = a, !.y = b]
    BY <1>3, <1>5
  <2> HIDE DEF a, b
  <2>2. \E i \in 1..Width, j \in 1..Height : work' = [work EXCEPT !.x = i, !.y = j]
    BY <2>1
  <2>3. QED BY <1>0, <2>2, Moved
<1>7. Table(work') = Table(work)
  BY <1>6, SameTable
<1>8. QED BY <1>4, <1>6, <1>7, Quiet

LEMMA PrintingKeeps ==
  ASSUME ScreenInv,
         \/ \E c \in program.chars \cup {Space} : Type(c)
         \/ Return \/ LineFeed \/ Backspace
         \/ \E x, y \in 1..3 : POSIT(x, y)
  PROVE  ScreenInv'
<1>0. /\ ChipShape(chip) /\ WorkShape(work)
      /\ Width \in Nat \ {0} /\ Height \in Nat \ {0}
      /\ work.x \in 1..Width /\ work.y \in 1..Height
  BY ScreenAssumption DEF ScreenInv, WorkShape
<1>1. CASE \E c \in program.chars \cup {Space} : Type(c)
  <2>1. PICK c : Type(c)
    BY <1>1
  <2>2. SameRegs(chip, PutGlyph(chip, work, work.x - 1, work.y - 1, c))
    BY <1>0, Paints
  <2>3. work.x \in 0..Width /\ work.y - 1 \in 0..Height
    BY <1>0
  <2>4. QED BY <2>1, <2>2, <2>3, SettleKeeps DEF Type, Prints, Calls
<1>2. CASE Return
  <2>1. SameRegs(chip, chip) /\ 0 \in 0..Width /\ work.y - 1 \in 0..Height
    BY <1>0, Paints
  <2>2. QED BY <1>2, <2>1, SettleKeeps DEF Return, Prints, Calls
<1>3. CASE LineFeed
  <2>1. SameRegs(chip, chip) /\ work.x - 1 \in 0..Width /\ work.y \in 0..Height
    BY <1>0, Paints
  <2>2. QED BY <1>3, <2>1, SettleKeeps DEF LineFeed, Prints, Calls
<1>4. CASE Backspace
  <2>1. SameRegs(chip, PutGlyph(chip, work, work.x - 2, work.y - 1, Space))
    BY <1>0, Paints
  <2>2. work.x - 2 \in 0..Width /\ work.y - 1 \in 0..Height
    BY <1>0, <1>4 DEF Backspace
  <2>3. QED BY <1>4, <2>1, <2>2, SettleKeeps DEF Backspace, Prints, Calls
<1>5. CASE \E x, y \in 1..3 : POSIT(x, y)
  <2>1. PICK x \in 1..3, y \in 1..3 : POSIT(x, y)
    BY <1>5
  <2>2. x \in 1..Width /\ y \in 1..Height /\ work' = [work EXCEPT !.x = x, !.y = y]
    BY <1>0, <2>1 DEF POSIT
  <2>3. WorkShape(work') /\ work'.mode = work.mode /\ work'.tables = work.tables
    <3>1. \E i \in 1..Width, j \in 1..Height : work' = [work EXCEPT !.x = i, !.y = j]
      BY <2>2
    <3>2. QED BY <1>0, <3>1, Moved
  <2>4. Table(work') = Table(work)
    BY <2>3, SameTable
  <2>5. SameRegs(chip, chip') /\ saved' = saved /\ program' = program
    BY <2>1, Paints DEF POSIT, Prints, Calls, SameRegs
  <2>6. QED BY <2>3, <2>4, <2>5, Quiet
<1>6. QED BY <1>1, <1>2, <1>3, <1>4, <1>5

LEMMA WorkWritten ==
  ASSUME ScreenInv,
         \/ \E ink \in Inks : SetInk(ink)
         \/ \E page \in Pages : SetPage(page)
         \/ \E b \in 0..3 : MoveTable(b)
  PROVE  ScreenInv'
<1>0. ChipShape(chip) /\ WorkShape(work) /\ SameRegs(chip, chip)
  BY Paints DEF ScreenInv
<1>1. CASE \E ink \in Inks : SetInk(ink)
  <2>1. PICK ink \in Inks : SetInk(ink)
    BY <1>1
  <2>2. WorkShape(work') /\ work'.mode = work.mode /\ work'.tables = work.tables
    BY <1>0, <2>1, Shapes DEF SetInk
  <2>3. Table(work') = Table(work)
    BY <2>2, SameTable
  <2>4. QED BY <1>0, <2>1, <2>2, <2>3, Quiet DEF SetInk, Calls
<1>2. CASE \E page \in Pages : SetPage(page)
  <2>1. PICK page \in Pages : SetPage(page)
    BY <1>2
  <2>2. WorkShape(work') /\ work'.mode = work.mode /\ work'.tables = work.tables
    BY <1>0, <2>1, Shapes DEF SetPage
  <2>3. Table(work') = Table(work)
    BY <2>2, SameTable
  <2>4. QED BY <1>0, <2>1, <2>2, <2>3, Quiet DEF SetPage, Calls
<1>3. CASE \E b \in 0..3 : MoveTable(b)
  <2>1. PICK b \in 0..3 : MoveTable(b)
    BY <1>3
  <2>2. work' = [work EXCEPT !.tables[b].nam = SecondTable] /\ b # TableBlock(work.mode)
    BY <2>1 DEF MoveTable
  <2>3. /\ DOMAIN work' = WorkFields /\ work'.mode = work.mode /\ work'.old = work.old
        /\ work'.ink = work.ink /\ work'.x = work.x /\ work'.y = work.y
        /\ work'.tables = [work.tables EXCEPT ![b].nam = SecondTable]
    BY <1>0, <2>2 DEF WorkShape, WorkFields
  <2>4. SecondTable \in NamesAt
    BY ScreenAssumption DEF NamesAt
  <2>5. TablesOf(work')
    <3>1. DOMAIN work'.tables = 0..3
      BY <1>0, <2>3 DEF WorkShape, TablesOf
    <3>2. ASSUME NEW a \in 0..3
          PROVE  /\ DOMAIN work'.tables[a] = TableFields
                 /\ work'.tables[a].nam \in NamesAt
                 /\ \A f \in TableFields \ {"nam"} : work'.tables[a][f] = BootTables[a][f]
      <4>1. CASE a = b
        <5>1. work'.tables[a] = [work.tables[a] EXCEPT !.nam = SecondTable]
          BY <1>0, <2>3, <4>1 DEF WorkShape, TablesOf
        <5>2. DOMAIN work.tables[a] = TableFields
          BY <1>0 DEF WorkShape, TablesOf
        <5>3. \A f \in TableFields \ {"nam"} : work.tables[a][f] = BootTables[a][f]
          BY <1>0 DEF WorkShape, TablesOf
        <5>4. QED BY <2>4, <5>1, <5>2, <5>3 DEF TableFields
      <4>2. CASE a # b
        <5>1. work'.tables[a] = work.tables[a]
          BY <1>0, <2>3, <4>2 DEF WorkShape, TablesOf
        <5>2. QED BY <1>0, <5>1 DEF WorkShape, TablesOf
      <4>3. QED BY <4>1, <4>2
    <3>3. QED BY <3>1, <3>2 DEF TablesOf
  <2>6. WorkShape(work')
    BY <1>0, <2>3, <2>5 DEF WorkShape
  <2>7. Table(work') = Table(work)
    <3>1. TableBlock(work.mode) \in 0..3
      BY <1>0 DEF TableBlock, WorkShape
    <3>2. work'.tables[TableBlock(work.mode)] = work.tables[TableBlock(work.mode)]
      BY <1>0, <2>2, <2>3, <3>1 DEF WorkShape, TablesOf
    <3>3. QED BY <2>3, <3>2 DEF Table
  <2>8. QED BY <1>0, <2>1, <2>3, <2>6, <2>7, Quiet DEF MoveTable, Calls
<1>4. QED BY <1>1, <1>2, <1>3

-----------------------------------------------------------------------------
(* The entries that write registers. *)
LEMMA Rewritten ==
  ASSUME ScreenInv, program' = program, work' = work, NEW f, Writes(f), SetRegs(f),
         Stays(chip, Write(chip, f), work, work)
  PROVE  ScreenInv'
<1>1. chip' = Write(chip, f) /\ saved' = Over(f, saved)
  BY DEF SetRegs
<1>2. ChipShape(chip')
  BY <1>1, Written DEF ScreenInv
<1>3. saved' \in [0..11 -> Byte] /\ CopiesAgree'
  BY <1>1, CopiesWritten
<1>4. AsAsked(chip', work')
  BY <1>1, StillAsked DEF ScreenInv
<1>5. QED BY <1>2, <1>3, <1>4 DEF ScreenInv

LEMMA PairIsByte ==
  ASSUME NEW a \in Byte, NEW b \in Byte
  PROVE  Pair(a, b) \in Byte
  BY DEF Pair, Byte

(* Register 7 is no part of what a screen is.                              *)
LEMMA Seventh ==
  ASSUME ScreenInv, NEW v \in Byte
  PROVE  /\ Writes(Only(7, v))
         /\ Stays(chip, Write(chip, Only(7, v)), work, work)
<1>1. DOMAIN Only(7, v) = {7} /\ Only(7, v)[7] = v
  BY One
<1>2. Writes(Only(7, v))
  BY <1>1 DEF Writes
<1>3. /\ \A r \in 0..11 : r # 7 => Write(chip, Only(7, v)).reg[r] = chip.reg[r]
      /\ Write(chip, Only(7, v)).v9938 <=> chip.v9938 \/ \E r \in DOMAIN Only(7, v) : r > 7
  BY <1>1, <1>2, Written DEF ScreenInv
<1>4. QED BY <1>2, <1>3 DEF Stays

LEMMA SubCHGCLRKeeps ==
  ASSUME ScreenInv, SubCHGCLR
  PROVE  ScreenInv'
<1> DEFINE v == IF work.mode <= 3 THEN Pair(work.ink.fore, work.ink.back)
                ELSE work.ink.border % 16
<1>1. v \in Byte
  <2>1. work.ink.fore \in Byte /\ work.ink.back \in Byte /\ work.ink.border \in Byte
    BY DEF ScreenInv, WorkShape
  <2>2. Pair(work.ink.fore, work.ink.back) \in Byte
    BY <2>1, PairIsByte
  <2>3. work.ink.border % 16 \in Byte
    BY <2>1 DEF Byte
  <2>4. QED BY <2>2, <2>3
<1>2. program' = program /\ work' = work /\ SetRegs(Only(7, v))
  BY DEF SubCHGCLR, Calls
<1> HIDE DEF v
<1>3. QED BY <1>1, <1>2, Seventh, Rewritten

(* A bit flipped in the copy of a register that is no bit of the screen's. *)
LEMMA WRTVDPKeeps ==
  ASSUME ScreenInv, NEW r \in 0..11, NEW i \in 0..7, <<r, i>> \notin ScreenBits, WRTVDP(r, i)
  PROVE  ScreenInv'
<1> DEFINE b == saved[r]
           v == Flipped(b, i)
           f == Only(r, v)
<1>1. b \in 0..255
  BY DEF ScreenInv, Byte
<1> HIDE DEF b
<1>2. /\ v \in Byte
      /\ \A j \in 0..7 : j # i => BitOf(v, j) = BitOf(b, j)
  BY <1>1, FlippedBits DEF Byte
<1>3. program' = program /\ work' = work /\ SetRegs(f)
  BY DEF WRTVDP, Calls, b
<1> HIDE DEF v
<1>4. DOMAIN f = {r} /\ f[r] = v
  BY One
<1>5. Writes(f)
  BY <1>2, <1>4 DEF Writes
<1> DEFINE d == Write(chip, f)
<1>6. /\ \A s \in 0..11 : d.reg[s] = IF s = r THEN v ELSE chip.reg[s]
      /\ d.v9938 <=> chip.v9938 \/ \E s \in DOMAIN f : s > 7
  BY <1>4, <1>5, Written DEF ScreenInv
<1> HIDE DEF d, f
<1>7. /\ r # 2 /\ r # 5
      /\ r = 0 => i # 1 /\ i # 2 /\ i # 3
      /\ r = 1 => i # 3 /\ i # 4
      /\ r = 9 => i # 7
  BY DEF ScreenBits
<1>8. (d.reg[0] \div 2) % 8 = (chip.reg[0] \div 2) % 8
  <2>1. CASE r = 0
    <3>1. d.reg[0] = v /\ chip.reg[0] = b
      BY <1>6, <2>1 DEF ScreenInv, CopiesAgree, b
    <3>2. BitOf(v, 1) = BitOf(b, 1) /\ BitOf(v, 2) = BitOf(b, 2) /\ BitOf(v, 3) = BitOf(b, 3)
      BY <1>2, <1>7, <2>1
    <3>3. v \in 0..255
      BY <1>2 DEF Byte
    <3>4. (v \div 2) % 8 = (b \div 2) % 8
      BY <1>1, <3>2, <3>3, Middle
    <3>5. QED BY <3>1, <3>4
  <2>2. CASE r # 0
    BY <1>6, <2>2
  <2>3. QED BY <2>1, <2>2
<1>9. /\ Bit(d.reg[1], 3) <=> Bit(chip.reg[1], 3)
      /\ Bit(d.reg[1], 4) <=> Bit(chip.reg[1], 4)
  <2>1. CASE r = 1
    <3>1. d.reg[1] = v /\ saved[1] = b
      BY <1>6, <2>1 DEF b
    <3>2. BitOf(v, 3) = BitOf(b, 3) /\ BitOf(v, 4) = BitOf(b, 4)
      BY <1>2, <1>7, <2>1
    <3>3. (Bit(b, 3) <=> Bit(chip.reg[1], 3)) /\ (Bit(b, 4) <=> Bit(chip.reg[1], 4))
      <4>1. \A j \in 0..7 \ {6} : Bit(saved[1], j) = Bit(chip.reg[1], j)
        BY DEF ScreenInv, CopiesAgree
      <4>2. QED BY <3>1, <4>1
    <3>4. QED BY <3>1, <3>2, <3>3 DEF Bit
  <2>2. CASE r # 1
    BY <1>6, <2>2
  <2>3. QED BY <2>1, <2>2
<1>10. Bit(d.reg[9], 7) <=> Bit(chip.reg[9], 7)
  <2>1. CASE r = 9
    <3>1. d.reg[9] = v /\ chip.reg[9] = b
      BY <1>6, <2>1 DEF ScreenInv, CopiesAgree, b
    <3>2. BitOf(v, 7) = BitOf(b, 7)
      BY <1>2, <1>7, <2>1
    <3>3. QED BY <3>1, <3>2 DEF Bit
  <2>2. CASE r # 9
    BY <1>6, <2>2
  <2>3. QED BY <2>1, <2>2
<1>11. d.reg[2] = chip.reg[2] /\ d.reg[5] = chip.reg[5] /\ (chip.v9938 => d.v9938)
  BY <1>6, <1>7
<1>12. Stays(chip, d, work, work)
  BY <1>8, <1>9, <1>10, <1>11 DEF Stays
<1>13. QED BY <1>3, <1>5, <1>12, Rewritten DEF d

(* What goes to the chip alone.                                            *)
LEMMA PastTheCopy ==
  ASSUME ScreenInv, program' = program, saved' = saved, work' = work,
         ChipShape(chip'), Stays(chip, chip', work, work),
         \A r \in 0..11 \ {1, 7} : chip'.reg[r] = chip.reg[r],
         \A i \in 0..7 \ {6} : Bit(chip'.reg[1], i) = Bit(chip.reg[1], i)
  PROVE  ScreenInv'
<1>1. AsAsked(chip', work')
  BY StillAsked DEF ScreenInv
<1>2. CopiesAgree'
  <2>1. \A r \in 0..11 \ {1, 7, 8} : saved'[r] = chip'.reg[r]
    BY DEF ScreenInv, CopiesAgree
  <2>2. \A i \in 0..7 \ {6} : Bit(saved'[1], i) = Bit(chip'.reg[1], i)
    BY DEF ScreenInv, CopiesAgree
  <2>3. saved'[8] # chip'.reg[8] => saved'[8] = 8 /\ chip'.reg[8] = 0
    BY DEF ScreenInv, CopiesAgree
  <2>4. QED BY <2>1, <2>2, <2>3 DEF CopiesAgree
<1>3. QED BY <1>1, <1>2 DEF ScreenInv

(* A chip given one register's byte.                                       *)
LEMMA Given ==
  ASSUME NEW c, ChipShape(c), NEW r \in 0..8, NEW v \in Byte
  PROVE  LET d == [c EXCEPT !.reg[r] = v] IN
         /\ ChipShape(d) /\ d.reg[r] = v /\ d.v9938 = c.v9938
         /\ \A s \in 0..11 : s # r => d.reg[s] = c.reg[s]
<1> DEFINE d == [c EXCEPT !.reg[r] = v]
<1>1. /\ DOMAIN d = ChipFields /\ d.reg = [c.reg EXCEPT ![r] = v]
      /\ d.v9938 = c.v9938 /\ d.pal = c.pal
  BY DEF ChipShape, ChipFields
<1> HIDE DEF d
<1>2. d.reg \in [0..11 -> Byte] /\ d.reg[r] = v /\ \A s \in 0..11 : s # r => d.reg[s] = c.reg[s]
  BY <1>1 DEF ChipShape
<1>3. QED BY <1>1, <1>2 DEF ChipShape, d

LEMMA DisplayKeeps ==
  ASSUME ScreenInv, NEW on \in BOOLEAN, Display(on)
  PROVE  ScreenInv'
<1> DEFINE b == chip.reg[1]
           v == IF Bit(b, 6) = on THEN b ELSE Flipped(b, 6)
<1>1. ChipShape(chip) /\ b \in 0..255
  <2>1. ChipShape(chip)
    BY DEF ScreenInv
  <2>2. chip.reg \in [0..11 -> 0..255]
    BY <2>1 DEF ChipShape, Byte
  <2> QED  BY <2>1, <2>2
<1>2. chip' = [chip EXCEPT !.reg[1] = v]
  BY DEF Display
<1>3. program' = program /\ saved' = saved /\ work' = work
  BY DEF Display, Calls
<1> HIDE DEF b
<1>4. /\ v \in Byte
      /\ \A j \in 0..7 : j # 6 => BitOf(v, j) = BitOf(b, j)
  <2>1. v = b \/ v = Flipped(b, 6)
    OBVIOUS
  <2>2. Flipped(b, 6) \in 0..255 /\ \A j \in 0..7 : j # 6 => BitOf(Flipped(b, 6), j) = BitOf(b, j)
    <3>1. \A i \in 0..7 : /\ Flipped(b, i) \in 0..255
                          /\ \A j \in 0..7 : BitOf(Flipped(b, i), j) =
                                              IF j = i THEN 1 - BitOf(b, i) ELSE BitOf(b, j)
      BY <1>1, FlippedBits
    <3>2. QED BY <3>1
  <2> HIDE DEF v
  <2>3. CASE v = b
    BY <1>1, <2>3 DEF Byte
  <2>4. CASE v = Flipped(b, 6)
    BY <2>2, <2>4 DEF Byte
  <2>5. QED BY <2>1, <2>3, <2>4
<1> HIDE DEF v
<1>5. /\ ChipShape(chip') /\ chip'.reg[1] = v /\ chip'.v9938 = chip.v9938
      /\ \A s \in 0..11 : s # 1 => chip'.reg[s] = chip.reg[s]
  BY <1>1, <1>2, <1>4, Given
<1>6. \A j \in 0..7 \ {6} : Bit(chip'.reg[1], j) = Bit(chip.reg[1], j)
  BY <1>4, <1>5 DEF Bit, b
<1>7. Stays(chip, chip', work, work)
  BY <1>5, <1>6 DEF Stays
<1>8. QED BY <1>3, <1>5, <1>6, <1>7, PastTheCopy

LEMMA CHGCLRKeeps ==
  ASSUME ScreenInv, CHGCLR
  PROVE  ScreenInv'
<1> DEFINE v == Pair(work.ink.fore, work.ink.border)
           c == [chip EXCEPT !.reg[7] = v]
<1>1. ChipShape(chip) /\ v \in Byte
  BY PairIsByte DEF ScreenInv, WorkShape
<1>2. program' = program /\ saved' = saved /\ work' = work
  BY DEF CHGCLR, Calls
<1>3. chip' = c \/ chip' = ColourTable(c, work)
  BY DEF CHGCLR
<1> HIDE DEF v
<1>4. /\ ChipShape(c) /\ c.reg[7] = v /\ c.v9938 = chip.v9938
      /\ \A s \in 0..11 : s # 7 => c.reg[s] = chip.reg[s]
  BY <1>1, Given
<1> HIDE DEF c
<1>5. SameRegs(c, chip')
  <2>1. SameRegs(c, ColourTable(c, work))
    BY <1>4, Painted DEF ColourTable
  <2>2. SameRegs(c, c)
    BY <1>4, Paints
  <2>3. QED BY <1>3, <2>1, <2>2
<1>6. /\ ChipShape(chip') /\ chip'.v9938 = chip.v9938
      /\ \A s \in 0..11 : s # 7 => chip'.reg[s] = chip.reg[s]
  BY <1>4, <1>5, SameShape DEF SameRegs
<1>7. Stays(chip, chip', work, work)
  BY <1>6 DEF Stays
<1>8. QED BY <1>2, <1>6, <1>7, PastTheCopy

LEMMA SetPaletteKeeps ==
  ASSUME ScreenInv, program' = program, saved' = saved, work' = work,
         NEW pal, DOMAIN pal \subseteq Entries,
         \A e \in DOMAIN pal : pal[e] \in Shades \cup {First}, SetPalette(pal)
  PROVE  ScreenInv'
<1> DEFINE p == Over(pal, chip.pal)
           c == [chip EXCEPT !.v9938 = TRUE, !.pal = p]
<1>1. ChipShape(chip)
  BY DEF ScreenInv
<1>2. p \in [Entries -> Shades \cup {First}]
  <2>1. DOMAIN chip.pal = Entries
    BY <1>1 DEF ChipShape
  <2>2. (DOMAIN pal) \cup Entries = Entries
    OBVIOUS
  <2>3. p = [e \in Entries |-> IF e \in DOMAIN pal THEN pal[e] ELSE chip.pal[e]]
    BY <2>1, <2>2 DEF Over
  <2>4. \A e \in Entries : (IF e \in DOMAIN pal THEN pal[e] ELSE chip.pal[e]) \in Shades \cup {First}
    BY <1>1 DEF ChipShape
  <2>5. QED BY <2>3, <2>4
<1>3. chip' = PaletteShadow(c, work, pal)
  BY DEF SetPalette
<1> HIDE DEF p
<1>4. DOMAIN c = ChipFields /\ c.reg = chip.reg /\ c.v9938 = TRUE /\ c.pal = p
  BY <1>1 DEF ChipShape, ChipFields
<1> HIDE DEF c
<1>5. ChipShape(c)
  BY <1>1, <1>2, <1>4 DEF ChipShape
<1>6. SameRegs(c, chip')
  BY <1>3, <1>5, Paints
<1>7. ChipShape(chip') /\ chip'.reg = chip.reg /\ chip'.v9938 = TRUE
  BY <1>4, <1>5, <1>6, SameShape DEF SameRegs
<1>8. Stays(chip, chip', work, work)
  BY <1>7 DEF Stays
<1>9. QED BY <1>7, <1>8, PastTheCopy

LEMMA PaletteKeeps ==
  ASSUME ScreenInv, INIPLT \/ \E e \in Entries, v \in Shades : SETPLT(e, v)
  PROVE  ScreenInv'
<1>1. CASE INIPLT
  <2> DEFINE pal == [e \in Entries |-> First]
  <2>1. /\ program' = program /\ saved' = saved /\ work' = work /\ SetPalette(pal)
        /\ DOMAIN pal \subseteq Entries /\ \A e \in DOMAIN pal : pal[e] \in Shades \cup {First}
    BY <1>1 DEF INIPLT, Calls
  <2> HIDE DEF pal
  <2>2. QED BY <2>1, SetPaletteKeeps
<1>2. CASE \E e \in Entries, v \in Shades : SETPLT(e, v)
  <2>1. PICK e \in Entries, v \in Shades : SETPLT(e, v)
    BY <1>2
  <2> DEFINE pal == Only(e, v)
  <2>2. DOMAIN pal = {e} /\ pal[e] = v
    BY One
  <2>3. program' = program /\ saved' = saved /\ work' = work /\ SetPalette(pal)
    BY <2>1 DEF SETPLT, Calls
  <2> HIDE DEF pal
  <2>4. DOMAIN pal \subseteq Entries /\ \A x \in DOMAIN pal : pal[x] \in Shades \cup {First}
    BY <2>2
  <2>5. QED BY <2>3, <2>4, SetPaletteKeeps
<1>3. QED BY <1>1, <1>2

-----------------------------------------------------------------------------
LEMMA ScreenStep == ScreenInv /\ [BiosNext]_biosVars => ScreenInv'
<1> SUFFICES ASSUME ScreenInv, [BiosNext]_biosVars PROVE ScreenInv'
  OBVIOUS
<1>1. CASE Next
  <2>1. CASE \E mode \in program.modes : SetScreen(mode)
    BY <2>1, SetScreenKeeps
  <2>2. CASE \E mode \in program.modes : CHGMOD(mode)
    BY <2>2, ModesKnown, ChangeModeKeeps DEF CHGMOD, Calls
  <2>3. CASE TOTEXT
    BY <2>3, TOTEXTKeeps
  <2>4. CASE CLS \/ CLRSPR \/ \E hl \in Places, v \in Shades : WRTVRM(hl, v)
    BY <2>4, PaintingKeeps
  <2>5. CASE CHGCLR
    BY <2>5, CHGCLRKeeps
  <2>6. CASE SubCHGCLR
    BY <2>6, SubCHGCLRKeeps
  <2>7. CASE INIPLT \/ \E e \in Entries, v \in Shades : SETPLT(e, v)
    BY <2>7, PaletteKeeps
  <2>8. CASE \E t \in Tweaks : WRTVDP(t[1], t[2])
    <3>1. PICK t \in Tweaks : WRTVDP(t[1], t[2])
      BY <2>8
    <3>2. t \in ((0..11) \X (0..7)) /\ t \notin ScreenBits
      BY ScreenAssumption
    <3>3. t = <<t[1], t[2]>> /\ t[1] \in 0..11 /\ t[2] \in 0..7
      BY <3>2
    <3>4. <<t[1], t[2]>> \notin ScreenBits
      BY <3>2, <3>3
    <3>5. QED BY <3>1, <3>3, <3>4, WRTVDPKeeps
  <2>9. CASE \E on \in BOOLEAN : Display(on)
    BY <2>9, DisplayKeeps
  <2>10. CASE \/ \E c \in program.chars \cup {Space} : Type(c)
              \/ Return \/ LineFeed \/ Backspace
              \/ \E x, y \in 1..3 : POSIT(x, y)
    BY <2>10, PrintingKeeps
  <2>11. CASE \/ \E ink \in Inks : SetInk(ink)
              \/ \E page \in Pages : SetPage(page)
              \/ \E b \in 0..3 : MoveTable(b)
    BY <2>11, WorkWritten
  <2>12. QED
    BY <1>1, <2>1, <2>2, <2>3, <2>4, <2>5, <2>6, <2>7, <2>8, <2>9, <2>10, <2>11, Zenon DEF Next
<1>2. CASE UNCHANGED vars
  BY <1>2 DEF vars, ScreenInv, CopiesAgree
<1>3. QED BY <1>1, <1>2 DEF BiosNext, biosVars

(* The screen is the one asked for, and its registers can be rebuilt: after *)
(* any sequence of the BIOS's entries the chip shows the mode of the work   *)
(* area, and the copies of its registers are what was last written.         *)
THEOREM ScreenIsKnownAlways == BiosSpec => []ScreenIsKnown
<1>1. BiosInit => ScreenInv
  BY ScreenStart DEF BiosInit
<1>2. ScreenInv /\ [BiosNext]_biosVars => ScreenInv'
  BY ScreenStep
<1>3. ScreenInv => ScreenIsKnown
  BY ScreenInvKnown
<1>4. QED BY <1>1, <1>2, <1>3, PTL DEF BiosSpec

-----------------------------------------------------------------------------
(* Only a register past the seventh makes the second chip of the first.    *)
LEMMA EnteredAs ==
  ASSUME ScreenInv, NEW mode \in 0..8, work' = Entered(work, mode),
         SameRegs(Write(chip, ScreenRegs(chip, work, mode)), chip')
  PROVE  NotPromoted
<1>1. mode <= 3 => (Write(chip, ScreenRegs(chip, work, mode)).v9938 <=> chip.v9938)
  BY ScreenWritten DEF ScreenInv
<1>2. work'.mode = mode
  BY DEF ScreenInv, WorkShape, WorkFields, Entered
<1>3. /\ chip.v9938 \in BOOLEAN
      /\ Write(chip, ScreenRegs(chip, work, mode)).v9938 \in BOOLEAN
  BY ScreenWritten, Written DEF ScreenInv, ChipShape
<1>4. work'.mode <= 3 =>
        Write(chip, ScreenRegs(chip, work, mode)).v9938 = chip.v9938
  BY <1>1, <1>2, <1>3, Zenon
<1>5. chip'.v9938 = Write(chip, ScreenRegs(chip, work, mode)).v9938
  BY DEF SameRegs
<1>6. QED BY <1>4, <1>5 DEF NotPromoted

LEMMA ChangeModeAs ==
  ASSUME ScreenInv, NEW mode \in 0..8, ChangeMode(mode)
  PROVE  NotPromoted
<1> DEFINE f == ScreenRegs(chip, work, mode)
           w == Entered(work, mode)
           d == Write(chip, f)
<1>1. chip' = ClsScreen(d, w) /\ work' = w
  BY DEF ChangeMode
<1>2. ChipShape(d)
  BY ScreenWritten, Written DEF ScreenInv
<1>3. SameRegs(d, chip')
  BY <1>1, <1>2, Paints
<1>4. QED BY <1>1, <1>3, EnteredAs

LEMMA SettledAs ==
  ASSUME ScreenInv, NEW c, SameRegs(chip, c), NEW x, NEW y, Settle(c, x, y)
  PROVE  NotPromoted
<1>1. ChipShape(c)
  BY SameShape DEF ScreenInv
<1>2. chip' = c \/ chip' = ScrollUp(c, work)
  BY DEF Settle
<1>3. SameRegs(c, chip')
  BY <1>1, <1>2, Paints
<1>4. QED BY <1>3 DEF SameRegs, NotPromoted

LEMMA PromotesNone ==
  ASSUME ScreenInv, Next
  PROVE  NotPromoted
<1>0. ChipShape(chip)
  BY DEF ScreenInv
<1>1. CASE \E mode \in program.modes : SetScreen(mode)
  <2>1. PICK mode \in program.modes : SetScreen(mode)
    BY <1>1
  <2>2. /\ mode \in 0..8 /\ work' = Entered(work, mode)
        /\ chip' = Write(chip, ScreenRegs(chip, work, mode))
    BY <2>1, ModesKnown DEF SetScreen, SetRegs
  <2>3. SameRegs(Write(chip, ScreenRegs(chip, work, mode)), chip')
    BY <2>2 DEF SameRegs
  <2>4. QED BY <2>2, <2>3, EnteredAs
<1>2. CASE \E mode \in program.modes : CHGMOD(mode)
  BY <1>2, ModesKnown, ChangeModeAs DEF CHGMOD
<1>3. CASE TOTEXT
  <2>1. work.old % 2 \in 0..8
    BY DEF ScreenInv, WorkShape
  <2>2. QED BY <1>3, <2>1, ChangeModeAs DEF TOTEXT
<1>4. CASE CLS
  BY <1>0, <1>4, Paints DEF CLS, SameRegs, NotPromoted
<1>5. CASE \/ CHGCLR \/ SubCHGCLR \/ CLRSPR \/ INIPLT
           \/ \E t \in Tweaks : WRTVDP(t[1], t[2])
           \/ \E on \in BOOLEAN : Display(on)
           \/ \E e \in Entries, v \in Shades : SETPLT(e, v)
           \/ \E hl \in Places, v \in Shades : WRTVRM(hl, v)
  BY <1>5 DEF CHGCLR, SubCHGCLR, CLRSPR, INIPLT, WRTVDP, Display, SETPLT, WRTVRM, NotPromoted
<1>6. CASE \/ \E x, y \in 1..3 : POSIT(x, y)
           \/ \E ink \in Inks : SetInk(ink)
           \/ \E page \in Pages : SetPage(page)
           \/ \E b \in 0..3 : MoveTable(b)
  BY <1>6 DEF POSIT, SetInk, SetPage, MoveTable, NotPromoted
<1>7. CASE \E c \in program.chars \cup {Space} : Type(c)
  <2>1. PICK c : Type(c)
    BY <1>7
  <2>2. SameRegs(chip, PutGlyph(chip, work, work.x - 1, work.y - 1, c))
    BY <1>0, Paints
  <2>3. QED BY <2>1, <2>2, SettledAs DEF Type
<1>8. CASE Return \/ LineFeed
  <2>1. SameRegs(chip, chip)
    BY <1>0, Paints
  <2>2. QED BY <1>8, <2>1, SettledAs DEF Return, LineFeed
<1>9. CASE Backspace
  <2>1. SameRegs(chip, PutGlyph(chip, work, work.x - 2, work.y - 1, Space))
    BY <1>0, Paints
  <2>2. QED BY <1>9, <2>1, SettledAs DEF Backspace
<1>10. QED
  BY <1>1, <1>2, <1>3, <1>4, <1>5, <1>6, <1>7, <1>8, <1>9, Zenon DEF Next

(* Asking for one of the first four screens does not make the first chip   *)
(* the second: the third part of RestIsKept.                               *)
THEOREM NeverPromoted == BiosSpec => [][NotPromoted]_vars
<1>1. BiosInit => ScreenInv
  BY ScreenStart DEF BiosInit
<1>2. ScreenInv /\ [BiosNext]_biosVars => ScreenInv'
  BY ScreenStep
<1>3. ScreenInv /\ [BiosNext]_biosVars => [NotPromoted]_vars
  BY PromotesNone DEF BiosNext, biosVars, vars
<1>4. QED BY <1>1, <1>2, <1>3, PTL DEF BiosSpec
=============================================================================
