---------------------------- MODULE VideoProof ----------------------------
(* The video chip's two copies of its address agree for ever, its ports    *)
(* keep what a program is in the middle of, a transfer keeps its place, and*)
(* the picture drawn from a frame's log is the one the raster displayed.   *)
(*                                                                         *)
(* ChipInv says what the chip, its port and the transfer are; ReadsInv,    *)
(* LatchInv and PaletteInv say what a program is owed by them. Effects     *)
(* sorts the steps by what they do: a register written, the first byte of  *)
(* a pair, an address, something quiet, and the four that are their own    *)
(* kind. Each part of the invariant is then kept by each sort of step.     *)
(* LineInv, at the end, says what the log is to the registers and the      *)
(* replayed lines to the raster.                                           *)
(*                                                                         *)
(* First what the command engine leaves of a chip: a drawing changes its   *)
(* memory inside its size and nothing else, and a transfer is the one its  *)
(* block says, where its count of units says, whatever the chip and the    *)
(* command.                                                                *)
EXTENDS Video, FiniteSetTheorems, WellFoundedInduction, TLAPS

-----------------------------------------------------------------------------
(* Steps done n times.  Repeat is a recursive function; that it exists,    *)
(* and stays in a set its steps stay in, is shown up to each n in turn.    *)

LEMMA LeastIn ==
  ASSUME NEW S \in SUBSET Nat, S # {}
  PROVE  \E x \in S : \A y \in S : x <= y
<1>1. PICK x \in S : \A y \in S : ~ (<<y, x>> \in OpToRel(<, Nat))
  BY NatLessThanWellFounded, WFMin, Zenon
<1>2. \A y \in S : ~ (y < x)
  <2> SUFFICES ASSUME NEW y \in S, y < x PROVE FALSE
    OBVIOUS
  <2>1. y \in Nat /\ x \in Nat
    OBVIOUS
  <2>2. <<y, x>> \in OpToRel(<, Nat)
    BY <2>1, Zenon DEF OpToRel
  <2> QED  BY <1>1, <2>2
<1>3. \A y \in S : x <= y
  BY <1>2
<1> QED  BY <1>3

LEMMA UpTo ==
  ASSUME NEW N \in Nat, NEW S, 0 \in S, \A n \in 0..N - 1 : n \in S => n + 1 \in S
  PROVE  0..N \subseteq S
<1> DEFINE out == (0..N) \ S
<1> SUFFICES ASSUME out # {} PROVE FALSE
  OBVIOUS
<1>1. out \in SUBSET Nat
  OBVIOUS
<1>2. PICK k \in out : \A y \in out : k <= y
  BY <1>1, LeastIn
<1>3. k \in 0..N /\ k # 0 /\ k \notin S /\ k - 1 \in 0..N - 1
  BY <1>2
<1>4. k - 1 \in S
  BY <1>2, <1>3
<1> QED  BY <1>3, <1>4

Runs(X, s, N, F, g) ==
  /\ g \in [0..N -> X] /\ g[0] = s
  /\ \A k \in 0..N - 1 : g[k + 1] = F[g[k]][k]

LEMMA StepsExist ==
  ASSUME NEW X, NEW s \in X, NEW N \in Nat, NEW F,
         \A c \in X, k \in 0..N - 1 : F[c][k] \in X
  PROVE  \E g : Runs(X, s, N, F, g)
<1> DEFINE Upto(m, g) == Runs(X, s, m, F, g)
           S == {m \in 0..N : \E g : Upto(m, g)}
<1>1. 0 \in S
  <2>1. Upto(0, [k \in 0..0 |-> s])
    BY DEF Runs
  <2>2. \E g : Upto(0, g)
    BY <2>1, Zenon
  <2> HIDE DEF Upto
  <2> QED  BY <2>2
<1>2. ASSUME NEW m \in 0..N - 1, m \in S PROVE m + 1 \in S
  <2>1. PICK g : Upto(m, g)
    BY <1>2
  <2> DEFINE h == [k \in 0..m + 1 |-> IF k <= m THEN g[k] ELSE F[g[m]][m]]
  <2>2. \A k \in 0..m + 1 : h[k] = IF k <= m THEN g[k] ELSE F[g[m]][m]
    OBVIOUS
  <2>3. F[g[m]][m] \in X
    BY <2>1 DEF Runs
  <2>4. h \in [0..m + 1 -> X]
    BY <2>1, <2>3 DEF Runs
  <2>5. h[0] = s
    BY <2>1, <2>2 DEF Runs
  <2> HIDE DEF h
  <2>6. \A k \in 0..m : h[k + 1] = F[h[k]][k]
    BY <2>1, <2>2 DEF Runs
  <2>7. Upto(m + 1, h)
    BY <2>4, <2>5, <2>6 DEF Runs
  <2> HIDE DEF Upto
  <2> QED  BY <2>7
<1> HIDE DEF S
<1>3. 0..N \subseteq S
  BY <1>1, <1>2, UpTo
<1>4. N \in S
  BY <1>3
<1> QED  BY <1>4 DEF S

LEMMA StepsStay ==
  ASSUME NEW X, NEW s \in X, NEW N \in Nat, NEW a, a[0] = s,
         \A k \in 0..N - 1 : a[k] \in X => a[k + 1] \in X
  PROVE  a[N] \in X
<1> DEFINE S == {k \in 0..N : a[k] \in X}
<1>1. 0 \in S /\ \A k \in 0..N - 1 : k \in S => k + 1 \in S
  OBVIOUS
<1> HIDE DEF S
<1>2. 0..N \subseteq S
  BY <1>1, UpTo
<1> QED  BY <1>2 DEF S

-----------------------------------------------------------------------------
(* The chip as a record: a change of one field leaves the others.          *)
Fields == {"reg", "vram", "v9938", "xfer", "working", "stat7", "stat8", "stat9",
           "found", "fh", "vblank", "log", "pal", "palLatch", "palHalf"}
Whole(c) == c = [f \in Fields |-> c[f]]

Byte == 0..255
Memories(s) == UNION {[places -> Byte] : places \in SUBSET (0..s - 1)}

(* What drawing may make of a chip: another memory of its size.            *)
Redrawn(c) == {[c EXCEPT !.vram = v] : v \in Memories(Size(c))}

LEMMA RedrawnIs ==
  ASSUME NEW c, Whole(c), NEW d \in Redrawn(c)
  PROVE  /\ Whole(d) /\ d.vram \in Memories(Size(c))
         /\ \A f \in Fields \ {"vram"} : d[f] = c[f]
BY DEF Redrawn, Whole, Fields

LEMMA RedrawnSame ==
  ASSUME NEW c, Whole(c), NEW d \in Redrawn(c)
  PROVE  /\ Size(d) = Size(c) /\ Mode(d) = Mode(c)
         /\ Redrawn(d) = Redrawn(c)
<1>1. Size(d) = Size(c) /\ Mode(d) = Mode(c)
  BY RedrawnIs DEF Size, Mode, Fields
<1>2. \A v : [d EXCEPT !.vram = v] = [c EXCEPT !.vram = v]
  BY RedrawnIs DEF Whole, Fields
<1> QED  BY <1>1, <1>2 DEF Redrawn

LEMMA SizeIsOneOfTwo ==
  ASSUME NEW c PROVE Size(c) = 16384 \/ Size(c) = 131072
BY DEF Size

LEMMA PhysIn ==
  ASSUME NEW c, NEW a \in Int
  PROVE  Phys(c, a) \in 0..Size(c) - 1
<1> DEFINE half == (a \div 2) % 131072
           banked == IF a % 2 = 1 /\ half < 65536 THEN half + 65536 ELSE half
           at == IF Interleaved(c) THEN banked ELSE a
<1>1. at \in Int
  OBVIOUS
<1>2. Phys(c, a) = at % Size(c)
  BY DEF Phys
<1> HIDE DEF at
<1> QED  BY <1>1, <1>2, SizeIsOneOfTwo

LEMMA HeldIn ==
  ASSUME NEW s, NEW v \in Memories(s), NEW p PROVE Held(v, p) \in Byte
BY DEF Held, Memories, Byte

LEMMA StoredIn ==
  ASSUME NEW s, NEW v \in Memories(s), NEW p \in 0..s - 1, NEW b \in Byte
  PROVE  Stored(v, p, b) \in Memories(s)
<1>1. PICK places \in SUBSET (0..s - 1) : v \in [places -> Byte]
  BY DEF Memories
<1>2. Stored(v, p, b) \in [places \cup {p} -> Byte]
  BY <1>1 DEF Stored
<1>3. places \cup {p} \in SUBSET (0..s - 1)
  BY <1>1
<1> QED  BY <1>2, <1>3 DEF Memories

LEMMA PokeIn ==
  ASSUME NEW c, Whole(c), c.vram \in Memories(Size(c)), NEW a \in Int, NEW b \in Byte
  PROVE  Poke(c, a, b) \in Redrawn(c)
<1>1. Stored(c.vram, Phys(c, a), b) \in Memories(Size(c))
  BY PhysIn, StoredIn
<1>2. Poke(c, a, b) = [c EXCEPT !.vram = Stored(c.vram, Phys(c, a), b)]
  BY DEF Poke
<1> QED  BY <1>1, <1>2 DEF Redrawn

LEMMA PeekIn ==
  ASSUME NEW c, c.vram \in Memories(Size(c)), NEW a
  PROVE  Peek(c, a) \in Byte
BY HeldIn DEF Peek

-----------------------------------------------------------------------------
(* A dot of a byte, and the byte with another dot in its place.            *)

LEMMA ModeIs ==
  ASSUME NEW c PROVE PixelsPerByte(c) \in {1, 2, 4}
BY DEF PixelsPerByte

(* The values a dot may have, and the weights of dots of so many.          *)
Weighs(n, w) ==
  \/ n = 256 /\ w = 1
  \/ n = 16 /\ w \in {1, 16}
  \/ n = 4 /\ w \in {1, 4, 16, 64}

LEMMA PixelPlaces ==
  ASSUME NEW c, NEW x \in Int
  PROVE  Weighs(PixelValues(c), PixelWeight(c, x))
<1> USE DEF Weighs
<1>1. CASE PixelsPerByte(c) = 1
  <2>1. PixelValues(c) = 2 ^ 8
    BY <1>1 DEF PixelValues
  <2>2. x % 1 = 0
    OBVIOUS
  <2>3. PixelWeight(c, x) = 2 ^ ((0 - (x % 1)) * 8)
    BY <1>1 DEF PixelWeight
  <2>4. (0 - (x % 1)) * 8 = 0
    BY <2>2
  <2>5. PixelWeight(c, x) = 2 ^ 0
    BY <2>3, <2>4
  <2>6. 2 ^ 8 = 256 /\ 2 ^ 0 = 1
    OBVIOUS
  <2> QED  BY <2>1, <2>5, <2>6
<1>2. CASE PixelsPerByte(c) = 2
  <2>1. PixelValues(c) = 2 ^ 4
    BY <1>2 DEF PixelValues
  <2>2. x % 2 = 0 \/ x % 2 = 1
    OBVIOUS
  <2>3. PixelWeight(c, x) = 2 ^ ((1 - (x % 2)) * 4)
    BY <1>2 DEF PixelWeight
  <2>4. (x % 2 = 0 => (1 - (x % 2)) * 4 = 4) /\ (x % 2 = 1 => (1 - (x % 2)) * 4 = 0)
    OBVIOUS
  <2>5. PixelWeight(c, x) = 2 ^ 4 \/ PixelWeight(c, x) = 2 ^ 0
    BY <2>2, <2>3, <2>4
  <2> QED  BY <2>1, <2>5
<1>3. CASE PixelsPerByte(c) = 4
  <2>1. PixelValues(c) = 2 ^ 2
    BY <1>3 DEF PixelValues
  <2>2. x % 4 = 0 \/ x % 4 = 1 \/ x % 4 = 2 \/ x % 4 = 3
    OBVIOUS
  <2>3. PixelWeight(c, x) = 2 ^ ((3 - (x % 4)) * 2)
    BY <1>3 DEF PixelWeight
  <2>4. /\ x % 4 = 0 => (3 - (x % 4)) * 2 = 6
        /\ x % 4 = 1 => (3 - (x % 4)) * 2 = 4
        /\ x % 4 = 2 => (3 - (x % 4)) * 2 = 2
        /\ x % 4 = 3 => (3 - (x % 4)) * 2 = 0
    OBVIOUS
  <2>5. \/ PixelWeight(c, x) = 2 ^ 6 \/ PixelWeight(c, x) = 2 ^ 4
        \/ PixelWeight(c, x) = 2 ^ 2 \/ PixelWeight(c, x) = 2 ^ 0
    BY <2>2, <2>3, <2>4
  <2> QED  BY <2>1, <2>5
<1> QED  BY <1>1, <1>2, <1>3, ModeIs

LEMMA DotIn ==
  ASSUME NEW c, c.vram \in Memories(Size(c)), NEW x \in Int, NEW y
  PROVE  GetPixel(c, x, y) \in 0..PixelValues(c) - 1 /\ GetPixel(c, x, y) \in Byte
<1> DEFINE b == Peek(c, PixelByte(c, x, y))
           w == PixelWeight(c, x)
           n == PixelValues(c)
<1>1. b \in Byte
  BY PeekIn
<1>2. GetPixel(c, x, y) = (b \div w) % n
  BY DEF GetPixel
<1>3. Weighs(n, w)
  BY PixelPlaces
<1> HIDE DEF b, w, n
<1>4. (b \div w) % n \in 0..n - 1
  BY <1>1, <1>3 DEF Byte, Weighs
<1>5. (b \div w) % n \in Byte
  BY <1>3, <1>4 DEF Byte, Weighs
<1> QED  BY <1>2, <1>4, <1>5 DEF n

LEMMA ByteChanged ==
  ASSUME NEW b \in Byte, NEW n, NEW w, NEW new \in 0..n - 1,
         Weighs(n, w)
  PROVE  b + ((new - ((b \div w) % n)) * w) \in Byte
<1> USE DEF Byte, Weighs
<1>1. CASE n = 256 /\ w = 1
  BY <1>1
<1>2. CASE n = 16 /\ w = 1
  BY <1>2
<1>3. CASE n = 16 /\ w = 16
  BY <1>3
<1>4. CASE n = 4 /\ w = 1
  BY <1>4
<1>5. CASE n = 4 /\ w = 4
  BY <1>5
<1>6. CASE n = 4 /\ w = 16
  BY <1>6
<1>7. CASE n = 4 /\ w = 64
  BY <1>7
<1> QED  BY <1>1, <1>2, <1>3, <1>4, <1>5, <1>6, <1>7

LEMMA LogicInt ==
  ASSUME NEW d \in Int, NEW s \in Int, NEW op PROVE Logic(d, s, op) \in Int
<1>1. BitAnd(d, s) \in Int
  <2> DEFINE f == [i \in 0..7 |-> BitOf(d, i) * BitOf(s, i)]
  <2>1. /\ f[0] \in Int /\ f[1] \in Int /\ f[2] \in Int /\ f[3] \in Int
        /\ f[4] \in Int /\ f[5] \in Int /\ f[6] \in Int /\ f[7] \in Int
    BY DEF BitOf
  <2> HIDE DEF f
  <2>2. Joined(f) \in Int
    BY <2>1 DEF Joined
  <2> QED  BY <2>2 DEF BitAnd, f
<1>2. BitOr(d, s) \in Int /\ BitXor(d, s) \in Int
  BY <1>1 DEF BitOr, BitXor
<1> QED  BY <1>1, <1>2 DEF Logic

LEMMA SetPixelIn ==
  ASSUME NEW c, Whole(c), c.vram \in Memories(Size(c)),
         NEW x \in Int, NEW y \in Int, NEW colour \in Int, NEW op
  PROVE  SetPixel(c, x, y, colour, op) \in Redrawn(c)
<1> DEFINE at == PixelByte(c, x, y)
           old == GetPixel(c, x, y)
           l == Logic(old, colour, op)
           n == PixelValues(c)
           w == PixelWeight(c, x)
           b == Peek(c, at)
<1>1. Weighs(n, w)
  BY PixelPlaces
<1>2. b \in Byte /\ old \in Byte
  BY PeekIn, DotIn
<1>3. old = (b \div w) % n
  BY DEF GetPixel
<1>4. at \in Int
  <2>1. BytesPerLine(c) \in {128, 256} /\ PixelsPerByte(c) \in {1, 2, 4}
    BY ModeIs DEF BytesPerLine
  <2>2. DotsPerLine(c) \in {128, 256, 512, 1024}
    BY <2>1 DEF DotsPerLine
  <2>3. x % DotsPerLine(c) \in Int
    BY <2>2
  <2>4. (x % DotsPerLine(c)) \div PixelsPerByte(c) \in Int
    BY <2>1, <2>3
  <2>5. y * BytesPerLine(c) \in Int
    BY <2>1
  <2> QED  BY <2>4, <2>5 DEF PixelByte
<1>5. l \in Int
  <2>1. old \in Int
    BY <1>2 DEF Byte
  <2> HIDE DEF old
  <2> QED  BY <2>1, LogicInt
<1>6. SetPixel(c, x, y, colour, op) = Poke(c, at, b + (((l % n) - old) * w))
  BY DEF SetPixel
<1> HIDE DEF at, old, l, n, w, b
<1>7. l % n \in 0..n - 1
  BY <1>1, <1>5 DEF Weighs
<1>8. b + (((l % n) - old) * w) \in Byte
  BY <1>1, <1>2, <1>3, <1>7, ByteChanged
<1> QED  BY <1>4, <1>6, <1>8, PokeIn

-----------------------------------------------------------------------------
(* The commands that draw change the memory and nothing else. Each is a    *)
(* step done so many times: the recursion has a solution, as StepsExist    *)
(* says of its restriction to chips redrawn, and so stays among those.     *)

LEMMA ProductIn ==
  ASSUME NEW a \in Nat, NEW b \in Nat PROVE a * b \in Nat
OBVIOUS

Drawable(c) == Whole(c) /\ c.vram \in Memories(Size(c))

LEMMA RedrawnDrawable ==
  ASSUME NEW c, Drawable(c), NEW d \in Redrawn(c)
  PROVE  Drawable(d) /\ Redrawn(d) = Redrawn(c)
BY RedrawnIs, RedrawnSame DEF Drawable

LEMMA RedrawnSelf ==
  ASSUME NEW c, Drawable(c) PROVE c \in Redrawn(c)
<1>1. c = [c EXCEPT !.vram = c.vram]
  BY DEF Drawable, Whole, Fields
<1> QED  BY <1>1 DEF Drawable, Redrawn

(* The command registers' block as numbers. *)
Numbers(p) ==
  /\ {p.sx, p.sy, p.dx, p.dy, p.stepX, p.stepY} \subseteq Int
  /\ {p.nx, p.ny} \subseteq Nat \ {0}
  /\ p.clr \in Byte

LEMMA CutIn ==
  ASSUME NEW c
  PROVE  /\ \A n \in Int : Cut(c, n) \in Int
         /\ \A n \in Nat : CutLength(c, n) \in Nat \ {0}
<1>1. PixelsPerByte(c) \in {1, 2, 4}
  BY ModeIs
<1>2. ASSUME NEW n \in Int PROVE Cut(c, n) \in Int /\ (n >= 0 => Cut(c, n) \in Nat)
  BY <1>1 DEF Cut
<1> QED  BY <1>2 DEF CutLength

LEMMA ByteAtIn ==
  ASSUME NEW c, NEW x \in Int, NEW y \in Int PROVE ByteAt(c, x, y) \in Int
<1>1. BytesPerLine(c) \in {128, 256}
  BY DEF BytesPerLine
<1> QED  BY <1>1 DEF ByteAt

LEMMA FillPixelsIn ==
  ASSUME NEW c, Drawable(c), NEW p, Numbers(p), NEW op
  PROVE  FillPixels(c, p, op) \in Redrawn(c)
<1> DEFINE X == Redrawn(c)
           N == p.nx * p.ny
           Do(d, k) == SetPixel(d, p.dx + (k % p.nx) * p.stepX,
                                p.dy + (k \div p.nx) * p.stepY, p.clr, op)
           F == [d \in X |-> [k \in 0..N - 1 |-> Do(d, k)]]
           Rec(g) == [k \in 0..N |-> IF k = 0 THEN c
                        ELSE CHOOSE next \in {Do(before, k - 1) : before \in {g[k - 1]}} : TRUE]
           after == CHOOSE g : g = Rec(g)
<1>1. N \in Nat
  BY ProductIn, CutIn DEF Numbers
<1>2. FillPixels(c, p, op) = after[N]
  BY DEF FillPixels, Rectangle, Repeat
<1>3. \A d \in X, k \in 0..N - 1 : Do(d, k) \in X
  <2> SUFFICES ASSUME NEW d \in X, NEW k \in 0..N - 1 PROVE Do(d, k) \in X
    OBVIOUS
  <2> DEFINE i == (k % p.nx) * p.stepX
             j == (k \div p.nx) * p.stepY
  <2>0. p.nx \in Nat \ {0}
    BY DEF Numbers
  <2>1. i \in Int /\ j \in Int /\ {p.sx, p.sy, p.dx, p.dy, p.stepX, p.stepY, p.clr} \subseteq Int
    <3>1. k \in Nat
      BY <1>1
    <3>2. k % p.nx \in Int /\ k \div p.nx \in Int
      BY <2>0, <3>1
    <3> QED  BY <3>2 DEF Numbers, Byte
  <2>2. Drawable(d) /\ Redrawn(d) = Redrawn(c)
    BY RedrawnDrawable
  <2> HIDE DEF i, j
  <2>3. p.dx + i \in Int /\ p.dy + j \in Int
    BY <2>1
  <2>4. SetPixel(d, p.dx + i, p.dy + j, p.clr, op) \in Redrawn(d)
    BY <2>1, <2>2, <2>3, SetPixelIn DEF Drawable
  <2> QED  BY <2>2, <2>4 DEF i, j
<1>4. c \in X
  BY RedrawnSelf
<1> HIDE DEF X, N, Do
<1>5. \A d \in X, k \in 0..N - 1 : F[d][k] = Do(d, k)
  OBVIOUS
<1> HIDE DEF F
<1>6. \A d \in X, k \in 0..N - 1 : F[d][k] \in X
  BY <1>3, <1>5
<1>7. PICK g : Runs(X, c, N, F, g)
  BY <1>1, <1>4, <1>6, StepsExist
<1>8. \A h, k : (CHOOSE next \in {Do(before, k) : before \in {h}} : TRUE) = Do(h, k)
  OBVIOUS
<1>9. ASSUME NEW k \in 0..N, k # 0
      PROVE  g[k] = CHOOSE next \in {Do(before, k - 1) : before \in {g[k - 1]}} : TRUE
  <2>1. k - 1 \in 0..N - 1 /\ (k - 1) + 1 = k
    BY <1>1, <1>9
  <2>2. g[k - 1] \in X /\ g[k] = F[g[k - 1]][k - 1]
    BY <1>1, <1>7, <2>1 DEF Runs
  <2>3. g[k] = Do(g[k - 1], k - 1)
    BY <1>5, <2>1, <2>2
  <2> QED  BY <1>8, <2>3
<1>10. after = Rec(after)
  <2>1. g = Rec(g)
    BY <1>7, <1>9 DEF Runs
  <2> QED  BY <2>1
<1> HIDE DEF after
<1>11. after[0] = c
  BY <1>1, <1>10
<1>12. ASSUME NEW k \in 0..N - 1 PROVE after[k + 1] = Do(after[k], k)
  <2>1. k + 1 \in 0..N /\ k + 1 # 0 /\ (k + 1) - 1 = k
    BY <1>1
  <2>2. after[k + 1] = CHOOSE next \in {Do(before, k) : before \in {after[k]}} : TRUE
    BY <1>10, <2>1
  <2> QED  BY <1>8, <2>2
<1>13. \A k \in 0..N - 1 : after[k] \in X => after[k + 1] \in X
  BY <1>3, <1>12
<1>14. after[N] \in X
  BY <1>1, <1>4, <1>11, <1>13, StepsStay
<1> QED  BY <1>2, <1>14 DEF X

LEMMA CopyPixelsIn ==
  ASSUME NEW c, Drawable(c), NEW p, Numbers(p), NEW op
  PROVE  CopyPixels(c, p, op) \in Redrawn(c)
<1> DEFINE X == Redrawn(c)
           N == p.nx * p.ny
           Do(d, k) == SetPixel(d, p.dx + (k % p.nx) * p.stepX,
                                p.dy + (k \div p.nx) * p.stepY,
                                GetPixel(d, p.sx + (k % p.nx) * p.stepX,
                                         p.sy + (k \div p.nx) * p.stepY), op)
           F == [d \in X |-> [k \in 0..N - 1 |-> Do(d, k)]]
           Rec(g) == [k \in 0..N |-> IF k = 0 THEN c
                        ELSE CHOOSE next \in {Do(before, k - 1) : before \in {g[k - 1]}} : TRUE]
           after == CHOOSE g : g = Rec(g)
<1>1. N \in Nat
  BY ProductIn, CutIn DEF Numbers
<1>2. CopyPixels(c, p, op) = after[N]
  BY DEF CopyPixels, Rectangle, Repeat
<1>3. \A d \in X, k \in 0..N - 1 : Do(d, k) \in X
  <2> SUFFICES ASSUME NEW d \in X, NEW k \in 0..N - 1 PROVE Do(d, k) \in X
    OBVIOUS
  <2> DEFINE i == (k % p.nx) * p.stepX
             j == (k \div p.nx) * p.stepY
  <2>0. p.nx \in Nat \ {0}
    BY DEF Numbers
  <2>1. i \in Int /\ j \in Int /\ {p.sx, p.sy, p.dx, p.dy, p.stepX, p.stepY, p.clr} \subseteq Int
    <3>1. k \in Nat
      BY <1>1
    <3>2. k % p.nx \in Int /\ k \div p.nx \in Int
      BY <2>0, <3>1
    <3> QED  BY <3>2 DEF Numbers, Byte
  <2>2. Drawable(d) /\ Redrawn(d) = Redrawn(c)
    BY RedrawnDrawable
  <2> DEFINE dot == GetPixel(d, p.sx + i, p.sy + j)
  <2> HIDE DEF i, j
  <2>3. p.dx + i \in Int /\ p.dy + j \in Int /\ p.sx + i \in Int
    BY <2>1
  <2>4. dot \in Int
    <3>1. dot \in Byte
      BY <2>2, <2>3, DotIn DEF Drawable
    <3> QED  BY <3>1 DEF Byte
  <2> HIDE DEF dot
  <2>5. SetPixel(d, p.dx + i, p.dy + j, dot, op) \in Redrawn(d)
    BY <2>2, <2>3, <2>4, SetPixelIn DEF Drawable
  <2> QED  BY <2>2, <2>5 DEF dot, i, j
<1>4. c \in X
  BY RedrawnSelf
<1> HIDE DEF X, N, Do
<1>5. \A d \in X, k \in 0..N - 1 : F[d][k] = Do(d, k)
  OBVIOUS
<1> HIDE DEF F
<1>6. \A d \in X, k \in 0..N - 1 : F[d][k] \in X
  BY <1>3, <1>5
<1>7. PICK g : Runs(X, c, N, F, g)
  BY <1>1, <1>4, <1>6, StepsExist
<1>8. \A h, k : (CHOOSE next \in {Do(before, k) : before \in {h}} : TRUE) = Do(h, k)
  OBVIOUS
<1>9. ASSUME NEW k \in 0..N, k # 0
      PROVE  g[k] = CHOOSE next \in {Do(before, k - 1) : before \in {g[k - 1]}} : TRUE
  <2>1. k - 1 \in 0..N - 1 /\ (k - 1) + 1 = k
    BY <1>1, <1>9
  <2>2. g[k - 1] \in X /\ g[k] = F[g[k - 1]][k - 1]
    BY <1>1, <1>7, <2>1 DEF Runs
  <2>3. g[k] = Do(g[k - 1], k - 1)
    BY <1>5, <2>1, <2>2
  <2> QED  BY <1>8, <2>3
<1>10. after = Rec(after)
  <2>1. g = Rec(g)
    BY <1>7, <1>9 DEF Runs
  <2> QED  BY <2>1
<1> HIDE DEF after
<1>11. after[0] = c
  BY <1>1, <1>10
<1>12. ASSUME NEW k \in 0..N - 1 PROVE after[k + 1] = Do(after[k], k)
  <2>1. k + 1 \in 0..N /\ k + 1 # 0 /\ (k + 1) - 1 = k
    BY <1>1
  <2>2. after[k + 1] = CHOOSE next \in {Do(before, k) : before \in {after[k]}} : TRUE
    BY <1>10, <2>1
  <2> QED  BY <1>8, <2>2
<1>13. \A k \in 0..N - 1 : after[k] \in X => after[k + 1] \in X
  BY <1>3, <1>12
<1>14. after[N] \in X
  BY <1>1, <1>4, <1>11, <1>13, StepsStay
<1> QED  BY <1>2, <1>14 DEF X

LEMMA FillBytesIn ==
  ASSUME NEW c, Drawable(c), NEW p, Numbers(p)
  PROVE  FillBytes(c, p) \in Redrawn(c)
<1> DEFINE X == Redrawn(c)
           N == CutLength(c, p.nx) * p.ny
           Do(d, k) == Poke(d, ByteAt(d, Cut(d, p.dx) + (k % CutLength(c, p.nx)) * p.stepX,
                                      p.dy + (k \div CutLength(c, p.nx)) * p.stepY), p.clr)
           F == [d \in X |-> [k \in 0..N - 1 |-> Do(d, k)]]
           Rec(g) == [k \in 0..N |-> IF k = 0 THEN c
                        ELSE CHOOSE next \in {Do(before, k - 1) : before \in {g[k - 1]}} : TRUE]
           after == CHOOSE g : g = Rec(g)
<1>1. N \in Nat
  BY ProductIn, CutIn DEF Numbers
<1>2. FillBytes(c, p) = after[N]
  BY DEF FillBytes, Rectangle, Repeat
<1>3. \A d \in X, k \in 0..N - 1 : Do(d, k) \in X
  <2> SUFFICES ASSUME NEW d \in X, NEW k \in 0..N - 1 PROVE Do(d, k) \in X
    OBVIOUS
  <2> DEFINE i == (k % CutLength(c, p.nx)) * p.stepX
             j == (k \div CutLength(c, p.nx)) * p.stepY
  <2>0. CutLength(c, p.nx) \in Nat \ {0}
    BY CutIn DEF Numbers
  <2>1. i \in Int /\ j \in Int /\ {p.sx, p.sy, p.dx, p.dy, p.stepX, p.stepY, p.clr} \subseteq Int
    <3>1. k \in Nat
      BY <1>1
    <3>2. k % CutLength(c, p.nx) \in Int /\ k \div CutLength(c, p.nx) \in Int
      BY <2>0, <3>1
    <3> QED  BY <3>2 DEF Numbers, Byte
  <2>2. Drawable(d) /\ Redrawn(d) = Redrawn(c)
    BY RedrawnDrawable
  <2> DEFINE at == ByteAt(d, Cut(d, p.dx) + i, p.dy + j)
  <2> HIDE DEF i, j
  <2>3. Cut(d, p.dx) + i \in Int /\ p.dy + j \in Int
    <3>1. Cut(d, p.dx) \in Int
      BY <2>1, CutIn
    <3> QED  BY <2>1, <3>1
  <2>4. at \in Int
    BY <2>3, ByteAtIn
  <2> HIDE DEF at
  <2>5. Poke(d, at, p.clr) \in Redrawn(d)
    BY <2>2, <2>4, PokeIn DEF Drawable, Numbers
  <2> QED  BY <2>2, <2>5 DEF at, i, j
<1>4. c \in X
  BY RedrawnSelf
<1> HIDE DEF X, N, Do
<1>5. \A d \in X, k \in 0..N - 1 : F[d][k] = Do(d, k)
  OBVIOUS
<1> HIDE DEF F
<1>6. \A d \in X, k \in 0..N - 1 : F[d][k] \in X
  BY <1>3, <1>5
<1>7. PICK g : Runs(X, c, N, F, g)
  BY <1>1, <1>4, <1>6, StepsExist
<1>8. \A h, k : (CHOOSE next \in {Do(before, k) : before \in {h}} : TRUE) = Do(h, k)
  OBVIOUS
<1>9. ASSUME NEW k \in 0..N, k # 0
      PROVE  g[k] = CHOOSE next \in {Do(before, k - 1) : before \in {g[k - 1]}} : TRUE
  <2>1. k - 1 \in 0..N - 1 /\ (k - 1) + 1 = k
    BY <1>1, <1>9
  <2>2. g[k - 1] \in X /\ g[k] = F[g[k - 1]][k - 1]
    BY <1>1, <1>7, <2>1 DEF Runs
  <2>3. g[k] = Do(g[k - 1], k - 1)
    BY <1>5, <2>1, <2>2
  <2> QED  BY <1>8, <2>3
<1>10. after = Rec(after)
  <2>1. g = Rec(g)
    BY <1>7, <1>9 DEF Runs
  <2> QED  BY <2>1
<1> HIDE DEF after
<1>11. after[0] = c
  BY <1>1, <1>10
<1>12. ASSUME NEW k \in 0..N - 1 PROVE after[k + 1] = Do(after[k], k)
  <2>1. k + 1 \in 0..N /\ k + 1 # 0 /\ (k + 1) - 1 = k
    BY <1>1
  <2>2. after[k + 1] = CHOOSE next \in {Do(before, k) : before \in {after[k]}} : TRUE
    BY <1>10, <2>1
  <2> QED  BY <1>8, <2>2
<1>13. \A k \in 0..N - 1 : after[k] \in X => after[k + 1] \in X
  BY <1>3, <1>12
<1>14. after[N] \in X
  BY <1>1, <1>4, <1>11, <1>13, StepsStay
<1> QED  BY <1>2, <1>14 DEF X

LEMMA CopyBytesIn ==
  ASSUME NEW c, Drawable(c), NEW p, Numbers(p), NEW from
  PROVE  CopyBytes(c, p, from) \in Redrawn(c)
<1> DEFINE X == Redrawn(c)
           N == CutLength(c, p.nx) * p.ny
           Do(d, k) == Poke(d, ByteAt(d, Cut(d, p.dx) + (k % CutLength(c, p.nx)) * p.stepX,
                                      p.dy + (k \div CutLength(c, p.nx)) * p.stepY),
                            Peek(d, ByteAt(d, Cut(d, from) + (k % CutLength(c, p.nx)) * p.stepX,
                                           p.sy + (k \div CutLength(c, p.nx)) * p.stepY)))
           F == [d \in X |-> [k \in 0..N - 1 |-> Do(d, k)]]
           Rec(g) == [k \in 0..N |-> IF k = 0 THEN c
                        ELSE CHOOSE next \in {Do(before, k - 1) : before \in {g[k - 1]}} : TRUE]
           after == CHOOSE g : g = Rec(g)
<1>1. N \in Nat
  BY ProductIn, CutIn DEF Numbers
<1>2. CopyBytes(c, p, from) = after[N]
  BY DEF CopyBytes, Rectangle, Repeat
<1>3. \A d \in X, k \in 0..N - 1 : Do(d, k) \in X
  <2> SUFFICES ASSUME NEW d \in X, NEW k \in 0..N - 1 PROVE Do(d, k) \in X
    OBVIOUS
  <2> DEFINE i == (k % CutLength(c, p.nx)) * p.stepX
             j == (k \div CutLength(c, p.nx)) * p.stepY
  <2>0. CutLength(c, p.nx) \in Nat \ {0}
    BY CutIn DEF Numbers
  <2>1. i \in Int /\ j \in Int /\ {p.sx, p.sy, p.dx, p.dy, p.stepX, p.stepY, p.clr} \subseteq Int
    <3>1. k \in Nat
      BY <1>1
    <3>2. k % CutLength(c, p.nx) \in Int /\ k \div CutLength(c, p.nx) \in Int
      BY <2>0, <3>1
    <3> QED  BY <3>2 DEF Numbers, Byte
  <2>2. Drawable(d) /\ Redrawn(d) = Redrawn(c)
    BY RedrawnDrawable
  <2> DEFINE at == ByteAt(d, Cut(d, p.dx) + i, p.dy + j)
             b == Peek(d, ByteAt(d, Cut(d, from) + i, p.sy + j))
  <2> HIDE DEF i, j
  <2>3. Cut(d, p.dx) + i \in Int /\ p.dy + j \in Int
    <3>1. Cut(d, p.dx) \in Int
      BY <2>1, CutIn
    <3> QED  BY <2>1, <3>1
  <2>4. at \in Int
    BY <2>3, ByteAtIn
  <2>5. b \in Byte
    BY <2>2, PeekIn DEF Drawable
  <2> HIDE DEF at, b
  <2>6. Poke(d, at, b) \in Redrawn(d)
    BY <2>2, <2>4, <2>5, PokeIn DEF Drawable
  <2> QED  BY <2>2, <2>6 DEF at, b, i, j
<1>4. c \in X
  BY RedrawnSelf
<1> HIDE DEF X, N, Do
<1>5. \A d \in X, k \in 0..N - 1 : F[d][k] = Do(d, k)
  OBVIOUS
<1> HIDE DEF F
<1>6. \A d \in X, k \in 0..N - 1 : F[d][k] \in X
  BY <1>3, <1>5
<1>7. PICK g : Runs(X, c, N, F, g)
  BY <1>1, <1>4, <1>6, StepsExist
<1>8. \A h, k : (CHOOSE next \in {Do(before, k) : before \in {h}} : TRUE) = Do(h, k)
  OBVIOUS
<1>9. ASSUME NEW k \in 0..N, k # 0
      PROVE  g[k] = CHOOSE next \in {Do(before, k - 1) : before \in {g[k - 1]}} : TRUE
  <2>1. k - 1 \in 0..N - 1 /\ (k - 1) + 1 = k
    BY <1>1, <1>9
  <2>2. g[k - 1] \in X /\ g[k] = F[g[k - 1]][k - 1]
    BY <1>1, <1>7, <2>1 DEF Runs
  <2>3. g[k] = Do(g[k - 1], k - 1)
    BY <1>5, <2>1, <2>2
  <2> QED  BY <1>8, <2>3
<1>10. after = Rec(after)
  <2>1. g = Rec(g)
    BY <1>7, <1>9 DEF Runs
  <2> QED  BY <2>1
<1> HIDE DEF after
<1>11. after[0] = c
  BY <1>1, <1>10
<1>12. ASSUME NEW k \in 0..N - 1 PROVE after[k + 1] = Do(after[k], k)
  <2>1. k + 1 \in 0..N /\ k + 1 # 0 /\ (k + 1) - 1 = k
    BY <1>1
  <2>2. after[k + 1] = CHOOSE next \in {Do(before, k) : before \in {after[k]}} : TRUE
    BY <1>10, <2>1
  <2> QED  BY <1>8, <2>2
<1>13. \A k \in 0..N - 1 : after[k] \in X => after[k + 1] \in X
  BY <1>3, <1>12
<1>14. after[N] \in X
  BY <1>1, <1>4, <1>11, <1>13, StepsStay
<1> QED  BY <1>2, <1>14 DEF X

LEMMA LineIn ==
  ASSUME NEW c, Drawable(c), NEW p, Numbers(p), NEW op
  PROVE  Line(c, p, op) \in Redrawn(c)
<1> DEFINE X == [chip : Redrawn(c), x : Int, y : Int, e : Int]
           N == p.nx + 1
           Do(d, k) == LET over == d.e + p.ny >= p.nx
                           alongX == ~p.swap \/ over
                           alongY == p.swap \/ over
                       IN  [chip |-> SetPixel(d.chip, d.x, d.y, p.clr, op),
                            x |-> IF alongX THEN d.x + p.stepX ELSE d.x,
                            y |-> IF alongY THEN d.y + p.stepY ELSE d.y,
                            e |-> d.e + p.ny - (IF over THEN p.nx ELSE 0)]
           F == [d \in X |-> [k \in 0..N - 1 |-> Do(d, k)]]
           Rec(g) == [k \in 0..N |-> IF k = 0 THEN [chip |-> c, x |-> p.dx, y |-> p.dy, e |-> 0]
                        ELSE CHOOSE next \in {Do(before, k - 1) : before \in {g[k - 1]}} : TRUE]
           after == CHOOSE g : g = Rec(g)
<1>1. N \in Nat
  BY DEF Numbers
<1>2. Line(c, p, op) = after[N].chip
  BY DEF Line, Repeat
<1>3. \A d \in X, k \in 0..N - 1 : Do(d, k) \in X
  <2> SUFFICES ASSUME NEW s \in X, NEW k \in 0..N - 1 PROVE Do(s, k) \in X
    OBVIOUS
  <2>1. s.chip \in Redrawn(c) /\ s.x \in Int /\ s.y \in Int /\ s.e \in Int
    OBVIOUS
  <2>2. Drawable(s.chip) /\ Redrawn(s.chip) = Redrawn(c)
    BY <2>1, RedrawnDrawable
  <2>3. {p.stepX, p.stepY, p.nx, p.ny, p.clr} \subseteq Int
    BY DEF Numbers, Byte
  <2>4. SetPixel(s.chip, s.x, s.y, p.clr, op) \in Redrawn(c)
    BY <2>1, <2>2, <2>3, SetPixelIn DEF Drawable
  <2> QED  BY <2>1, <2>3, <2>4
<1>4. [chip |-> c, x |-> p.dx, y |-> p.dy, e |-> 0] \in X
  BY RedrawnSelf DEF Numbers
<1> HIDE DEF X, N, Do
<1>5. \A d \in X, k \in 0..N - 1 : F[d][k] = Do(d, k)
  OBVIOUS
<1> HIDE DEF F
<1>6. \A d \in X, k \in 0..N - 1 : F[d][k] \in X
  BY <1>3, <1>5
<1>7. PICK g : Runs(X, [chip |-> c, x |-> p.dx, y |-> p.dy, e |-> 0], N, F, g)
  BY <1>1, <1>4, <1>6, StepsExist
<1>8. \A h, k : (CHOOSE next \in {Do(before, k) : before \in {h}} : TRUE) = Do(h, k)
  OBVIOUS
<1>9. ASSUME NEW k \in 0..N, k # 0
      PROVE  g[k] = CHOOSE next \in {Do(before, k - 1) : before \in {g[k - 1]}} : TRUE
  <2>1. k - 1 \in 0..N - 1 /\ (k - 1) + 1 = k
    BY <1>1, <1>9
  <2>2. g[k - 1] \in X /\ g[k] = F[g[k - 1]][k - 1]
    BY <1>1, <1>7, <2>1 DEF Runs
  <2>3. g[k] = Do(g[k - 1], k - 1)
    BY <1>5, <2>1, <2>2
  <2> QED  BY <1>8, <2>3
<1>10. after = Rec(after)
  <2>1. g = Rec(g)
    BY <1>7, <1>9 DEF Runs
  <2> QED  BY <2>1
<1> HIDE DEF after
<1>11. after[0] = [chip |-> c, x |-> p.dx, y |-> p.dy, e |-> 0]
  BY <1>1, <1>10
<1>12. ASSUME NEW k \in 0..N - 1 PROVE after[k + 1] = Do(after[k], k)
  <2>1. k + 1 \in 0..N /\ k + 1 # 0 /\ (k + 1) - 1 = k
    BY <1>1
  <2>2. after[k + 1] = CHOOSE next \in {Do(before, k) : before \in {after[k]}} : TRUE
    BY <1>10, <2>1
  <2> QED  BY <1>8, <2>2
<1>13. \A k \in 0..N - 1 : after[k] \in X => after[k + 1] \in X
  BY <1>3, <1>12
<1>14. after[N] \in X
  BY <1>1, <1>4, <1>11, <1>13, StepsStay
<1> QED  BY <1>2, <1>14 DEF X

-----------------------------------------------------------------------------
(* What a command leaves of a chip.                                        *)

Registers8 == [0..63 -> Byte]

XferFields == {"dir", "whole", "x0", "x", "y", "i", "j", "nx", "ny", "sx", "sy", "op"}
Xfer(t) ==
  /\ t = [f \in XferFields |-> t[f]]
  /\ t.dir \in {"None", "In", "Out"}
  /\ {t.x0, t.x, t.y, t.i, t.j, t.nx, t.ny, t.sx, t.sy} \subseteq Int

Chip(c) == Drawable(c) /\ c.reg \in Registers8 /\ Xfer(c.xfer)

(* What no command touches. *)
Kept == {"v9938", "log", "pal", "palLatch", "palHalf", "fh", "vblank"}

After(c, d, t) ==
  /\ Whole(d) /\ d.vram \in Memories(Size(c)) /\ d.reg \in Registers8
  /\ \A r \in 0..63 : r # 44 => d.reg[r] = c.reg[r]
  /\ \A f \in Kept : d[f] = c[f]
  /\ d.xfer = t

LEMMA PairIn ==
  ASSUME NEW reg \in Registers8, NEW r \in 0..62 PROVE Pair16(reg, r) \in Nat
<1>1. r \in 0..63 /\ r + 1 \in 0..63
  OBVIOUS
<1>2. reg[r] \in Byte /\ reg[r + 1] \in Byte
  BY <1>1 DEF Registers8
<1>3. reg[r] \in Nat /\ reg[r + 1] \in Nat
  BY <1>2 DEF Byte
<1> QED  BY <1>3 DEF Pair16

LEMMA BlockNumbers ==
  ASSUME NEW c, c.reg \in Registers8 PROVE Numbers(Block(c))
<1> DEFINE reg == c.reg
<1> HIDE DEF reg
<1>0. \A r \in 0..62 : Pair16(reg, r) \in Nat
  BY PairIn DEF reg
<1> DEFINE p == Block(c)
<1>1. p.sx = Pair16(reg, 32) % 512 /\ p.sy = Pair16(reg, 34) % 1024
  BY DEF Block, reg
<1>2. p.dx = Pair16(reg, 36) % 512 /\ p.dy = Pair16(reg, 38) % 1024
  BY DEF Block, reg
<1>3. /\ p.nx = IF Pair16(reg, 40) % 512 = 0 THEN 512 ELSE Pair16(reg, 40) % 512
      /\ p.ny = IF Pair16(reg, 42) % 1024 = 0 THEN 1024 ELSE Pair16(reg, 42) % 1024
  BY DEF Block, reg
<1>4. p.stepX \in {-1, 1} /\ p.stepY \in {-1, 1}
  BY DEF Block, reg
<1>5. p.clr = reg[44]
  BY DEF Block, reg
<1>6. p.clr \in Byte
  BY <1>5 DEF Registers8, reg
<1> HIDE DEF p
<1>7. {p.sx, p.sy, p.dx, p.dy, p.stepX, p.stepY} \subseteq Int
  BY <1>0, <1>1, <1>2, <1>4
<1>8. {p.nx, p.ny} \subseteq Nat \ {0}
  BY <1>0, <1>3
<1> QED  BY <1>6, <1>7, <1>8 DEF Numbers, p

LEMMA RedrawnAfter ==
  ASSUME NEW c, Chip(c), NEW d \in Redrawn(c) PROVE After(c, d, c.xfer)
<1>1. /\ Whole(d) /\ d.vram \in Memories(Size(c))
      /\ \A f \in Fields \ {"vram"} : d[f] = c[f]
  BY RedrawnIs DEF Chip, Drawable
<1>2. d.reg = c.reg /\ d.xfer = c.xfer /\ \A f \in Kept : d[f] = c[f]
  BY <1>1 DEF Fields, Kept
<1> QED  BY <1>1, <1>2 DEF After, Chip

(* A byte of a transfer is drawn where the transfer is, which goes a step. *)
LEMMA XferWriteAfter ==
  ASSUME NEW c, Chip(c), NEW b \in Byte
  PROVE  After(c, XferWrite(c, b), XferStep(c.xfer))
<1> DEFINE t == c.xfer
           put == IF t.whole THEN Poke(c, ByteAt(c, t.x, t.y), b)
                  ELSE SetPixel(c, t.x, t.y, b, t.op)
<1>1. t.x \in Int /\ t.y \in Int /\ b \in Int
  BY DEF Chip, Xfer, Byte
<1>2. ByteAt(c, t.x, t.y) \in Int
  BY <1>1, ByteAtIn
<1>3. Poke(c, ByteAt(c, t.x, t.y), b) \in Redrawn(c)
  BY <1>2, PokeIn DEF Chip, Drawable
<1>4. SetPixel(c, t.x, t.y, b, t.op) \in Redrawn(c)
  BY <1>1, SetPixelIn DEF Chip, Drawable
<1>5. put \in Redrawn(c)
  BY <1>3, <1>4
<1>6. XferWrite(c, b) = [put EXCEPT !.xfer = XferStep(t)]
  BY DEF XferWrite
<1> HIDE DEF put, t
<1>7. After(c, put, c.xfer)
  BY <1>5, RedrawnAfter
<1> DEFINE d == [put EXCEPT !.xfer = XferStep(t)]
<1>8. /\ Whole(d) /\ d.vram = put.vram /\ d.reg = put.reg /\ d.xfer = XferStep(t)
      /\ \A f \in Kept : d[f] = put[f]
  BY <1>7 DEF After, Whole, Fields, Kept
<1> HIDE DEF d
<1>9. After(c, d, XferStep(t))
  BY <1>7, <1>8 DEF After
<1> QED  BY <1>6, <1>9 DEF d, t

StartedXfer(dir, whole, x, y, nx, ny, sx, sy, op) ==
  [dir |-> dir, whole |-> whole, x0 |-> x, x |-> x, y |-> y,
   i |-> 0, j |-> 0, nx |-> nx, ny |-> ny, sx |-> sx, sy |-> sy, op |-> op]

LEMMA StartedIs ==
  ASSUME NEW c, Chip(c), NEW dir \in {"In", "Out"}, NEW whole,
         NEW x \in Int, NEW y \in Int, NEW nx \in Int, NEW ny \in Int,
         NEW sx \in Int, NEW sy \in Int, NEW op
  PROVE  LET d == StartXfer(c, dir, whole, x, y, nx, ny, sx, sy, op)
             t == StartedXfer(dir, whole, x, y, nx, ny, sx, sy, op)
         IN  After(c, d, t) /\ Chip(d) /\ Xfer(t) /\ Size(d) = Size(c)
<1> DEFINE d == StartXfer(c, dir, whole, x, y, nx, ny, sx, sy, op)
           t == StartedXfer(dir, whole, x, y, nx, ny, sx, sy, op)
<1>1. d = [c EXCEPT !.xfer = t]
  BY DEF StartXfer, StartedXfer
<1>2. Xfer(t)
  BY DEF StartedXfer, Xfer, XferFields
<1> HIDE DEF d, t
<1>3. /\ Whole(d) /\ d.vram = c.vram /\ d.reg = c.reg /\ d.xfer = t /\ d.v9938 = c.v9938
      /\ \A f \in Kept : d[f] = c[f]
  BY <1>1 DEF Whole, Fields, Kept, Chip, Drawable
<1>4. Size(d) = Size(c)
  BY <1>3 DEF Size
<1>5. After(c, d, t) /\ Chip(d)
  BY <1>2, <1>3, <1>4 DEF After, Chip, Drawable
<1> QED  BY <1>2, <1>4, <1>5 DEF d, t

(* The transfer a command leaves: stopped, begun, or as it was.            *)
TransferredBy(c, p, kind, op) ==
      CASE kind = 0 -> [c.xfer EXCEPT !.dir = "None"]
        [] kind = 10 -> StartedXfer("Out", FALSE, p.sx, p.sy, p.nx, p.ny, p.stepX, p.stepY, op)
        [] kind = 11 -> XferStep(StartedXfer("In", FALSE, p.dx, p.dy, p.nx, p.ny,
                                             p.stepX, p.stepY, op))
        [] kind = 15 -> XferStep(StartedXfer("In", TRUE, Cut(c, p.dx), p.dy,
                                             CutLength(c, p.nx), p.ny, p.stepX, p.stepY, op))
        [] OTHER -> c.xfer

Transferred(c, cmd) == TransferredBy(c, Block(c), cmd \div 16, cmd % 16)

LEMMA TakeBytesAfter ==
  ASSUME NEW c, Chip(c), NEW p, Numbers(p), NEW whole, NEW x \in Int, NEW nx \in Int, NEW op
  PROVE  After(c, TakeBytes(c, p, whole, x, nx, op),
               XferStep(StartedXfer("In", whole, x, p.dy, nx, p.ny, p.stepX, p.stepY, op)))
<1> DEFINE d == StartXfer(c, "In", whole, x, p.dy, nx, p.ny, p.stepX, p.stepY, op)
           t == StartedXfer("In", whole, x, p.dy, nx, p.ny, p.stepX, p.stepY, op)
           e == XferWrite(d, p.clr)
<1>1. {p.dy, p.ny, p.stepX, p.stepY} \subseteq Int /\ p.clr \in Byte
  BY DEF Numbers
<1>2. After(c, d, t) /\ Chip(d) /\ Xfer(t) /\ Size(d) = Size(c)
  BY <1>1, StartedIs
<1>3. d.xfer = t
  BY <1>2 DEF After
<1>4. TakeBytes(c, p, whole, x, nx, op) = e
  BY DEF TakeBytes
<1> HIDE DEF d, t
<1>5. After(d, XferWrite(d, p.clr), XferStep(d.xfer))
  BY <1>1, <1>2, XferWriteAfter
<1>6. After(d, e, XferStep(t))
  BY <1>3, <1>5
<1> HIDE DEF e
<1>7. After(c, e, XferStep(t))
  BY <1>2, <1>6 DEF After
<1> QED  BY <1>4, <1>7 DEF t

LEMMA DoneByAfter ==
  ASSUME NEW c, Chip(c), NEW p, Numbers(p), NEW kind \in Int, NEW op
  PROVE  After(c, DoneBy(c, p, kind, op), TransferredBy(c, p, kind, op))
<1>2. Drawable(c)
  BY DEF Chip
<1>3. {p.sx, p.sy, p.dx, p.dy, p.nx, p.ny, p.stepX, p.stepY} \subseteq Int /\ p.clr \in Byte
      /\ p.clr \in Int
  BY DEF Numbers, Byte
<1>4. CASE kind = 0
  <2> DEFINE d == [c EXCEPT !.xfer.dir = "None"]
             t == [c.xfer EXCEPT !.dir = "None"]
  <2>1. DoneBy(c, p, kind, op) = d /\ TransferredBy(c, p, kind, op) = t
    BY <1>4 DEF DoneBy, TransferredBy
  <2>2. /\ Whole(d) /\ d.vram = c.vram /\ d.reg = c.reg /\ d.xfer = t
        /\ \A f \in Kept : d[f] = c[f]
    BY <1>2 DEF Whole, Fields, Kept, Drawable
  <2> HIDE DEF d, t
  <2> QED  BY <2>1, <2>2 DEF After, Chip, Drawable
<1>5. CASE kind = 4
  <2> DEFINE dot == GetPixel(c, p.sx, p.sy)
             d == [c EXCEPT !.stat7 = dot, !.reg[44] = dot]
  <2>1. DoneBy(c, p, kind, op) = d /\ TransferredBy(c, p, kind, op) = c.xfer
    BY <1>5 DEF DoneBy, TransferredBy, Point
  <2>2. dot \in Byte
    BY <1>2, <1>3, DotIn DEF Drawable
  <2> HIDE DEF dot
  <2>3. /\ Whole(d) /\ d.vram = c.vram /\ d.reg = [c.reg EXCEPT ![44] = dot] /\ d.xfer = c.xfer
        /\ \A f \in Kept : d[f] = c[f]
    BY <1>2 DEF Whole, Fields, Kept, Drawable
  <2> HIDE DEF d
  <2>4. d.reg \in Registers8 /\ \A r \in 0..63 : r # 44 => d.reg[r] = c.reg[r]
    BY <2>2, <2>3 DEF Chip, Registers8
  <2> QED  BY <2>1, <2>3, <2>4 DEF After, Chip, Drawable
<1>6. CASE kind = 6
  <2> DEFINE hits == {x \in 0..DotsPerLine(c) - 1 :
                        /\ (x - p.sx) * p.stepX >= 0
                        /\ (GetPixel(c, x, p.sy) = p.clr) = ~p.swap}
             off == IF p.sx >= DotsPerLine(c) THEN p.sx
                    ELSE IF p.stepX = 1 THEN DotsPerLine(c) ELSE -1
             stop == IF hits = {} \/ p.sx >= DotsPerLine(c) THEN off
                     ELSE CHOOSE x \in hits : \A o \in hits : (o - x) * p.stepX >= 0
             a == stop % 256
             b == (stop \div 256) % 2
             found == stop # off
  <2>0. Search(c, p) = [c EXCEPT !.stat8 = a, !.stat9 = b, !.found = found]
    BY DEF Search
  <2> HIDE DEF a, b, found
  <2> DEFINE d == [c EXCEPT !.stat8 = a, !.stat9 = b, !.found = found]
  <2>1. DoneBy(c, p, kind, op) = d /\ TransferredBy(c, p, kind, op) = c.xfer
    BY <1>6, <2>0 DEF DoneBy, TransferredBy
  <2>2. /\ Whole(d) /\ d.vram = c.vram /\ d.reg = c.reg /\ d.xfer = c.xfer
        /\ \A f \in Kept : d[f] = c[f]
    BY <1>2 DEF Whole, Fields, Kept, Drawable
  <2> HIDE DEF d
  <2> QED  BY <2>1, <2>2 DEF After, Chip, Drawable
<1>7. CASE kind \in {5, 7, 8, 9, 12, 13, 14}
  <2>0. kind # 0 /\ kind # 10 /\ kind # 11 /\ kind # 15
    BY <1>7
  <2>1. TransferredBy(c, p, kind, op) = c.xfer
    BY <2>0 DEF TransferredBy
  <2>2. SetPixel(c, p.dx, p.dy, p.clr, op) \in Redrawn(c)
    BY <1>2, <1>3, SetPixelIn DEF Drawable
  <2>3. /\ Line(c, p, op) \in Redrawn(c) /\ FillPixels(c, p, op) \in Redrawn(c)
        /\ CopyPixels(c, p, op) \in Redrawn(c) /\ FillBytes(c, p) \in Redrawn(c)
        /\ CopyBytes(c, p, p.sx) \in Redrawn(c) /\ CopyBytes(c, p, p.dx) \in Redrawn(c)
    BY <1>2, LineIn, FillPixelsIn, CopyPixelsIn, FillBytesIn, CopyBytesIn
  <2>4. DoneBy(c, p, kind, op) \in Redrawn(c)
    <3>1. kind = 5 => DoneBy(c, p, kind, op) = SetPixel(c, p.dx, p.dy, p.clr, op)
      BY DEF DoneBy
    <3>2. kind = 7 => DoneBy(c, p, kind, op) = Line(c, p, op)
      BY DEF DoneBy
    <3>3. kind = 8 => DoneBy(c, p, kind, op) = FillPixels(c, p, op)
      BY DEF DoneBy
    <3>4. kind = 9 => DoneBy(c, p, kind, op) = CopyPixels(c, p, op)
      BY DEF DoneBy
    <3>5. kind = 12 => DoneBy(c, p, kind, op) = FillBytes(c, p)
      BY DEF DoneBy
    <3>6. kind = 13 => DoneBy(c, p, kind, op) = CopyBytes(c, p, p.sx)
      BY DEF DoneBy
    <3>7. kind = 14 => DoneBy(c, p, kind, op) = CopyBytes(c, p, p.dx)
      BY DEF DoneBy
    <3> QED  BY <1>7, <2>2, <2>3, <3>1, <3>2, <3>3, <3>4, <3>5, <3>6, <3>7
  <2> QED  BY <2>1, <2>4, RedrawnAfter
<1>8. CASE kind = 10
  <2> DEFINE d == StartXfer(c, "Out", FALSE, p.sx, p.sy, p.nx, p.ny, p.stepX, p.stepY, op)
             t == StartedXfer("Out", FALSE, p.sx, p.sy, p.nx, p.ny, p.stepX, p.stepY, op)
  <2>1. DoneBy(c, p, kind, op) = d /\ TransferredBy(c, p, kind, op) = t
    BY <1>8 DEF DoneBy, TransferredBy
  <2>2. After(c, d, t)
    BY <1>3, StartedIs
  <2> QED  BY <2>1, <2>2
<1>9. CASE kind = 11
  <2> DEFINE d == TakeBytes(c, p, FALSE, p.dx, p.nx, op)
             t == XferStep(StartedXfer("In", FALSE, p.dx, p.dy, p.nx, p.ny, p.stepX, p.stepY, op))
  <2>1. DoneBy(c, p, kind, op) = d /\ TransferredBy(c, p, kind, op) = t
    BY <1>9 DEF DoneBy, TransferredBy
  <2>2. After(c, d, t)
    BY <1>3, TakeBytesAfter
  <2> QED  BY <2>1, <2>2
<1>10. CASE kind = 15
  <2> DEFINE d == TakeBytes(c, p, TRUE, Cut(c, p.dx), CutLength(c, p.nx), op)
             t == XferStep(StartedXfer("In", TRUE, Cut(c, p.dx), p.dy, CutLength(c, p.nx), p.ny,
                                       p.stepX, p.stepY, op))
  <2>1. DoneBy(c, p, kind, op) = d /\ TransferredBy(c, p, kind, op) = t
    BY <1>10 DEF DoneBy, TransferredBy
  <2>2. Cut(c, p.dx) \in Int /\ CutLength(c, p.nx) \in Int
    <3>1. p.nx \in Nat
      BY DEF Numbers
    <3> QED  BY <1>3, <3>1, CutIn
  <2>3. After(c, d, t)
    BY <2>2, TakeBytesAfter
  <2> QED  BY <2>1, <2>3
<1>11. CASE kind \notin {0} \cup 4..15
  <2>0. /\ kind # 0 /\ kind # 4 /\ kind # 5 /\ kind # 6 /\ kind # 7 /\ kind # 8 /\ kind # 9
        /\ kind # 10 /\ kind # 11 /\ kind # 12 /\ kind # 13 /\ kind # 14 /\ kind # 15
    BY <1>11
  <2>1. DoneBy(c, p, kind, op) = c /\ TransferredBy(c, p, kind, op) = c.xfer
    BY <2>0 DEF DoneBy, TransferredBy
  <2>2. c \in Redrawn(c)
    BY <1>2, RedrawnSelf
  <2> QED  BY <2>1, <2>2, RedrawnAfter
<1> QED  BY <1>4, <1>5, <1>6, <1>7, <1>8, <1>9, <1>10, <1>11

LEMMA DoneAfter ==
  ASSUME NEW c, Chip(c), NEW cmd \in Byte
  PROVE  After(c, Done(c, cmd), Transferred(c, cmd))
<1>1. Numbers(Block(c))
  BY BlockNumbers DEF Chip
<1>2. cmd \div 16 \in Int
  BY DEF Byte
<1> QED  BY <1>1, <1>2, DoneByAfter DEF Done, Transferred

-----------------------------------------------------------------------------
(* Transfers.                                                              *)

Moved(t, i, x, j, y, dir) == [t EXCEPT !.i = i, !.x = x, !.j = j, !.y = y, !.dir = dir]

LEMMA MovedIs ==
  ASSUME NEW t, Xfer(t), NEW i \in Int, NEW x \in Int, NEW j \in Int, NEW y \in Int,
         NEW dir \in {"None", "In", "Out"}
  PROVE  Xfer(Moved(t, i, x, j, y, dir))
<1> DEFINE d == Moved(t, i, x, j, y, dir)
<1>1. /\ d = [f \in XferFields |-> d[f]] /\ d.dir = dir /\ d.i = i /\ d.x = x /\ d.j = j
      /\ d.y = y /\ d.x0 = t.x0 /\ d.nx = t.nx /\ d.ny = t.ny /\ d.sx = t.sx /\ d.sy = t.sy
  BY DEF XferFields, Moved, Xfer
<1> HIDE DEF d
<1>2. Xfer(d)
  BY <1>1 DEF Xfer
<1> QED  BY <1>2 DEF d

(* A step along the rectangle, to the next line, or past its last.         *)
LEMMA XferStepMoves ==
  ASSUME NEW t, Xfer(t)
  PROVE  XferStep(t) =
           IF t.i + 1 < t.nx THEN Moved(t, t.i + 1, t.x + t.sx, t.j, t.y, t.dir)
           ELSE Moved(t, 0, t.x0, t.j + 1, t.y + t.sy,
                      IF t.j + 1 < t.ny THEN t.dir ELSE "None")
<1>0. /\ t = [f \in XferFields |-> t[f]]
      /\ t.i \in Int /\ t.j \in Int /\ t.nx \in Int /\ t.ny \in Int
  BY DEF Xfer
<1>1. CASE t.i + 1 < t.nx
  <2>1. XferStep(t) = [t EXCEPT !.i = t.i + 1, !.x = t.x + t.sx]
    BY <1>0, <1>1 DEF XferStep
  <2> QED  BY <1>0, <1>1, <2>1 DEF XferFields, Moved
<1>2. CASE ~ (t.i + 1 < t.nx) /\ t.j + 1 < t.ny
  <2>1. XferStep(t) = [t EXCEPT !.i = 0, !.x = t.x0, !.j = t.j + 1, !.y = t.y + t.sy]
    BY <1>0, <1>2 DEF XferStep
  <2> QED  BY <1>0, <1>2, <2>1 DEF XferFields, Moved
<1>3. CASE ~ (t.i + 1 < t.nx) /\ ~ (t.j + 1 < t.ny)
  BY <1>0, <1>3 DEF XferStep, Moved
<1> QED  BY <1>1, <1>2, <1>3

LEMMA XferStepIs ==
  ASSUME NEW t, Xfer(t) PROVE Xfer(XferStep(t))
<1>1. /\ t.dir \in {"None", "In", "Out"} /\ "None" \in {"None", "In", "Out"} /\ t.x0 \in Int
      /\ t.i + 1 \in Int /\ t.x + t.sx \in Int /\ t.j \in Int /\ t.y \in Int
      /\ 0 \in Int /\ t.j + 1 \in Int /\ t.y + t.sy \in Int
  BY DEF Xfer
<1>2. Xfer(Moved(t, t.i + 1, t.x + t.sx, t.j, t.y, t.dir))
  BY <1>1, MovedIs
<1>3. Xfer(Moved(t, 0, t.x0, t.j + 1, t.y + t.sy, t.dir))
  BY <1>1, MovedIs
<1>4. Xfer(Moved(t, 0, t.x0, t.j + 1, t.y + t.sy, "None"))
  BY <1>1, MovedIs
<1> QED  BY <1>2, <1>3, <1>4, XferStepMoves

LEMMA StartedXferIs ==
  ASSUME NEW dir \in {"In", "Out"}, NEW whole,
         NEW x \in Int, NEW y \in Int, NEW nx \in Int, NEW ny \in Int,
         NEW sx \in Int, NEW sy \in Int, NEW op
  PROVE  Xfer(StartedXfer(dir, whole, x, y, nx, ny, sx, sy, op))
BY DEF StartedXfer, Xfer, XferFields

LEMMA TransferredIs ==
  ASSUME NEW c, Chip(c), NEW cmd \in Byte PROVE Xfer(Transferred(c, cmd))
<1>1. Xfer(c.xfer)
  BY DEF Chip
<1>2. Numbers(Block(c))
  BY BlockNumbers DEF Chip
<1> SUFFICES ASSUME NEW p, Numbers(p), NEW kind, NEW op
             PROVE  Xfer(TransferredBy(c, p, kind, op))
  BY <1>2 DEF Transferred
<1>3. /\ {p.sx, p.sy, p.dx, p.dy, p.nx, p.ny, p.stepX, p.stepY} \subseteq Int
      /\ p.nx \in Nat
  BY DEF Numbers
<1>4. Cut(c, p.dx) \in Int /\ CutLength(c, p.nx) \in Int
  BY <1>3, CutIn
<1>5. Xfer([c.xfer EXCEPT !.dir = "None"])
  BY <1>1 DEF Xfer, XferFields
<1>6. Xfer(StartedXfer("Out", FALSE, p.sx, p.sy, p.nx, p.ny, p.stepX, p.stepY, op))
  BY <1>3, StartedXferIs
<1>7. Xfer(XferStep(StartedXfer("In", FALSE, p.dx, p.dy, p.nx, p.ny, p.stepX, p.stepY, op)))
  BY <1>3, StartedXferIs, XferStepIs
<1>8. Xfer(XferStep(StartedXfer("In", TRUE, Cut(c, p.dx), p.dy, CutLength(c, p.nx), p.ny,
                                p.stepX, p.stepY, op)))
  BY <1>3, <1>4, StartedXferIs, XferStepIs
<1> QED  BY <1>1, <1>5, <1>6, <1>7, <1>8 DEF TransferredBy

Unwritten(c, d) == \A r \in 0..63 : r \notin {44, 46} => d.reg[r] = c.reg[r]

Executed(c, cmd, d) ==
  /\ Chip(d) /\ d.xfer = Transferred(c, cmd)
  /\ \A f \in Kept : d[f] = c[f]
  /\ Unwritten(c, d)

(* Whatever its block, its kind and the mode it is drawn in, a command     *)
(* leaves a chip: memory of the same size holding bytes, no register       *)
(* changed but the colour and the command, the transfer its block says,    *)
(* and nothing of the palette, the log and the flags; vdpcmd.go's Execute. *)
THEOREM CommandsKeepTheChip ==
  ASSUME NEW c, Chip(c), NEW cmd \in Byte
  PROVE  Executed(c, cmd, Execute(c, cmd))
<1> DEFINE done == Done(c, cmd)
           t == Transferred(c, cmd)
           busy == done.working \/ (done.xfer.dir = "None" /\ cmd \div 16 \in Timed)
           d == [done EXCEPT !.reg[46] = 0, !.working = busy]
<1>1. Execute(c, cmd) = d
  BY DEF Execute
<1>2. After(c, done, t) /\ Xfer(t)
  BY DoneAfter, TransferredIs
<1> HIDE DEF done, t, busy
<1>3. /\ Whole(d) /\ d.vram = done.vram /\ d.reg = [done.reg EXCEPT ![46] = 0]
      /\ d.xfer = done.xfer /\ \A f \in Kept : d[f] = done[f]
  BY <1>2 DEF After, Whole, Fields, Kept
<1> HIDE DEF d
<1>4. \A f \in Kept : d[f] = c[f]
  BY <1>2, <1>3 DEF After
<1>5. d.v9938 = c.v9938
  BY <1>4 DEF Kept
<1>6. d.vram \in Memories(Size(d))
  BY <1>2, <1>3, <1>5 DEF After, Size
<1>7. d.reg \in Registers8
  <2>1. 0 \in Byte
    BY DEF Byte
  <2> QED  BY <1>2, <1>3, <2>1 DEF After, Registers8
<1>8. Unwritten(c, d)
  BY <1>2, <1>3 DEF After, Registers8, Unwritten
<1>9. d.xfer = t
  BY <1>2, <1>3 DEF After
<1> QED  BY <1>1, <1>2, <1>3, <1>4, <1>6, <1>7, <1>8, <1>9 DEF Chip, Drawable, Executed, d, t

-----------------------------------------------------------------------------
(* Where a transfer is.                                                    *)

JobFields == {"n", "x", "y", "nx", "ny", "sx", "sy"}
Job(q) ==
  /\ q = [f \in JobFields |-> q[f]]
  /\ {q.n, q.x, q.y, q.nx, q.ny, q.sx, q.sy} \subseteq Int

(* The n-th unit of the rectangle is the i-th of its j-th line. *)
Under(t, q) ==
  /\ t.i \in 0..t.nx - 1 /\ t.j \in 0..t.ny - 1
  /\ q.n = t.j * t.nx + t.i /\ q.nx = t.nx /\ q.ny = t.ny
  /\ t.x0 = q.x /\ t.sx = q.sx /\ t.sy = q.sy
  /\ t.x = q.x + t.i * q.sx /\ t.y = q.y + t.j * q.sy

Place(t, q) == IF t.dir = "None" THEN q.n = q.nx * q.ny ELSE Under(t, q)

OneOn(q) == [q EXCEPT !.n = @ + 1]

LEMMA OneMore ==
  ASSUME NEW a \in Int, NEW b \in Int PROVE (a + 1) * b = a * b + b
OBVIOUS

LEMMA OneOnIs ==
  ASSUME NEW q, Job(q)
  PROVE  /\ Job(OneOn(q)) /\ OneOn(q).n = q.n + 1 /\ OneOn(q).x = q.x /\ OneOn(q).y = q.y
         /\ OneOn(q).nx = q.nx /\ OneOn(q).ny = q.ny
         /\ OneOn(q).sx = q.sx /\ OneOn(q).sy = q.sy
BY DEF Job, JobFields, OneOn

LEMMA MovedFields ==
  ASSUME NEW t, Xfer(t), NEW i, NEW x, NEW j, NEW y, NEW dir
  PROVE  LET m == Moved(t, i, x, j, y, dir)
         IN  /\ m.i = i /\ m.x = x /\ m.j = j /\ m.y = y /\ m.dir = dir
             /\ m.x0 = t.x0 /\ m.nx = t.nx /\ m.ny = t.ny /\ m.sx = t.sx /\ m.sy = t.sy
             /\ m.whole = t.whole
BY DEF Moved, Xfer, XferFields

(* One unit on, the transfer is at the next place, or ends with the last.  *)
LEMMA StepPlace ==
  ASSUME NEW t, Xfer(t), t.dir # "None", NEW q, Job(q), Under(t, q)
  PROVE  Place(XferStep(t), OneOn(q))
<1> DEFINE s == XferStep(t)
           r == OneOn(q)
<1>0. /\ t.x0 \in Int /\ t.x \in Int /\ t.y \in Int /\ t.i \in Int /\ t.j \in Int
      /\ t.nx \in Int /\ t.ny \in Int /\ t.sx \in Int /\ t.sy \in Int
      /\ q.n \in Int /\ q.x \in Int /\ q.y \in Int /\ q.sx \in Int /\ q.sy \in Int
  BY DEF Xfer, Job
<1>1. /\ r.n = q.n + 1 /\ r.x = q.x /\ r.y = q.y /\ r.nx = q.nx /\ r.ny = q.ny
      /\ r.sx = q.sx /\ r.sy = q.sy
  BY OneOnIs
<1>2. /\ t.i \in 0..t.nx - 1 /\ t.j \in 0..t.ny - 1
      /\ q.n = t.j * t.nx + t.i /\ q.nx = t.nx /\ q.ny = t.ny
      /\ t.x0 = q.x /\ t.sx = q.sx /\ t.sy = q.sy
      /\ t.x = q.x + t.i * q.sx /\ t.y = q.y + t.j * q.sy
  BY DEF Under
<1>3. /\ (t.i + 1) * q.sx = t.i * q.sx + q.sx
      /\ (t.j + 1) * q.sy = t.j * q.sy + q.sy
      /\ (t.j + 1) * t.nx = t.j * t.nx + t.nx
  BY <1>0, OneMore
<1>4. t.i * q.sx \in Int /\ t.j * q.sy \in Int /\ t.j * t.nx \in Int
  BY <1>0
<1> SUFFICES Place(s, r)
  OBVIOUS
<1>5. CASE t.i + 1 < t.nx
  <2>1. s = Moved(t, t.i + 1, t.x + t.sx, t.j, t.y, t.dir)
    BY <1>5, XferStepMoves
  <2>2. /\ s.i = t.i + 1 /\ s.x = t.x + t.sx /\ s.j = t.j /\ s.y = t.y /\ s.dir = t.dir
        /\ s.x0 = t.x0 /\ s.nx = t.nx /\ s.ny = t.ny /\ s.sx = t.sx /\ s.sy = t.sy
    BY <2>1, MovedFields
  <2> HIDE DEF s, r
  <2>3. s.x = r.x + s.i * r.sx
    BY <1>0, <1>1, <1>2, <1>3, <1>4, <2>2
  <2>4. s.y = r.y + s.j * r.sy
    BY <1>1, <1>2, <2>2
  <2>5. r.n = s.j * s.nx + s.i
    BY <1>0, <1>1, <1>2, <1>4, <2>2
  <2>6. s.i \in 0..s.nx - 1 /\ s.j \in 0..s.ny - 1
    BY <1>0, <1>2, <1>5, <2>2
  <2>7. Under(s, r)
    BY <1>1, <1>2, <2>2, <2>3, <2>4, <2>5, <2>6 DEF Under
  <2> QED  BY <2>2, <2>7 DEF Place
<1>6. CASE ~ (t.i + 1 < t.nx)
  <2> DEFINE dir == IF t.j + 1 < t.ny THEN t.dir ELSE "None"
  <2>1. s = Moved(t, 0, t.x0, t.j + 1, t.y + t.sy, dir)
    BY <1>6, XferStepMoves
  <2>2. /\ s.i = 0 /\ s.x = t.x0 /\ s.j = t.j + 1 /\ s.y = t.y + t.sy /\ s.dir = dir
        /\ s.x0 = t.x0 /\ s.nx = t.nx /\ s.ny = t.ny /\ s.sx = t.sx /\ s.sy = t.sy
    BY <2>1, MovedFields
  <2> HIDE DEF s, r
  <2>3. t.i + 1 = t.nx
    BY <1>0, <1>2, <1>6
  <2>4. r.n = (t.j + 1) * t.nx
    BY <1>0, <1>1, <1>2, <1>3, <1>4, <2>3
  <2>5. CASE t.j + 1 < t.ny
    <3>1. s.x = r.x + s.i * r.sx
      BY <1>0, <1>1, <1>2, <2>2
    <3>2. s.y = r.y + s.j * r.sy
      BY <1>0, <1>1, <1>2, <1>3, <1>4, <2>2
    <3>3. r.n = s.j * s.nx + s.i
      <4>1. s.j * s.nx \in Int
        BY <1>0, <2>2
      <4> QED  BY <2>2, <2>4, <4>1
    <3>4. s.i \in 0..s.nx - 1 /\ s.j \in 0..s.ny - 1
      BY <1>0, <1>2, <2>2, <2>5
    <3>5. Under(s, r)
      BY <1>1, <1>2, <2>2, <3>1, <3>2, <3>3, <3>4 DEF Under
    <3> QED  BY <2>2, <2>5, <3>5 DEF Place
  <2>6. CASE ~ (t.j + 1 < t.ny)
    <3>1. t.j + 1 = t.ny
      <4>1. t.j \in 0..t.ny - 1
        BY <1>2
      <4>2. t.j \in Int /\ t.ny \in Int
        BY <1>0
      <4> QED  BY <2>6, <4>1, <4>2
    <3>2. r.n = r.nx * r.ny
      <4>1. r.n = t.ny * t.nx
        BY <2>4, <3>1
      <4>2. t.ny * t.nx = t.nx * t.ny
        BY <1>0
      <4> QED  BY <1>1, <1>2, <4>1, <4>2
    <3>3. s.dir = "None"
      BY <2>2, <2>6
    <3> QED  BY <3>2, <3>3 DEF Place
  <2> QED  BY <2>5, <2>6
<1> QED  BY <1>5, <1>6

(* So the place is the count of units divided by the width.                *)
LEMMA Divided ==
  ASSUME NEW w \in Nat, NEW i \in 0..w - 1, NEW j \in Nat
  PROVE  (j * w + i) % w = i /\ (j * w + i) \div w = j
<1> DEFINE n == j * w + i
           r == n % w
           d == n \div w
<1>1. j * w \in Nat /\ w > 0
  OBVIOUS
<1>2. n \in Nat
  BY <1>1
<1>3. r \in 0..w - 1 /\ d \in Nat /\ n = (d * w) + r
  <2> HIDE DEF n
  <2>1. n = ((n \div w) * w) + (n % w)
    BY <1>1, <1>2
  <2>2. n % w \in 0..w - 1 /\ n \div w \in Nat
    BY <1>1, <1>2
  <2> QED  BY <2>1, <2>2
<1> HIDE DEF r, d
<1>4. (d - j) * w = i - r
  <2>1. (d - j) * w = d * w - j * w
    BY <1>3
  <2>2. d * w \in Int /\ j * w \in Int
    BY <1>3
  <2> QED  BY <1>3, <2>1, <2>2
<1>5. d = j
  <2>1. ASSUME d - j >= 1 PROVE FALSE
    <3>1. (d - j) * w >= w
      BY <1>3, <2>1
    <3>2. (d - j) * w \in Int
      BY <1>3
    <3> QED  BY <1>3, <1>4, <3>1, <3>2
  <2>2. ASSUME d - j <= -1 PROVE FALSE
    <3>1. (d - j) * w <= 0 - w
      BY <1>3, <2>2
    <3>2. (d - j) * w \in Int
      BY <1>3
    <3> QED  BY <1>3, <1>4, <3>1, <3>2
  <2> QED  BY <1>3, <2>1, <2>2
<1>6. r = i
  <2>1. j * w \in Int
    OBVIOUS
  <2> QED  BY <1>3, <1>5, <2>1
<1> QED  BY <1>5, <1>6 DEF r, d, n

LEMMA PlaceIsCount ==
  ASSUME NEW t, Xfer(t), NEW q, Job(q), Place(t, q)
  PROVE  IF t.dir = "None" THEN q.n = q.nx * q.ny
         ELSE /\ q.n < q.nx * q.ny
              /\ t.x = q.x + (q.n % q.nx) * q.sx
              /\ t.y = q.y + (q.n \div q.nx) * q.sy
<1> SUFFICES ASSUME t.dir # "None"
             PROVE  /\ q.n < q.nx * q.ny
                    /\ t.x = q.x + (q.n % q.nx) * q.sx
                    /\ t.y = q.y + (q.n \div q.nx) * q.sy
  BY DEF Place
<1>1. Under(t, q)
  BY DEF Place
<1>2. t.nx \in Int /\ t.ny \in Int /\ t.i \in Int /\ t.j \in Int
  BY DEF Xfer
<1>3. /\ t.nx \in Nat /\ t.i \in 0..t.nx - 1 /\ t.j \in Nat /\ t.j + 1 <= t.ny
      /\ q.n = t.j * t.nx + t.i /\ q.nx = t.nx /\ q.ny = t.ny
  BY <1>1, <1>2 DEF Under
<1>4. q.n % q.nx = t.i /\ q.n \div q.nx = t.j
  <2>1. (t.j * t.nx + t.i) % t.nx = t.i /\ (t.j * t.nx + t.i) \div t.nx = t.j
    BY <1>3, Divided
  <2> QED  BY <1>3, <2>1, Zenon
<1>5. q.n < q.nx * q.ny
  <2>1. (t.j + 1) * t.nx = t.j * t.nx + t.nx
    BY <1>2, OneMore
  <2>2. (t.j + 1) * t.nx <= t.ny * t.nx
    BY <1>2, <1>3
  <2>3. t.ny * t.nx = t.nx * t.ny /\ t.j * t.nx \in Int /\ t.nx * t.ny \in Int
    BY <1>2
  <2> QED  BY <1>2, <1>3, <2>1, <2>2, <2>3
<1> QED  BY <1>1, <1>4, <1>5 DEF Under

-----------------------------------------------------------------------------
(* Registers: a smaller memory is one of a larger size too, which is what  *)
(* happens to the memory of a chip that shows itself to be the later one.  *)
LEMMA Grown ==
  ASSUME NEW m \in Nat, NEW n \in Nat, m <= n, NEW v \in Memories(m)
  PROVE  v \in Memories(n)
<1>1. PICK places \in SUBSET (0..m - 1) : v \in [places -> Byte]
  BY DEF Memories
<1>2. places \in SUBSET (0..n - 1)
  OBVIOUS
<1> QED  BY <1>1, <1>2 DEF Memories

(* A register set, on a chip that may have shown to be the later one.      *)
RegSet(c, r, b, d) ==
  /\ Chip(d) /\ d.reg = [c.reg EXCEPT ![r] = b]
  /\ \A f \in Fields \ {"reg", "v9938", "log"} : d[f] = c[f]
  /\ d.v9938 = IF r > 7 THEN TRUE ELSE c.v9938

LEMMA SetRegIs ==
  ASSUME NEW c, Chip(c), NEW r \in 0..63, NEW b \in Byte, NEW at
  PROVE  RegSet(c, r, b, SetReg(IF r > 7 THEN GoV9938(c) ELSE c, r, b, at))
<1> DEFINE e == IF r > 7 THEN GoV9938(c) ELSE c
           log == IF r \in Logged
                  THEN Append(e.log, [line |-> DisplayLine(e, at), reg |-> r,
                                      old |-> e.reg[r], new |-> b])
                  ELSE e.log
           d == [e EXCEPT !.reg[r] = b, !.log = log]
<1>1. SetReg(e, r, b, at) = d
  BY DEF SetReg
<1>2. /\ Whole(e) /\ \A f \in Fields \ {"v9938"} : e[f] = c[f]
      /\ e.v9938 = IF r > 7 THEN TRUE ELSE c.v9938
  BY DEF GoV9938, Whole, Fields, Chip, Drawable
<1>3. e.reg = c.reg
  BY <1>2 DEF Fields
<1> HIDE DEF e, log
<1>4. /\ Whole(d) /\ d.reg = [e.reg EXCEPT ![r] = b] /\ d.v9938 = e.v9938
      /\ \A f \in Fields \ {"reg", "log"} : d[f] = e[f]
  BY <1>2 DEF Whole, Fields
<1> HIDE DEF d
<1>5. \A f \in Fields \ {"reg", "v9938", "log"} : d[f] = c[f]
  BY <1>2, <1>4
<1>6. d.vram = c.vram /\ d.xfer = c.xfer
  BY <1>5 DEF Fields
<1>7. Size(d) = Size(c) \/ (Size(c) = 16384 /\ Size(d) = 131072)
  <2>1. CASE r > 7
    BY <1>2, <1>4, <2>1, SizeIsOneOfTwo DEF Size
  <2>2. CASE ~ (r > 7)
    <3>1. d.v9938 = c.v9938
      BY <1>2, <1>4, <2>2, Zenon
    <3> QED  BY <3>1 DEF Size
  <2> QED  BY <2>1, <2>2
<1>8. d.vram \in Memories(Size(d))
  BY <1>6, <1>7, Grown DEF Chip, Drawable
<1>9. d.reg \in Registers8 /\ d.reg = [c.reg EXCEPT ![r] = b]
  BY <1>3, <1>4 DEF Chip, Registers8
<1> QED  BY <1>1, <1>2, <1>4, <1>5, <1>6, <1>8, <1>9 DEF Chip, Drawable, RegSet, d, e

-----------------------------------------------------------------------------
(* What writing a register leaves, by the registers it leaves alone.       *)

LEMMA SameMode ==
  ASSUME NEW c, NEW d, d.reg[0] = c.reg[0], d.reg[1] = c.reg[1]
  PROVE  /\ Mode(d) = Mode(c) /\ Interleaved(d) = Interleaved(c)
         /\ \A n : Cut(d, n) = Cut(c, n) /\ CutLength(d, n) = CutLength(c, n)
<1>1. Mode(d) = Mode(c)
  BY DEF Mode
<1>2. Interleaved(d) = Interleaved(c) /\ PixelsPerByte(d) = PixelsPerByte(c)
  BY <1>1, Zenon DEF Interleaved, PixelsPerByte
<1>3. \A n : Cut(d, n) = Cut(c, n)
  BY <1>2 DEF Cut
<1> QED  BY <1>1, <1>2, <1>3 DEF CutLength

(* Where and how far a command goes: all of its block but the colour.      *)
SameWay(p, q) ==
  /\ p.sx = q.sx /\ p.sy = q.sy /\ p.dx = q.dx /\ p.dy = q.dy /\ p.nx = q.nx /\ p.ny = q.ny
  /\ p.stepX = q.stepX /\ p.stepY = q.stepY

(* The registers that say so. *)
Ways == {0, 1, 45} \cup 32..43
Shows(c, d) == \A r \in Ways : d.reg[r] = c.reg[r]

LEMMA SameBlock ==
  ASSUME NEW c, NEW d, Shows(c, d)
  PROVE  /\ SameWay(Block(d), Block(c))
         /\ \A n : Cut(d, n) = Cut(c, n) /\ CutLength(d, n) = CutLength(c, n)
<1>1. /\ Pair16(d.reg, 32) = Pair16(c.reg, 32) /\ Pair16(d.reg, 34) = Pair16(c.reg, 34)
      /\ Pair16(d.reg, 36) = Pair16(c.reg, 36) /\ Pair16(d.reg, 38) = Pair16(c.reg, 38)
      /\ Pair16(d.reg, 40) = Pair16(c.reg, 40) /\ Pair16(d.reg, 42) = Pair16(c.reg, 42)
  BY DEF Pair16, Shows, Ways
<1>2. d.reg[0] = c.reg[0] /\ d.reg[1] = c.reg[1] /\ d.reg[45] = c.reg[45]
  BY DEF Shows, Ways
<1>3. SameWay(Block(d), Block(c))
  BY <1>1, <1>2 DEF Block, SameWay
<1> QED  BY <1>2, <1>3, SameMode

(* The transfer after command cmd on chip c, read off the chip it leaves.  *)
TransferFrom(d, t, cmd) ==
  LET p == Block(d)
      kind == cmd \div 16
      op == cmd % 16
      rect == StartedXfer("In", FALSE, p.dx, p.dy, p.nx, p.ny, p.stepX, p.stepY, op)
      bytes == StartedXfer("In", TRUE, Cut(d, p.dx), p.dy, CutLength(d, p.nx), p.ny,
                           p.stepX, p.stepY, op)
  IN  /\ kind = 0 => d.xfer = [t EXCEPT !.dir = "None"]
      /\ kind = 10 => d.xfer = StartedXfer("Out", FALSE, p.sx, p.sy, p.nx, p.ny,
                                           p.stepX, p.stepY, op)
      /\ kind = 11 => d.xfer = XferStep(rect)
      /\ kind = 15 => d.xfer = XferStep(bytes)
      /\ kind \notin {0, 10, 11, 15} => d.xfer = t

LEMMA TransferFromIs ==
  ASSUME NEW c, NEW d, Unwritten(c, d), NEW cmd \in Byte, d.xfer = Transferred(c, cmd)
  PROVE  TransferFrom(d, c.xfer, cmd)
<1> DEFINE kind == cmd \div 16
<1>1. kind \in Int
  BY DEF Byte
<1>2. d.xfer = TransferredBy(c, Block(c), kind, cmd % 16)
  BY DEF Transferred
<1>3. Shows(c, d)
  BY DEF Shows, Ways, Unwritten
<1>4. /\ SameWay(Block(d), Block(c))
      /\ \A n : Cut(d, n) = Cut(c, n) /\ CutLength(d, n) = CutLength(c, n)
  BY <1>3, SameBlock
<1> DEFINE p == Block(d)
           q == Block(c)
           op == cmd % 16
           rect == StartedXfer("In", FALSE, p.dx, p.dy, p.nx, p.ny, p.stepX, p.stepY, op)
           bytes == StartedXfer("In", TRUE, Cut(d, p.dx), p.dy, CutLength(d, p.nx), p.ny,
                                p.stepX, p.stepY, op)
           out == StartedXfer("Out", FALSE, p.sx, p.sy, p.nx, p.ny, p.stepX, p.stepY, op)
<1>5. rect = StartedXfer("In", FALSE, q.dx, q.dy, q.nx, q.ny, q.stepX, q.stepY, op)
  BY <1>4 DEF SameWay
<1>6. bytes = StartedXfer("In", TRUE, Cut(c, q.dx), q.dy, CutLength(c, q.nx), q.ny,
                          q.stepX, q.stepY, op)
  BY <1>4 DEF SameWay
<1>7. out = StartedXfer("Out", FALSE, q.sx, q.sy, q.nx, q.ny, q.stepX, q.stepY, op)
  BY <1>4 DEF SameWay
<1> HIDE DEF rect, bytes, out, p, q, op, kind
<1>8. TransferredBy(c, q, kind, op) =
        CASE kind = 0 -> [c.xfer EXCEPT !.dir = "None"]
          [] kind = 10 -> out
          [] kind = 11 -> XferStep(rect)
          [] kind = 15 -> XferStep(bytes)
          [] OTHER -> c.xfer
  BY <1>5, <1>6, <1>7 DEF TransferredBy
<1>9. d.xfer = TransferredBy(c, q, kind, op)
  BY <1>2 DEF q, op
<1>10. /\ kind = 0 => d.xfer = [c.xfer EXCEPT !.dir = "None"]
       /\ kind = 10 => d.xfer = out
       /\ kind = 11 => d.xfer = XferStep(rect)
       /\ kind = 15 => d.xfer = XferStep(bytes)
       /\ kind \notin {0, 10, 11, 15} => d.xfer = c.xfer
  BY <1>1, <1>8, <1>9
<1> QED  BY <1>10 DEF TransferFrom, rect, bytes, out, p, op, kind

(* A register write.                                                       *)
Written(c, r, b, d) ==
  /\ Chip(d)
  /\ d.v9938 = IF r > 7 THEN TRUE ELSE c.v9938
  /\ d.pal = c.pal /\ d.palLatch = c.palLatch /\ d.palHalf = c.palHalf
  /\ r \notin {44, 46} => d.vram = c.vram
  /\ \A s \in 0..63 : s \notin {44, 46, r} => d.reg[s] = c.reg[s]
  /\ r = 46 => TransferFrom(d, c.xfer, b)
  /\ r # 46 => d.xfer = IF r = 44 /\ c.xfer.dir = "In" THEN XferStep(c.xfer) ELSE c.xfer

LEMMA WriteRegIs ==
  ASSUME NEW c, Chip(c), NEW r \in 0..63, NEW b \in Byte, NEW at
  PROVE  Written(c, r, b, WriteReg(c, r, b, at))
<1> DEFINE set == SetReg(IF r > 7 THEN GoV9938(c) ELSE c, r, b, at)
           d == WriteReg(c, r, b, at)
<1>1. RegSet(c, r, b, set)
  BY SetRegIs
<1>2. /\ set.pal = c.pal /\ set.palLatch = c.palLatch /\ set.palHalf = c.palHalf
      /\ set.vram = c.vram /\ set.xfer = c.xfer
  BY <1>1 DEF RegSet, Fields
<1>3. \A s \in 0..63 : s # r => set.reg[s] = c.reg[s]
  BY <1>1 DEF RegSet, Chip, Registers8
<1>4. r = 46 => d = Execute(set, b)
  BY DEF WriteReg
<1>5. r = 44 /\ c.xfer.dir = "In" => d = XferWrite(set, b)
  BY <1>2 DEF WriteReg
<1>6. r # 46 /\ ~ (r = 44 /\ c.xfer.dir = "In") => d = set
  BY <1>2 DEF WriteReg
<1>7. Chip(set) /\ set.v9938 = IF r > 7 THEN TRUE ELSE c.v9938
  BY <1>1 DEF RegSet
<1> SUFFICES Written(c, r, b, d)
  OBVIOUS
<1> HIDE DEF set, d
<1>8. CASE r = 46
  <2>1. Executed(set, b, d)
    BY <1>4, <1>7, <1>8, CommandsKeepTheChip
  <2>2. TransferFrom(d, set.xfer, b)
    BY <2>1, TransferFromIs DEF Executed
  <2>3. TransferFrom(d, c.xfer, b)
    BY <1>2, <2>2
  <2>4. /\ d.v9938 = set.v9938 /\ d.pal = set.pal /\ d.palLatch = set.palLatch
        /\ d.palHalf = set.palHalf
    BY <2>1 DEF Executed, Kept
  <2>5. \A s \in 0..63 : s \notin {44, 46, r} => d.reg[s] = c.reg[s]
    BY <1>3, <2>1 DEF Executed, Unwritten
  <2>6. d.v9938 = IF r > 7 THEN TRUE ELSE c.v9938
    BY <1>7, <2>4, Zenon
  <2> QED  BY <1>2, <1>8, <2>1, <2>3, <2>4, <2>5, <2>6, Zenon DEF Written, Executed
<1>9. CASE r = 44 /\ c.xfer.dir = "In"
  <2>1. After(set, d, XferStep(set.xfer))
    BY <1>5, <1>7, <1>9, XferWriteAfter
  <2>2. /\ Whole(d) /\ d.vram \in Memories(Size(set)) /\ d.reg \in Registers8
        /\ \A s \in 0..63 : s # 44 => d.reg[s] = set.reg[s]
        /\ d.xfer = XferStep(c.xfer)
    BY <1>2, <2>1 DEF After
  <2>3. /\ d.v9938 = set.v9938 /\ d.pal = set.pal /\ d.palLatch = set.palLatch
        /\ d.palHalf = set.palHalf
    BY <2>1 DEF After, Kept
  <2>4. Size(d) = Size(set)
    BY <2>3 DEF Size
  <2>5. Xfer(d.xfer)
    BY <1>2, <1>7, <2>2, XferStepIs DEF Chip
  <2>6. Chip(d)
    BY <2>2, <2>4, <2>5 DEF Chip, Drawable
  <2>7. \A s \in 0..63 : s \notin {44, 46, r} => d.reg[s] = c.reg[s]
    BY <1>3, <2>2
  <2>8. d.v9938 = IF r > 7 THEN TRUE ELSE c.v9938
    BY <1>7, <2>3, Zenon
  <2>9. r # 46 /\ (r \notin {44, 46} => d.vram = c.vram)
    BY <1>9
  <2> QED  BY <1>2, <1>9, <2>2, <2>3, <2>6, <2>7, <2>8, <2>9, Zenon DEF Written
<1>10. CASE r # 46 /\ ~ (r = 44 /\ c.xfer.dir = "In")
  <2>1. d = set
    BY <1>6, <1>10
  <2>2. \A s \in 0..63 : s \notin {44, 46, r} => d.reg[s] = c.reg[s]
    BY <1>3, <2>1
  <2> QED  BY <1>2, <1>7, <1>10, <2>1, <2>2, Zenon DEF Written
<1> QED  BY <1>8, <1>9, <1>10

-----------------------------------------------------------------------------
(* What a register write does to the transfer, and to the job that says    *)
(* where it should be.                                                     *)

Carried(t, r, b, d) ==
  /\ r = 46 => TransferFrom(d, t, b)
  /\ r # 46 => d.xfer = IF r = 44 /\ t.dir = "In" THEN XferStep(t) ELSE t

Followed(q, t, r, b, d) ==
  CASE r = 46 /\ b \div 16 \in {10, 11, 15} -> Began(d)
    [] r = 46 /\ b \div 16 = 0 -> NoJob
    [] r = 44 /\ t.dir = "In" -> OneOn(q)
    [] OTHER -> q

LEMMA NoJobIs == Job(NoJob) /\ NoJob.n = NoJob.nx * NoJob.ny
BY DEF NoJob, Job, JobFields

(* The rectangle a transfer starts over, with no byte of it moved.         *)
AtStart(x, y, nx, ny, sx, sy) ==
  [n |-> 0, x |-> x, y |-> y, nx |-> nx, ny |-> ny, sx |-> sx, sy |-> sy]

LEMMA StartPlace ==
  ASSUME NEW dir \in {"In", "Out"}, NEW whole,
         NEW x \in Int, NEW y \in Int, NEW nx \in Nat \ {0}, NEW ny \in Nat \ {0},
         NEW sx \in Int, NEW sy \in Int, NEW op,
         NEW t, t = StartedXfer(dir, whole, x, y, nx, ny, sx, sy, op),
         NEW q, q = AtStart(x, y, nx, ny, sx, sy)
  PROVE  Xfer(t) /\ t.dir = dir /\ t.whole = whole /\ Job(q) /\ Under(t, q)
<1>1. Xfer(t)
  BY StartedXferIs
<1>2. /\ t.dir = dir /\ t.whole = whole /\ t.x0 = x /\ t.x = x /\ t.y = y /\ t.i = 0 /\ t.j = 0
      /\ t.nx = nx /\ t.ny = ny /\ t.sx = sx /\ t.sy = sy
  BY DEF StartedXfer
<1>3. /\ Job(q) /\ q.n = 0 /\ q.x = x /\ q.y = y /\ q.nx = nx /\ q.ny = ny
      /\ q.sx = sx /\ q.sy = sy
  BY DEF AtStart, Job, JobFields
<1>4. Under(t, q)
  BY <1>2, <1>3 DEF Under
<1> QED  BY <1>1, <1>2, <1>3, <1>4

LEMMA FirstByte ==
  ASSUME NEW whole,
         NEW x \in Int, NEW y \in Int, NEW nx \in Nat \ {0}, NEW ny \in Nat \ {0},
         NEW sx \in Int, NEW sy \in Int, NEW op,
         NEW s, s = StartedXfer("In", whole, x, y, nx, ny, sx, sy, op),
         NEW q, q = [n |-> 1, x |-> x, y |-> y, nx |-> nx, ny |-> ny, sx |-> sx, sy |-> sy]
  PROVE  /\ XferStep(s).dir # "Out" /\ XferStep(s).whole = whole
         /\ Job(q) /\ Place(XferStep(s), q)
<1> DEFINE p == AtStart(x, y, nx, ny, sx, sy)
<1>1. Xfer(s) /\ s.dir = "In" /\ s.whole = whole /\ Job(p) /\ Under(s, p)
  BY StartPlace
<1>2. q = OneOn(p)
  BY DEF AtStart, OneOn
<1> HIDE DEF p
<1>3. Place(XferStep(s), OneOn(p))
  BY <1>1, StepPlace
<1>4. Job(OneOn(p))
  BY <1>1, OneOnIs
<1>5. XferStep(s).dir # "Out" /\ XferStep(s).whole = whole
  BY <1>1, XferStepMoves, MovedFields
<1> QED  BY <1>2, <1>3, <1>4, <1>5

LEMMA TransferBegun ==
  ASSUME NEW d, Chip(d), NEW t, NEW cmd, TransferFrom(d, t, cmd), cmd \div 16 \in {10, 11, 15}
  PROVE  Job(Began(d)) /\ Place(d.xfer, Began(d))
<1> DEFINE p == Block(d)
           op == cmd % 16
           out == StartedXfer("Out", FALSE, p.sx, p.sy, p.nx, p.ny, p.stepX, p.stepY, op)
           rect == StartedXfer("In", FALSE, p.dx, p.dy, p.nx, p.ny, p.stepX, p.stepY, op)
           bytes == StartedXfer("In", TRUE, Cut(d, p.dx), p.dy, CutLength(d, p.nx), p.ny,
                                p.stepX, p.stepY, op)
           o == AtStart(p.sx, p.sy, p.nx, p.ny, p.stepX, p.stepY)
           q == [n |-> 1, x |-> p.dx, y |-> p.dy, nx |-> p.nx, ny |-> p.ny,
                 sx |-> p.stepX, sy |-> p.stepY]
           w == [n |-> 1, x |-> Cut(d, p.dx), y |-> p.dy, nx |-> CutLength(d, p.nx),
                 ny |-> p.ny, sx |-> p.stepX, sy |-> p.stepY]
<1>1. /\ cmd \div 16 = 10 => d.xfer = out
      /\ cmd \div 16 = 11 => d.xfer = XferStep(rect)
      /\ cmd \div 16 = 15 => d.xfer = XferStep(bytes)
  BY DEF TransferFrom
<1>2. /\ d.xfer.dir = "Out" => Began(d) = o
      /\ d.xfer.dir # "Out" /\ d.xfer.whole = FALSE => Began(d) = q
      /\ d.xfer.dir # "Out" /\ d.xfer.whole = TRUE => Began(d) = w
  BY DEF Began, AtStart
<1>3. Numbers(p)
  BY BlockNumbers DEF Chip
<1> HIDE DEF p
<1>4. /\ p.sx \in Int /\ p.sy \in Int /\ p.dx \in Int /\ p.dy \in Int
      /\ p.stepX \in Int /\ p.stepY \in Int
      /\ p.nx \in Nat \ {0} /\ p.ny \in Nat \ {0} /\ p.nx \in Nat
  BY <1>3 DEF Numbers
<1> HIDE DEF op
<1> DEFINE no == FALSE
           yes == TRUE
           nx == CutLength(d, p.nx)
           x == Cut(d, p.dx)
<1>12. /\ out = StartedXfer("Out", no, p.sx, p.sy, p.nx, p.ny, p.stepX, p.stepY, op)
      /\ rect = StartedXfer("In", no, p.dx, p.dy, p.nx, p.ny, p.stepX, p.stepY, op)
      /\ bytes = StartedXfer("In", yes, x, p.dy, nx, p.ny, p.stepX, p.stepY, op)
  OBVIOUS
<1>13. /\ o = AtStart(p.sx, p.sy, p.nx, p.ny, p.stepX, p.stepY)
      /\ q = [n |-> 1, x |-> p.dx, y |-> p.dy, nx |-> p.nx, ny |-> p.ny,
               sx |-> p.stepX, sy |-> p.stepY]
      /\ w = [n |-> 1, x |-> x, y |-> p.dy, nx |-> nx,
               ny |-> p.ny, sx |-> p.stepX, sy |-> p.stepY]
  OBVIOUS
<1>5. x \in Int /\ nx \in Nat \ {0}
  BY <1>4, CutIn
<1> HIDE DEF out, rect, bytes, o, q, w, nx, x, no, yes
<1>6. out.dir = "Out" /\ Job(o) /\ Under(out, o)
  BY <1>4, <1>12, <1>13, StartPlace
<1>7. XferStep(rect).dir # "Out" /\ XferStep(rect).whole = no /\ Job(q)
      /\ Place(XferStep(rect), q)
  <2>1. rect = StartedXfer("In", no, p.dx, p.dy, p.nx, p.ny, p.stepX, p.stepY, op)
    BY <1>12
  <2>2. q = [n |-> 1, x |-> p.dx, y |-> p.dy, nx |-> p.nx, ny |-> p.ny,
             sx |-> p.stepX, sy |-> p.stepY]
    BY <1>13
  <2> QED  BY <1>4, <2>1, <2>2, FirstByte
<1>8. XferStep(bytes).dir # "Out" /\ XferStep(bytes).whole = yes /\ Job(w)
      /\ Place(XferStep(bytes), w)
  BY <1>4, <1>5, <1>12, <1>13, FirstByte
<1>9. CASE cmd \div 16 = 10
  <2>1. Place(out, o)
    BY <1>6 DEF Place
  <2> QED  BY <1>1, <1>2, <1>6, <1>9, <2>1
<1>10. CASE cmd \div 16 = 11
  BY <1>1, <1>2, <1>7, <1>10 DEF no
<1>11. CASE cmd \div 16 = 15
  BY <1>1, <1>2, <1>8, <1>11 DEF yes
<1> QED  BY <1>9, <1>10, <1>11

(* So a register write leaves the transfer where its job says.             *)
LEMMA TransferKept ==
  ASSUME NEW d, Chip(d), NEW t, Xfer(t), NEW q, Job(q), Place(t, q),
         NEW r, NEW b, Carried(t, r, b, d)
  PROVE  Job(Followed(q, t, r, b, d)) /\ Place(d.xfer, Followed(q, t, r, b, d))
<1> DEFINE kind == b \div 16
<1>1. CASE r = 46 /\ kind \in {10, 11, 15}
  <2>1. TransferFrom(d, t, b)
    BY <1>1 DEF Carried
  <2>2. Followed(q, t, r, b, d) = Began(d)
    BY <1>1 DEF Followed
  <2> QED  BY <1>1, <2>1, <2>2, TransferBegun
<1>2. CASE r = 46 /\ kind = 0
  <2>1. d.xfer = [t EXCEPT !.dir = "None"]
    BY <1>2 DEF Carried, TransferFrom
  <2>2. Followed(q, t, r, b, d) = NoJob
    BY <1>2 DEF Followed
  <2>3. d.xfer.dir = "None"
    BY <2>1 DEF Xfer, XferFields
  <2> QED  BY <2>2, <2>3, NoJobIs DEF Place
<1>3. CASE r = 46 /\ kind \notin {0, 10, 11, 15}
  <2>1. d.xfer = t
    BY <1>3 DEF Carried, TransferFrom
  <2>2. Followed(q, t, r, b, d) = q
    BY <1>3 DEF Followed
  <2> QED  BY <2>1, <2>2
<1>4. CASE r = 44 /\ t.dir = "In"
  <2>1. d.xfer = XferStep(t) /\ Followed(q, t, r, b, d) = OneOn(q)
    BY <1>4 DEF Carried, Followed
  <2>2. Under(t, q) /\ t.dir # "None"
    BY <1>4 DEF Place
  <2> QED  BY <2>1, <2>2, StepPlace, OneOnIs
<1>5. CASE r # 46 /\ ~ (r = 44 /\ t.dir = "In")
  <2>1. d.xfer = t /\ Followed(q, t, r, b, d) = q
    BY <1>5 DEF Carried, Followed
  <2> QED  BY <2>1
<1> QED  BY <1>1, <1>2, <1>3, <1>4, <1>5

-----------------------------------------------------------------------------
(* The block of a command, written register by register with no transfer  *)
(* wanting bytes: the registers change, and the chip shows itself.         *)

(* The registers the log is of, alike in two sets of registers. *)
Same(p, q) == \A r \in Logged : p[r] = q[r]

Rewritten(c) == {[c EXCEPT !.reg = reg] : reg \in {p \in Registers8 : Same(p, c.reg)}}
Repointed(c) == Rewritten(c) \cup Rewritten(GoV9938(c))

LEMMA ShownIs ==
  ASSUME NEW c, Chip(c)
  PROVE  /\ Chip(GoV9938(c)) /\ GoV9938(c).v9938 = TRUE
         /\ \A f \in Fields \ {"v9938"} : GoV9938(c)[f] = c[f]
<1> DEFINE d == GoV9938(c)
<1>1. Whole(d) /\ d.v9938 = TRUE /\ \A f \in Fields \ {"v9938"} : d[f] = c[f]
  BY DEF GoV9938, Whole, Fields, Chip, Drawable
<1> HIDE DEF d
<1>2. d.vram = c.vram /\ d.xfer = c.xfer /\ d.reg = c.reg
  BY <1>1 DEF Fields
<1>3. Size(d) = 131072 /\ Size(c) \in {16384, 131072}
  BY <1>1, SizeIsOneOfTwo DEF Size
<1>4. d.vram \in Memories(Size(d))
  BY <1>2, <1>3, Grown DEF Chip, Drawable
<1>5. Chip(d)
  BY <1>1, <1>2, <1>4 DEF Chip, Drawable
<1> QED  BY <1>1, <1>5 DEF d

LEMMA RewrittenIs ==
  ASSUME NEW c, Chip(c), NEW d \in Rewritten(c)
  PROVE  /\ Chip(d) /\ \A f \in Fields \ {"reg"} : d[f] = c[f]
         /\ Same(d.reg, c.reg)
<1>1. PICK reg \in Registers8 : d = [c EXCEPT !.reg = reg] /\ Same(reg, c.reg)
  BY DEF Rewritten
<1>2. Whole(d) /\ d.reg = reg /\ \A f \in Fields \ {"reg"} : d[f] = c[f]
  BY <1>1 DEF Chip, Drawable, Whole, Fields
<1>3. d.vram = c.vram /\ d.xfer = c.xfer /\ d.v9938 = c.v9938
  BY <1>2 DEF Fields
<1>4. Size(d) = Size(c)
  BY <1>3 DEF Size
<1> QED  BY <1>1, <1>2, <1>3, <1>4 DEF Chip, Drawable

LEMMA RepointedIs ==
  ASSUME NEW c, Chip(c), NEW d \in Repointed(c)
  PROVE  /\ Chip(d) /\ \A f \in Fields \ {"reg", "v9938"} : d[f] = c[f]
         /\ Same(d.reg, c.reg)
<1>1. CASE d \in Rewritten(c)
  BY <1>1, RewrittenIs
<1>2. CASE d \in Rewritten(GoV9938(c))
  <2>1. /\ Chip(d) /\ \A f \in Fields \ {"reg"} : d[f] = GoV9938(c)[f]
        /\ Same(d.reg, GoV9938(c).reg)
    BY <1>2, ShownIs, RewrittenIs
  <2>2. GoV9938(c).reg = c.reg
    BY ShownIs DEF Fields
  <2> QED  BY <2>1, <2>2, ShownIs
<1> QED  BY <1>1, <1>2 DEF Repointed

LEMMA RepointedOn ==
  ASSUME NEW c, Chip(c), c.xfer.dir = "None", NEW d \in Repointed(c),
         NEW r \in 32..45, NEW b \in Byte, NEW at
  PROVE  WriteReg(d, r, b, at) \in Repointed(c)
<1> DEFINE e == GoV9938(d)
           g == GoV9938(c)
           set == SetReg(e, r, b, at)
           reg == [d.reg EXCEPT ![r] = b]
           to == [g EXCEPT !.reg = reg]
<1>1. r > 7 /\ r \notin Logged /\ r # 46 /\ r \in 0..63
  BY DEF Logged
<1>2. /\ Chip(d) /\ \A f \in Fields \ {"reg", "v9938"} : d[f] = c[f]
      /\ Same(d.reg, c.reg)
  BY RepointedIs
<1>3. Chip(e) /\ e.v9938 = TRUE /\ \A f \in Fields \ {"v9938"} : e[f] = d[f]
  BY <1>2, ShownIs
<1>4. Chip(g) /\ g.v9938 = TRUE /\ \A f \in Fields \ {"v9938"} : g[f] = c[f]
  BY ShownIs
<1>5. set = [e EXCEPT !.reg[r] = b, !.log = e.log]
  BY <1>1 DEF SetReg
<1>6. WriteReg(d, r, b, at) = IF set.xfer.dir = "In" /\ r = 44 THEN XferWrite(set, b) ELSE set
  BY <1>1 DEF WriteReg
<1>7. reg \in Registers8 /\ Same(reg, g.reg)
  <2>1. reg \in Registers8 /\ \A s \in 0..63 : s # r => reg[s] = d.reg[s]
    BY <1>1, <1>2 DEF Registers8, Chip
  <2>2. \A s \in Logged : s # r /\ s \in 0..63
    BY <1>1 DEF Logged
  <2>3. g.reg = c.reg
    BY <1>4 DEF Fields
  <2> HIDE DEF g, reg
  <2> QED  BY <1>2, <2>1, <2>2, <2>3 DEF Same
<1>8. to \in Repointed(c)
  <2> HIDE DEF reg
  <2> QED  BY <1>7 DEF Repointed, Rewritten
<1> HIDE DEF e, g, set
<1>9. e.reg = d.reg
  BY <1>3 DEF Fields
<1>10. Whole(set) /\ set.reg = reg /\ \A f \in Fields \ {"reg"} : set[f] = e[f]
  BY <1>3, <1>5, <1>9 DEF Whole, Fields, Chip, Drawable
<1>11. Whole(to) /\ to.reg = reg /\ \A f \in Fields \ {"reg"} : to[f] = g[f]
  BY <1>4 DEF Whole, Fields, Chip, Drawable
<1> HIDE DEF to, reg
<1>12. \A f \in Fields \ {"reg", "v9938"} : set[f] = to[f]
  BY <1>2, <1>3, <1>4, <1>10, <1>11
<1>13. set.v9938 = to.v9938
  <2>1. set.v9938 = e.v9938 /\ to.v9938 = g.v9938
    BY <1>10, <1>11 DEF Fields
  <2> QED  BY <1>3, <1>4, <2>1, Zenon
<1>14. \A f \in Fields : set[f] = to[f]
  BY <1>10, <1>11, <1>12, <1>13
<1>15. set = to
  BY <1>10, <1>11, <1>14 DEF Whole
<1>16. set.xfer.dir # "In"
  <2>1. set.xfer = c.xfer
    BY <1>2, <1>3, <1>10 DEF Fields
  <2> QED  BY <2>1
<1> QED  BY <1>6, <1>8, <1>15, <1>16

BlockBytes(b) ==
  <<b.sx % 256, b.sx \div 256, b.sy % 256, b.sy \div 256,
    b.dx % 256, b.dx \div 256, b.dy % 256, b.dy \div 256,
    b.nx % 256, b.nx \div 256, b.ny % 256, b.ny \div 256,
    b.clr, b.arg>>

LEMMA BlockBytesAre ==
  ASSUME NEW b \in Blocks, NEW k \in 0..13 PROVE BlockBytes(b)[k + 1] \in Byte
<1>0. /\ \A w \in {b.sx, b.sy, b.dx, b.dy, b.nx, b.ny} : w \in Nat /\ w < 65536
      /\ {b.clr, b.arg, b.cmd} \subseteq 0..255
  BY InputsAssumption
<1>1. /\ b.sx \in Nat /\ b.sy \in Nat /\ b.dx \in Nat
      /\ b.dy \in Nat /\ b.nx \in Nat /\ b.ny \in Nat
      /\ b.sx < 65536 /\ b.sy < 65536 /\ b.dx < 65536
      /\ b.dy < 65536 /\ b.nx < 65536 /\ b.ny < 65536
  BY <1>0
<1>2. ASSUME NEW n \in Nat, n < 65536 PROVE n % 256 \in Byte /\ n \div 256 \in Byte
  <2>1. n % 256 \in 0..255
    BY <1>2
  <2>2. n \div 256 \in 0..255
    BY <1>2
  <2> QED  BY <2>1, <2>2 DEF Byte
<1>3. b.clr \in Byte /\ b.arg \in Byte
  BY <1>0 DEF Byte
<1>4. k + 1 \in 1..14
  OBVIOUS
<1>5. {b.sx % 256, b.sx \div 256, b.sy % 256, b.sy \div 256,
          b.dx % 256, b.dx \div 256, b.dy % 256, b.dy \div 256,
          b.nx % 256, b.nx \div 256, b.ny % 256, b.ny \div 256} \subseteq Byte
  BY <1>1, <1>2
<1>6. \A i \in 1..14 : BlockBytes(b)[i] \in Byte
  BY <1>3, <1>5 DEF BlockBytes
<1> QED  BY <1>4, <1>6

LEMMA CommandWritesIs ==
  ASSUME Chip(chip), chip.xfer.dir = "None", NEW b \in Blocks
  PROVE  CommandWrites(b) \in Repointed(chip)
<1> DEFINE X == Repointed(chip)
           N == 14
           Do(d, k) == WriteReg(d, 32 + k, BlockBytes(b)[k + 1], raster)
           F == [d \in X |-> [k \in 0..N - 1 |-> Do(d, k)]]
           Rec(g) == [k \in 0..N |-> IF k = 0 THEN chip
                        ELSE CHOOSE next \in {Do(before, k - 1) : before \in {g[k - 1]}} : TRUE]
           after == CHOOSE g : g = Rec(g)
<1>1. N \in Nat
  OBVIOUS
<1>2. CommandWrites(b) = after[N]
  BY DEF CommandWrites, Repeat, BlockBytes
<1>3. \A d \in X, k \in 0..N - 1 : Do(d, k) \in X
  <2> SUFFICES ASSUME NEW d \in X, NEW k \in 0..N - 1 PROVE Do(d, k) \in X
    OBVIOUS
  <2> DEFINE byte == BlockBytes(b)[k + 1]
  <2>1. 32 + k \in 32..45 /\ byte \in Byte
    BY BlockBytesAre
  <2> HIDE DEF byte
  <2>2. WriteReg(d, 32 + k, byte, raster) \in Repointed(chip)
    BY <2>1, RepointedOn
  <2> QED  BY <2>2 DEF byte
<1>4. chip \in X
  <2>1. chip = [chip EXCEPT !.reg = chip.reg] /\ chip.reg \in Registers8
    BY DEF Chip, Drawable, Whole, Fields
  <2>2. chip \in Rewritten(chip)
    <3>1. Same(chip.reg, chip.reg)
      BY DEF Same
    <3> QED  BY <2>1, <3>1 DEF Rewritten
  <2> QED  BY <2>2 DEF Repointed
<1> HIDE DEF X, N, Do
<1>5. \A d \in X, k \in 0..N - 1 : F[d][k] = Do(d, k)
  OBVIOUS
<1> HIDE DEF F
<1>6. \A d \in X, k \in 0..N - 1 : F[d][k] \in X
  BY <1>3, <1>5
<1>7. PICK g : Runs(X, chip, N, F, g)
  BY <1>1, <1>4, <1>6, StepsExist
<1>8. \A h, k : (CHOOSE next \in {Do(before, k) : before \in {h}} : TRUE) = Do(h, k)
  OBVIOUS
<1>9. ASSUME NEW k \in 0..N, k # 0
      PROVE  g[k] = CHOOSE next \in {Do(before, k - 1) : before \in {g[k - 1]}} : TRUE
  <2>1. k - 1 \in 0..N - 1 /\ (k - 1) + 1 = k
    BY <1>1, <1>9
  <2>2. g[k - 1] \in X /\ g[k] = F[g[k - 1]][k - 1]
    BY <1>1, <1>7, <2>1 DEF Runs
  <2>3. g[k] = Do(g[k - 1], k - 1)
    BY <1>5, <2>1, <2>2
  <2> QED  BY <1>8, <2>3
<1>10. after = Rec(after)
  <2>1. g = Rec(g)
    BY <1>7, <1>9 DEF Runs
  <2> QED  BY <2>1
<1> HIDE DEF after
<1>11. after[0] = chip
  BY <1>1, <1>10
<1>12. ASSUME NEW k \in 0..N - 1 PROVE after[k + 1] = Do(after[k], k)
  <2>1. k + 1 \in 0..N /\ k + 1 # 0 /\ (k + 1) - 1 = k
    BY <1>1
  <2>2. after[k + 1] = CHOOSE next \in {Do(before, k) : before \in {after[k]}} : TRUE
    BY <1>10, <2>1
  <2> QED  BY <1>8, <2>2
<1>13. \A k \in 0..N - 1 : after[k] \in X => after[k + 1] \in X
  BY <1>3, <1>12
<1>14. after[N] \in X
  BY <1>1, <1>4, <1>11, <1>13, StepsStay
<1> QED  BY <1>2, <1>14 DEF X

-----------------------------------------------------------------------------
(* The port.                                                               *)

LEMMA BelowIs ==
  ASSUME NEW m \in Nat PROVE \A n : n \in 0..m <=> n \in Nat /\ n <= m
OBVIOUS

LEMMA LowIs == \A n : n \in Low <=> n \in Nat /\ n <= 16383
<1> DEFINE m == 16383
<1>1. m \in Nat
  OBVIOUS
<1>2. 0..m = Low
  BY DEF m, Low
<1> HIDE DEF m
<1>3. \A n : n \in 0..m <=> n \in Nat /\ n <= m
  BY <1>1, BelowIs
<1>4. \A n : n \in Low <=> n \in Nat /\ n <= m
  BY <1>2, <1>3
<1> QED  BY <1>4 DEF m

LEMMA RemainderIn ==
  ASSUME NEW n \in Int, NEW s \in Nat \ {0} PROVE n % s \in 0..s - 1
OBVIOUS

LEMMA LowRemainder ==
  ASSUME NEW n \in Int PROVE n % 16384 \in Low
<1>1. n % 16384 \in Nat /\ n % 16384 <= 16383
  OBVIOUS
<1> QED  BY <1>1, LowIs

LEMMA AddressIn ==
  ASSUME NEW c, NEW n \in Int PROVE n % Size(c) \in 0..Size(c) - 1
<1>1. Size(c) \in Nat \ {0}
  BY SizeIsOneOfTwo
<1> DEFINE s == Size(c)
<1> HIDE DEF s
<1>2. n % s \in 0..s - 1
  BY <1>1, RemainderIn DEF s
<1> QED  BY <1>2 DEF s

LEMMA SizeIn ==
  ASSUME NEW c PROVE Size(c) \in Nat \ {0} /\ 16384 <= Size(c) /\ Size(c) <= 131072
BY SizeIsOneOfTwo

PortFields == {"at", "addr", "latched", "first", "ahead"}
PortShape(p) == p = [f \in PortFields |-> p[f]]
Agree(at, addr) == addr = at % 16384
PortOf(s, p) ==
  /\ PortShape(p) /\ Agree(p.at, p.addr)
  /\ p.at \in 0..s - 1 /\ p.addr \in Low /\ p.first \in Byte /\ p.ahead \in Byte
  /\ p.latched \in BOOLEAN

LEMMA AgreeLow ==
  ASSUME NEW at \in Int, NEW addr, Agree(at, addr) PROVE addr \in Low
BY LowRemainder DEF Agree

(* Adding one in the low fourteen bits, or putting others above them, the  *)
(* remainder by either size of memory keeps the low fourteen.              *)
LEMMA LowBits ==
  ASSUME NEW at \in Int, NEW low \in Low, NEW s, s = 16384 \/ s = 131072
  PROVE  Agree((at - (at % 16384) + low) % s, low)
<1> SUFFICES ((at - (at % 16384) + low) % s) % 16384 = low
  BY DEF Agree
<1>0. low \in Nat /\ low < 16384
  BY LowIs
<1>1. CASE s = 16384
  BY <1>0, <1>1
<1>2. CASE s = 131072
  BY <1>0, <1>2
<1> QED  BY <1>1, <1>2

High(at, n) == (at % 16384) + 16384 * n

LEMMA HighBits ==
  ASSUME NEW at \in Nat, NEW addr, Agree(at, addr), NEW n \in Nat
  PROVE  Agree(High(at, n), addr)
<1>1. ((at % 16384) + 16384 * n) % 16384 = at % 16384
  OBVIOUS
<1> QED  BY <1>1 DEF Agree, High

LEMMA PointedIs ==
  ASSUME NEW p, PortShape(p), NEW at, NEW addr
  PROVE  LET q == PointAt(p, at, addr)
         IN  /\ PortShape(q) /\ q.at = at /\ q.addr = addr
             /\ q.latched = p.latched /\ q.first = p.first /\ q.ahead = p.ahead
BY DEF PortShape, PortFields, PointAt

LEMMA PointedIn ==
  ASSUME NEW s, NEW p, PortOf(s, p), NEW at \in 0..s - 1, NEW addr, Agree(at, addr)
  PROVE  PortOf(s, PointAt(p, at, addr))
BY PointedIs, AgreeLow DEF PortOf

LEMMA Set14In ==
  ASSUME NEW c, NEW p, PortOf(Size(c), p), NEW a \in Nat
  PROVE  PortOf(Size(c), Set14(c, p, a)) /\ Set14(c, p, a).latched = p.latched
<1> DEFINE low == a % 16384
           at == (p.at - (p.at % 16384) + low) % Size(c)
<1>1. p.at \in Int
  BY SizeIn DEF PortOf
<1>2. low \in Low /\ low \in Int
  BY LowRemainder, LowIs
<1>3. at \in 0..Size(c) - 1
  <2> HIDE DEF low
  <2>1. p.at - (p.at % 16384) + low \in Int
    BY <1>1, <1>2
  <2> QED  BY <2>1, AddressIn
<1>4. Set14(c, p, a) = PointAt(p, at, low)
  BY DEF Set14
<1>7. Agree(at, low)
  <2> HIDE DEF low
  <2> QED  BY <1>1, <1>2, SizeIsOneOfTwo, LowBits
<1> HIDE DEF at, low
<1>5. PortOf(Size(c), PointAt(p, at, low))
  BY <1>3, <1>7, PointedIn
<1>6. PointAt(p, at, low).latched = p.latched
  BY PointedIs DEF PortOf
<1> QED  BY <1>4, <1>5, <1>6

LEMMA BumpIn ==
  ASSUME NEW c, NEW p, PortOf(Size(c), p)
  PROVE  /\ PortOf(Size(c), Bump(c, p)) /\ Bump(c, p).at = (p.at + 1) % Size(c)
         /\ Bump(c, p).latched = p.latched /\ Bump(c, p).ahead = p.ahead
<1> DEFINE next == (p.at + 1) % Size(c)
           addr == next % 16384
<1>1. p.at + 1 \in Int
  BY SizeIn DEF PortOf
<1>2. next \in 0..Size(c) - 1
  BY <1>1, AddressIn
<1>3. Agree(next, addr)
  BY DEF Agree
<1>4. Bump(c, p) = PointAt(p, next, addr)
  BY DEF Bump
<1> HIDE DEF next, addr
<1>5. PortOf(Size(c), PointAt(p, next, addr))
  BY <1>2, <1>3, PointedIn
<1>6. /\ PointAt(p, next, addr).at = next /\ PointAt(p, next, addr).latched = p.latched
      /\ PointAt(p, next, addr).ahead = p.ahead
  BY PointedIs DEF PortOf
<1> QED  BY <1>4, <1>5, <1>6 DEF next

LEMMA AheadIs ==
  ASSUME NEW p, PortShape(p), NEW b
  PROVE  LET q == [p EXCEPT !.ahead = b]
         IN  /\ PortShape(q) /\ q.at = p.at /\ q.addr = p.addr
             /\ q.latched = p.latched /\ q.first = p.first /\ q.ahead = b
BY DEF PortShape, PortFields

(* Reading hands over what is ahead and reads the byte at the address.     *)
LEMMA FetchIn ==
  ASSUME NEW c, Chip(c), NEW p, PortOf(Size(c), p)
  PROVE  /\ PortOf(Size(c), Fetch(c, p)) /\ Fetch(c, p).at = (p.at + 1) % Size(c)
         /\ Fetch(c, p).latched = p.latched /\ Fetch(c, p).ahead = Peek(c, p.at)
<1> DEFINE byte == Peek(c, p.at)
           q == [p EXCEPT !.ahead = byte]
<1>1. byte \in Byte
  BY PeekIn DEF Chip, Drawable
<1>2. Fetch(c, p) = Bump(c, q)
  BY DEF Fetch
<1> HIDE DEF byte
<1>3. /\ PortShape(q) /\ q.at = p.at /\ q.addr = p.addr
      /\ q.latched = p.latched /\ q.first = p.first /\ q.ahead = byte
  BY AheadIs DEF PortOf
<1> HIDE DEF q
<1>4. PortOf(Size(c), q)
  BY <1>1, <1>3 DEF PortOf
<1>5. /\ PortOf(Size(c), Bump(c, q)) /\ Bump(c, q).at = (q.at + 1) % Size(c)
      /\ Bump(c, q).latched = q.latched /\ Bump(c, q).ahead = q.ahead
  BY <1>4, BumpIn
<1> QED  BY <1>2, <1>3, <1>5 DEF byte

Shut(p) == [p EXCEPT !.latched = FALSE]

LEMMA ShutIs ==
  ASSUME NEW p, PortShape(p)
  PROVE  /\ PortShape(Shut(p)) /\ Shut(p).at = p.at /\ Shut(p).addr = p.addr
         /\ Shut(p).latched = FALSE /\ Shut(p).first = p.first /\ Shut(p).ahead = p.ahead
BY DEF PortShape, PortFields, Shut

LEMMA ShutIn ==
  ASSUME NEW s, NEW p, PortOf(s, p) PROVE PortOf(s, Shut(p))
<1>1. /\ PortShape(Shut(p)) /\ Shut(p).at = p.at /\ Shut(p).addr = p.addr
      /\ Shut(p).first = p.first /\ Shut(p).ahead = p.ahead
  BY ShutIs DEF PortOf
<1>2. Shut(p).latched \in BOOLEAN
  <2>1. Shut(p).latched = FALSE
    BY ShutIs DEF PortOf
  <2> QED  BY <2>1
<1> QED  BY <1>1, <1>2 DEF PortOf

Latch(p, b) == [p EXCEPT !.first = b, !.latched = TRUE]

LEMMA LatchIs ==
  ASSUME NEW p, PortShape(p), NEW b
  PROVE  /\ PortShape(Latch(p, b)) /\ Latch(p, b).at = p.at /\ Latch(p, b).addr = p.addr
         /\ Latch(p, b).latched = TRUE /\ Latch(p, b).first = b /\ Latch(p, b).ahead = p.ahead
BY DEF PortShape, PortFields, Latch

LEMMA LatchIn ==
  ASSUME NEW s, NEW p, PortOf(s, p), NEW b \in Byte PROVE PortOf(s, Latch(p, b))
<1>0. PortShape(p)
  BY DEF PortOf
<1>1. /\ PortShape(Latch(p, b)) /\ Latch(p, b).at = p.at /\ Latch(p, b).addr = p.addr
      /\ Latch(p, b).first = b /\ Latch(p, b).ahead = p.ahead
  BY <1>0, LatchIs
<1>2. Latch(p, b).latched \in BOOLEAN
  <2>1. Latch(p, b).latched = TRUE
    BY <1>0, LatchIs
  <2> QED  BY <2>1
<1> QED  BY <1>1, <1>2 DEF PortOf

LEMMA WiderIn ==
  ASSUME NEW s \in Nat, NEW t \in Nat, s <= t, NEW p, PortOf(s, p) PROVE PortOf(t, p)
<1>1. p.at \in 0..t - 1
  BY DEF PortOf
<1> QED  BY <1>1 DEF PortOf

(* Register 14 holds the address's high bits, of a chip that has them all. *)
LEMMA SteeredIn ==
  ASSUME NEW s \in Nat, NEW t \in Nat, s <= t, NEW p, PortOf(s, p), NEW r, r = 14 => t = 131072,
         NEW b \in Byte
  PROVE  /\ PortOf(t, Steered(p, r, b)) /\ Steered(p, r, b).latched = p.latched
         /\ r # 14 => Steered(p, r, b) = p
<1>0. PortOf(t, p)
  BY WiderIn
<1>1. CASE r # 14
  BY <1>0, <1>1 DEF Steered
<1>2. CASE r = 14
  <2> DEFINE at == (p.at % 16384) + 16384 * (b % 8)
             q == [p EXCEPT !.at = at]
  <2>1. p.at \in Nat /\ b \in Nat
    BY DEF PortOf, Byte
  <2>2. at \in Nat /\ at < t
    <3>1. p.at % 16384 \in Nat /\ p.at % 16384 < 16384 /\ b % 8 \in 0..7
      BY <2>1
    <3> QED  BY <1>2, <3>1
  <2>3. at \in 0..t - 1
    <3> HIDE DEF at
    <3> QED  BY <2>2
  <2>7. Agree(at, p.addr)
    <3> DEFINE n == b % 8
    <3>1. n \in Nat /\ Agree(p.at, p.addr)
      BY <2>1 DEF PortOf
    <3>2. at = High(p.at, n)
      BY DEF High
    <3>3. Agree(High(p.at, n), p.addr)
      <4> HIDE DEF n
      <4> QED  BY <2>1, <3>1, HighBits
    <3> HIDE DEF at, n
    <3> QED  BY <3>2, <3>3
  <2> HIDE DEF at
  <2>4. /\ PortShape(q) /\ q.at = at /\ q.addr = p.addr /\ q.latched = p.latched
        /\ q.first = p.first /\ q.ahead = p.ahead
    BY DEF PortOf, PortShape, PortFields
  <2>5. Steered(p, r, b) = q
    BY <1>2 DEF Steered, at
  <2> HIDE DEF q
  <2>6. PortOf(t, q)
    BY <1>0, <2>3, <2>4, <2>7 DEF PortOf
  <2> QED  BY <1>2, <2>4, <2>5, <2>6
<1> QED  BY <1>1, <1>2

-----------------------------------------------------------------------------
(* The ways to write a register, alike in what they leave.                 *)

(* Where bytes are and what they are: the same to a program that reads.    *)
Sight(c, d) == d.vram = c.vram /\ d.reg[0] = c.reg[0] /\ d.reg[1] = c.reg[1]

Wide(c) == Size(c) = 131072
SamePalette(c, d) == d.pal = c.pal /\ d.palLatch = c.palLatch

Turned(c, r, b, d) ==
  /\ Chip(d) /\ SamePalette(c, d) /\ Carried(c.xfer, r, b, d)
  /\ Size(c) <= Size(d) /\ (r = 14 => Wide(d))
  /\ r \notin {0, 1, 44, 46} => Sight(c, d)

LEMMA Growing ==
  ASSUME NEW c, NEW d, d.v9938 = c.v9938 \/ d.v9938 = TRUE
  PROVE  Size(c) <= Size(d) /\ (d.v9938 = TRUE => Wide(d))
<1>1. d.v9938 = c.v9938 => Size(d) = Size(c)
  BY DEF Size
<1>2. d.v9938 = TRUE => Size(d) = 131072
  BY DEF Size
<1>3. Size(d) = Size(c) \/ Size(d) = 131072
  BY <1>1, <1>2
<1> QED  BY <1>2, <1>3, SizeIn DEF Wide

LEMMA WrittenTurned ==
  ASSUME NEW c, Chip(c), NEW r \in 0..63, NEW b, NEW d, Written(c, r, b, d)
  PROVE  Turned(c, r, b, d)
<1>1. d.v9938 = c.v9938 \/ d.v9938 = TRUE
  BY Zenon DEF Written
<1>2. r = 14 => d.v9938 = TRUE
  <2>1. r = 14 => r > 7
    OBVIOUS
  <2> QED  BY <2>1, Zenon DEF Written
<1>3. Size(c) <= Size(d) /\ (r = 14 => Wide(d))
  BY <1>1, <1>2, Growing, Zenon
<1>4. Carried(c.xfer, r, b, d)
  BY Zenon DEF Written, Carried
<1>5. \A s \in 0..63 : s \notin {44, 46, r} => d.reg[s] = c.reg[s]
  BY DEF Written
<1>6. r \notin {0, 1, 44, 46} => Sight(c, d)
  <2> SUFFICES ASSUME r \notin {0, 1, 44, 46} PROVE Sight(c, d)
    OBVIOUS
  <2>1. d.reg[0] = c.reg[0] /\ d.reg[1] = c.reg[1]
    BY <1>5
  <2>2. d.vram = c.vram
    <3>1. r \notin {44, 46}
      OBVIOUS
    <3> QED  BY <3>1, Zenon DEF Written
  <2> QED  BY <2>1, <2>2 DEF Sight
<1>7. Chip(d) /\ SamePalette(c, d)
  BY Zenon DEF Written, SamePalette
<1> QED  BY <1>3, <1>4, <1>6, <1>7, Zenon DEF Turned

LEMMA ShowsTransfer ==
  ASSUME NEW c, NEW d, Shows(c, d), d.xfer = c.xfer, NEW t, NEW cmd, TransferFrom(c, t, cmd)
  PROVE  TransferFrom(d, t, cmd)
<1> DEFINE p == Block(d)
           q == Block(c)
           kind == cmd \div 16
           op == cmd % 16
           rect == StartedXfer("In", FALSE, p.dx, p.dy, p.nx, p.ny, p.stepX, p.stepY, op)
           bytes == StartedXfer("In", TRUE, Cut(d, p.dx), p.dy, CutLength(d, p.nx), p.ny,
                                p.stepX, p.stepY, op)
           out == StartedXfer("Out", FALSE, p.sx, p.sy, p.nx, p.ny, p.stepX, p.stepY, op)
<1>1. /\ SameWay(p, q)
      /\ \A n : Cut(d, n) = Cut(c, n) /\ CutLength(d, n) = CutLength(c, n)
  BY SameBlock
<1>2. rect = StartedXfer("In", FALSE, q.dx, q.dy, q.nx, q.ny, q.stepX, q.stepY, op)
  BY <1>1 DEF SameWay
<1>3. bytes = StartedXfer("In", TRUE, Cut(c, q.dx), q.dy, CutLength(c, q.nx), q.ny,
                          q.stepX, q.stepY, op)
  BY <1>1 DEF SameWay
<1>4. out = StartedXfer("Out", FALSE, q.sx, q.sy, q.nx, q.ny, q.stepX, q.stepY, op)
  BY <1>1 DEF SameWay
<1> HIDE DEF rect, bytes, out, p, q, op, kind
<1>5. /\ kind = 0 => c.xfer = [t EXCEPT !.dir = "None"]
      /\ kind = 10 => c.xfer = out
      /\ kind = 11 => c.xfer = XferStep(rect)
      /\ kind = 15 => c.xfer = XferStep(bytes)
      /\ kind \notin {0, 10, 11, 15} => c.xfer = t
  BY <1>2, <1>3, <1>4 DEF TransferFrom, q, op, kind
<1>6. /\ kind = 0 => d.xfer = [t EXCEPT !.dir = "None"]
      /\ kind = 10 => d.xfer = out
      /\ kind = 11 => d.xfer = XferStep(rect)
      /\ kind = 15 => d.xfer = XferStep(bytes)
      /\ kind \notin {0, 10, 11, 15} => d.xfer = t
  BY <1>5
<1> QED  BY <1>6 DEF TransferFrom, rect, bytes, out, p, op, kind

(* A write leaves what it says on a chip that had only shown itself.       *)
LEMMA TurnedFrom ==
  ASSUME NEW c, NEW e, NEW r, NEW b, NEW d, Turned(e, r, b, d),
         Size(c) <= Size(e), e.xfer = c.xfer, SamePalette(c, e),
         r \notin {0, 1, 44, 46} => Sight(c, e)
  PROVE  Turned(c, r, b, d)
<1>1. Size(c) <= Size(d)
  BY SizeIn DEF Turned
<1>2. r \notin {0, 1, 44, 46} => Sight(c, d)
  BY DEF Turned, Sight
<1>3. SamePalette(c, d)
  BY DEF Turned, SamePalette
<1>4. Carried(c.xfer, r, b, d) /\ Chip(d) /\ (r = 14 => Wide(d))
  BY DEF Turned
<1> QED  BY <1>1, <1>2, <1>3, <1>4 DEF Turned

(* And a register that is not among those that say where things are.       *)
LEMMA TurnedOn ==
  ASSUME NEW c, NEW r, NEW b, NEW e, Turned(c, r, b, e),
         NEW s \in {16, 17}, NEW n \in Byte, NEW d, d = [e EXCEPT !.reg[s] = n]
  PROVE  Turned(c, r, b, d)
<1>1. Chip(e)
  BY DEF Turned
<1>2. /\ Whole(d) /\ d.reg = [e.reg EXCEPT ![s] = n]
      /\ \A f \in Fields \ {"reg"} : d[f] = e[f]
  BY <1>1 DEF Chip, Drawable, Whole, Fields
<1>3. d.vram = e.vram /\ d.xfer = e.xfer /\ d.v9938 = e.v9938 /\ SamePalette(e, d)
  BY <1>2 DEF Fields, SamePalette
<1>4. d.reg \in Registers8
  BY <1>1, <1>2 DEF Chip, Registers8
<1>5. Size(d) = Size(e)
  BY <1>3 DEF Size
<1>6. Chip(d)
  BY <1>1, <1>2, <1>3, <1>4, <1>5 DEF Chip, Drawable
<1>7. \A k \in 0..63 : k # s => d.reg[k] = e.reg[k]
  BY <1>1, <1>2 DEF Chip, Registers8
<1>8. Shows(e, d) /\ d.reg[0] = e.reg[0] /\ d.reg[1] = e.reg[1]
  BY <1>7 DEF Shows, Ways
<1>9. Carried(c.xfer, r, b, d)
  <2>1. r = 46 => TransferFrom(d, c.xfer, b)
    BY <1>3, <1>8, ShowsTransfer DEF Turned, Carried
  <2> QED  BY <1>3, <2>1 DEF Turned, Carried
<1>10. r \notin {0, 1, 44, 46} => Sight(c, d)
  BY <1>3, <1>8 DEF Turned, Sight
<1>11. Size(c) <= Size(d) /\ (r = 14 => Wide(d))
  BY <1>5 DEF Turned, Wide
<1>12. SamePalette(c, d)
  BY <1>3 DEF Turned, SamePalette
<1> QED  BY <1>6, <1>9, <1>10, <1>11, <1>12 DEF Turned

LEMMA ShownSight ==
  ASSUME NEW c, Chip(c)
  PROVE  /\ Size(c) <= Size(GoV9938(c)) /\ GoV9938(c).xfer = c.xfer
         /\ SamePalette(c, GoV9938(c)) /\ Sight(c, GoV9938(c)) /\ GoV9938(c).reg = c.reg
<1> DEFINE e == GoV9938(c)
<1>1. e.v9938 = TRUE /\ \A f \in Fields \ {"v9938"} : e[f] = c[f]
  BY ShownIs
<1> HIDE DEF e
<1>2. e.xfer = c.xfer /\ SamePalette(c, e) /\ e.vram = c.vram /\ e.reg = c.reg
  BY <1>1 DEF Fields, SamePalette
<1>3. Size(c) <= Size(e)
  BY <1>1, Growing
<1> QED  BY <1>2, <1>3 DEF Sight, e

LEMMA RegisterTurned ==
  ASSUME NEW c, Chip(c), NEW r \in 0..63, NEW b \in Byte, NEW at
  PROVE  Turned(c, r, b, WriteReg(c, r, b, at))
BY WriteRegIs, WrittenTurned

LEMMA IndirectTurned ==
  ASSUME NEW c, Chip(c), NEW b \in Byte, NEW at
  PROVE  Turned(c, c.reg[17] % 64, b, WriteIndirect(c, b, at)) /\ c.reg[17] % 64 \in 0..63
<1> DEFINE r == c.reg[17] % 64
           e == GoV9938(c)
           w == WriteReg(e, r, b, at)
           n == (r + 1) % 64
           d == [w EXCEPT !.reg[17] = n]
<1>1. r \in 0..63 /\ n \in Byte
  <2>1. c.reg[17] \in Byte
    BY DEF Chip, Registers8
  <2>2. c.reg[17] \in Nat
    BY <2>1 DEF Byte
  <2>3. r \in 0..63
    BY <2>2
  <2>4. n \in 0..63
    <3> HIDE DEF r
    <3> QED  BY <2>3
  <2> QED  BY <2>3, <2>4 DEF Byte
<1>2. WriteIndirect(c, b, at) = w \/ WriteIndirect(c, b, at) = d
  BY DEF WriteIndirect
<1>3. Chip(e)
  BY ShownIs
<1> HIDE DEF r, e, n
<1>4. Turned(e, r, b, w)
  BY <1>1, <1>3, RegisterTurned
<1>5. /\ Size(c) <= Size(e) /\ e.xfer = c.xfer /\ SamePalette(c, e) /\ Sight(c, e)
  BY ShownSight DEF e
<1> HIDE DEF w
<1>6. Turned(c, r, b, w)
  BY <1>4, <1>5, TurnedFrom
<1>7. Turned(c, r, b, d)
  BY <1>1, <1>6, TurnedOn
<1> QED  BY <1>1, <1>2, <1>6, <1>7 DEF r

LEMMA CommandTurned ==
  ASSUME Chip(chip), ~ Busy(chip), NEW b \in Blocks
  PROVE  Turned(chip, 46, b.cmd, WriteReg(CommandWrites(b), 46, b.cmd, raster)) /\ b.cmd \in Byte
<1> DEFINE e == CommandWrites(b)
           cmd == b.cmd
<1>1. chip.xfer.dir = "None"
  BY DEF Busy
<1>2. e \in Repointed(chip)
  BY <1>1, CommandWritesIs
<1>3. Chip(e) /\ \A f \in Fields \ {"reg", "v9938"} : e[f] = chip[f]
  BY <1>2, RepointedIs
<1>4. e.xfer = chip.xfer /\ SamePalette(chip, e)
  BY <1>3 DEF Fields, SamePalette
<1>5. cmd \in Byte
  <2>1. {b.clr, b.arg, b.cmd} \subseteq 0..255
    BY InputsAssumption
  <2> QED  BY <2>1 DEF Byte
<1>6. Size(chip) <= Size(e)
  <2>1. CASE e \in Rewritten(chip)
    <3>1. e.v9938 = chip.v9938
      BY <2>1, RewrittenIs DEF Fields
    <3> QED  BY <3>1, Growing
  <2>2. CASE e \in Rewritten(GoV9938(chip))
    <3>1. e.v9938 = GoV9938(chip).v9938
      BY <2>2, ShownIs, RewrittenIs DEF Fields
    <3>2. e.v9938 = TRUE
      BY <3>1, ShownIs, Zenon
    <3> QED  BY <3>2, Growing
  <2> QED  BY <1>2, <2>1, <2>2 DEF Repointed
<1> HIDE DEF e, cmd
<1>7. Turned(e, 46, cmd, WriteReg(e, 46, cmd, raster))
  BY <1>3, <1>5, RegisterTurned
<1>8. Turned(chip, 46, cmd, WriteReg(e, 46, cmd, raster))
  BY <1>4, <1>6, <1>7, TurnedFrom
<1> QED  BY <1>5, <1>8 DEF e, cmd

-----------------------------------------------------------------------------
(* What a step does, whichever of the actions it is.                       *)

ChipInv ==
  /\ Chip(chip) /\ chip.palLatch \in Byte /\ PortOf(Size(chip), port)
  /\ Job(job) /\ Place(chip.xfer, job)

Still == UNCHANGED <<raster, inHandler, polled, colours>>

(* A register written, through the control port, which is then shut, or    *)
(* around it.                                                              *)
RegisterStep(r, b, q) ==
  /\ r \in 0..63 /\ b \in Byte /\ Turned(chip, r, b, chip')
  /\ \/ q = port /\ owner' = owner
     \/ q = Shut(port) /\ owner' = "None"
  /\ port' = Steered(q, r, b)
  /\ Following(r, b) /\ Still
RegisterWritten == \E r, b, q : RegisterStep(r, b, q)

LatchStep(b) ==
  /\ b \in Byte /\ port' = Latch(port, b) /\ owner' = Me
  /\ UNCHANGED <<chip, due, job>> /\ Still
FirstWritten == \E b : LatchStep(b)

AimStep(q) ==
  /\ PortOf(Size(chip), q) /\ q.latched = FALSE
  /\ \/ port' = q /\ due' = NoAddr
     \/ port' = Fetch(chip, q) /\ due' = q.at
  /\ owner' = "None"
  /\ UNCHANGED <<chip, job>> /\ Still
AddressWritten == \E q : AimStep(q)

(* The chip with nothing changed but flags, logs and its way of working.   *)
Alike(c, d) ==
  /\ Chip(d) /\ Size(d) = Size(c) /\ d.xfer = c.xfer /\ SamePalette(c, d) /\ Sight(c, d)

QuietStep ==
  /\ Alike(chip, chip')
  /\ raster' = raster \/ raster' = 0 \/ raster' = (raster + 1) % FrameLines
  /\ UNCHANGED <<inHandler, polled>> \/ (polled' = FALSE)
  /\ UNCHANGED <<port, owner, due, job, colours>>

LEMMA AlikeIs ==
  ASSUME NEW c, Chip(c), NEW d, Whole(d),
         \A f \in {"reg", "vram", "v9938", "xfer", "pal", "palLatch"} : d[f] = c[f]
  PROVE  Alike(c, d)
<1>1. /\ d.reg = c.reg /\ d.vram = c.vram /\ d.v9938 = c.v9938 /\ d.xfer = c.xfer
      /\ SamePalette(c, d)
  BY DEF SamePalette
<1>2. Size(d) = Size(c)
  BY <1>1 DEF Size
<1> QED  BY <1>1, <1>2 DEF Alike, Sight, Chip, Drawable

LEMMA AlikeSelf ==
  ASSUME NEW c, Chip(c) PROVE Alike(c, c)
BY DEF Alike, Sight, SamePalette

LEMMA Flags ==
  ASSUME NEW c, Chip(c), NEW x, NEW y
  PROVE  /\ Alike(c, [c EXCEPT !.working = x])
         /\ Alike(c, [c EXCEPT !.fh = x]) /\ Alike(c, [c EXCEPT !.vblank = x])
         /\ Alike(c, [c EXCEPT !.log = x, !.vblank = y])
<1> DEFINE d1 == [c EXCEPT !.working = x]
           d2 == [c EXCEPT !.fh = x]
           d3 == [c EXCEPT !.vblank = x]
           d4 == [c EXCEPT !.log = x, !.vblank = y]
<1>0. Whole(c)
  BY DEF Chip, Drawable
<1>1. Whole(d1) /\ \A f \in {"reg", "vram", "v9938", "xfer", "pal", "palLatch"} : d1[f] = c[f]
  BY <1>0 DEF Whole, Fields
<1>2. Whole(d2) /\ \A f \in {"reg", "vram", "v9938", "xfer", "pal", "palLatch"} : d2[f] = c[f]
  BY <1>0 DEF Whole, Fields
<1>3. Whole(d3) /\ \A f \in {"reg", "vram", "v9938", "xfer", "pal", "palLatch"} : d3[f] = c[f]
  BY <1>0 DEF Whole, Fields
<1>4. Whole(d4) /\ \A f \in {"reg", "vram", "v9938", "xfer", "pal", "palLatch"} : d4[f] = c[f]
  BY <1>0 DEF Whole, Fields
<1> HIDE DEF d1, d2, d3, d4
<1>5. Alike(c, d1) /\ Alike(c, d2) /\ Alike(c, d3) /\ Alike(c, d4)
  BY <1>1, <1>2, <1>3, <1>4, AlikeIs
<1> QED  BY <1>5 DEF d1, d2, d3, d4

LEMMA CtrlEffect ==
  ASSUME ChipInv, NEW b \in Byte, WriteCtrl(b)
  PROVE  RegisterWritten \/ FirstWritten \/ AddressWritten
<1> DEFINE r == b % 64
           first == port.first
           q == Shut(port)
           aim == first + 256 * r
           aimed == Set14(chip, q, aim)
<1>0. b \in Nat /\ first \in Byte /\ first \in Nat
  BY DEF Byte, ChipInv, PortOf
<1>1. CASE ~ port.latched
  <2>1. LatchStep(b)
    BY <1>1 DEF WriteCtrl, LatchStep, Latch, Elsewhere, Still
  <2> QED  BY <2>1 DEF FirstWritten
<1>2. CASE port.latched
  <2>1. r \in 0..63 /\ aim \in Nat
    BY <1>0
  <2>2. /\ owner' = "None" /\ Still
        /\ \/ /\ chip' = WriteReg(chip, r, first, raster)
              /\ port' = Steered(q, r, first)
              /\ Following(r, first)
           \/ /\ port' = aimed /\ due' = NoAddr /\ UNCHANGED <<chip, job>>
           \/ /\ port' = Fetch(chip, aimed) /\ due' = aimed.at /\ UNCHANGED <<chip, job>>
    BY <1>2 DEF WriteCtrl, Elsewhere, Still, Shut
  <2>3. PortOf(Size(chip), q) /\ q.latched = FALSE
    BY ShutIn, ShutIs DEF ChipInv, PortOf
  <2> HIDE DEF r, first, q, aim
  <2>4. PortOf(Size(chip), aimed) /\ aimed.latched = FALSE
    BY <2>1, <2>3, Set14In
  <2>5. Turned(chip, r, first, WriteReg(chip, r, first, raster))
    BY <1>0, <2>1, RegisterTurned DEF ChipInv
  <2> HIDE DEF aimed
  <2>6. CASE /\ chip' = WriteReg(chip, r, first, raster)
             /\ port' = Steered(q, r, first)
             /\ Following(r, first)
    <3>1. RegisterStep(r, first, q)
      BY <1>0, <2>1, <2>2, <2>5, <2>6 DEF RegisterStep, q
    <3> QED  BY <3>1 DEF RegisterWritten
  <2>7. CASE /\ (port' = aimed /\ due' = NoAddr) \/ (port' = Fetch(chip, aimed) /\ due' = aimed.at)
             /\ UNCHANGED <<chip, job>>
    <3>1. AimStep(aimed)
      BY <2>2, <2>4, <2>7 DEF AimStep
    <3> QED  BY <3>1 DEF AddressWritten
  <2> QED  BY <2>2, <2>6, <2>7
<1> QED  BY <1>1, <1>2

LEMMA BiosEffect ==
  ASSUME ChipInv, NEW a \in Nat, NEW full, NEW write, BiosSetAddr(a, full, write)
  PROVE  AddressWritten
<1> DEFINE q == Shut(port)
           at == a % Size(chip)
           low == at % 16384
           aimed == IF full THEN PointAt(q, at, low) ELSE Set14(chip, q, a)
<1>1. PortOf(Size(chip), q) /\ q.latched = FALSE
  BY ShutIn, ShutIs DEF ChipInv, PortOf
<1>2. at \in 0..Size(chip) - 1
  BY AddressIn
<1>3. Agree(at, low)
  BY DEF Agree
<1>4. /\ port' = IF write THEN aimed ELSE Fetch(chip, aimed)
      /\ due' = IF write THEN NoAddr ELSE aimed.at
      /\ owner' = "None" /\ UNCHANGED <<chip, job>> /\ Still
  BY DEF BiosSetAddr, Elsewhere, Still, Shut
<1> HIDE DEF q, at, low
<1>5. PortOf(Size(chip), PointAt(q, at, low)) /\ PointAt(q, at, low).latched = FALSE
  BY <1>1, <1>2, <1>3, PointedIn, PointedIs DEF PortOf
<1>6. PortOf(Size(chip), Set14(chip, q, a)) /\ Set14(chip, q, a).latched = FALSE
  BY <1>1, Set14In
<1>7. PortOf(Size(chip), aimed) /\ aimed.latched = FALSE
  BY <1>5, <1>6
<1> HIDE DEF aimed
<1>8. AimStep(aimed)
  BY <1>4, <1>7 DEF AimStep
<1> QED  BY <1>8 DEF AddressWritten

LEMMA RegisterEffects ==
  ASSUME ChipInv,
         \/ \E b \in DataBytes : WritePort9B(b)
         \/ \E b \in Blocks : StartCommand(b)
         \/ \E w \in RegWrites : WriteRegister(w[1], w[2])
  PROVE  RegisterWritten
<1>1. ASSUME NEW b \in DataBytes, WritePort9B(b) PROVE RegisterWritten
  <2> DEFINE r == chip.reg[17] % 64
  <2>1. b \in Byte
    BY InputsAssumption DEF Byte
  <2>2. /\ chip' = WriteIndirect(chip, b, raster) /\ port' = Steered(port, r, b)
        /\ Following(r, b) /\ Still /\ owner' = owner
    BY <1>1 DEF WritePort9B, Elsewhere, Still
  <2>3. Turned(chip, r, b, WriteIndirect(chip, b, raster)) /\ r \in 0..63
    BY <2>1, IndirectTurned DEF ChipInv
  <2> HIDE DEF r
  <2>4. RegisterStep(r, b, port)
    BY <2>1, <2>2, <2>3 DEF RegisterStep
  <2> QED  BY <2>4 DEF RegisterWritten
<1>2. ASSUME NEW b \in Blocks, StartCommand(b) PROVE RegisterWritten
  <2> DEFINE d == WriteReg(CommandWrites(b), 46, b.cmd, raster)
  <2>1. /\ ~ Busy(chip) /\ chip' = d /\ Following(46, b.cmd) /\ Still
        /\ UNCHANGED <<port, owner>>
    BY <1>2 DEF StartCommand, Elsewhere, Still
  <2>2. Turned(chip, 46, b.cmd, d) /\ b.cmd \in Byte
    BY <2>1, CommandTurned DEF ChipInv
  <2> HIDE DEF d
  <2>3. port' = Steered(port, 46, b.cmd) /\ 46 \in 0..63
    BY <2>1 DEF Steered
  <2>4. RegisterStep(46, b.cmd, port)
    BY <2>1, <2>2, <2>3 DEF RegisterStep
  <2> QED  BY <2>4 DEF RegisterWritten
<1>3. ASSUME NEW w \in RegWrites, WriteRegister(w[1], w[2]) PROVE RegisterWritten
  <2> DEFINE r == w[1]
             b == w[2]
  <2>1. r \in 0..63 /\ b \in Byte
    <3>1. w \in (0..63) \X (0..255)
      BY InputsAssumption
    <3> QED  BY <3>1 DEF Byte
  <2>2. /\ chip' = WriteReg(chip, r, b, raster) /\ port' = Steered(port, r, b)
        /\ Following(r, b) /\ Still /\ owner' = owner
    BY <1>3 DEF WriteRegister, Elsewhere, Still
  <2> HIDE DEF r, b
  <2>3. Turned(chip, r, b, WriteReg(chip, r, b, raster))
    BY <2>1, RegisterTurned DEF ChipInv
  <2>4. RegisterStep(r, b, port)
    BY <2>1, <2>2, <2>3 DEF RegisterStep
  <2> QED  BY <2>4 DEF RegisterWritten
<1> QED  BY <1>1, <1>2, <1>3

LEMMA QuietEffect ==
  ASSUME ChipInv, Finish \/ Tick \/ StartFrame \/ StartLine \/ Interrupt \/ Return \/ UNCHANGED vars
  PROVE  QuietStep
<1>1. Chip(chip)
  BY DEF ChipInv
<1>2. CASE Finish
  <2>1. Alike(chip, chip')
    <3>1. chip' = [chip EXCEPT !.working = FALSE]
      BY <1>2 DEF Finish
    <3> DEFINE no == FALSE
    <3>2. chip' = [chip EXCEPT !.working = no]
      BY <3>1
    <3> HIDE DEF no
    <3> QED  BY <1>1, <3>2, Flags
  <2> QED  BY <1>2, <2>1 DEF Finish, history, QuietStep
<1>3. CASE Tick
  BY <1>1, <1>3, AlikeSelf DEF Tick, QuietStep
<1>4. CASE StartFrame
  <2>1. Alike(chip, chip')
    <3> DEFINE yes == TRUE
               none == << >>
    <3>1. chip' = [chip EXCEPT !.log = none, !.vblank = yes]
      BY <1>4 DEF StartFrame
    <3> HIDE DEF yes, none
    <3> QED  BY <1>1, <3>1, Flags
  <2> QED  BY <1>4, <2>1 DEF StartFrame, QuietStep
<1>5. CASE StartLine
  <2>1. Alike(chip, chip')
    <3> DEFINE yes == TRUE
    <3>1. chip' = [chip EXCEPT !.fh = yes]
      BY <1>5 DEF StartLine
    <3> HIDE DEF yes
    <3> QED  BY <1>1, <3>1, Flags
  <2> QED  BY <1>5, <2>1 DEF StartLine, history, QuietStep
<1>6. CASE Interrupt
  BY <1>1, <1>6, AlikeSelf DEF Interrupt, history, QuietStep
<1>7. CASE Return
  BY <1>1, <1>7, AlikeSelf DEF Return, history, QuietStep
<1>8. CASE UNCHANGED vars
  BY <1>1, <1>8, AlikeSelf DEF vars, QuietStep
<1> QED  BY <1>2, <1>3, <1>4, <1>5, <1>6, <1>7, <1>8

LEMMA Effects ==
  ASSUME ChipInv, [Next]_vars
  PROVE  \/ RegisterWritten \/ FirstWritten \/ AddressWritten \/ QuietStep
         \/ ReadData \/ ReadStatus
         \/ \E b \in Byte : WriteData(b) \/ WritePalette(b)
<1>0. \A b \in CtrlBytes \cup DataBytes : b \in Byte
  BY InputsAssumption DEF Byte
<1>1. CASE Ports
  <2>1. ASSUME NEW b \in CtrlBytes, WriteCtrl(b)
        PROVE  RegisterWritten \/ FirstWritten \/ AddressWritten
    BY <1>0, <2>1, CtrlEffect
  <2>2. ASSUME NEW a \in BiosAddrs, NEW full \in BOOLEAN, NEW write \in BOOLEAN,
               BiosSetAddr(a, full, write)
        PROVE  AddressWritten
    <3>1. a \in Nat
      BY InputsAssumption
    <3> QED  BY <2>2, <3>1, BiosEffect
  <2> QED  BY <1>0, <1>1, <2>1, <2>2, RegisterEffects DEF Ports
<1>2. CASE Commands
  BY <1>2, RegisterEffects, QuietEffect DEF Commands
<1>3. CASE Registers
  BY <1>3, RegisterEffects DEF Registers
<1>4. CASE Frames \/ Interrupts \/ UNCHANGED vars
  BY <1>4, QuietEffect DEF Frames, Interrupts
<1> QED  BY <1>1, <1>2, <1>3, <1>4 DEF Next

-----------------------------------------------------------------------------
(* The three actions that are like no other. *)

(* Reading a status register hands over a byte of a transfer, or clears a  *)
(* flag, or does nothing to the chip.                                      *)
Given(c, d) ==
  /\ Chip(d) /\ Size(d) = Size(c) /\ SamePalette(c, d) /\ Sight(c, d)
  /\ c.xfer.dir = "Out" /\ d.xfer = XferStep(c.xfer)

LEMMA StatusEffect ==
  ASSUME ChipInv, ReadStatus
  PROVE  \/ Alike(chip, chip') /\ job' = job
         \/ Given(chip, chip') /\ job' = OneOn(job)
<1> DEFINE n == chip.reg[15] % 16
           moves == n = 7 /\ chip.xfer.dir = "Out"
<1>1. /\ chip' = CASE n = 0 -> [chip EXCEPT !.vblank = FALSE]
                   [] n = 1 -> [chip EXCEPT !.fh = FALSE]
                   [] moves -> XferRead(chip)
                   [] OTHER -> chip
      /\ job' = IF moves THEN OneOn(job) ELSE job
  BY DEF ReadStatus, OneOn
<1>2. Chip(chip)
  BY DEF ChipInv
<1> DEFINE no == FALSE
<1>3. n = 0 => chip' = [chip EXCEPT !.vblank = no]
  BY <1>1
<1>4. n = 1 => chip' = [chip EXCEPT !.fh = no]
  BY <1>1
<1> HIDE DEF n, no
<1>5. CASE n = 0
  <2>1. Alike(chip, [chip EXCEPT !.vblank = no])
    BY <1>2, Flags
  <2>2. ~ moves
    BY <1>5
  <2> QED  BY <1>1, <1>3, <1>5, <2>1, <2>2
<1>6. CASE n = 1
  <2>1. Alike(chip, [chip EXCEPT !.fh = no])
    BY <1>2, Flags
  <2>2. ~ moves
    BY <1>6
  <2> QED  BY <1>1, <1>4, <1>6, <2>1, <2>2
<1>7. CASE moves
  <2>1. chip' = [chip EXCEPT !.xfer = XferStep(chip.xfer)]
    BY <1>1, <1>7 DEF XferRead
  <2>2. Xfer(XferStep(chip.xfer))
    BY <1>2, XferStepIs DEF Chip
  <2>3. /\ Whole(chip') /\ chip'.xfer = XferStep(chip.xfer)
        /\ \A f \in Fields \ {"xfer"} : chip'[f] = chip[f]
    BY <1>2, <2>1 DEF Chip, Drawable, Whole, Fields
  <2>4. /\ chip'.reg = chip.reg /\ chip'.vram = chip.vram /\ chip'.v9938 = chip.v9938
        /\ SamePalette(chip, chip')
    BY <2>3 DEF Fields, SamePalette
  <2>5. Size(chip') = Size(chip)
    BY <2>4 DEF Size
  <2>6. Given(chip, chip')
    BY <1>2, <1>7, <2>2, <2>3, <2>4, <2>5 DEF Given, Sight, Chip, Drawable
  <2> QED  BY <1>1, <1>7, <2>6
<1>8. CASE n # 0 /\ n # 1 /\ ~ moves
  BY <1>1, <1>2, <1>8, AlikeSelf
<1> QED  BY <1>5, <1>6, <1>7, <1>8

LEMMA DataEffect ==
  ASSUME ChipInv, NEW b \in Byte, WriteData(b)
  PROVE  Chip(chip') /\ Size(chip') = Size(chip) /\ chip'.xfer = chip.xfer
         /\ SamePalette(chip, chip')
<1>1. port.at \in Int
  BY SizeIn DEF ChipInv, PortOf
<1>2. chip' \in Redrawn(chip)
  BY <1>1, PokeIn DEF WriteData, ChipInv, Chip, Drawable
<1>3. After(chip, chip', chip.xfer)
  BY <1>2, RedrawnAfter DEF ChipInv
<1>4. Size(chip') = Size(chip)
  BY <1>2, RedrawnSame DEF ChipInv, Chip, Drawable
<1>5. Chip(chip')
  BY <1>3, <1>4 DEF After, ChipInv, Chip, Drawable
<1> QED  BY <1>3, <1>4, <1>5 DEF After, Kept, SamePalette

(* An entry of the palette set, on a chip that has shown itself.           *)
Coloured(c, d) ==
  Chip(d) /\ Size(c) <= Size(d) /\ d.xfer = c.xfer /\ Sight(c, d)

LEMMA PaletteEffect ==
  ASSUME ChipInv, NEW b \in Byte, WritePalette(b)
  PROVE  /\ Coloured(chip, chip') /\ (chip.v9938 => Size(chip') = Size(chip))
         /\ chip'.palLatch \in Byte
         /\ \/ colours' = colours /\ chip'.pal = chip.pal
            \/ \E i \in 0..15, red, green, blue \in 0..7 :
                 /\ chip'.pal = [chip.pal EXCEPT ![i] = Eight(red, green, blue)]
                 /\ colours' = [colours EXCEPT ![i] = <<red, green, blue>>]
<1> DEFINE c == GoV9938(chip)
           i == c.reg[16] % 16
           red == (c.palLatch \div 16) % 8
           green == b % 8
           blue == c.palLatch % 8
           next == (c.reg[16] + 1) % 16
           pal == [c.pal EXCEPT ![i] = Eight(red, green, blue)]
           to == [colours EXCEPT ![i] = <<red, green, blue>>]
           yes == TRUE
           no == FALSE
           first == [c EXCEPT !.palLatch = b, !.palHalf = yes]
           second == [c EXCEPT !.palHalf = no, !.reg[16] = next, !.pal = pal]
<1>1. Chip(c) /\ Chip(chip)
  BY ShownIs DEF ChipInv
<1>2. Size(chip) <= Size(c) /\ c.xfer = chip.xfer /\ SamePalette(chip, c) /\ Sight(chip, c)
  BY ShownSight DEF ChipInv
<1>3. chip.v9938 => Size(c) = Size(chip)
  <2>1. c.v9938 = TRUE
    BY ShownIs DEF ChipInv
  <2>2. Size(c) = 131072
    <3> HIDE DEF c
    <3> QED  BY <2>1 DEF Size
  <2>3. chip.v9938 => Size(chip) = 131072
    BY DEF Size
  <2> HIDE DEF c
  <2> QED  BY <2>2, <2>3
<1>4. \/ chip' = first /\ colours' = colours
      \/ chip' = second /\ colours' = to
  BY DEF WritePalette
<1>5. /\ i \in 0..15 /\ next \in Byte
      /\ red \in 0..7 /\ green \in 0..7 /\ blue \in 0..7
  <2>1. c.reg[16] \in Byte /\ c.palLatch \in Byte
    BY <1>1, <1>2 DEF Chip, Registers8, SamePalette, ChipInv
  <2>2. c.reg[16] \in Nat /\ c.palLatch \in Nat /\ b \in Nat
    BY <2>1 DEF Byte
  <2> HIDE DEF c
  <2> QED  BY <2>2 DEF Byte
<1> HIDE DEF i, red, green, blue, next, yes, no, c
<1>6. CASE chip' = first /\ colours' = colours
  <2> DEFINE d == first
  <2>1. /\ Whole(d) /\ d.palLatch = b
        /\ \A f \in Fields \ {"palLatch", "palHalf"} : d[f] = c[f]
    BY <1>1 DEF Chip, Drawable, Whole, Fields
  <2> HIDE DEF first
  <2>2. /\ d.reg = c.reg /\ d.vram = c.vram /\ d.v9938 = c.v9938 /\ d.xfer = c.xfer
        /\ d.pal = c.pal
    BY <2>1 DEF Fields
  <2>3. Size(d) = Size(c)
    BY <2>2 DEF Size
  <2>4. Chip(d)
    BY <1>1, <2>1, <2>2, <2>3 DEF Chip, Drawable
  <2>5. Coloured(chip, d) /\ d.pal = chip.pal
    BY <1>2, <2>2, <2>3, <2>4 DEF Coloured, Sight, SamePalette
  <2> QED  BY <1>3, <1>6, <2>1, <2>3, <2>5
<1>7. CASE chip' = second /\ colours' = to
  <2> DEFINE d == second
  <2> HIDE DEF pal, to
  <2>1. /\ Whole(d) /\ d.pal = pal /\ d.reg = [c.reg EXCEPT ![16] = next]
        /\ \A f \in Fields \ {"reg", "pal", "palHalf"} : d[f] = c[f]
    BY <1>1 DEF Chip, Drawable, Whole, Fields
  <2> HIDE DEF second
  <2>2. /\ d.vram = c.vram /\ d.v9938 = c.v9938 /\ d.xfer = c.xfer /\ d.palLatch = c.palLatch
    BY <2>1 DEF Fields
  <2>3. Size(d) = Size(c)
    BY <2>2 DEF Size
  <2>4. d.reg \in Registers8 /\ d.reg[0] = c.reg[0] /\ d.reg[1] = c.reg[1]
    BY <1>1, <1>5, <2>1 DEF Chip, Registers8
  <2>5. Chip(d)
    BY <1>1, <2>1, <2>2, <2>3, <2>4 DEF Chip, Drawable
  <2>6. Coloured(chip, d) /\ d.palLatch \in Byte
    BY <1>2, <2>2, <2>3, <2>4, <2>5 DEF Coloured, Sight, SamePalette, ChipInv
  <2>7. pal = [chip.pal EXCEPT ![i] = Eight(red, green, blue)]
    BY <1>2 DEF pal, SamePalette
  <2> QED  BY <1>3, <1>5, <1>7, <2>1, <2>3, <2>6, <2>7 DEF to
<1> QED  BY <1>4, <1>6, <1>7

-----------------------------------------------------------------------------
(* The chip, the port and the transfer's place, from step to step.         *)

LEMMA PortShut ==
  ASSUME ChipInv PROVE PortOf(Size(chip), Shut(port)) /\ PortShape(port)
BY ShutIn DEF ChipInv, PortOf

LEMMA RegisterKeeps ==
  ASSUME ChipInv, NEW r, NEW b, NEW q, RegisterStep(r, b, q)
  PROVE  /\ ChipInv' /\ (r # 14 => port' = q)
         /\ Size(chip) <= Size(chip') /\ PortOf(Size(chip'), port')
         /\ port'.latched = q.latched
<1>1. /\ r \in 0..63 /\ b \in Byte /\ Turned(chip, r, b, chip')
      /\ q = port \/ q = Shut(port)
      /\ port' = Steered(q, r, b)
      /\ Following(r, b)
  BY DEF RegisterStep
<1>2. /\ Chip(chip') /\ Carried(chip.xfer, r, b, chip')
      /\ Size(chip) <= Size(chip') /\ (r = 14 => Size(chip') = 131072)
      /\ chip'.palLatch \in Byte
  BY <1>1 DEF Turned, Wide, SamePalette, ChipInv
<1>3. PortOf(Size(chip), q)
  BY <1>1, PortShut DEF ChipInv
<1>4. Size(chip) \in Nat /\ Size(chip') \in Nat
  BY SizeIn
<1>5. PortOf(Size(chip'), port') /\ (r # 14 => port' = q) /\ port'.latched = q.latched
  BY <1>1, <1>2, <1>3, <1>4, SteeredIn
<1>6. job' = Followed(job, chip.xfer, r, b, chip')
  BY <1>1 DEF Following, Followed, OneOn
<1>7. Job(job') /\ Place(chip'.xfer, job')
  BY <1>2, <1>6, TransferKept DEF ChipInv, Chip
<1> QED  BY <1>2, <1>5, <1>7 DEF ChipInv

LEMMA ChipKept ==
  ASSUME ChipInv, [Next]_vars PROVE ChipInv'
<1>0. /\ Chip(chip) /\ chip.palLatch \in Byte /\ PortOf(Size(chip), port)
      /\ Job(job) /\ Place(chip.xfer, job)
  BY DEF ChipInv
<1>1. CASE RegisterWritten
  BY <1>1, RegisterKeeps DEF RegisterWritten
<1>2. CASE FirstWritten
  <2>1. PICK b : LatchStep(b)
    BY <1>2 DEF FirstWritten
  <2> QED  BY <1>0, <2>1, LatchIn DEF LatchStep, ChipInv
<1>3. CASE AddressWritten
  <2>1. PICK q : AimStep(q)
    BY <1>3 DEF AddressWritten
  <2>2. PortOf(Size(chip), port') /\ chip' = chip /\ job' = job
    BY <1>0, <2>1, FetchIn DEF AimStep
  <2> QED  BY <1>0, <2>2 DEF ChipInv
<1>4. CASE QuietStep
  <2>1. Chip(chip') /\ Size(chip') = Size(chip) /\ chip'.xfer = chip.xfer
        /\ chip'.palLatch = chip.palLatch
    BY <1>4 DEF QuietStep, Alike, SamePalette
  <2>2. port' = port /\ job' = job
    BY <1>4 DEF QuietStep
  <2> QED  BY <1>0, <2>1, <2>2 DEF ChipInv
<1>5. CASE ReadData
  <2>1. port' = Shut(Fetch(chip, port)) /\ chip' = chip /\ job' = job
    BY <1>5 DEF ReadData, Shut
  <2>2. PortOf(Size(chip), port')
    BY <1>0, <2>1, FetchIn, ShutIn
  <2> QED  BY <1>0, <2>1, <2>2 DEF ChipInv
<1>6. CASE ReadStatus
  <2>1. port' = Shut(port)
    BY <1>6 DEF ReadStatus, Unlatched, Shut
  <2>2. PortOf(Size(chip), port')
    BY <2>1, PortShut
  <2>3. CASE Alike(chip, chip') /\ job' = job
    <3>1. Chip(chip') /\ Size(chip') = Size(chip) /\ chip'.xfer = chip.xfer
          /\ chip'.palLatch = chip.palLatch
      BY <2>3 DEF Alike, SamePalette
    <3> QED  BY <1>0, <2>2, <2>3, <3>1 DEF ChipInv
  <2>4. CASE Given(chip, chip') /\ job' = OneOn(job)
    <3>1. /\ Chip(chip') /\ Size(chip') = Size(chip) /\ chip.xfer.dir # "None"
          /\ chip'.xfer = XferStep(chip.xfer) /\ chip'.palLatch = chip.palLatch
      BY <2>4 DEF Given, SamePalette
    <3>2. Place(chip'.xfer, job') /\ Job(job')
      BY <1>0, <2>4, <3>1, StepPlace, OneOnIs DEF Chip, Place
    <3> QED  BY <1>0, <2>2, <3>1, <3>2 DEF ChipInv
  <2> QED  BY <1>6, <2>3, <2>4, StatusEffect
<1>7. ASSUME NEW b \in Byte, WriteData(b) PROVE ChipInv'
  <2>1. port' = Shut(Bump(chip, port)) /\ job' = job
    BY <1>7 DEF WriteData, Shut
  <2>2. PortOf(Size(chip), port')
    BY <1>0, <2>1, BumpIn, ShutIn
  <2>3. Chip(chip') /\ Size(chip') = Size(chip) /\ chip'.xfer = chip.xfer
        /\ chip'.palLatch = chip.palLatch
    BY <1>7, DataEffect DEF SamePalette
  <2> QED  BY <1>0, <2>1, <2>2, <2>3 DEF ChipInv
<1>8. ASSUME NEW b \in Byte, WritePalette(b) PROVE ChipInv'
  <2>1. port' = port /\ job' = job
    BY <1>8 DEF WritePalette
  <2>2. Chip(chip') /\ Size(chip) <= Size(chip') /\ chip'.xfer = chip.xfer
        /\ chip'.palLatch \in Byte
    <3>1. Coloured(chip, chip') /\ chip'.palLatch \in Byte
      BY <1>8, PaletteEffect
    <3> QED  BY <3>1 DEF Coloured
  <2>3. Size(chip) \in Nat /\ Size(chip') \in Nat
    BY SizeIn
  <2>4. PortOf(Size(chip'), port)
    BY <1>0, <2>2, <2>3, WiderIn
  <2> QED  BY <1>0, <2>1, <2>2, <2>4 DEF ChipInv
<1> QED  BY <1>1, <1>2, <1>3, <1>4, <1>5, <1>6, <1>7, <1>8, Effects

-----------------------------------------------------------------------------
(* A run of reads.                                                         *)

Reading(c, p, d) == p.at = (d + 1) % Size(c) /\ p.ahead = Peek(c, d)
ReadsInv == due # NoAddr => Reading(chip, port, due)

LEMMA SightPeek ==
  ASSUME NEW c, NEW d, Sight(c, d), Size(d) = Size(c), NEW a PROVE Peek(d, a) = Peek(c, a)
<1>1. Interleaved(d) = Interleaved(c)
  BY SameMode DEF Sight
<1>2. Phys(d, a) = Phys(c, a)
  BY <1>1 DEF Phys
<1> QED  BY <1>2 DEF Peek, Sight

LEMMA ReadingOn ==
  ASSUME NEW c, NEW d, Sight(c, d), Size(d) = Size(c),
         NEW p, NEW q, q.at = p.at, q.ahead = p.ahead, NEW a, Reading(c, p, a)
  PROVE  Reading(d, q, a)
BY SightPeek DEF Reading

LEMMA ReadsKept ==
  ASSUME ChipInv, ReadsInv, [Next]_vars PROVE ReadsInv'
<1>0. Chip(chip) /\ PortOf(Size(chip), port) /\ PortShape(port)
  BY DEF ChipInv, PortOf
<1> SUFFICES ASSUME due' # NoAddr PROVE Reading(chip', port', due')
  BY DEF ReadsInv
<1>9. Shut(port).at = port.at /\ Shut(port).ahead = port.ahead
  BY <1>0, ShutIs
<1>1. CASE RegisterWritten
  <2>1. PICK r, b, q : RegisterStep(r, b, q)
    BY <1>1 DEF RegisterWritten
  <2>2. /\ q = port \/ q = Shut(port)
        /\ Turned(chip, r, b, chip')
        /\ due' = IF r \in {0, 1, 14, 44, 46} \/ chip'.v9938 # chip.v9938 THEN NoAddr ELSE due
    BY <2>1 DEF RegisterStep, Following
  <2>3. r \notin {0, 1, 14, 44, 46} /\ chip'.v9938 = chip.v9938 /\ due' = due
    BY <2>2
  <2>4. Sight(chip, chip')
    BY <2>2, <2>3 DEF Turned
  <2>5. Size(chip') = Size(chip)
    BY <2>3 DEF Size
  <2>6. port' = q
    BY <2>1, <2>3, RegisterKeeps
  <2>7. port'.at = port.at /\ port'.ahead = port.ahead
    BY <1>9, <2>2, <2>6
  <2> QED  BY <2>3, <2>4, <2>5, <2>7, ReadingOn DEF ReadsInv
<1>2. CASE FirstWritten
  <2>1. PICK b : LatchStep(b)
    BY <1>2 DEF FirstWritten
  <2>2. port' = Latch(port, b) /\ chip' = chip /\ due' = due
    BY <2>1 DEF LatchStep
  <2>3. port'.at = port.at /\ port'.ahead = port.ahead
    BY <1>0, <2>2, LatchIs
  <2> QED  BY <2>2, <2>3 DEF ReadsInv, Reading
<1>3. CASE AddressWritten
  <2>1. PICK q : AimStep(q)
    BY <1>3 DEF AddressWritten
  <2>2. port' = Fetch(chip, q) /\ due' = q.at /\ chip' = chip /\ PortOf(Size(chip), q)
    BY <2>1 DEF AimStep
  <2> QED  BY <1>0, <2>2, FetchIn DEF Reading
<1>4. CASE QuietStep
  <2>1. Sight(chip, chip') /\ Size(chip') = Size(chip) /\ port' = port /\ due' = due
    BY <1>4 DEF QuietStep, Alike
  <2> QED  BY <2>1, ReadingOn DEF ReadsInv
<1>5. CASE ReadData
  <2>1. /\ port' = Shut(Fetch(chip, port)) /\ chip' = chip
        /\ due' = IF due = NoAddr THEN NoAddr ELSE port.at
    BY <1>5 DEF ReadData, Shut
  <2>2. due' = port.at
    BY <2>1
  <2>3. /\ Fetch(chip, port).at = (port.at + 1) % Size(chip)
        /\ Fetch(chip, port).ahead = Peek(chip, port.at)
        /\ PortShape(Fetch(chip, port))
    BY <1>0, FetchIn DEF PortOf
  <2>4. port'.at = (port.at + 1) % Size(chip) /\ port'.ahead = Peek(chip, port.at)
    BY <2>1, <2>3, ShutIs
  <2> QED  BY <2>1, <2>2, <2>4 DEF Reading
<1>6. CASE ReadStatus
  <2>1. port' = Shut(port) /\ due' = due
    BY <1>6 DEF ReadStatus, Unlatched, Shut
  <2>2. Sight(chip, chip') /\ Size(chip') = Size(chip)
    BY <1>6, StatusEffect DEF Alike, Given
  <2> QED  BY <1>9, <2>1, <2>2, ReadingOn DEF ReadsInv
<1>7. ASSUME NEW b \in Byte, WriteData(b) PROVE FALSE
  BY <1>7 DEF WriteData
<1>8. ASSUME NEW b \in Byte, WritePalette(b) PROVE Reading(chip', port', due')
  <2>1. port' = port /\ due' = IF chip.v9938 THEN due ELSE NoAddr
    BY <1>8 DEF WritePalette
  <2>2. due' = due /\ chip.v9938
    BY <2>1
  <2>3. Sight(chip, chip') /\ Size(chip') = Size(chip)
    BY <1>8, <2>2, PaletteEffect DEF Coloured
  <2> QED  BY <2>1, <2>2, <2>3, ReadingOn DEF ReadsInv
<1> QED  BY <1>1, <1>2, <1>3, <1>4, <1>5, <1>6, <1>7, <1>8, Effects

-----------------------------------------------------------------------------
(* The control port's latch.                                               *)

LatchInv ==
  /\ raster \in 0..FrameLines - 1
  /\ polled => inHandler
  /\ owner \in {"None", "Main", "Handler"} /\ (owner = "None" <=> ~ port.latched)
  /\ HandlerPairsWhole

(* What the actions do to it: the byte in the latch, who wrote it, and the *)
(* handler's having read the status register.                              *)
LatchMoves ==
  \/ /\ port'.latched = port.latched /\ owner' = owner
     /\ (polled' = polled /\ inHandler' = inHandler) \/ polled' = FALSE
  \/ /\ port'.latched = FALSE /\ owner' = "None" /\ inHandler' = inHandler
     /\ polled' = polled \/ polled' = inHandler
  \/ /\ port'.latched = TRUE /\ owner' = Me /\ polled' = polled /\ inHandler' = inHandler

LEMMA LatchEffect ==
  ASSUME ChipInv, [Next]_vars
  PROVE  /\ LatchMoves
         /\ raster' = raster \/ raster' = 0 \/ raster' = (raster + 1) % FrameLines
<1>0. Chip(chip) /\ PortOf(Size(chip), port) /\ PortShape(port)
  BY DEF ChipInv, PortOf
<1>1. CASE RegisterWritten
  <2>1. PICK r, b, q : RegisterStep(r, b, q)
    BY <1>1 DEF RegisterWritten
  <2>2. port'.latched = q.latched
    BY <2>1, RegisterKeeps
  <2>3. \/ q = port /\ owner' = owner
        \/ q = Shut(port) /\ owner' = "None"
    BY <2>1 DEF RegisterStep
  <2>4. raster' = raster /\ polled' = polled /\ inHandler' = inHandler
    BY <2>1 DEF RegisterStep, Still
  <2>5. Shut(port).latched = FALSE
    BY <1>0, ShutIs
  <2> QED  BY <2>2, <2>3, <2>4, <2>5, Zenon DEF LatchMoves
<1>2. CASE FirstWritten
  <2>1. PICK b : LatchStep(b)
    BY <1>2 DEF FirstWritten
  <2>2. /\ port' = Latch(port, b) /\ owner' = Me
        /\ raster' = raster /\ polled' = polled /\ inHandler' = inHandler
    BY <2>1 DEF LatchStep, Still
  <2>3. port'.latched = TRUE
    BY <1>0, <2>2, LatchIs
  <2> QED  BY <2>2, <2>3, Zenon DEF LatchMoves
<1>3. CASE AddressWritten
  <2>1. PICK q : AimStep(q)
    BY <1>3 DEF AddressWritten
  <2>2. /\ port' = q \/ port' = Fetch(chip, q)
        /\ q.latched = FALSE /\ PortOf(Size(chip), q) /\ owner' = "None"
        /\ raster' = raster /\ polled' = polled /\ inHandler' = inHandler
    BY <2>1 DEF AimStep, Still
  <2>3. Fetch(chip, q).latched = q.latched
    BY <1>0, <2>2, FetchIn
  <2>4. port'.latched = FALSE
    BY <2>2, <2>3, Zenon
  <2> QED  BY <2>2, <2>4, Zenon DEF LatchMoves
<1>4. CASE QuietStep
  <2>1. /\ port' = port /\ owner' = owner
        /\ (polled' = polled /\ inHandler' = inHandler) \/ polled' = FALSE
        /\ raster' = raster \/ raster' = 0 \/ raster' = (raster + 1) % FrameLines
    BY <1>4 DEF QuietStep
  <2> QED  BY <2>1, Zenon DEF LatchMoves
<1>5. CASE ReadData
  <2>1. /\ port' = Shut(Fetch(chip, port)) /\ owner' = "None"
        /\ raster' = raster /\ polled' = polled /\ inHandler' = inHandler
    BY <1>5 DEF ReadData, Shut, Elsewhere
  <2>2. PortShape(Fetch(chip, port))
    BY <1>0, FetchIn DEF PortOf
  <2>3. port'.latched = FALSE
    BY <2>1, <2>2, ShutIs
  <2> QED  BY <2>1, <2>3, Zenon DEF LatchMoves
<1>6. CASE ReadStatus
  <2>1. /\ port' = Shut(port) /\ owner' = "None" /\ polled' = inHandler
        /\ raster' = raster /\ inHandler' = inHandler
    BY <1>6 DEF ReadStatus, Unlatched, Shut, Elsewhere
  <2>2. port'.latched = FALSE
    BY <1>0, <2>1, ShutIs
  <2> QED  BY <2>1, <2>2, Zenon DEF LatchMoves
<1>7. ASSUME NEW b \in Byte, WriteData(b)
      PROVE  LatchMoves /\ raster' = raster
  <2>1. /\ port' = Shut(Bump(chip, port)) /\ owner' = "None"
        /\ raster' = raster /\ polled' = polled /\ inHandler' = inHandler
    BY <1>7 DEF WriteData, Shut, Elsewhere
  <2>2. PortShape(Bump(chip, port))
    BY <1>0, BumpIn DEF PortOf
  <2>3. port'.latched = FALSE
    BY <2>1, <2>2, ShutIs
  <2> QED  BY <2>1, <2>3, Zenon DEF LatchMoves
<1>8. ASSUME NEW b \in Byte, WritePalette(b)
      PROVE  LatchMoves /\ raster' = raster
  <2>1. /\ port' = port /\ owner' = owner
        /\ raster' = raster /\ polled' = polled /\ inHandler' = inHandler
    BY <1>8 DEF WritePalette
  <2> QED  BY <2>1, Zenon DEF LatchMoves
<1> QED  BY <1>1, <1>2, <1>3, <1>4, <1>5, <1>6, <1>7, <1>8, Effects

LEMMA LatchKept ==
  ASSUME ChipInv, LatchInv, [Next]_vars PROVE LatchInv'
<1>1. LatchMoves /\ (raster' = raster \/ raster' = 0 \/ raster' = (raster + 1) % FrameLines)
  BY LatchEffect
<1>2. raster' \in 0..FrameLines - 1
  <2>1. FrameLines \in Nat \ {0} /\ raster \in 0..FrameLines - 1
    BY LinesAssumption DEF LatchInv
  <2>2. (raster + 1) % FrameLines \in 0..FrameLines - 1
    BY <2>1, RemainderIn
  <2> QED  BY <1>1, <2>1, <2>2
<1>3. /\ polled => inHandler
      /\ owner \in {"None", "Main", "Handler"} /\ (owner = "None" <=> ~ port.latched)
      /\ inHandler /\ polled /\ port.latched => owner = "Handler"
  BY DEF LatchInv, HandlerPairsWhole
<1>4. Me \in {"Main", "Handler"} /\ Me # "None" /\ (inHandler => Me = "Handler")
  BY DEF Me
<1>5. CASE /\ port'.latched = port.latched /\ owner' = owner
           /\ (polled' = polled /\ inHandler' = inHandler) \/ polled' = FALSE
  <2>1. owner' \in {"None", "Main", "Handler"} /\ (owner' = "None" <=> ~ port'.latched)
    BY <1>3, <1>5, Zenon
  <2>2. polled' => inHandler'
    BY <1>3, <1>5, Zenon
  <2>3. inHandler' /\ polled' /\ port'.latched => owner' = "Handler"
    BY <1>3, <1>5, Zenon
  <2> QED  BY <1>2, <2>1, <2>2, <2>3, Zenon DEF LatchInv, HandlerPairsWhole
<1>6. CASE /\ port'.latched = FALSE /\ owner' = "None" /\ inHandler' = inHandler
           /\ polled' = polled \/ polled' = inHandler
  <2>1. owner' \in {"None", "Main", "Handler"} /\ (owner' = "None" <=> ~ port'.latched)
    BY <1>6
  <2>2. polled' => inHandler'
    BY <1>3, <1>6, Zenon
  <2>3. inHandler' /\ polled' /\ port'.latched => owner' = "Handler"
    BY <1>6, Zenon
  <2> QED  BY <1>2, <2>1, <2>2, <2>3, Zenon DEF LatchInv, HandlerPairsWhole
<1>7. CASE /\ port'.latched = TRUE /\ owner' = Me /\ polled' = polled /\ inHandler' = inHandler
  <2>1. owner' \in {"None", "Main", "Handler"} /\ (owner' = "None" <=> ~ port'.latched)
    BY <1>4, <1>7
  <2>2. polled' => inHandler'
    BY <1>3, <1>7, Zenon
  <2>3. inHandler' /\ polled' /\ port'.latched => owner' = "Handler"
    BY <1>4, <1>7, Zenon
  <2> QED  BY <1>2, <2>1, <2>2, <2>3, Zenon DEF LatchInv, HandlerPairsWhole
<1> QED  BY <1>1, <1>5, <1>6, <1>7 DEF LatchMoves

-----------------------------------------------------------------------------
(* The palette.                                                            *)

Levels(t) == t = <<t[1], t[2], t[3]>> /\ t[1] \in 0..7 /\ t[2] \in 0..7 /\ t[3] \in 0..7
Shown8(t) == Eight(t[1], t[2], t[3])

PaletteInv ==
  /\ colours = [i \in 0..15 |-> colours[i]] /\ chip.pal = [i \in 0..15 |-> chip.pal[i]]
  /\ \A i \in 0..15 : Levels(colours[i]) /\ chip.pal[i] = Shown8(colours[i])

(* A level comes back from the eight bits it is spread over.               *)
LEMMA LevelBack ==
  ASSUME NEW n \in 0..7 PROVE Level(n) \div 32 = n
<1>1. \/ n = 0 \/ n = 1 \/ n = 2 \/ n = 3 \/ n = 4 \/ n = 5 \/ n = 6 \/ n = 7
  OBVIOUS
<1> QED  BY <1>1 DEF Level

LEMMA ColourBack ==
  ASSUME PaletteInv, NEW i \in 0..15 PROVE GetPalette(chip, i) = colours[i]
<1> DEFINE t == colours[i]
<1>1. Levels(t) /\ chip.pal[i] = <<Level(t[1]), Level(t[2]), Level(t[3])>>
  BY DEF PaletteInv, Shown8, Eight
<1> HIDE DEF t
<1>2. GetPalette(chip, i) = [k \in 1..3 |-> chip.pal[i][k] \div 32]
  BY DEF GetPalette
<1>3. \A k \in 1..3 : chip.pal[i][k] \div 32 = t[k]
  <2>1. Level(t[1]) \div 32 = t[1] /\ Level(t[2]) \div 32 = t[2] /\ Level(t[3]) \div 32 = t[3]
    BY <1>1, LevelBack DEF Levels
  <2>2. /\ chip.pal[i][1] = Level(t[1]) /\ chip.pal[i][2] = Level(t[2])
        /\ chip.pal[i][3] = Level(t[3])
    BY <1>1
  <2> QED  BY <2>1, <2>2
<1>4. GetPalette(chip, i) = [k \in 1..3 |-> t[k]]
  BY <1>2, <1>3
<1>5. [k \in 1..3 |-> t[k]] = <<t[1], t[2], t[3]>>
  OBVIOUS
<1> QED  BY <1>1, <1>4, <1>5 DEF Levels, t

LEMMA PaletteKept ==
  ASSUME ChipInv, PaletteInv, [Next]_vars PROVE PaletteInv'
<1>1. ASSUME colours' = colours, chip'.pal = chip.pal PROVE PaletteInv'
  BY <1>1 DEF PaletteInv
<1>2. CASE RegisterWritten
  <2>1. PICK r, b, q : RegisterStep(r, b, q)
    BY <1>2 DEF RegisterWritten
  <2> QED  BY <1>1, <2>1 DEF RegisterStep, Turned, SamePalette, Still
<1>3. CASE FirstWritten \/ AddressWritten
  BY <1>1, <1>3 DEF FirstWritten, LatchStep, AddressWritten, AimStep, Still
<1>4. CASE QuietStep
  BY <1>1, <1>4 DEF QuietStep, Alike, SamePalette
<1>5. CASE ReadData
  BY <1>1, <1>5 DEF ReadData, Elsewhere
<1>6. CASE ReadStatus
  <2>1. SamePalette(chip, chip')
    BY <1>6, StatusEffect DEF Alike, Given
  <2> QED  BY <1>1, <1>6, <2>1 DEF SamePalette, ReadStatus, Elsewhere
<1>7. ASSUME NEW b \in Byte, WriteData(b) PROVE PaletteInv'
  <2>1. SamePalette(chip, chip')
    BY <1>7, DataEffect
  <2> QED  BY <1>1, <1>7, <2>1 DEF SamePalette, WriteData, Elsewhere
<1>8. ASSUME NEW b \in Byte, WritePalette(b) PROVE PaletteInv'
  <2>1. CASE colours' = colours /\ chip'.pal = chip.pal
    BY <1>1, <2>1
  <2>2. ASSUME NEW i \in 0..15, NEW red \in 0..7, NEW green \in 0..7, NEW blue \in 0..7,
               chip'.pal = [chip.pal EXCEPT ![i] = Eight(red, green, blue)],
               colours' = [colours EXCEPT ![i] = <<red, green, blue>>]
        PROVE  PaletteInv'
    <3> DEFINE t == <<red, green, blue>>
    <3>1. Levels(t) /\ Shown8(t) = Eight(red, green, blue)
      BY DEF Levels, Shown8
    <3> HIDE DEF t
    <3>2. /\ colours' = [k \in 0..15 |-> IF k = i THEN t ELSE colours[k]]
          /\ chip'.pal = [k \in 0..15 |-> IF k = i THEN Shown8(t) ELSE chip.pal[k]]
      BY <2>2, <3>1 DEF PaletteInv, t
    <3>3. /\ colours' = [k \in 0..15 |-> colours'[k]]
          /\ chip'.pal = [k \in 0..15 |-> chip'.pal[k]]
      BY <3>2
    <3>4. \A k \in 0..15 : Levels(colours'[k]) /\ chip'.pal[k] = Shown8(colours'[k])
      BY <3>1, <3>2 DEF PaletteInv
    <3> QED  BY <3>3, <3>4 DEF PaletteInv
  <2> QED  BY <1>8, <2>1, <2>2, PaletteEffect
<1> QED  BY <1>2, <1>3, <1>4, <1>5, <1>6, <1>7, <1>8, Effects

-----------------------------------------------------------------------------
(* The start, and what the invariants say.                                 *)

LEMMA Started == Init => ChipInv /\ ReadsInv /\ LatchInv /\ PaletteInv
<1> SUFFICES ASSUME Init PROVE ChipInv /\ ReadsInv /\ LatchInv /\ PaletteInv
  OBVIOUS
<1>1. PICK s \in Starts : chip = [FreshChip EXCEPT !.reg = s.reg, !.vram = s.vram,
                                                  !.v9938 = s.v9938]
  BY DEF Init
<1>2. /\ s.reg \in [0..63 -> 0..255] /\ DOMAIN s.vram \subseteq 0..Size(s) - 1
      /\ s.vram \in [DOMAIN s.vram -> 0..255]
  BY StartsAssumption
<1>3. /\ chip.reg = s.reg /\ chip.vram = s.vram /\ chip.v9938 = s.v9938
      /\ chip.xfer = NoTransfer /\ chip.pal = [i \in 0..15 |-> <<0, 0, 0>>] /\ chip.palLatch = 0
  BY <1>1 DEF FreshChip
<1>4. Whole(chip)
  BY <1>1 DEF FreshChip, Whole, Fields
<1>5. Size(chip) = Size(s)
  BY <1>3 DEF Size
<1>6. chip.vram \in Memories(Size(chip))
  <2> DEFINE places == DOMAIN s.vram
  <2>1. places \in SUBSET (0..Size(chip) - 1) /\ chip.vram \in [places -> Byte]
    BY <1>2, <1>3, <1>5 DEF Byte
  <2> HIDE DEF places
  <2> QED  BY <2>1 DEF Memories
<1>7. Xfer(NoTransfer) /\ NoTransfer.dir = "None"
  BY DEF NoTransfer, Xfer, XferFields
<1>8. chip.reg \in Registers8
  BY <1>2, <1>3 DEF Registers8, Byte
<1>9. Chip(chip) /\ chip.palLatch \in Byte
  BY <1>3, <1>4, <1>6, <1>7, <1>8 DEF Chip, Drawable, Byte
<1>10. /\ port = FreshPort /\ raster = 0 /\ inHandler = FALSE /\ polled = FALSE
       /\ owner = "None" /\ due = NoAddr /\ job = NoJob
       /\ colours = [i \in 0..15 |-> <<0, 0, 0>>]
  BY DEF Init
<1>11. /\ PortShape(port) /\ port.at = 0 /\ port.addr = 0 /\ port.first = 0 /\ port.ahead = 0
       /\ port.latched = FALSE
  BY <1>10 DEF FreshPort, PortShape, PortFields
<1>12. PortOf(Size(chip), port)
  <2>1. 0 \in 0..Size(chip) - 1
    BY SizeIn
  <2>2. 0 \in Low /\ 0 \in Byte
    BY LowIs DEF Byte
  <2>3. port.latched \in BOOLEAN
    BY <1>11
  <2>4. Agree(0, 0)
    BY DEF Agree
  <2> QED  BY <1>11, <2>1, <2>2, <2>3, <2>4 DEF PortOf
<1>13. ChipInv
  BY <1>3, <1>7, <1>9, <1>10, <1>12, NoJobIs DEF ChipInv, Place
<1>14. ReadsInv
  BY <1>10 DEF ReadsInv
<1>15. LatchInv
  <2>1. 0 \in 0..FrameLines - 1
    BY LinesAssumption
  <2> QED  BY <1>10, <1>11, <2>1 DEF LatchInv, HandlerPairsWhole
<1>16. PaletteInv
  <2> DEFINE t == <<0, 0, 0>>
  <2>1. Levels(t) /\ Shown8(t) = t
    BY DEF Levels, Shown8, Eight, Level
  <2> HIDE DEF t
  <2>2. colours = [i \in 0..15 |-> t] /\ chip.pal = [i \in 0..15 |-> t]
    BY <1>3, <1>10 DEF t
  <2> QED  BY <2>1, <2>2 DEF PaletteInv
<1> QED  BY <1>13, <1>14, <1>15, <1>16

-----------------------------------------------------------------------------
LEMMA PortSorted ==
  ASSUME NEW s, NEW p, PortOf(s, p)
  PROVE  p \in [at : 0..s - 1, addr : Low, latched : BOOLEAN, first : Byte, ahead : Byte]
<1> DEFINE A == 0..s - 1
<1>1. p.at \in A /\ p.addr \in Low /\ p.first \in Byte /\ p.ahead \in Byte /\ p.latched \in BOOLEAN
  BY DEF PortOf
<1>2. p = [f \in {"at", "addr", "latched", "first", "ahead"} |-> p[f]]
  BY DEF PortOf, PortShape, PortFields
<1> DEFINE at == p.at
           addr == p.addr
           latched == p.latched
           first == p.first
           ahead == p.ahead
<1>3. p = [at |-> at, addr |-> addr, latched |-> latched, first |-> first, ahead |-> ahead]
  BY <1>2
<1>4. at \in A /\ addr \in Low /\ latched \in BOOLEAN /\ first \in Byte /\ ahead \in Byte
  BY <1>1
<1> HIDE DEF at, addr, latched, first, ahead, A
<1>5. [at |-> at, addr |-> addr, latched |-> latched, first |-> first, ahead |-> ahead]
      \in [at : A, addr : Low, latched : BOOLEAN, first : Byte, ahead : Byte]
  BY <1>4, Zenon
<1> QED  BY <1>3, <1>5 DEF A

LEMMA InOrder ==
  ASSUME ChipInv, ReadsInv, LatchInv, PaletteInv PROVE PortsInOrder
<1>1. TypeOK
  <2>1. chip.reg \in [0..63 -> 0..255]
    BY DEF ChipInv, Chip, Registers8, Byte
  <2>2. \A a \in DOMAIN chip.vram : a \in 0..Size(chip) - 1 /\ chip.vram[a] \in 0..255
    <3>1. chip.vram \in Memories(Size(chip))
      BY DEF ChipInv, Chip, Drawable
    <3>2. PICK places \in SUBSET (0..Size(chip) - 1) : chip.vram \in [places -> Byte]
      BY <3>1 DEF Memories
    <3> QED  BY <3>2 DEF Byte
  <2>3. port \in [at : 0..Size(chip) - 1, addr : Low, latched : BOOLEAN,
                  first : Byte, ahead : Byte]
    BY PortSorted DEF ChipInv
  <2>4. port \in [at : 0..Size(chip) - 1, addr : Low, latched : BOOLEAN,
                  first : 0..255, ahead : 0..255]
    BY <2>3 DEF Byte
  <2>5. /\ raster \in 0..FrameLines - 1
        /\ polled => inHandler
        /\ owner \in {"None", "Main", "Handler"} /\ (owner = "None" <=> ~port.latched)
    BY DEF LatchInv
  <2> QED  BY <2>1, <2>2, <2>4, <2>5, Zenon DEF TypeOK
<1>2. ReadsInOrder
  BY DEF ReadsInv, Reading, ReadsInOrder
<1>3. HandlerPairsWhole
  BY DEF LatchInv
<1>4. PaletteReadsBack
  BY ColourBack DEF PaletteReadsBack
<1> QED  BY <1>1, <1>2, <1>3, <1>4 DEF PortsInOrder

(* What a program is in the middle of stays whole in every state of every  *)
(* program and handler: reads after an address set for reading give that   *)
(* byte and the ones after it, a handler that has read the status register *)
(* has its pairs to itself, and the palette reads back; vdp.go's ports.    *)
THEOREM PortsStayInOrder == Spec => []PortsInOrder
<1> DEFINE Inv == ChipInv /\ ReadsInv /\ LatchInv /\ PaletteInv
<1>1. Init => Inv
  BY Started
<1>2. Inv /\ [Next]_vars => Inv'
  BY ChipKept, ReadsKept, LatchKept, PaletteKept
<1>3. Inv => PortsInOrder
  BY InOrder
<1> QED  BY <1>1, <1>2, <1>3, PTL DEF Spec

(* The two copies of the address agree in every state of every program     *)
(* that reaches the chip through its ports and the BIOS; vdp.go's at and   *)
(* addr. A load of a snapshot is not among these steps.                    *)
THEOREM AddressesAgree == Spec => []AddressAgrees
<1>1. Init => ChipInv
  BY Started
<1>2. ChipInv /\ [Next]_vars => ChipInv'
  BY ChipKept
<1>3. ChipInv => AddressAgrees
  BY DEF ChipInv, PortOf, Agree, AddressAgrees
<1> QED  BY <1>1, <1>2, <1>3, PTL DEF Spec

(* A transfer to or from the processor is always where its count of bytes  *)
(* puts it, and ends with the last of its rectangle, whatever registers    *)
(* are written, read and interrupted in between; vdpcmd.go's xferStep.     *)
THEOREM TransfersKeepTheirPlace == Spec => []TransferPlace
<1>1. Init => ChipInv
  BY Started
<1>2. ChipInv /\ [Next]_vars => ChipInv'
  BY ChipKept
<1>3. ChipInv => TransferPlace
  BY PlaceIsCount DEF ChipInv, Chip, TransferPlace
<1> QED  BY <1>1, <1>2, <1>3, PTL DEF Spec

-----------------------------------------------------------------------------
(* The register log.  An entry says which line a register was written on,  *)
(* what it was and what it became.                                         *)

Entry == [line : Int, reg : Logged, old : Byte, new : Byte]
Logs(c) == Chip(c) /\ c.log \in Seq(Entry)

LEMMA LoggedIs == Logged \subseteq 0..63
BY DEF Logged

LEMMA EntryIs ==
  ASSUME NEW c, Logs(c), NEW i \in 1..Len(c.log)
  PROVE  /\ c.log[i].line \in Int /\ c.log[i].reg \in Logged /\ c.log[i].reg \in 0..63
         /\ c.log[i].old \in Byte /\ c.log[i].new \in Byte
<1>1. c.log[i] \in Entry
  BY DEF Logs
<1> QED  BY <1>1, LoggedIs DEF Entry

(* RegsAt takes the log back from its end, as far as it is of lines on     *)
(* display, and Replayed goes forward again as far as it had come by then. *)
Undo(c, regs, k) ==
  LET e == c.log[Len(c.log) - k]
  IN  IF e.line > 0 THEN [regs EXCEPT ![e.reg] = e.old] ELSE regs
Undone(c, a) ==
  /\ \A k \in 0..Len(c.log) : a[k] \in Registers8
  /\ a[0] = c.reg
  /\ \A k \in 0..Len(c.log) - 1 : a[k + 1] = Undo(c, a[k], k)

Landed(c, y) == {i \in 1..Len(c.log) : \A j \in 1..i : c.log[j].line <= y}
Redo(c, regs, k) == [regs EXCEPT ![c.log[k + 1].reg] = c.log[k + 1].new]
Redone(c, m, b) ==
  /\ \A k \in 0..m : b[k] \in Registers8
  /\ b[0] = RegsAt(c, 0)
  /\ \A k \in 0..m - 1 : b[k + 1] = Redo(c, b[k], k)

LEMMA UndoIn ==
  ASSUME NEW c, Logs(c), NEW k \in 0..Len(c.log) - 1, NEW regs \in Registers8
  PROVE  Undo(c, regs, k) \in Registers8
<1>1. Len(c.log) \in Nat
  BY DEF Logs
<1>2. Len(c.log) - k \in 1..Len(c.log)
  BY <1>1
<1> DEFINE e == c.log[Len(c.log) - k]
<1>3. e.reg \in 0..63 /\ e.old \in Byte
  BY <1>2, EntryIs
<1> HIDE DEF e
<1>4. [regs EXCEPT ![e.reg] = e.old] \in Registers8
  BY <1>3 DEF Registers8
<1> QED  BY <1>4 DEF Undo, e

LEMMA RedoIn ==
  ASSUME NEW c, Logs(c), NEW k \in 0..Len(c.log) - 1, NEW regs \in Registers8
  PROVE  Redo(c, regs, k) \in Registers8
<1>1. Len(c.log) \in Nat
  BY DEF Logs
<1>2. k + 1 \in 1..Len(c.log)
  BY <1>1
<1> DEFINE e == c.log[k + 1]
<1>3. e.reg \in 0..63 /\ e.new \in Byte
  BY <1>2, EntryIs
<1> HIDE DEF e
<1>4. [regs EXCEPT ![e.reg] = e.new] \in Registers8
  BY <1>3 DEF Registers8
<1> QED  BY <1>4 DEF Redo, e

LEMMA UndoneIs ==
  ASSUME NEW c, Logs(c) PROVE \E a : Undone(c, a) /\ RegsAt(c, 0) = a[Len(c.log)]
<1> DEFINE X == Registers8
           N == Len(c.log)
           Do(regs, k) == Undo(c, regs, k)
           F == [regs \in X |-> [k \in 0..N - 1 |-> Do(regs, k)]]
           Rec(g) == [k \in 0..N |-> IF k = 0 THEN c.reg
                        ELSE CHOOSE next \in {Do(before, k - 1) : before \in {g[k - 1]}} : TRUE]
           after == CHOOSE g : g = Rec(g)
<1>1. N \in Nat
  BY DEF Logs
<1>2. RegsAt(c, 0) = after[N]
  BY DEF RegsAt, Repeat, Undo
<1>3. \A regs \in X, k \in 0..N - 1 : Do(regs, k) \in X
  BY UndoIn
<1>4. c.reg \in X
  BY DEF Logs, Chip
<1> HIDE DEF X, N, Do
<1>5. \A regs \in X, k \in 0..N - 1 : F[regs][k] = Do(regs, k)
  OBVIOUS
<1> HIDE DEF F
<1>6. \A regs \in X, k \in 0..N - 1 : F[regs][k] \in X
  BY <1>3, <1>5
<1>7. PICK g : Runs(X, c.reg, N, F, g)
  BY <1>1, <1>4, <1>6, StepsExist
<1>8. \A h, k : (CHOOSE next \in {Do(before, k) : before \in {h}} : TRUE) = Do(h, k)
  OBVIOUS
<1>9. ASSUME NEW k \in 0..N, k # 0
      PROVE  g[k] = CHOOSE next \in {Do(before, k - 1) : before \in {g[k - 1]}} : TRUE
  <2>1. k - 1 \in 0..N - 1 /\ (k - 1) + 1 = k
    BY <1>1, <1>9
  <2>2. g[k - 1] \in X /\ g[k] = F[g[k - 1]][k - 1]
    BY <1>1, <1>7, <2>1 DEF Runs
  <2>3. g[k] = Do(g[k - 1], k - 1)
    BY <1>5, <2>1, <2>2
  <2> QED  BY <1>8, <2>3
<1>10. after = Rec(after)
  <2>1. g = Rec(g)
    BY <1>7, <1>9 DEF Runs
  <2> QED  BY <2>1
<1> HIDE DEF after
<1>11. after[0] = c.reg
  BY <1>1, <1>10
<1>12. ASSUME NEW k \in 0..N - 1 PROVE after[k + 1] = Do(after[k], k)
  <2>1. k + 1 \in 0..N /\ k + 1 # 0 /\ (k + 1) - 1 = k
    BY <1>1
  <2>2. after[k + 1] = CHOOSE next \in {Do(before, k) : before \in {after[k]}} : TRUE
    BY <1>10, <2>1
  <2> QED  BY <1>8, <2>2
<1>13. ASSUME NEW n \in 0..N PROVE after[n] \in X
  <2>1. n \in Nat /\ \A k \in 0..n - 1 : k \in 0..N - 1
    BY <1>1
  <2>2. \A k \in 0..n - 1 : after[k] \in X => after[k + 1] \in X
    BY <1>3, <1>12, <2>1
  <2> QED  BY <1>4, <1>11, <2>1, <2>2, StepsStay
<1>14. Undone(c, after)
  BY <1>11, <1>12, <1>13 DEF Undone, X, N, Do
<1> QED  BY <1>2, <1>14 DEF N

LEMMA RegsAtIn ==
  ASSUME NEW c, Logs(c) PROVE RegsAt(c, 0) \in Registers8
<1>1. PICK a : Undone(c, a) /\ RegsAt(c, 0) = a[Len(c.log)]
  BY UndoneIs
<1>2. Len(c.log) \in 0..Len(c.log)
  BY DEF Logs
<1> QED  BY <1>1, <1>2 DEF Undone

(* The writes a line has seen are as many as the log has by then.          *)
LEMMA LandedIn ==
  ASSUME NEW c, Logs(c), NEW y
  PROVE  Cardinality(Landed(c, y)) \in Nat /\ Cardinality(Landed(c, y)) <= Len(c.log)
<1> DEFINE n == Len(c.log)
<1>1. n \in Nat
  BY DEF Logs
<1>2. Landed(c, y) \subseteq 1..n
  BY DEF Landed
<1> HIDE DEF n
<1>3. IsFiniteSet(1..n) /\ Cardinality(1..n) = n
  BY <1>1, FS_Interval
<1>4. IsFiniteSet(Landed(c, y)) /\ Cardinality(Landed(c, y)) <= n
  BY <1>2, <1>3, FS_Subset
<1>5. Cardinality(Landed(c, y)) \in Nat
  BY <1>4, FS_CardinalityType
<1> QED  BY <1>4, <1>5 DEF n

LEMMA RedoneIs ==
  ASSUME NEW c, Logs(c), NEW y
  PROVE  \E b : Redone(c, Cardinality(Landed(c, y)), b)
                /\ Replayed(c, y) = b[Cardinality(Landed(c, y))]
<1> DEFINE X == Registers8
           N == Cardinality(Landed(c, y))
           start == RegsAt(c, 0)
           Do(regs, k) == Redo(c, regs, k)
           F == [regs \in X |-> [k \in 0..N - 1 |-> Do(regs, k)]]
           Rec(g) == [k \in 0..N |-> IF k = 0 THEN start
                        ELSE CHOOSE next \in {Do(before, k - 1) : before \in {g[k - 1]}} : TRUE]
           after == CHOOSE g : g = Rec(g)
<1>1. N \in Nat /\ N <= Len(c.log) /\ Len(c.log) \in Nat
  BY LandedIn DEF Logs
<1>2. Replayed(c, y) = after[N]
  BY DEF Replayed, Repeat, Redo, Landed
<1> HIDE DEF start, N
<1>3. \A regs \in X, k \in 0..N - 1 : Do(regs, k) \in X
  <2>1. \A k \in 0..N - 1 : k \in 0..Len(c.log) - 1
    BY <1>1
  <2> QED  BY <2>1, RedoIn
<1>4. start \in X
  BY RegsAtIn DEF start
<1> HIDE DEF X, Do
<1>5. \A regs \in X, k \in 0..N - 1 : F[regs][k] = Do(regs, k)
  OBVIOUS
<1> HIDE DEF F
<1>6. \A regs \in X, k \in 0..N - 1 : F[regs][k] \in X
  BY <1>3, <1>5
<1>7. PICK g : Runs(X, start, N, F, g)
  BY <1>1, <1>4, <1>6, StepsExist
<1>8. \A h, k : (CHOOSE next \in {Do(before, k) : before \in {h}} : TRUE) = Do(h, k)
  OBVIOUS
<1>9. ASSUME NEW k \in 0..N, k # 0
      PROVE  g[k] = CHOOSE next \in {Do(before, k - 1) : before \in {g[k - 1]}} : TRUE
  <2>1. k - 1 \in 0..N - 1 /\ (k - 1) + 1 = k
    BY <1>1, <1>9
  <2>2. g[k - 1] \in X /\ g[k] = F[g[k - 1]][k - 1]
    BY <1>1, <1>7, <2>1 DEF Runs
  <2>3. g[k] = Do(g[k - 1], k - 1)
    BY <1>5, <2>1, <2>2
  <2> QED  BY <1>8, <2>3
<1>10. after = Rec(after)
  <2>1. g = Rec(g)
    BY <1>7, <1>9 DEF Runs
  <2> QED  BY <2>1
<1> HIDE DEF after
<1>11. after[0] = start
  BY <1>1, <1>10
<1>12. ASSUME NEW k \in 0..N - 1 PROVE after[k + 1] = Do(after[k], k)
  <2>1. k + 1 \in 0..N /\ k + 1 # 0 /\ (k + 1) - 1 = k
    BY <1>1
  <2>2. after[k + 1] = CHOOSE next \in {Do(before, k) : before \in {after[k]}} : TRUE
    BY <1>10, <2>1
  <2> QED  BY <1>8, <2>2
<1>13. ASSUME NEW n \in 0..N PROVE after[n] \in X
  <2>1. n \in Nat /\ \A k \in 0..n - 1 : k \in 0..N - 1
    BY <1>1
  <2>2. \A k \in 0..n - 1 : after[k] \in X => after[k + 1] \in X
    BY <1>3, <1>12, <2>1
  <2> QED  BY <1>4, <1>11, <2>1, <2>2, StepsStay
<1>14. Redone(c, N, after)
  BY <1>11, <1>12, <1>13 DEF Redone, X, start, Do
<1> QED  BY <1>2, <1>14 DEF N

(* The last write of each register in the log is what the register holds.  *)
LastHeld(c) ==
  \A i \in 1..Len(c.log) :
    (\A j \in i + 1..Len(c.log) : c.log[j].reg # c.log[i].reg)
      => c.log[i].new = c.reg[c.log[i].reg]

LEMMA UndoAt ==
  ASSUME NEW c, Logs(c), NEW k \in 0..Len(c.log) - 1, NEW p \in Registers8, NEW s \in Logged
  PROVE  LET e == c.log[Len(c.log) - k]
         IN  Undo(c, p, k)[s] = IF e.line > 0 /\ s = e.reg THEN e.old ELSE p[s]
<1> DEFINE e == c.log[Len(c.log) - k]
<1>1. Len(c.log) - k \in 1..Len(c.log)
  BY DEF Logs
<1>2. e.reg \in 0..63 /\ s \in 0..63
  BY <1>1, EntryIs, LoggedIs
<1>3. Undo(c, p, k) = IF e.line > 0 THEN [p EXCEPT ![e.reg] = e.old] ELSE p
  BY DEF Undo
<1> HIDE DEF e
<1> QED  BY <1>2, <1>3 DEF Registers8, e

LEMMA RedoAt ==
  ASSUME NEW c, Logs(c), NEW k \in 0..Len(c.log) - 1, NEW p \in Registers8, NEW s \in Logged
  PROVE  LET e == c.log[k + 1] IN Redo(c, p, k)[s] = IF s = e.reg THEN e.new ELSE p[s]
<1> DEFINE e == c.log[k + 1]
<1>1. k + 1 \in 1..Len(c.log)
  BY DEF Logs
<1>2. e.reg \in 0..63 /\ s \in 0..63
  BY <1>1, EntryIs, LoggedIs
<1>3. Redo(c, p, k) = [p EXCEPT ![e.reg] = e.new]
  BY DEF Redo
<1> HIDE DEF e
<1> QED  BY <1>2, <1>3 DEF Registers8, e

(* A log all of whose writes a line has seen gives it what is set now.     *)
LEMMA AllLanded ==
  ASSUME NEW c, Logs(c), LastHeld(c), NEW y,
         \A i \in 1..Len(c.log) : c.log[i].line <= y
  PROVE  Same(Replayed(c, y), c.reg)
<1> DEFINE n == Len(c.log)
<1>1. n \in Nat
  BY DEF Logs
<1>2. Cardinality(Landed(c, y)) = n
  <2>1. Landed(c, y) = 1..n
    BY <1>1 DEF Landed
  <2> HIDE DEF n
  <2> QED  BY <1>1, <2>1, FS_Interval
<1>3. PICK b : Redone(c, n, b) /\ Replayed(c, y) = b[n]
  BY <1>2, RedoneIs
<1>4. PICK a : Undone(c, a) /\ RegsAt(c, 0) = a[n]
  BY UndoneIs
<1> SUFFICES ASSUME NEW s \in Logged PROVE b[n][s] = c.reg[s]
  BY <1>3 DEF Same
<1>5. ASSUME \A i \in 1..n : c.log[i].reg # s PROVE a[n][s] = c.reg[s]
  <2> DEFINE S == {k \in 0..n : a[k][s] = c.reg[s]}
  <2>1. 0 \in S
    BY <1>1, <1>4 DEF Undone
  <2>2. ASSUME NEW k \in 0..n - 1, k \in S PROVE k + 1 \in S
    <3>1. n - k \in 1..n /\ k + 1 \in 0..n /\ k \in 0..n
      BY <1>1
    <3>2. a[k] \in Registers8 /\ a[k + 1] = Undo(c, a[k], k)
      BY <1>4, <3>1 DEF Undone
    <3>3. c.log[n - k].reg # s
      BY <1>5, <3>1
    <3>4. a[k + 1][s] = a[k][s]
      BY <3>2, <3>3, UndoAt
    <3> QED  BY <2>2, <3>1, <3>4
  <2> HIDE DEF S
  <2>3. 0..n \subseteq S
    <3> HIDE DEF n
    <3> QED  BY <1>1, <2>1, <2>2, UpTo
  <2>4. n \in S
    BY <1>1, <2>3
  <2> QED  BY <2>4 DEF S
<1> DEFINE S == {k \in 0..n : (\A i \in k + 1..n : c.log[i].reg # s) => b[k][s] = c.reg[s]}
<1>6. 0 \in S
  BY <1>1, <1>3, <1>4, <1>5 DEF Redone
<1>7. ASSUME NEW k \in 0..n - 1, k \in S PROVE k + 1 \in S
  <2>1. k + 1 \in 1..n /\ k + 1 \in 0..n /\ k \in 0..n
    BY <1>1
  <2>2. b[k] \in Registers8 /\ b[k + 1] = Redo(c, b[k], k)
    BY <1>3, <2>1 DEF Redone
  <2> SUFFICES ASSUME \A i \in (k + 1) + 1..n : c.log[i].reg # s
               PROVE  b[k + 1][s] = c.reg[s]
    BY <2>1
  <2>3. CASE c.log[k + 1].reg = s
    <3>1. c.log[k + 1].new = c.reg[s]
      BY <2>1, <2>3 DEF LastHeld
    <3> QED  BY <2>2, <2>3, <3>1, RedoAt
  <2>4. CASE c.log[k + 1].reg # s
    <3>1. \A i \in k + 1..n : i = k + 1 \/ i \in (k + 1) + 1..n
      BY <2>1
    <3>2. b[k][s] = c.reg[s]
      BY <1>7, <2>4, <3>1
    <3> QED  BY <2>2, <2>4, <3>2, RedoAt
  <2> QED  BY <2>3, <2>4
<1> HIDE DEF S
<1>8. 0..n \subseteq S
  <2> HIDE DEF n
  <2> QED  BY <1>1, <1>6, <1>7, UpTo
<1>9. n \in S /\ \A i \in n + 1..n : FALSE
  BY <1>1, <1>8
<1> QED  BY <1>9 DEF S

(* Logs alike as far as a line has seen them, from one beginning.          *)
LEMMA ReplayedSame ==
  ASSUME NEW c, Logs(c), NEW d, Logs(d), NEW y,
         Same(RegsAt(d, 0), RegsAt(c, 0)), Landed(d, y) = Landed(c, y),
         Len(c.log) <= Len(d.log), \A i \in 1..Len(c.log) : d.log[i] = c.log[i]
  PROVE  Same(Replayed(d, y), Replayed(c, y))
<1> DEFINE m == Cardinality(Landed(c, y))
<1>1. m \in Nat /\ m <= Len(c.log) /\ Len(c.log) \in Nat /\ Len(d.log) \in Nat
  BY LandedIn DEF Logs
<1>2. PICK b : Redone(c, m, b) /\ Replayed(c, y) = b[m]
  BY RedoneIs
<1>3. PICK f : Redone(d, m, f) /\ Replayed(d, y) = f[m]
  BY RedoneIs
<1> HIDE DEF m
<1> DEFINE S == {k \in 0..m : Same(f[k], b[k])}
<1>4. 0 \in S
  BY <1>1, <1>2, <1>3 DEF Redone
<1>5. ASSUME NEW k \in 0..m - 1, k \in S PROVE k + 1 \in S
  <2>1. /\ k \in 0..m /\ k + 1 \in 0..m
        /\ k \in 0..Len(c.log) - 1 /\ k \in 0..Len(d.log) - 1 /\ k + 1 \in 1..Len(c.log)
    BY <1>1
  <2>2. /\ b[k] \in Registers8 /\ b[k + 1] = Redo(c, b[k], k)
        /\ f[k] \in Registers8 /\ f[k + 1] = Redo(d, f[k], k)
    BY <1>2, <1>3, <2>1 DEF Redone
  <2>3. d.log[k + 1] = c.log[k + 1]
    BY <2>1
  <2>4. ASSUME NEW s \in Logged PROVE f[k + 1][s] = b[k + 1][s]
    <3>1. f[k][s] = b[k][s]
      BY <1>5 DEF Same
    <3>2. b[k + 1][s] = IF s = c.log[k + 1].reg THEN c.log[k + 1].new ELSE b[k][s]
      BY <2>1, <2>2, RedoAt
    <3>3. f[k + 1][s] = IF s = d.log[k + 1].reg THEN d.log[k + 1].new ELSE f[k][s]
      BY <2>1, <2>2, RedoAt
    <3> QED  BY <2>3, <3>1, <3>2, <3>3
  <2> QED  BY <2>1, <2>4 DEF Same
<1> HIDE DEF S
<1>6. 0..m \subseteq S
  BY <1>1, <1>4, <1>5, UpTo
<1>7. m \in S
  BY <1>1, <1>6
<1> QED  BY <1>2, <1>3, <1>7 DEF S

(* Nothing written to the registers of the log.                            *)
LEMMA StillReplayed ==
  ASSUME NEW c, Logs(c), NEW d, Chip(d), d.log = c.log, Same(d.reg, c.reg), NEW y
  PROVE  Same(Replayed(d, y), Replayed(c, y))
<1> DEFINE n == Len(c.log)
<1>0. Logs(d) /\ n \in Nat /\ Len(d.log) = n
  BY DEF Logs
<1>1. PICK a : Undone(c, a) /\ RegsAt(c, 0) = a[n]
  BY UndoneIs
<1>2. PICK f : Undone(d, f) /\ RegsAt(d, 0) = f[n]
  BY <1>0, UndoneIs
<1> HIDE DEF n
<1> DEFINE S == {k \in 0..n : Same(f[k], a[k])}
<1>3. 0 \in S
  BY <1>0, <1>1, <1>2 DEF Undone
<1>4. ASSUME NEW k \in 0..n - 1, k \in S PROVE k + 1 \in S
  <2>1. k \in 0..n /\ k + 1 \in 0..n
    BY <1>0
  <2>2. /\ a[k] \in Registers8 /\ a[k + 1] = Undo(c, a[k], k)
        /\ f[k] \in Registers8 /\ f[k + 1] = Undo(d, f[k], k)
    BY <1>0, <1>1, <1>2, <2>1 DEF Undone, n
  <2>3. ASSUME NEW s \in Logged PROVE f[k + 1][s] = a[k + 1][s]
    <3>1. f[k][s] = a[k][s]
      BY <1>4 DEF Same
    <3>2. k \in 0..Len(c.log) - 1 /\ k \in 0..Len(d.log) - 1
      BY <1>0 DEF n
    <3>3. LET e == c.log[Len(c.log) - k]
          IN  a[k + 1][s] = IF e.line > 0 /\ s = e.reg THEN e.old ELSE a[k][s]
      BY <2>2, <3>2, UndoAt
    <3>4. LET e == d.log[Len(d.log) - k]
          IN  f[k + 1][s] = IF e.line > 0 /\ s = e.reg THEN e.old ELSE f[k][s]
      BY <1>0, <2>2, <3>2, UndoAt
    <3> QED  BY <3>1, <3>3, <3>4
  <2> QED  BY <2>1, <2>3 DEF Same
<1> HIDE DEF S
<1>5. 0..n \subseteq S
  BY <1>0, <1>3, <1>4, UpTo
<1>6. n \in S
  BY <1>0, <1>5
<1>7. Same(RegsAt(d, 0), RegsAt(c, 0))
  BY <1>1, <1>2, <1>6 DEF S
<1>8. Landed(d, y) = Landed(c, y)
  BY DEF Landed
<1>9. Len(c.log) <= Len(d.log) /\ \A i \in 1..Len(c.log) : d.log[i] = c.log[i]
  BY <1>0 DEF n
<1> QED  BY <1>0, <1>7, <1>8, <1>9, ReplayedSame

(* A write logged: what the register was, and what it is.                  *)
Logging(c, d, e) ==
  /\ Logs(c) /\ Chip(d) /\ e \in Entry /\ d.log = Append(c.log, e)
  /\ e.old = c.reg[e.reg] /\ d.reg[e.reg] = e.new
  /\ \A s \in Logged : s # e.reg => d.reg[s] = c.reg[s]

LEMMA LoggingIs ==
  ASSUME NEW c, NEW d, NEW e, Logging(c, d, e)
  PROVE  /\ Logs(d) /\ Len(c.log) \in Nat /\ Len(d.log) = Len(c.log) + 1
         /\ \A i \in 1..Len(c.log) : d.log[i] = c.log[i]
         /\ d.log[Len(c.log) + 1] = e
BY DEF Logging, Logs

(* A line above the one it is written on does not see it.                  *)
LEMMA WrittenBelow ==
  ASSUME NEW c, NEW d, NEW e, Logging(c, d, e), NEW y \in Nat, y < e.line
  PROVE  Same(Replayed(d, y), Replayed(c, y))
<1> DEFINE n == Len(c.log)
<1>0. /\ Logs(c) /\ Logs(d) /\ n \in Nat /\ Len(d.log) = n + 1
      /\ \A i \in 1..n : d.log[i] = c.log[i]
      /\ d.log[n + 1] = e /\ e.line \in Int /\ e.reg \in Logged
  BY LoggingIs DEF Logging, Entry
<1>1. PICK a : Undone(c, a) /\ RegsAt(c, 0) = a[n]
  BY <1>0, UndoneIs
<1>2. PICK f : Undone(d, f) /\ RegsAt(d, 0) = f[n + 1]
  BY <1>0, UndoneIs
<1>n. n = Len(c.log)
  OBVIOUS
<1> HIDE DEF n
<1> DEFINE S == {k \in 0..n : Same(f[k + 1], a[k])}
<1>3. 0 \in S
  <2>1. 0 \in 0..Len(d.log) - 1 /\ 0 \in 0..Len(d.log) /\ 0 + 1 = 1 /\ 0 \in 0..n
    BY <1>0
  <2>2. a[0] = c.reg /\ f[0] = d.reg /\ f[0] \in Registers8 /\ f[1] = Undo(d, f[0], 0)
    BY <1>1, <1>2, <2>1 DEF Undone
  <2>3. ASSUME NEW s \in Logged PROVE f[1][s] = a[0][s]
    <3>1. d.log[Len(d.log) - 0] = e
      BY <1>0
    <3>2. f[1][s] = IF e.line > 0 /\ s = e.reg THEN e.old ELSE f[0][s]
      BY <1>0, <2>1, <2>2, <3>1, UndoAt
    <3> QED  BY <1>0, <2>2, <3>2 DEF Logging
  <2> QED  BY <2>1, <2>3 DEF Same
<1>4. ASSUME NEW k \in 0..n - 1, k \in S PROVE k + 1 \in S
  <2>1. /\ k \in 0..Len(c.log) - 1 /\ k + 1 \in 0..Len(d.log) - 1
        /\ k \in 0..Len(c.log) /\ k + 1 \in 0..Len(d.log) /\ k + 1 \in 0..n
    BY <1>0, <1>n
  <2>2. /\ a[k] \in Registers8 /\ a[k + 1] = Undo(c, a[k], k)
        /\ f[k + 1] \in Registers8 /\ f[(k + 1) + 1] = Undo(d, f[k + 1], k + 1)
    BY <1>1, <1>2, <2>1 DEF Undone
  <2>3. d.log[Len(d.log) - (k + 1)] = c.log[Len(c.log) - k]
    <3>1. Len(d.log) - (k + 1) = n - k /\ n - k \in 1..n
      BY <1>0
    <3> QED  BY <1>0, <1>n, <3>1
  <2>4. ASSUME NEW s \in Logged PROVE f[(k + 1) + 1][s] = a[k + 1][s]
    <3> DEFINE g == c.log[Len(c.log) - k]
    <3>1. f[k + 1][s] = a[k][s]
      BY <1>4 DEF Same
    <3>2. a[k + 1][s] = IF g.line > 0 /\ s = g.reg THEN g.old ELSE a[k][s]
      BY <1>0, <2>1, <2>2, UndoAt
    <3> DEFINE h == d.log[Len(d.log) - (k + 1)]
    <3>3. Undo(d, f[k + 1], k + 1)[s] = IF h.line > 0 /\ s = h.reg THEN h.old ELSE f[k + 1][s]
      <4> DEFINE p == f[k + 1]
                 j == k + 1
      <4>1. Logs(d) /\ p \in Registers8 /\ j \in 0..Len(d.log) - 1
        BY <1>0, <2>1, <2>2
      <4> HIDE DEF p, j
      <4>2. LET l == d.log[Len(d.log) - j]
            IN  Undo(d, p, j)[s] = IF l.line > 0 /\ s = l.reg THEN l.old ELSE p[s]
        BY <4>1, UndoAt
      <4> QED  BY <4>2 DEF p, j
    <3>4. h = g
      BY <2>3
    <3> HIDE DEF g, h
    <3> QED  BY <2>2, <3>1, <3>2, <3>3, <3>4
  <2> QED  BY <2>1, <2>4 DEF Same
<1> HIDE DEF S
<1>5. 0..n \subseteq S
  BY <1>0, <1>3, <1>4, UpTo
<1>6. n \in S
  BY <1>0, <1>5
<1>7. Same(RegsAt(d, 0), RegsAt(c, 0))
  BY <1>1, <1>2, <1>6 DEF S
<1>8. Landed(d, y) = Landed(c, y)
  <2>1. ASSUME NEW i, i \in Landed(d, y) PROVE i \in Landed(c, y)
    <3>1. i \in 1..n + 1 /\ \A j \in 1..i : d.log[j].line <= y
      BY <1>0, <2>1 DEF Landed
    <3>2. i # n + 1
      <4> SUFFICES ASSUME i = n + 1 PROVE FALSE
        OBVIOUS
      <4>1. n + 1 \in 1..i
        BY <1>0
      <4>2. e.line <= y
        BY <1>0, <3>1, <4>1
      <4> QED  BY <1>0, <4>2
    <3>3. i \in 1..n /\ \A j \in 1..i : j \in 1..n
      BY <1>0, <3>1, <3>2
    <3> QED  BY <1>0, <1>n, <3>1, <3>3 DEF Landed
  <2>2. ASSUME NEW i, i \in Landed(c, y) PROVE i \in Landed(d, y)
    <3>1. i \in 1..n /\ \A j \in 1..i : c.log[j].line <= y
      BY <1>n, <2>2 DEF Landed
    <3>2. i \in 1..n + 1 /\ \A j \in 1..i : j \in 1..n
      BY <1>0, <3>1
    <3> QED  BY <1>0, <3>1, <3>2 DEF Landed
  <2> QED  BY <2>1, <2>2
<1> QED  BY <1>0, <1>n, <1>7, <1>8, ReplayedSame

(* The log's last writes stay what the registers hold.                     *)
LEMMA LoggedHeld ==
  ASSUME NEW c, NEW d, NEW e, Logging(c, d, e), LastHeld(c) PROVE LastHeld(d)
<1> DEFINE n == Len(c.log)
<1>0. /\ Logs(c) /\ n \in Nat /\ Len(d.log) = n + 1
      /\ \A i \in 1..n : d.log[i] = c.log[i]
      /\ d.log[n + 1] = e
  BY LoggingIs DEF Logging
<1> SUFFICES ASSUME NEW i \in 1..n + 1, \A j \in i + 1..n + 1 : d.log[j].reg # d.log[i].reg
             PROVE  d.log[i].new = d.reg[d.log[i].reg]
  BY <1>0 DEF LastHeld
<1>1. CASE i = n + 1
  BY <1>0, <1>1 DEF Logging
<1>2. CASE i # n + 1
  <2>1. i \in 1..n /\ n + 1 \in i + 1..n + 1 /\ \A j \in i + 1..n : j \in i + 1..n + 1 /\ j \in 1..n
    BY <1>0, <1>2
  <2>2. d.log[i] = c.log[i] /\ e.reg # c.log[i].reg
    BY <1>0, <2>1
  <2>3. \A j \in i + 1..n : c.log[j].reg # c.log[i].reg
    BY <1>0, <2>1
  <2>4. c.log[i].new = c.reg[c.log[i].reg]
    BY <2>1, <2>3 DEF LastHeld
  <2>5. c.log[i].reg \in Logged
    BY <1>0, <2>1, EntryIs
  <2> QED  BY <2>2, <2>4, <2>5 DEF Logging
<1> QED  BY <1>1, <1>2

(* A log that does not run backwards ends on its greatest line.            *)
LEMMA EndsGreatest ==
  ASSUME NEW c, NEW d, NEW e, Logging(c, d, e), ~ Wrapped(d.log)
  PROVE  ~ Wrapped(c.log) /\ \A i \in 1..Len(d.log) : d.log[i].line <= e.line
<1> DEFINE n == Len(c.log)
<1>0. /\ Logs(c) /\ Logs(d) /\ n \in Nat /\ Len(d.log) = n + 1
      /\ \A i \in 1..n : d.log[i] = c.log[i]
      /\ d.log[n + 1] = e
  BY LoggingIs DEF Logging
<1>n. n = Len(c.log)
  OBVIOUS
<1> HIDE DEF n
<1>1. \A i \in 1..n + 1 : d.log[i].line \in Int
  BY <1>0, EntryIs
<1>2. \A i \in 2..n + 1 : d.log[i - 1].line <= d.log[i].line
  <2> SUFFICES ASSUME NEW i \in 2..n + 1 PROVE d.log[i - 1].line <= d.log[i].line
    OBVIOUS
  <2>1. ~ (d.log[i].line < d.log[i - 1].line)
    BY <1>0 DEF Wrapped
  <2>2. i \in 1..n + 1 /\ i - 1 \in 1..n + 1
    BY <1>0
  <2> QED  BY <1>1, <2>1, <2>2
<1>3. ~ Wrapped(c.log)
  <2> SUFFICES ASSUME NEW i \in 2..n, c.log[i].line < c.log[i - 1].line PROVE FALSE
    BY <1>n DEF Wrapped
  <2>1. i \in 2..n + 1 /\ i \in 1..n /\ i - 1 \in 1..n /\ i \in 1..n + 1 /\ i - 1 \in 1..n + 1
    BY <1>0
  <2>2. d.log[i - 1].line <= d.log[i].line /\ d.log[i] = c.log[i] /\ d.log[i - 1] = c.log[i - 1]
    BY <1>0, <1>2, <2>1
  <2> QED  BY <1>1, <2>1, <2>2
<1> DEFINE S == {k \in 0..n : d.log[(n + 1) - k].line <= e.line}
<1>4. 0 \in S
  <2>1. e.line <= e.line
    BY <1>0, <1>1
  <2> QED  BY <1>0, <2>1
<1>5. ASSUME NEW k \in 0..n - 1, k \in S PROVE k + 1 \in S
  <2> DEFINE i == (n + 1) - k
  <2>1. i \in 2..n + 1 /\ i \in 1..n + 1 /\ i - 1 \in 1..n + 1 /\ (n + 1) - (k + 1) = i - 1
        /\ k + 1 \in 0..n
    BY <1>0
  <2>2. d.log[i].line <= e.line
    BY <1>5
  <2> HIDE DEF i
  <2>3. d.log[i - 1].line <= e.line
    <3>1. d.log[i - 1].line <= d.log[i].line
      BY <1>2, <2>1
    <3>2. d.log[i].line \in Int /\ d.log[i - 1].line \in Int /\ e.line \in Int
      BY <1>0, <1>1, <2>1
    <3> QED  BY <2>2, <3>1, <3>2
  <2> QED  BY <2>1, <2>3
<1> HIDE DEF S
<1>6. 0..n \subseteq S
  BY <1>0, <1>4, <1>5, UpTo
<1>7. ASSUME NEW i \in 1..n + 1 PROVE d.log[i].line <= e.line
  <2>1. (n + 1) - i \in 0..n /\ (n + 1) - ((n + 1) - i) = i
    BY <1>0
  <2>2. (n + 1) - i \in S
    BY <1>6, <2>1
  <2> QED  BY <2>1, <2>2 DEF S
<1> QED  BY <1>0, <1>3, <1>7

-----------------------------------------------------------------------------
(* What writing a register does to the log: a write of one it is of is its *)
(* next entry, and no other changes it or what it is of.                   *)

Kin(c, d) == d.log = c.log /\ Same(d.reg, c.reg)
Entered(c, r, b, at) == [line |-> DisplayLine(c, at), reg |-> r, old |-> c.reg[r], new |-> b]
Set(c, r, b, d) == d.reg[r] = b /\ \A s \in Logged : s # r => d.reg[s] = c.reg[s]
Recorded(c, r, b, at, d) ==
  /\ r \in Logged => d.log = Append(c.log, Entered(c, r, b, at)) /\ Set(c, r, b, d)
  /\ r \notin Logged => Kin(c, d)

LEMMA KinIs == \A c, d, e : Kin(c, d) /\ Kin(d, e) => Kin(c, e)
BY DEF Kin, Same

LEMMA KinOf ==
  ASSUME NEW c, NEW d, d.log = c.log, d.reg = c.reg PROVE Kin(c, d)
BY DEF Kin, Same

LEMMA RecordedFrom ==
  ASSUME NEW c, NEW e, e.log = c.log, e.reg = c.reg, NEW r, NEW b, NEW at, NEW d,
         Recorded(e, r, b, at, d)
  PROVE  Recorded(c, r, b, at, d)
<1>1. DisplayLine(e, at) = DisplayLine(c, at)
  BY DEF DisplayLine, Lines
<1>2. Entered(e, r, b, at) = Entered(c, r, b, at)
  BY <1>1 DEF Entered
<1> QED  BY <1>2 DEF Recorded, Kin, Same, Set

LEMMA RecordedOn ==
  ASSUME NEW c, NEW r, NEW b, NEW at, NEW e, Recorded(c, r, b, at, e), NEW d, Kin(e, d)
  PROVE  Recorded(c, r, b, at, d)
<1>1. CASE r \in Logged
  <2>1. d.log = Append(c.log, Entered(c, r, b, at))
    BY <1>1 DEF Recorded, Kin
  <2>2. Set(c, r, b, d)
    BY <1>1 DEF Recorded, Kin, Same, Set
  <2> QED  BY <1>1, <2>1, <2>2 DEF Recorded
<1>2. CASE r \notin Logged
  BY <1>2, KinIs DEF Recorded
<1> QED  BY <1>1, <1>2

LEMMA SetRegRecords ==
  ASSUME NEW c, Chip(c), NEW r \in 0..63, NEW b \in Byte, NEW at
  PROVE  Recorded(c, r, b, at, SetReg(IF r > 7 THEN GoV9938(c) ELSE c, r, b, at))
<1> DEFINE e == IF r > 7 THEN GoV9938(c) ELSE c
           d == SetReg(e, r, b, at)
<1>1. /\ Whole(e) /\ e.log = c.log /\ e.reg = c.reg
  BY DEF GoV9938, Whole, Fields, Chip, Drawable
<1> HIDE DEF e
<1>2. /\ d.reg = [e.reg EXCEPT ![r] = b]
      /\ d.log = IF r \in Logged THEN Append(e.log, Entered(e, r, b, at)) ELSE e.log
  BY <1>1 DEF SetReg, Entered, Whole, Fields
<1>3. d.reg[r] = b /\ \A s \in 0..63 : s # r => d.reg[s] = e.reg[s]
  BY <1>1, <1>2 DEF Chip, Registers8
<1> HIDE DEF d
<1>4. Set(e, r, b, d)
  BY <1>3, LoggedIs DEF Set
<1>5. r \notin Logged => Kin(e, d)
  BY <1>2, <1>3, LoggedIs DEF Kin, Same
<1>6. Recorded(e, r, b, at, d)
  BY <1>2, <1>4, <1>5 DEF Recorded
<1>7. Recorded(c, r, b, at, d)
  BY <1>1, <1>6, RecordedFrom
<1> QED  BY <1>7 DEF d, e

LEMMA WriteRegRecords ==
  ASSUME NEW c, Chip(c), NEW r \in 0..63, NEW b \in Byte, NEW at
  PROVE  Recorded(c, r, b, at, WriteReg(c, r, b, at))
<1> DEFINE set == SetReg(IF r > 7 THEN GoV9938(c) ELSE c, r, b, at)
           d == WriteReg(c, r, b, at)
<1>1. Recorded(c, r, b, at, set) /\ RegSet(c, r, b, set)
  BY SetRegRecords, SetRegIs
<1>2. Chip(set) /\ set.xfer = c.xfer
  BY <1>1 DEF RegSet, Fields
<1>3. r = 46 => d = Execute(set, b)
  BY DEF WriteReg
<1>4. r = 44 /\ c.xfer.dir = "In" => d = XferWrite(set, b)
  BY <1>2 DEF WriteReg
<1>5. r # 46 /\ ~ (r = 44 /\ c.xfer.dir = "In") => d = set
  BY <1>2 DEF WriteReg
<1> HIDE DEF set, d
<1>6. \A s \in Logged : s \in 0..63 /\ s \notin {44, 46}
  BY DEF Logged
<1>7. Kin(set, d)
  <2>1. CASE r = 46
    <3>1. Executed(set, b, d)
      BY <1>2, <1>3, <2>1, CommandsKeepTheChip
    <3> QED  BY <1>6, <3>1 DEF Executed, Unwritten, Kept, Kin, Same
  <2>2. CASE r = 44 /\ c.xfer.dir = "In"
    <3>1. After(set, d, XferStep(set.xfer))
      BY <1>2, <1>4, <2>2, XferWriteAfter
    <3> QED  BY <1>6, <3>1 DEF After, Kept, Kin, Same
  <2>3. CASE r # 46 /\ ~ (r = 44 /\ c.xfer.dir = "In")
    BY <1>5, <2>3, KinOf
  <2> QED  BY <2>1, <2>2, <2>3
<1>8. Recorded(c, r, b, at, d)
  BY <1>1, <1>7, RecordedOn
<1> QED  BY <1>8 DEF d

LEMMA IndirectRecords ==
  ASSUME NEW c, Chip(c), NEW b \in Byte, NEW at
  PROVE  Recorded(c, c.reg[17] % 64, b, at, WriteIndirect(c, b, at))
<1> DEFINE r == c.reg[17] % 64
           e == GoV9938(c)
           w == WriteReg(e, r, b, at)
           n == (r + 1) % 64
           d == [w EXCEPT !.reg[17] = n]
<1>1. r \in 0..63
  BY IndirectTurned
<1>2. WriteIndirect(c, b, at) = w \/ WriteIndirect(c, b, at) = d
  BY DEF WriteIndirect
<1>3. Chip(e) /\ e.log = c.log /\ e.reg = c.reg
  BY ShownIs DEF Fields
<1> HIDE DEF r, e, n
<1>4. Recorded(e, r, b, at, w) /\ Chip(w)
  BY <1>1, <1>3, WriteRegRecords, RegisterTurned DEF Turned
<1> HIDE DEF w
<1>5. Recorded(c, r, b, at, w)
  BY <1>3, <1>4, RecordedFrom
<1>6. Kin(w, d)
  <2>1. d.log = w.log /\ d.reg = [w.reg EXCEPT ![17] = n]
    BY <1>4 DEF Chip, Drawable, Whole, Fields
  <2>2. \A s \in Logged : s \in 0..63 /\ s # 17
    BY DEF Logged
  <2> HIDE DEF d
  <2> QED  BY <1>4, <2>1, <2>2 DEF Chip, Registers8, Kin, Same
<1> HIDE DEF d
<1>7. Recorded(c, r, b, at, d)
  BY <1>5, <1>6, RecordedOn
<1> QED  BY <1>2, <1>5, <1>7 DEF r

LEMMA CommandRecords ==
  ASSUME Chip(chip), ~ Busy(chip), NEW b \in Blocks
  PROVE  Kin(chip, WriteReg(CommandWrites(b), 46, b.cmd, raster))
<1> DEFINE e == CommandWrites(b)
           d == WriteReg(e, 46, b.cmd, raster)
<1>1. chip.xfer.dir = "None"
  BY DEF Busy
<1>2. e \in Repointed(chip) /\ b.cmd \in Byte
  BY <1>1, CommandWritesIs, CommandTurned
<1>3. Chip(e) /\ Kin(chip, e)
  BY <1>2, RepointedIs DEF Fields, Kin
<1> HIDE DEF e
<1>4. Recorded(e, 46, b.cmd, raster, d)
  BY <1>2, <1>3, WriteRegRecords
<1>5. 46 \notin Logged
  BY DEF Logged
<1> HIDE DEF d
<1>6. Kin(e, d)
  BY <1>4, <1>5 DEF Recorded
<1>7. Kin(chip, d)
  BY <1>3, <1>6, KinIs
<1> QED  BY <1>7 DEF d, e

-----------------------------------------------------------------------------
(* The lines the raster is on.                                             *)

LEMMA SmallRemainder ==
  ASSUME NEW n \in Nat, NEW x \in 0..n - 1 PROVE x % n = x
<1>1. (0 * n + x) % n = x
  BY Divided
<1>2. 0 * n + x = x
  OBVIOUS
<1> QED  BY <1>1, <1>2

LEMMA NextRemainder ==
  ASSUME NEW n \in Nat \ {0}, NEW x \in Nat
  PROVE  (x + 1) % n = IF (x % n) + 1 = n THEN 0 ELSE (x % n) + 1
<1> DEFINE r == x % n
           d == x \div n
<1>1. r \in 0..n - 1 /\ d \in Nat /\ x = d * n + r
  OBVIOUS
<1> HIDE DEF r, d
<1>2. CASE r + 1 = n
  <2>1. (d + 1) * n = d * n + n
    BY <1>1, OneMore
  <2>2. d * n \in Nat /\ (d + 1) * n \in Nat
    BY <1>1
  <2>3. x + 1 = (d + 1) * n + 0
    BY <1>1, <1>2, <2>1, <2>2
  <2>4. ((d + 1) * n + 0) % n = 0
    BY <1>1, Divided
  <2> QED  BY <1>2, <2>3, <2>4 DEF r
<1>3. CASE r + 1 # n
  <2>1. r + 1 \in 0..n - 1
    BY <1>1, <1>3
  <2>2. d * n \in Nat
    BY <1>1
  <2>3. x + 1 = d * n + (r + 1)
    BY <1>1, <2>2
  <2>4. (d * n + (r + 1)) % n = r + 1
    BY <1>1, <2>1, Divided
  <2> QED  BY <1>3, <2>3, <2>4 DEF r
<1> QED  BY <1>2, <1>3

LEMMA LinesAre ==
  ASSUME NEW c
  PROVE  /\ Lines(c) \in Nat \ {0} /\ Lines(c) <= TallLines
         /\ TallLines \in Nat /\ FrameLines \in Nat \ {0} /\ TallLines < FrameLines
BY LinesAssumption DEF Lines

LEMMA DisplayIs ==
  ASSUME NEW c, NEW at \in Nat
  PROVE  LET l == (at + Lines(c)) % FrameLines
         IN  /\ l \in 0..FrameLines - 1
             /\ DisplayLine(c, at) = IF l >= Lines(c) THEN -1 ELSE l
             /\ DisplayLine(c, at) \in Int
             /\ -1 <= DisplayLine(c, at) /\ DisplayLine(c, at) < TallLines
<1> DEFINE l == (at + Lines(c)) % FrameLines
<1>1. l \in 0..FrameLines - 1
  BY LinesAre, RemainderIn
<1>2. DisplayLine(c, at) = IF l >= Lines(c) THEN -1 ELSE l
  BY DEF DisplayLine
<1> HIDE DEF l
<1>3. l \in Nat /\ Lines(c) \in Nat /\ Lines(c) <= TallLines /\ TallLines \in Nat
  BY <1>1, LinesAre
<1> QED  BY <1>1, <1>2, <1>3 DEF l

(* A frame begins in the blanking, and the raster skips no line.           *)
LEMMA TopIsBlank == ASSUME NEW c PROVE DisplayLine(c, 0) = -1
<1>1. 0 + Lines(c) = Lines(c) /\ Lines(c) \in 0..FrameLines - 1
  BY LinesAre
<1>2. (0 + Lines(c)) % FrameLines = Lines(c)
  BY <1>1, LinesAre, SmallRemainder
<1> QED  BY <1>1, <1>2 DEF DisplayLine

LEMMA NoLineSkipped ==
  ASSUME NEW c, NEW at \in 0..FrameLines - 1
  PROVE  DisplayLine(c, (at + 1) % FrameLines) <= DisplayLine(c, at) + 1
<1> DEFINE n == Lines(c)
           l == (at + n) % FrameLines
           next == (at + 1) % FrameLines
<1> SUFFICES DisplayLine(c, next) <= DisplayLine(c, at) + 1
  OBVIOUS
<1>0. /\ n \in Nat \ {0} /\ n < FrameLines /\ FrameLines \in Nat \ {0} /\ at \in Nat
  BY LinesAre
<1>1. l \in 0..FrameLines - 1 /\ DisplayLine(c, at) = (IF l >= n THEN -1 ELSE l)
      /\ -1 <= DisplayLine(c, at) /\ DisplayLine(c, at) \in Int
  BY DisplayIs
<1>2. CASE at + 1 = FrameLines
  <2>1. next = 0
    <3>1. at % FrameLines = at
      BY <1>0, SmallRemainder
    <3> QED  BY <1>0, <1>2, <3>1, NextRemainder
  <2>2. DisplayLine(c, next) = -1
    BY <2>1, TopIsBlank
  <2> HIDE DEF next
  <2> QED  BY <1>1, <2>2
<1>3. CASE at + 1 # FrameLines
  <2>1. next = at + 1
    <3>1. at + 1 \in 0..FrameLines - 1
      BY <1>0, <1>3
    <3> QED  BY <1>0, <3>1, SmallRemainder
  <2> DEFINE k == ((at + 1) + n) % FrameLines
  <2>2. DisplayLine(c, at + 1) = IF k >= n THEN -1 ELSE k
    BY DEF DisplayLine
  <2>3. k = IF l + 1 = FrameLines THEN 0 ELSE l + 1
    <3>1. (at + 1) + n = (at + n) + 1 /\ at + n \in Nat
      BY <1>0
    <3> QED  BY <1>0, <3>1, NextRemainder
  <2> HIDE DEF l, k, n, next
  <2> QED  BY <1>0, <1>1, <2>1, <2>2, <2>3
<1> QED  BY <1>2, <1>3

-----------------------------------------------------------------------------
(* What a step does to the log and to what the lines were displayed with.  *)

Rasters == UNCHANGED <<raster, shown>>
LogStep ==
  \/ Rasters /\ Kin(chip, chip')
  \/ Rasters /\ \E e : Logging(chip, chip', e) /\ e.line = DisplayLine(chip, raster)
  \/ Tick \/ StartFrame

LineInv ==
  /\ Logs(chip) /\ LastHeld(chip)
  /\ raster \in 0..FrameLines - 1
  /\ DOMAIN shown = 0..TallLines - 1
  /\ ~ Wrapped(chip.log) =>
       \A y \in 0..TallLines - 1 :
         \/ Split(Replayed(chip, y)) \in shown[y]
         \/ DisplayLine(chip, raster) <= y /\ Split(Replayed(chip, y)) = Split(chip.reg)

LEMMA SameSplit ==
  ASSUME NEW p, NEW q, Same(p, q) PROVE Split(p) = Split(q)
BY SplitAssumption DEF Same, Split

LEMMA RecordedStep ==
  ASSUME LineInv, Chip(chip'), NEW r \in 0..63, NEW b \in Byte,
         Recorded(chip, r, b, raster, chip'), Rasters
  PROVE  LogStep
<1>1. CASE r \notin Logged
  BY <1>1 DEF Recorded, LogStep
<1>2. CASE r \in Logged
  <2> DEFINE e == Entered(chip, r, b, raster)
  <2>1. e.line = DisplayLine(chip, raster) /\ e.reg = r /\ e.old = chip.reg[r] /\ e.new = b
    BY DEF Entered
  <2>2. e \in Entry
    <3>1. DisplayLine(chip, raster) \in Int
      BY DisplayIs DEF LineInv
    <3>2. chip.reg[r] \in Byte
      BY DEF LineInv, Logs, Chip, Registers8
    <3> QED  BY <1>2, <3>1, <3>2 DEF Entered, Entry
  <2>3. chip'.log = Append(chip.log, e) /\ Set(chip, r, b, chip')
    BY <1>2 DEF Recorded
  <2> HIDE DEF e
  <2>4. Logging(chip, chip', e)
    BY <2>1, <2>2, <2>3 DEF Logging, Set, LineInv
  <2> QED  BY <2>1, <2>4 DEF LogStep
<1> QED  BY <1>1, <1>2

LEMMA LogEffect ==
  ASSUME ChipInv, ChipInv', LineInv, [Next]_vars PROVE LogStep
<1>0. /\ Chip(chip) /\ Chip(chip') /\ PortOf(Size(chip), port)
      /\ Whole(chip)
  BY DEF ChipInv, Chip, Drawable
<1>1. ASSUME NEW b \in CtrlBytes, WriteCtrl(b) PROVE LogStep
  <2> DEFINE r == b % 64
             first == port.first
  <2>1. r \in 0..63 /\ first \in Byte
    <3>1. b \in Nat
      BY InputsAssumption
    <3> QED  BY <1>0, <3>1 DEF PortOf
  <2>2. Rasters /\ (chip' = WriteReg(chip, r, first, raster) \/ chip' = chip)
    <3>1. raster' = raster /\ shown' = shown
      BY <1>1 DEF WriteCtrl, Elsewhere, Following
    <3>2. chip' = WriteReg(chip, r, first, raster) \/ chip' = chip
      BY <1>1 DEF WriteCtrl
    <3> QED  BY <3>1, <3>2 DEF Rasters
  <2> HIDE DEF r, first
  <2>3. CASE chip' = WriteReg(chip, r, first, raster)
    <3>1. Recorded(chip, r, first, raster, chip')
      BY <1>0, <2>1, <2>3, WriteRegRecords
    <3> QED  BY <1>0, <2>1, <2>2, <3>1, RecordedStep
  <2>4. CASE chip' = chip
    BY <2>2, <2>4, KinOf DEF LogStep
  <2> QED  BY <2>2, <2>3, <2>4
<1>2. ASSUME NEW b \in DataBytes, WritePort9B(b) PROVE LogStep
  <2> DEFINE r == chip.reg[17] % 64
  <2>1. b \in Byte
    BY InputsAssumption DEF Byte
  <2>2. Recorded(chip, r, b, raster, WriteIndirect(chip, b, raster)) /\ r \in 0..63
    BY <1>0, <2>1, IndirectRecords, IndirectTurned
  <2>3. chip' = WriteIndirect(chip, b, raster) /\ Rasters
    BY <1>2 DEF WritePort9B, Elsewhere, Following, Rasters
  <2> HIDE DEF r
  <2> QED  BY <1>0, <2>1, <2>2, <2>3, RecordedStep
<1>3. ASSUME NEW b \in Blocks, StartCommand(b) PROVE LogStep
  <2>1. /\ chip' = WriteReg(CommandWrites(b), 46, b.cmd, raster) /\ Rasters /\ ~ Busy(chip)
    BY <1>3 DEF StartCommand, Elsewhere, Following, Rasters
  <2> QED  BY <1>0, <2>1, CommandRecords DEF LogStep
<1>4. ASSUME NEW w \in RegWrites, WriteRegister(w[1], w[2]) PROVE LogStep
  <2> DEFINE r == w[1]
             b == w[2]
  <2>1. r \in 0..63 /\ b \in Byte
    <3>1. w \in (0..63) \X (0..255)
      BY InputsAssumption
    <3> QED  BY <3>1 DEF Byte
  <2>2. chip' = WriteReg(chip, r, b, raster) /\ Rasters
    BY <1>4 DEF WriteRegister, Elsewhere, Following, Rasters
  <2> HIDE DEF r, b
  <2> QED  BY <1>0, <2>1, <2>2, WriteRegRecords, RecordedStep
<1>5. ASSUME NEW b \in DataBytes, WriteData(b) PROVE LogStep
  <2>1. chip' = Poke(chip, port.at, b) /\ Rasters
    BY <1>5 DEF WriteData, Elsewhere, Rasters
  <2>2. chip'.log = chip.log /\ chip'.reg = chip.reg
    BY <1>0, <2>1 DEF Poke, Whole, Fields
  <2> QED  BY <2>1, <2>2, KinOf DEF LogStep
<1>6. ASSUME NEW b \in DataBytes, WritePalette(b) PROVE LogStep
  <2> DEFINE c == GoV9938(chip)
  <2>1. Rasters
    BY <1>6 DEF WritePalette, Rasters
  <2>2. Chip(c) /\ c.log = chip.log /\ c.reg = chip.reg
    BY <1>0, ShownIs DEF Fields
  <2>3. \/ chip' = [c EXCEPT !.palLatch = b, !.palHalf = TRUE]
        \/ \E n, i, t : chip' = [c EXCEPT !.palHalf = FALSE, !.reg[16] = n, !.pal[i] = t]
    <3> DEFINE n == (c.reg[16] + 1) % 16
               i == c.reg[16] % 16
               t == Eight((c.palLatch \div 16) % 8, b % 8, c.palLatch % 8)
    <3>1. \/ chip' = [c EXCEPT !.palLatch = b, !.palHalf = TRUE]
          \/ chip' = [c EXCEPT !.palHalf = FALSE, !.reg[16] = n, !.pal[i] = t]
      BY <1>6 DEF WritePalette
    <3> HIDE DEF n, i, t, c
    <3> QED  BY <3>1
  <2> HIDE DEF c
  <2>4. Kin(c, chip')
    <3>1. CASE chip' = [c EXCEPT !.palLatch = b, !.palHalf = TRUE]
      <4>1. chip'.log = c.log /\ chip'.reg = c.reg
        BY <2>2, <3>1 DEF Chip, Drawable, Whole, Fields
      <4> QED  BY <4>1, KinOf
    <3>2. CASE \E n, i, t : chip' = [c EXCEPT !.palHalf = FALSE, !.reg[16] = n, !.pal[i] = t]
      <4>1. PICK n, i, t : chip' = [c EXCEPT !.palHalf = FALSE, !.reg[16] = n, !.pal[i] = t]
        BY <3>2
      <4>2. chip'.log = c.log /\ chip'.reg = [c.reg EXCEPT ![16] = n]
        BY <2>2, <4>1 DEF Chip, Drawable, Whole, Fields
      <4>3. \A s \in Logged : s \in 0..63 /\ s # 16
        BY DEF Logged
      <4> QED  BY <2>2, <4>2, <4>3 DEF Chip, Registers8, Kin, Same
    <3> QED  BY <2>3, <3>1, <3>2
  <2>5. Kin(chip, chip')
    BY <2>2, <2>4, KinIs, KinOf
  <2> QED  BY <2>1, <2>5 DEF LogStep
<1>7. ASSUME ReadStatus PROVE LogStep
  <2>1. Rasters
    BY <1>7 DEF ReadStatus, Elsewhere, Rasters
  <2>2. \/ chip' = [chip EXCEPT !.vblank = FALSE] \/ chip' = [chip EXCEPT !.fh = FALSE]
        \/ chip' = [chip EXCEPT !.xfer = XferStep(chip.xfer)] \/ chip' = chip
    BY <1>7 DEF ReadStatus, XferRead
  <2>3. chip'.log = chip.log /\ chip'.reg = chip.reg
    BY <1>0, <2>2 DEF Whole, Fields
  <2> QED  BY <2>1, <2>3, KinOf DEF LogStep
<1>8. ASSUME ReadData \/ Interrupt \/ Return \/ UNCHANGED vars
             \/ \E a \in BiosAddrs, full, write \in BOOLEAN : BiosSetAddr(a, full, write)
      PROVE  LogStep
  <2>1. Rasters /\ chip' = chip
    BY <1>8 DEF ReadData, Interrupt, Return, vars, BiosSetAddr, Elsewhere, history, Rasters
  <2> QED  BY <2>1, KinOf DEF LogStep
<1>9. ASSUME Finish \/ StartLine PROVE LogStep
  <2>1. Rasters /\ (chip' = [chip EXCEPT !.working = FALSE] \/ chip' = [chip EXCEPT !.fh = TRUE])
    BY <1>9 DEF Finish, StartLine, history, Rasters
  <2>2. chip'.log = chip.log /\ chip'.reg = chip.reg
    BY <1>0, <2>1 DEF Whole, Fields
  <2> QED  BY <2>1, <2>2, KinOf DEF LogStep
<1>10. ASSUME Tick \/ StartFrame PROVE LogStep
  BY <1>10 DEF LogStep
<1>11. CASE Ports
  BY <1>1, <1>2, <1>5, <1>6, <1>7, <1>8, <1>11 DEF Ports
<1>12. CASE Commands \/ Registers \/ Frames \/ Interrupts \/ UNCHANGED vars
  BY <1>3, <1>4, <1>7, <1>8, <1>9, <1>10, <1>12 DEF Commands, Registers, Frames, Interrupts
<1> QED  BY <1>11, <1>12 DEF Next

(* Where the raster is on display does not change with the height.         *)
LEMMA SameDisplay ==
  ASSUME [HeightInBlanking]_vars PROVE DisplayLine(chip', raster) = DisplayLine(chip, raster)
<1>1. CASE Lines(chip') = Lines(chip)
  BY <1>1 DEF DisplayLine
<1>2. CASE Lines(chip') # Lines(chip)
  <2>1. chip' # chip
    BY <1>2
  <2>2. HeightInBlanking
    BY <2>1 DEF vars
  <2> QED  BY <1>2, <2>2 DEF HeightInBlanking
<1> QED  BY <1>1, <1>2

LEMMA LineKept ==
  ASSUME ChipInv, ChipInv', LineInv, [Next]_vars, [HeightInBlanking]_vars
  PROVE  LineInv'
<1>0. /\ Logs(chip) /\ LastHeld(chip) /\ raster \in 0..FrameLines - 1
      /\ DOMAIN shown = 0..TallLines - 1 /\ Chip(chip')
      /\ FrameLines \in Nat \ {0} /\ TallLines \in Nat
  BY LinesAre DEF LineInv, ChipInv
<1> DEFINE at == DisplayLine(chip, raster)
           Good(y) == \/ Split(Replayed(chip, y)) \in shown[y]
                      \/ at <= y /\ Split(Replayed(chip, y)) = Split(chip.reg)
<1>1. ~ Wrapped(chip.log) => \A y \in 0..TallLines - 1 : Good(y)
  BY DEF LineInv
<1>2. at \in Int /\ -1 <= at /\ at < TallLines
  BY <1>0, DisplayIs
<1>3. CASE Rasters /\ Kin(chip, chip')
  <2>1. /\ chip'.log = chip.log /\ Same(chip'.reg, chip.reg)
        /\ raster' = raster /\ shown' = shown
    BY <1>3 DEF Rasters, Kin
  <2>2. Logs(chip') /\ LastHeld(chip')
    <3>1. Logs(chip')
      BY <1>0, <2>1 DEF Logs
    <3>2. \A i \in 1..Len(chip.log) : chip.log[i].reg \in Logged
      BY <1>0, EntryIs
    <3>3. \A i \in 1..Len(chip.log) : chip'.reg[chip.log[i].reg] = chip.reg[chip.log[i].reg]
      BY <2>1, <3>2 DEF Same
    <3> QED  BY <1>0, <2>1, <3>1, <3>3 DEF LastHeld
  <2>3. ASSUME ~ Wrapped(chip'.log), NEW y \in 0..TallLines - 1
        PROVE  \/ Split(Replayed(chip', y)) \in shown'[y]
               \/ /\ DisplayLine(chip', raster') <= y
                  /\ Split(Replayed(chip', y)) = Split(chip'.reg)
    <3>1. Split(Replayed(chip', y)) = Split(Replayed(chip, y))
      BY <1>0, <2>1, StillReplayed, SameSplit
    <3>2. Split(chip'.reg) = Split(chip.reg)
      BY <2>1, SameSplit
    <3>3. DisplayLine(chip', raster') = at
      BY <2>1, SameDisplay
    <3>4. Good(y)
      BY <1>1, <2>1, <2>3
    <3> QED  BY <2>1, <3>1, <3>2, <3>3, <3>4
  <2> QED  BY <1>0, <2>1, <2>2, <2>3 DEF LineInv
<1>4. ASSUME NEW e, Logging(chip, chip', e), e.line = at, Rasters PROVE LineInv'
  <2>1. raster' = raster /\ shown' = shown
    BY <1>4 DEF Rasters
  <2>2. Logs(chip') /\ LastHeld(chip')
    BY <1>0, <1>4, LoggingIs, LoggedHeld
  <2>3. ASSUME ~ Wrapped(chip'.log), NEW y \in 0..TallLines - 1
        PROVE  \/ Split(Replayed(chip', y)) \in shown'[y]
               \/ /\ DisplayLine(chip', raster') <= y
                  /\ Split(Replayed(chip', y)) = Split(chip'.reg)
    <3>1. ~ Wrapped(chip.log) /\ \A i \in 1..Len(chip'.log) : chip'.log[i].line <= at
      BY <1>4, <2>3, EndsGreatest
    <3>2. DisplayLine(chip', raster') = at
      BY <2>1, SameDisplay
    <3>3. y \in Nat
      BY <1>0
    <3>4. CASE y < at
      <4>1. Same(Replayed(chip', y), Replayed(chip, y))
        BY <1>4, <3>3, <3>4, WrittenBelow
      <4>2. Split(Replayed(chip', y)) = Split(Replayed(chip, y))
        BY <4>1, SameSplit
      <4>3. Split(Replayed(chip, y)) \in shown[y]
        BY <1>1, <1>2, <3>1, <3>3, <3>4
      <4> QED  BY <2>1, <4>2, <4>3
    <3>5. CASE at <= y
      <4>1. \A i \in 1..Len(chip'.log) : chip'.log[i].line <= y
        <5> SUFFICES ASSUME NEW i \in 1..Len(chip'.log) PROVE chip'.log[i].line <= y
          OBVIOUS
        <5>1. chip'.log[i].line \in Int /\ chip'.log[i].line <= at
          BY <2>2, <3>1, EntryIs
        <5> HIDE DEF at
        <5> QED  BY <1>2, <3>3, <3>5, <5>1
      <4>2. Same(Replayed(chip', y), chip'.reg)
        BY <2>2, <4>1, AllLanded
      <4>3. Split(Replayed(chip', y)) = Split(chip'.reg)
        BY <4>2, SameSplit
      <4> QED  BY <3>2, <3>5, <4>3
    <3> HIDE DEF at
    <3> QED  BY <1>2, <3>3, <3>4, <3>5
  <2> QED  BY <1>0, <2>1, <2>2, <2>3 DEF LineInv
<1>5. CASE Tick
  <2>1. /\ chip' = chip /\ raster' = (raster + 1) % FrameLines
        /\ shown' = IF at = -1 THEN shown
                    ELSE [shown EXCEPT ![at] = @ \cup {Split(chip.reg)}]
    BY <1>5 DEF Tick
  <2>2. raster' \in 0..FrameLines - 1
    BY <1>0, <2>1, RemainderIn
  <2>3. DisplayLine(chip, raster') <= at + 1 /\ DisplayLine(chip, raster') \in Int
    BY <1>0, <2>1, <2>2, NoLineSkipped, DisplayIs
  <2>4. /\ DOMAIN shown' = 0..TallLines - 1
        /\ \A y \in 0..TallLines - 1 : shown[y] \subseteq shown'[y]
        /\ at # -1 => Split(chip.reg) \in shown'[at]
    <3> HIDE DEF at
    <3> QED  BY <1>0, <1>2, <2>1
  <2>5. ASSUME ~ Wrapped(chip'.log), NEW y \in 0..TallLines - 1
        PROVE  \/ Split(Replayed(chip', y)) \in shown'[y]
               \/ /\ DisplayLine(chip', raster') <= y
                  /\ Split(Replayed(chip', y)) = Split(chip'.reg)
    <3>1. Good(y)
      BY <1>1, <2>1, <2>5
    <3>2. y \in Nat
      BY <1>0
    <3>3. CASE Split(Replayed(chip, y)) \in shown[y]
      BY <2>1, <2>4, <3>3
    <3>4. CASE at = y /\ Split(Replayed(chip, y)) = Split(chip.reg)
      BY <2>1, <2>4, <3>2, <3>4
    <3>5. CASE at < y /\ Split(Replayed(chip, y)) = Split(chip.reg)
      <4>1. DisplayLine(chip, raster') <= y
        <5> HIDE DEF at
        <5> QED  BY <1>2, <2>3, <3>2, <3>5
      <4> QED  BY <2>1, <3>5, <4>1
    <3>6. at <= y => at = y \/ at < y
      <4> HIDE DEF at
      <4> QED  BY <1>2, <3>2
    <3> QED  BY <3>1, <3>3, <3>4, <3>5, <3>6
  <2> QED  BY <1>0, <2>1, <2>2, <2>4, <2>5 DEF LineInv
<1>6. CASE StartFrame
  <2>1. /\ chip'.log = << >> /\ raster' = 0
        /\ shown' = [y \in 0..TallLines - 1 |-> {}]
    BY <1>0, <1>6 DEF StartFrame, Logs, Chip, Drawable, Whole, Fields
  <2>2. Logs(chip') /\ Len(chip'.log) = 0 /\ LastHeld(chip')
    BY <1>0, <2>1 DEF Logs, LastHeld
  <2>3. DisplayLine(chip', raster') = -1
    BY <2>1, TopIsBlank
  <2>4. ASSUME NEW y \in 0..TallLines - 1
        PROVE  /\ DisplayLine(chip', raster') <= y
               /\ Split(Replayed(chip', y)) = Split(chip'.reg)
    <3>1. Same(Replayed(chip', y), chip'.reg)
      BY <2>2, AllLanded
    <3> QED  BY <1>0, <2>3, <3>1, SameSplit
  <2>5. raster' \in 0..FrameLines - 1
    BY <1>0, <2>1
  <2> QED  BY <2>1, <2>2, <2>4, <2>5 DEF LineInv
<1>7. LogStep
  BY LogEffect
<1> QED  BY <1>3, <1>4, <1>5, <1>6, <1>7 DEF LogStep

LEMMA LineStarted == Init => LineInv
<1> SUFFICES ASSUME Init PROVE LineInv
  OBVIOUS
<1>1. chip.log = << >> /\ raster = 0 /\ shown = [y \in 0..TallLines - 1 |-> {}]
  BY DEF Init, FreshChip
<1>2. Chip(chip)
  BY Started DEF ChipInv
<1>3. Logs(chip) /\ Len(chip.log) = 0 /\ LastHeld(chip)
  BY <1>1, <1>2 DEF Logs, LastHeld
<1>4. DisplayLine(chip, raster) = -1
  BY <1>1, TopIsBlank
<1>5. ASSUME NEW y \in 0..TallLines - 1
      PROVE  DisplayLine(chip, raster) <= y /\ Split(Replayed(chip, y)) = Split(chip.reg)
  <2>1. Same(Replayed(chip, y), chip.reg)
    BY <1>3, AllLanded
  <2> QED  BY <1>4, <2>1, LinesAre, SameSplit
<1>6. raster \in 0..FrameLines - 1
  BY <1>1, LinesAre
<1> QED  BY <1>1, <1>3, <1>5, <1>6 DEF LineInv

(* The picture replayed from a frame's log shows every line as the raster  *)
(* displayed it in one of its passes, or as it is about to, for any writes *)
(* of any registers on any lines, by a program that changes the height of  *)
(* the picture, if at all, in the blanking; vdp.go's regLog and scanlines. *)
THEOREM LinesStayHonest ==
  Spec /\ [][HeightInBlanking]_vars => []LinesAreHonest
<1> DEFINE Inv == ChipInv /\ LineInv
<1>1. Init => Inv
  BY Started, LineStarted
<1>2. Inv /\ [Next]_vars /\ [HeightInBlanking]_vars => Inv'
  BY ChipKept, LineKept
<1>3. Inv => LinesAreHonest
  <2> SUFFICES ASSUME LineInv, ~ Wrapped(chip.log), NEW y \in 0..Lines(chip) - 1
               PROVE  \/ Split(Drawn(chip, y)) \in shown[y]
                      \/ /\ DisplayLine(chip, raster) <= y
                         /\ Split(Drawn(chip, y)) = Split(chip.reg)
    BY DEF LinesAreHonest
  <2>1. y \in 0..TallLines - 1
    BY LinesAre
  <2>2. Drawn(chip, y) = Replayed(chip, y)
    BY DEF Drawn
  <2> QED  BY <2>1, <2>2 DEF LineInv
<1> HIDE DEF Inv
<1> QED  BY <1>1, <1>2, <1>3, PTL DEF Spec
=============================================================================
