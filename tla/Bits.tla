-------------------------------- MODULE Bits --------------------------------
(* Bytes as their bits, and a step done n times.                           *)
EXTENDS Integers

BitOf(b, i) == (b \div 2 ^ i) % 2
Bit(b, i) == BitOf(b, i) = 1
Joined(f) == f[0] + 2 * f[1] + 4 * f[2] + 8 * f[3]
               + 16 * f[4] + 32 * f[5] + 64 * f[6] + 128 * f[7]
BitAnd(a, b) == Joined([i \in 0..7 |-> BitOf(a, i) * BitOf(b, i)])
BitOr(a, b) == a + b - BitAnd(a, b)
BitXor(a, b) == a + b - 2 * BitAnd(a, b)

(* n steps, the k-th given k - 1, from what start is. *)
Repeat(start, n, Do(_, _)) ==
  LET after[k \in 0..n] ==
        IF k = 0 THEN start
        ELSE CHOOSE next \in {Do(before, k - 1) : before \in {after[k - 1]}} : TRUE
  IN after[n]
=============================================================================
