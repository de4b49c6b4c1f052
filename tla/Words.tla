------------------------------- MODULE Words -------------------------------
(***************************************************************************)
(* Machine words as naturals: what Rust's unsigned operators and casts do  *)
(* to a word of w bits.                                                    *)
(***************************************************************************)
EXTENDS Integers

WordsOf(w) == 0 .. (2^w - 1)
Wrapped(x, w) == x % 2^w                          \* wrapping arithmetic, `as uN`
Bit(x, n) == (x \div 2^n) % 2 = 1                 \* (x >> n) & 1 != 0
Field(x, n, w) == (x \div 2^n) % 2^w              \* (x >> n) & (2^w - 1)
Signed(x, w) == IF Bit(x, w - 1) THEN x - 2^w ELSE x          \* `as iN`
Not(x, w) == 2^w - 1 - x

\* Op on the bits of two words.
ByBits(Op(_, _), a, b, w) ==
  LET from[n \in 0..w] == IF n = w THEN 0
                          ELSE (IF Op(Bit(a, n), Bit(b, n)) THEN 1 ELSE 0) + 2 * from[n + 1]
  IN  from[0]
And(a, b, w) == ByBits(LAMBDA p, q : p /\ q, a, b, w)
Or(a, b, w)  == ByBits(LAMBDA p, q : p \/ q, a, b, w)
Xor(a, b, w) == ByBits(LAMBDA p, q : p # q, a, b, w)

RotatedRight(x, n, w) == x \div 2^(n % w) + Wrapped(x * 2^(w - (n % w)), w)
=============================================================================
