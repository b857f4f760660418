------------------------------ MODULE WideMath ------------------------------
(***************************************************************************)
(* mul_div_floor and mul_div_ceil of the library (src/lib.rs): a product   *)
(* of two words taken in two words, and its division by a third, one bit   *)
(* at a time.  Words have Width bits; a shift or a wrapping difference     *)
(* drops what does not fit.                                                *)
(***************************************************************************)
EXTENDS Integers

CONSTANTS
  Width,  \* bits of a word: 128 in the code, even
  Two     \* Two[n] = 2^n, for n up to Width

ASSUME WidthAssumption ==
  /\ Width \in Nat \ {0} /\ Width % 2 = 0
  /\ Two \in [0..Width -> Nat \ {0}]
  /\ Two[0] = 1
  /\ \A n \in 0..Width-1 : Two[n + 1] = 2 * Two[n]
  /\ Two[Width] = Two[Width \div 2] * Two[Width \div 2]

VARIABLES
  a, b, d,   \* the arguments
  hi, lo,    \* the product, as two words
  rem, quo,  \* the remainder and the quotient so far
  i          \* the bits of lo that were not brought down yet

vars == <<a, b, d, hi, lo, rem, quo, i>>

Modulus == Two[Width]
Word    == 0..Modulus-1

Half    == Two[Width \div 2]
Low(x)  == x % Half
High(x) == x \div Half

----------------------------------------------------------------------------
(* The product, schoolbook over half words. *)

Middle_NoCarry(x, y) == Low(High(x) * Low(y)) + Low(Low(x) * High(y))   \* mutant: carry lost

Middle_Whole(x, y) ==                             \* mutant: halves not cut
  High(Low(x) * Low(y)) + High(x) * Low(y) + Low(x) * High(y)

Middle(x, y) ==
  High(Low(x) * Low(y)) + Low(High(x) * Low(y)) + Low(Low(x) * High(y))

\* A sum that leaves the word is a panic here: overflow checks are on.
ProductHigh(x, y) ==
  High(x) * High(y) + High(High(x) * Low(y)) + High(Low(x) * High(y))
    + High(Middle(x, y))

\* The two halves do not overlap: the bitwise or is a sum.
ProductLow(x, y) == ((Middle(x, y) * Half) % Modulus) + Low(Low(x) * Low(y))

----------------------------------------------------------------------------
(* The division. *)

Refused == d = 0 \/ hi >= d

Init ==
  /\ a \in Word /\ b \in Word /\ d \in Word
  /\ hi = ProductHigh(a, b) /\ lo = ProductLow(a, b)
  /\ rem = hi /\ quo = 0 /\ i = Width

\* Bit n of x.
Bit(x, n) == (x \div Two[n]) % 2

\* rem << 1 | bit, without the bit that leaves the word.
Shifted(r, bit) == ((2 * r) % Modulus) + bit

Fits_Strictly(r, bit) ==                          \* mutant: off by one
  r \div Two[Width - 1] = 1 \/ Shifted(r, bit) > d

Fits_NoTopBit(r, bit) == Shifted(r, bit) >= d     \* mutant: top bit dropped

\* Whether the divisor fits: the bit that leaves the word is read first.
Fits(r, bit) == r \div Two[Width - 1] = 1 \/ Shifted(r, bit) >= d

\* One round of wide_div.
Round ==
  /\ ~Refused /\ i > 0
  /\ i' = i - 1
  /\ LET bit == Bit(lo, i - 1) IN
       IF Fits(rem, bit)
         THEN /\ rem' = (Shifted(rem, bit) - d) % Modulus
              /\ quo' = ((2 * quo) % Modulus) + 1
         ELSE /\ rem' = Shifted(rem, bit)
              /\ quo' = (2 * quo) % Modulus
  /\ UNCHANGED <<a, b, d, hi, lo>>

Next == Round

Spec == Init /\ [][Next]_vars

Done == ~Refused /\ i = 0

\* mul_div_ceil adds one to a quotient with a remainder, if that still fits.
CeilRefused == rem # 0 /\ quo = Modulus - 1

Ceil == IF rem = 0 THEN quo ELSE quo + 1

----------------------------------------------------------------------------
(* Correctness. *)

\* What is left and what was found are words; that hi is one also says that no
\* checked sum of the product overflows.
TypeOK ==
  /\ hi \in Word /\ lo \in Word
  /\ rem \in Word /\ quo \in Word /\ i \in 0..Width

\* The half-word product loses no carry.
ProductExact == hi * Modulus + lo = a * b

\* After every round the quotient so far and the remainder account for all the
\* bits brought down: no bit leaves the word unread, for divisors of any size.
RoundsExact ==
  ~Refused =>
    /\ rem < d
    /\ (quo * d + rem) * Two[i] + (lo % Two[i]) = a * b

\* What mul_div_floor and mul_div_ceil return are the exact quotients, and they
\* refuse exactly the quotients that do not fit a word.
QuotientsExact ==
  /\ Done => quo = (a * b) \div d /\ rem = (a * b) % d
  /\ Done /\ ~CeilRefused => Ceil = (a * b + d - 1) \div d
  /\ Done => (CeilRefused <=> (a * b + d - 1) \div d >= Modulus)
  /\ d # 0 => (Refused <=> (a * b) \div d >= Modulus)
=============================================================================
