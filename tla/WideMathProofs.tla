--------------------------- MODULE WideMathProofs ---------------------------
(***************************************************************************)
(* The wide product and its division are exact, for every width of the     *)
(* word, every two factors and every divisor.                              *)
(***************************************************************************)
EXTENDS WideMath, TLAPS

----------------------------------------------------------------------------
(* Quotients and remainders. *)

(* A number is its quotient times the divisor, and a remainder. *)
LEMMA DivMod ==
  ASSUME NEW n \in Nat, NEW k \in Nat \ {0}
  PROVE  /\ n \div k \in Nat
         /\ n % k \in 0..k-1
         /\ n = k * (n \div k) + (n % k)
  OBVIOUS

(* There is only one such quotient and one such remainder. *)
LEMMA DivModUnique ==
  ASSUME NEW n \in Nat, NEW k \in Nat \ {0}, NEW q \in Nat, NEW r \in 0..k-1,
         n = k * q + r
  PROVE  n \div k = q /\ n % k = r
  <1> DEFINE p == n \div k
             s == n % k
  <1>1. p \in Nat /\ s \in 0..k-1 /\ n = k * p + s
    BY DivMod
  <1> HIDE DEF p, s
  <1>2. ASSUME p < q PROVE FALSE
    <2>1. k * q >= k * (p + 1)
      BY <1>1, <1>2
    <2>2. k * (p + 1) = k * p + k
      BY <1>1
    <2>3. k * p \in Nat /\ k * q \in Nat
      BY <1>1
    <2>4. QED
      BY <1>1, <2>1, <2>2, <2>3
  <1>3. ASSUME q < p PROVE FALSE
    <2>1. k * p >= k * (q + 1)
      BY <1>1, <1>3
    <2>2. k * (q + 1) = k * q + k
      OBVIOUS
    <2>3. k * p \in Nat /\ k * q \in Nat
      BY <1>1
    <2>4. QED
      BY <1>1, <2>1, <2>2, <2>3
  <1>4. p = q
    BY <1>1, <1>2, <1>3
  <1>5. s = r
    <2>1. k * q \in Nat
      OBVIOUS
    <2>2. QED
      BY <1>1, <1>4, <2>1
  <1>6. QED
    BY <1>4, <1>5 DEF p, s

(* The sizes of the words and of their halves. *)
LEMMA Sizes ==
  /\ Half \in Nat \ {0} /\ Modulus \in Nat \ {0} /\ Modulus = Half * Half
  /\ Width \in Nat \ {0} /\ Two[0] = 1
  /\ \A n \in 0..Width : Two[n] \in Nat \ {0}
  /\ \A n \in 1..Width : Two[n] = 2 * Two[n - 1]
  /\ Modulus = 2 * Two[Width - 1]
  <1>1. Width \div 2 \in 0..Width
    BY WidthAssumption
  <1>2. \A n \in 0..Width : Two[n] \in Nat \ {0}
    BY WidthAssumption
  <1>3. \A n \in 1..Width : Two[n] = 2 * Two[n - 1]
    <2> TAKE n \in 1..Width
    <2>1. n - 1 \in 0..Width-1 /\ (n - 1) + 1 = n
      BY WidthAssumption
    <2> QED
      BY <2>1, WidthAssumption
  <1>4. QED
    BY <1>1, <1>2, <1>3, WidthAssumption DEF Half, Modulus

----------------------------------------------------------------------------
(* The product. *)

(* A word is its two halves. *)
LEMMA Halves ==
  ASSUME NEW x \in Word
  PROVE  /\ High(x) \in 0..Half-1 /\ Low(x) \in 0..Half-1
         /\ x = Half * High(x) + Low(x)
  <1>1. x \in Nat /\ x < Half * Half
    BY Sizes DEF Word
  <1>2. High(x) \in Nat /\ Low(x) \in 0..Half-1 /\ x = Half * High(x) + Low(x)
    BY <1>1, Sizes, DivMod DEF High, Low
  <1>3. ASSUME High(x) >= Half PROVE FALSE
    <2>1. Half * High(x) >= Half * Half
      BY <1>2, <1>3, Sizes
    <2> QED
      BY <1>1, <1>2, <2>1, Sizes
  <1>4. QED
    BY <1>2, <1>3, Sizes

(* Half-word products are words, and split into halves as words do. *)
LEMMA HalfProduct ==
  ASSUME NEW p \in 0..Half-1, NEW q \in 0..Half-1
  PROVE  /\ p * q \in Nat /\ High(p * q) \in Nat /\ Low(p * q) \in 0..Half-1
         /\ p * q = Half * High(p * q) + Low(p * q)
  <1>1. p * q \in Nat
    BY Sizes
  <1>2. QED
    BY <1>1, Sizes, DivMod DEF High, Low

(* The two words of the product stand for it: no carry is lost. *)
LEMMA Schoolbook ==
  ASSUME NEW x \in Word, NEW y \in Word
  PROVE  /\ ProductHigh(x, y) \in Word /\ ProductLow(x, y) \in Word
         /\ ProductHigh(x, y) * Modulus + ProductLow(x, y) = x * y
  <1> DEFINE h  == Half
             xh == High(x)  xl == Low(x)
             yh == High(y)  yl == Low(y)
             hh == xh * yh  hl == xh * yl
             lh == xl * yh  ll == xl * yl
             mid == Middle(x, y)
             up  == High(hl) + High(lh) + High(mid)
             low == Low(mid) * h + Low(ll)
  <1>1. /\ h \in Nat \ {0} /\ Modulus \in Nat \ {0} /\ Modulus = h * h
        /\ x \in Nat /\ y \in Nat
    BY Sizes DEF Word
  <1>2. /\ xh \in 0..h-1 /\ xl \in 0..h-1 /\ x = h * xh + xl
        /\ yh \in 0..h-1 /\ yl \in 0..h-1 /\ y = h * yh + yl
    BY Halves
  <1>3. /\ hh \in Nat
        /\ hl \in Nat /\ High(hl) \in Nat /\ Low(hl) \in 0..h-1 /\ hl = h * High(hl) + Low(hl)
        /\ lh \in Nat /\ High(lh) \in Nat /\ Low(lh) \in 0..h-1 /\ lh = h * High(lh) + Low(lh)
        /\ ll \in Nat /\ High(ll) \in Nat /\ Low(ll) \in 0..h-1 /\ ll = h * High(ll) + Low(ll)
    BY <1>2, HalfProduct
  <1>4. mid \in Nat /\ mid = High(ll) + Low(hl) + Low(lh)
    BY <1>1, <1>3 DEF Middle
  <1>5. High(mid) \in Nat /\ Low(mid) \in 0..h-1 /\ mid = h * High(mid) + Low(mid)
    <2> HIDE DEF mid
    <2> QED
      BY <1>1, <1>4, DivMod DEF High, Low
  <1> HIDE DEF h, xh, xl, yh, yl, mid
  <1>6. Low(mid) * h \in 0..Modulus-h
    <2>1. Low(mid) * h <= (h - 1) * h /\ Low(mid) * h \in Nat
      BY <1>1, <1>5
    <2>2. (h - 1) * h = h * h - h
      BY <1>1
    <2> QED
      BY <1>1, <2>1, <2>2
  <1>7. (mid * h) % Modulus = Low(mid) * h
    <2>1. mid * h = Modulus * High(mid) + Low(mid) * h
      BY <1>1, <1>5
    <2>2. mid * h \in Nat
      BY <1>1, <1>4
    <2>3. Low(mid) * h \in 0..Modulus-1
      BY <1>1, <1>6
    <2>4. High(mid) \in Nat /\ Modulus \in Nat \ {0}
      BY <1>1, <1>5
    <2> QED
      BY <2>1, <2>2, <2>3, <2>4, DivModUnique
  <1>8. ProductLow(x, y) = low /\ low \in Word
    <2>1. ProductLow(x, y) = low
      BY <1>7 DEF ProductLow, h, mid, xl, yl
    <2> QED
      BY <1>1, <1>3, <1>6, <2>1 DEF Word
  <1>9. ProductHigh(x, y) = hh + up /\ up \in Nat
    <2>1. ProductHigh(x, y) = hh + High(hl) + High(lh) + High(mid)
      BY DEF ProductHigh, mid, xh, yh, xl, yl
    <2> QED
      BY <1>3, <1>5, <2>1
  <1>10. (hh + up) * Modulus + low = x * y
    <2>1. h * up + Low(mid) = hl + lh + High(ll)
      <3>1. h * up = h * High(hl) + h * High(lh) + h * High(mid)
        BY <1>1, <1>3, <1>5
      <3> DEFINE A == h * High(hl)
                 B == h * High(lh)
                 C == h * High(mid)
                 D == h * up
      <3>2. A \in Nat /\ B \in Nat /\ C \in Nat /\ D = A + B + C
        BY <1>1, <1>3, <1>5, <3>1
      <3>3. hl = A + Low(hl) /\ lh = B + Low(lh) /\ mid = C + Low(mid)
        BY <1>3, <1>5
      <3>4. Low(hl) \in Nat /\ Low(lh) \in Nat /\ Low(mid) \in Nat /\ High(ll) \in Nat
        BY <1>1, <1>3, <1>5
      <3> HIDE DEF hl, lh, ll, up, A, B, C, D
      <3>5. D + Low(mid) = hl + lh + High(ll)
        BY <1>4, <3>2, <3>3, <3>4
      <3> QED
        BY <3>5 DEF D
    <2>2. up * Modulus + low = h * (h * up + Low(mid)) + Low(ll)
      BY <1>1, <1>3, <1>5, <1>9
    <2>3. h * (hl + lh + High(ll)) = h * hl + h * lh + h * High(ll)
      BY <1>1, <1>3
    <2>4. up * Modulus + low = h * hl + h * lh + ll
      BY <1>1, <1>3, <2>1, <2>2, <2>3
    <2>5. x * y = hh * (h * h) + h * hl + h * lh + ll
      BY <1>1, <1>2
    <2>6. (hh + up) * Modulus = hh * Modulus + up * Modulus
      BY <1>1, <1>3, <1>9
    <2>7. hh * (h * h) = hh * Modulus
      BY <1>1
    <2>8. /\ hh * Modulus \in Nat /\ up * Modulus \in Nat /\ low \in Nat
          /\ h * hl \in Nat /\ h * lh \in Nat /\ ll \in Nat
      BY <1>1, <1>3, <1>8, <1>9 DEF Word
    <2> HIDE DEF hh, hl, lh, ll, up, low
    <2> QED
      BY <2>4, <2>5, <2>6, <2>7, <2>8
  <1>11. hh + up \in Word
    <2>1. ASSUME hh + up >= Modulus PROVE FALSE
      <3>1. (hh + up) * Modulus >= Modulus * Modulus
        BY <1>1, <1>3, <1>9, <2>1
      <3>2. x * y < Modulus * Modulus
        <4>1. x <= Modulus - 1 /\ y <= Modulus - 1
          BY <1>1 DEF Word
        <4>2. x * y <= Modulus * y /\ Modulus * y < Modulus * Modulus
          BY <1>1, <4>1
        <4> QED
          BY <1>1, <4>2
      <3>3. /\ (hh + up) * Modulus \in Nat /\ low \in Nat
            /\ x * y \in Nat /\ Modulus * Modulus \in Nat
        BY <1>1, <1>3, <1>8, <1>9 DEF Word
      <3> HIDE DEF hh, up, low
      <3> QED
        BY <1>10, <3>1, <3>2, <3>3
    <2> QED
      BY <1>1, <1>3, <1>9, <2>1 DEF Word
  <1>12. QED
    BY <1>8, <1>9, <1>10, <1>11

----------------------------------------------------------------------------
(* The division. *)

(* Bringing down the next bit of a word. *)
LEMMA NextBit ==
  ASSUME NEW x \in Nat, NEW n \in 1..Width
  PROVE  /\ Bit(x, n - 1) \in 0..1
         /\ x % Two[n] = Bit(x, n - 1) * Two[n - 1] + (x % Two[n - 1])
  <1> DEFINE k == Two[n - 1]
             q == x \div k
  <1>1. k \in Nat \ {0} /\ Two[n] = 2 * k
    BY Sizes
  <1>2. q \in Nat /\ x % k \in 0..k-1 /\ x = k * q + (x % k)
    BY <1>1, DivMod
  <1>3. q \div 2 \in Nat /\ q % 2 \in 0..1 /\ q = 2 * (q \div 2) + (q % 2)
    <2> HIDE DEF q
    <2> QED
      BY <1>2
  <1>4. Bit(x, n - 1) = q % 2
    BY DEF Bit
  <1> DEFINE r == (q % 2) * k + (x % k)
  <1>5. r \in 0..2*k-1
    <2>1. (q % 2) * k = 0 \/ (q % 2) * k = k
      <3> HIDE DEF q, k
      <3> QED
        BY <1>1, <1>3
    <2> HIDE DEF q, k
    <2> QED
      BY <1>1, <1>2, <2>1
  <1>6. x = (2 * k) * (q \div 2) + r
    <2>1. k * q = k * (2 * (q \div 2)) + k * (q % 2)
      BY <1>1, <1>3
    <2> HIDE DEF q
    <2> QED
      BY <1>1, <1>2, <1>3, <2>1
  <1>7. x % (2 * k) = r
    <2>1. 2 * k \in Nat \ {0}
      BY <1>1
    <2> HIDE DEF r, q, k
    <2> QED
      BY <1>3, <1>5, <1>6, <2>1, DivModUnique
  <1>8. QED
    BY <1>1, <1>3, <1>4, <1>7

(* Whether the divisor fits is decided rightly although the top bit is lost, and
   the wrapping difference is the true one. *)
LEMMA Subtraction ==
  ASSUME d \in Word, NEW r \in Nat, r < d, NEW bit \in 0..1
  PROVE  /\ Fits(r, bit) <=> 2 * r + bit >= d
         /\ Fits(r, bit) => (Shifted(r, bit) - d) % Modulus = 2 * r + bit - d
         /\ ~Fits(r, bit) => Shifted(r, bit) = 2 * r + bit
  <1> DEFINE T == Two[Width - 1]
             M == Modulus
  <1>1. T \in Nat \ {0} /\ M = 2 * T /\ d \in Nat /\ d < M
    <2>1. Width - 1 \in 0..Width
      BY Sizes
    <2> QED
      BY <2>1, Sizes DEF Word
  <1> HIDE DEF T, M
  <1>2. CASE r < T
    <2>1. r \div T = 0
      BY <1>1, <1>2, DivModUnique, r = T * 0 + r
    <2>2. (2 * r) % M = 2 * r
      BY <1>1, <1>2
    <2>3. Shifted(r, bit) = 2 * r + bit
      BY <2>2 DEF Shifted, M
    <2>4. Fits(r, bit) <=> 2 * r + bit >= d
      BY <2>1, <2>3 DEF Fits, T
    <2>5. 2 * r + bit >= d => (2 * r + bit - d) % M = 2 * r + bit - d
      BY <1>1, <1>2
    <2>6. Shifted(r, bit) - d = 2 * r + bit - d
      BY <1>1, <2>3
    <2>7. 2 * r + bit >= d => (Shifted(r, bit) - d) % M = 2 * r + bit - d
      <3> DEFINE z == Shifted(r, bit) - d
                 w == 2 * r + bit - d
      <3>1. z = w /\ (2 * r + bit >= d => w % M = w)
        BY <2>5, <2>6
      <3> HIDE DEF z, w
      <3>2. 2 * r + bit >= d => z % M = w
        BY <3>1
      <3> QED
        BY <3>2 DEF z, w
    <2> QED
      BY <2>3, <2>4, <2>7 DEF M
  <1>3. CASE r >= T
    <2>1. r \div T = 1
      BY <1>1, <1>3, DivModUnique, r = T * 1 + (r - T)
    <2>2. (2 * r) % M = 2 * r - M
      BY <1>1, <1>3
    <2>3. Shifted(r, bit) = 2 * r - M + bit
      BY <2>2 DEF Shifted, M
    <2>4. Fits(r, bit) /\ 2 * r + bit >= d
      BY <1>1, <1>3, <2>1 DEF Fits, T
    <2>5. (2 * r - M + bit - d) % M = 2 * r + bit - d
      BY <1>1, <1>3
    <2>6. Shifted(r, bit) - d = 2 * r - M + bit - d
      BY <1>1, <2>3
    <2>7. (Shifted(r, bit) - d) % M = 2 * r + bit - d
      <3> DEFINE z == Shifted(r, bit) - d
                 w == 2 * r - M + bit - d
      <3>1. z = w /\ w % M = 2 * r + bit - d
        BY <2>5, <2>6
      <3> HIDE DEF z, w
      <3>2. z % M = 2 * r + bit - d
        BY <3>1
      <3> QED
        BY <3>2 DEF z
    <2> QED
      BY <2>4, <2>7 DEF M
  <1>4. QED
    BY <1>1, <1>2, <1>3

----------------------------------------------------------------------------
(* The invariant. *)

Args == a \in Word /\ b \in Word /\ d \in Word

Exact == Args /\ TypeOK /\ ProductExact /\ RoundsExact

(* Before the first round. *)
LEMMA InitExact == Init => Exact
  <1> SUFFICES ASSUME Init PROVE Exact
    OBVIOUS
  <1>1. hi \in Word /\ lo \in Word /\ hi * Modulus + lo = a * b
    BY Schoolbook DEF Init
  <1>2. Modulus \in Nat \ {0} /\ Width \in Nat
    BY Sizes
  <1>3. TypeOK
    BY <1>1, <1>2 DEF Init, TypeOK, Word
  <1>4. RoundsExact
    <2> SUFFICES ASSUME ~Refused
                 PROVE  /\ rem < d
                        /\ (quo * d + rem) * Two[i] + (lo % Two[i]) = a * b
      BY DEF RoundsExact
    <2>1. hi < d
      BY <1>1, <1>2 DEF Refused, Init, Word
    <2>2. lo % Modulus = lo
      BY <1>1, <1>2 DEF Word
    <2>3. quo * d + rem = hi
      BY <1>1, <1>2 DEF Init, Word
    <2> QED
      BY <1>1, <2>1, <2>2, <2>3 DEF Init, Modulus
  <1>5. QED
    BY <1>1, <1>3, <1>4 DEF Exact, Args, Init, ProductExact

(* The quotient so far leaves room for the next bit. *)
LEMMA RoomForBit ==
  ASSUME Exact, ~Refused, i > 0
  PROVE  2 * quo + 1 < Modulus
  <1> DEFINE M == Modulus
             k == Two[i - 1]
             tail == lo % Two[i]
  <1>1. /\ M \in Nat \ {0} /\ Two[i] = 2 * k /\ k \in Nat \ {0}
        /\ i \in 1..Width /\ tail \in Nat
    <2>1. i \in 1..Width
      BY Sizes DEF Exact, TypeOK
    <2>2. i - 1 \in 0..Width /\ i \in 0..Width
      BY <2>1, Sizes
    <2>3. lo \in Nat
      BY Sizes DEF Exact, TypeOK, Word
    <2>4. Two[i] \in Nat \ {0} /\ k \in Nat \ {0}
      BY <2>2, Sizes
    <2>5. tail \in Nat
      BY <2>3, <2>4, DivMod
    <2> QED
      BY <2>1, <2>4, <2>5, Sizes
  <1>2. /\ quo \in Nat /\ rem \in Nat /\ d \in Nat \ {0}
        /\ hi \in Nat /\ lo \in 0..M-1 /\ hi <= d - 1
        /\ (quo * d + rem) * Two[i] + tail = hi * M + lo
    BY <1>1 DEF Exact, Args, TypeOK, Word, ProductExact, RoundsExact, Refused
  <1> HIDE DEF M, k, tail
  <1>3. hi * M + lo < d * M
    <2>1. hi * M <= (d - 1) * M
      BY <1>1, <1>2
    <2>2. (d - 1) * M = d * M - M
      BY <1>1, <1>2
    <2>3. hi * M \in Nat /\ d * M \in Nat
      BY <1>1, <1>2
    <2> QED
      BY <1>1, <1>2, <2>1, <2>2, <2>3
  <1>4. d * (2 * quo) <= (quo * d + rem) * Two[i]
    <2>1. (quo * d + rem) * (2 * k) >= (quo * d + rem) * 2
      BY <1>1, <1>2
    <2>2. (quo * d + rem) * 2 >= d * (2 * quo)
      BY <1>1, <1>2
    <2> QED
      BY <1>1, <1>2, <2>1, <2>2
  <1>5. d * (2 * quo) < d * M
    BY <1>1, <1>2, <1>3, <1>4
  <1>6. 2 * quo < M
    <2>1. ASSUME 2 * quo >= M PROVE FALSE
      <3>1. d * (2 * quo) >= d * M
        BY <1>1, <1>2, <2>1
      <3> QED
        BY <1>1, <1>2, <1>5, <3>1
    <2> QED
      BY <1>1, <1>2, <2>1
  <1>7. QED
    <2>1. M = 2 * Two[Width - 1] /\ Two[Width - 1] \in Nat
      <3>1. Width - 1 \in 0..Width
        BY Sizes
      <3> QED
        BY <3>1, Sizes DEF M
    <2> QED
      BY <1>1, <1>2, <1>6, <2>1 DEF M

(* A round keeps the account of the bits exact. *)
LEMMA RoundExact == Exact /\ Round => Exact'
  <1> SUFFICES ASSUME Exact, Round PROVE Exact'
    OBVIOUS
  <1> DEFINE bit == Bit(lo, i - 1)
             k   == Two[i - 1]
             r2  == 2 * rem + bit
  <1>1. /\ ~Refused /\ i > 0 /\ i' = i - 1
        /\ a' = a /\ b' = b /\ d' = d /\ hi' = hi /\ lo' = lo
    BY DEF Round
  <1>2. /\ Modulus \in Nat \ {0} /\ i \in 1..Width /\ i' \in 0..Width
        /\ k \in Nat \ {0} /\ Two[i] = 2 * k
    <2>1. i \in 1..Width /\ i - 1 \in 0..Width
      BY <1>1, Sizes DEF Exact, TypeOK
    <2> QED
      BY <1>1, <2>1, Sizes
  <1>3. /\ quo \in Nat /\ rem \in Nat /\ d \in Word /\ d \in Nat /\ lo \in Nat
        /\ rem < d
        /\ (quo * d + rem) * Two[i] + (lo % Two[i]) = a * b
    BY <1>1, <1>2 DEF Exact, Args, TypeOK, RoundsExact, Word
  <1>4. bit \in 0..1 /\ lo % Two[i] = bit * k + (lo % k)
    <2>1. lo \in Nat /\ i \in 1..Width
      BY <1>2, <1>3
    <2>2. /\ Bit(lo, i - 1) \in 0..1
          /\ lo % Two[i] = Bit(lo, i - 1) * Two[i - 1] + (lo % Two[i - 1])
      BY <2>1, NextBit
    <2> QED
      BY <2>2
  <1>5. lo % k \in Nat
    <2>1. lo \in Nat /\ k \in Nat \ {0}
      BY <1>2, <1>3
    <2> HIDE DEF k
    <2> QED
      BY <2>1, DivMod
  <1>6. /\ Fits(rem, bit) <=> r2 >= d
        /\ Fits(rem, bit) => (Shifted(rem, bit) - d) % Modulus = r2 - d
        /\ ~Fits(rem, bit) => Shifted(rem, bit) = r2
    BY <1>3, <1>4, Subtraction
  <1>7. 2 * quo + 1 < Modulus /\ (2 * quo) % Modulus = 2 * quo
    <2>1. 2 * quo + 1 < Modulus
      <3>1. Exact /\ ~Refused /\ i > 0
        BY <1>1
      <3> QED
        BY <3>1, RoomForBit
    <2>2. quo \in Nat /\ Modulus \in Nat \ {0}
      BY <1>2, <1>3
    <2> QED
      BY <2>1, <2>2
  <1>8. \/ r2 >= d /\ rem' = r2 - d /\ quo' = 2 * quo + 1
        \/ r2 < d /\ rem' = r2 /\ quo' = 2 * quo
    <2>1. CASE Fits(rem, bit)
      BY <1>6, <1>7, <2>1 DEF Round
    <2>2. CASE ~Fits(rem, bit)
      BY <1>3, <1>4, <1>6, <1>7, <2>2 DEF Round
    <2> QED
      BY <2>1, <2>2
  <1> HIDE DEF bit, k
  <1>9. /\ rem' \in Nat /\ rem' < d /\ quo' \in Nat /\ quo' < Modulus
        /\ quo' * d + rem' = 2 * (quo * d + rem) + bit
    <2>1. (2 * quo + 1) * d = 2 * (quo * d) + d /\ (2 * quo) * d = 2 * (quo * d)
      BY <1>3
    <2>2. quo * d \in Nat
      BY <1>3
    <2>3. rem' \in Nat /\ rem' < d /\ quo' \in Nat /\ quo' < Modulus
      BY <1>2, <1>3, <1>4, <1>7, <1>8
    <2>4. quo' * d + rem' = 2 * (quo * d) + r2
      BY <1>3, <1>4, <1>8, <2>1, <2>2
    <2>5. quo' * d + rem' = 2 * (quo * d + rem) + bit
      <3> DEFINE A == quo * d
                 B == quo' * d + rem'
      <3>1. A \in Nat /\ B = 2 * A + (2 * rem + bit)
        BY <2>2, <2>4
      <3> HIDE DEF A, B
      <3>2. B = 2 * (A + rem) + bit
        BY <1>3, <1>4, <3>1
      <3> QED
        BY <3>2 DEF A, B
    <2> QED
      BY <2>3, <2>5
  <1>10. (quo' * d + rem') * k + (lo % k) = a * b
    <2>1. quo * d + rem \in Nat
      BY <1>3
    <2>2. (2 * (quo * d + rem) + bit) * k = (quo * d + rem) * (2 * k) + bit * k
      BY <1>2, <1>4, <2>1
    <2>3. (quo' * d + rem') * k = (quo * d + rem) * Two[i] + bit * k
      BY <1>2, <1>9, <2>2
    <2>4. (quo * d + rem) * Two[i] \in Nat /\ bit * k \in Nat
      BY <1>2, <1>4, <2>1
    <2> QED
      BY <1>3, <1>4, <1>5, <2>3, <2>4
  <1>11. TypeOK'
    BY <1>1, <1>2, <1>3, <1>9 DEF Exact, TypeOK, Word
  <1>12. RoundsExact'
    <2>1. Two[i'] = k
      BY <1>1 DEF k
    <2> QED
      BY <1>1, <1>9, <1>10, <2>1 DEF RoundsExact
  <1>13. QED
    BY <1>1, <1>11, <1>12 DEF Exact, Args, ProductExact

(* Every round keeps the words exact. *)
LEMMA ExactInvariant == Spec => []Exact
  <1>1. Exact /\ UNCHANGED vars => Exact'
    BY DEF Exact, Args, TypeOK, ProductExact, RoundsExact, Refused, vars
  <1>2. Exact /\ [Next]_vars => Exact'
    BY <1>1, RoundExact DEF Next
  <1>3. QED
    BY InitExact, <1>2, PTL DEF Spec

----------------------------------------------------------------------------
(* The theorems. *)

(* No word of the computation overflows: the checked sums of the product never
   panic. *)
THEOREM WordsStayWords == Spec => []TypeOK
  <1>1. Exact => TypeOK
    BY DEF Exact
  <1>2. QED
    BY ExactInvariant, <1>1, PTL

(* The four half-word products and their carries make the product, whole. *)
THEOREM ProductAlwaysExact == Spec => []ProductExact
  <1>1. Exact => ProductExact
    BY DEF Exact
  <1>2. QED
    BY ExactInvariant, <1>1, PTL

(* After every round of wide_div, quotient and remainder account for every bit
   brought down. *)
THEOREM RoundsAlwaysExact == Spec => []RoundsExact
  <1>1. Exact => RoundsExact
    BY DEF Exact
  <1>2. QED
    BY ExactInvariant, <1>1, PTL

(* What an account of all the bits says of the quotients. *)
LEMMA DoneExact ==
  ASSUME Exact, Done
  PROVE  /\ quo = (a * b) \div d /\ rem = (a * b) % d
         /\ (a * b + d - 1) \div d = (IF rem = 0 THEN quo ELSE quo + 1)
  <1> DEFINE n == a * b
  <1>1. /\ quo \in Nat /\ rem \in Nat /\ d \in Nat \ {0} /\ n \in Nat /\ rem < d
        /\ n = d * quo + rem
    <2>1. /\ a \in Nat /\ b \in Nat /\ d \in Nat \ {0} /\ lo \in Nat
          /\ quo \in Nat /\ rem \in Nat /\ rem < d
          /\ (quo * d + rem) * Two[0] + (lo % Two[0]) = n
      BY Sizes DEF Exact, Args, TypeOK, Word, RoundsExact, Refused, Done
    <2>2. Two[0] = 1 /\ lo % 1 = 0
      BY <2>1, Sizes
    <2> QED
      BY <2>1, <2>2
  <1> HIDE DEF n
  <1>2. n \div d = quo /\ n % d = rem
    BY <1>1, DivModUnique
  <1>3. (n + d - 1) \div d = (IF rem = 0 THEN quo ELSE quo + 1)
    <2>1. CASE rem = 0
      <3>1. n + d - 1 = d * quo + (d - 1)
        BY <1>1, <2>1
      <3> QED
        BY <1>1, <2>1, <3>1, DivModUnique
    <2>2. CASE rem # 0
      <3>1. n + d - 1 = d * (quo + 1) + (rem - 1)
        BY <1>1, <2>2
      <3>2. n + d - 1 \in Nat /\ rem - 1 \in 0..d-1 /\ quo + 1 \in Nat
        BY <1>1, <2>2
      <3>3. (n + d - 1) \div d = quo + 1
        BY <1>1, <3>1, <3>2, DivModUnique
      <3> QED
        BY <2>2, <3>3
    <2> QED
      BY <2>1, <2>2
  <1>4. QED
    BY <1>2, <1>3 DEF n

(* A quotient is refused exactly when it does not fit a word. *)
LEMMA RefusalExact ==
  ASSUME Exact, d # 0
  PROVE  Refused <=> (a * b) \div d >= Modulus
  <1> DEFINE n == a * b
             q == n \div d
             M == Modulus
  <1>1. /\ d \in Nat \ {0} /\ M \in Nat \ {0} /\ n \in Nat
        /\ hi \in Nat /\ lo \in 0..M-1 /\ n = hi * M + lo
    BY Sizes DEF Exact, Args, TypeOK, Word, ProductExact
  <1>2. q \in Nat /\ n % d \in 0..d-1 /\ n = d * q + (n % d)
    <2> HIDE DEF n
    <2> QED
      BY <1>1, DivMod
  <1> HIDE DEF q, M, n
  <1>3. ASSUME hi >= d PROVE q >= M
    <2>1. ASSUME q <= M - 1 PROVE FALSE
      <3>1. d * q <= d * (M - 1)
        BY <1>1, <1>2, <2>1
      <3>2. d * (M - 1) = d * M - d
        BY <1>1
      <3>3. hi * M >= d * M
        BY <1>1, <1>3
      <3>4. d * q \in Nat /\ d * M \in Nat /\ hi * M \in Nat
        BY <1>1, <1>2
      <3> QED
        BY <1>1, <1>2, <3>1, <3>2, <3>3, <3>4
    <2> QED
      BY <1>1, <1>2, <2>1
  <1>4. ASSUME hi <= d - 1 PROVE q < M
    <2>1. ASSUME q >= M PROVE FALSE
      <3>1. d * q >= d * M
        BY <1>1, <1>2, <2>1
      <3>2. hi * M <= (d - 1) * M
        BY <1>1, <1>4
      <3>3. (d - 1) * M = d * M - M
        BY <1>1
      <3>4. d * q \in Nat /\ d * M \in Nat /\ hi * M \in Nat
        BY <1>1, <1>2
      <3> QED
        BY <1>1, <1>2, <3>1, <3>2, <3>3, <3>4
    <2> QED
      BY <1>1, <1>2, <2>1
  <1>5. Refused <=> q >= M
    BY <1>1, <1>2, <1>3, <1>4 DEF Refused
  <1>6. QED
    BY <1>5 DEF q, M, n

(* What mul_div_floor and mul_div_ceil return are the exact quotients, and they
   refuse exactly those that do not fit a word. *)
THEOREM QuotientsAlwaysExact == Spec => []QuotientsExact
  <1>1. Exact => QuotientsExact
    <2> SUFFICES ASSUME Exact PROVE QuotientsExact
      OBVIOUS
    <2>1. d # 0 => (Refused <=> (a * b) \div d >= Modulus)
      BY RefusalExact
    <2>2. ASSUME Done
          PROVE  /\ quo = (a * b) \div d /\ rem = (a * b) % d
                 /\ ~CeilRefused => Ceil = (a * b + d - 1) \div d
                 /\ CeilRefused <=> (a * b + d - 1) \div d >= Modulus
      <3>1. quo \in 0..Modulus-1 /\ Modulus \in Nat \ {0}
        BY Sizes DEF Exact, TypeOK, Word
      <3>2. quo = (a * b) \div d /\ rem = (a * b) % d
        BY <2>2, DoneExact
      <3>3. (a * b + d - 1) \div d = (IF rem = 0 THEN quo ELSE quo + 1)
        BY <2>2, DoneExact
      <3> DEFINE c == (a * b + d - 1) \div d
      <3>4. c = (IF rem = 0 THEN quo ELSE quo + 1)
        BY <3>3
      <3> HIDE DEF c
      <3>5. CeilRefused <=> c >= Modulus
        BY <3>1, <3>4 DEF CeilRefused
      <3>6. Ceil = c
        BY <3>4 DEF Ceil
      <3> QED
        BY <3>2, <3>5, <3>6 DEF c
    <2> QED
      BY <2>1, <2>2 DEF QuotientsExact
  <1>2. QED
    BY ExactInvariant, <1>1, PTL
=============================================================================
