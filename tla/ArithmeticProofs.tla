-------------------------- MODULE ArithmeticProofs --------------------------
(***************************************************************************)
(* Bounds and monotonicity of the rounded quotients and of linear accrual, *)
(* for every number, and the sums over finite sets that the balances of    *)
(* the ledger and the tranches of a schedule are added up with.            *)
(*                                                                         *)
(* The induction theorems of the library take the property to prove as an  *)
(* operator, which no prover used here can instantiate.  The two stated    *)
(* here take it as a set, and follow from the theorem that the subsets of  *)
(* a finite set are well-founded.                                          *)
(***************************************************************************)
EXTENDS Arithmetic, Functions, FiniteSetTheorems, TLAPS

-----------------------------------------------------------------------------
(* Quotients. *)

(* The quotient of an integer division, by its defining inequalities. *)
LEMMA DivisionBounds ==
  ASSUME NEW n \in Nat, NEW d \in Nat \ {0}
  PROVE  /\ n \div d \in Nat
         /\ d * (n \div d) <= n
         /\ n < d * (n \div d) + d
  OBVIOUS

(* A floored share is a natural number, and at most the whole when the
   numerator is at most the denominator. *)
LEMMA ShareBounds ==
  ASSUME NEW a \in Nat, NEW n \in Nat, NEW d \in Nat \ {0}, n <= d
  PROVE  MulDivFloor(a, n, d) \in 0..a
  <1> DEFINE q == (a * n) \div d
  <1>1. a * n \in Nat /\ a * n <= a * d
    OBVIOUS
  <1>2. q \in Nat /\ d * q <= a * n
    BY <1>1, DivisionBounds
  <1>3. ASSUME q > a PROVE FALSE
    <2>1. d * q >= d * (a + 1)
      BY <1>2, <1>3
    <2>2. d * (a + 1) = d * a + d
      OBVIOUS
    <2>3. QED
      BY <1>1, <1>2, <2>1, <2>2
  <1>4. QED
    BY <1>2, <1>3 DEF MulDivFloor

(* A floored share never shrinks when its numerator grows. *)
LEMMA ShareMonotone ==
  ASSUME NEW a \in Nat, NEW m \in Nat, NEW n \in Nat, NEW d \in Nat \ {0}, m <= n
  PROVE  MulDivFloor(a, m, d) <= MulDivFloor(a, n, d)
  <1> DEFINE p == (a * m) \div d
             q == (a * n) \div d
  <1>1. a * m \in Nat /\ a * n \in Nat /\ a * m <= a * n
    OBVIOUS
  <1>2. p \in Nat /\ q \in Nat /\ d * p <= a * m /\ a * n < d * q + d
    BY <1>1, DivisionBounds
  <1>3. ASSUME p > q PROVE FALSE
    <2>1. d * p >= d * (q + 1)
      BY <1>2, <1>3
    <2>2. d * (q + 1) = d * q + d
      BY <1>2
    <2>3. QED
      BY <1>1, <1>2, <2>1, <2>2
  <1>4. QED
    BY <1>2, <1>3 DEF MulDivFloor

(* Linear accrual stays between nothing and the total... *)
LEMMA LinearBounds ==
  ASSUME NEW from \in Nat, NEW to \in Nat, from < to,
         NEW t \in Nat, NEW total \in Nat
  PROVE  LinearBetween(from, to, t, total) \in 0..total
  <1>1. CASE t <= from
    BY <1>1 DEF LinearBetween
  <1>2. CASE t > from /\ t >= to
    BY <1>2 DEF LinearBetween
  <1>3. CASE t > from /\ t < to
    <2>1. t - from \in Nat /\ to - from \in Nat \ {0} /\ t - from <= to - from
      BY <1>3
    <2>2. LinearBetween(from, to, t, total) = MulDivFloor(total, t - from, to - from)
      BY <1>3 DEF LinearBetween
    <2>3. QED
      BY <2>1, <2>2, ShareBounds
  <1>4. QED
    BY <1>1, <1>2, <1>3

(* ... and never shrinks with time. *)
LEMMA LinearMonotone ==
  ASSUME NEW from \in Nat, NEW to \in Nat, from < to,
         NEW t \in Nat, NEW u \in Nat, t <= u, NEW total \in Nat
  PROVE  LinearBetween(from, to, t, total) <= LinearBetween(from, to, u, total)
  <1> DEFINE L(x) == LinearBetween(from, to, x, total)
  <1>1. L(t) \in 0..total /\ L(u) \in 0..total
    BY LinearBounds
  <1>2. CASE t <= from
    BY <1>1, <1>2 DEF LinearBetween
  <1>3. CASE t > from /\ u >= to
    <2>1. L(u) = total
      BY <1>3 DEF LinearBetween
    <2>2. QED
      BY <1>1, <2>1
  <1>4. CASE t > from /\ u < to
    <2>1. /\ t - from \in Nat /\ u - from \in Nat /\ to - from \in Nat \ {0}
          /\ t - from <= u - from
      BY <1>4
    <2>2. /\ L(t) = MulDivFloor(total, t - from, to - from)
          /\ L(u) = MulDivFloor(total, u - from, to - from)
      BY <1>4 DEF LinearBetween
    <2>3. QED
      BY <2>1, <2>2, ShareMonotone
  <1>5. QED
    BY <1>2, <1>3, <1>4

(* A quotient rounded up is the least number whose multiple reaches the
   product. *)
LEMMA CeilBounds ==
  ASSUME NEW a \in Nat, NEW b \in Nat, NEW d \in Nat \ {0}
  PROVE  /\ MulDivCeil(a, b, d) \in Nat
         /\ a * b <= d * MulDivCeil(a, b, d)
         /\ d * MulDivCeil(a, b, d) < a * b + d
  <1> DEFINE n == a * b + d - 1
  <1>1. a * b \in Nat /\ n \in Nat
    OBVIOUS
  <1>2. /\ n \div d \in Nat
        /\ d * (n \div d) <= n
        /\ n < d * (n \div d) + d
    <2> HIDE DEF n
    <2> QED
      BY <1>1
  <1>3. MulDivCeil(a, b, d) = n \div d
    BY DEF MulDivCeil
  <1> DEFINE q == n \div d
  <1>4. d * q \in Nat /\ q \in Nat
    BY <1>2
  <1> HIDE DEF q
  <1>5. QED
    BY <1>1, <1>2, <1>3, <1>4 DEF q

(* A number whose multiple reaches the product is at least the quotient. *)
LEMMA CeilLeast ==
  ASSUME NEW a \in Nat, NEW b \in Nat, NEW d \in Nat \ {0}, NEW m \in Nat,
         a * b <= d * m
  PROVE  MulDivCeil(a, b, d) <= m
  <1> DEFINE q == MulDivCeil(a, b, d)
  <1>1. q \in Nat /\ d * q < a * b + d
    BY CeilBounds
  <1> HIDE DEF q
  <1>2. ASSUME q > m PROVE FALSE
    <2>1. d * q >= d * (m + 1)
      BY <1>1, <1>2
    <2>2. d * (m + 1) = d * m + d
      OBVIOUS
    <2>3. a * b \in Nat /\ d * m \in Nat /\ d * q \in Nat
      BY <1>1
    <2>4. QED
      BY <1>1, <2>1, <2>2, <2>3
  <1>3. QED
    BY <1>1, <1>2 DEF q

(* A larger multiple of a positive number has the larger factor. *)
LEMMA FactorAtMost ==
  ASSUME NEW d \in Nat \ {0}, NEW x \in Nat, NEW y \in Nat, d * x <= d * y
  PROVE  x <= y
  <1>1. ASSUME x > y PROVE FALSE
    <2>1. d * x >= d * (y + 1)
      BY <1>1
    <2>2. d * (y + 1) = d * y + d
      OBVIOUS
    <2>3. QED
      BY <2>1, <2>2
  <1>2. QED
    BY <1>1

(* A trade of the amount x into the reserve b takes nothing below zero out of
   the reserve a, and leaves a product that is not smaller. *)
LEMMA Reserves ==
  ASSUME NEW a \in Nat, NEW b \in Nat, NEW x \in Nat \ {0}
  PROVE  /\ MulDivCeil(a, b, b + x) \in 0..a
         /\ a * b <= MulDivCeil(a, b, b + x) * (b + x)
  <1> DEFINE d == b + x
             q == MulDivCeil(a, b, d)
  <1>1. d \in Nat \ {0}
    OBVIOUS
  <1>2. q \in Nat /\ a * b <= d * q
    BY <1>1, CeilBounds
  <1>3. a * b <= d * a
    <2>1. d * a = b * a + x * a
      OBVIOUS
    <2>2. x * a \in Nat /\ b * a = a * b /\ a * b \in Nat
      OBVIOUS
    <2>3. QED
      BY <2>1, <2>2
  <1>4. q <= a
    BY <1>1, <1>3, CeilLeast
  <1>5. d * q = q * d
    BY <1>1, <1>2
  <1>6. QED
    BY <1>2, <1>4, <1>5

-----------------------------------------------------------------------------
(* Induction. *)

(* Induction over the subsets of a finite set: a set of subsets that holds
   every subset whose proper subsets it holds, holds them all. *)
LEMMA SubsetInduction ==
  ASSUME NEW S, IsFiniteSet(S), NEW Q \in SUBSET SUBSET S,
         \A T \in SUBSET S : (\A U \in SUBSET T : U # T => U \in Q) => T \in Q
  PROVE  Q = SUBSET S
  <1> DEFINE R   == StrictSubsetOrdering(S)
             Bad == (SUBSET S) \ Q
  <1>1. SUFFICES ASSUME Bad # {} PROVE FALSE
    OBVIOUS
  <1>2. IsWellFoundedOn(R, FiniteSubsetsOf(S)) /\ FiniteSubsetsOf(S) = SUBSET S
    BY FS_StrictSubsetOrderingWellFounded, FS_FiniteSubsetsOfFinite
  <1>3. PICK T \in Bad : \A U \in Bad : <<U, T>> \notin R
    <2>1. Bad \subseteq SUBSET S
      OBVIOUS
    <2> HIDE DEF Bad, R
    <2>2. QED
      BY <1>1, <1>2, <2>1, WFMin
  <1>4. ASSUME NEW U \in SUBSET T, U # T PROVE U \in Q
    <2>1. <<U, T>> \in R
      BY <1>3, <1>4 DEF StrictSubsetOrdering
    <2> HIDE DEF R
    <2>2. QED
      BY <1>3, <1>4, <2>1
  <1>5. QED
    BY <1>3, <1>4

(* A set of numbers with zero and every successor holds every natural. *)
LEMMA NatSetInduction ==
  ASSUME NEW Q \in SUBSET Nat, 0 \in Q, \A n \in Q : n + 1 \in Q
  PROVE  Q = Nat
  <1>1. SUFFICES ASSUME NEW n \in Nat PROVE n \in Q
    OBVIOUS
  <1> DEFINE S   == 0..n
             Low == {T \in SUBSET S : T # {} => \E m \in T : \A k \in T : m <= k}
             Bad == {k \in S : k \notin Q}
  <1>2. IsFiniteSet(S)
    BY FS_Interval
  <1>3. ASSUME NEW T \in SUBSET S, \A U \in SUBSET T : U # T => U \in Low
        PROVE  T \in Low
    <2>1. CASE T = {}
      BY <2>1
    <2>2. CASE T # {}
      <3>1. PICK x \in T : TRUE
        BY <2>2
      <3>2. T \ {x} \in Low
        BY <1>3, <3>1
      <3>3. CASE T \ {x} = {}
        BY <3>1, <3>3
      <3>4. CASE T \ {x} # {}
        <4>1. PICK m \in T \ {x} : \A k \in T \ {x} : m <= k
          BY <3>2, <3>4
        <4>2. m \in Int /\ x \in Int /\ \A k \in T : k \in Int
          OBVIOUS
        <4>3. CASE m <= x
          BY <4>1, <4>3
        <4>4. CASE x < m
          <5>1. \A k \in T : x <= k
            BY <4>1, <4>2, <4>4
          <5>2. QED
            BY <3>1, <5>1
        <4>5. QED
          BY <4>2, <4>3, <4>4
      <3>5. QED
        BY <3>3, <3>4
    <2>3. QED
      BY <2>1, <2>2
  <1>4. Low = SUBSET S
    <2>1. Low \in SUBSET SUBSET S
      OBVIOUS
    <2> HIDE DEF Low, S
    <2>2. QED
      BY <1>2, <1>3, <2>1, SubsetInduction
  <1>5. CASE Bad = {}
    BY <1>5
  <1>6. CASE Bad # {}
    <2>1. Bad \in Low
      BY <1>4
    <2>2. PICK m \in Bad : \A k \in Bad : m <= k
      BY <1>6, <2>1
    <2>3. m # 0 /\ m - 1 \in S
      BY <2>2
    <2>4. m - 1 \in Q
      BY <2>2, <2>3
    <2>5. QED
      BY <2>2, <2>4
  <1>7. QED
    BY <1>5, <1>6

-----------------------------------------------------------------------------
(* Sums over finite sets. *)

(* The element a sum takes first, and the equation of its iteration. *)
Taken(T) == CHOOSE x \in T : TRUE

Iterates(g, f, T) ==
  /\ g \in [SUBSET T -> Int]
  /\ \A s \in SUBSET T :
       g[s] = IF s = {} THEN 0 ELSE f[Taken(s)] + g[s \ {Taken(s)}]

(* What a sum takes is an element. *)
LEMMA TakenIn == ASSUME NEW T, T # {} PROVE Taken(T) \in T
  BY DEF Taken

(* Two iterations of a sum agree where both are defined. *)
LEMMA IterationUnique ==
  ASSUME NEW S, IsFiniteSet(S), NEW f,
         NEW T \in SUBSET S, NEW g, Iterates(g, f, T),
         NEW U \in SUBSET S, NEW h, Iterates(h, f, U)
  PROVE  \A s \in SUBSET (T \cap U) : g[s] = h[s]
  <1> DEFINE V == T \cap U
             Q == {s \in SUBSET V : g[s] = h[s]}
  <1>1. IsFiniteSet(V)
    BY FS_Subset
  <1>2. ASSUME NEW s \in SUBSET V, \A r \in SUBSET s : r # s => r \in Q
        PROVE  s \in Q
    <2>1. CASE s = {}
      BY <2>1 DEF Iterates
    <2>2. CASE s # {}
      <3>1. Taken(s) \in s
        BY <2>2, TakenIn
      <3>2. s \ {Taken(s)} \in Q
        BY <1>2, <3>1
      <3>3. QED
        BY <2>2, <3>2 DEF Iterates
    <2>3. QED
      BY <2>1, <2>2
  <1>3. Q = SUBSET V
    <2>1. Q \in SUBSET SUBSET V
      OBVIOUS
    <2> HIDE DEF Q, V
    <2>2. QED
      BY <1>1, <1>2, <2>1, SubsetInduction
  <1>4. QED
    BY <1>3

(* A sum of integers over a finite set can be iterated. *)
LEMMA IterationExists ==
  ASSUME NEW S, IsFiniteSet(S), NEW f, \A x \in S : f[x] \in Int
  PROVE  \E g : Iterates(g, f, S)
  <1> DEFINE Q == {T \in SUBSET S : \E g : Iterates(g, f, T)}
             G(T) == CHOOSE g : Iterates(g, f, T)
  <1>1. ASSUME NEW T \in SUBSET S, \A U \in SUBSET T : U # T => U \in Q
        PROVE  T \in Q
    <2>1. ASSUME NEW U \in SUBSET T, U # T PROVE Iterates(G(U), f, U)
      BY <1>1, <2>1
    <2> HIDE DEF G
    <2> DEFINE last == IF T = {} THEN 0
                       ELSE f[Taken(T)] + G(T \ {Taken(T)})[T \ {Taken(T)}]
               g == [s \in SUBSET T |-> IF s = T THEN last ELSE G(s)[s]]
    <2>2. last \in Int
      <3>1. CASE T # {}
        <4>1. Taken(T) \in T
          BY <3>1, TakenIn
        <4>2. Iterates(G(T \ {Taken(T)}), f, T \ {Taken(T)})
          BY <2>1, <4>1
        <4>3. G(T \ {Taken(T)})[T \ {Taken(T)}] \in Int
          BY <4>2 DEF Iterates
        <4>4. QED
          BY <3>1, <4>1, <4>3
      <3>2. QED
        BY <3>1
    <2> HIDE DEF last
    <2>3. g \in [SUBSET T -> Int]
      <3>1. ASSUME NEW s \in SUBSET T, s # T PROVE G(s)[s] \in Int
        BY <2>1, <3>1 DEF Iterates
      <3>2. QED
        BY <2>2, <3>1
    <2>4. ASSUME NEW s \in SUBSET T
          PROVE  g[s] = IF s = {} THEN 0 ELSE f[Taken(s)] + g[s \ {Taken(s)}]
      <3>1. CASE s = {}
        <4>1. CASE T = {}
          BY <3>1, <4>1 DEF last
        <4>2. CASE T # {}
          BY <2>1, <3>1, <4>2 DEF Iterates
        <4>3. QED
          BY <4>1, <4>2
      <3>2. CASE s # {}
        <4> DEFINE r == s \ {Taken(s)}
        <4>1. Taken(s) \in s
          BY <3>2, TakenIn
        <4>2. r \in SUBSET T /\ r # T /\ g[r] = G(r)[r] /\ Iterates(G(r), f, r)
          BY <2>1, <4>1
        <4>3. CASE s = T
          BY <3>2, <4>2, <4>3 DEF last
        <4>4. CASE s # T
          <5>1. Iterates(G(s), f, s)
            BY <2>1, <4>4
          <5>2. G(s)[r] = G(r)[r]
            <6>1. IsFiniteSet(s) /\ r \in SUBSET s /\ s \in SUBSET s
              BY FS_Subset
            <6>2. r \in SUBSET (s \cap r)
              OBVIOUS
            <6> HIDE DEF r
            <6>3. QED
              BY <4>2, <5>1, <6>1, <6>2, IterationUnique
          <5>3. G(s)[s] = f[Taken(s)] + G(s)[r]
            BY <3>2, <5>1 DEF Iterates
          <5>4. QED
            BY <3>2, <4>2, <4>4, <5>2, <5>3
        <4>5. QED
          BY <4>3, <4>4
      <3>3. QED
        BY <3>1, <3>2
    <2> HIDE DEF g
    <2>5. Iterates(g, f, T)
      BY <2>3, <2>4 DEF Iterates
    <2>6. QED
      BY <2>5
  <1>2. Q = SUBSET S
    <2>1. Q \in SUBSET SUBSET S
      OBVIOUS
    <2> HIDE DEF Q
    <2>2. QED
      BY <1>1, <2>1, SubsetInduction
  <1>3. QED
    BY <1>2

(* The sum over a set is the last step of its iteration. *)
LEMMA SumIterates ==
  ASSUME NEW S, IsFiniteSet(S), NEW f, \A x \in S : f[x] \in Int
  PROVE  \E g : Iterates(g, f, S) /\ SumFunctionOnSet(f, S) = g[S]
  <1> DEFINE Step(g) == [s \in SUBSET S |->
                IF s = {} THEN 0
                ELSE LET x == CHOOSE x \in s : TRUE IN f[x] + g[s \ {x}]]
             sum == CHOOSE g : g = Step(g)
  <1>1. PICK h : Iterates(h, f, S)
    BY IterationExists
  <1>2. h = Step(h)
    BY <1>1 DEF Iterates, Taken
  <1>3. sum = Step(sum)
    <2> HIDE DEF Step
    <2>1. QED
      BY <1>2
  <1>4. SumFunctionOnSet(f, S) = sum[S]
    BY DEF SumFunctionOnSet, FoldFunctionOnSet, MapThenFoldSet
  <1> HIDE DEF sum
  <1>5. \A s \in SUBSET S :
          sum[s] = IF s = {} THEN 0 ELSE f[Taken(s)] + sum[s \ {Taken(s)}]
    BY <1>3 DEF Taken
  <1>6. sum = [s \in SUBSET S |-> sum[s]]
    BY <1>3
  <1> DEFINE Q == {s \in SUBSET S : sum[s] \in Int}
  <1>7. ASSUME NEW s \in SUBSET S, \A r \in SUBSET s : r # s => r \in Q
        PROVE  s \in Q
    <2>1. CASE s = {}
      <3>1. sum[s] = 0
        BY <1>5, <2>1
      <3>2. QED
        BY <3>1
    <2>2. CASE s # {}
      <3>1. Taken(s) \in s
        BY <2>2, TakenIn
      <3>2. s \ {Taken(s)} \in Q
        BY <1>7, <3>1
      <3>3. sum[s] = f[Taken(s)] + sum[s \ {Taken(s)}]
        BY <1>5, <2>2
      <3>4. sum[s] \in Int
        BY <3>1, <3>2, <3>3
      <3>5. QED
        BY <3>4
    <2>3. QED
      BY <2>1, <2>2
  <1>8. Q = SUBSET S
    <2>1. Q \in SUBSET SUBSET S
      OBVIOUS
    <2> HIDE DEF Q
    <2>2. QED
      BY <1>7, <2>1, SubsetInduction
  <1>9. Iterates(sum, f, S)
    BY <1>5, <1>6, <1>8 DEF Iterates
  <1>10. QED
    BY <1>4, <1>9

(* The sum over the empty set is zero. *)
LEMMA SumEmpty == ASSUME NEW f PROVE SumFunctionOnSet(f, {}) = 0
  BY SumIterates, FS_EmptySet DEF Iterates

(* A sum of integers is an integer. *)
LEMMA SumInt ==
  ASSUME NEW S, IsFiniteSet(S), NEW f, \A x \in S : f[x] \in Int
  PROVE  SumFunctionOnSet(f, S) \in Int
  <1>1. PICK g : Iterates(g, f, S) /\ SumFunctionOnSet(f, S) = g[S]
    BY SumIterates
  <1>2. g \in [SUBSET S -> Int] /\ S \in SUBSET S
    BY <1>1 DEF Iterates
  <1>3. QED
    BY <1>1, <1>2

(* A sum is the element it takes and the sum over the rest. *)
LEMMA SumTakes ==
  ASSUME NEW S, IsFiniteSet(S), S # {}, NEW f, \A x \in S : f[x] \in Int
  PROVE  SumFunctionOnSet(f, S)
           = f[Taken(S)] + SumFunctionOnSet(f, S \ {Taken(S)})
  <1> DEFINE R == S \ {Taken(S)}
  <1>1. PICK g : Iterates(g, f, S) /\ SumFunctionOnSet(f, S) = g[S]
    BY SumIterates
  <1>2. IsFiniteSet(R) /\ R \in SUBSET S /\ S \in SUBSET S
    BY FS_Subset
  <1>3. PICK h : Iterates(h, f, R) /\ SumFunctionOnSet(f, R) = h[R]
    BY <1>2, SumIterates
  <1>4. g[R] = h[R]
    <2>1. R \in SUBSET (S \cap R)
      OBVIOUS
    <2> HIDE DEF R
    <2>2. QED
      BY <1>1, <1>2, <1>3, <2>1, IterationUnique
  <1>5. g[S] = f[Taken(S)] + g[R]
    BY <1>1 DEF Iterates
  <1>6. QED
    BY <1>1, <1>3, <1>4, <1>5

(* Any element can be taken out of a sum. *)
LEMMA SumRemove ==
  ASSUME NEW S, IsFiniteSet(S), NEW f, \A x \in S : f[x] \in Int, NEW a \in S
  PROVE  SumFunctionOnSet(f, S) = f[a] + SumFunctionOnSet(f, S \ {a})
  <1> DEFINE Sum(T) == SumFunctionOnSet(f, T)
             Q == {T \in SUBSET S : \A x \in T : Sum(T) = f[x] + Sum(T \ {x})}
  <1>1. \A T \in SUBSET S : IsFiniteSet(T) /\ Sum(T) \in Int
    BY FS_Subset, SumInt
  <1>2. ASSUME NEW T \in SUBSET S, \A U \in SUBSET T : U # T => U \in Q
        PROVE  T \in Q
    <2> SUFFICES ASSUME NEW x \in T PROVE Sum(T) = f[x] + Sum(T \ {x})
      OBVIOUS
    <2> DEFINE c == Taken(T)
    <2>1. c \in T /\ Sum(T) = f[c] + Sum(T \ {c})
      BY <1>1, TakenIn, SumTakes
    <2> HIDE DEF Sum, c
    <2>2. CASE x = c
      BY <2>1, <2>2
    <2>3. CASE x # c
      <3>1. T \ {c} \in Q /\ T \ {x} \in Q
        BY <1>2, <2>1
      <3>2. Sum(T \ {c}) = f[x] + Sum((T \ {c}) \ {x})
        BY <2>3, <3>1
      <3>3. Sum(T \ {x}) = f[c] + Sum((T \ {x}) \ {c})
        BY <2>1, <2>3, <3>1
      <3>4. (T \ {c}) \ {x} = (T \ {x}) \ {c}
        OBVIOUS
      <3>5. f[x] \in Int /\ f[c] \in Int
        BY <2>1
      <3>6. Sum((T \ {x}) \ {c}) \in Int
        BY <1>1
      <3> DEFINE rest == Sum((T \ {x}) \ {c})
      <3>7. Sum(T) = f[c] + (f[x] + rest)
        BY <2>1, <3>2, <3>4
      <3>8. rest \in Int /\ Sum(T \ {x}) = f[c] + rest
        BY <3>3, <3>6
      <3> HIDE DEF rest
      <3>9. QED
        BY <3>5, <3>7, <3>8
    <2>4. QED
      BY <2>2, <2>3
  <1>3. Q = SUBSET S
    <2>1. Q \in SUBSET SUBSET S
      OBVIOUS
    <2> HIDE DEF Q
    <2>2. QED
      BY <1>2, <2>1, SubsetInduction
  <1> HIDE DEF Sum
  <1>4. Sum(S) = f[a] + Sum(S \ {a})
    BY <1>3
  <1>5. QED
    BY <1>4 DEF Sum

(* A sum depends on nothing but the values summed. *)
LEMMA SumSame ==
  ASSUME NEW S, IsFiniteSet(S), NEW f, \A x \in S : f[x] \in Int,
         NEW g, \A x \in S : g[x] = f[x]
  PROVE  SumFunctionOnSet(g, S) = SumFunctionOnSet(f, S)
  <1> DEFINE Q == {T \in SUBSET S : SumFunctionOnSet(g, T) = SumFunctionOnSet(f, T)}
  <1>1. ASSUME NEW T \in SUBSET S, \A U \in SUBSET T : U # T => U \in Q
        PROVE  T \in Q
    <2>1. CASE T = {}
      BY <2>1, SumEmpty
    <2>2. CASE T # {}
      <3>1. PICK x \in T : TRUE
        BY <2>2
      <3>2. T \ {x} \in Q
        BY <1>1, <3>1
      <3>3. IsFiniteSet(T) /\ \A y \in T : f[y] \in Int /\ g[y] \in Int
        BY FS_Subset
      <3>4. /\ SumFunctionOnSet(f, T) = f[x] + SumFunctionOnSet(f, T \ {x})
            /\ SumFunctionOnSet(g, T) = g[x] + SumFunctionOnSet(g, T \ {x})
        BY <3>3, SumRemove
      <3>5. QED
        BY <3>2, <3>4
    <2>3. QED
      BY <2>1, <2>2
  <1>2. Q = SUBSET S
    <2>1. Q \in SUBSET SUBSET S
      OBVIOUS
    <2> HIDE DEF Q
    <2>2. QED
      BY <1>1, <2>1, SubsetInduction
  <1>3. QED
    BY <1>2

(* A sum of natural numbers is a natural number... *)
LEMMA SumNat ==
  ASSUME NEW S, IsFiniteSet(S), NEW f, \A x \in S : f[x] \in Nat
  PROVE  SumFunctionOnSet(f, S) \in Nat
  <1> DEFINE Q == {T \in SUBSET S : SumFunctionOnSet(f, T) \in Nat}
  <1>1. ASSUME NEW T \in SUBSET S, \A U \in SUBSET T : U # T => U \in Q
        PROVE  T \in Q
    <2>1. CASE T = {}
      BY <2>1, SumEmpty
    <2>2. CASE T # {}
      <3>1. PICK x \in T : TRUE
        BY <2>2
      <3>2. T \ {x} \in Q
        BY <1>1, <3>1
      <3>3. IsFiniteSet(T) /\ \A y \in T : f[y] \in Int
        BY FS_Subset
      <3>4. SumFunctionOnSet(f, T) = f[x] + SumFunctionOnSet(f, T \ {x})
        BY <3>3, SumRemove
      <3>5. QED
        BY <3>2, <3>4
    <2>3. QED
      BY <2>1, <2>2
  <1>2. Q = SUBSET S
    <2>1. Q \in SUBSET SUBSET S
      OBVIOUS
    <2> HIDE DEF Q
    <2>2. QED
      BY <1>1, <2>1, SubsetInduction
  <1>3. QED
    BY <1>2

(* ... and at least the sum over a part. *)
LEMMA SumOfPart ==
  ASSUME NEW S, IsFiniteSet(S), NEW f, \A x \in S : f[x] \in Nat, NEW P \in SUBSET S
  PROVE  SumFunctionOnSet(f, P) <= SumFunctionOnSet(f, S)
  <1> DEFINE Sum(T) == SumFunctionOnSet(f, T)
             Q == {T \in SUBSET S : \A U \in SUBSET T : Sum(U) <= Sum(T)}
  <1>1. \A T \in SUBSET S : IsFiniteSet(T) /\ Sum(T) \in Nat
    BY FS_Subset, SumNat
  <1>2. ASSUME NEW T \in SUBSET S, \A U \in SUBSET T : U # T => U \in Q
        PROVE  T \in Q
    <2> SUFFICES ASSUME NEW U \in SUBSET T PROVE Sum(U) <= Sum(T)
      OBVIOUS
    <2>1. CASE U = T
      BY <1>1, <2>1
    <2>2. CASE U # T
      <3>1. PICK x \in T : x \notin U
        BY <2>2
      <3>2. T \ {x} \in Q
        BY <1>2, <3>1
      <3>3. Sum(U) <= Sum(T \ {x})
        BY <3>1, <3>2
      <3>4. \A y \in T : f[y] \in Int
        OBVIOUS
      <3>5. Sum(T) = f[x] + Sum(T \ {x})
        BY <1>1, <3>4, SumRemove
      <3>6. Sum(U) \in Nat /\ Sum(T \ {x}) \in Nat /\ f[x] \in Nat
        BY <1>1
      <3> HIDE DEF Sum
      <3>7. QED
        BY <3>3, <3>5, <3>6
    <2>3. QED
      BY <2>1, <2>2
  <1>3. Q = SUBSET S
    <2>1. Q \in SUBSET SUBSET S
      OBVIOUS
    <2> HIDE DEF Q
    <2>2. QED
      BY <1>2, <2>1, SubsetInduction
  <1>4. P \in SUBSET S /\ S \in Q
    BY <1>3
  <1>5. QED
    BY <1>4

(* Changing one value changes the sum by as much. *)
LEMMA SumChanged ==
  ASSUME NEW S, IsFiniteSet(S), NEW f \in [S -> Int], NEW g \in [S -> Int],
         NEW a \in S, \A x \in S \ {a} : g[x] = f[x]
  PROVE  SumFunction(g) = SumFunction(f) - f[a] + g[a]
  <1> DEFINE R == S \ {a}
  <1>1. /\ SumFunction(f) = SumFunctionOnSet(f, S)
        /\ SumFunction(g) = SumFunctionOnSet(g, S)
    BY DEF SumFunction
  <1>2. SumFunctionOnSet(f, S) = f[a] + SumFunctionOnSet(f, R)
    BY SumRemove
  <1>3. SumFunctionOnSet(g, S) = g[a] + SumFunctionOnSet(g, R)
    BY SumRemove
  <1>4. IsFiniteSet(R)
    BY FS_Subset
  <1>5. SumFunctionOnSet(g, R) = SumFunctionOnSet(f, R)
    BY <1>4, SumSame
  <1>6. SumFunctionOnSet(f, R) \in Int
    BY <1>4, SumInt
  <1>7. QED
    BY <1>1, <1>2, <1>3, <1>5, <1>6

(* A sum of nothing but zeros is zero. *)
LEMMA SumZero ==
  ASSUME NEW S, IsFiniteSet(S), NEW f, \A x \in S : f[x] = 0
  PROVE  SumFunctionOnSet(f, S) = 0
  <1> DEFINE Q == {T \in SUBSET S : SumFunctionOnSet(f, T) = 0}
  <1>1. ASSUME NEW T \in SUBSET S, \A U \in SUBSET T : U # T => U \in Q
        PROVE  T \in Q
    <2>1. CASE T = {}
      BY <2>1, SumEmpty
    <2>2. CASE T # {}
      <3>1. PICK x \in T : TRUE
        BY <2>2
      <3>2. T \ {x} \in Q
        BY <1>1, <3>1
      <3>3. IsFiniteSet(T) /\ \A y \in T : f[y] \in Int
        BY FS_Subset
      <3>4. SumFunctionOnSet(f, T) = f[x] + SumFunctionOnSet(f, T \ {x})
        BY <3>3, SumRemove
      <3>5. QED
        BY <3>2, <3>4
    <2>3. QED
      BY <2>1, <2>2
  <1>2. Q = SUBSET S
    <2>1. Q \in SUBSET SUBSET S
      OBVIOUS
    <2> HIDE DEF Q
    <2>2. QED
      BY <1>1, <2>1, SubsetInduction
  <1>3. QED
    BY <1>2
=============================================================================
