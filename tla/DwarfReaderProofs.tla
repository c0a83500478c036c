--------------------------- MODULE DwarfReaderProofs ---------------------------
(***************************************************************************)
(* Proofs about DwarfReader, for every program of instructions that are    *)
(* read as InstructionsRight says: the parser is never inside of an        *)
(* operand, its records mean what the instructions mean, and its table is  *)
(* one of FrameTable.                                                      *)
(*                                                                         *)
(* From the bottom up: the digits of a number, a number from its digits    *)
(* (NumberOf), what the getters read of it (GetRight), an instruction with *)
(* all its operands (ReadingRight), a CIE (CieRight), and the invariant of *)
(* a program (MeantInv).  The functions over bytes are recursive; what     *)
(* they give is shown by the least byte, or the least number, that would   *)
(* be a counterexample.                                                    *)
(***************************************************************************)
EXTENDS DwarfReader, FrameTableProofs, NaturalsInduction, WellFoundedInduction

-----------------------------------------------------------------------------
(* Numbers and their digits.                                                 *)

LEMMA DivFacts ==
  ASSUME NEW n \in Int, NEW M \in Nat, M > 0
  PROVE  /\ n = M * (n \div M) + (n % M) /\ n \div M \in Int
         /\ n % M \in Nat /\ n % M < M
OBVIOUS

LEMMA Multiple ==
  ASSUME NEW M \in Nat, M > 0, NEW d \in Int, NEW e \in Int, M * d = e, -M < e, e < M
  PROVE  d = 0
<1>1. d >= 1 => M * d >= M
  OBVIOUS
<1>2. d <= -1 => M * d <= -M
  OBVIOUS
<1> QED
  BY <1>1, <1>2

LEMMA DivUnique ==
  ASSUME NEW n \in Int, NEW M \in Nat, M > 0, NEW q \in Int, NEW t \in Nat, t < M, n = M * q + t
  PROVE  n \div M = q /\ n % M = t
<1> DEFINE d == n \div M
           r == n % M
<1>1. n = M * d + r /\ d \in Int /\ r \in Nat /\ r < M
  BY DivFacts
<1> HIDE DEF d, r
<1>2. M * (d - q) = t - r /\ d - q \in Int /\ t - r \in Int /\ -M < t - r /\ t - r < M
  BY <1>1
<1>3. d - q = 0
  BY <1>2, Multiple
<1>4. d = q /\ r = t
  BY <1>1, <1>2, <1>3
<1> QED
  BY <1>4 DEF d, r

LEMMA LeastNat ==
  ASSUME NEW S \in SUBSET Nat, S # {}
  PROVE  \E m \in S : \A k \in S : m <= k
<1>1. \E m \in S : \A k \in S : <<k, m>> \notin OpToRel(<, Nat)
  BY NatLessThanWellFounded, WFMin
<1>2. PICK m \in S : \A k \in S : <<k, m>> \notin OpToRel(<, Nat)
  BY <1>1
<1>3. ASSUME NEW k \in S PROVE m <= k
  <2>1. k \in Nat /\ m \in Nat
    OBVIOUS
  <2>2. ~(k < m)
    BY <1>2, <2>1 DEF OpToRel
  <2> QED
    BY <2>1, <2>2
<1> QED
  BY <1>3

\* The digits below the k-th, and the k-th.
Digits(n, P, base) == (n % P) + ((n \div P) % base) * P

\* With the next digit the remainder is one for the next power.
LEMMA NextDigit ==
  ASSUME NEW n \in Int, NEW P \in Nat, P > 0, NEW base \in Nat, base > 0
  PROVE  /\ base * P \in Nat /\ base * P > 0
         /\ Digits(n, P, base) = n % (base * P)
<1> DEFINE q == n \div P
           r == n % P
           s == q \div base
           d == q % base
           M == base * P
<1>1. n = P * q + r /\ q \in Int /\ r \in Nat /\ r < P
  BY DivFacts
<1> HIDE DEF q, r
<1>2. q = base * s + d /\ s \in Int /\ d \in Nat /\ d < base
  BY <1>1, DivFacts
<1> HIDE DEF s, d
<1>3. M \in Nat /\ M > 0
  OBVIOUS
<1>4. P * q = M * s + d * P
  BY <1>2
<1>5. d * P \in Nat /\ d * P + P <= M
  <2>1. d * P \in Nat
    BY <1>2
  <2>2. (d + 1) * P <= base * P
    <3>1. base - (d + 1) \in Nat
      BY <1>2
    <3>2. (base - (d + 1)) * P >= 0
      BY <3>1
    <3> QED
      BY <1>2, <3>2
  <2> QED
    BY <1>2, <2>1, <2>2
<1> DEFINE t == r + d * P
<1>6. t \in Nat /\ t < M
  BY <1>1, <1>5
<1>7. n = M * s + t
  BY <1>1, <1>2, <1>3, <1>4, <1>5
<1> HIDE DEF M, t
<1>8. n % M = t
  BY <1>2, <1>3, <1>6, <1>7, DivUnique
<1> QED
  BY <1>3, <1>8 DEF Digits, M, t, q, r, d

\* If the last digit is the rest of the number, nothing is missing; a negative number
\* is read as its complement.
LEMMA AllDigits ==
  ASSUME NEW n \in Int, NEW P \in Nat, P > 0, NEW base \in Nat, base > 0
  PROVE  /\ n \div P \in 0..(base - 1) => Digits(n, P, base) = n
         /\ n \div P \in -base..(-1) => Digits(n, P, base) = n + base * P
<1> DEFINE q == n \div P
           r == n % P
<1>1. n = P * q + r /\ q \in Int /\ r \in Nat
  BY DivFacts
<1> HIDE DEF q, r
<1>2. ASSUME q \in 0..(base - 1) PROVE Digits(n, P, base) = n
  <2>1. q = base * 0 + q /\ q \in Nat /\ q < base
    BY <1>2
  <2>2. q % base = q
    BY <1>1, <2>1, DivUnique
  <2> QED
    BY <1>1, <2>2 DEF Digits, q, r
<1>3. ASSUME q \in -base..(-1) PROVE Digits(n, P, base) = n + base * P
  <2>1. q = base * (-1) + (q + base) /\ q + base \in Nat /\ q + base < base
    BY <1>3
  <2>2. q % base = q + base
    BY <1>1, <2>1, DivUnique
  <2>3. (q + base) * P = P * q + base * P
    BY <1>1
  <2>4. P * q \in Int /\ base * P \in Int
    BY <1>1
  <2>5. Digits(n, P, base) = r + (q + base) * P
    BY <2>2 DEF Digits, q, r
  <2> QED
    BY <1>1, <2>3, <2>4, <2>5
<1> QED
  BY <1>2, <1>3 DEF q

-----------------------------------------------------------------------------
(* Reading digits.                                                           *)

DigitStep(b, p, base, x, k) == x + (b[p + k - 1] % base) * base^(k - 1)

NumberUnfolds(b, p, base, g, m) ==
  g = [k \in 0..m |-> IF k = 0 THEN 0 ELSE DigitStep(b, p, base, g[k - 1], k)]

LEMMA NumberLoop ==
  ASSUME NEW b, NEW p, NEW base, NEW m \in Nat
  PROVE  \E g : NumberUnfolds(b, p, base, g, m)
<1> DEFINE T == {k \in Nat : ~\E g : NumberUnfolds(b, p, base, g, k)}
<1> SUFFICES ASSUME m \in T PROVE FALSE
  OBVIOUS
<1>1. PICK k \in T : \A j \in T : k <= j
  BY LeastNat
<1>2. k # 0
  <2> SUFFICES ASSUME k = 0 PROVE FALSE
    OBVIOUS
  <2>1. NumberUnfolds(b, p, base, [n \in 0..0 |-> 0], 0)
    BY DEF NumberUnfolds
  <2> QED
    BY <2>1
<1>3. k - 1 \in Nat /\ k - 1 \notin T
  BY <1>1, <1>2
<1>4. PICK g : NumberUnfolds(b, p, base, g, k - 1)
  BY <1>3
<1> DEFINE h == [n \in 0..k |-> IF n <= k - 1 THEN g[n] ELSE DigitStep(b, p, base, g[k - 1], k)]
<1>5. \A n \in 0..k : h[n] = IF n = 0 THEN 0 ELSE DigitStep(b, p, base, h[n - 1], n)
  BY <1>2, <1>3, <1>4 DEF NumberUnfolds
<1>6. NumberUnfolds(b, p, base, h, k)
  BY <1>5 DEF NumberUnfolds
<1> QED
  BY <1>6

LEMMA NumberEquation ==
  ASSUME NEW b, NEW p, NEW base, NEW n \in Nat
  PROVE  \E g : NumberUnfolds(b, p, base, g, n) /\ Number(b, p, n, base) = g[n]
<1> DEFINE g == CHOOSE f : NumberUnfolds(b, p, base, f, n)
<1>1. NumberUnfolds(b, p, base, g, n)
  BY NumberLoop
<1>2. Number(b, p, n, base) = g[n]
  BY DEF Number, NumberUnfolds, DigitStep
<1> QED
  BY <1>1, <1>2

\* The powers of the base up to a number's length.
Powers(base, k) ==
  /\ base^0 = 1
  /\ \A j \in 1..k : base^j = base * base^(j - 1)

\* The lowest digits of n are in k bytes.
DigitsAt(b, p, n, k, base) ==
  \A j \in 1..k : b[p + j - 1] % base = (n \div base^(j - 1)) % base

\* However many bytes a number has, its digits are read.
LEMMA NumberOf ==
  ASSUME NEW n \in Int, NEW k \in Nat, k > 0, NEW base \in Nat, base > 0,
         NEW b, NEW p \in Int, Powers(base, k - 1), DigitsAt(b, p, n, k, base)
  PROVE  /\ base^(k - 1) \in Nat /\ base^(k - 1) > 0
         /\ Number(b, p, k, base) = Digits(n, base^(k - 1), base)
<1>1. PICK g : NumberUnfolds(b, p, base, g, k) /\ Number(b, p, k, base) = g[k]
  BY NumberEquation
<1> DEFINE P(j) == base^j
           Right(j) == P(j) \in Nat /\ P(j) > 0 /\ g[j] = n % P(j)
           Wrong == {j \in 0..(k - 1) : ~Right(j)}
<1> HIDE DEF P
<1>2. P(0) = 1 /\ \A j \in 1..(k - 1) : P(j) = base * P(j - 1)
  BY DEF P, Powers
<1>3. \A j \in 1..k : g[j] = g[j - 1] + ((n \div P(j - 1)) % base) * P(j - 1)
  BY <1>1 DEF NumberUnfolds, DigitStep, P, DigitsAt
<1>4. g[0] = 0
  BY <1>1 DEF NumberUnfolds
<1>5. Right(0)
  <2>1. n = 1 * n + 0
    OBVIOUS
  <2>2. n % 1 = 0
    BY <2>1, DivUnique
  <2> QED
    BY <1>2, <1>4, <2>2
<1>6. ASSUME NEW j \in 1..(k - 1), Right(j - 1)
      PROVE  Right(j)
  <2>1. g[j] = Digits(n, P(j - 1), base)
    BY <1>3, <1>6 DEF Digits
  <2>2. P(j) = base * P(j - 1)
    BY <1>2
  <2> DEFINE Q == P(j - 1)
  <2>3. Q \in Nat /\ Q > 0
    BY <1>6
  <2> HIDE DEF Q
  <2>4. base * Q \in Nat /\ base * Q > 0 /\ Digits(n, Q, base) = n % (base * Q)
    BY <2>3, NextDigit
  <2> QED
    BY <2>1, <2>2, <2>4 DEF Q
<1>7. Wrong = {}
  <2> SUFFICES ASSUME Wrong # {} PROVE FALSE
    OBVIOUS
  <2>1. Wrong \in SUBSET Nat
    OBVIOUS
  <2>2. PICK j \in Wrong : \A i \in Wrong : j <= i
    BY <2>1, LeastNat
  <2>3. j # 0
    BY <1>5, <2>2
  <2>4. j \in 1..(k - 1) /\ j - 1 \in 0..(k - 1) /\ ~(j <= j - 1)
    BY <2>2, <2>3
  <2>5. Right(j - 1)
    BY <2>2, <2>4
  <2>6. Right(j)
    BY <1>6, <2>4, <2>5
  <2> QED
    BY <2>2, <2>6
<1>8. Right(k - 1)
  BY <1>7
<1>9. g[k] = Digits(n, P(k - 1), base)
  BY <1>3, <1>8 DEF Digits
<1> QED
  BY <1>1, <1>8, <1>9 DEF P

\* A digit with or without the bit that says another one follows.
LEMMA DigitOf ==
  ASSUME NEW base \in Nat, base > 0, NEW d \in 0..(base - 1)
  PROVE  d % base = d /\ (d + base) % base = d
<1>1. d = base * 0 + d /\ d + base = base * 1 + d
  OBVIOUS
<1> QED
  BY <1>1, DivUnique

\* The digits of a number in its place.
Holds(b, p, bs) == \A j \in 1..Len(bs) : b[p + j - 1] = bs[j]

LEMMA LebType ==
  ASSUME NEW n \in Int, NEW k \in Nat, \A j \in 1..k : 128^(j - 1) \in Nat /\ 128^(j - 1) > 0
  PROVE  /\ Leb(n, k) \in Seq(Nat) /\ Len(Leb(n, k)) = k
         /\ \A j \in 1..k : /\ Leb(n, k)[j] \in Nat
                            /\ Leb(n, k)[j] % 128 = (n \div 128^(j - 1)) % 128
                            /\ j < k => Leb(n, k)[j] >= 128
                            /\ j = k => Leb(n, k)[j] = (n \div 128^(j - 1)) % 128
                            /\ j = k => Leb(n, k)[j] < 128
<1>1. ASSUME NEW j \in 1..k
      PROVE  /\ Leb(n, k)[j] \in Nat
             /\ Leb(n, k)[j] % 128 = (n \div 128^(j - 1)) % 128
             /\ j < k => Leb(n, k)[j] >= 128
             /\ j = k => Leb(n, k)[j] = (n \div 128^(j - 1)) % 128
             /\ j = k => Leb(n, k)[j] < 128
  <2> DEFINE P == 128^(j - 1)
             d == (n \div P) % 128
  <2>1. P \in Nat /\ P > 0
    OBVIOUS
  <2> HIDE DEF P
  <2>2. n \div P \in Int
    BY <2>1, DivFacts
  <2>3. d \in 0..127
    BY <2>2, DivFacts
  <2>4. Leb(n, k)[j] = d + (IF j < k THEN 128 ELSE 0)
    BY DEF Leb, d, P
  <2> HIDE DEF d
  <2>5. d % 128 = d /\ (d + 128) % 128 = d
    BY <2>3, DigitOf
  <2> QED
    BY <2>3, <2>4, <2>5 DEF d, P
<1>2. Leb(n, k) = [j \in 1..k |-> Leb(n, k)[j]]
  BY DEF Leb
<1>3. Leb(n, k) \in [1..k -> Nat]
  BY <1>1, <1>2
<1>4. Leb(n, k) \in Seq(Nat)
  BY <1>3
<1>5. Len(Leb(n, k)) = k
  BY <1>3
<1> QED
  BY <1>1, <1>4, <1>5

\* A number ends with its first byte below 128.
LEMMA EndFound ==
  ASSUME NEW b, Len(b) \in Nat, NEW p \in Nat, NEW k \in Nat, k > 0, p + k - 1 <= Len(b),
         \A j \in 1..k : b[p + j - 1] \in Nat,
         \A j \in 1..(k - 1) : b[p + j - 1] >= 128, b[p + k - 1] < 128
  PROVE  LebEnd(b, p) = p + k - 1
<1> DEFINE S == {j \in p..Len(b) : b[j] < 128}
           e == p + k - 1
<1>1. e \in S
  OBVIOUS
<1>2. ASSUME NEW j \in S PROVE e <= j
  <2> SUFFICES ASSUME j < e PROVE FALSE
    OBVIOUS
  <2> DEFINE i == j - p + 1
  <2>1. i \in 1..(k - 1) /\ i \in 1..k /\ p + i - 1 = j
    OBVIOUS
  <2> HIDE DEF i
  <2>3. b[p + i - 1] >= 128 /\ b[p + i - 1] \in Nat
    BY <2>1
  <2>2. b[j] >= 128 /\ b[j] \in Nat /\ b[j] < 128
    BY <2>1, <2>3
  <2> QED
    BY <2>2
<1>3. S \in SUBSET Int /\ e \in Int
  OBVIOUS
<1>4. LebEnd(b, p) = CHOOSE x \in S : \A y \in S : x <= y
  BY DEF LebEnd, Min
<1> HIDE DEF S, e
<1>5. \A x \in S : (\A y \in S : x <= y) => x = e
  BY <1>1, <1>2, <1>3
<1> QED
  BY <1>1, <1>2, <1>4, <1>5 DEF e

LEMMA PowersGrow ==
  ASSUME NEW k \in Nat, Powers(128, k)
  PROVE  /\ \A j \in 0..k : 128^j \in Nat /\ 128^j > 0
         /\ \A i, j \in 0..k : i <= j => 128^i <= 128^j
<1> DEFINE P(j) == 128^j
<1> HIDE DEF P
<1>1. P(0) = 1 /\ \A j \in 1..k : P(j) = 128 * P(j - 1)
  BY DEF P, Powers
<1> DEFINE Good(j) == P(j) \in Nat /\ P(j) > 0 /\ \A i \in 0..j : P(i) \in Nat /\ P(i) <= P(j)
           Wrong == {j \in 0..k : ~Good(j)}
<1>2. Good(0)
  BY <1>1
<1>3. ASSUME NEW j \in 1..k, Good(j - 1) PROVE Good(j)
  <2>1. P(j) = 128 * P(j - 1)
    BY <1>1
  <2>2. P(j) \in Nat /\ P(j) > 0 /\ P(j - 1) <= P(j)
    BY <1>3, <2>1
  <2>3. ASSUME NEW i \in 0..j PROVE P(i) \in Nat /\ P(i) <= P(j)
    <3>1. CASE i = j
      BY <2>2, <3>1
    <3>2. CASE i # j
      <4>1. i \in 0..(j - 1)
        BY <3>2
      <4>2. P(i) \in Nat /\ P(i) <= P(j - 1)
        BY <1>3, <4>1
      <4> QED
        BY <1>3, <2>2, <4>2
    <3> QED
      BY <3>1, <3>2
  <2> QED
    BY <2>2, <2>3
<1>4. Wrong = {}
  <2> SUFFICES ASSUME Wrong # {} PROVE FALSE
    OBVIOUS
  <2>1. Wrong \in SUBSET Nat
    OBVIOUS
  <2>2. PICK j \in Wrong : \A i \in Wrong : j <= i
    BY <2>1, LeastNat
  <2>3. j # 0
    BY <1>2, <2>2
  <2>4. j \in 1..k /\ j - 1 \in 0..k /\ ~(j <= j - 1)
    BY <2>2, <2>3
  <2>5. Good(j - 1)
    BY <2>2, <2>4
  <2>6. Good(j)
    BY <1>3, <2>4, <2>5
  <2> QED
    BY <2>2, <2>6
<1>5. \A j \in 0..k : Good(j)
  BY <1>4
<1>6. \A j \in 0..k : P(j) \in Nat /\ P(j) > 0
  BY <1>5
<1>7. \A i, j \in 0..k : i <= j => P(i) <= P(j)
  BY <1>5
<1> QED
  BY <1>6, <1>7 DEF P

\* A number encoded in k bytes: where it ends, its last byte, and the bits read.
LEMMA LebRead ==
  ASSUME NEW n \in Int, NEW k \in Nat, k > 0, Powers(128, k),
         NEW b, Len(b) \in Nat, NEW p \in Nat, p + k - 1 <= Len(b), Holds(b, p, Leb(n, k))
  PROVE  /\ LebEnd(b, p) = p + k - 1
         /\ b[p + k - 1] = (n \div 128^(k - 1)) % 128
         /\ LebBits(b, p) = Digits(n, 128^(k - 1), 128)
<1> DEFINE l == Leb(n, k)
<1>1. \A j \in 1..k : 128^(j - 1) \in Nat /\ 128^(j - 1) > 0
  BY PowersGrow
<1>2. /\ l \in Seq(Nat) /\ Len(l) = k
      /\ \A j \in 1..k : /\ l[j] \in Nat
                         /\ l[j] % 128 = (n \div 128^(j - 1)) % 128
                         /\ j < k => l[j] >= 128
                         /\ j = k => l[j] = (n \div 128^(j - 1)) % 128
                         /\ j = k => l[j] < 128
  BY <1>1, LebType
<1>3. \A j \in 1..k : b[p + j - 1] = l[j]
  BY <1>2 DEF Holds
<1> HIDE DEF l
<1>4. \A j \in 1..k : b[p + j - 1] \in Nat /\ b[p + j - 1] % 128 = (n \div 128^(j - 1)) % 128
  BY <1>2, <1>3, ZenonT(60)
<1>5. ASSUME NEW j \in 1..(k - 1) PROVE b[p + j - 1] >= 128
  <2>1. j \in 1..k /\ j < k
    OBVIOUS
  <2> QED
    BY <1>2, <1>3, <2>1
<1>6. b[p + k - 1] < 128 /\ b[p + k - 1] = (n \div 128^(k - 1)) % 128
  BY <1>2, <1>3
<1>7. LebEnd(b, p) = p + k - 1
  BY <1>4, <1>5, <1>6, EndFound
<1>8. Number(b, p, k, 128) = Digits(n, 128^(k - 1), 128)
  <2>1. Powers(128, k - 1)
    BY DEF Powers
  <2>2. DigitsAt(b, p, n, k, 128)
    BY <1>4 DEF DigitsAt
  <2> QED
    BY <2>1, <2>2, NumberOf
<1>9. LebBits(b, p) = Number(b, p, k, 128)
  <2>1. LebEnd(b, p) - p + 1 = k
    BY <1>7
  <2> QED
    BY <2>1 DEF LebBits
<1> QED
  BY <1>6, <1>7, <1>8, <1>9

-----------------------------------------------------------------------------
(* The getters.                                                              *)

Half == 2^(Width - 1)

LEMMA Halves ==
  ASSUME PowersRight
  PROVE  Half \in Nat /\ Half > 0 /\ 2^Width = 2 * Half /\ 2^Width \in Nat /\ 2^Width > 0
<1>1. Half \in Nat \ {0} /\ 2^Width = 2 * Half
  BY DEF PowersRight, Half
<1> QED
  BY <1>1

\* A number in the range of an int is what is left of it and a multiple of 2^Width.
LEMMA SignedOf ==
  ASSUME PowersRight, NEW n \in -Half..(Half - 1), NEW c \in Int, c % 2^Width = 0
  PROVE  Signed(n + c) = n
<1> DEFINE M == 2^Width
           e == c \div M
           m == (n + c) % M
<1>1. Half \in Nat /\ Half > 0 /\ M = 2 * Half /\ M \in Nat /\ M > 0
  BY Halves
<1> HIDE DEF M
<1>2. c = M * e /\ e \in Int
  <2>1. c = M * e + (c % M) /\ e \in Int
    BY <1>1, DivFacts
  <2>2. c % M = 0
    BY DEF M
  <2> QED
    BY <1>1, <2>1, <2>2
<1> HIDE DEF e
<1>3. Signed(n + c) = IF m >= Half THEN m - M ELSE m
  BY DEF Signed, Half, M
<1>4. CASE n >= 0
  <2>1. n + c = M * e + n /\ n \in Nat /\ n < M /\ n + c \in Int
    BY <1>1, <1>2, <1>4
  <2>2. m = n
    BY <1>1, <1>2, <2>1, DivUnique
  <2> QED
    BY <1>1, <1>3, <2>2
<1>5. CASE n < 0
  <2>1. M * (e - 1) = M * e - M
    BY <1>1, <1>2
  <2>2. n + c = M * (e - 1) + (n + M) /\ n + M \in Nat /\ n + M < M /\ n + c \in Int /\ e - 1 \in Int
    BY <1>1, <1>2, <1>5, <2>1
  <2>3. m = n + M
    BY <1>1, <2>2, DivUnique
  <2> QED
    BY <1>1, <1>3, <1>5, <2>3
<1> QED
  BY <1>4, <1>5

LEMMA ZeroMod ==
  ASSUME PowersRight
  PROVE  0 % 2^Width = 0
<1> DEFINE M == 2^Width
<1>1. M \in Nat /\ M > 0
  BY Halves
<1> HIDE DEF M
<1>2. 0 = M * 0 + 0
  BY <1>1
<1>3. 0 % M = 0
  BY <1>1, <1>2, DivUnique
<1> QED
  BY <1>3 DEF M

LEMMA SignedSame ==
  ASSUME PowersRight, NEW n \in -Half..(Half - 1)
  PROVE  Signed(n) = n
<1>1. n \in Int /\ n + 0 = n
  BY Halves
<1>2. Signed(n + 0) = n
  BY ZeroMod, SignedOf
<1> QED
  BY <1>1, <1>2

LEMMA Sizes ==
  MaxLebSize \in Nat \ {0}
<1>1. Width \div 7 \in Nat
  BY ReaderAssumption
<1> QED
  BY <1>1 DEF MaxLebSize

LEMMA PowersKnown ==
  ASSUME PowersRight, NEW padding \in Paddings \cup {0}
  PROVE  padding \in Nat /\ Powers(128, MaxLebSize + padding)
<1>1. padding \in Nat
  BY ReaderAssumption
<1>2. 128^0 = 1 /\ \A k \in 1..(MaxLebSize + padding) : 128^k = 128 * 128^(k - 1)
  BY DEF PowersRight
<1> QED
  BY <1>1, <1>2 DEF Powers

\* A number fits its least number of bytes.
FitsLeb(o, k) ==
  IF o.kind = "sleb" THEN -64 * 128^(k - 1) <= o.value /\ o.value < 64 * 128^(k - 1)
                     ELSE o.value < 128^k

LEMMA LebSizeRight ==
  ASSUME PowersRight, NEW o, OperandRight(o), o.kind \in {"leb", "sleb", "block"}
  PROVE  LebSize(o) \in 1..MaxLebSize /\ FitsLeb(o, LebSize(o))
<1> DEFINE M == MaxLebSize
           S == {k \in 1..M : FitsLeb(o, k)}
<1>1. M \in Nat /\ M > 0
  BY Sizes
<1>2. Half \in Nat /\ Half > 0 /\ 2^Width = 2 * Half
  BY Halves
<1>3. 2^Width <= 128^M /\ 128^M = 128 * 128^(M - 1) /\ 128^(M - 1) \in Nat
  <2>1. Powers(128, M + 0)
    BY PowersKnown
  <2>2. Powers(128, M)
    BY <1>1, <2>1
  <2>3. 128^M = 128 * 128^(M - 1)
    BY <1>1, <2>2 DEF Powers
  <2>4. M - 1 \in 0..M
    BY <1>1
  <2>5. 128^(M - 1) \in Nat
    BY <1>1, <2>2, <2>4, PowersGrow
  <2> QED
    BY <2>3, <2>5 DEF PowersRight
<1>4. FitsLeb(o, M)
  <2>1. CASE o.kind = "sleb"
    <3>1. o.value \in -Half..(Half - 1)
      BY <2>1 DEF OperandRight, Half
    <3>2. Half <= 64 * 128^(M - 1)
      BY <1>2, <1>3
    <3>3. -64 * 128^(M - 1) <= o.value /\ o.value < 64 * 128^(M - 1)
      BY <1>2, <1>3, <3>1, <3>2
    <3> QED
      BY <2>1, <3>3 DEF FitsLeb
  <2>2. CASE o.kind \in {"leb", "block"}
    <3>1. o.value \in 0..(2^Width - 1)
      BY <2>2 DEF OperandRight
    <3>2. o.value < 128^M
      BY <1>2, <1>3, <3>1
    <3> QED
      BY <2>2, <3>2 DEF FitsLeb
  <2> QED
    BY <2>1, <2>2
<1>5. M \in S
  BY <1>1, <1>4
<1>6. S \in SUBSET Nat /\ S # {}
  BY <1>5
<1>7. LebSize(o) = CHOOSE x \in S : \A y \in S : x <= y
  BY DEF LebSize, Min, FitsLeb
<1> HIDE DEF S
<1>8. \E x \in S : \A y \in S : x <= y
  BY <1>6, LeastNat
<1>9. LebSize(o) \in S
  BY <1>7, <1>8
<1> QED
  BY <1>9 DEF S

LEMMA DivBetween ==
  ASSUME NEW n \in Int, NEW P \in Nat, P > 0, NEW lo \in Int, NEW hi \in Int,
         P * lo <= n, n < P * hi
  PROVE  n \div P \in lo..(hi - 1)
<1> DEFINE q == n \div P
           r == n % P
<1>1. n = P * q + r /\ q \in Int /\ r \in Nat /\ r < P
  BY DivFacts
<1> HIDE DEF q, r
<1>2. q < hi
  <2> SUFFICES ASSUME q >= hi PROVE FALSE
    BY <1>1
  <2>1. q - hi \in Nat
    BY <1>1
  <2>2. P * (q - hi) >= 0
    BY <2>1
  <2>3. P * (q - hi) = P * q - P * hi
    BY <1>1
  <2> QED
    BY <1>1, <2>2, <2>3
<1>3. q >= lo
  <2> SUFFICES ASSUME q <= lo - 1 PROVE FALSE
    BY <1>1
  <2>1. lo - 1 - q \in Nat
    BY <1>1
  <2>2. P * (lo - 1 - q) >= 0
    BY <2>1
  <2>3. P * (lo - 1 - q) = P * lo - P - P * q
    BY <1>1
  <2> QED
    BY <1>1, <2>2, <2>3
<1> QED
  BY <1>1, <1>2, <1>3 DEF q

\* The length of an encoded number.
LebLen(o, padding) == LebSize(o) + padding

LEMMA LebFits ==
  ASSUME PowersRight, NEW o, OperandRight(o), o.kind \in {"leb", "sleb", "block"},
         NEW padding \in Paddings \cup {0}
  PROVE  LET k == LebLen(o, padding)
         IN  /\ k \in Nat /\ k > 0 /\ Powers(128, k) /\ o.value \in Int
             /\ k <= MaxLebSize + padding
             /\ 128^(k - 1) \in Nat /\ 128^(k - 1) > 0 /\ 128^k = 128 * 128^(k - 1)
             /\ o.kind = "sleb" => o.value \div 128^(k - 1) \in -64..63
             /\ o.kind # "sleb" => o.value \div 128^(k - 1) \in 0..127
<1> DEFINE k == LebLen(o, padding)
           s == LebSize(o)
           n == o.value
           P(j) == 128^j
<1>1. s \in 1..MaxLebSize /\ FitsLeb(o, s)
  BY LebSizeRight
<1>2. padding \in Nat /\ Powers(128, MaxLebSize + padding) /\ MaxLebSize \in Nat
  BY PowersKnown, Sizes
<1> HIDE DEF s
<1>3. k \in Nat /\ k > 0 /\ k = s + padding /\ k <= MaxLebSize + padding
  BY <1>1, <1>2 DEF LebLen, s
<1> HIDE DEF k
<1>4. Powers(128, k)
  BY <1>1, <1>2, <1>3 DEF Powers
<1>5. /\ P(0) = 1 /\ \A j \in 1..k : P(j) = 128 * P(j - 1)
      /\ \A j \in 0..k : P(j) \in Nat /\ P(j) > 0
      /\ \A i, j \in 0..k : i <= j => P(i) <= P(j)
  BY <1>3, <1>4, PowersGrow, ZenonT(60) DEF Powers
<1> HIDE DEF P
<1> DEFINE Q == P(k - 1)
           R == P(s - 1)
<1>6. Q \in Nat /\ Q > 0 /\ P(k) = 128 * Q /\ R \in Nat /\ R <= Q /\ P(s) = 128 * R
  <2>1. k - 1 \in 0..k /\ s - 1 \in 0..k /\ s - 1 <= k - 1 /\ k \in 1..k /\ s \in 1..k
    BY <1>1, <1>2, <1>3
  <2> QED
    BY <1>5, <2>1
<1> HIDE DEF Q, R
<1>7. n \in Int /\ (o.kind # "sleb" => n >= 0)
  <2>1. CASE o.kind = "sleb"
    <3>1. n \in -Half..(Half - 1)
      BY <2>1 DEF OperandRight, Half
    <3> QED
      BY <2>1, <3>1, Halves
  <2>2. CASE o.kind \in {"leb", "block"}
    <3>1. n \in 0..(2^Width - 1)
      BY <2>2 DEF OperandRight
    <3> QED
      BY <2>2, <3>1, Halves
  <2> QED
    BY <2>1, <2>2
<1> HIDE DEF n
<1>8. CASE o.kind = "sleb"
  <2>1. -64 * R <= n /\ n < 64 * R
    BY <1>1, <1>8 DEF FitsLeb, n, P, R
  <2>2. Q * (-64) <= n /\ n < Q * 64
    BY <1>6, <1>7, <2>1
  <2>3. n \div Q \in (-64)..(64 - 1)
    BY <1>6, <1>7, <2>2, DivBetween
  <2> QED
    BY <1>3, <1>4, <1>6, <1>7, <1>8, <2>3 DEF n, P, Q, k
<1>9. CASE o.kind # "sleb"
  <2>1. n < P(s)
    BY <1>1, <1>9 DEF FitsLeb, n, P
  <2>2. Q * 0 <= n /\ n < Q * 128
    BY <1>6, <1>7, <1>9, <2>1
  <2>3. n \div Q \in 0..(128 - 1)
    BY <1>6, <1>7, <2>2, DivBetween
  <2> QED
    BY <1>3, <1>4, <1>6, <1>7, <1>9, <2>3 DEF n, P, Q, k
<1> QED
  BY <1>8, <1>9

\* A LEB128 number is read as it was encoded, with its sign or without.
LEMMA NumberRead ==
  ASSUME PowersRight, NEW o, OperandRight(o), o.kind \in {"leb", "sleb", "block"},
         NEW padding \in Paddings \cup {0}, NEW b, Len(b) \in Nat, NEW p \in Nat,
         p + LebLen(o, padding) - 1 <= Len(b), Holds(b, p, Leb(o.value, LebLen(o, padding)))
  PROVE  /\ LebEnd(b, p) = p + LebLen(o, padding) - 1
         /\ o.kind = "sleb" => getSLeb(b, p) = o.value
         /\ o.kind # "sleb" => getLeb(b, p) = o.value
<1> DEFINE k == LebLen(o, padding)
           n == o.value
           Q == 128^(k - 1)
           q == n \div Q
<1>1. /\ k \in Nat /\ k > 0 /\ Powers(128, k) /\ n \in Int
      /\ k <= MaxLebSize + padding
      /\ Q \in Nat /\ Q > 0 /\ 128^k = 128 * Q
      /\ o.kind = "sleb" => q \in -64..63
      /\ o.kind # "sleb" => q \in 0..127
  BY LebFits
<1>2. /\ LebEnd(b, p) = p + k - 1
      /\ b[p + k - 1] = q % 128
      /\ LebBits(b, p) = Digits(n, Q, 128)
  <2>1. p + k - 1 <= Len(b) /\ Holds(b, p, Leb(n, k))
    OBVIOUS
  <2> HIDE DEF k, n, Q, q
  <2>2. LebEnd(b, p) = p + k - 1 /\ b[p + k - 1] = (n \div 128^(k - 1)) % 128
        /\ LebBits(b, p) = Digits(n, 128^(k - 1), 128)
    BY <1>1, <2>1, LebRead
  <2> QED
    BY <2>2 DEF Q, q
<1> HIDE DEF k, n, Q
<1>3. /\ q \in 0..127 => Digits(n, Q, 128) = n
      /\ q \in -128..(-1) => Digits(n, Q, 128) = n + 128 * Q
  <2> DEFINE base == 128
  <2>1. base \in Nat /\ base > 0
    OBVIOUS
  <2> HIDE DEF base
  <2>2. /\ n \div Q \in 0..(base - 1) => Digits(n, Q, base) = n
        /\ n \div Q \in -base..(-1) => Digits(n, Q, base) = n + base * Q
    BY <1>1, <2>1, AllDigits
  <2> QED
    BY <2>2 DEF base
<1> HIDE DEF q
<1>4. ASSUME o.kind # "sleb" PROVE getLeb(b, p) = n
  <2>1. LebBits(b, p) = n
    BY <1>1, <1>2, <1>3, <1>4
  <2> DEFINE W == 2^Width
  <2>2. W \in Nat /\ W > 0
    BY Halves
  <2>3. n \in 0..(W - 1)
    BY <1>4 DEF OperandRight, n, W
  <2> HIDE DEF W
  <2>4. n = W * 0 + n /\ n \in Nat /\ n < W
    BY <2>2, <2>3
  <2>5. n % W = n
    BY <2>2, <2>4, DivUnique
  <2> QED
    BY <2>1, <2>5 DEF getLeb, W
<1>5. ASSUME o.kind = "sleb" PROVE getSLeb(b, p) = n
  <2>1. n \in -Half..(Half - 1)
    BY <1>5 DEF OperandRight, n, Half
  <2>2. LebEnd(b, p) - p + 1 = k
    BY <1>1, <1>2
  <2>3. getSLeb(b, p) = IF b[p + k - 1] >= 64 /\ 7 * k < Width
                          THEN Signed(LebBits(b, p) - 2^(7 * k)) ELSE Signed(LebBits(b, p))
    BY <1>2, <2>2 DEF getSLeb
  <2>4. CASE q \in 0..63
    <3>1. q = 128 * 0 + q /\ q \in Nat /\ q < 128
      BY <2>4
    <3>2. q % 128 = q
      BY <3>1, DivUnique
    <3>3. ~(b[p + k - 1] >= 64)
      BY <1>2, <2>4, <3>2
    <3>4. LebBits(b, p) = n
      BY <1>2, <1>3, <2>4
    <3> QED
      BY <2>1, <2>3, <3>3, <3>4, SignedSame
  <2>5. CASE q \in -64..(-1)
    <3>1. q = 128 * (-1) + (q + 128) /\ q + 128 \in Nat /\ q + 128 < 128
      BY <2>5
    <3>2. q % 128 = q + 128
      BY <2>5, <3>1, DivUnique
    <3>3. b[p + k - 1] >= 64
      BY <1>2, <2>5, <3>2
    <3>4. LebBits(b, p) = n + 128 * Q
      BY <1>2, <1>3, <2>5
    <3>5. k \in 1..(MaxLebSize + padding)
      BY <1>1, PowersKnown, Sizes
    <3>6. IF 7 * k < Width THEN 2^(7 * k) = 128^k ELSE 128^k % 2^Width = 0
      BY <3>5 DEF PowersRight
    <3>7. CASE 7 * k < Width
      <4>1. LebBits(b, p) - 2^(7 * k) = n
        BY <1>1, <3>4, <3>6, <3>7
      <4> QED
        BY <2>1, <2>3, <3>3, <3>7, <4>1, SignedSame
    <3>8. CASE ~(7 * k < Width)
      <4> DEFINE c == 128 * Q
      <4>1. c \in Int /\ c % 2^Width = 0
        BY <1>1, <3>6, <3>8
      <4> HIDE DEF c
      <4>2. Signed(n + c) = n
        BY <2>1, <4>1, SignedOf
      <4> QED
        BY <2>3, <3>4, <3>8, <4>2 DEF c
    <3> QED
      BY <3>7, <3>8
  <2> QED
    BY <1>1, <1>5, <2>4, <2>5
<1> QED
  BY <1>2, <1>4, <1>5 DEF k, n

-----------------------------------------------------------------------------
(* Operands.                                                                 *)

FixedKinds == {"u8", "s8", "u16", "s16", "u32"}
Kinds == {"leb", "sleb", "block"} \cup FixedKinds
Operands == [kind : Kinds, value : Int]

LEMMA SizesFixed ==
  /\ DOMAIN Size = FixedKinds
  /\ Size["u8"] = 1 /\ Size["s8"] = 1 /\ Size["u16"] = 2 /\ Size["s16"] = 2 /\ Size["u32"] = 4
BY DEF Size, FixedKinds

LEMMA PowersFixed ==
  ASSUME PowersRight, NEW kind \in FixedKinds
  PROVE  /\ Size[kind] \in 1..4 /\ Powers(256, Size[kind] - 1)
         /\ \A j \in 1..Size[kind] : 256^(j - 1) \in Nat /\ 256^(j - 1) > 0
<1> DEFINE P(j) == 256^j
<1>1. Size[kind] \in 1..4
  BY SizesFixed DEF FixedKinds
<1>2. P(0) = 1 /\ \A j \in 1..3 : P(j) = 256 * P(j - 1)
  BY DEF PowersRight
<1>3. Powers(256, Size[kind] - 1)
  <2>1. \A j \in 1..(Size[kind] - 1) : j \in 1..3
    BY <1>1
  <2> QED
    BY <1>2, <2>1 DEF Powers
<1> HIDE DEF P
<1>4. P(0) = 1 /\ P(1) = 256 /\ P(2) = 65536 /\ P(3) = 16777216
  <2>1. P(1) = 256 * P(1 - 1) /\ P(2) = 256 * P(2 - 1) /\ P(3) = 256 * P(3 - 1)
    BY <1>2
  <2> QED
    BY <1>2, <2>1
<1>5. \A j \in 1..Size[kind] : j - 1 \in 0..3
  BY <1>1
<1>6. \A i \in 0..3 : P(i) \in Nat /\ P(i) > 0
  BY <1>4
<1> QED
  BY <1>1, <1>3, <1>5, <1>6 DEF P

FixedBytes(n, k) == [j \in 1..k |-> (n \div 256^(j - 1)) % 256]

LEMMA FixedType ==
  ASSUME NEW n \in Int, NEW k \in Nat, \A j \in 1..k : 256^(j - 1) \in Nat /\ 256^(j - 1) > 0
  PROVE  /\ FixedBytes(n, k) \in Seq(Nat) /\ Len(FixedBytes(n, k)) = k
         /\ \A j \in 1..k : FixedBytes(n, k)[j] % 256 = (n \div 256^(j - 1)) % 256
<1> DEFINE f == FixedBytes(n, k)
<1>1. ASSUME NEW j \in 1..k
      PROVE  f[j] \in Nat /\ f[j] % 256 = (n \div 256^(j - 1)) % 256
  <2> DEFINE P == 256^(j - 1)
             d == (n \div P) % 256
  <2>1. P \in Nat /\ P > 0
    OBVIOUS
  <2>2. f[j] = d
    BY DEF FixedBytes
  <2> HIDE DEF P, f
  <2>3. n \div P \in Int
    BY <2>1, DivFacts
  <2>4. d \in 0..255
    BY <2>3, DivFacts
  <2> HIDE DEF d
  <2>5. d % 256 = d
    BY <2>4, DigitOf
  <2> QED
    BY <2>2, <2>4, <2>5 DEF d, P
<1>2. f = [j \in 1..k |-> f[j]]
  BY DEF FixedBytes
<1> HIDE DEF f
<1>3. f \in [1..k -> Nat]
  BY <1>1, <1>2
<1>4. f \in Seq(Nat) /\ Len(f) = k
  BY <1>3
<1> QED
  BY <1>1, <1>4 DEF f

LEMMA FixedRead ==
  ASSUME PowersRight, NEW kind \in FixedKinds, NEW n \in Int, NEW b, NEW p \in Nat,
         Holds(b, p, FixedBytes(n, Size[kind]))
  PROVE  /\ 256^(Size[kind] - 1) \in Nat /\ 256^(Size[kind] - 1) > 0
         /\ Fixed(b, p, Size[kind]) = Digits(n, 256^(Size[kind] - 1), 256)
<1> DEFINE k == Size[kind]
<1>1. /\ k \in 1..4 /\ Powers(256, k - 1)
      /\ \A j \in 1..k : 256^(j - 1) \in Nat /\ 256^(j - 1) > 0
  BY PowersFixed
<1> HIDE DEF k
<1>2. /\ Len(FixedBytes(n, k)) = k
      /\ \A j \in 1..k : FixedBytes(n, k)[j] % 256 = (n \div 256^(j - 1)) % 256
  <2>1. k \in Nat
    BY <1>1
  <2>2. \A j \in 1..k : 256^(j - 1) \in Nat /\ 256^(j - 1) > 0
    BY <1>1
  <2> QED
    BY <2>1, <2>2, FixedType, ZenonT(60)
<1>3. DigitsAt(b, p, n, k, 256)
  BY <1>2 DEF Holds, DigitsAt, k
<1>4. Number(b, p, k, 256) = Digits(n, 256^(k - 1), 256)
  BY <1>1, <1>3, NumberOf
<1>5. 256^(k - 1) \in Nat /\ 256^(k - 1) > 0
  BY <1>1
<1> QED
  BY <1>4, <1>5 DEF Fixed, k

\* What a getter of a fixed size makes of the bytes.
FixedValue(kind, u) ==
  IF kind \in {"s8", "s16"} /\ 2 * u >= 256^Size[kind] THEN u - 256^Size[kind] ELSE u

LEMMA FixedRight ==
  ASSUME PowersRight, NEW o \in Operands, o.kind \in FixedKinds, OperandRight(o), NEW b, NEW p \in Nat,
         Holds(b, p, FixedBytes(o.value, Size[o.kind]))
  PROVE  FixedValue(o.kind, Fixed(b, p, Size[o.kind])) = o.value
<1> DEFINE k == Size[o.kind]
           n == o.value
           Q == 256^(k - 1)
           q == n \div Q
           u == Fixed(b, p, k)
<1>1. Q \in Nat /\ Q > 0 /\ u = Digits(n, Q, 256) /\ n \in Int
  BY FixedRead DEF Operands
<1>2. /\ q \in 0..255 => Digits(n, Q, 256) = n
      /\ q \in -256..(-1) => Digits(n, Q, 256) = n + 256 * Q
  <2> DEFINE base == 256
  <2>1. base \in Nat /\ base > 0
    OBVIOUS
  <2> HIDE DEF base, n, Q
  <2>2. /\ n \div Q \in 0..(base - 1) => Digits(n, Q, base) = n
        /\ n \div Q \in -base..(-1) => Digits(n, Q, base) = n + base * Q
    BY <1>1, <2>1, AllDigits
  <2> QED
    BY <2>2 DEF base
<1>3. CASE o.kind \in {"s8", "s16"}
  <2>1. n \in -(128 * Q)..((128 * Q) - 1)
    BY <1>3 DEF OperandRight
  <2>2. 256^k = 256 * Q
    <3>1. k \in 1..3
      BY <1>3, SizesFixed
    <3> QED
      BY <3>1 DEF PowersRight
  <2>3. FixedValue(o.kind, u) = IF 2 * u >= 256^k THEN u - 256^k ELSE u
    BY <1>3 DEF FixedValue
  <2>4. Q * (-128) <= n /\ n < Q * 128
    BY <1>1, <2>1
  <2> HIDE DEF n, Q, q, u, k
  <2>9. n \in Int /\ Q \in Nat /\ Q > 0
    BY <1>1
  <2>10. -128 \in Int /\ 128 \in Int
    OBVIOUS
  <2>5. n \div Q \in (-128)..(128 - 1)
    BY <2>4, <2>9, <2>10, DivBetween, ZenonT(60)
  <2>6. q \in -128..127
    BY <2>5 DEF q
  <2>7. CASE q >= 0
    <3>1. u = n
      BY <1>1, <1>2, <2>6, <2>7
    <3>2. ~(2 * u >= 256 * Q)
      BY <1>1, <2>1, <3>1
    <3> QED
      BY <2>2, <2>3, <3>1, <3>2 DEF n, u, k
  <2>8. CASE q < 0
    <3>1. u = n + 256 * Q
      BY <1>1, <1>2, <2>6, <2>8
    <3>2. 2 * u >= 256 * Q
      BY <1>1, <2>1, <3>1
    <3>3. u - 256 * Q = n
      BY <1>1, <3>1
    <3> QED
      BY <2>2, <2>3, <3>2, <3>3 DEF n, u, k
  <2> QED
    BY <2>6, <2>7, <2>8
<1>4. CASE o.kind \in {"u8", "u16", "u32"}
  <2>1. n \in Nat /\ q < 256
    BY <1>4 DEF OperandRight
  <2>2. Q * 0 <= n
    BY <1>1, <2>1
  <2>3. q \in 0..255
    <3> HIDE DEF n, Q
    <3>1. n = Q * q + (n % Q) /\ q \in Int /\ n % Q \in Nat /\ n % Q < Q
      BY <1>1, DivFacts
    <3> HIDE DEF q
    <3> DEFINE r == n % Q
    <3>2. r \in Nat /\ r < Q /\ n = Q * q + r
      BY <3>1
    <3> HIDE DEF r
    <3>3. ASSUME q <= -1 PROVE FALSE
      <4>1. -1 - q \in Nat
        BY <3>1, <3>3
      <4>2. Q * (-1 - q) >= 0
        BY <1>1, <4>1
      <4>3. Q * (-1 - q) = -Q - Q * q
        BY <1>1, <3>1
      <4>4. Q * q \in Int
        BY <1>1, <3>1
      <4> QED
        BY <1>1, <2>1, <3>2, <4>2, <4>3, <4>4
    <3> QED
      BY <2>1, <3>1, <3>3
  <2>4. u = n
    BY <1>1, <1>2, <2>3
  <2> QED
    BY <1>4, <2>4 DEF FixedValue
<1> QED
  BY <1>3, <1>4 DEF FixedKinds

\* The bytes of an operand, and how many there are.
LEMMA BytesOf ==
  ASSUME PowersRight, NEW o \in Operands, OperandRight(o), NEW padding \in Paddings \cup {0}
  PROVE  LET ob == OperandBytes(o, padding)
         IN  /\ ob \in Seq(Nat)
             /\ o.kind \in FixedKinds =>
                  ob = FixedBytes(o.value, Size[o.kind]) /\ Len(ob) = Size[o.kind]
             /\ o.kind \notin FixedKinds =>
                  /\ LebLen(o, padding) \in Nat /\ LebLen(o, padding) > 0
                  /\ Len(ob) = LebLen(o, padding) + (IF o.kind = "block" THEN o.value ELSE 0)
                  /\ \A j \in 1..LebLen(o, padding) :
                       ob[j] = Leb(o.value, LebLen(o, padding))[j]
                  /\ Len(Leb(o.value, LebLen(o, padding))) = LebLen(o, padding)
                  /\ o.kind = "block" => o.value \in Nat
<1> DEFINE ob == OperandBytes(o, padding)
           k == LebLen(o, padding)
           l == Leb(o.value, k)
<1>1. o.kind \in Kinds /\ o.value \in Int
  BY DEF Operands
<1>2. CASE o.kind \in FixedKinds
  <2>1. ob = FixedBytes(o.value, Size[o.kind])
    BY <1>2, SizesFixed DEF OperandBytes, FixedBytes, FixedKinds
  <2>2. Size[o.kind] \in Nat /\ \A j \in 1..Size[o.kind] : 256^(j - 1) \in Nat /\ 256^(j - 1) > 0
    BY <1>2, PowersFixed
  <2>3. FixedBytes(o.value, Size[o.kind]) \in Seq(Nat)
        /\ Len(FixedBytes(o.value, Size[o.kind])) = Size[o.kind]
    BY <1>1, <2>2, FixedType
  <2> QED
    BY <1>2, <2>1, <2>3
<1>3. CASE o.kind \notin FixedKinds
  <2>1. o.kind \in {"leb", "sleb", "block"}
    BY <1>1, <1>3 DEF Kinds
  <2>2. k \in Nat /\ k > 0 /\ Powers(128, k)
    BY <2>1, LebFits
  <2> HIDE DEF k
  <2>3. \A j \in 1..k : 128^(j - 1) \in Nat /\ 128^(j - 1) > 0
    BY <2>2, PowersGrow
  <2>4. l \in Seq(Nat) /\ Len(l) = k
    BY <1>1, <2>2, <2>3, LebType
  <2>5. CASE o.kind # "block"
    <3>1. ob = l
      BY <2>1, <2>5, SizesFixed DEF OperandBytes, FixedKinds, k, LebLen
    <3> QED
      BY <1>3, <2>2, <2>4, <2>5, <3>1 DEF k
  <2>6. CASE o.kind = "block"
    <3> DEFINE z == [j \in 1..o.value |-> 0]
    <3>1. ob = l \o z
      BY <2>6, SizesFixed DEF OperandBytes, FixedKinds, k, LebLen
    <3>2. o.value \in Nat
      BY <2>6, Halves DEF OperandRight
    <3>3. z \in [1..o.value -> Nat]
      OBVIOUS
    <3>4. z \in Seq(Nat) /\ Len(z) = o.value
      BY <3>2, <3>3
    <3> HIDE DEF z, l, ob
    <3>8. l \in Seq(Nat) /\ Len(l) = k
      BY <2>4
    <3>9. l \o z \in Seq(Nat) /\ Len(l \o z) = Len(l) + Len(z)
      BY <3>4, <3>8
    <3>5. ob \in Seq(Nat) /\ Len(ob) = k + o.value
      BY <3>1, <3>4, <3>8, <3>9
    <3>6. \A j \in 1..k : ob[j] = l[j]
      BY <2>4, <3>1, <3>4
    <3>7. /\ o.kind \notin FixedKinds
          /\ Len(ob) = k + (IF o.kind = "block" THEN o.value ELSE 0)
      BY <1>3, <2>6, <3>5
    <3> QED
      BY <2>2, <2>4, <3>2, <3>5, <3>6, <3>7 DEF ob, l, k
  <2> QED
    BY <2>5, <2>6
<1> QED
  BY <1>2, <1>3

\* A getter for an encoding: a number of either sign may be skipped.
Matches(kind, how) == how = kind \/ (how = "skip" /\ kind \in {"leb", "sleb"})

\* What it is read for.
Kept(how, n) == IF how = "skip" THEN 0 ELSE n

\* A getter reads an operand for its value and stops behind its last byte.
LEMMA GetRight ==
  ASSUME PowersRight, NEW o \in Operands, OperandRight(o), NEW padding \in Paddings \cup {0},
         NEW b, Len(b) \in Nat, NEW got, got.ptr \in Nat, NEW how, Matches(o.kind, how),
         got.ptr + Len(OperandBytes(o, padding)) - 1 <= Len(b),
         Holds(b, got.ptr, OperandBytes(o, padding))
  PROVE  Get(b, got, how) = [ptr |-> got.ptr + Len(OperandBytes(o, padding)),
                             values |-> Append(got.values, Kept(how, o.value))]
<1> DEFINE ob == OperandBytes(o, padding)
           p == got.ptr
           k == LebLen(o, padding)
           l == Leb(o.value, k)
<1>1. /\ ob \in Seq(Nat)
      /\ o.kind \in FixedKinds => ob = FixedBytes(o.value, Size[o.kind]) /\ Len(ob) = Size[o.kind]
      /\ o.kind \notin FixedKinds =>
           /\ k \in Nat /\ k > 0
           /\ Len(ob) = k + (IF o.kind = "block" THEN o.value ELSE 0)
           /\ \A j \in 1..k : ob[j] = l[j]
           /\ Len(l) = k
           /\ o.kind = "block" => o.value \in Nat
  BY BytesOf
<1>2. /\ p + Len(ob) - 1 <= Len(b) /\ Holds(b, p, ob) /\ p \in Nat
  OBVIOUS
<1>5. how = "skip" => Kept(how, o.value) = 0 /\ o.kind \in {"leb", "sleb"} /\ o.kind \notin FixedKinds
  <2>1. how = "skip" /\ how = o.kind => FALSE
    BY DEF Operands, Kinds, FixedKinds
  <2> QED
    BY <2>1 DEF Matches, Kept, FixedKinds
<1>6. how # "skip" => how = o.kind /\ Kept(how, o.value) = o.value
  BY DEF Matches, Kept
<1>3. CASE o.kind \in FixedKinds
  <2>1. Holds(b, p, FixedBytes(o.value, Size[o.kind]))
    BY <1>1, <1>2, <1>3
  <2> HIDE DEF p, ob
  <2>2. FixedValue(o.kind, Fixed(b, p, Size[o.kind])) = o.value
    BY <1>2, <1>3, <2>1, FixedRight
  <2>3. o.kind \in DOMAIN Size /\ o.kind \notin {"leb", "sleb", "block"}
    BY <1>3, SizesFixed DEF FixedKinds
  <2>4. Get(b, got, o.kind) =
          [ptr |-> p + Size[o.kind],
           values |-> Append(got.values, FixedValue(o.kind, Fixed(b, p, Size[o.kind])))]
    BY <2>3 DEF Get, FixedValue, p
  <2>5. Len(ob) = Size[o.kind]
    BY <1>1, <1>3
  <2> QED
    BY <1>3, <1>5, <1>6, <2>2, <2>4, <2>5 DEF p, ob
<1>4. CASE o.kind \notin FixedKinds
  <2>1. o.kind \in {"leb", "sleb", "block"}
    BY <1>4 DEF Operands, Kinds
  <2>2. k \in Nat /\ k > 0 /\ Len(l) = k /\ \A j \in 1..k : ob[j] = l[j]
    BY <1>1, <1>4
  <2>3. Len(ob) = k + (IF o.kind = "block" THEN o.value ELSE 0) /\ Len(ob) >= k
        /\ (o.kind = "block" => o.value \in Nat)
    BY <1>1, <1>4
  <2>4. Holds(b, p, l)
    <3> HIDE DEF p, ob, l, k
    <3>1. \A j \in 1..k : b[p + j - 1] = ob[j]
      BY <1>2, <2>2, <2>3 DEF Holds
    <3> QED
      BY <2>2, <3>1 DEF Holds
  <2>5. p + k - 1 <= Len(b)
    <3> HIDE DEF p, ob, l, k
    <3>1. Len(ob) \in Int /\ Len(ob) >= k
      BY <1>1, <2>3
    <3> QED
      BY <1>2, <2>2, <3>1
  <2>6. /\ LebEnd(b, p) = p + k - 1
        /\ o.kind = "sleb" => getSLeb(b, p) = o.value
        /\ o.kind # "sleb" => getLeb(b, p) = o.value
    <3> HIDE DEF p, ob
    <3> QED
      BY <1>2, <2>1, <2>4, <2>5, NumberRead
  <2> HIDE DEF p, ob, l, k
  <2>7. LebEnd(b, p) + 1 = p + k
    BY <1>2, <2>2, <2>6
  <2>11. CASE how = "skip"
    <3>1. Get(b, got, how) = [ptr |-> LebEnd(b, p) + 1, values |-> Append(got.values, 0)]
      BY <2>11, SizesFixed DEF Get, p, FixedKinds
    <3>2. Len(ob) = k
      BY <1>5, <2>2, <2>3, <2>11
    <3> QED
      BY <1>5, <2>7, <2>11, <3>1, <3>2 DEF ob, p
  <2>8. CASE how # "skip" /\ o.kind = "leb"
    <3>1. Get(b, got, o.kind) = [ptr |-> LebEnd(b, p) + 1, values |-> Append(got.values, getLeb(b, p))]
      BY <2>8, SizesFixed DEF Get, p, FixedKinds
    <3>2. Len(ob) = k
      BY <2>2, <2>3, <2>8
    <3> QED
      BY <1>6, <2>6, <2>7, <2>8, <3>1, <3>2 DEF ob, p
  <2>9. CASE how # "skip" /\ o.kind = "sleb"
    <3>1. Get(b, got, o.kind) = [ptr |-> LebEnd(b, p) + 1, values |-> Append(got.values, getSLeb(b, p))]
      BY <2>9, SizesFixed DEF Get, p, FixedKinds
    <3>2. Len(ob) = k
      BY <2>2, <2>3, <2>9
    <3> QED
      BY <1>6, <2>6, <2>7, <2>9, <3>1, <3>2 DEF ob, p
  <2>10. CASE how # "skip" /\ o.kind = "block"
    <3>1. Get(b, got, o.kind) = [ptr |-> LebEnd(b, p) + 1 + getLeb(b, p),
                                 values |-> Append(got.values, getLeb(b, p))]
      BY <2>10, SizesFixed DEF Get, p, FixedKinds
    <3>2. Len(ob) = k + o.value
      BY <2>3, <2>10
    <3>3. LebEnd(b, p) + 1 + o.value = p + Len(ob)
      BY <1>2, <2>2, <2>3, <2>7, <2>10, <3>2
    <3> QED
      BY <1>6, <2>6, <2>10, <3>1, <3>3 DEF ob, p
  <2> QED
    BY <2>1, <2>8, <2>9, <2>10, <2>11
<1> QED
  BY <1>3, <1>4

-----------------------------------------------------------------------------
(* All operands of an instruction.                                           *)

EncodeStep(operands, padding, x, n) == x \o OperandBytes(operands[n], padding)

EncodeUnfolds(operands, padding, g, m) ==
  g = [n \in 0..m |-> IF n = 0 THEN << >> ELSE EncodeStep(operands, padding, g[n - 1], n)]

LEMMA EncodeLoop ==
  ASSUME NEW operands, NEW padding, NEW m \in Nat
  PROVE  \E g : EncodeUnfolds(operands, padding, g, m)
<1> DEFINE T == {k \in Nat : ~\E g : EncodeUnfolds(operands, padding, g, k)}
<1> SUFFICES ASSUME m \in T PROVE FALSE
  OBVIOUS
<1>1. PICK k \in T : \A j \in T : k <= j
  BY LeastNat
<1>2. k # 0
  <2> SUFFICES ASSUME k = 0 PROVE FALSE
    OBVIOUS
  <2>1. EncodeUnfolds(operands, padding, [n \in 0..0 |-> << >>], 0)
    BY DEF EncodeUnfolds
  <2> QED
    BY <2>1
<1>3. k - 1 \in Nat /\ k - 1 \notin T
  BY <1>1, <1>2
<1>4. PICK g : EncodeUnfolds(operands, padding, g, k - 1)
  BY <1>3
<1> DEFINE h == [n \in 0..k |-> IF n <= k - 1 THEN g[n] ELSE EncodeStep(operands, padding, g[k - 1], k)]
<1>5. \A n \in 0..k : h[n] = IF n = 0 THEN << >> ELSE EncodeStep(operands, padding, h[n - 1], n)
  BY <1>2, <1>3, <1>4 DEF EncodeUnfolds
<1>6. EncodeUnfolds(operands, padding, h, k)
  BY <1>5 DEF EncodeUnfolds
<1> QED
  BY <1>6

LEMMA EncodeEquation ==
  ASSUME NEW operands, NEW padding, Len(operands) \in Nat
  PROVE  \E g : EncodeUnfolds(operands, padding, g, Len(operands)) /\ Encode(operands, padding) = g[Len(operands)]
<1> DEFINE g == CHOOSE f : EncodeUnfolds(operands, padding, f, Len(operands))
<1>1. EncodeUnfolds(operands, padding, g, Len(operands))
  BY EncodeLoop
<1>2. Encode(operands, padding) = g[Len(operands)]
  BY DEF Encode, EncodeUnfolds, EncodeStep
<1> QED
  BY <1>1, <1>2

GetStep(b, hows, x, n) == Get(b, x, hows[n])

GetUnfolds(b, hows, g, m) ==
  g = [n \in 0..m |-> IF n = 0 THEN [ptr |-> 1, values |-> << >>] ELSE GetStep(b, hows, g[n - 1], n)]

LEMMA GetLoop ==
  ASSUME NEW b, NEW hows, NEW m \in Nat
  PROVE  \E g : GetUnfolds(b, hows, g, m)
<1> DEFINE T == {k \in Nat : ~\E g : GetUnfolds(b, hows, g, k)}
<1> SUFFICES ASSUME m \in T PROVE FALSE
  OBVIOUS
<1>1. PICK k \in T : \A j \in T : k <= j
  BY LeastNat
<1>2. k # 0
  <2> SUFFICES ASSUME k = 0 PROVE FALSE
    OBVIOUS
  <2>1. GetUnfolds(b, hows, [n \in 0..0 |-> [ptr |-> 1, values |-> << >>]], 0)
    BY DEF GetUnfolds
  <2> QED
    BY <2>1
<1>3. k - 1 \in Nat /\ k - 1 \notin T
  BY <1>1, <1>2
<1>4. PICK g : GetUnfolds(b, hows, g, k - 1)
  BY <1>3
<1> DEFINE h == [n \in 0..k |-> IF n <= k - 1 THEN g[n] ELSE GetStep(b, hows, g[k - 1], k)]
<1>5. \A n \in 0..k : h[n] = IF n = 0 THEN [ptr |-> 1, values |-> << >>] ELSE GetStep(b, hows, h[n - 1], n)
  BY <1>2, <1>3, <1>4 DEF GetUnfolds
<1>6. GetUnfolds(b, hows, h, k)
  BY <1>5 DEF GetUnfolds
<1> QED
  BY <1>6

LEMMA GetEquation ==
  ASSUME NEW b, NEW hows, Len(hows) \in Nat
  PROVE  \E g : GetUnfolds(b, hows, g, Len(hows)) /\ GetAll(b, hows) = g[Len(hows)]
<1> DEFINE g == CHOOSE f : GetUnfolds(b, hows, f, Len(hows))
<1>1. GetUnfolds(b, hows, g, Len(hows))
  BY GetLoop
<1>2. GetAll(b, hows) = g[Len(hows)]
  BY DEF GetAll, GetUnfolds, GetStep
<1> QED
  BY <1>1, <1>2

OperandsFit(operands) ==
  operands \in Seq(Operands) /\ \A j \in 1..Len(operands) : OperandRight(operands[j])

\* What is encoded first stays where it is.
Part(g, n, m) == Len(g[n]) <= Len(g[m]) /\ \A j \in 1..Len(g[n]) : g[m][j] = g[n][j]

LEMMA EncodeParts ==
  ASSUME PowersRight, NEW operands, OperandsFit(operands), NEW padding \in Paddings \cup {0},
         NEW g, EncodeUnfolds(operands, padding, g, Len(operands))
  PROVE  /\ g[0] = << >>
         /\ \A n \in 0..Len(operands) : g[n] \in Seq(Nat) /\ Part(g, n, Len(operands))
         /\ \A n \in 1..Len(operands) : g[n] = g[n - 1] \o OperandBytes(operands[n], padding)
<1> DEFINE N == Len(operands)
           OB(n) == OperandBytes(operands[n], padding)
<1>1. N \in Nat
  BY DEF OperandsFit
<1>2. ASSUME NEW n \in 1..N PROVE OB(n) \in Seq(Nat)
  <2>1. operands[n] \in Operands /\ OperandRight(operands[n])
    BY DEF OperandsFit
  <2> QED
    BY <2>1, BytesOf
<1>3. g[0] = << >> /\ \A n \in 1..N : g[n] = g[n - 1] \o OB(n)
  BY <1>1 DEF EncodeUnfolds, EncodeStep
<1> HIDE DEF OB, N
<1> DEFINE Good(m) == g[m] \in Seq(Nat) /\ \A n \in 0..m : g[n] \in Seq(Nat) /\ Part(g, n, m)
           Wrong == {m \in 0..N : ~Good(m)}
<1>4. Good(0)
  <2>1. g[0] \in Seq(Nat) /\ Part(g, 0, 0)
    BY <1>3 DEF Part
  <2>2. \A n \in 0..0 : n = 0
    OBVIOUS
  <2> QED
    BY <2>1, <2>2
<1>5. ASSUME NEW m \in 1..N, Good(m - 1) PROVE Good(m)
  <2> DEFINE x == g[m - 1]
             y == OB(m)
  <2>1. x \in Seq(Nat) /\ y \in Seq(Nat) /\ g[m] = x \o y
    BY <1>2, <1>3, <1>5
  <2> HIDE DEF x, y
  <2>2. x \o y \in Seq(Nat) /\ Len(x \o y) = Len(x) + Len(y) /\ Len(x) \in Nat /\ Len(y) \in Nat
        /\ \A j \in 1..Len(x) : (x \o y)[j] = x[j]
    BY <2>1
  <2>3. g[m] \in Seq(Nat) /\ Len(x) <= Len(g[m]) /\ \A j \in 1..Len(x) : g[m][j] = x[j]
    BY <2>1, <2>2
  <2>4. ASSUME NEW n \in 0..m PROVE g[n] \in Seq(Nat) /\ Part(g, n, m)
    <3>1. CASE n = m
      BY <2>3, <3>1 DEF Part
    <3>2. CASE n # m
      <4>1. n \in 0..(m - 1)
        BY <3>2
      <4>2. g[n] \in Seq(Nat) /\ Len(g[n]) <= Len(x) /\ \A j \in 1..Len(g[n]) : x[j] = g[n][j]
        BY <1>5, <4>1 DEF Part, x
      <4>3. Len(g[n]) \in Nat /\ Len(g[m]) \in Nat
        BY <2>3, <4>2
      <4>4. Len(g[n]) <= Len(g[m])
        BY <2>2, <2>3, <4>2, <4>3
      <4>5. ASSUME NEW j \in 1..Len(g[n]) PROVE g[m][j] = g[n][j]
        <5>1. j \in 1..Len(x)
          BY <2>2, <4>2, <4>3
        <5> QED
          BY <2>3, <4>2, <5>1
      <4> QED
        BY <4>2, <4>4, <4>5 DEF Part
    <3> QED
      BY <3>1, <3>2
  <2> QED
    BY <2>3, <2>4
<1>6. Wrong = {}
  <2> SUFFICES ASSUME Wrong # {} PROVE FALSE
    OBVIOUS
  <2>1. Wrong \in SUBSET Nat
    BY <1>1
  <2>2. PICK j \in Wrong : \A i \in Wrong : j <= i
    BY <2>1, LeastNat
  <2>3. j # 0
    BY <1>4, <2>2
  <2>4. j \in 1..N /\ j - 1 \in 0..N /\ ~(j <= j - 1)
    BY <1>1, <2>2, <2>3
  <2>5. Good(j - 1)
    BY <2>2, <2>4
  <2>6. Good(j)
    BY <1>5, <2>4, <2>5
  <2> QED
    BY <2>2, <2>6
<1>7. Good(N)
  BY <1>1, <1>6
<1> QED
  BY <1>3, <1>7 DEF N, OB

\* The next operand stands where the ones before it end.
LEMMA PartPlace ==
  ASSUME NEW x \in Seq(Nat), NEW y \in Seq(Nat), NEW b \in Seq(Nat),
         Len(x \o y) <= Len(b), \A j \in 1..Len(x \o y) : b[j] = (x \o y)[j]
  PROVE  Len(x) + 1 + Len(y) - 1 <= Len(b) /\ Holds(b, Len(x) + 1, y)
         /\ Len(x \o y) = Len(x) + Len(y)
<1>1. Len(x) \in Nat /\ Len(y) \in Nat /\ Len(x \o y) = Len(x) + Len(y) /\ Len(b) \in Nat
  OBVIOUS
<1>2. ASSUME NEW j \in 1..Len(y) PROVE b[Len(x) + 1 + j - 1] = y[j]
  <2> DEFINE i == Len(x) + j
  <2>1. i \in 1..Len(x \o y) /\ Len(x) + 1 + j - 1 = i
    BY <1>1
  <2>2. (x \o y)[i] = y[j]
    BY <1>1
  <2> HIDE DEF i
  <2>3. b[i] = y[j]
    BY <2>1, <2>2
  <2> QED
    BY <2>1, <2>3
<1> QED
  BY <1>1, <1>2 DEF Holds

\* All operands are read, and nothing more.
LEMMA AllRead ==
  ASSUME PowersRight, NEW operands, OperandsFit(operands), NEW padding \in Paddings \cup {0},
         NEW hows, Len(hows) = Len(operands),
         \A j \in 1..Len(operands) : Matches(operands[j].kind, hows[j])
  PROVE  LET b == Encode(operands, padding)
             got == GetAll(b, hows)
         IN  /\ got.ptr = Len(b) + 1
             /\ got.values \in Seq(Int) /\ Len(got.values) = Len(operands)
             /\ \A j \in 1..Len(operands) : got.values[j] = Kept(hows[j], operands[j].value)
<1> DEFINE N == Len(operands)
           b == Encode(operands, padding)
<1>1. N \in Nat
  BY DEF OperandsFit
<1>2. PICK g : EncodeUnfolds(operands, padding, g, N) /\ b = g[N]
  BY <1>1, EncodeEquation
<1> HIDE DEF b
<1>3. PICK f : GetUnfolds(b, hows, f, N) /\ GetAll(b, hows) = f[N]
  <2>1. Len(hows) = N
    OBVIOUS
  <2> QED
    BY <1>1, <2>1, GetEquation
<1>4. /\ g[0] = << >>
      /\ \A n \in 0..N : g[n] \in Seq(Nat) /\ Part(g, n, N)
      /\ \A n \in 1..N : g[n] = g[n - 1] \o OperandBytes(operands[n], padding)
  BY <1>2, EncodeParts
<1>5. f[0] = [ptr |-> 1, values |-> << >>] /\ \A n \in 1..N : f[n] = Get(b, f[n - 1], hows[n])
  <2>1. f = [n \in 0..N |-> IF n = 0 THEN [ptr |-> 1, values |-> << >>] ELSE Get(b, f[n - 1], hows[n])]
    BY <1>3 DEF GetUnfolds, GetStep
  <2> HIDE DEF N
  <2>2. 0 \in 0..N /\ \A n \in 1..N : n \in 0..N /\ n # 0
    BY <1>1
  <2> QED
    BY <2>1, <2>2
<1>6. \A n \in 1..N : /\ operands[n] \in Operands /\ OperandRight(operands[n])
                      /\ Matches(operands[n].kind, hows[n])
                      /\ Kept(hows[n], operands[n].value) \in Int
  <2>1. operands \in Seq(Operands) /\ \A n \in 1..N : OperandRight(operands[n])
    BY DEF OperandsFit
  <2>2. \A n \in 1..N : operands[n] \in Operands
    BY <2>1
  <2>3. \A o \in Operands : o.value \in Int
    BY DEF Operands
  <2> QED
    BY <2>1, <2>2, <2>3 DEF Kept
<1> HIDE DEF N
<1> DEFINE Good(m) == /\ f[m].ptr = Len(g[m]) + 1
                      /\ f[m].values \in Seq(Int) /\ Len(f[m].values) = m
                      /\ \A j \in 1..m : f[m].values[j] = Kept(hows[j], operands[j].value)
           Wrong == {m \in 0..N : ~Good(m)}
<1>7. Good(0)
  BY <1>4, <1>5
<1>8. ASSUME NEW m \in 1..N, Good(m - 1) PROVE Good(m)
  <2> DEFINE x == g[m - 1]
             y == OperandBytes(operands[m], padding)
             got == f[m - 1]
  <2>1. m \in 0..N /\ m - 1 \in 0..N
    BY <1>1
  <2>2. x \in Seq(Nat) /\ g[m] = x \o y /\ b \in Seq(Nat)
    <3>1. x \in Seq(Nat)
      BY <1>4, <2>1
    <3>2. g[m] = x \o y
      BY <1>4
    <3>3. N \in 0..N
      BY <1>1
    <3>4. b \in Seq(Nat)
      BY <1>2, <1>4, <3>3
    <3> QED
      BY <3>1, <3>2, <3>4
  <2>3. y \in Seq(Nat)
    BY <1>6, BytesOf
  <2>4. Part(g, m, N)
    BY <1>4, <2>1
  <2>5. got.ptr = Len(x) + 1 /\ got.values \in Seq(Int) /\ Len(got.values) = m - 1
        /\ \A j \in 1..(m - 1) : got.values[j] = Kept(hows[j], operands[j].value)
    BY <1>8
  <2>6. f[m] = Get(b, got, hows[m])
    BY <1>5
  <2> HIDE DEF x, y, got, Good
  <2>7. Len(x \o y) <= Len(b) /\ \A j \in 1..Len(x \o y) : b[j] = (x \o y)[j]
    BY <1>2, <2>2, <2>4 DEF Part
  <2>8. Len(x) + 1 + Len(y) - 1 <= Len(b) /\ Holds(b, Len(x) + 1, y)
        /\ Len(x \o y) = Len(x) + Len(y)
    BY <2>2, <2>3, <2>7, PartPlace
  <2>9. got.ptr \in Nat /\ got.ptr + Len(y) - 1 <= Len(b) /\ Holds(b, got.ptr, y) /\ Len(b) \in Nat
    BY <2>2, <2>5, <2>8
  <2>10. Get(b, got, hows[m]) = [ptr |-> got.ptr + Len(y),
                                 values |-> Append(got.values, Kept(hows[m], operands[m].value))]
    <3>1. /\ operands[m] \in Operands /\ OperandRight(operands[m])
          /\ Matches(operands[m].kind, hows[m])
      BY <1>6
    <3> DEFINE o == operands[m]
               how == hows[m]
    <3> HIDE DEF o, how
    <3>2. /\ o \in Operands /\ OperandRight(o) /\ Matches(o.kind, how)
          /\ y = OperandBytes(o, padding)
      BY <3>1 DEF o, how, y
    <3>3. got.ptr \in Nat /\ Len(b) \in Nat
      BY <2>9
    <3>4. /\ got.ptr + Len(OperandBytes(o, padding)) - 1 <= Len(b)
          /\ Holds(b, got.ptr, OperandBytes(o, padding))
      BY <2>9, <3>2
    <3>5. Get(b, got, how) = [ptr |-> got.ptr + Len(OperandBytes(o, padding)),
                              values |-> Append(got.values, Kept(how, o.value))]
      BY <3>2, <3>3, <3>4, GetRight, Z3
    <3> QED
      BY <3>2, <3>5 DEF o, how
  <2> DEFINE v == got.values
             n == Kept(hows[m], operands[m].value)
  <2>11. v \in Seq(Int) /\ n \in Int /\ Len(v) = m - 1
    BY <1>6, <2>5
  <2>12. f[m].ptr = got.ptr + Len(y) /\ f[m].values = Append(v, n)
    BY <2>6, <2>10
  <2> HIDE DEF v, n
  <2>13. Append(v, n) \in Seq(Int) /\ Len(Append(v, n)) = m /\ Append(v, n)[m] = n
         /\ \A j \in 1..(m - 1) : Append(v, n)[j] = v[j]
    BY <2>1, <2>11
  <2>14. ASSUME NEW j \in 1..m PROVE f[m].values[j] = Kept(hows[j], operands[j].value)
    <3>1. CASE j = m
      BY <2>12, <2>13, <3>1 DEF n
    <3>2. CASE j # m
      <4>1. j \in 1..(m - 1)
        BY <3>2
      <4> QED
        BY <2>5, <2>12, <2>13, <4>1 DEF v
    <3> QED
      BY <3>1, <3>2
  <2>15. f[m].ptr = Len(g[m]) + 1
    <3>1. Len(x) \in Nat /\ Len(y) \in Nat
      BY <2>2, <2>3
    <3> QED
      BY <2>2, <2>5, <2>8, <2>12, <3>1
  <2> QED
    BY <2>12, <2>13, <2>14, <2>15 DEF Good
<1>9. Wrong = {}
  <2> SUFFICES ASSUME Wrong # {} PROVE FALSE
    OBVIOUS
  <2>1. Wrong \in SUBSET Nat
    BY <1>1
  <2>2. PICK j \in Wrong : \A i \in Wrong : j <= i
    BY <2>1, LeastNat
  <2> HIDE DEF Good
  <2>3. j # 0
    BY <1>7, <2>2
  <2>4. j \in 1..N /\ j - 1 \in 0..N /\ ~(j <= j - 1)
    BY <1>1, <2>2, <2>3
  <2>5. Good(j - 1)
    BY <2>2, <2>4
  <2>6. Good(j)
    BY <1>8, <2>4, <2>5
  <2> QED
    BY <2>2, <2>6
<1>10. Good(N)
  BY <1>1, <1>9
<1>11. b = g[N] /\ GetAll(b, hows) = f[N]
  BY <1>2, <1>3
<1> QED
  BY <1>10, <1>11 DEF N, b

\* The getters of an opcode are those for the operands the standard gives it.
GetsWhatIsThere(op) ==
  /\ Len(Reads(op)) = Len(Takes[op])
  /\ \A j \in 1..Len(Takes[op]) : Matches(Takes[op][j], Reads(op)[j])

LEMMA TakesRows ==
  /\ Takes["advance_loc"] = << >>
  /\ Takes["advance_loc1"] = <<"u8">>
  /\ Takes["advance_loc2"] = <<"u16">>
  /\ Takes["advance_loc4"] = <<"u32">>
  /\ Takes["def_cfa"] = <<"leb", "leb">>
  /\ Takes["def_cfa_sf"] = <<"leb", "sleb">>
  /\ Takes["def_cfa_register"] = <<"leb">>
  /\ Takes["def_cfa_offset"] = <<"leb">>
  /\ Takes["def_cfa_offset_sf"] = <<"sleb">>
  /\ Takes["def_cfa_expression"] = <<"block">>
  /\ Takes["undefined"] = <<"leb">>
  /\ Takes["same_value"] = <<"leb">>
  /\ Takes["register"] = <<"leb", "leb">>
  /\ Takes["offset"] = <<"leb">>
  /\ Takes["offset_extended"] = <<"leb", "leb">>
  /\ Takes["offset_extended_sf"] = <<"leb", "sleb">>
  /\ Takes["val_offset"] = <<"leb", "leb">>
  /\ Takes["val_offset_sf"] = <<"leb", "sleb">>
  /\ Takes["expression"] = <<"leb", "block">>
  /\ Takes["val_expression"] = <<"leb", "block">>
  /\ Takes["restore"] = << >>
  /\ Takes["restore_extended"] = <<"leb">>
  /\ Takes["remember_state"] = << >>
  /\ Takes["restore_state"] = << >>
  /\ Takes["GNU_args_size"] = <<"leb">>
  /\ Takes["breg_pc"] = <<"sleb">>
  /\ Takes["const1u"] = <<"u8">>
  /\ Takes["const1s"] = <<"s8">>
  /\ Takes["const2u"] = <<"u16">>
  /\ Takes["const2s"] = <<"s16">>
  /\ Takes["const4u"] = <<"u32">>
  /\ Takes["const4s"] = <<"u32">>
  /\ Takes["constu"] = <<"leb">>
  /\ Takes["consts"] = <<"sleb">>
  /\ Takes["plus"] = << >>
  /\ Takes["minus"] = << >>
BY DEF Takes

LEMMA NumbersRead ==
  ASSUME NEW op \in {"advance_loc1", "advance_loc2", "advance_loc4", "const1u", "const1s", "const2u",
                     "const2s", "const4u", "const4s", "constu", "consts", "breg_pc", "plus", "minus",
                     "advance_loc", "restore", "remember_state", "restore_state"}
  PROVE  GetsWhatIsThere(op)
BY TakesRows DEF GetsWhatIsThere, Reads, Matches

LEMMA RulesRead ==
  ASSUME NEW op \in {"def_cfa", "def_cfa_sf", "def_cfa_register", "def_cfa_offset", "def_cfa_offset_sf",
                     "def_cfa_expression", "offset", "offset_extended", "offset_extended_sf",
                     "val_expression"}
  PROVE  GetsWhatIsThere(op)
BY TakesRows DEF GetsWhatIsThere, Reads, Matches

LEMMA OthersSkipped ==
  ASSUME NEW op \in {"undefined", "same_value", "register", "val_offset", "val_offset_sf", "expression",
                     "restore_extended", "GNU_args_size"}
  PROVE  GetsWhatIsThere(op)
<1>1. Reads(op) = Skipping(op)
  BY DEF Reads
<1>2. CASE op \in {"undefined", "same_value", "restore_extended", "GNU_args_size"}
  BY <1>1, <1>2, TakesRows DEF GetsWhatIsThere, Skipping, Matches
<1>3. CASE op \in {"register", "val_offset", "val_offset_sf"}
  <2>1. Reads(op) = <<"skip", "skip">>
    BY <1>1, <1>3 DEF Skipping
  <2>2. Takes[op] = <<"leb", "leb">> \/ Takes[op] = <<"leb", "sleb">>
    BY <1>3, TakesRows
  <2> QED
    BY <2>1, <2>2 DEF GetsWhatIsThere, Matches
<1>4. CASE op = "expression"
  BY <1>1, <1>4, TakesRows DEF GetsWhatIsThere, Skipping, Matches
<1> QED
  BY <1>2, <1>3, <1>4

LEMMA AllOpcodes ==
  ASSUME NEW op \in DOMAIN Takes
  PROVE  GetsWhatIsThere(op)
<1>1. op \in {"advance_loc1", "advance_loc2", "advance_loc4", "const1u", "const1s", "const2u",
              "const2s", "const4u", "const4s", "constu", "consts", "breg_pc", "plus", "minus",
              "advance_loc", "restore", "remember_state", "restore_state",
              "def_cfa", "def_cfa_sf", "def_cfa_register", "def_cfa_offset", "def_cfa_offset_sf",
              "def_cfa_expression", "offset", "offset_extended", "offset_extended_sf",
              "val_expression", "undefined", "same_value", "register", "val_offset", "val_offset_sf",
              "expression", "restore_extended", "GNU_args_size"}
  BY DEF Takes
<1> QED
  BY <1>1, NumbersRead, RulesRead, OthersSkipped

LEMMA RightFits ==
  ASSUME NEW i, OperandsRight(i)
  PROVE  /\ OperandsFit(i.operands)
         /\ Len(Reads(i.op)) = Len(i.operands)
         /\ \A j \in 1..Len(i.operands) : Matches(i.operands[j].kind, Reads(i.op)[j])
<1>1. Kinds = {"leb", "sleb", "block", "u8", "s8", "u16", "s16", "u32"}
  BY DEF Kinds, FixedKinds
<1>4. GetsWhatIsThere(i.op)
  BY AllOpcodes DEF OperandsRight
<1>5. i.operands \in Seq(Operands) /\ Len(i.operands) = Len(Takes[i.op])
  BY <1>1 DEF OperandsRight, Operands
<1>2. i.operands \in Seq(Operands) /\ Len(i.operands) = Len(Reads(i.op))
  BY <1>4, <1>5 DEF GetsWhatIsThere
<1>3. \A j \in 1..Len(i.operands) :
         Matches(i.operands[j].kind, Reads(i.op)[j]) /\ OperandRight(i.operands[j])
  <2>1. DOMAIN i.operands = 1..Len(i.operands)
    BY <1>2
  <2>2. \A j \in 1..Len(i.operands) : i.operands[j].kind = Takes[i.op][j] /\ OperandRight(i.operands[j])
    BY <2>1 DEF OperandsRight
  <2> QED
    BY <1>4, <1>5, <2>2 DEF GetsWhatIsThere
<1> QED
  BY <1>2, <1>3 DEF OperandsFit

\* An instruction is read for what was encoded, to its last byte.
LEMMA ReadingRight ==
  ASSUME PowersRight, InstructionsRight, NEW i \in Instructions, NEW padding \in Paddings
  PROVE  LET r == Reading(i, padding)
         IN  /\ r.insn = i /\ r.exact = TRUE
             /\ \A j \in 1..Len(i.operands) : Reads(i.op)[j] # "skip" => r.values[j] = Value(i, j)
             /\ r.caller = parseExpression(i.expression, padding)
<1> DEFINE r == Reading(i, padding)
           b == Encode(i.operands, padding)
           got == GetAll(b, Reads(i.op))
<1>1. /\ OperandsFit(i.operands)
      /\ Len(Reads(i.op)) = Len(i.operands)
      /\ \A j \in 1..Len(i.operands) : Matches(i.operands[j].kind, Reads(i.op)[j])
  BY RightFits DEF InstructionsRight
<1>2. got.ptr = Len(b) + 1
      /\ \A j \in 1..Len(i.operands) : Reads(i.op)[j] # "skip" => got.values[j] = i.operands[j].value
  BY <1>1, AllRead DEF Kept
<1>3. DOMAIN i.operands = 1..Len(i.operands)
  BY <1>1 DEF OperandsFit
<1> HIDE DEF b, got
<1>4. /\ r.insn = i /\ r.values = got.values /\ r.caller = parseExpression(i.expression, padding)
      /\ r.exact = (/\ got.ptr = Len(b) + 1
                    /\ \A j \in DOMAIN i.operands :
                         Reads(i.op)[j] # "skip" => got.values[j] = i.operands[j].value)
  BY DEF Reading, b, got
<1>5. r.exact = TRUE
  BY <1>2, <1>3, <1>4
<1> QED
  BY <1>2, <1>4, <1>5 DEF Value

-----------------------------------------------------------------------------
(* Expressions.                                                              *)

ReadOperation(o, padding) ==
  IF o.op = "deref" THEN << >> ELSE GetAll(Encode(o.operands, padding), Reads(o.op)).values

ExpressionStep(e, padding, x, n) ==
  IF x.known THEN Operation(x, e[n].op, ReadOperation(e[n], padding)) ELSE x

Unparsed == [pc_off |-> 0, tos |-> 0, known |-> TRUE]

ExpressionUnfolds(e, padding, g, m) ==
  g = [n \in 0..m |-> IF n = 0 THEN Unparsed ELSE ExpressionStep(e, padding, g[n - 1], n)]

LEMMA ExpressionLoop ==
  ASSUME NEW e, NEW padding, NEW m \in Nat
  PROVE  \E g : ExpressionUnfolds(e, padding, g, m)
<1> DEFINE T == {k \in Nat : ~\E g : ExpressionUnfolds(e, padding, g, k)}
<1> SUFFICES ASSUME m \in T PROVE FALSE
  OBVIOUS
<1>1. PICK k \in T : \A j \in T : k <= j
  BY LeastNat
<1>2. k # 0
  <2> SUFFICES ASSUME k = 0 PROVE FALSE
    OBVIOUS
  <2>1. ExpressionUnfolds(e, padding, [n \in 0..0 |-> Unparsed], 0)
    BY DEF ExpressionUnfolds
  <2> QED
    BY <2>1
<1>3. k - 1 \in Nat /\ k - 1 \notin T
  BY <1>1, <1>2
<1>4. PICK g : ExpressionUnfolds(e, padding, g, k - 1)
  BY <1>3
<1> DEFINE h == [n \in 0..k |-> IF n <= k - 1 THEN g[n] ELSE ExpressionStep(e, padding, g[k - 1], k)]
<1>5. \A n \in 0..k : h[n] = IF n = 0 THEN Unparsed ELSE ExpressionStep(e, padding, h[n - 1], n)
  BY <1>2, <1>3, <1>4 DEF ExpressionUnfolds
<1>6. ExpressionUnfolds(e, padding, h, k)
  BY <1>5 DEF ExpressionUnfolds
<1> QED
  BY <1>6

LEMMA ExpressionEquation ==
  ASSUME NEW e, NEW padding, Len(e) \in Nat
  PROVE  \E g : ExpressionUnfolds(e, padding, g, Len(e)) /\ parseExpression(e, padding) = (IF g[Len(e)].known THEN g[Len(e)].pc_off ELSE 0)
<1> DEFINE g == CHOOSE f : ExpressionUnfolds(e, padding, f, Len(e))
<1>1. ExpressionUnfolds(e, padding, g, Len(e))
  BY ExpressionLoop
<1>2. parseExpression(e, padding) = (IF g[Len(e)].known THEN g[Len(e)].pc_off ELSE 0)
  BY DEF parseExpression, Unparsed, ReadOperation, ExpressionUnfolds, ExpressionStep
<1> QED
  BY <1>1, <1>2

LEMMA OperationRead ==
  ASSUME PowersRight, NEW padding \in Paddings, NEW o, OperandsRight(o),
         o.op \in Constants \cup {"breg_pc"}
  PROVE  \A j \in 1..Len(o.operands) : ReadOperation(o, padding)[j] = Value(o, j)
<1>1. /\ OperandsFit(o.operands)
      /\ Len(Reads(o.op)) = Len(o.operands)
      /\ \A j \in 1..Len(o.operands) : Matches(o.operands[j].kind, Reads(o.op)[j])
  BY RightFits
<1>2. Len(Reads(o.op)) = 1 /\ Reads(o.op)[1] # "skip" /\ o.op # "deref"
  BY DEF Reads, Constants
<1>3. \A j \in 1..Len(o.operands) :
         GetAll(Encode(o.operands, padding), Reads(o.op)).values[j] = o.operands[j].value
  <2>1. \A j \in 1..Len(o.operands) : j = 1
    BY <1>1, <1>2
  <2>2. \A j \in 1..Len(o.operands) :
           GetAll(Encode(o.operands, padding), Reads(o.op)).values[j]
             = Kept(Reads(o.op)[j], o.operands[j].value)
    BY <1>1, AllRead
  <2> QED
    BY <1>2, <2>1, <2>2 DEF Kept
<1> QED
  BY <1>2, <1>3 DEF ReadOperation, Value

LEMMA ConstantKept ==
  ASSUME NEW a, NEW w, NEW k, NEW z, NEW st, st = [pc_off |-> a, tos |-> z, known |-> k]
  PROVE  [st EXCEPT !.tos = w] = [pc_off |-> a, tos |-> w, known |-> k]
BY Z3

\* An expression comes to the caller's pc the standard gives it.
LEMMA ExpressionMeant ==
  ASSUME PowersRight, NEW padding \in Paddings, NEW e, ExpressionRight(e)
  PROVE  parseExpression(e, padding) = CallerPc(e)
<1>1. Len(e) \in 1..3 /\ e[1].op = "breg_pc" /\ OperandsRight(e[1])
  BY DEF ExpressionRight
<1>2. PICK g : /\ ExpressionUnfolds(e, padding, g, Len(e))
               /\ parseExpression(e, padding) = (IF g[Len(e)].known THEN g[Len(e)].pc_off ELSE 0)
  <2>1. Len(e) \in Nat
    BY <1>1
  <2> QED
    BY <2>1, ExpressionEquation
<1>3. g[0] = Unparsed /\ \A n \in 1..Len(e) : g[n] = ExpressionStep(e, padding, g[n - 1], n)
  BY <1>1, <1>2 DEF ExpressionUnfolds
<1>4. g[1] = [pc_off |-> Value(e[1], 1), tos |-> 0, known |-> TRUE]
  <2>1. g[1] = Operation(Unparsed, "breg_pc", ReadOperation(e[1], padding))
    <3>1. 1 \in 1..Len(e)
      BY <1>1
    <3>2. g[1] = ExpressionStep(e, padding, g[0], 1)
      BY <1>3, <3>1
    <3> QED
      BY <1>1, <1>3, <3>2 DEF ExpressionStep, Unparsed
  <2>2. Len(e[1].operands) = 1
    BY <1>1 DEF OperandsRight, Takes
  <2>3. ReadOperation(e[1], padding)[1] = Value(e[1], 1)
    BY <1>1, <2>2, OperationRead, SMTT(30)
  <2> QED
    BY <2>1, <2>3 DEF Operation, Unparsed
<1>5. CASE Len(e) = 1
  BY <1>2, <1>4, <1>5 DEF CallerPc
<1>6. CASE Len(e) = 2
  <2>1. e[2].op = "deref"
    BY <1>6 DEF ExpressionRight
  <2>2. g[2] = ExpressionStep(e, padding, g[1], 2)
    BY <1>3, <1>6
  <2>3. g[2].known = FALSE
    BY <1>4, <2>1, <2>2 DEF ExpressionStep, Operation
  <2> QED
    BY <1>2, <1>6, <2>3 DEF CallerPc
<1>7. CASE Len(e) = 3
  <2>1. /\ e[2].op \in Constants /\ OperandsRight(e[2])
        /\ e[3].op \in {"plus", "minus"} /\ OperandsRight(e[3])
    BY <1>7 DEF ExpressionRight
  <2>2. g[2] = ExpressionStep(e, padding, g[1], 2) /\ g[3] = ExpressionStep(e, padding, g[2], 3)
    <3>1. 2 \in 1..Len(e) /\ 3 \in 1..Len(e)
      BY <1>7
    <3>2. g[2] = ExpressionStep(e, padding, g[2 - 1], 2) /\ g[3] = ExpressionStep(e, padding, g[3 - 1], 3)
      BY <1>3, <3>1, SMTT(30)
    <3> QED
      BY <3>2
  <2>3. Len(e[2].operands) = 1
    BY <2>1 DEF OperandsRight, Takes, Constants
  <2>4. ReadOperation(e[2], padding)[1] = Value(e[2], 1)
    BY <2>1, <2>3, OperationRead DEF Constants
  <2>8. /\ Value(e[2], 1) \in Int /\ Signed(Value(e[2], 1)) = Value(e[2], 1)
        /\ Signed(CallerPc(e)) = CallerPc(e)
    <3>1. {Value(e[2], 1), CallerPc(e)} \subseteq -Half..(Half - 1)
      BY <1>7 DEF ExpressionRight, Ints, Half
    <3> QED
      BY <3>1, SignedSame, Halves
  <2>5. g[2] = [pc_off |-> Value(e[1], 1), tos |-> Value(e[2], 1), known |-> TRUE]
    <3> DEFINE st == g[1]
               v == ReadOperation(e[2], padding)
    <3>1. g[2] = Operation(st, e[2].op, v)
      BY <1>4, <2>2 DEF ExpressionStep
    <3>2. st = [pc_off |-> Value(e[1], 1), tos |-> 0, known |-> TRUE]
      BY <1>4
    <3> HIDE DEF st, v
    <3>3. e[2].op \notin {"breg_pc", "minus", "plus", "deref"}
      BY <2>1 DEF Constants
    <3>4. Operation(st, e[2].op, v) = [st EXCEPT !.tos = Signed(v[1])]
      BY <3>3 DEF Operation
    <3>5. [st EXCEPT !.tos = Signed(v[1])] = [pc_off |-> Value(e[1], 1), tos |-> Signed(v[1]), known |-> TRUE]
      <4> DEFINE a == Value(e[1], 1)
                 w == Signed(v[1])
                 k == TRUE
                 z == 0
      <4>1. st = [pc_off |-> a, tos |-> z, known |-> k]
        BY <3>2
      <4> HIDE DEF a, w, k, z
      <4>2. [st EXCEPT !.tos = w] = [pc_off |-> a, tos |-> w, known |-> k]
        BY <4>1, ConstantKept
      <4> QED
        BY <4>2 DEF a, w, k
    <3> QED
      BY <2>4, <2>8, <3>1, <3>4, <3>5 DEF v
  <2>6. CASE e[3].op = "plus"
    <3>1. g[3] = Operation(g[2], "plus", ReadOperation(e[3], padding))
      BY <2>2, <2>5, <2>6 DEF ExpressionStep
    <3>2. g[3] = [g[2] EXCEPT !.pc_off = Signed(@ + g[2].tos)]
      BY <3>1 DEF Operation
    <3>3. g[3].pc_off = Signed(Value(e[1], 1) + Value(e[2], 1)) /\ g[3].known
      BY <2>5, <3>2
    <3>4. parseExpression(e, padding) = Signed(Value(e[1], 1) + Value(e[2], 1))
      BY <1>2, <1>7, <3>3
    <3>5. CallerPc(e) = Value(e[1], 1) + Value(e[2], 1)
      BY <1>7, <2>6 DEF CallerPc
    <3> QED
      BY <2>8, <3>4, <3>5
  <2>7. CASE e[3].op = "minus"
    <3>1. g[3] = Operation(g[2], "minus", ReadOperation(e[3], padding))
      BY <2>2, <2>5, <2>7 DEF ExpressionStep
    <3>2. g[3] = [g[2] EXCEPT !.pc_off = Signed(@ - g[2].tos)]
      BY <3>1 DEF Operation
    <3>3. g[3].pc_off = Signed(Value(e[1], 1) - Value(e[2], 1)) /\ g[3].known
      BY <2>5, <3>2
    <3>4. parseExpression(e, padding) = Signed(Value(e[1], 1) - Value(e[2], 1))
      BY <1>2, <1>7, <3>3
    <3>5. CallerPc(e) = Value(e[1], 1) - Value(e[2], 1)
      BY <1>7, <2>7 DEF CallerPc
    <3> QED
      BY <2>8, <3>4, <3>5
  <2> QED
    BY <2>1, <2>6, <2>7
<1> QED
  BY <1>1, <1>5, <1>6, <1>7

-----------------------------------------------------------------------------
(* The CIE.                                                                  *)

LEMMA Joined ==
  ASSUME NEW s \in Seq(Nat), NEW t \in Seq(Nat)
  PROVE  /\ s \o t \in Seq(Nat) /\ Len(s \o t) = Len(s) + Len(t)
         /\ Len(s) \in Nat /\ Len(t) \in Nat
         /\ \A j \in 1..Len(s) : (s \o t)[j] = s[j]
         /\ \A j \in 1..Len(t) : (s \o t)[Len(s) + j] = t[j]
OBVIOUS

LEMMA TwoPlaced ==
  ASSUME NEW h \in Seq(Nat), NEW x \in Seq(Nat), NEW y \in Seq(Nat)
  PROVE  LET b == h \o (x \o y)
         IN  /\ b \in Seq(Nat) /\ Len(b) = Len(h) + Len(x) + Len(y)
             /\ Len(h) \in Nat /\ Len(x) \in Nat /\ Len(y) \in Nat
             /\ \A j \in 1..Len(h) : b[j] = h[j]
             /\ Holds(b, Len(h) + 1, x) /\ Holds(b, Len(h) + 1 + Len(x), y)
<1> DEFINE z == x \o y
           b == h \o z
<1>1. /\ z \in Seq(Nat) /\ Len(z) = Len(x) + Len(y) /\ Len(x) \in Nat /\ Len(y) \in Nat
      /\ \A j \in 1..Len(x) : z[j] = x[j]
      /\ \A j \in 1..Len(y) : z[Len(x) + j] = y[j]
  BY Joined
<1> HIDE DEF z
<1>2. /\ b \in Seq(Nat) /\ Len(b) = Len(h) + Len(z) /\ Len(h) \in Nat
      /\ \A j \in 1..Len(h) : b[j] = h[j]
      /\ \A j \in 1..Len(z) : b[Len(h) + j] = z[j]
  BY <1>1, Joined
<1> HIDE DEF b
<1>3. ASSUME NEW j \in 1..Len(x) PROVE b[Len(h) + 1 + j - 1] = x[j]
  <2>1. j \in 1..Len(z) /\ Len(h) + 1 + j - 1 = Len(h) + j
    BY <1>1, <1>2
  <2> QED
    BY <1>1, <1>2, <2>1
<1>4. ASSUME NEW j \in 1..Len(y) PROVE b[Len(h) + 1 + Len(x) + j - 1] = y[j]
  <2> DEFINE i == Len(x) + j
  <2>1. i \in 1..Len(z) /\ Len(h) + 1 + Len(x) + j - 1 = Len(h) + i
    BY <1>1, <1>2
  <2>2. z[i] = y[j]
    BY <1>1
  <2> HIDE DEF i
  <2>3. b[Len(h) + i] = z[i]
    BY <1>2, <2>1
  <2> QED
    BY <2>1, <2>2, <2>3
<1>5. Holds(b, Len(h) + 1, x) /\ Holds(b, Len(h) + 1 + Len(x), y)
  BY <1>3, <1>4 DEF Holds
<1>6. Len(b) = Len(h) + Len(x) + Len(y)
  BY <1>1, <1>2
<1>7. b = h \o (x \o y)
  BY DEF b, z
<1> QED
  BY <1>1, <1>2, <1>5, <1>6, <1>7

Header(a) == <<0, 0, 0, 0, 1>> \o a \o <<0>>

LEMMA HeaderBytes ==
  ASSUME NEW a \in Seq(1..255)
  PROVE  /\ Header(a) \in Seq(Nat) /\ Len(Header(a)) = 6 + Len(a) /\ Len(a) \in Nat
         /\ \A j \in 6..(5 + Len(a)) : Header(a)[j] # 0
         /\ Header(a)[6 + Len(a)] = 0
<1> DEFINE f == <<0, 0, 0, 0, 1>>
           x == f \o a
           z == <<0>>
<1>1. f \in Seq(Nat) /\ Len(f) = 5 /\ a \in Seq(Nat) /\ Len(a) \in Nat
      /\ \A j \in 1..Len(a) : a[j] \in Nat /\ a[j] # 0
  <2>1. f \in Seq(Nat) /\ Len(f) = 5
    OBVIOUS
  <2>2. Len(a) \in Nat /\ \A j \in 1..Len(a) : a[j] \in 1..255
    <3> DEFINE D == 1..255
    <3>1. a \in Seq(D)
      OBVIOUS
    <3> HIDE DEF D
    <3>2. Len(a) \in Nat /\ \A j \in 1..Len(a) : a[j] \in D
      BY <3>1
    <3> QED
      BY <3>2 DEF D
  <2>3. \A v \in 1..255 : v \in Nat /\ v # 0
    OBVIOUS
  <2>4. \A j \in 1..Len(a) : a[j] \in Nat /\ a[j] # 0
    BY <2>2, <2>3
  <2>5. a = [j \in 1..Len(a) |-> a[j]]
    OBVIOUS
  <2>6. a \in [1..Len(a) -> Nat]
    BY <2>4, <2>5
  <2>7. a \in Seq(Nat)
    BY <2>2, <2>6
  <2> QED
    BY <2>1, <2>2, <2>4, <2>7
<1> HIDE DEF f
<1>2. /\ x \in Seq(Nat) /\ Len(x) = 5 + Len(a)
      /\ \A j \in 1..Len(a) : x[5 + j] = a[j]
  <2>1. /\ x \in Seq(Nat) /\ Len(x) = Len(f) + Len(a)
        /\ \A j \in 1..Len(a) : x[Len(f) + j] = a[j]
    BY <1>1, Joined
  <2> HIDE DEF x
  <2> QED
    BY <1>1, <2>1
<1>3. z \in Seq(Nat) /\ Len(z) = 1 /\ z[1] = 0
  OBVIOUS
<1>4. Header(a) = x \o z
  BY DEF Header, f
<1> HIDE DEF x, z
<1> DEFINE h == x \o z
<1>5. /\ h \in Seq(Nat) /\ Len(h) = Len(x) + Len(z)
      /\ \A j \in 1..Len(x) : h[j] = x[j]
      /\ \A j \in 1..Len(z) : h[Len(x) + j] = z[j]
  BY <1>2, <1>3, Joined
<1> HIDE DEF h
<1>6. ASSUME NEW j \in 6..(5 + Len(a)) PROVE h[j] # 0
  <2> DEFINE i == j - 5
  <2>1. i \in 1..Len(a) /\ 5 + i = j /\ j \in 1..Len(x)
    BY <1>1, <1>2
  <2> HIDE DEF i
  <2>2. a[i] # 0
    BY <1>1, <2>1
  <2>3. x[5 + i] = a[i]
    BY <1>2, <2>1
  <2>4. x[j] = a[i]
    BY <2>1, <2>3
  <2>5. h[j] = x[j]
    BY <1>5, <2>1
  <2> QED
    BY <2>2, <2>4, <2>5
<1>7. h[6 + Len(a)] = 0
  <2>1. 1 \in 1..Len(z)
    BY <1>3
  <2>2. h[Len(x) + 1] = 0
    BY <1>3, <1>5, <2>1
  <2>3. Len(x) + 1 = 6 + Len(a)
    BY <1>1, <1>2
  <2> QED
    BY <2>2, <2>3
<1>8. Len(h) = 6 + Len(a)
  BY <1>1, <1>2, <1>3, <1>5
<1> QED
  BY <1>1, <1>4, <1>5, <1>6, <1>7, <1>8 DEF h

\* The factors are found behind the augmentation and read for their values.
LEMMA CieRight ==
  ASSUME PowersRight, FactorsFit
  PROVE  CieExact
<1> SUFFICES ASSUME NEW a \in Augmentations, NEW padding \in Paddings
             PROVE  ParseCie(CieBytes(a, padding)) = <<CodeAlign, DataAlign>>
  BY DEF CieExact
<1> DEFINE h == Header(a)
           x == OperandBytes(Factors[1], padding)
           y == OperandBytes(Factors[2], padding)
           b == h \o (x \o y)
<1>1. /\ h \in Seq(Nat) /\ Len(h) = 6 + Len(a) /\ Len(a) \in Nat
      /\ \A j \in 6..(5 + Len(a)) : h[j] # 0
      /\ h[6 + Len(a)] = 0
  <2>1. a \in Seq(1..255)
    BY ReaderAssumption
  <2> QED
    BY <2>1, HeaderBytes
<1>2. /\ Factors[1].kind = "leb" /\ Factors[1].value = CodeAlign /\ Factors[1] \in Operands
      /\ Factors[2].kind = "sleb" /\ Factors[2].value = DataAlign /\ Factors[2] \in Operands
      /\ OperandRight(Factors[1]) /\ OperandRight(Factors[2]) /\ Len(Factors) = 2
      /\ Factors \in Seq(Operands)
  <2>1. /\ Factors[1] = [kind |-> "leb", value |-> CodeAlign]
        /\ Factors[2] = [kind |-> "sleb", value |-> DataAlign] /\ Len(Factors) = 2
    BY DEF Factors
  <2>2. OperandRight(Factors[1]) /\ OperandRight(Factors[2])
    BY DEF FactorsFit
  <2>3. Factors[1] \in Operands /\ Factors[2] \in Operands
    BY <2>1, OperandsAssumption DEF Operands, Kinds
  <2>4. Factors = <<Factors[1], Factors[2]>>
    BY DEF Factors
  <2>5. Factors \in Seq(Operands)
    <3>1. \A u, v \in Operands : <<u, v>> \in Seq(Operands)
      OBVIOUS
    <3> QED
      BY <2>3, <2>4, <3>1
  <2> QED
    BY <2>1, <2>2, <2>3, <2>5
<1>3. x \in Seq(Nat) /\ Len(x) = LebLen(Factors[1], padding)
      /\ (\A j \in 1..Len(x) : x[j] = Leb(CodeAlign, LebLen(Factors[1], padding))[j])
      /\ Len(Leb(CodeAlign, LebLen(Factors[1], padding))) = Len(x)
      /\ LebLen(Factors[1], padding) \in Nat
  <2> DEFINE o == Factors[1]
  <2>1. o \in Operands /\ OperandRight(o) /\ o.kind \notin FixedKinds /\ o.kind # "block"
    BY <1>2 DEF FixedKinds
  <2>2. LebLen(o, padding) \in Nat
    <3> HIDE DEF o
    <3> QED
      BY <2>1, BytesOf
  <2>3. OperandBytes(o, padding) \in Seq(Nat) /\ Len(OperandBytes(o, padding)) = LebLen(o, padding)
        /\ (\A j \in 1..LebLen(o, padding) :
              OperandBytes(o, padding)[j] = Leb(o.value, LebLen(o, padding))[j])
        /\ Len(Leb(o.value, LebLen(o, padding))) = LebLen(o, padding)
    <3> HIDE DEF o
    <3>1. Len(OperandBytes(o, padding)) = LebLen(o, padding) + (IF o.kind = "block" THEN o.value ELSE 0)
      BY <2>1, BytesOf
    <3> QED
      BY <2>1, <2>2, <3>1, BytesOf
  <2> QED
    BY <1>2, <2>2, <2>3
<1>4. y \in Seq(Nat) /\ Len(y) = LebLen(Factors[2], padding)
      /\ (\A j \in 1..Len(y) : y[j] = Leb(DataAlign, LebLen(Factors[2], padding))[j])
      /\ Len(Leb(DataAlign, LebLen(Factors[2], padding))) = Len(y)
      /\ LebLen(Factors[2], padding) \in Nat
  <2> DEFINE o == Factors[2]
  <2>1. o \in Operands /\ OperandRight(o) /\ o.kind \notin FixedKinds /\ o.kind # "block"
    BY <1>2 DEF FixedKinds
  <2>2. LebLen(o, padding) \in Nat
    <3> HIDE DEF o
    <3> QED
      BY <2>1, BytesOf
  <2>3. OperandBytes(o, padding) \in Seq(Nat) /\ Len(OperandBytes(o, padding)) = LebLen(o, padding)
        /\ (\A j \in 1..LebLen(o, padding) :
              OperandBytes(o, padding)[j] = Leb(o.value, LebLen(o, padding))[j])
        /\ Len(Leb(o.value, LebLen(o, padding))) = LebLen(o, padding)
    <3> HIDE DEF o
    <3>1. Len(OperandBytes(o, padding)) = LebLen(o, padding) + (IF o.kind = "block" THEN o.value ELSE 0)
      BY <2>1, BytesOf
    <3> QED
      BY <2>1, <2>2, <3>1, BytesOf
  <2> QED
    BY <1>2, <2>2, <2>3
<1>5. Encode(Factors, padding) = x \o y
  <2>1. OperandsFit(Factors)
    <3>1. \A j \in 1..Len(Factors) : j = 1 \/ j = 2
      BY <1>2
    <3> QED
      BY <1>2, <3>1 DEF OperandsFit
  <2>2. PICK g : EncodeUnfolds(Factors, padding, g, Len(Factors)) /\ Encode(Factors, padding) = g[Len(Factors)]
    <3>1. Len(Factors) \in Nat
      BY <1>2
    <3> QED
      BY <3>1, EncodeEquation
  <2>3. /\ g[0] = << >>
        /\ \A n \in 1..Len(Factors) : g[n] = g[n - 1] \o OperandBytes(Factors[n], padding)
    BY <2>1, <2>2, EncodeParts
  <2>4. g[1] = g[1 - 1] \o x /\ g[2] = g[2 - 1] \o y
    <3>1. 1 \in 1..Len(Factors) /\ 2 \in 1..Len(Factors)
      BY <1>2
    <3> QED
      BY <2>3, <3>1
  <2>5. g[1] = << >> \o x /\ g[2] = g[1] \o y
    <3>1. 1 - 1 = 0 /\ 2 - 1 = 1
      OBVIOUS
    <3> HIDE DEF x, y
    <3> QED
      BY <2>3, <2>4, <3>1
  <2> HIDE DEF x, y
  <2>6. << >> \o x = x
    BY <1>3
  <2> QED
    BY <1>2, <2>2, <2>5, <2>6
<1>6. CieBytes(a, padding) = b
  BY <1>5 DEF CieBytes, Header
<1> HIDE DEF x, y, h
<1>7. /\ b \in Seq(Nat) /\ Len(b) = Len(h) + Len(x) + Len(y)
      /\ Len(h) \in Nat /\ Len(x) \in Nat /\ Len(y) \in Nat
      /\ \A j \in 1..Len(h) : b[j] = h[j]
      /\ Holds(b, Len(h) + 1, x) /\ Holds(b, Len(h) + 1 + Len(x), y)
  BY <1>1, <1>3, <1>4, TwoPlaced
<1> HIDE DEF b
<1> DEFINE S == {j \in 6..Len(b) : b[j] = 0}
           e == 6 + Len(a)
           p == e + 1
<1>8. Min(S) = e
  <2>1. e \in 1..Len(h) /\ e \in 6..Len(b) /\ e \in Int
    BY <1>1, <1>7
  <2>2. e \in S
    BY <1>1, <1>7, <2>1
  <2>3. ASSUME NEW j \in S PROVE e <= j
    <3> SUFFICES ASSUME j < e PROVE FALSE
      BY <2>1
    <3>1. j \in 6..(5 + Len(a)) /\ j \in 1..Len(h)
      BY <1>1
    <3>2. b[j] # 0
      BY <1>1, <1>7, <3>1
    <3> QED
      BY <3>2
  <2>4. S \in SUBSET Int
    BY <1>7
  <2>5. Min(S) = CHOOSE m \in S : \A n \in S : m <= n
    BY DEF Min
  <2> HIDE DEF S, e
  <2>6. \A m \in S : (\A n \in S : m <= n) => m = e
    BY <2>1, <2>2, <2>3, <2>4
  <2> QED
    BY <2>2, <2>3, <2>5, <2>6
<1>9. /\ LebEnd(b, p) = p + Len(x) - 1 /\ getLeb(b, p) = CodeAlign
  <2>1. Holds(b, p, Leb(CodeAlign, LebLen(Factors[1], padding)))
    BY <1>1, <1>3, <1>7 DEF Holds
  <2>2. p + LebLen(Factors[1], padding) - 1 <= Len(b) /\ Len(b) \in Nat /\ p \in Nat
    BY <1>1, <1>3, <1>7, SMTT(30)
  <2> HIDE DEF p
  <2>3. /\ LebEnd(b, p) = p + LebLen(Factors[1], padding) - 1
        /\ Factors[1].kind # "sleb" => getLeb(b, p) = Factors[1].value
    <3>1. Holds(b, p, Leb(Factors[1].value, LebLen(Factors[1], padding)))
      BY <1>2, <2>1
    <3> QED
      BY <1>2, <2>2, <3>1, NumberRead
  <2> QED
    BY <1>2, <1>3, <2>3
<1> DEFINE q == LebEnd(b, p) + 1
<1>10. getSLeb(b, q) = DataAlign
  <2>1. q = Len(h) + 1 + Len(x)
    BY <1>1, <1>3, <1>9
  <2>2. Holds(b, q, Leb(DataAlign, LebLen(Factors[2], padding)))
    <3> HIDE DEF q
    <3> QED
      BY <1>4, <1>7, <2>1 DEF Holds
  <2>3. q + LebLen(Factors[2], padding) - 1 <= Len(b) /\ Len(b) \in Nat /\ q \in Nat
    BY <1>1, <1>4, <1>7, <2>1, SMTT(30)
  <2> HIDE DEF q
  <2>4. Holds(b, q, Leb(Factors[2].value, LebLen(Factors[2], padding)))
    BY <1>2, <2>2
  <2> QED
    BY <1>2, <2>3, <2>4, NumberRead
<1>11. ParseCie(b) = <<getLeb(b, Min(S) + 1), getSLeb(b, LebEnd(b, Min(S) + 1) + 1)>>
  BY DEF ParseCie
<1> QED
  BY <1>6, <1>8, <1>9, <1>10, <1>11

-----------------------------------------------------------------------------
(* Every instruction is read in its place.                                   *)

Hypotheses == InstructionsRight /\ RulesFit /\ FactorsFit /\ PowersRight

LEMMA ReadingsRight ==
  ASSUME Hypotheses, NEW r \in Readings
  PROVE  /\ r.insn \in Instructions /\ r.exact = TRUE
         /\ \A j \in 1..Len(r.insn.operands) :
              Reads(r.insn.op)[j] # "skip" => r.values[j] = Value(r.insn, j)
         /\ ExpressionRight(r.insn.expression) => r.caller = CallerPc(r.insn.expression)
<1>1. PICK i \in Instructions, padding \in Paddings : r = Reading(i, padding)
  BY DEF Readings
<1>2. PowersRight /\ InstructionsRight
  BY DEF Hypotheses
<1>3. LET q == Reading(i, padding)
      IN  /\ q.insn = i /\ q.exact = TRUE
          /\ \A j \in 1..Len(i.operands) : Reads(i.op)[j] # "skip" => q.values[j] = Value(i, j)
          /\ q.caller = parseExpression(i.expression, padding)
  BY <1>2, ReadingRight
<1>4. ExpressionRight(i.expression) => parseExpression(i.expression, padding) = CallerPc(i.expression)
  BY <1>2, ExpressionMeant
<1> QED
  BY <1>1, <1>3, <1>4

\* However a compiler pads its numbers and whatever it emits, no operand is read one
\* byte too short or too long, and none that is kept for another value; the CIE likewise.
THEOREM ReadsInSync ==
  ASSUME InstructionsRight, RulesFit, FactorsFit, PowersRight
  PROVE  ReaderSpec => []ReadInSync
<1>1. Hypotheses
  BY DEF Hypotheses
<1>2. ReaderInit => ReadInSync
  BY DEF ReaderInit, ReadInSync
<1>3. ReadInSync /\ [ReaderNext]_readerVars => ReadInSync'
  <2> SUFFICES ASSUME insync, [ReaderNext]_readerVars PROVE insync'
    BY DEF ReadInSync
  <2>1. ASSUME NEW start, NEW len, ReadFde(start, len) PROVE insync'
    BY <1>1, <2>1, CieRight DEF ReadFde, Hypotheses
  <2>2. ASSUME NEW r \in Readings, ReadInstruction(r) PROVE insync'
    <3>1. r.exact = TRUE
      BY <1>1, ReadingsRight
    <3>2. insync' = (insync /\ r.exact)
      BY <2>2 DEF ReadInstruction
    <3> QED
      BY <3>1, <3>2
  <2>3. CASE UNCHANGED reader
    BY <2>3 DEF reader
  <2>4. CASE UNCHANGED readerVars
    BY <2>3, <2>4 DEF readerVars
  <2> QED
    BY <2>1, <2>2, <2>3, <2>4 DEF ReaderNext, ReadBytes
<1> QED
  BY <1>2, <1>3, PTL DEF ReaderSpec

-----------------------------------------------------------------------------
(* The registers of the parser and the rule that is meant.                   *)

Fields == {"reg", "off", "how", "by"}

\* The two ints of a record can hold an offset of the CFA.
Packs(off) == off \in Int /\ -Half <= 256 * off /\ 256 * off + 255 < Half

FpBy(fp_off) ==
  CASE FpRule(fp_off) = "pc" -> fp_off \div 2
    [] FpRule(fp_off) = "saved" -> fp_off
    [] FpRule(fp_off) = "same" -> 0

CfaMeant(r, m) ==
  r.cfa_reg \in 0..255 /\ CfaReg(r.cfa_reg) = m.reg /\ Packs(r.cfa_off) /\ r.cfa_off = m.off
FpMeant(r, m) == FpRule(r.fp_off) = m.how /\ FpBy(r.fp_off) = m.by

\* The registers r hold the rule m, that of the frame pointer unless one was skipped.
Hold(r, m, l) == DOMAIN m = Fields /\ CfaMeant(r, m) /\ (l = FALSE => FpMeant(r, m))

MeantInv ==
  /\ lost \in BOOLEAN
  /\ meant = [now |-> meant.now, rem |-> meant.rem]
  /\ bytes /\ pc = "fde" /\ parsed = 0 =>
       meant.now = EntryRule /\ meant.rem = EntryRule /\ lost = FALSE
  /\ bytes /\ pc = "insn" =>
       Hold(regs, meant.now, lost) /\ (rem.known => Hold(rem, meant.rem, lost))

LEMMA RegisterName ==
  ASSUME NEW reg \in 0..255
  PROVE  CfaReg(reg) = CASE reg = DW_REG_SP -> "sp" [] reg = DW_REG_FP -> "fp"
                         [] reg = DW_REG_PLT -> "plt"
                         [] reg \notin {DW_REG_SP, DW_REG_FP, DW_REG_PLT} -> "none"
<1>1. reg = 256 * 0 + reg /\ reg \in Nat /\ reg < 256
  OBVIOUS
<1>2. reg % 256 = reg
  BY <1>1, DivUnique
<1> QED
  BY <1>2 DEF CfaReg, DW_REG_SP, DW_REG_FP, DW_REG_PLT

\* A record has both, and the walker takes them apart.
LEMMA Unpacks ==
  ASSUME PowersRight, NEW reg \in 0..255, NEW off, Packs(off), NEW fp_off
  PROVE  Unpacked(Pack(reg, off), fp_off)
           = [reg |-> CfaReg(reg), off |-> off, how |-> FpRule(fp_off), by |-> FpBy(fp_off)]
<1> DEFINE cfa == Pack(reg, off)
<1>1. off \in Int /\ cfa = 256 * off + reg /\ cfa \in Int /\ reg \in Nat /\ reg < 256
  BY DEF Pack, Packs
<1>2. cfa \in -Half..(Half - 1)
  BY <1>1, Halves DEF Packs
<1> HIDE DEF cfa
<1>3. cfa % 256 = reg /\ cfa \div 256 = off
  BY <1>1, DivUnique
<1>4. Signed(cfa) = cfa
  BY <1>2, SignedSame
<1>5. reg % 256 = reg
  <2>1. reg = 256 * 0 + reg
    BY <1>1
  <2> QED
    BY <1>1, <2>1, DivUnique
<1>6. CfaReg(cfa) = CfaReg(reg)
  BY <1>3, <1>5 DEF CfaReg
<1>7. Unpacked(cfa, fp_off) = [reg |-> CfaReg(cfa), off |-> Signed(cfa) \div 256,
                               how |-> FpRule(fp_off), by |-> FpBy(fp_off)]
  BY DEF Unpacked, FpBy
<1> QED
  BY <1>3, <1>4, <1>6, <1>7 DEF cfa

LEMMA HoldMeans ==
  ASSUME Hypotheses, MeantInv
  PROVE  RuleMeant
<1> SUFFICES ASSUME pc = "insn", bytes
             PROVE  LET rule == Unpacked(Pack(regs.cfa_reg, regs.cfa_off), regs.fp_off)
                    IN  /\ rule.reg = meant.now.reg /\ rule.off = meant.now.off
                        /\ lost \/ (rule.how = meant.now.how /\ rule.by = meant.now.by)
  BY DEF RuleMeant
<1>1. Hold(regs, meant.now, lost) /\ lost \in BOOLEAN
  BY DEF MeantInv
<1> DEFINE rule == Unpacked(Pack(regs.cfa_reg, regs.cfa_off), regs.fp_off)
<1>2. regs.cfa_reg \in 0..255 /\ Packs(regs.cfa_off)
  BY <1>1 DEF Hold, CfaMeant
<1>3. rule = [reg |-> CfaReg(regs.cfa_reg), off |-> regs.cfa_off,
              how |-> FpRule(regs.fp_off), by |-> FpBy(regs.fp_off)]
  BY <1>2, Unpacks DEF Hypotheses
<1> HIDE DEF rule
<1>4. rule.reg = meant.now.reg /\ rule.off = meant.now.off
  BY <1>1, <1>3 DEF Hold, CfaMeant
<1>5. lost = FALSE => rule.how = meant.now.how /\ rule.by = meant.now.by
  BY <1>1, <1>3 DEF Hold, FpMeant
<1>6. lost \/ (rule.how = meant.now.how /\ rule.by = meant.now.by)
  BY <1>1, <1>5
<1> QED
  BY <1>4, <1>6 DEF rule

LEMMA EntryHolds ==
  ASSUME Hypotheses, NEW l
  PROVE  Hold(EntryRegs, EntryRule, l)
<1>1. CfaReg(DW_REG_SP) = "sp"
  <2>1. 7 = 256 * 0 + 7 /\ 7 % 256 = 7
    OBVIOUS
  <2> QED
    BY <2>1 DEF CfaReg, DW_REG_SP, DW_REG_FP, DW_REG_PLT
<1>2. Packs(DW_STACK_SLOT)
  BY DEF Hypotheses, RulesFit, Packs, Half, DW_STACK_SLOT
<1>3. FpRule(DW_SAME_FP) = "same"
  BY DEF FpRule
<1>4. FpBy(DW_SAME_FP) = 0
  BY <1>3 DEF FpBy
<1>5. CfaMeant(EntryRegs, EntryRule)
  BY <1>1, <1>2 DEF CfaMeant, EntryRegs, EntryRule, DW_REG_SP
<1>6. FpMeant(EntryRegs, EntryRule)
  BY <1>3, <1>4 DEF FpMeant, EntryRegs, EntryRule
<1>7. DOMAIN EntryRule = Fields
  BY DEF EntryRule, Fields
<1> QED
  BY <1>5, <1>6, <1>7 DEF Hold

-----------------------------------------------------------------------------
(* Updates of the rule.                                                      *)

Updated(m, u) == [r \in DOMAIN m |-> IF r \in DOMAIN u THEN u[r] ELSE m[r]]

LEMMA UpdatedFields ==
  ASSUME NEW m, DOMAIN m = Fields, NEW u
  PROVE  /\ DOMAIN Updated(m, u) = Fields
         /\ Updated(m, u).reg = IF "reg" \in DOMAIN u THEN u.reg ELSE m.reg
         /\ Updated(m, u).off = IF "off" \in DOMAIN u THEN u.off ELSE m.off
         /\ Updated(m, u).how = IF "how" \in DOMAIN u THEN u.how ELSE m.how
         /\ Updated(m, u).by = IF "by" \in DOMAIN u THEN u.by ELSE m.by
BY DEF Updated, Fields

LEMMA NothingUpdated == DOMAIN NoUpdate = {}
BY DEF NoUpdate

\* The instruction leaves the rule alone.
LEMMA HoldSame ==
  ASSUME NEW r, NEW m, NEW l, Hold(r, m, l), NEW u, DOMAIN u = {}
  PROVE  Hold(r, Updated(m, u), l)
<1>1. DOMAIN m = Fields /\ CfaMeant(r, m) /\ (l = FALSE => FpMeant(r, m))
  BY DEF Hold
<1>2. /\ DOMAIN Updated(m, u) = Fields
      /\ Updated(m, u).reg = m.reg /\ Updated(m, u).off = m.off
      /\ Updated(m, u).how = m.how /\ Updated(m, u).by = m.by
  BY <1>1, UpdatedFields
<1>3. CfaMeant(r, Updated(m, u)) /\ (l = FALSE => FpMeant(r, Updated(m, u)))
  BY <1>1, <1>2 DEF CfaMeant, FpMeant
<1> QED
  BY <1>2, <1>3 DEF Hold

\* It changes the rule of the CFA.
LEMMA HoldCfa ==
  ASSUME NEW r, NEW m, NEW l, Hold(r, m, l), NEW u, DOMAIN u \subseteq {"reg", "off"},
         NEW s, s.fp_off = r.fp_off, CfaMeant(s, Updated(m, u))
  PROVE  Hold(s, Updated(m, u), l)
<1>1. DOMAIN m = Fields /\ CfaMeant(r, m) /\ (l = FALSE => FpMeant(r, m))
  BY DEF Hold
<1>2. /\ DOMAIN Updated(m, u) = Fields
      /\ Updated(m, u).how = m.how /\ Updated(m, u).by = m.by
  BY <1>1, UpdatedFields
<1>3. l = FALSE => FpMeant(s, Updated(m, u))
  BY <1>1, <1>2 DEF FpMeant
<1> QED
  BY <1>2, <1>3 DEF Hold

\* It changes the rule of the frame pointer, in the registers or not.
LEMMA HoldFp ==
  ASSUME NEW r, NEW m, NEW l, Hold(r, m, l), NEW u, DOMAIN u \subseteq {"how", "by"},
         NEW s, s.cfa_reg = r.cfa_reg, s.cfa_off = r.cfa_off,
         NEW k, k = FALSE => FpMeant(s, Updated(m, u))
  PROVE  Hold(s, Updated(m, u), k)
<1>1. DOMAIN m = Fields /\ CfaMeant(r, m)
  BY DEF Hold
<1>2. /\ DOMAIN Updated(m, u) = Fields
      /\ Updated(m, u).reg = m.reg /\ Updated(m, u).off = m.off
  BY <1>1, UpdatedFields
<1>3. CfaMeant(s, Updated(m, u))
  BY <1>1, <1>2 DEF CfaMeant
<1> QED
  BY <1>2, <1>3 DEF Hold

LEMMA HoldWeak ==
  ASSUME NEW r, NEW m, NEW l, Hold(r, m, l), NEW k, k = FALSE => l = FALSE
  PROVE  Hold(r, m, k)
BY DEF Hold

-----------------------------------------------------------------------------
(* The instructions.  Each is a step of FrameTable's, or none, and the       *)
(* registers hold the rule after it if they held the one before it.          *)

Done(u, l) ==
  /\ Next \/ UNCHANGED vars
  /\ pc' = pc /\ rem' = rem /\ Hold(regs', Updated(meant.now, u), l)

LEMMA SetRegsVars ==
  ASSUME NEW r, SetRegs(r)
  PROVE  /\ pc = "insn" /\ pc' = pc /\ rem' = rem /\ regs' = r
         /\ r = regs => UNCHANGED vars
BY DEF SetRegs, vars, parser, search

LEMMA OffsetPacks ==
  ASSUME Hypotheses, NEW off \in CfaOffs \cup {DW_STACK_SLOT}
  PROVE  Packs(off)
BY OperandsAssumption DEF Hypotheses, RulesFit, Packs, Half, DW_STACK_SLOT

LEMMA RegisterMeant ==
  ASSUME Hypotheses, NEW reg \in CfaRegs
  PROVE  reg \in 0..255 /\ CfaReg(reg) = RegName(reg)
<1>1. reg \in 0..255 /\ reg # DW_REG_PLT
  BY OperandsAssumption DEF Hypotheses, RulesFit
<1> QED
  BY <1>1, RegisterName DEF RegName, DW_REG_SP, DW_REG_FP, DW_REG_PLT

\* The registers are those of the parser.
LEMMA CfaStep ==
  ASSUME Hypotheses, regs \in Regs, Hold(regs, meant.now, lost),
         NEW reg, NEW off, NEW name, NEW u, DOMAIN u \subseteq {"reg", "off"},
         reg \in 0..255, CfaReg(reg) = name, Packs(off),
         name = IF "reg" \in DOMAIN u THEN u.reg ELSE meant.now.reg,
         off = IF "off" \in DOMAIN u THEN u.off ELSE meant.now.off,
         NEW s, s.cfa_reg = reg, s.cfa_off = off, s.fp_off = regs.fp_off, SetRegs(s),
         Next \/ UNCHANGED vars
  PROVE  Done(u, lost)
<1>1. DOMAIN meant.now = Fields
  BY DEF Hold
<1>2. Updated(meant.now, u).reg = name /\ Updated(meant.now, u).off = off
  BY <1>1, UpdatedFields
<1>3. CfaMeant(s, Updated(meant.now, u))
  BY <1>2 DEF CfaMeant
<1>4. Hold(s, Updated(meant.now, u), lost)
  BY <1>3, HoldCfa
<1> QED
  BY <1>4, SetRegsVars DEF Done

LEMMA DefCfaStep ==
  ASSUME Hypotheses, regs \in Regs, Hold(regs, meant.now, lost),
         NEW reg \in CfaRegs, NEW off \in CfaOffs, DefCfa(reg, off)
  PROVE  Done([reg |-> RegName(reg), off |-> off], lost)
<1> DEFINE r == [regs EXCEPT !.cfa_reg = reg]
           s == [r EXCEPT !.cfa_off = off]
           u == [reg |-> RegName(reg), off |-> off]
<1>1. [regs EXCEPT !.cfa_reg = reg, !.cfa_off = off] = s
  BY DEF Regs
<1>2. SetRegs(s)
  BY <1>1 DEF DefCfa
<1>3. r.cfa_reg = reg /\ r.fp_off = regs.fp_off /\ DOMAIN r = {"cfa_reg", "cfa_off", "fp_off", "known"}
  BY DEF Regs
<1> HIDE DEF r
<1>4. s.cfa_reg = reg /\ s.cfa_off = off /\ s.fp_off = regs.fp_off
  BY <1>3
<1>5. Next
  BY DEF Next, Parse, Instruction
<1>6. DOMAIN u = {"reg", "off"} /\ u.reg = RegName(reg) /\ u.off = off
  OBVIOUS
<1>7. reg \in 0..255 /\ CfaReg(reg) = RegName(reg) /\ Packs(off)
  BY OffsetPacks, RegisterMeant
<1> HIDE DEF s, u
<1>8. Done(u, lost)
  BY <1>2, <1>4, <1>5, <1>6, <1>7, CfaStep
<1> QED
  BY <1>8 DEF u

LEMMA DefRegisterStep ==
  ASSUME Hypotheses, regs \in Regs, Hold(regs, meant.now, lost),
         NEW reg \in CfaRegs, DefCfaRegister(reg)
  PROVE  Done([reg |-> RegName(reg)], lost)
<1> DEFINE s == [regs EXCEPT !.cfa_reg = reg]
           u == [reg |-> RegName(reg)]
           off == regs.cfa_off
<1>1. SetRegs(s)
  BY DEF DefCfaRegister
<1>2. s.cfa_reg = reg /\ s.cfa_off = off /\ s.fp_off = regs.fp_off
  BY DEF Regs
<1>3. Next
  BY DEF Next, Parse, Instruction
<1>4. DOMAIN u = {"reg"} /\ u.reg = RegName(reg)
  OBVIOUS
<1>5. reg \in 0..255 /\ CfaReg(reg) = RegName(reg)
  BY RegisterMeant
<1>6. Packs(off) /\ off = meant.now.off
  BY DEF Hold, CfaMeant
<1> HIDE DEF s, u, off
<1>7. Done(u, lost)
  BY <1>1, <1>2, <1>3, <1>4, <1>5, <1>6, CfaStep
<1> QED
  BY <1>7 DEF u

LEMMA DefOffsetStep ==
  ASSUME Hypotheses, regs \in Regs, Hold(regs, meant.now, lost),
         NEW off \in CfaOffs, DefCfaOffset(off)
  PROVE  Done([off |-> off], lost)
<1> DEFINE s == [regs EXCEPT !.cfa_off = off]
           u == [off |-> off]
           reg == regs.cfa_reg
<1>1. SetRegs(s)
  BY DEF DefCfaOffset
<1>2. s.cfa_reg = reg /\ s.cfa_off = off /\ s.fp_off = regs.fp_off
  BY DEF Regs
<1>3. Next
  BY DEF Next, Parse, Instruction
<1>4. DOMAIN u = {"off"} /\ u.off = off
  OBVIOUS
<1>5. reg \in 0..255 /\ CfaReg(reg) = meant.now.reg
  BY DEF Hold, CfaMeant
<1>6. Packs(off)
  BY OffsetPacks
<1> HIDE DEF s, u, reg
<1>7. Done(u, lost)
  BY <1>1, <1>2, <1>3, <1>4, <1>5, <1>6, CfaStep
<1> QED
  BY <1>7 DEF u

LEMMA DefExpressionStep ==
  ASSUME Hypotheses, regs \in Regs, Hold(regs, meant.now, lost),
         NEW len \in ExprLens, DefCfaExpression(len)
  PROVE  Done([reg |-> IF len = 11 THEN "plt" ELSE "none", off |-> DW_STACK_SLOT], lost)
<1> DEFINE reg == IF len = 11 THEN DW_REG_PLT ELSE DW_REG_INVALID
           name == IF len = 11 THEN "plt" ELSE "none"
           off == DW_STACK_SLOT
           r == [regs EXCEPT !.cfa_reg = reg]
           s == [r EXCEPT !.cfa_off = off]
           u == [reg |-> name, off |-> off]
<1>1. [regs EXCEPT !.cfa_reg = reg, !.cfa_off = off] = s
  <2> HIDE DEF reg, off
  <2> QED
    BY DEF Regs
<1>2. SetRegs(s)
  BY <1>1 DEF DefCfaExpression
<1>5. Next
  BY DEF Next, Parse, Instruction
<1>7. reg \in 0..255 /\ CfaReg(reg) = name /\ Packs(off)
  <2>1. reg \in 0..255
    BY DEF DW_REG_PLT, DW_REG_INVALID
  <2>2. CfaReg(reg) = name
    BY <2>1, RegisterName DEF DW_REG_SP, DW_REG_FP, DW_REG_PLT, DW_REG_INVALID
  <2> QED
    BY <2>1, <2>2, OffsetPacks
<1> HIDE DEF reg, name, off
<1>3. r.cfa_reg = reg /\ r.fp_off = regs.fp_off /\ DOMAIN r = {"cfa_reg", "cfa_off", "fp_off", "known"}
  BY DEF Regs
<1> HIDE DEF r
<1>4. s.cfa_reg = reg /\ s.cfa_off = off /\ s.fp_off = regs.fp_off
  BY <1>3
<1>6. DOMAIN u = {"reg", "off"} /\ u.reg = name /\ u.off = off
  OBVIOUS
<1> HIDE DEF s, u
<1>8. Done(u, lost)
  BY <1>2, <1>4, <1>5, <1>6, <1>7, CfaStep
<1> QED
  BY <1>8 DEF u, name, off

\* The place of the frame pointer is even, one of the caller's pc is odd.
LEMMA SaveFpStep ==
  ASSUME Hypotheses, regs \in Regs, Hold(regs, meant.now, lost),
         NEW reg, NEW n, reg = DW_REG_FP => n \in FpOffs, SaveFp(reg, n)
  PROVE  Done(SavedAt(reg, n), lost)
<1>1. CASE reg # DW_REG_FP
  <2>1. SetRegs(regs) /\ SavedAt(reg, n) = NoUpdate
    BY <1>1 DEF SaveFp, SavedAt
  <2>2. Hold(regs, Updated(meant.now, NoUpdate), lost)
    BY HoldSame, NothingUpdated
  <2> QED
    BY <2>1, <2>2, SetRegsVars DEF Done
<1>2. CASE reg = DW_REG_FP
  <2> DEFINE a == n * DataAlign
             s == [regs EXCEPT !.fp_off = a]
             u == [how |-> "saved", by |-> a]
  <2>1. n \in FpOffs /\ n \in Nat /\ a \in Int
    <3>1. n \in FpOffs /\ n \in Nat /\ DataAlign \in Int
      BY <1>2, OperandsAssumption
    <3> QED
      BY <3>1
  <2>2. a \in -Half..(Half - 1) /\ a % 2 = 0 /\ a # DW_SAME_FP /\ Near(a)
    BY <2>1, Halves DEF Hypotheses, RulesFit, Ints, Half
  <2> HIDE DEF a
  <2>3. Signed(a) = a
    BY <2>2, SignedSame DEF Hypotheses
  <2>4. SetRegs(s) /\ SavedAt(reg, n) = u
    BY <1>2, <2>3 DEF SaveFp, SavedAt, Scaled, a
  <2>5. Next
    <3>1. OffsetFp(n)
      BY <2>4 DEF OffsetFp, a
    <3> QED
      BY <2>1, <3>1 DEF Next, Parse, Instruction
  <2>6. FpRule(a) = "saved" /\ FpBy(a) = a
    <3>1. FpRule(a) = "saved"
      BY <2>2 DEF FpRule
    <3> QED
      BY <3>1 DEF FpBy
  <2>7. s.cfa_reg = regs.cfa_reg /\ s.cfa_off = regs.cfa_off /\ s.fp_off = a
    BY DEF Regs
  <2>8. DOMAIN u = {"how", "by"} /\ u.how = "saved" /\ u.by = a
    OBVIOUS
  <2> HIDE DEF s, u
  <2>9. DOMAIN meant.now = Fields
    BY DEF Hold
  <2>10. FpMeant(s, Updated(meant.now, u))
    BY <2>6, <2>7, <2>8, <2>9, UpdatedFields DEF FpMeant
  <2>11. Hold(s, Updated(meant.now, u), lost)
    BY <2>7, <2>8, <2>10, HoldFp
  <2> QED
    BY <2>4, <2>5, <2>11, SetRegsVars DEF Done
<1> QED
  BY <1>1, <1>2

LEMMA CallerStep ==
  ASSUME Hypotheses, regs \in Regs, Hold(regs, meant.now, lost),
         NEW off \in PcOffs, ValExpression(off)
  PROVE  Done(IF off # 0 THEN [how |-> "pc", by |-> off] ELSE NoUpdate, lost)
<1>1. CASE off = 0
  <2>1. SetRegs(regs)
    BY <1>1 DEF ValExpression
  <2>2. Hold(regs, Updated(meant.now, NoUpdate), lost)
    BY HoldSame, NothingUpdated
  <2> QED
    BY <1>1, <2>1, <2>2, SetRegsVars DEF Done
<1>2. CASE off # 0
  <2> DEFINE a == 2 * off + 1
             s == [regs EXCEPT !.fp_off = a]
             u == [how |-> "pc", by |-> off]
  <2>1. off \in Int /\ a \in Int /\ a # DW_SAME_FP
    BY OperandsAssumption DEF Hypotheses, RulesFit
  <2>2. a % 2 = 1 /\ a \div 2 = off
    <3>1. a = 2 * off + 1 /\ 1 \in Nat /\ 1 < 2
      OBVIOUS
    <3> HIDE DEF a
    <3> QED
      BY <2>1, <3>1, DivUnique
  <2>3. SetRegs(s)
    BY <1>2 DEF ValExpression
  <2>4. Next
    BY DEF Next, Parse, Instruction
  <2> HIDE DEF a
  <2>5. FpRule(a) = "pc" /\ FpBy(a) = off
    <3>1. FpRule(a) = "pc"
      BY <2>1, <2>2 DEF FpRule
    <3> QED
      BY <2>2, <3>1 DEF FpBy
  <2>6. s.cfa_reg = regs.cfa_reg /\ s.cfa_off = regs.cfa_off /\ s.fp_off = a
    BY DEF Regs
  <2>7. DOMAIN u = {"how", "by"} /\ u.how = "pc" /\ u.by = off
    OBVIOUS
  <2> HIDE DEF s, u
  <2>8. DOMAIN meant.now = Fields
    BY DEF Hold
  <2>9. FpMeant(s, Updated(meant.now, u))
    BY <2>5, <2>6, <2>7, <2>8, UpdatedFields DEF FpMeant
  <2>10. Hold(s, Updated(meant.now, u), lost)
    BY <2>6, <2>7, <2>9, HoldFp
  <2>11. Done(u, lost)
    BY <2>3, <2>4, <2>10, SetRegsVars DEF Done
  <2> QED
    BY <1>2, <2>11 DEF u
<1> QED
  BY <1>1, <1>2

\* What is known of an instruction and the values read for it.
Known(i, v) ==
  /\ i \in Instructions
  /\ \A j \in 1..Len(i.operands) : Reads(i.op)[j] # "skip" => v[j] = Value(i, j)

LEMMA KnownFacts ==
  ASSUME Hypotheses, NEW i, NEW v, Known(i, v)
  PROVE  /\ OperandsKnown(i) /\ i.means = Standard(i)
         /\ Len(Reads(i.op)) >= 1 /\ Reads(i.op)[1] # "skip" => v[1] = Value(i, 1)
         /\ Len(Reads(i.op)) >= 2 /\ Reads(i.op)[2] # "skip" => v[2] = Value(i, 2)
<1>1. OperandsRight(i) /\ OperandsKnown(i) /\ i.means = Standard(i)
  BY DEF Known, Hypotheses, InstructionsRight
<1>2. Len(Reads(i.op)) = Len(i.operands) /\ OperandsFit(i.operands)
  BY <1>1, RightFits
<1>3. Len(i.operands) \in Nat
  BY <1>2 DEF OperandsFit
<1>4. Len(i.operands) >= 1 => 1 \in 1..Len(i.operands)
  BY <1>3
<1>5. Len(i.operands) >= 2 => 2 \in 1..Len(i.operands)
  BY <1>3
<1> QED
  BY <1>1, <1>2, <1>4, <1>5 DEF Known

\* Where an unsigned or a signed number is scaled, the product is what is meant.
LEMMA ScaledRight ==
  ASSUME Hypotheses, NEW n, n * DataAlign \in CfaOffs
  PROVE  Scaled(n) = n * DataAlign
<1> DEFINE a == n * DataAlign
<1>1. Packs(a)
  BY OffsetPacks
<1> HIDE DEF a
<1>2. a \in -Half..(Half - 1)
  BY <1>1, Halves DEF Packs, Hypotheses
<1>3. Signed(a) = a
  BY <1>2, SignedSame DEF Hypotheses
<1> QED
  BY <1>3 DEF Scaled, a

Skips == {"restore", "restore_extended", "undefined", "same_value", "register",
          "val_offset", "val_offset_sf", "expression", "GNU_args_size"}
Restores == {"restore", "restore_extended", "same_value"}

\* An instruction that changes nothing in the registers: it means nothing, or the
\* frame pointer is restored and the parser has lost it.
LEMMA SkippedStep ==
  ASSUME Hypotheses, NEW i, NEW v, Known(i, v), i.op \in Skips, SetRegs(regs),
         Hold(regs, meant.now, lost), NEW l,
         l = FALSE => lost = FALSE /\ ~(i.op \in Restores /\ "how" \in DOMAIN i.means)
  PROVE  Done(i.means, l)
<1>1. i.means = Standard(i)
  BY KnownFacts
<1>2. \/ i.means = NoUpdate
      \/ i.op \in Restores /\ i.means = [how |-> "same", by |-> 0]
  <2>1. CASE i.op = "restore"
    BY <1>1, <2>1 DEF Standard, Restored, Restores
  <2>2. CASE i.op \in {"restore_extended", "same_value"}
    BY <1>1, <2>2 DEF Standard, Restored, Restores
  <2>3. CASE i.op \in {"undefined", "register", "val_offset", "val_offset_sf", "expression",
                       "GNU_args_size"}
    BY <1>1, <2>3 DEF Standard
  <2> QED
    BY <2>1, <2>2, <2>3 DEF Skips
<1>3. CASE i.means = NoUpdate
  <2>1. Hold(regs, meant.now, l)
    BY HoldWeak
  <2>2. Hold(regs, Updated(meant.now, i.means), l)
    BY <1>3, <2>1, HoldSame, NothingUpdated
  <2> QED
    BY <2>2, SetRegsVars DEF Done
<1>4. CASE i.op \in Restores /\ i.means = [how |-> "same", by |-> 0]
  <2>1. DOMAIN i.means = {"how", "by"}
    BY <1>4
  <2>2. l # FALSE
    BY <1>4, <2>1
  <2>3. Hold(regs, Updated(meant.now, i.means), l)
    BY <2>1, <2>2, HoldFp
  <2> QED
    BY <2>3, SetRegsVars DEF Done
<1> QED
  BY <1>2, <1>3, <1>4

LEMMA AdvanceStep ==
  ASSUME NEW delta \in Deltas, Advance(delta), Hold(regs, meant.now, lost)
  PROVE  Done(NoUpdate, lost)
<1>1. Next
  BY DEF Next, Parse, Instruction
<1>2. pc' = pc /\ rem' = rem /\ regs' = regs
  BY DEF Advance
<1>3. Hold(regs, Updated(meant.now, NoUpdate), lost)
  BY HoldSame, NothingUpdated
<1> QED
  BY <1>1, <1>2, <1>3 DEF Done

\* The opcodes that are not about states.
LEMMA ExecuteDone ==
  ASSUME Hypotheses, regs \in Regs, Hold(regs, meant.now, lost), lost \in BOOLEAN,
         NEW i, NEW v, Known(i, v), i.op \notin {"remember_state", "restore_state"},
         NEW caller, ExpressionRight(i.expression) => caller = CallerPc(i.expression),
         Execute(i.op, i.bits, v, caller),
         NEW l, l = (lost \/ (i.op \in Restores /\ "how" \in DOMAIN i.means))
  PROVE  Done(i.means, l)
<1>1. /\ OperandsKnown(i) /\ i.means = Standard(i)
      /\ Len(Reads(i.op)) >= 1 /\ Reads(i.op)[1] # "skip" => v[1] = Value(i, 1)
      /\ Len(Reads(i.op)) >= 2 /\ Reads(i.op)[2] # "skip" => v[2] = Value(i, 2)
  BY KnownFacts
<1>2. i.op \notin Restores => l = lost
  OBVIOUS
<1>3. CASE i.op \in {"advance_loc", "advance_loc1", "advance_loc2", "advance_loc4"}
  <2>1. PICK delta \in Deltas : Advance(delta)
    <3>1. AdvanceLoc(i.op, i.bits, v)
      BY <1>3 DEF Execute
    <3>2. CASE i.op = "advance_loc"
      BY <1>1, <3>1, <3>2 DEF AdvanceLoc, OperandsKnown
    <3>3. CASE i.op # "advance_loc"
      <4>1. v[1] = Value(i, 1)
        BY <1>1, <1>3, <3>3 DEF Reads
      <4> QED
        BY <1>1, <1>3, <3>1, <3>3, <4>1 DEF AdvanceLoc, OperandsKnown
    <3> QED
      BY <3>2, <3>3
  <2>2. i.means = NoUpdate /\ l = lost
    BY <1>1, <1>2, <1>3 DEF Standard, Restores
  <2> QED
    BY <2>1, <2>2, AdvanceStep
<1>4. CASE i.op = "def_cfa"
  <2>1. v[1] = Value(i, 1) /\ v[2] = Value(i, 2)
    BY <1>1, <1>4 DEF Reads
  <2>2. v[1] \in CfaRegs /\ v[2] \in CfaOffs
    BY <1>1, <1>4, <2>1 DEF OperandsKnown
  <2>3. DefCfa(v[1], v[2])
    BY <1>4 DEF Execute
  <2>4. i.means = [reg |-> RegName(v[1]), off |-> v[2]] /\ l = lost
    BY <1>1, <1>2, <1>4, <2>1 DEF Standard, Restores
  <2> QED
    BY <2>2, <2>3, <2>4, DefCfaStep
<1>5. CASE i.op = "def_cfa_sf"
  <2>1. v[1] = Value(i, 1) /\ v[2] = Value(i, 2)
    BY <1>1, <1>5 DEF Reads
  <2>2. v[1] \in CfaRegs /\ v[2] * DataAlign \in CfaOffs
    BY <1>1, <1>5, <2>1 DEF OperandsKnown
  <2>3. DefCfa(v[1], v[2] * DataAlign)
    BY <1>5, <2>2, ScaledRight DEF Execute
  <2>4. i.means = [reg |-> RegName(v[1]), off |-> v[2] * DataAlign] /\ l = lost
    BY <1>1, <1>2, <1>5, <2>1 DEF Standard, Restores
  <2> QED
    BY <2>2, <2>3, <2>4, DefCfaStep
<1>6. CASE i.op = "def_cfa_register"
  <2>1. v[1] = Value(i, 1)
    BY <1>1, <1>6 DEF Reads
  <2>2. v[1] \in CfaRegs
    BY <1>1, <1>6, <2>1 DEF OperandsKnown
  <2>3. DefCfaRegister(v[1])
    BY <1>6 DEF Execute
  <2>4. i.means = [reg |-> RegName(v[1])] /\ l = lost
    BY <1>1, <1>2, <1>6, <2>1 DEF Standard, Restores
  <2> QED
    BY <2>2, <2>3, <2>4, DefRegisterStep
<1>7. CASE i.op = "def_cfa_offset"
  <2>1. v[1] = Value(i, 1)
    BY <1>1, <1>7 DEF Reads
  <2>2. v[1] \in CfaOffs
    BY <1>1, <1>7, <2>1 DEF OperandsKnown
  <2>3. DefCfaOffset(v[1])
    BY <1>7 DEF Execute
  <2>4. i.means = [off |-> v[1]] /\ l = lost
    BY <1>1, <1>2, <1>7, <2>1 DEF Standard, Restores
  <2> QED
    BY <2>2, <2>3, <2>4, DefOffsetStep
<1>8. CASE i.op = "def_cfa_offset_sf"
  <2>1. v[1] = Value(i, 1)
    BY <1>1, <1>8 DEF Reads
  <2>2. v[1] * DataAlign \in CfaOffs
    BY <1>1, <1>8, <2>1 DEF OperandsKnown
  <2>3. DefCfaOffset(v[1] * DataAlign)
    BY <1>8, <2>2, ScaledRight DEF Execute
  <2>4. i.means = [off |-> v[1] * DataAlign] /\ l = lost
    BY <1>1, <1>2, <1>8, <2>1 DEF Standard, Restores
  <2> QED
    BY <2>2, <2>3, <2>4, DefOffsetStep
<1>9. CASE i.op = "def_cfa_expression"
  <2>1. v[1] = Value(i, 1)
    BY <1>1, <1>9 DEF Reads
  <2>2. v[1] \in ExprLens
    BY <1>1, <1>9, <2>1 DEF OperandsKnown
  <2>3. DefCfaExpression(v[1])
    BY <1>9 DEF Execute
  <2>4. i.means = [reg |-> IF v[1] = 11 THEN "plt" ELSE "none", off |-> DW_STACK_SLOT] /\ l = lost
    BY <1>1, <1>2, <1>9, <2>1 DEF Standard, Restores
  <2> QED
    BY <2>2, <2>3, <2>4, DefExpressionStep
<1>10. CASE i.op = "offset"
  <2>1. v[1] = Value(i, 1)
    BY <1>1, <1>10 DEF Reads
  <2>2. i.bits = DW_REG_FP => v[1] \in FpOffs
    BY <1>1, <1>10, <2>1 DEF OperandsKnown
  <2>3. SaveFp(i.bits, v[1])
    BY <1>10 DEF Execute
  <2>4. i.means = SavedAt(i.bits, v[1]) /\ l = lost
    BY <1>1, <1>2, <1>10, <2>1 DEF Standard, Restores
  <2> QED
    BY <2>2, <2>3, <2>4, SaveFpStep
<1>11. CASE i.op \in {"offset_extended", "offset_extended_sf"}
  <2>1. v[1] = Value(i, 1) /\ v[2] = Value(i, 2)
    BY <1>1, <1>11 DEF Reads
  <2>2. v[1] = DW_REG_FP => v[2] \in FpOffs
    BY <1>1, <1>11, <2>1 DEF OperandsKnown
  <2>3. SaveFp(v[1], v[2])
    BY <1>11 DEF Execute
  <2>4. i.means = SavedAt(v[1], v[2]) /\ l = lost
    BY <1>1, <1>2, <1>11, <2>1 DEF Standard, Restores
  <2> QED
    BY <2>2, <2>3, <2>4, SaveFpStep
<1>12. CASE i.op = "val_expression"
  <2> DEFINE off == caller
  <2>1. v[1] = Value(i, 1)
    BY <1>1, <1>12 DEF Reads
  <2>2. l = lost
    BY <1>2, <1>12 DEF Restores
  <2>3. CASE v[1] = DW_REG_PC
    <3>1. ExpressionRight(i.expression) /\ CallerPc(i.expression) \in PcOffs
      BY <1>1, <1>12, <2>1, <2>3 DEF OperandsKnown
    <3>2. off = CallerPc(i.expression)
      BY <3>1
    <3>3. ValExpression(off)
      BY <1>12, <2>3 DEF Execute
    <3> HIDE DEF off
    <3>4. i.means = IF off # 0 THEN [how |-> "pc", by |-> off] ELSE NoUpdate
      BY <1>1, <1>12, <2>1, <2>3, <3>2 DEF Standard
    <3>5. off \in PcOffs
      BY <3>1, <3>2
    <3> QED
      BY <2>2, <3>3, <3>4, <3>5, CallerStep
  <2>4. CASE v[1] # DW_REG_PC
    <3>1. SetRegs(regs)
      BY <1>12, <2>4 DEF Execute
    <3>2. i.means = NoUpdate
      BY <1>1, <1>12, <2>1, <2>4 DEF Standard
    <3>3. Hold(regs, Updated(meant.now, NoUpdate), lost)
      BY HoldSame, NothingUpdated
    <3> QED
      BY <2>2, <3>1, <3>2, <3>3, SetRegsVars DEF Done
  <2> QED
    BY <2>3, <2>4
<1>13. CASE i.op \in Skips
  <2>1. SetRegs(regs)
    BY <1>13 DEF Execute, Skips
  <2>2. l = FALSE => lost = FALSE /\ ~(i.op \in Restores /\ "how" \in DOMAIN i.means)
    OBVIOUS
  <2> QED
    BY <1>13, <2>1, <2>2, SkippedStep
<1>14. \/ i.op \in {"advance_loc", "advance_loc1", "advance_loc2", "advance_loc4"}
       \/ i.op \in {"def_cfa", "def_cfa_sf", "def_cfa_register", "def_cfa_offset",
                    "def_cfa_offset_sf", "def_cfa_expression", "offset", "offset_extended",
                    "offset_extended_sf", "val_expression"}
       \/ i.op \in Skips
  BY DEF Execute, Skips
<1> QED
  BY <1>3, <1>4, <1>5, <1>6, <1>7, <1>8, <1>9, <1>10, <1>11, <1>12, <1>13, <1>14

-----------------------------------------------------------------------------
(* The parser of bytes implements FrameTable.                                *)

RInv == IInv /\ MeantInv

LEMMA ReadInstructionKeeps ==
  ASSUME Hypotheses, RInv, bytes, NEW r \in Readings, ReadInstruction(r)
  PROVE  [Next]_vars /\ MeantInv'
<1> DEFINE i == r.insn
           v == r.values
<1>1. /\ r.insn.op = "remember_state" => ~rem.known
      /\ Execute(i.op, i.bits, v, r.caller)
      /\ meant' = Meant(i)
      /\ lost' = (lost \/ (i.op \in Restores /\ "how" \in DOMAIN i.means))
      /\ bytes' = bytes
  BY DEF ReadInstruction, Restores
<1>2. Known(i, v) /\ (ExpressionRight(i.expression) => r.caller = CallerPc(i.expression))
  BY ReadingsRight DEF Known
<1>3. /\ lost \in BOOLEAN /\ meant = [now |-> meant.now, rem |-> meant.rem]
      /\ pc = "insn" => Hold(regs, meant.now, lost) /\ (rem.known => Hold(rem, meant.rem, lost))
  BY DEF RInv, MeantInv
<1>4. regs \in Regs /\ rem \in Regs
  BY DEF RInv, IInv, TypeOK
<1> HIDE DEF i, v
<1>5. lost' \in BOOLEAN /\ (lost' = FALSE => lost = FALSE)
  BY <1>1, <1>3
<1>6. CASE i.op = "remember_state"
  <2>1. RememberState
    BY <1>1, <1>6 DEF Execute
  <2>2. pc = "insn" /\ pc' = pc /\ regs' = regs /\ rem' = regs
    BY <2>1 DEF RememberState
  <2>3. Next
    BY <2>1 DEF Next, Parse, Instruction
  <2>4. meant' = [meant EXCEPT !.rem = meant.now]
    BY <1>1, <1>6 DEF Meant
  <2>5. meant' = [now |-> meant.now, rem |-> meant.now]
    BY <1>3, <2>4
  <2>6. Hold(regs, meant.now, lost')
    BY <1>3, <1>5, <2>2, HoldWeak
  <2> QED
    BY <1>5, <2>2, <2>3, <2>5, <2>6 DEF MeantInv
<1>7. CASE i.op = "restore_state"
  <2>1. RestoreState
    BY <1>1, <1>7 DEF Execute
  <2>2. pc = "insn" /\ pc' = pc /\ regs' = rem /\ rem' = rem /\ rem.known
    BY <2>1, SetRegsVars DEF RestoreState
  <2>3. Next
    BY <2>1 DEF Next, Parse, Instruction
  <2>4. meant' = [meant EXCEPT !.now = meant.rem]
    BY <1>1, <1>7 DEF Meant
  <2>5. meant' = [now |-> meant.rem, rem |-> meant.rem]
    BY <1>3, <2>4
  <2>6. Hold(rem, meant.rem, lost')
    BY <1>3, <1>5, <2>2, HoldWeak
  <2> QED
    BY <1>5, <2>2, <2>3, <2>5, <2>6 DEF MeantInv
<1>8. CASE i.op \notin {"remember_state", "restore_state"}
  <2>1. pc = "insn"
    BY <1>1 DEF Execute, AdvanceLoc, Advance, SaveFp, SetRegs, DefCfa, DefCfaRegister, DefCfaOffset,
                DefCfaExpression, ValExpression, RememberState, RestoreState
  <2>2. Execute(i.op, i.bits, v, r.caller)
    BY <1>1, <1>2
  <2>3. Done(i.means, lost')
    BY <1>1, <1>2, <1>3, <1>4, <1>8, <2>1, <2>2, ExecuteDone
  <2>4. meant' = [meant EXCEPT !.now = Updated(meant.now, i.means)]
    BY <1>1, <1>3, <1>8 DEF Meant, Updated
  <2>5. meant' = [now |-> Updated(meant.now, i.means), rem |-> meant.rem]
    BY <1>3, <2>4
  <2>6. rem.known => Hold(rem, meant.rem, lost')
    BY <1>3, <1>5, <2>1, HoldWeak
  <2>7. /\ Next \/ UNCHANGED vars
        /\ pc' = pc /\ rem' = rem /\ Hold(regs', Updated(meant.now, i.means), lost')
    BY <2>3 DEF Done
  <2> QED
    BY <1>5, <2>1, <2>5, <2>6, <2>7 DEF MeantInv
<1> QED
  BY <1>6, <1>7, <1>8

LEMMA ReadFdeKeeps ==
  ASSUME Hypotheses, RInv, bytes, NEW start \in 0..MaxLoc, NEW len \in 0..MaxLoc, ReadFde(start, len)
  PROVE  Next /\ MeantInv'
<1>1. parsed = 0 /\ ParseFde(start, len) /\ UNCHANGED <<bytes, meant, lost>>
  BY DEF ReadFde
<1>2. Next
  BY <1>1 DEF Next, Parse
<1>3. pc = "fde" /\ pc' = "insn" /\ regs' = EntryRegs /\ rem' = NoRegs
  BY <1>1 DEF ParseFde
<1>4. meant.now = EntryRule /\ lost \in BOOLEAN /\ meant = [now |-> meant.now, rem |-> meant.rem]
  BY <1>1, <1>3 DEF RInv, MeantInv
<1>5. Hold(EntryRegs, EntryRule, lost)
  BY EntryHolds
<1>6. ~NoRegs.known
  BY DEF NoRegs
<1> QED
  BY <1>1, <1>2, <1>3, <1>4, <1>5, <1>6 DEF MeantInv

LEMMA OtherKeeps ==
  ASSUME RInv, UNCHANGED reader, LastRow \/ UnknownInstruction \/ EndFde \/ Parsed \/ Complete
  PROVE  [Next]_vars /\ MeantInv'
<1>1. lost \in BOOLEAN /\ meant = [now |-> meant.now, rem |-> meant.rem] /\ parsed \in Nat
  BY DEF RInv, MeantInv, IInv, TypeOK
<1>2. UNCHANGED <<bytes, meant, lost>>
  BY DEF reader
<1>3. pc' # "insn" /\ (pc' = "fde" => parsed' # 0)
  <2>1. CASE LastRow \/ UnknownInstruction
    BY <2>1 DEF LastRow, UnknownInstruction, Return
  <2>2. CASE EndFde
    BY <1>1, <2>2 DEF EndFde
  <2>3. CASE Parsed
    BY <2>3 DEF Parsed
  <2>4. CASE Complete
    BY <2>4 DEF Complete, vars
  <2> QED
    BY <2>1, <2>2, <2>3, <2>4
<1>4. [Next]_vars
  BY DEF Next, Parse, Complete
<1> QED
  BY <1>1, <1>2, <1>3, <1>4 DEF MeantInv

LEMMA ReaderStep ==
  ASSUME Hypotheses, RInv, [ReaderNext]_readerVars
  PROVE  [Next]_vars /\ RInv'
<1>1. [Next]_vars /\ MeantInv'
  <2>1. ASSUME ~bytes, Next, UNCHANGED reader PROVE [Next]_vars /\ MeantInv'
    BY <2>1 DEF RInv, MeantInv, reader
  <2>2. ASSUME bytes, NEW start \in 0..MaxLoc, NEW len \in 0..MaxLoc, ReadFde(start, len)
        PROVE  [Next]_vars /\ MeantInv'
    BY <2>2, ReadFdeKeeps
  <2>3. ASSUME bytes, NEW r \in Readings, ReadInstruction(r) PROVE [Next]_vars /\ MeantInv'
    BY <2>3, ReadInstructionKeeps
  <2>4. ASSUME LastRow \/ UnknownInstruction \/ EndFde \/ Parsed \/ Complete, UNCHANGED reader
        PROVE  [Next]_vars /\ MeantInv'
    BY <2>4, OtherKeeps
  <2>5. CASE UNCHANGED readerVars
    BY <2>5 DEF readerVars, reader, vars, parser, RInv, MeantInv
  <2> QED
    BY <2>1, <2>2, <2>3, <2>4, <2>5 DEF ReaderNext, ReadBytes
<1>2. IInv'
  BY <1>1, StepIInv DEF RInv
<1> QED
  BY <1>1, <1>2 DEF RInv

LEMMA ReaderStarts == ReaderInit => RInv
<1> SUFFICES ASSUME ReaderInit PROVE RInv
  OBVIOUS
<1>1. IInv
  BY InitIInv DEF ReaderInit
<1>2. pc = "fde" /\ meant = [now |-> EntryRule, rem |-> EntryRule] /\ lost = FALSE
  BY DEF ReaderInit, Init
<1>3. MeantInv
  BY <1>2 DEF MeantInv
<1> QED
  BY <1>1, <1>3 DEF RInv

\* Whatever of the instructions a compiler emits and however it encodes them, the rule
\* the walker takes from a record with the present registers is the one that is meant:
\* remembered and restored states, both encodings of an offset and the two packed ints
\* included, and of the frame pointer until a change of it is skipped.
THEOREM RulesMeant ==
  ASSUME InstructionsRight, RulesFit, FactorsFit, PowersRight
  PROVE  ReaderSpec => []RuleMeant
<1>1. Hypotheses
  BY DEF Hypotheses
<1>2. ReaderInit => RInv
  BY ReaderStarts
<1>3. RInv /\ [ReaderNext]_readerVars => RInv'
  BY <1>1, ReaderStep
<1>4. RInv => RuleMeant
  BY <1>1, HoldMeans DEF RInv
<1> QED
  BY <1>2, <1>3, <1>4, PTL DEF ReaderSpec

\* Each step of the parser of bytes is one of the parser of instructions, with operands
\* that the proofs about the table assume.
THEOREM BytesRefine ==
  ASSUME InstructionsRight, RulesFit, FactorsFit, PowersRight
  PROVE  ReaderSpec => TableRefined
<1>1. Hypotheses
  BY DEF Hypotheses
<1>2. ReaderInit => RInv
  BY ReaderStarts
<1>3. RInv /\ [ReaderNext]_readerVars => RInv'
  BY <1>1, ReaderStep
<1>4. RInv /\ [ReaderNext]_readerVars => [bytes => Next]_vars
  BY <1>1, ReaderStep
<1> QED
  BY <1>2, <1>3, <1>4, PTL DEF ReaderSpec, TableRefined

\* The whole specification of the reader implements that of the table.
THEOREM ReaderImplementsTable ==
  ASSUME InstructionsRight, RulesFit, FactorsFit, PowersRight
  PROVE  ReaderSpec => Spec
<1>1. Hypotheses
  BY DEF Hypotheses
<1>2. ReaderInit => RInv /\ Init
  BY ReaderStarts DEF ReaderInit
<1>3. RInv /\ [ReaderNext]_readerVars => RInv' /\ [Next]_vars
  BY <1>1, ReaderStep
<1> QED
  BY <1>2, <1>3, PTL DEF ReaderSpec, Spec

\* Hence a lookup in a table that was read from bytes gives the rule of the program.
THEOREM BytesSound ==
  ASSUME InstructionsRight, RulesFit, FactorsFit, PowersRight
  PROVE  ReaderSpec => [](TypeOK /\ TableSorted /\ TableFits /\ FoundIsFloor /\ LookupSound)
<1>1. ReaderSpec => Spec
  BY ReaderImplementsTable
<1>2. (Spec => []TypeOK) /\ (Spec => []TableSorted) /\ (Spec => []TableFits)
      /\ (Spec => []FoundIsFloor) /\ (Spec => []LookupSound)
  BY TypeCorrect, TablesSorted, TablesFit, FoundFloor, LookupsSound
<1> QED
  BY <1>1, <1>2, PTL
=============================================================================
