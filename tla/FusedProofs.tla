---------------------------- MODULE FusedProofs -------------------------------
(****************************************************************************)
(* Proofs about the fused pipeline, fma_unit.v, for every format and every  *)
(* set of requests: the digits of the multiplier make up the exact product, *)
(* the window of the aligner with its sticky bits stands for the exact sum, *)
(* and the last stage rounds it once, as the reference does, except where   *)
(* the step back of a directed mode misplaces it (Misplaced in FpuUnit).    *)
(****************************************************************************)
EXTENDS FpuUnitProofs

(***************************************************************************)
(* The product                                                             *)
(***************************************************************************)

(* The digits read the multiplier with a zero behind it.                    *)
LEMMA BitBehind ==
  ASSUME NEW y \in Nat, NEW k \in Nat
  PROVE  Bit(2 * y, k + 1) = Bit(y, k) /\ ~Bit(2 * y, 0)
<1>1. 2^k \in Nat /\ 2^k >= 1 /\ 2^(k + 1) = 2 * 2^k
  BY OneBitMore
<1> DEFINE p == 2^k
<1> HIDE DEF p
<1>2. p \in Nat /\ p >= 1
  BY <1>1 DEF p
<1>3. (2 * y) \div (2 * p) = y \div p
  <2>1. y \div p \in Nat /\ y % p \in Nat /\ y % p < p /\ y = p * (y \div p) + (y % p)
    <3>1. SameRatio(y, p, y, p)
      BY <1>2 DEF SameRatio
    <3>2. y \div p \in Int /\ y % p \in Nat /\ y % p < p /\ y = p * (y \div p) + (y % p)
      BY <1>2
    <3>3. y \div p >= 0
      <4>1. y >= p * 0
        BY <1>2
      <4> QED BY <1>2, <4>1, Threshold
    <3> QED BY <3>2, <3>3
  <2> DEFINE q == y \div p
             r == y % p
  <2>2. q \in Nat /\ r \in Nat /\ r < p /\ y = p * q + r
    BY <2>1
  <2> HIDE DEF q, r
  <2>3. p * q \in Nat /\ (2 * p) * q = 2 * (p * q)
    BY <1>2, <2>2
  <2>4. Division(2 * y, 2 * p, q, 2 * r)
    BY <1>2, <2>2, <2>3 DEF Division
  <2>5. (2 * y) \div (2 * p) = q
    BY <2>4, DivisionIs
  <2> QED BY <2>5 DEF q
<1>4. (2 * y) \div 2^(k + 1) = y \div 2^k
  BY <1>1, <1>3 DEF p
<1>5. ~Bit(2 * y, 0)
  <2>1. 2^0 = 1 /\ (2 * y) \div 1 = 2 * y /\ (2 * y) % 2 = 0
    OBVIOUS
  <2> QED BY <2>1 DEF Bit, Odd
<1> QED BY <1>4, <1>5 DEF Bit

BitOf(y, k) == IF Bit(y, k) THEN 1 ELSE 0

(* The first digits make up the first bits, the last of them as a sign.     *)
Partial(y, i) == (y % 2^(2 * i + 1)) - BitOf(y, 2 * i + 1) * 2^(2 * i + 1)

(* A digit of the multiplier, in its place, is what it adds to the part of  *)
(* the multiplier read so far.                                              *)
LEMMA DigitsAre ==
  ASSUME NEW y \in Nat, NEW i \in Nat, 2 * i <= FRAC + 1
  PROVE  /\ BoothDigit(y, i) \in Int /\ Partial(y, i) \in Int /\ 2^(2 * i) \in Nat
         /\ BoothDigit(y, i) * 2^(2 * i) = Partial(y, i) - (IF i = 0 THEN 0 ELSE Partial(y, i - 1))
<1>1. FRAC \in Nat /\ FRAC >= 3 /\ BIAS \in Nat /\ BIAS > FRAC
  BY Formats
<1> DEFINE j == 2 * i
<1>2. j \in Nat /\ j + 1 \in Nat /\ (j + 1) + 1 = j + 2
      /\ 2 * i + 0 = j /\ 2 * i + 1 = j + 1 /\ 2 * i + 2 = j + 2
  BY <1>1
<1>3. 2^(2 * i) = 2^j /\ 2^(2 * i) \in Nat
  BY <1>1, Powers
<1>4. /\ BoothDigit(y, i) = BitOf(2 * y, j) + BitOf(2 * y, j + 1) - 2 * BitOf(2 * y, j + 2)
  BY <1>2 DEF BoothDigit, BitOf
<1>5. BitOf(2 * y, j + 1) = BitOf(y, j) /\ BitOf(2 * y, j + 2) = BitOf(y, j + 1)
  <2> HIDE DEF j
  <2>1. Bit(2 * y, j + 1) = Bit(y, j) /\ Bit(2 * y, (j + 1) + 1) = Bit(y, j + 1)
    BY <1>2, BitBehind
  <2> QED BY <1>2, <2>1 DEF BitOf
<1>6. Partial(y, i) = (y % 2^(j + 1)) - BitOf(y, j + 1) * 2^(j + 1)
  BY DEF Partial
<1>7. /\ 2^j \in Nat /\ 2^(j + 1) = 2 * 2^j
      /\ y % 2^j \in Nat
      /\ y % 2^(j + 1) = (IF Bit(y, j) THEN 2^j ELSE 0) + (y % 2^j)
  <2> HIDE DEF j
  <2> QED BY <1>2, OneBitMore
<1>8. \A k : BitOf(y, k) \in 0..1 /\ BitOf(2 * y, k) \in 0..1
  BY DEF BitOf
<1> DEFINE P == 2^j
           b0 == BitOf(y, j)
           b1 == BitOf(y, j + 1)
           low == y % 2^j
<1>9. P \in Nat /\ b0 \in 0..1 /\ b1 \in 0..1 /\ low \in Nat
  BY <1>7, <1>8
<1>10. Partial(y, i) = b0 * P + low - b1 * (2 * P)
  <2>1. (IF Bit(y, j) THEN 2^j ELSE 0) = b0 * P
    BY <1>7 DEF BitOf
  <2>2. y % 2^(j + 1) = b0 * P + low /\ b1 * 2^(j + 1) = b1 * (2 * P)
    BY <1>7, <2>1
  <2> DEFINE all == y % 2^(j + 1)
             top == b1 * 2^(j + 1)
  <2>3. Partial(y, i) = all - top /\ all = b0 * P + low /\ top = b1 * (2 * P)
    BY <1>6, <2>2
  <2>4. b0 * P \in Int /\ b1 * (2 * P) \in Int
    BY <1>9
  <2> HIDE DEF P, b0, b1, low, all, top
  <2> QED BY <1>9, <2>3, <2>4
<1>11. CASE i = 0
  <2>1. j = 0 /\ P = 1 /\ low = 0
    <3>1. 2^0 = 1 /\ y % 1 = 0
      OBVIOUS
    <3> QED BY <1>11, <3>1
  <2>2. BitOf(2 * y, j) = 0
    <3>1. PICK z \in Nat : z = 0
      OBVIOUS
    <3>2. ~Bit(2 * y, 0)
      BY <3>1, BitBehind
    <3> QED BY <2>1, <3>2 DEF BitOf
  <2>3. BoothDigit(y, i) = b0 - 2 * b1
    <3> HIDE DEF j
    <3> QED BY <1>4, <1>5, <1>8, <2>2
  <2>4. Partial(y, i) = b0 - b1 * 2
    <3> HIDE DEF P, b0, b1, low, j
    <3> QED BY <1>9, <1>10, <2>1
  <2>5. 2^(2 * i) = 1
    BY <1>3, <2>1
  <2> HIDE DEF P, b0, b1, low, j
  <2> QED BY <1>3, <1>9, <1>11, <2>3, <2>4, <2>5
<1>12. CASE i # 0
  <2> DEFINE h == j - 1
             H == 2^h
             c == BitOf(y, h)
             lo == y % H
  <2>1. h \in Nat /\ h + 1 = j /\ 2 * (i - 1) + 1 = h /\ i - 1 \in Nat
    BY <1>1, <1>2, <1>12
  <2>2. BitOf(2 * y, j) = c
    <3> HIDE DEF j, h
    <3>1. Bit(2 * y, h + 1) = Bit(y, h)
      BY <2>1, BitBehind
    <3> QED BY <2>1, <3>1 DEF BitOf
  <2>3. H \in Nat /\ P = 2 * H /\ lo \in Nat /\ low = c * H + lo /\ c \in 0..1
    <3> HIDE DEF j, h
    <3>1. 2^h \in Nat /\ 2^(h + 1) = 2 * 2^h /\ y % 2^h \in Nat
          /\ y % 2^(h + 1) = (IF Bit(y, h) THEN 2^h ELSE 0) + (y % 2^h)
      BY <2>1, OneBitMore
    <3>2. (IF Bit(y, h) THEN 2^h ELSE 0) = c * H
      BY <3>1 DEF BitOf
    <3> QED BY <1>8, <2>1, <3>1, <3>2
  <2>4. Partial(y, i - 1) = lo - c * H
    BY <2>1 DEF Partial
  <2>5. BoothDigit(y, i) = c + b0 - 2 * b1
    <3> HIDE DEF j, c, h
    <3> QED BY <1>4, <1>5, <1>8, <2>2
  <2> HIDE DEF h, H, c, lo
  <2>6. 2^(2 * i) = P
    BY <1>3
  <2> HIDE DEF P, b0, b1, low, j
  <2>7. (c + b0 - 2 * b1) * P = c * P + b0 * P - 2 * (b1 * P) /\ b1 * (2 * P) = 2 * (b1 * P) /\ c * P = 2 * (c * H)
        /\ c * P \in Int /\ b0 * P \in Int /\ b1 * P \in Int /\ c * H \in Int
    BY <1>9, <2>3
  <2>8. BoothDigit(y, i) * 2^(2 * i) = Partial(y, i) - Partial(y, i - 1)
    BY <1>9, <1>10, <2>3, <2>4, <2>5, <2>6, <2>7
  <2>9. BoothDigit(y, i) \in Int /\ Partial(y, i) \in Int
    BY <1>9, <1>10, <2>3, <2>5, <2>7
  <2> QED BY <1>3, <1>12, <2>8, <2>9
<1> QED BY <1>11, <1>12

(* The digits multiply.                                                     *)
LEMMA ProductIs ==
  ASSUME NEW x \in Nat, NEW y \in 0..2 * ONE - 1
  PROVE  Product(x, y) = x * y
<1> DEFINE last == (FRAC + 1) \div 2
           Term(i) == BoothDigit(y, i) * x * 2^(2 * i)
           Rec(f) == f = [i \in 0..last |-> Term(i) + (IF i = 0 THEN 0 ELSE f[i - 1])]
           f == CHOOSE g : Rec(g)
           sol == [i \in 0..last |-> x * Partial(y, i)]
<1>1. FRAC \in Nat /\ FRAC >= 3 /\ BIAS \in Nat /\ BIAS > FRAC /\ ONE \in Nat /\ ONE >= 8
      /\ FRAC % 2 = 1
  BY Formats, FormatAssumption
<1>2. last \in Nat /\ 2 * last = FRAC + 1
  BY <1>1
<1>3. Product(x, y) = f[last]
  BY DEF Product
<1>4. y \in Nat /\ y < 2 * ONE
  BY <1>1
<1> HIDE DEF last
<1>5. ASSUME NEW i \in 0..last
      PROVE  Term(i) \in Int /\ Partial(y, i) \in Int
             /\ x * Partial(y, i) = Term(i) + (IF i = 0 THEN 0 ELSE x * Partial(y, i - 1))
  <2>1. i \in Nat /\ 2 * i <= FRAC + 1
    BY <1>1, <1>2
  <2>2. /\ BoothDigit(y, i) \in Int /\ Partial(y, i) \in Int /\ 2^(2 * i) \in Nat
        /\ BoothDigit(y, i) * 2^(2 * i) = Partial(y, i) - (IF i = 0 THEN 0 ELSE Partial(y, i - 1))
    BY <1>4, <2>1, DigitsAre
  <2> DEFINE D == BoothDigit(y, i)
             F == 2^(2 * i)
             p == Partial(y, i)
  <2>3. Term(i) = x * (D * F) /\ Term(i) \in Int
    <3>1. D \in Int /\ F \in Int
      BY <2>2
    <3> HIDE DEF D, F
    <3>2. D * x * F = x * (D * F) /\ D * x * F \in Int
      BY <3>1
    <3> QED BY <3>2 DEF D, F
  <2>4. CASE i = 0
    <3>1. Term(i) = x * p
      BY <2>2, <2>3, <2>4
    <3> QED BY <2>2, <2>3, <2>4, <3>1
  <2>5. CASE i # 0
    <3> DEFINE r == Partial(y, i - 1)
    <3>1. r \in Int
      <4>1. i - 1 \in Nat /\ 2 * (i - 1) <= FRAC + 1
        BY <1>1, <2>1, <2>5
      <4> QED BY <1>4, <4>1, DigitsAre
    <3>2. Term(i) = x * (p - r)
      BY <2>2, <2>3, <2>5
    <3>3. p \in Int
      BY <2>2
    <3> HIDE DEF p, r
    <3>4. x * (p - r) = x * p - x * r /\ x * p \in Int /\ x * r \in Int
      BY <3>1, <3>3
    <3>5. x * p = Term(i) + x * r
      BY <2>3, <3>2, <3>4
    <3> QED BY <2>3, <2>5, <3>3, <3>5 DEF p, r
  <2> QED BY <2>4, <2>5
<1> HIDE DEF Term
<1>6. Rec(sol)
  <2>1. sol = [i \in 0..last |-> Term(i) + (IF i = 0 THEN 0 ELSE sol[i - 1])]
    <3>1. ASSUME NEW i \in 0..last PROVE x * Partial(y, i) = Term(i) + (IF i = 0 THEN 0 ELSE sol[i - 1])
      <4>1. CASE i = 0
        BY <1>5, <4>1
      <4>2. CASE i # 0
        <5>1. i - 1 \in 0..last
          BY <1>2, <4>2
        <5> QED BY <1>5, <4>2, <5>1
      <4> QED BY <4>1, <4>2
    <3> QED BY <3>1
  <2> QED BY <2>1
<1> HIDE DEF sol
<1>7. Rec(f)
  BY <1>6
<1> HIDE DEF f
<1> DEFINE S == {i \in Nat : i <= last => f[i] = x * Partial(y, i)}
<1>8. 0 \in S
  <2>1. 0 \in 0..last
    BY <1>2
  <2>2. f[0] = Term(0) + 0
    BY <1>7, <2>1
  <2>3. x * Partial(y, 0) = Term(0) + 0
    BY <1>5, <2>1
  <2> QED BY <2>2, <2>3
<1>9. ASSUME NEW i \in S PROVE i + 1 \in S
  <2>1. SUFFICES ASSUME i + 1 <= last PROVE f[i + 1] = x * Partial(y, i + 1)
    OBVIOUS
  <2>2. i + 1 \in 0..last /\ i + 1 # 0 /\ (i + 1) - 1 = i /\ f[i] = x * Partial(y, i)
    BY <1>2, <2>1
  <2>3. f[i + 1] = Term(i + 1) + f[(i + 1) - 1]
    BY <1>7, <2>2
  <2>4. x * Partial(y, i + 1) = Term(i + 1) + x * Partial(y, (i + 1) - 1)
    BY <1>5, <2>2
  <2> QED BY <2>2, <2>3, <2>4
<1> HIDE DEF S
<1>10. S \in SUBSET Nat
  BY DEF S
<1>11. S = Nat
  BY <1>8, <1>9, <1>10, SetInduction
<1>12. f[last] = x * Partial(y, last)
  BY <1>2, <1>11 DEF S
<1>13. Partial(y, last) = y
  <2>1. 2^(FRAC + 2) \in Nat /\ y < 2^(FRAC + 2) /\ 2 * last + 1 = FRAC + 2
    <3>1. 2^(FRAC + 1) = 2 * ONE /\ 2^(FRAC + 2) = 4 * ONE
      BY Width
    <3> QED BY <1>1, <1>2, <1>4, <3>1
  <2> DEFINE p == 2^(FRAC + 2)
  <2>2. p \in Nat /\ p >= 1 /\ y < p
    BY <1>4, <2>1
  <2> HIDE DEF p
  <2>3. Division(y, p, 0, y)
    BY <1>4, <2>2 DEF Division
  <2>4. y \div p = 0 /\ y % p = y
    BY <2>3, DivisionIs
  <2>5. BitOf(y, 2 * last + 1) = 0
    <3>1. ~Odd(0)
      BY DEF Odd
    <3> QED BY <2>1, <2>4, <3>1 DEF BitOf, Bit, p
  <2>6. Partial(y, last) = y - 0 * p
    BY <2>1, <2>4, <2>5 DEF Partial, p
  <2> QED BY <1>4, <2>2, <2>6
<1> QED BY <1>3, <1>12, <1>13

(* Two bits of the quotient go to the remainder.                            *)
LEMMA TwoBits ==
  ASSUME NEW n, NEW h, NEW q, NEW r, Division(n, h, q, r)
  PROVE  /\ Division(n, 2 * h, q \div 2, (IF Odd(q) THEN h ELSE 0) + r)
         /\ Division(n, 4 * h, q \div 4,
                     (IF Odd(q \div 2) THEN 2 * h ELSE 0) + ((IF Odd(q) THEN h ELSE 0) + r))
<1>1. n \in Nat /\ h \in Nat /\ h >= 1 /\ q \in Nat /\ r \in Nat /\ r < h /\ n = h * q + r
  BY DEF Division
<1>2. PICK m \in Nat, b \in 0..1 : q = 2 * m + b
  <2>1. q \div 2 \in Nat /\ q % 2 \in 0..1 /\ q = 2 * (q \div 2) + (q % 2)
    BY <1>1
  <2> QED BY <2>1
<1>3. PICK l \in Nat, c \in 0..1 : m = 2 * l + c
  <2>1. m \div 2 \in Nat /\ m % 2 \in 0..1 /\ m = 2 * (m \div 2) + (m % 2)
    BY <1>2
  <2> QED BY <2>1
<1>4. q \div 2 = m /\ q % 2 = b /\ q \div 4 = l /\ m % 2 = c
  BY <1>1, <1>2, <1>3
<1>5. h * q = 2 * (h * m) + h * b /\ h * m = 2 * (h * l) + h * c
      /\ (2 * h) * m = 2 * (h * m) /\ (4 * h) * l = 4 * (h * l)
      /\ h * m \in Nat /\ h * l \in Nat
  <2>1. h * m \in Nat /\ h * l \in Nat /\ h * b \in Nat /\ h * c \in Nat
    BY <1>1, <1>2, <1>3
  <2>2. h * (2 * m + b) = 2 * (h * m) + h * b /\ h * (2 * l + c) = 2 * (h * l) + h * c
    BY <1>1, <1>2, <1>3
  <2>3. (2 * h) * m = 2 * (h * m) /\ (4 * h) * l = 4 * (h * l)
    BY <1>1, <1>2, <1>3
  <2> QED BY <1>2, <1>3, <2>1, <2>2, <2>3
<1>6. h * b = (IF Odd(q) THEN h ELSE 0) /\ h * c = (IF Odd(m) THEN h ELSE 0)
  BY <1>1, <1>2, <1>3, <1>4 DEF Odd
<1> DEFINE hb == h * b
           hc == h * c
           hm == h * m
           hl == h * l
<1>7. n = 2 * hm + hb + r /\ hm = 2 * hl + hc /\ hb \in {0, h} /\ hc \in {0, h} /\ hm \in Nat /\ hl \in Nat
  BY <1>1, <1>5, <1>6
<1>8. hb = (IF Odd(q) THEN h ELSE 0) /\ 2 * hc = (IF Odd(m) THEN 2 * h ELSE 0)
      /\ (2 * h) * m = 2 * hm /\ (4 * h) * l = 4 * hl
  BY <1>1, <1>5, <1>6
<1> HIDE DEF hb, hc, hm, hl
<1>9. Division(n, 2 * h, m, hb + r)
  BY <1>1, <1>2, <1>7, <1>8 DEF Division
<1>10. Division(n, 4 * h, l, 2 * hc + (hb + r))
  BY <1>1, <1>3, <1>7, <1>8 DEF Division
<1> QED BY <1>4, <1>8, <1>9, <1>10

(* Quotient and remainder of a division, as numbers.                        *)
LEMMA HasDivision ==
  ASSUME NEW n \in Nat, NEW d \in Nat, d >= 1
  PROVE  Division(n, d, n \div d, n % d)
<1>1. n \div d \in Int /\ n % d \in Nat /\ n % d < d /\ n = d * (n \div d) + (n % d)
  OBVIOUS
<1>2. n \div d >= 0
  <2>1. n >= d * 0
    OBVIOUS
  <2> QED BY <2>1, Threshold
<1> QED BY <1>1, <1>2 DEF Division

(* The registers of the last stage that rounding reads.                     *)
SumOK(p2) ==
  /\ p2.rm \in RoundingModes /\ p2.acc_sign \in BOOLEAN /\ p2.full \in Nat
  /\ p2.deep_sticky \in BOOLEAN /\ p2.cross_exact \in BOOLEAN

Directed(rm) == rm \in {"RTZ", "RDN", "RUP"}

(* Cutting the sum at position k rounds N / E, of which the sum is the      *)
(* whole part or next to it.                                                *)
CutIs(p2, N, E, k) ==
  /\ Cut(p2, k).mag = Reference!RoundQuotient(p2.rm, p2.acc_sign, N, 2^k * E)
  /\ Cut(p2, k).inexact <=> N % (2^k * E) # 0

(* The bits above position k - 2 are those of N / E, and what is below them *)
(* is not zero in one exactly if it is not in the other.                    *)
SameBits(p2, N, E, k) ==
  /\ N \in Nat /\ E \in Nat /\ E >= 1 /\ k \in Nat /\ k >= 3
  /\ N \div (2^(k - 2) * E) = p2.full \div 2^(k - 2)
  /\ p2.deep_sticky \/ p2.full % 2^(k - 2) # 0 <=> N % (2^(k - 2) * E) # 0
  /\ ~(Directed(p2.rm) /\ p2.cross_exact /\ ~Low(p2.full, k) /\ p2.full \div 2^k # 0)

(* The guard and round positions below a cut.                               *)
LEMMA CutPowers ==
  ASSUME NEW k \in Nat, k >= 3
  PROVE  \E h \in Nat : h >= 2 /\ 2^(k - 2) = h /\ 2^(k - 1) = 2 * h /\ 2^k = 4 * h
<1>1. k - 3 \in Nat /\ (k - 3) + 1 = k - 2 /\ k - 2 \in Nat /\ (k - 2) + 1 = k - 1 /\ k - 1 \in Nat /\ (k - 1) + 1 = k
  OBVIOUS
<1>2. 2^(k - 2) = 2 * 2^(k - 3) /\ 2^(k - 3) >= 1 /\ 2^(k - 3) \in Nat /\ 2^(k - 2) \in Nat
      /\ 2^(k - 1) = 2 * 2^(k - 2) /\ 2^k = 2 * 2^(k - 1)
  BY <1>1, Powers
<1> QED BY <1>2

(* Bits below the cut that stand for the number are rounded as the number   *)
(* is.                                                                      *)
LEMMA CutSame ==
  ASSUME NEW p2, SumOK(p2), NEW N, NEW E, NEW k, SameBits(p2, N, E, k)
  PROVE  CutIs(p2, N, E, k)
<1>1. /\ N \in Nat /\ E \in Nat /\ E >= 1 /\ k \in Nat /\ k >= 3
      /\ N \div (2^(k - 2) * E) = p2.full \div 2^(k - 2)
      /\ p2.deep_sticky \/ p2.full % 2^(k - 2) # 0 <=> N % (2^(k - 2) * E) # 0
      /\ ~(Directed(p2.rm) /\ p2.cross_exact /\ ~Low(p2.full, k) /\ p2.full \div 2^k # 0)
  BY DEF SameBits
<1>2. PICK h \in Nat : h >= 2 /\ 2^(k - 2) = h /\ 2^(k - 1) = 2 * h /\ 2^k = 4 * h
  BY <1>1, CutPowers
<1> DEFINE F  == p2.full
           G  == h * E
           Q  == F \div h
           R  == N % G
           st == p2.deep_sticky \/ F % h # 0
           rm == p2.rm
           neg == p2.acc_sign
<1>3. F \in Nat /\ rm \in RoundingModes /\ neg \in BOOLEAN
  BY DEF SumOK
<1>4. G \in Nat /\ G >= 1 /\ (4 * h) * E = 4 * G
  <2>1. h * E \in Nat /\ h * E >= 1 * 1 /\ (4 * h) * E = 4 * (h * E)
    BY <1>1, <1>2
  <2> QED BY <2>1
<1>5. Division(F, h, Q, F % h) /\ Division(N, G, N \div G, R)
  <2>1. h >= 1
    BY <1>2
  <2> HIDE DEF G, F
  <2> QED BY <1>1, <1>3, <1>4, <2>1, HasDivision
<1>6. N \div G = Q /\ (st <=> R # 0)
  BY <1>1, <1>2
<1>7. F \div (4 * h) = Q \div 4 /\ F \div (2 * h) = Q \div 2
  <2> HIDE DEF F, Q
  <2>1. Division(F, 2 * h, Q \div 2, (IF Odd(Q) THEN h ELSE 0) + (F % h))
        /\ Division(F, 4 * h, Q \div 4, (IF Odd(Q \div 2) THEN 2 * h ELSE 0) + ((IF Odd(Q) THEN h ELSE 0) + (F % h)))
    BY <1>5, TwoBits
  <2> QED BY <2>1, DivisionIs
<1> HIDE DEF F, G, Q, R, st, rm, neg
<1>8. Division(N, 2 * G, Q \div 2, (IF Odd(Q) THEN G ELSE 0) + R)
      /\ Division(N, 4 * G, Q \div 4, (IF Odd(Q \div 2) THEN 2 * G ELSE 0) + ((IF Odd(Q) THEN G ELSE 0) + R))
  BY <1>5, <1>6, TwoBits
<1>9. N % (2 * (2 * G)) = (IF Odd(Q \div 2) THEN 2 * G ELSE 0) + ((IF Odd(Q) THEN G ELSE 0) + R)
      /\ N \div (2 * (2 * G)) = Q \div 4 /\ R \in Nat /\ R < G
  <2>1. 4 * G = 2 * (2 * G)
    BY <1>4
  <2>2. R \in Nat /\ R < G
    BY <1>5 DEF Division
  <2> QED BY <1>8, <2>1, <2>2, DivisionIs
<1>10. PICK g \in BOOLEAN, ro \in BOOLEAN, s \in BOOLEAN : (g <=> Odd(Q \div 2)) /\ (ro <=> Odd(Q)) /\ (s <=> st)
  <2>1. Odd(Q \div 2) \in BOOLEAN /\ Odd(Q) \in BOOLEAN
    BY DEF Odd
  <2>2. st \in BOOLEAN
    BY DEF st, SumOK
  <2> QED BY <2>1, <2>2
<1>11. LeavesBits(N, 2 * G, g, ro, s)
  <2> DEFINE lo == (IF ro THEN G ELSE 0) + R
  <2>1. lo \in 0..2 * G - 1 /\ (ro \/ s <=> lo # 0)
    BY <1>4, <1>6, <1>9, <1>10
  <2>2. N % (2 * (2 * G)) = (IF g THEN 2 * G ELSE 0) + lo
    BY <1>9, <1>10
  <2> HIDE DEF lo
  <2> QED BY <2>1, <2>2 DEF LeavesBits
<1>12. /\ Reference!RoundQuotient(rm, neg, N, 2 * (2 * G)) =
            IF round_up(rm, neg, Odd(Q \div 4), g, ro, s) THEN Q \div 4 + 1 ELSE Q \div 4
       /\ inexact(g, ro, s) <=> N % (2 * (2 * G)) # 0
  <2>1. 2 * G \in Nat /\ 2 * G >= 1
    BY <1>4
  <2> QED BY <1>1, <1>3, <1>9, <1>11, <2>1, RoundUpIs
<1>13. Cut(p2, k) = [mag |-> IF round_up(rm, neg, Odd(Q \div 4), g, ro, s) THEN Q \div 4 + 1 ELSE Q \div 4,
                     inexact |-> inexact(g, ro, s)]
  <2> DEFINE mag == F \div 2^k
             dec == rm \in {"RTZ", "RDN", "RUP"} /\ p2.cross_exact /\ ~Low(F, k) /\ mag # 0
             eff == IF dec THEN mag - 1 ELSE mag
             guard == k >= 1 /\ Bit(F, k - 1)
             round == k >= 2 /\ Bit(F, k - 2)
             sticky == p2.deep_sticky \/ (k >= 3 /\ Low(F, k - 2))
  <2>1. Cut(p2, k) = [mag |-> IF round_up(rm, neg, Odd(eff), guard, round, sticky) THEN eff + 1 ELSE eff,
                      inexact |-> inexact(guard, round, sticky)]
    BY DEF Cut, F, rm, neg
  <2>2. mag = Q \div 4
    BY <1>2, <1>7
  <2>3. ~dec
    BY <1>1 DEF Directed, F, rm
  <2>4. guard = g
    BY <1>1, <1>2, <1>7, <1>10 DEF Bit
  <2>5. round = ro
    BY <1>1, <1>2, <1>10 DEF Bit, Q
  <2>6. sticky = s
    BY <1>1, <1>2, <1>10 DEF Low, st, SumOK
  <2>7. eff = Q \div 4
    BY <2>2, <2>3
  <2> HIDE DEF eff, guard, round, sticky
  <2> QED BY <2>1, <2>4, <2>5, <2>6, <2>7
<1>14. 2^k * E = 2 * (2 * G)
  BY <1>2, <1>4
<1>15. Cut(p2, k).mag = Reference!RoundQuotient(rm, neg, N, 2^k * E) /\ (Cut(p2, k).inexact <=> N % (2^k * E) # 0)
  <2>1. Cut(p2, k).mag = (IF round_up(rm, neg, Odd(Q \div 4), g, ro, s) THEN Q \div 4 + 1 ELSE Q \div 4)
        /\ Cut(p2, k).inexact = inexact(g, ro, s)
    BY <1>13
  <2> QED BY <1>12, <1>14, <2>1
<1> QED BY <1>15 DEF CutIs, rm, neg

(* A tiny term of the other sign has left the window: N / E is just below   *)
(* the sum.  The directed modes step back, the nearest ones need not when   *)
(* the sum is whole at position k.                                          *)
Stepped(p2, N, E, k) ==
  /\ N \in Nat /\ E \in Nat /\ k \in Nat /\ k >= 3
  /\ \E v \in 1..E - 1 : N = p2.full * E - v
  /\ p2.full >= 1 /\ p2.deep_sticky
  /\ Directed(p2.rm) => p2.cross_exact
  /\ ~Directed(p2.rm) => ~Low(p2.full, k)

(* So are they when the register is a step above a number that borrowed     *)
(* from it.                                                                 *)
LEMMA CutStepped ==
  ASSUME NEW p2, SumOK(p2), NEW N, NEW E, NEW k, Stepped(p2, N, E, k)
  PROVE  CutIs(p2, N, E, k)
<1>1. /\ N \in Nat /\ E \in Nat /\ k \in Nat /\ k >= 3 /\ p2.full >= 1 /\ p2.deep_sticky
      /\ Directed(p2.rm) => p2.cross_exact
      /\ ~Directed(p2.rm) => ~Low(p2.full, k)
  BY DEF Stepped
<1>2. PICK v \in 1..E - 1 : N = p2.full * E - v
  BY DEF Stepped
<1>3. PICK h \in Nat : h >= 2 /\ 2^(k - 2) = h /\ 2^(k - 1) = 2 * h /\ 2^k = 4 * h
  BY <1>1, CutPowers
<1> DEFINE F   == p2.full
           p   == 2^k
           D   == p * E
           mag == F \div p
           low == F % p
           rm  == p2.rm
           neg == p2.acc_sign
           dec == rm \in {"RTZ", "RDN", "RUP"} /\ p2.cross_exact /\ ~Low(F, k) /\ mag # 0
           eff == IF dec THEN mag - 1 ELSE mag
           guard == k >= 1 /\ Bit(F, k - 1)
           round == k >= 2 /\ Bit(F, k - 2)
           sticky == p2.deep_sticky \/ (k >= 3 /\ Low(F, k - 2))
           Rounds == Reference!RoundQuotient(rm, neg, N, D)
<1>4. F \in Nat /\ F >= 1 /\ rm \in RoundingModes /\ neg \in BOOLEAN /\ p \in Nat /\ p >= 8 /\ E >= 2 /\ p = 4 * h
      /\ (Low(F, k) <=> low # 0) /\ (Directed(rm) <=> rm \in {"RTZ", "RDN", "RUP"})
  BY <1>1, <1>2, <1>3 DEF SumOK, Low, Directed
<1>5. Cut(p2, k) = [mag |-> IF round_up(rm, neg, Odd(eff), guard, round, sticky) THEN eff + 1 ELSE eff,
                    inexact |-> inexact(guard, round, sticky)]
  BY DEF Cut
<1>6. sticky = TRUE
  <2>1. p2.deep_sticky = TRUE
    BY <1>1 DEF SumOK
  <2> QED BY <2>1
<1>7. mag \in Nat /\ low \in Nat /\ low < p /\ F = p * mag + low
  <2> HIDE DEF F, p
  <2>1. p >= 1
    BY <1>4
  <2>2. Division(F, p, F \div p, F % p)
    BY <1>4, <2>1, HasDivision
  <2> QED BY <2>2 DEF Division
<1>8. D \in Nat /\ D >= 8 * E /\ N = D * mag + (low * E - v) /\ low * E \in Nat /\ D * mag \in Nat
  <2> HIDE DEF F, p, mag, low
  <2>1. (p * mag + low) * E = (p * E) * mag + low * E /\ p * E \in Nat /\ p * E >= 8 * E
        /\ (p * E) * mag \in Nat /\ low * E \in Nat
    BY <1>1, <1>4, <1>7
  <2>2. N = F * E - v
    BY <1>2 DEF F
  <2> QED BY <1>7, <2>1, <2>2
<1>9. v \in Nat /\ v >= 1 /\ v < E /\ E \in Nat
  BY <1>1, <1>2
<1>10. guard \in BOOLEAN /\ round \in BOOLEAN
  BY DEF Bit, Odd
<1> HIDE DEF Rounds
<1>11. Rounds = IF (CASE rm = "RNE" -> 2 * (N % D) > D \/ (2 * (N % D) = D /\ Odd(N \div D))
                      [] rm = "RMM" -> 2 * (N % D) >= D
                      [] rm = "RTZ" -> FALSE
                      [] rm = "RDN" -> neg /\ 2 * (N % D) > 0
                      [] rm = "RUP" -> ~neg /\ 2 * (N % D) > 0)
                THEN N \div D + 1 ELSE N \div D
  BY ReferenceFormat DEF Reference!RoundQuotient, Rounds
<1> SUFFICES Cut(p2, k).mag = Rounds /\ (Cut(p2, k).inexact <=> N % D # 0)
  BY DEF CutIs, Rounds
<1>12. CASE low = 0
  <2>1. dec = Directed(rm) /\ mag >= 1
    <3>1. mag # 0
      <4> HIDE DEF F, p, mag, low
      <4> QED BY <1>4, <1>7, <1>12
    <3>2. ~Low(F, k)
      BY <1>4, <1>12
    <3>3. Directed(rm) => p2.cross_exact = TRUE
      BY <1>1 DEF SumOK
    <3> QED BY <1>7, <3>1, <3>2, <3>3 DEF Directed
  <2>2. guard = FALSE /\ round = FALSE
    <3> HIDE DEF F, p, mag, low
    <3>1. F = (4 * h) * mag
      BY <1>4, <1>7, <1>12
    <3>2. (4 * h) * mag = (2 * h) * (2 * mag) /\ (4 * h) * mag = h * (4 * mag)
      BY <1>3, <1>7
    <3>3. Division(F, 2 * h, 2 * mag, 0) /\ Division(F, h, 4 * mag, 0)
      BY <1>3, <1>4, <1>7, <3>1, <3>2 DEF Division
    <3>4. F \div (2 * h) = 2 * mag /\ F \div h = 4 * mag
      BY <3>3, DivisionIs
    <3>5. (2 * mag) % 2 = 0 /\ (4 * mag) % 2 = 0
      BY <1>7
    <3> QED BY <1>3, <3>4, <3>5 DEF Bit, Odd
  <2>3. N \div D = mag - 1 /\ N % D = D - v /\ (mag - 1) + 1 = mag
    <3>1. D * (mag - 1) + D = D * mag /\ D * (mag - 1) \in Int
      BY <1>7, <1>8, <2>1
    <3>2. low * E = 0
      BY <1>9, <1>12
    <3> HIDE DEF F, p, mag, low, D
    <3>3. Division(N, D, mag - 1, D - v)
      BY <1>1, <1>7, <1>8, <1>9, <2>1, <3>1, <3>2 DEF Division
    <3> QED BY <1>7, <3>3, DivisionIs
  <2>4. 2 * (D - v) > D /\ 2 * (D - v) # D /\ 2 * (D - v) >= D /\ 2 * (D - v) > 0 /\ D - v # 0
    BY <1>8, <1>9
  <2> HIDE DEF F, p, mag, low, D, dec, guard, round, sticky
  <2>5. eff = (IF Directed(rm) THEN mag - 1 ELSE mag) /\ eff \in Int
    BY <1>7, <2>1
  <2> HIDE DEF eff
  <2>6. PICK g \in BOOLEAN, s \in BOOLEAN : g = FALSE /\ s = TRUE
    OBVIOUS
  <2>8. guard = g /\ round = g /\ sticky = s
    BY <1>6, <2>2, <2>6
  <2>9. Cut(p2, k).mag = (IF round_up(rm, neg, Odd(eff), g, g, s) THEN eff + 1 ELSE eff)
        /\ Cut(p2, k).inexact = inexact(g, g, s)
    BY <1>5, <2>8
  <2>7. Cut(p2, k).mag = Rounds
    <3>1. CASE rm = "RNE"
      BY <1>4, <1>11, <2>3, <2>4, <2>5, <2>6, <2>9, <3>1 DEF round_up
    <3>2. CASE rm = "RMM"
      BY <1>4, <1>11, <2>3, <2>4, <2>5, <2>6, <2>9, <3>2 DEF round_up
    <3>3. CASE rm = "RTZ"
      BY <1>4, <1>11, <2>3, <2>4, <2>5, <2>6, <2>9, <3>3 DEF round_up
    <3>4. CASE rm = "RDN"
      BY <1>4, <1>11, <2>3, <2>4, <2>5, <2>6, <2>9, <3>4 DEF round_up
    <3>5. CASE rm = "RUP"
      BY <1>4, <1>11, <2>3, <2>4, <2>5, <2>6, <2>9, <3>5 DEF round_up
    <3> QED BY <1>4, <3>1, <3>2, <3>3, <3>4, <3>5 DEF RoundingModes
  <2> QED BY <2>3, <2>4, <2>6, <2>7, <2>9 DEF inexact
<1>13. CASE low # 0
  <2>1. Directed(rm) /\ ~dec
    BY <1>1, <1>4, <1>13
  <2>2. N \div D = mag /\ N % D = low * E - v /\ low * E - v # 0 /\ 2 * (low * E - v) > 0
    <3> HIDE DEF F, p, mag, low
    <3>1. low * E >= 1 * E /\ low * E <= (p - 1) * E /\ (p - 1) * E = D - E
      BY <1>4, <1>7, <1>9, <1>13
    <3> HIDE DEF D
    <3>2. low * E - v \in Nat /\ low * E - v >= 1 /\ low * E - v < D
      BY <1>8, <1>9, <3>1
    <3>3. Division(N, D, mag, low * E - v)
      BY <1>1, <1>7, <1>8, <1>9, <3>2 DEF Division
    <3> QED BY <3>2, <3>3, DivisionIs
  <2> HIDE DEF F, p, mag, low, D, dec, guard, round, sticky
  <2>3. eff = mag
    BY <2>1
  <2> HIDE DEF eff
  <2>4. Cut(p2, k).mag = (IF round_up(rm, neg, Odd(mag), guard, round, TRUE) THEN mag + 1 ELSE mag)
        /\ Cut(p2, k).inexact = inexact(guard, round, TRUE)
    BY <1>5, <1>6, <2>3
  <2>5. Cut(p2, k).mag = Rounds
    <3>1. CASE rm = "RTZ"
      BY <1>11, <2>2, <2>4, <3>1 DEF round_up
    <3>2. CASE rm = "RDN"
      BY <1>11, <2>2, <2>4, <3>2 DEF round_up
    <3>3. CASE rm = "RUP"
      BY <1>11, <2>2, <2>4, <3>3 DEF round_up
    <3> QED BY <1>4, <2>1, <3>1, <3>2, <3>3
  <2> QED BY <2>2, <2>4, <2>5 DEF inexact
<1> QED BY <1>7, <1>12, <1>13

-----------------------------------------------------------------------------
(* Stages 1 and 2                                                           *)

(* The widths of the registers.                                             *)
LEMMA Window ==
  /\ FRAC \in Nat /\ FRAC >= 3 /\ DROP = FRAC + 1 /\ FAR = FRAC + 4 /\ WIN = 2 * FRAC + 5 /\ FULL = 4 * FRAC + 9
  /\ DROP \in Nat /\ FAR \in Nat /\ WIN \in Nat /\ FULL \in Nat /\ WIN = DROP + FAR
BY Formats DEF DROP, FAR, WIN, FULL

(* What a term v contributes in units of 2^base: its bits that are in the   *)
(* window.                                                                  *)
InWindow(v, sh) == (v * 2^WIN) \div 2^sh

(* The three parts of the window, put together.                             *)
Parts(v, D, A, B) ==
  /\ v \div D \in Nat
  /\ ((v * A) \div D) % A \in Nat
  /\ ((v * (A * B)) \div D) % B \in Nat
  /\ (v \div D) * (A * B) + (((v * A) \div D) % A) * B + (((v * (A * B)) \div D) % B) = (v * (A * B)) \div D

(* A number cut at three places.                                            *)
LEMMA ThreeParts ==
  ASSUME NEW v \in Nat, NEW D \in Nat, D >= 1, NEW A \in Nat, A >= 1, NEW B \in Nat, B >= 1
  PROVE  Parts(v, D, A, B)
<1> DEFINE a == v \div D
           r == v % D
<1>1. a \in Nat /\ r \in Nat /\ r < D /\ v = D * a + r
  BY HasDivision DEF Division
<1> HIDE DEF a, r
<1> DEFINE s == r * A
           b == s \div D
           t == s % D
<1>2. s \in Nat
  BY <1>1
<1>3. b \in Nat /\ t \in Nat /\ t < D /\ s = D * b + t
  <2> HIDE DEF s
  <2> QED BY <1>2, HasDivision DEF Division
<1>4. b < A
  <2>1. s < D * A
    <3>1. (D - 1) * A >= r * A /\ (D - 1) * A = D * A - A
      BY <1>1
    <3> QED BY <1>1, <3>1
  <2>2. ~(s >= D * A)
    BY <1>2, <2>1
  <2> HIDE DEF s
  <2>3. (b >= A <=> s >= D * A) /\ b \in Int
    BY <1>2, Threshold
  <2> QED BY <2>2, <2>3
<1> HIDE DEF b, t
<1> DEFINE u == t * B
           c == u \div D
           w == u % D
<1>5. u \in Nat
  BY <1>3
<1>6. c \in Nat /\ w \in Nat /\ w < D /\ u = D * c + w
  <2> HIDE DEF u
  <2> QED BY <1>5, HasDivision DEF Division
<1>7. c < B
  <2>1. u < D * B
    <3>1. (D - 1) * B >= t * B /\ (D - 1) * B = D * B - B
      BY <1>3
    <3> QED BY <1>3, <3>1
  <2>2. ~(u >= D * B)
    BY <1>5, <2>1
  <2> HIDE DEF u
  <2>3. (c >= B <=> u >= D * B) /\ c \in Int
    BY <1>5, Threshold
  <2> QED BY <2>2, <2>3
<1> HIDE DEF c, w
<1>8. v * A = D * (A * a + b) + t /\ A * a + b \in Nat /\ v * A \in Nat
  <2>1. v * A = D * (A * a) + s /\ D * (A * a + b) = D * (A * a) + D * b
    <3>1. (D * a + r) * A = D * (A * a) + r * A
      BY <1>1
    <3>2. D * (A * a + b) = D * (A * a) + D * b
      BY <1>1, <1>3
    <3> QED BY <1>1, <3>1, <3>2
  <2>2. D * (A * a) \in Nat /\ D * b \in Nat /\ A * a \in Nat /\ v * A \in Nat
    BY <1>1, <1>3
  <2> HIDE DEF s
  <2> QED BY <1>3, <2>1, <2>2
<1> DEFINE y == A * a + b
<1>9. (v * A) \div D = y /\ y % A = b
  <2>1. Division(v * A, D, y, t)
    BY <1>3, <1>8 DEF Division
  <2>2. Division(y, A, a, b)
    BY <1>1, <1>3, <1>4 DEF Division
  <2> QED BY <2>1, <2>2, DivisionIs
<1>10. v * (A * B) = D * (B * y + c) + w /\ B * y + c \in Nat
  <2>1. v * (A * B) = (v * A) * B /\ (D * y + t) * B = D * (B * y) + t * B
    BY <1>1, <1>3, <1>8
  <2>2. D * (B * y + c) = D * (B * y) + D * c /\ D * (B * y) \in Nat /\ D * c \in Nat /\ B * y \in Nat
    BY <1>6, <1>8
  <2>3. v * A = D * y + t
    BY <1>8
  <2> HIDE DEF y
  <2>4. v * (A * B) = D * (B * y) + u
    BY <2>1, <2>3
  <2> HIDE DEF u
  <2> QED BY <1>6, <2>2, <2>4
<1> DEFINE z == B * y + c
<1>11. (v * (A * B)) \div D = z /\ z % B = c
  <2>1. y \in Nat
    BY <1>8
  <2> HIDE DEF y
  <2>2. Division(v * (A * B), D, z, w)
    BY <1>6, <1>10 DEF Division
  <2>3. Division(z, B, y, c)
    BY <1>6, <1>7, <2>1 DEF Division
  <2> QED BY <2>2, <2>3, DivisionIs
<1>12. a * (A * B) + b * B + c = z
  <2>1. B * (A * a + b) = a * (A * B) + b * B
    BY <1>1, <1>3
  <2>2. a * (A * B) \in Nat /\ b * B \in Nat
    BY <1>1, <1>3
  <2> QED BY <1>6, <2>1, <2>2
<1> HIDE DEF y, z
<1> QED BY <1>1, <1>3, <1>6, <1>9, <1>11, <1>12 DEF a, Parts

(* An aligned term: what is in the window, and what left it.                *)
AlignedTo(A, f) ==
  /\ A.fixed \in Nat /\ A.drop \in Nat /\ A.far \in Nat
  /\ A.fixed * 2^WIN + A.drop * 2^FAR + A.far = f
  /\ f \in Nat
  /\ A.far_sticky \in BOOLEAN /\ A.off \in BOOLEAN

(* A zero term leaves no trace.                                             *)
LEMMA NoTerm ==
  ASSUME NEW sh, NEW n
  PROVE  LET A == Aligned(0, sh, n) IN AlignedTo(A, 0) /\ ~A.far_sticky /\ ~A.off
<1>1. 2^WIN \in Nat /\ 2^FAR \in Nat
  BY Window, Powers
<1>2. 0 * 2^WIN + 0 * 2^FAR + 0 = 0
  BY <1>1
<1> QED BY <1>2 DEF Aligned, AlignedTo

(* A shifted term: what is in the window, and what went out of it.          *)
LEMMA AlignedIs ==
  ASSUME NEW v \in Nat, v # 0, NEW sh \in Nat, NEW n \in Nat, n >= 1, v < 2^n
  PROVE  LET A == Aligned(v, sh, n)
         IN  AlignedTo(A, InWindow(v, sh)) /\ (A.far_sticky <=> sh > WIN) /\ (A.off <=> sh >= WIN + n)
<1>1. /\ WIN \in Nat /\ FAR \in Nat /\ DROP \in Nat /\ WIN = DROP + FAR
      /\ 2^WIN = 2^DROP * 2^FAR /\ 2^DROP \in Nat /\ 2^DROP >= 1 /\ 2^FAR \in Nat /\ 2^FAR >= 1
      /\ 2^sh \in Nat /\ 2^sh >= 1 /\ 2^WIN \in Nat
  <2>1. WIN \in Nat /\ FAR \in Nat /\ DROP \in Nat /\ WIN = DROP + FAR
    BY Window
  <2>2. 2^(DROP + FAR) = 2^DROP * 2^FAR /\ 2^DROP \in Nat /\ 2^DROP >= 1 /\ 2^FAR \in Nat /\ 2^FAR >= 1
        /\ 2^sh \in Nat /\ 2^sh >= 1 /\ 2^WIN \in Nat
    BY <2>1, PowerSum, Powers
  <2> QED BY <2>1, <2>2
<1>2. CASE sh >= WIN + n
  <2>1. Aligned(v, sh, n) = [fixed |-> 0, drop |-> 0, far |-> 0, far_sticky |-> TRUE, off |-> TRUE]
    BY <1>2 DEF Aligned
  <2>2. InWindow(v, sh) = 0
    <3>1. WIN + n \in Nat
      BY <1>1
    <3>2. 2^(WIN + n) = 2^WIN * 2^n /\ 2^n \in Nat /\ 2^(WIN + n) <= 2^sh
      BY <1>1, <1>2, <3>1, PowerSum, Powers, PowerOrder
    <3>3. v * 2^WIN <= (2^n - 1) * 2^WIN /\ (2^n - 1) * 2^WIN = 2^WIN * 2^n - 2^WIN /\ v * 2^WIN \in Nat /\ 2^WIN >= 1
      BY <1>1, <3>2, Powers
    <3>4. v * 2^WIN < 2^sh
      BY <1>1, <3>2, <3>3
    <3>5. Division(v * 2^WIN, 2^sh, 0, v * 2^WIN)
      BY <1>1, <3>3, <3>4 DEF Division
    <3> QED BY <3>5, DivisionIs DEF InWindow
  <2>3. 0 * 2^WIN + 0 * 2^FAR + 0 = 0
    BY <1>1
  <2>4. sh > WIN
    BY <1>1, <1>2
  <2> QED BY <1>2, <2>1, <2>2, <2>3, <2>4 DEF AlignedTo
<1>3. CASE ~(sh >= WIN + n)
  <2>1. Aligned(v, sh, n) = [fixed |-> v \div 2^sh,
                             drop  |-> ((v * 2^DROP) \div 2^sh) % 2^DROP,
                             far   |-> ((v * 2^WIN) \div 2^sh) % 2^FAR,
                             far_sticky |-> sh > WIN,
                             off   |-> FALSE]
    BY <1>3 DEF Aligned
  <2> DEFINE A == 2^DROP
             B == 2^FAR
             D == 2^sh
  <2>2. A \in Nat /\ A >= 1 /\ B \in Nat /\ B >= 1 /\ D \in Nat /\ D >= 1 /\ 2^WIN = A * B
    BY <1>1
  <2>3. Parts(v, D, A, B)
    <3> HIDE DEF A, B, D
    <3> QED BY <2>2, ThreeParts
  <2>4. (v * (A * B)) \div D \in Nat
    <3>1. v * (A * B) \in Nat
      BY <2>2
    <3> HIDE DEF A, B, D
    <3> QED BY <2>2, <3>1, HasDivision DEF Division
  <2>5. (sh > WIN) \in BOOLEAN
    OBVIOUS
  <2>6. InWindow(v, sh) = (v * (A * B)) \div D
    BY <2>2 DEF InWindow
  <2>7. AlignedTo(Aligned(v, sh, n), InWindow(v, sh))
    <3>1. /\ Aligned(v, sh, n).fixed = v \div D
          /\ Aligned(v, sh, n).drop = ((v * A) \div D) % A
          /\ Aligned(v, sh, n).far = ((v * (A * B)) \div D) % B
          /\ Aligned(v, sh, n).far_sticky \in BOOLEAN /\ Aligned(v, sh, n).off \in BOOLEAN
      BY <2>1, <2>2
    <3> DEFINE a == Aligned(v, sh, n)
    <3> HIDE DEF A, B, D, a
    <3>2. AlignedTo(a, InWindow(v, sh)) <=>
            /\ a.fixed \in Nat /\ a.drop \in Nat /\ a.far \in Nat
            /\ a.fixed * (A * B) + a.drop * B + a.far = InWindow(v, sh)
            /\ InWindow(v, sh) \in Nat
            /\ a.far_sticky \in BOOLEAN /\ a.off \in BOOLEAN
      BY <2>2 DEF AlignedTo, B
    <3> QED BY <2>3, <2>4, <2>6, <3>1, <3>2 DEF a, Parts
  <2>8. Aligned(v, sh, n).far_sticky = (sh > WIN) /\ Aligned(v, sh, n).off = FALSE
    BY <2>1
  <2> HIDE DEF A, B, D
  <2> QED BY <1>3, <2>7, <2>8
<1> QED BY <1>2, <1>3

(* The sum of two aligned terms.                                            *)
WithSign(neg, n) == IF neg THEN 0 - n ELSE n

(* The sum is exact on what is in the window.                               *)
Summed(p1, p2, T) ==
  /\ T \in Int
  /\ p2.acc_sign = (T < 0) /\ p2.full = IF T < 0 THEN 0 - T ELSE T
  /\ p2.deep_sticky = (p1.p.far_sticky \/ p1.c.far_sticky)
  /\ p2.cross_exact = ((p1.p.off /\ p1.p.far_sticky /\ p1.p_sign # p2.acc_sign) \/
                       (p1.c.off /\ p1.c.far_sticky /\ p1.c_sign # p2.acc_sign))
  /\ p2.acc_sign \in BOOLEAN /\ p2.deep_sticky \in BOOLEAN /\ p2.cross_exact \in BOOLEAN
  /\ p2.rm = p1.rm /\ p2.base = p1.base /\ p2.special = p1.special /\ p2.sp = p1.sp
  /\ p2.zero_sign = IF p1.p_sign = p1.c_sign THEN p1.p_sign ELSE p1.rm = "RDN"

LEMMA AddIs ==
  ASSUME NEW p1, NEW fp, NEW fc,
         AlignedTo(p1.p, fp), AlignedTo(p1.c, fc), p1.p_sign \in BOOLEAN, p1.c_sign \in BOOLEAN
  PROVE  Summed(p1, Add(p1), WithSign(p1.p_sign, fp) + WithSign(p1.c_sign, fc))
<1> DEFINE p == p1.p
           c == p1.c
           ps == p1.p_sign
           cs == p1.c_sign
           W == 2^WIN
           G == 2^FAR
           sum(part) == Sign(ps, p[part]) + Sign(cs, c[part])
           full_signed == sum("fixed") * W + sum("drop") * G + sum("far")
           T == WithSign(ps, fp) + WithSign(cs, fc)
<1>1. W \in Nat /\ G \in Nat
  BY Window, Powers
<1>2. /\ p.fixed \in Nat /\ p.drop \in Nat /\ p.far \in Nat /\ fp = p.fixed * W + p.drop * G + p.far /\ fp \in Nat
      /\ c.fixed \in Nat /\ c.drop \in Nat /\ c.far \in Nat /\ fc = c.fixed * W + c.drop * G + c.far /\ fc \in Nat
      /\ p.far_sticky \in BOOLEAN /\ p.off \in BOOLEAN /\ c.far_sticky \in BOOLEAN /\ c.off \in BOOLEAN
  BY DEF AlignedTo
<1>3. full_signed = T /\ T \in Int
  <2> DEFINE a == p.fixed
             b == p.drop
             d == c.fixed
             e == c.drop
  <2>1. a \in Nat /\ b \in Nat /\ d \in Nat /\ e \in Nat
    BY <1>2
  <2>2. /\ sum("fixed") = (IF ps THEN 0 - a ELSE a) + (IF cs THEN 0 - d ELSE d)
        /\ sum("drop") = (IF ps THEN 0 - b ELSE b) + (IF cs THEN 0 - e ELSE e)
        /\ sum("far") = (IF ps THEN 0 - p.far ELSE p.far) + (IF cs THEN 0 - c.far ELSE c.far)
    BY <1>2 DEF Sign
  <2> HIDE DEF sum, W, G
  <2>3. /\ ((IF ps THEN 0 - a ELSE a) + (IF cs THEN 0 - d ELSE d)) * W = (IF ps THEN 0 - a * W ELSE a * W) + (IF cs THEN 0 - d * W ELSE d * W)
        /\ ((IF ps THEN 0 - b ELSE b) + (IF cs THEN 0 - e ELSE e)) * G = (IF ps THEN 0 - b * G ELSE b * G) + (IF cs THEN 0 - e * G ELSE e * G)
        /\ a * W \in Nat /\ d * W \in Nat /\ b * G \in Nat /\ e * G \in Nat
    <3> HIDE DEF a, b, d, e
    <3>1. a * W \in Nat /\ d * W \in Nat /\ b * G \in Nat /\ e * G \in Nat
      BY <1>1, <2>1
    <3>2. \A m, n \in Nat, Q \in Nat :
            /\ (m + n) * Q = m * Q + n * Q
            /\ (0 - m + n) * Q = 0 - m * Q + n * Q
            /\ (m + (0 - n)) * Q = m * Q + (0 - n * Q)
            /\ (0 - m + (0 - n)) * Q = 0 - m * Q + (0 - n * Q)
      OBVIOUS
    <3> QED BY <1>1, <2>1, <3>1, <3>2
  <2>4. fp = a * W + b * G + p.far /\ fc = d * W + e * G + c.far
    BY <1>2
  <2> HIDE DEF a, b, d, e
  <2> DEFINE aw == a * W
             bg == b * G
             dw == d * W
             eg == e * G
  <2>5. aw \in Nat /\ bg \in Nat /\ dw \in Nat /\ eg \in Nat /\ p.far \in Nat /\ c.far \in Nat
        /\ fp = aw + bg + p.far /\ fc = dw + eg + c.far
    BY <1>2, <2>3, <2>4
  <2>6. /\ sum("fixed") * W = (IF ps THEN 0 - aw ELSE aw) + (IF cs THEN 0 - dw ELSE dw)
        /\ sum("drop") * G = (IF ps THEN 0 - bg ELSE bg) + (IF cs THEN 0 - eg ELSE eg)
    BY <2>2, <2>3
  <2> HIDE DEF aw, bg, dw, eg
  <2>7. full_signed = (IF ps THEN 0 - aw ELSE aw) + (IF cs THEN 0 - dw ELSE dw)
                      + ((IF ps THEN 0 - bg ELSE bg) + (IF cs THEN 0 - eg ELSE eg))
                      + ((IF ps THEN 0 - p.far ELSE p.far) + (IF cs THEN 0 - c.far ELSE c.far))
    BY <2>2, <2>6
  <2>8. T = (IF ps THEN 0 - fp ELSE fp) + (IF cs THEN 0 - fc ELSE fc)
    BY DEF WithSign
  <2> HIDE DEF full_signed, T
  <2>9. CASE ps /\ cs
    BY <2>5, <2>7, <2>8, <2>9
  <2>10. CASE ps /\ ~cs
    BY <2>5, <2>7, <2>8, <2>10
  <2>11. CASE ~ps /\ cs
    BY <2>5, <2>7, <2>8, <2>11
  <2>12. CASE ~ps /\ ~cs
    BY <2>5, <2>7, <2>8, <2>12
  <2> QED BY <2>9, <2>10, <2>11, <2>12
<1> HIDE DEF full_signed, T
<1> DEFINE acc == full_signed < 0
           cross(x, s) == x.off /\ x.far_sticky /\ s # acc
<1>4. /\ Add(p1).acc_sign = acc /\ Add(p1).full = Sign(acc, full_signed)
      /\ Add(p1).deep_sticky = (p.far_sticky \/ c.far_sticky)
      /\ Add(p1).cross_exact = (cross(p, ps) \/ cross(c, cs))
      /\ Add(p1).rm = p1.rm /\ Add(p1).base = p1.base /\ Add(p1).special = p1.special /\ Add(p1).sp = p1.sp
      /\ Add(p1).zero_sign = IF ps = cs THEN ps ELSE p1.rm = "RDN"
  BY DEF Add, full_signed
<1>5. Sign(acc, full_signed) = IF T < 0 THEN 0 - T ELSE T
  BY <1>3 DEF Sign
<1>6. LET p2 == Add(p1)
      IN  /\ T \in Int
          /\ p2.acc_sign = (T < 0) /\ p2.full = IF T < 0 THEN 0 - T ELSE T
          /\ p2.deep_sticky = (p.far_sticky \/ c.far_sticky)
          /\ p2.cross_exact = ((p.off /\ p.far_sticky /\ ps # p2.acc_sign) \/ (c.off /\ c.far_sticky /\ cs # p2.acc_sign))
          /\ p2.acc_sign \in BOOLEAN /\ p2.deep_sticky \in BOOLEAN /\ p2.cross_exact \in BOOLEAN
          /\ p2.rm = p1.rm /\ p2.base = p1.base /\ p2.special = p1.special /\ p2.sp = p1.sp
          /\ p2.zero_sign = IF ps = cs THEN ps ELSE p1.rm = "RDN"
  BY <1>2, <1>3, <1>4, <1>5
<1> QED BY <1>6 DEF Summed, T

(* The two terms in the window: x starts at its upper part, w is d places   *)
(* further down and has n bits at most.                                     *)
Meets(p2, x, sx, w, sw, d, n) ==
  /\ SumOK(p2) /\ x \in Nat /\ w \in Nat /\ d \in Nat /\ n \in Nat /\ sx \in BOOLEAN /\ sw \in BOOLEAN
  /\ LET T == WithSign(sx, x * 2^WIN) + WithSign(sw, InWindow(w, d))
     IN  p2.acc_sign = (T < 0) /\ p2.full = IF T < 0 THEN 0 - T ELSE T
  /\ p2.deep_sticky <=> w # 0 /\ d > WIN
  /\ p2.cross_exact <=> w # 0 /\ d >= WIN + n /\ sw # p2.acc_sign

(* The terms are normalised, a product and a significand in either order.   *)
Sized(x, w, n) ==
  /\ x < 4 * (ONE * ONE) /\ w < 4 * (ONE * ONE)
  /\ x # 0 => x >= ONE
  /\ w # 0 => \/ n = FRAC + 1 /\ w >= ONE /\ w < 2 * ONE /\ x >= ONE * ONE
              \/ n = 2 * FRAC + 2 /\ w >= ONE * ONE /\ x >= ONE

(* The powers of the widths.                                                *)
LEMMA WindowPowers ==
  /\ ONE \in Nat /\ ONE >= 8 /\ ONE * ONE \in Nat /\ ONE * ONE >= 8 * ONE
         /\ 2^FRAC = ONE /\ 2^(FRAC + 1) = 2 * ONE /\ 2^(2 * FRAC + 2) = 4 * (ONE * ONE)
         /\ 2^(FRAC + 3) = 8 * ONE
         /\ 2^(WIN - 3) = 4 * (ONE * ONE) /\ 2^WIN = 32 * (ONE * ONE)
         /\ 2^(WIN + FRAC) = ONE * 2^WIN /\ 2^(WIN + FRAC) = 2 * 2^(WIN + FRAC - 1)
         /\ 2^(FULL - 1) = 8 * ((ONE * ONE) * 2^WIN)
         /\ 2^WIN \in Nat /\ 2^(WIN + FRAC - 1) \in Nat /\ 2^(FULL - 1) \in Nat
<1>1. /\ FRAC \in Nat /\ FRAC >= 3 /\ WIN = 2 * FRAC + 5 /\ FULL = 4 * FRAC + 9 /\ ONE \in Nat /\ ONE >= 8 /\ 2^FRAC = ONE
  BY Window, Formats DEF ONE
<1>2. ONE * ONE \in Nat /\ ONE * ONE >= 8 * ONE
  BY <1>1
<1>3. 2^(FRAC + FRAC) = ONE * ONE
  BY <1>1, PowerSum
<1>4. PICK a \in Nat, b \in Nat, c \in Nat, u \in Nat, v \in Nat :
         a = 1 /\ b = 2 /\ c = 3 /\ u = 2 * FRAC /\ v = u + 5
  BY <1>1
<1>5. 2^a = 2 /\ 2^b = 4 /\ 2^c = 8
  <2>1. 2^1 = 2 /\ 2^2 = 4 /\ 2^3 = 8
    OBVIOUS
  <2> QED BY <1>4, <2>1
<1>6. 2^u = ONE * ONE
  BY <1>1, <1>3, <1>4
<1>7. 2^(FRAC + a) = ONE * 2 /\ 2^(FRAC + c) = ONE * 8 /\ 2^(u + b) = (ONE * ONE) * 4
  <2>1. 2^(FRAC + a) = 2^FRAC * 2^a
    BY <1>1, <1>4, PowerSum
  <2>2. 2^(FRAC + c) = 2^FRAC * 2^c
    BY <1>1, <1>4, PowerSum
  <2>3. 2^(u + b) = 2^u * 2^b
    BY <1>4, PowerSum
  <2> QED BY <1>1, <1>5, <1>6, <2>1, <2>2, <2>3
<1>8. 2^(u + b + c) = ((ONE * ONE) * 4) * 8
  <2>1. u + b \in Nat
    BY <1>4
  <2>2. 2^(u + b + c) = 2^(u + b) * 2^c
    BY <1>4, <2>1, PowerSum
  <2> QED BY <1>5, <1>7, <2>2
<1>9. 2^WIN = 32 * (ONE * ONE) /\ 2^WIN \in Nat /\ WIN \in Nat
  <2>1. u + b + c = WIN
    BY <1>1, <1>4
  <2> QED BY <1>1, <1>2, <1>8, <2>1
<1>10. 2^(WIN + FRAC) = ONE * 2^WIN
  <2>1. 2^(WIN + FRAC) = 2^WIN * 2^FRAC
    BY <1>1, <1>9, PowerSum
  <2> QED BY <1>1, <1>9, <2>1
<1>11. 2^(WIN + FRAC) = 2 * 2^(WIN + FRAC - 1) /\ 2^(WIN + FRAC - 1) \in Nat
  <2>1. PICK m \in Nat : m = WIN + FRAC - 1 /\ m + 1 = WIN + FRAC
    BY <1>1
  <2>2. 2^(m + 1) = 2 * 2^m /\ 2^m \in Nat
    BY <2>1, Powers
  <2> QED BY <2>1, <2>2
<1>12. 2^(FULL - 1) = 8 * ((ONE * ONE) * 2^WIN) /\ 2^(FULL - 1) \in Nat
  <2>1. PICK m \in Nat, l \in Nat : m = u + c /\ l = u + b + c /\ m + l = FULL - 1 /\ l = WIN
    <3>1. u + c \in Nat /\ u + b + c \in Nat /\ u + c + (u + b + c) = FULL - 1 /\ u + b + c = WIN
      BY <1>1, <1>4
    <3> QED BY <3>1
  <2>2. 2^m = (ONE * ONE) * 8
    <3>1. 2^(u + c) = 2^u * 2^c
      BY <1>4, PowerSum
    <3> QED BY <1>5, <1>6, <2>1, <3>1
  <2>3. 2^(m + l) = 2^m * 2^l
    BY <2>1, PowerSum
  <2>4. ((ONE * ONE) * 8) * 2^WIN = 8 * ((ONE * ONE) * 2^WIN) /\ (ONE * ONE) * 2^WIN \in Nat
    BY <1>2, <1>9
  <2> QED BY <2>1, <2>2, <2>3, <2>4
<1>13. FRAC + a = FRAC + 1 /\ FRAC + c = FRAC + 3 /\ u + b = 2 * FRAC + 2 /\ u + b = WIN - 3
  BY <1>1, <1>4
<1>14. 2^(FRAC + 1) = 2 * ONE /\ 2^(FRAC + 3) = 8 * ONE /\ 2^(2 * FRAC + 2) = 4 * (ONE * ONE) /\ 2^(WIN - 3) = 4 * (ONE * ONE)
  <2>1. ONE * 2 = 2 * ONE /\ ONE * 8 = 8 * ONE /\ (ONE * ONE) * 4 = 4 * (ONE * ONE)
    BY <1>1, <1>2
  <2> QED BY <1>7, <1>13, <2>1
<1> QED BY <1>1, <1>2, <1>9, <1>10, <1>11, <1>12, <1>14

(* Nothing leaves the window: the sum is exact.                             *)
LEMMA NearSum ==
  ASSUME NEW p2, NEW x, NEW sx, NEW w, NEW sw, NEW d, NEW n,
         Meets(p2, x, sx, w, sw, d, n), Sized(x, w, n), ~(w # 0 /\ d > WIN)
  PROVE  LET g == IF w = 0 THEN 0 ELSE w * 2^(WIN - d)
             T == WithSign(sx, x * 2^WIN) + WithSign(sw, g)
         IN  /\ p2.acc_sign = (T < 0) /\ p2.full = IF T < 0 THEN 0 - T ELSE T
             /\ T \in Int /\ g \in Nat
             /\ ~p2.deep_sticky /\ ~p2.cross_exact
             /\ p2.full # 0 => p2.full >= 8 * ONE
             /\ p2.full < 2^(FULL - 1)
<1> DEFINE W == 2^WIN
           O == ONE
           OO == O * O
           g == IF w = 0 THEN 0 ELSE w * 2^(WIN - d)
           X == x * W
           T == WithSign(sx, X) + WithSign(sw, g)
           F == p2.full
<1>1. /\ x \in Nat /\ w \in Nat /\ d \in Nat /\ n \in Nat /\ sx \in BOOLEAN /\ sw \in BOOLEAN
      /\ p2.deep_sticky <=> w # 0 /\ d > WIN
      /\ p2.cross_exact <=> w # 0 /\ d >= WIN + n /\ sw # p2.acc_sign
  BY DEF Meets
<1>2. /\ O \in Nat /\ O >= 8 /\ OO \in Nat /\ OO >= 8 * O /\ W = 32 * OO /\ W \in Nat /\ W >= 1
      /\ 2^(FULL - 1) = 8 * (OO * W) /\ WIN \in Nat /\ FRAC \in Nat
  BY WindowPowers, Window
<1>3. /\ x < 4 * OO /\ w < 4 * OO /\ (x # 0 => x >= O) /\ (w # 0 => x >= O)
  BY <1>2 DEF Sized
<1>4. InWindow(w, d) = g /\ g \in Nat /\ (w # 0 => d <= WIN /\ 2^d \in Nat /\ 2^(WIN - d) \in Nat /\ 2^(WIN - d) >= 1 /\ W = 2^d * 2^(WIN - d))
  <2>1. CASE w = 0
    <3>1. 0 * W = 0 /\ 2^d \in Nat /\ 2^d >= 1
      BY <1>1, <1>2, Powers
    <3>2. Division(0, 2^d, 0, 0)
      BY <3>1 DEF Division
    <3> QED BY <2>1, <3>1, <3>2, DivisionIs DEF InWindow
  <2>2. CASE w # 0
    <3>1. d <= WIN
      BY <1>1, <1>2, <2>2
    <3>2. W = 2^d * 2^(WIN - d) /\ 2^(WIN - d) \in Nat /\ 2^(WIN - d) >= 1 /\ 2^d \in Nat /\ 2^d >= 1
      BY <1>1, <1>2, <3>1, PowerSplit, Powers
    <3>3. w * (2^d * 2^(WIN - d)) = 2^d * (w * 2^(WIN - d)) + 0 /\ w * 2^(WIN - d) \in Nat
      BY <1>1, <3>2
    <3>4. Division(w * W, 2^d, w * 2^(WIN - d), 0)
      BY <3>2, <3>3 DEF Division
    <3> QED BY <2>2, <3>1, <3>2, <3>3, <3>4, DivisionIs DEF InWindow
  <2> QED BY <2>1, <2>2
<1>5. X \in Nat
  BY <1>1, <1>2
<1>6. p2.acc_sign = (T < 0) /\ F = (IF T < 0 THEN 0 - T ELSE T) /\ T = (IF sx THEN 0 - X ELSE X) + (IF sw THEN 0 - g ELSE g)
  BY <1>4 DEF Meets, WithSign
<1> HIDE DEF T, F
<1>7. /\ T \in Int /\ F \in Nat /\ F <= X + g /\ (F = X + g \/ F = X - g \/ F = g - X)
  <2> HIDE DEF X, g
  <2>1. CASE sx /\ sw
    BY <1>4, <1>5, <1>6, <2>1
  <2>2. CASE sx /\ ~sw
    BY <1>4, <1>5, <1>6, <2>2
  <2>3. CASE ~sx /\ sw
    BY <1>4, <1>5, <1>6, <2>3
  <2>4. CASE ~sx /\ ~sw
    BY <1>4, <1>5, <1>6, <2>4
  <2> QED BY <2>1, <2>2, <2>3, <2>4
<1>8. F < 2^(FULL - 1)
  <2>1. X <= (4 * OO - 1) * W /\ (4 * OO - 1) * W = 4 * (OO * W) - W /\ OO * W \in Nat
    BY <1>1, <1>2, <1>3
  <2>2. g <= 4 * (OO * W)
    <3>1. CASE w = 0
      BY <1>2, <2>1, <3>1
    <3>2. CASE w # 0
      <4>1. 2^(WIN - d) <= W
        <5>1. 2^d >= 1
          BY <1>1, Powers
        <5>2. 2^d * 2^(WIN - d) >= 1 * 2^(WIN - d)
          BY <1>4, <3>2, <5>1
        <5> QED BY <1>4, <3>2, <5>2
      <4>2. w * 2^(WIN - d) <= w * W /\ w * W <= (4 * OO) * W /\ (4 * OO) * W = 4 * (OO * W)
        BY <1>1, <1>2, <1>3, <1>4, <3>2, <4>1
      <4>3. w * 2^(WIN - d) \in Int /\ w * W \in Int
        BY <1>1, <1>2, <1>4, <3>2
      <4>4. g = w * 2^(WIN - d)
        BY <3>2
      <4> HIDE DEF g, W, OO
      <4> QED BY <2>1, <4>2, <4>3, <4>4
    <3> QED BY <3>1, <3>2
  <2> HIDE DEF X, g, W, OO
  <2> QED BY <1>2, <1>4, <1>5, <1>7, <2>1, <2>2
<1>9. F # 0 => F >= 8 * O
  <2> SUFFICES ASSUME F # 0 PROVE F >= 8 * O
    OBVIOUS
  <2>1. CASE w = 0
    <3>1. F = X
      <4>1. g = 0
        BY <2>1
      <4> HIDE DEF X, g
      <4> QED BY <1>5, <1>7, <4>1
    <3>2. x >= 1
      <4>1. x # 0
        <5> SUFFICES ASSUME x = 0 PROVE FALSE
          OBVIOUS
        <5>1. X = 0
          BY <1>2
        <5> QED BY <3>1, <5>1
      <4> QED BY <1>1, <4>1
    <3>3. X >= 1 * W
      BY <1>1, <1>2, <3>2
    <3> HIDE DEF X, g, W, OO
    <3> QED BY <1>2, <1>5, <3>1, <3>3
  <2>2. CASE w # 0 /\ d <= FRAC + 2
    <3>1. PICK i \in Nat, j \in Nat : i = FRAC + 3 /\ j = FRAC + 2 - d /\ i + j = WIN - d
      <4>1. FRAC + 3 \in Nat /\ FRAC + 2 - d \in Nat /\ FRAC + 3 + (FRAC + 2 - d) = WIN - d
        BY <1>1, <1>2, <2>2, Window
      <4> QED BY <4>1
    <3>2. 2^(WIN - d) = (8 * O) * 2^j /\ 2^j \in Nat
      <4>1. 2^(i + j) = 2^i * 2^j /\ 2^j \in Nat
        BY <3>1, PowerSum, Powers
      <4> QED BY <3>1, <4>1, WindowPowers
    <3>3. g = (8 * O) * (w * 2^j) /\ X = (8 * O) * (x * (2^d * 2^j)) /\ w * 2^j \in Nat /\ x * (2^d * 2^j) \in Nat
      <4>1. g = w * ((8 * O) * 2^j) /\ X = x * (2^d * ((8 * O) * 2^j)) /\ 2^d \in Nat
        BY <1>4, <2>2, <3>2
      <4>2. w * ((8 * O) * 2^j) = (8 * O) * (w * 2^j) /\ x * (2^d * ((8 * O) * 2^j)) = (8 * O) * (x * (2^d * 2^j))
        BY <1>1, <1>2, <3>2, <4>1
      <4>3. w * 2^j \in Nat /\ x * (2^d * 2^j) \in Nat
        BY <1>1, <3>2, <4>1
      <4> QED BY <4>1, <4>2, <4>3
    <3>4. PICK a \in Nat, b \in Nat : g = (8 * O) * a /\ X = (8 * O) * b
      BY <3>3
    <3>5. \E q \in Int : F = (8 * O) * q
      <4>1. (8 * O) * (b + a) = (8 * O) * b + (8 * O) * a /\ (8 * O) * (b - a) = (8 * O) * b - (8 * O) * a
            /\ (8 * O) * (a - b) = (8 * O) * a - (8 * O) * b /\ b + a \in Int /\ b - a \in Int /\ a - b \in Int
        BY <1>2, <3>4
      <4> HIDE DEF X, g, O
      <4> QED BY <1>7, <3>4, <4>1
    <3>6. PICK q \in Int : F = (8 * O) * q
      BY <3>5
    <3>7. q >= 1
      <4>1. ASSUME q <= 0 PROVE FALSE
        <5>1. (8 * O) * q <= 0
          BY <1>2, <4>1
        <5> QED BY <1>2, <1>7, <3>6, <5>1
      <4> QED BY <4>1
    <3>8. (8 * O) * q >= (8 * O) * 1
      BY <1>2, <3>7
    <3> QED BY <1>2, <3>6, <3>8
  <2>3. CASE w # 0 /\ ~(d <= FRAC + 2)
    <3>1. 2^d >= 8 * O
      <4>1. FRAC + 3 \in Nat /\ FRAC + 3 <= d
        BY <1>1, <1>2, <2>3
      <4>2. 2^(FRAC + 3) <= 2^d
        BY <1>1, <4>1, PowerOrder
      <4> QED BY <4>2, WindowPowers
    <3>2. x * 2^d >= 8 * OO
      <4>1. x * 2^d >= O * (8 * O) /\ O * (8 * O) = 8 * OO
        BY <1>1, <1>2, <1>3, <1>4, <2>3, <3>1
      <4> QED BY <4>1
    <3>3. (2 * w) * 2^(WIN - d) <= (x * 2^d) * 2^(WIN - d)
      <4>1. 2 * w <= x * 2^d /\ x * 2^d \in Nat /\ 2 * w \in Nat
        BY <1>1, <1>2, <1>3, <1>4, <2>3, <3>2
      <4> DEFINE y == x * 2^d
                 z == 2 * w
      <4> HIDE DEF y, z
      <4>2. z * 2^(WIN - d) <= y * 2^(WIN - d)
        BY <1>4, <2>3, <4>1 DEF y, z
      <4> QED BY <4>2 DEF y, z
    <3>4. (2 * w) * 2^(WIN - d) = 2 * (w * 2^(WIN - d)) /\ (x * 2^d) * 2^(WIN - d) = x * (2^d * 2^(WIN - d))
      BY <1>1, <1>4, <2>3
    <3>5. 2 * g <= X
      BY <1>4, <2>3, <3>3, <3>4
    <3>6. X >= 1 * W
      BY <1>1, <1>2, <1>3, <2>3
    <3> HIDE DEF X, g, W, OO
    <3> QED BY <1>2, <1>4, <1>5, <1>7, <3>5, <3>6
  <2> QED BY <2>1, <2>2, <2>3
<1> HIDE DEF X, g
<1>10. ~p2.deep_sticky /\ ~p2.cross_exact
  <2>1. WIN + n >= WIN
    BY <1>1, <1>2
  <2>2. ~(w # 0 /\ d > WIN)
    OBVIOUS
  <2>3. n >= 1 \/ w = 0
    BY <1>2 DEF Sized
  <2> QED BY <1>1, <1>2, <2>1, <2>2, <2>3
<1> QED BY <1>4, <1>6, <1>7, <1>8, <1>9, <1>10 DEF T, F, g, X

(* A number between two multiples of a unit is no multiple of it.           *)
LEMMA Between ==
  ASSUME NEW Z \in Nat, NEW m \in Nat, NEW f \in Nat, f >= 1, f < Z, NEW j \in Nat, j >= 1
  PROVE  /\ (Z * m + f) % (Z * j) # 0
         /\ Z * m >= f => (Z * m - f) % (Z * j) # 0
<1>1. Z * j \in Nat /\ Z * j >= 1 /\ Z * m \in Nat /\ Z \in Nat
  <2>1. Z * j >= 1 * 1
    OBVIOUS
  <2> QED BY <2>1
<1>2. ASSUME NEW i \in Int, f = Z * i PROVE FALSE
  <2>1. CASE i <= 0
    <3>1. Z * i <= 0
      BY <2>1
    <3> QED BY <1>2, <3>1
  <2>2. CASE i >= 1
    <3>1. Z * i >= Z * 1
      BY <2>2
    <3> QED BY <1>2, <3>1
  <2> QED BY <2>1, <2>2
<1>3. ASSUME NEW a \in Nat, a % (Z * j) = 0 PROVE \E q \in Int : a = Z * q
  <2>1. a = (Z * j) * (a \div (Z * j)) + 0 /\ a \div (Z * j) \in Nat
    BY <1>1, <1>3, HasDivision DEF Division
  <2>2. PICK b \in Nat : a = (Z * j) * b
    <3>1. PICK b \in Nat : b = a \div (Z * j)
      BY <2>1
    <3>2. a = (Z * j) * b + 0 /\ (Z * j) * b \in Int
      BY <1>1, <2>1, <3>1
    <3>3. a = (Z * j) * b
      BY <3>2
    <3> QED BY <3>3
  <2>3. (Z * j) * b = Z * (j * b) /\ j * b \in Int /\ Z * (j * b) \in Int
    BY <2>2
  <2> QED BY <2>2, <2>3
<1>4. (Z * m + f) % (Z * j) # 0
  <2> SUFFICES ASSUME (Z * m + f) % (Z * j) = 0 PROVE FALSE
    OBVIOUS
  <2>1. PICK q \in Int : Z * m + f = Z * q
    BY <1>1, <1>3
  <2>2. Z * (q - m) = Z * q - Z * m /\ q - m \in Int /\ Z * q \in Int
    OBVIOUS
  <2>3. f = Z * (q - m)
    BY <1>1, <2>1, <2>2
  <2> QED BY <1>2, <2>2, <2>3
<1>5. ASSUME Z * m >= f PROVE (Z * m - f) % (Z * j) # 0
  <2> SUFFICES ASSUME (Z * m - f) % (Z * j) = 0 PROVE FALSE
    OBVIOUS
  <2>1. PICK q \in Int : Z * m - f = Z * q
    <3>1. Z * m - f \in Nat
      BY <1>1, <1>5
    <3> QED BY <1>3, <3>1
  <2>2. Z * (m - q) = Z * m - Z * q /\ m - q \in Int /\ Z * q \in Int
    OBVIOUS
  <2>3. f = Z * (m - q)
    BY <1>1, <2>1, <2>2
  <2> QED BY <1>2, <2>2, <2>3
<1> QED BY <1>4, <1>5

(* The numbers of a sum from which bits leave the window: X / E is what is  *)
(* in its upper part, f of the other term is in it and v is not.            *)
Parted(x, w, d, n, X, E, f, v) ==
  /\ X \in Nat /\ E \in Nat /\ E >= 2 /\ f \in Nat /\ v \in Nat /\ v < E /\ w \in Nat /\ w >= 1
  /\ E = 2^(d - WIN) /\ X = x * 2^WIN /\ x \in Nat
  /\ f = InWindow(w, d) /\ w = E * f + v
  /\ X = 2^(WIN - 3) * (8 * x) /\ f < 2^(WIN - 3) /\ w < 2^(WIN - 3) * E
  /\ 2 * f <= X /\ X >= 2^(WIN + FRAC)
  /\ X + f < 2^(FULL - 1)

(* A term far below the window, and the place its lowest bit has there.     *)
LEMMA FarParts ==
  ASSUME NEW x \in Nat, NEW w \in Nat, NEW d \in Nat, NEW n, Sized(x, w, n), w # 0, d > WIN
  PROVE  \E X, E, f, v : Parted(x, w, d, n, X, E, f, v)
<1> DEFINE W == 2^WIN
           O == ONE
           OO == O * O
           E == 2^(d - WIN)
           X == x * W
           f == InWindow(w, d)
           v == w % E
<1>1. /\ O \in Nat /\ O >= 8 /\ OO \in Nat /\ OO >= 8 * O /\ W = 32 * OO /\ W \in Nat /\ W >= 1
      /\ 2^(FULL - 1) = 8 * (OO * W) /\ WIN \in Nat /\ FRAC \in Nat /\ 2^(WIN - 3) = 4 * OO /\ 2^(WIN + FRAC) = O * W
  BY WindowPowers, Window
<1>2. w < 4 * OO /\ x < 4 * OO /\ x >= O
  BY <1>1 DEF Sized
<1>3. E \in Nat /\ E >= 2 /\ 2^d = W * E
  <2>1. PICK m \in Nat : m = d - WIN - 1 /\ m + 1 = d - WIN
    <3>1. d - WIN - 1 \in Nat /\ d - WIN - 1 + 1 = d - WIN
      BY <1>1
    <3> QED BY <3>1
  <2>2. 2^(m + 1) = 2 * 2^m /\ 2^m \in Nat /\ 2^m >= 1
    BY <2>1, Powers
  <2>3. 2^d = W * E /\ E \in Nat
    <3>1. WIN <= d
      BY <1>1
    <3> QED BY <1>1, <3>1, PowerSplit
  <2> QED BY <2>1, <2>2, <2>3
<1> HIDE DEF E
<1>4. w \div E \in Nat /\ v \in Nat /\ v < E /\ w = E * (w \div E) + v
  BY <1>3, HasDivision DEF Division
<1> HIDE DEF v
<1>5. f = w \div E
  <2> DEFINE a == w \div E
  <2>1. a \in Nat /\ w = E * a + v
    BY <1>4
  <2> HIDE DEF a, W
  <2>2. (E * a + v) * W = (W * E) * a + v * W /\ W * E \in Nat /\ W * E >= 1 /\ v * W \in Nat /\ v * W < W * E
    <3>1. (E * a + v) * W = (W * E) * a + v * W /\ W * E \in Nat /\ v * W \in Nat /\ (E - 1) * W = W * E - W
      BY <1>1, <1>3, <1>4, <2>1
    <3>2. v * W <= (E - 1) * W
      BY <1>1, <1>3, <1>4
    <3> QED BY <1>1, <3>1, <3>2
  <2>3. Division(w * W, W * E, a, v * W)
    BY <2>1, <2>2 DEF Division
  <2>4. (w * W) \div (W * E) = a
    BY <2>3, DivisionIs
  <2> QED BY <1>3, <2>4 DEF InWindow, W, a
<1> HIDE DEF f
<1>6. f \in Nat /\ w = E * f + v /\ 2 * f <= w /\ f <= w
  <2>1. f \in Nat /\ w = E * f + v
    BY <1>4, <1>5
  <2>2. E * f >= 2 * f /\ E * f \in Nat
    BY <1>3, <2>1
  <2> QED BY <1>4, <2>1, <2>2
<1>7. X \in Nat /\ X >= O * W /\ X = (4 * OO) * (8 * x) /\ X <= 4 * (OO * W) - W
  <2>1. x * (32 * OO) = (4 * OO) * (8 * x)
    BY <1>1
  <2>2. x * W >= O * W /\ x * W \in Nat
    BY <1>1, <1>2
  <2>3. x * W <= (4 * OO - 1) * W /\ (4 * OO - 1) * W = 4 * (OO * W) - W
    BY <1>1, <1>2
  <2> QED BY <1>1, <2>1, <2>2, <2>3
<1>8. O * W >= 8 * W /\ OO * W >= 8 * W /\ O * W \in Nat /\ OO * W \in Nat
  BY <1>1
<1>9. w < (4 * OO) * E
  <2>1. (4 * OO) * E >= (4 * OO) * 1
    BY <1>1, <1>3
  <2>2. (4 * OO) * E \in Nat
    BY <1>1, <1>3
  <2> HIDE DEF OO
  <2> QED BY <1>1, <1>2, <2>1, <2>2
<1> HIDE DEF X, W, OO
<1>10. f < 4 * OO /\ 2 * f <= X /\ X + f < 8 * (OO * W)
  BY <1>1, <1>2, <1>6, <1>7, <1>8
<1>11. Parted(x, w, d, n, X, E, f, v)
  <2>1. X = 2^(WIN - 3) * (8 * x) /\ f < 2^(WIN - 3) /\ w < 2^(WIN - 3) * E /\ X >= 2^(WIN + FRAC) /\ X + f < 2^(FULL - 1)
    BY <1>1, <1>7, <1>9, <1>10
  <2>2. E = 2^(d - WIN) /\ X = x * 2^WIN /\ f = InWindow(w, d)
    BY DEF E, X, W, f
  <2>3. w >= 1 /\ w \in Nat /\ x \in Nat
    OBVIOUS
  <2> QED BY <1>3, <1>4, <1>6, <1>7, <1>10, <2>1, <2>2, <2>3 DEF Parted
<1> QED BY <1>11

(* The sum has the sign of the term in the upper part and its magnitude is  *)
(* N / E.                                                                   *)
LEMMA FarSum ==
  ASSUME NEW p2, NEW x, NEW sx, NEW w, NEW sw, NEW d, NEW n,
         Meets(p2, x, sx, w, sw, d, n), Sized(x, w, n), w # 0, d > WIN,
         NEW X, NEW E, NEW f, NEW v, Parted(x, w, d, n, X, E, f, v)
  PROVE  LET N == IF sx = sw THEN X * E + w ELSE X * E - w
         IN  /\ p2.acc_sign = sx /\ p2.deep_sticky
             /\ p2.full = IF sx = sw THEN X + f ELSE X - f
             /\ N \in Nat /\ N = IF sx = sw THEN p2.full * E + v ELSE p2.full * E - v
             /\ p2.full >= 2^(WIN + FRAC - 1) /\ p2.full < 2^(FULL - 1)
             /\ f >= 1 \/ sx = sw => \A k \in Nat : k >= WIN - 1 => SameBits(p2, N, E, k)
<1> DEFINE N == IF sx = sw THEN X * E + w ELSE X * E - w
           F == p2.full
           Z == 2^(WIN - 3)
<1>1. /\ X \in Nat /\ E \in Nat /\ E >= 2 /\ f \in Nat /\ v \in Nat /\ v < E /\ w \in Nat /\ w >= 1
      /\ X = x * 2^WIN /\ x \in Nat
      /\ f = InWindow(w, d) /\ w = E * f + v
      /\ X = Z * (8 * x) /\ f < Z /\ w < Z * E
      /\ 2 * f <= X /\ X >= 2^(WIN + FRAC)
      /\ X + f < 2^(FULL - 1)
  BY DEF Parted
<1>2. sx \in BOOLEAN /\ sw \in BOOLEAN /\ d \in Nat /\ n \in Nat
      /\ (p2.deep_sticky <=> w # 0 /\ d > WIN)
      /\ (p2.cross_exact <=> w # 0 /\ d >= WIN + n /\ sw # p2.acc_sign)
  BY DEF Meets
<1>3. 2^(WIN + FRAC) = 2 * 2^(WIN + FRAC - 1) /\ 2^(WIN + FRAC - 1) \in Nat /\ 2^(WIN + FRAC - 1) >= 1
      /\ 2^(FULL - 1) \in Nat /\ WIN \in Nat /\ WIN >= 11 /\ Z \in Nat /\ Z >= 1
  <2>1. PICK m \in Nat : m = WIN + FRAC - 1
    BY Window
  <2>2. 2^m >= 1
    BY <2>1, Powers
  <2>3. Z >= 1
    BY WindowPowers
  <2> QED BY <2>1, <2>2, <2>3, Window, WindowPowers
<1> DEFINE low == 2^(WIN + FRAC - 1)
           cap == 2^(FULL - 1)
<1>4. X \in Nat /\ f \in Nat /\ v \in Nat /\ w \in Nat /\ E \in Nat /\ E >= 2 /\ v < E /\ X >= 2 /\ X - f >= 1
      /\ X - f >= low /\ X + f < cap /\ low \in Nat /\ cap \in Nat
  <2>1. 2 * f <= X /\ X >= 2 * low /\ low >= 1 /\ low \in Nat /\ X \in Nat /\ f \in Nat
    BY <1>1, <1>3
  <2>2. X + f < cap /\ cap \in Nat
    BY <1>1, <1>3
  <2> HIDE DEF low, cap
  <2>3. X >= 2 /\ X - f >= 1 /\ X - f >= low
    BY <2>1
  <2> QED BY <1>1, <2>1, <2>2, <2>3
<1> HIDE DEF low, cap
<1> DEFINE same == sx <=> sw
<1>5. p2.acc_sign = sx /\ F = (IF same THEN X + f ELSE X - f) /\ (sx = sw <=> same)
  <2> DEFINE T == WithSign(sx, X) + WithSign(sw, f)
  <2>0. SUFFICES (p2.acc_sign <=> sx) /\ F = (IF same THEN X + f ELSE X - f)
    BY <1>2 DEF Meets, SumOK
  <2>1. (p2.acc_sign <=> T < 0) /\ F = (IF T < 0 THEN 0 - T ELSE T)
    BY <1>1 DEF Meets, SumOK
  <2>2. T = (IF sx THEN 0 - X ELSE X) + (IF sw THEN 0 - f ELSE f)
    BY DEF WithSign
  <2> HIDE DEF T, F
  <2>3. CASE sx /\ sw
    BY <1>4, <2>1, <2>2, <2>3
  <2>4. CASE sx /\ ~sw
    BY <1>4, <2>1, <2>2, <2>4
  <2>5. CASE ~sx /\ sw
    BY <1>4, <2>1, <2>2, <2>5
  <2>6. CASE ~sx /\ ~sw
    BY <1>4, <2>1, <2>2, <2>6
  <2> QED BY <2>3, <2>4, <2>5, <2>6
<1> HIDE DEF same
<1>6. F \in Nat /\ F >= low /\ F < cap
  <2> HIDE DEF F
  <2> QED BY <1>4, <1>5
<1> DEFINE xe == X * E
           ef == E * f
           fe == F * E
<1>7. N \in Nat /\ N = (IF sx = sw THEN F * E + v ELSE F * E - v) /\ X * E \in Nat /\ (sx # sw => X * E >= w)
  <2>1. (X + f) * E = xe + ef /\ (X - f) * E = xe - ef /\ xe \in Nat /\ ef \in Nat /\ (X - f) * E >= 1 * E
    BY <1>4
  <2>2. fe = (IF same THEN xe + ef ELSE xe - ef) /\ xe - ef >= E
    BY <1>4, <1>5, <2>1
  <2>3. w = ef + v
    BY <1>1
  <2>4. N = IF same THEN xe + w ELSE xe - w
    BY <1>5
  <2> HIDE DEF xe, ef, fe, N
  <2>5. N \in Nat /\ N = (IF same THEN fe + v ELSE fe - v) /\ xe \in Nat /\ (~same => xe >= w)
    BY <1>4, <2>1, <2>2, <2>3, <2>4
  <2> QED BY <1>5, <2>5 DEF xe, fe
<1>8. ASSUME f >= 1 \/ sx = sw, NEW k \in Nat, k >= WIN - 1 PROVE SameBits(p2, N, E, k)
  <2>1. PICK j \in Nat : j >= 1 /\ 2^(k - 2) = Z * j
    <3>1. PICK a \in Nat, b \in Nat : a = WIN - 3 /\ b = k - 2 /\ a <= b
      <4>1. WIN - 3 \in Nat /\ k - 2 \in Nat /\ WIN - 3 <= k - 2
        BY <1>3, <1>8
      <4> QED BY <4>1
    <3>2. 2^b = 2^a * 2^(b - a) /\ 2^(b - a) \in Nat /\ 2^(b - a) >= 1
      BY <3>1, PowerSplit
    <3> QED BY <3>1, <3>2
  <2> DEFINE H == Z * j
             G == H * E
  <2>2. H \in Nat /\ H >= 1 /\ G \in Nat /\ G >= 1 /\ G = (Z * E) * j /\ Z * E \in Nat
    <3>1. Z * j >= 1 * 1 /\ Z * j \in Nat
      BY <1>3, <2>1
    <3>2. (Z * j) * E >= 1 * 1 /\ (Z * j) * E \in Nat /\ (Z * j) * E = (Z * E) * j /\ Z * E \in Nat
      BY <1>1, <1>3, <2>1, <3>1
    <3> QED BY <3>1, <3>2
  <2>3. N % G # 0
    <3> DEFINE Y == Z * E
               m == 8 * x
    <3>1. X * E = Y * m /\ Y \in Nat /\ m \in Nat
      BY <1>1, <1>3
    <3>2. w < Y /\ w \in Nat /\ w >= 1 /\ G = Y * j
      BY <1>1, <2>2
    <3> HIDE DEF Y, m, G
    <3>3. (Y * m + w) % (Y * j) # 0 /\ (Y * m >= w => (Y * m - w) % (Y * j) # 0)
      BY <2>1, <3>1, <3>2, Between
    <3> QED BY <1>2, <1>7, <3>1, <3>2, <3>3
  <2>4. Division(F, H, F \div H, F % H)
    <3> HIDE DEF H, F
    <3> QED BY <1>6, <2>2, HasDivision
  <2> DEFINE Q == F \div H
             R == F % H
  <2>5. Q \in Nat /\ R \in Nat /\ R < H /\ F = H * Q + R
    BY <2>4 DEF Division
  <2>6. F * E = G * Q + R * E /\ R * E \in Nat /\ R * E + E <= G /\ G * Q \in Nat
    <3> HIDE DEF H, F, Q, R
    <3>1. (H * Q + R) * E = (H * E) * Q + R * E /\ R * E \in Nat /\ (H * E) * Q \in Nat
      BY <1>1, <2>2, <2>5
    <3>2. (R + 1) * E <= H * E /\ (R + 1) * E = R * E + E
      BY <1>1, <2>2, <2>5
    <3> QED BY <2>5, <3>1, <3>2
  <2>7. sx # sw => R >= 1
    <3> SUFFICES ASSUME sx # sw PROVE R # 0
      BY <2>5
    <3>1. f >= 1 /\ F = Z * (8 * x) - f /\ Z * (8 * x) >= f
      <4>1. f # 0 /\ F = X - f /\ X >= f
        BY <1>4, <1>5, <1>8
      <4>2. X = Z * (8 * x)
        BY <1>1
      <4> HIDE DEF F, Z
      <4> QED BY <1>4, <4>1, <4>2
    <3>2. 8 * x \in Nat
      BY <1>1
    <3> DEFINE m == 8 * x
    <3> HIDE DEF m, F
    <3>3. (Z * m - f) % (Z * j) # 0
      BY <1>1, <1>3, <2>1, <3>1, <3>2, Between DEF m
    <3> QED BY <3>1, <3>3 DEF m
  <2>8. N \div G = Q
    <3> DEFINE re == R * E
               gq == G * Q
    <3>1. re \in Nat /\ re + E <= G /\ gq \in Nat /\ F * E = gq + re
      BY <2>6
    <3>2. ~same => re >= E
      <4> HIDE DEF R
      <4>1. R >= 1 => R * E >= 1 * E
        BY <1>1, <2>5
      <4> QED BY <1>4, <1>5, <2>7, <4>1
    <3> HIDE DEF re
    <3>3. CASE same
      <4>1. N = gq + (re + v) /\ re + v \in Nat /\ re + v < G
        <5>1. N = fe + v /\ fe = gq + re
          BY <1>5, <1>7, <3>1, <3>3
        <5> HIDE DEF gq, fe, N, G
        <5> QED BY <1>4, <2>2, <3>1, <3>3, <5>1
      <4> HIDE DEF G, N, Q
      <4>2. Division(N, G, Q, re + v)
        BY <2>2, <2>5, <4>1 DEF Division, gq
      <4> QED BY <4>2, DivisionIs
    <3>4. CASE ~same
      <4>1. N = gq + (re - v) /\ re - v \in Nat /\ re - v < G
        <5>1. N = fe - v /\ fe = gq + re
          BY <1>5, <1>7, <3>1, <3>4
        <5> HIDE DEF gq, fe, N, G
        <5> QED BY <1>4, <2>2, <3>1, <3>2, <3>4, <5>1
      <4> HIDE DEF G, N, Q
      <4>2. Division(N, G, Q, re - v)
        BY <2>2, <2>5, <4>1 DEF Division, gq
      <4> QED BY <4>2, DivisionIs
    <3> QED BY <3>3, <3>4
  <2>9. ~p2.cross_exact
    <3>1. ASSUME d >= WIN + n, f >= 1 PROVE FALSE
      <4>1. w < 2^n
        <5>1. CASE n = FRAC + 1 /\ w < 2 * ONE
          BY <5>1, WindowPowers
        <5>2. CASE n = 2 * FRAC + 2
          BY <5>2, WindowPowers DEF Sized
        <5> QED BY <1>1, <5>1, <5>2 DEF Sized
      <4>2. 2^n <= E
        <5>1. PICK a \in Nat : a = d - WIN /\ n <= a
          <6>1. d - WIN \in Nat /\ n <= d - WIN
            BY <1>2, <1>3, <3>1
          <6> QED BY <6>1
        <5>2. 2^n <= 2^a
          BY <1>2, <5>1, PowerOrder
        <5> QED BY <5>1, <5>2 DEF Parted
      <4>3. E * f >= E * 1 /\ E * f \in Nat
        BY <1>1, <3>1
      <4>4. 2^n \in Nat
        BY <1>2, Powers
      <4> QED BY <1>1, <4>1, <4>2, <4>3, <4>4
    <3> QED BY <1>2, <1>5, <1>8, <3>1
  <2>10. k >= 3 /\ 2^(k - 2) * E = G /\ 2^(k - 2) = H
    BY <1>3, <1>8, <2>1
  <2>11. p2.deep_sticky
    BY <1>1, <1>2
  <2> HIDE DEF G, H, N, F, Q, R
  <2>12. N \in Nat /\ E >= 1 /\ E \in Nat /\ N \div G = F \div H
    BY <1>1, <1>7, <2>8 DEF Q
  <2> QED BY <2>3, <2>9, <2>10, <2>11, <2>12 DEF SameBits, F
<1>9. p2.deep_sticky
  BY <1>1, <1>2
<1> HIDE DEF N
<1> QED BY <1>5, <1>6, <1>7, <1>8, <1>9 DEF N, low, cap

(* The exact sum in units of 2^(base - Below(w, d)).                        *)
Below(w, d) == IF w # 0 /\ d > WIN THEN d - WIN ELSE 0
Total(x, sx, w, sw, d) ==
  WithSign(sx, (x * 2^WIN) * 2^Below(w, d))
    + WithSign(sw, IF w = 0 THEN 0 ELSE w * 2^(WIN + Below(w, d) - d))
Absolute(n) == IF n < 0 THEN 0 - n ELSE n

(* The smaller term has left the window and is to be subtracted.            *)
Steps(sx, w, sw, d) == w # 0 /\ d > WIN /\ sx # sw /\ InWindow(w, d) = 0

Leads(F, top) == top \in Nat /\ 2^top <= F /\ F < 2^(top + 1)

(* The sum in the registers stands for T / E.                               *)
StandsFor(p2, T, E) ==
  /\ E \in Nat /\ E >= 1 /\ T \in Int
  /\ p2.full = 0 <=> T = 0
  /\ p2.full # 0 => p2.acc_sign = (T < 0) /\ p2.full >= 8 * ONE /\ p2.full < 2^(FULL - 1)

SameAbove(p2, N, E) ==
  \A top, k : Leads(p2.full, top) /\ k \in Nat /\ k >= top - FRAC => SameBits(p2, N, E, k)

(* Large numbers have high leading bits.                                    *)
LEMMA LeadsFrom ==
  ASSUME NEW F \in Nat, NEW top, Leads(F, top), NEW b \in Nat, 2^b <= F
  PROVE  top >= b
<1>1. top \in Nat /\ F < 2^(top + 1)
  BY DEF Leads
<1>2. ASSUME top < b PROVE FALSE
  <2>1. top + 1 \in Nat /\ top + 1 <= b
    BY <1>1, <1>2
  <2>2. 2^(top + 1) <= 2^b /\ 2^(top + 1) \in Nat /\ 2^b \in Nat
    <3>1. PICK a \in Nat : a = top + 1 /\ a <= b
      BY <2>1
    <3>2. 2^a <= 2^b /\ 2^a \in Nat /\ 2^b \in Nat
      BY <3>1, PowerOrder, Powers
    <3> QED BY <3>1, <3>2
  <2> QED BY <1>1, <2>2
<1> QED BY <1>1, <1>2

(* With both terms in the window the register is the exact sum.             *)
LEMMA NearStands ==
  ASSUME NEW p2, NEW x, NEW sx, NEW w, NEW sw, NEW d, NEW n,
         Meets(p2, x, sx, w, sw, d, n), Sized(x, w, n), ~(w # 0 /\ d > WIN)
  PROVE  LET T == Total(x, sx, w, sw, d)
             E == 2^Below(w, d)
         IN  StandsFor(p2, T, E) /\ SameAbove(p2, Absolute(T), E)
<1> DEFINE g == IF w = 0 THEN 0 ELSE w * 2^(WIN - d)
           T == WithSign(sx, x * 2^WIN) + WithSign(sw, g)
           F == p2.full
<1>1. /\ p2.acc_sign = (T < 0) /\ F = IF T < 0 THEN 0 - T ELSE T
      /\ T \in Int /\ g \in Nat
      /\ ~p2.deep_sticky /\ ~p2.cross_exact
      /\ F # 0 => F >= 8 * ONE
      /\ F < 2^(FULL - 1)
  BY NearSum
<1>2. /\ x \in Nat /\ w \in Nat /\ d \in Nat /\ 2^WIN \in Nat /\ WIN \in Nat /\ FRAC \in Nat /\ ONE \in Nat /\ ONE >= 8
      /\ 2^(FRAC + 3) = 8 * ONE
  BY WindowPowers, Window DEF Meets
<1>3. 2^Below(w, d) = 1
  <2>1. 2^0 = 1
    OBVIOUS
  <2> QED BY <2>1 DEF Below
<1>4. Total(x, sx, w, sw, d) = T
  <2>1. (x * 2^WIN) * 1 = x * 2^WIN
    BY <1>2
  <2>2. w # 0 => WIN + Below(w, d) - d = WIN - d
    BY <1>2 DEF Below
  <2> HIDE DEF T
  <2> QED BY <1>3, <2>1, <2>2 DEF Total, T
<1> HIDE DEF T
<1>5. F \in Nat /\ F = Absolute(T) /\ (F = 0 <=> T = 0)
  BY <1>1 DEF Absolute
<1> HIDE DEF F, g
<1>6. StandsFor(p2, T, 1)
  BY <1>1, <1>5 DEF StandsFor, F
<1>7. ASSUME NEW top, NEW k, Leads(F, top), k \in Nat, k >= top - FRAC PROVE SameBits(p2, F, 1, k)
  <2>1. top \in Nat /\ 2^top \in Nat /\ 2^top >= 1 /\ 2^top <= F
    BY <1>7, Powers DEF Leads
  <2>2. F >= 8 * ONE
    BY <1>1, <1>5, <2>1
  <2>3. top >= FRAC + 3
    <3>1. PICK b \in Nat : b = FRAC + 3
      BY <1>2
    <3>2. 2^b <= F
      BY <1>2, <2>2, <3>1
    <3> QED BY <1>5, <1>7, <3>1, <3>2, LeadsFrom
  <2>4. k >= 3
    BY <1>2, <1>7, <2>1, <2>3
  <2>5. 2^(k - 2) * 1 = 2^(k - 2)
    <3>1. PICK m \in Nat : m = k - 2
      BY <1>7, <2>4
    <3>2. 2^m \in Nat
      BY Powers
    <3> QED BY <3>1, <3>2
  <2> QED BY <1>1, <1>5, <1>7, <2>4, <2>5 DEF SameBits, F
<1>8. SameAbove(p2, F, 1)
  BY <1>7 DEF SameAbove, F
<1> QED BY <1>3, <1>4, <1>5, <1>6, <1>8

(* With one below it the register stands for the sum, or is a step above    *)
(* it.                                                                      *)
LEMMA FarStands ==
  ASSUME NEW p2, NEW x, NEW sx, NEW w, NEW sw, NEW d, NEW n,
         Meets(p2, x, sx, w, sw, d, n), Sized(x, w, n), w # 0, d > WIN
  PROVE  LET T == Total(x, sx, w, sw, d)
             E == 2^Below(w, d)
         IN  /\ StandsFor(p2, T, E)
             /\ ~Steps(sx, w, sw, d) => SameAbove(p2, Absolute(T), E)
             /\ Steps(sx, w, sw, d) => /\ Absolute(T) = p2.full * E - w /\ p2.full = x * 2^WIN /\ w < E
                                       /\ p2.full # 0 /\ p2.deep_sticky
                                       /\ p2.cross_exact <=> d >= WIN + n
<1> DEFINE F == p2.full
           P == 2^(WIN + FRAC - 1)
<1>1. /\ x \in Nat /\ w \in Nat /\ d \in Nat /\ 2^WIN \in Nat /\ WIN \in Nat /\ FRAC \in Nat /\ FRAC >= 3 /\ ONE \in Nat /\ ONE >= 8
      /\ sx \in BOOLEAN /\ sw \in BOOLEAN
      /\ p2.cross_exact <=> w # 0 /\ d >= WIN + n /\ sw # p2.acc_sign
  BY WindowPowers, Window DEF Meets
<1>2. PICK X, E, f, v : Parted(x, w, d, n, X, E, f, v)
  BY <1>1, FarParts
<1>3. /\ X \in Nat /\ E \in Nat /\ E >= 2 /\ f \in Nat /\ v \in Nat /\ v < E
      /\ E = 2^(d - WIN) /\ X = x * 2^WIN /\ f = InWindow(w, d) /\ w = E * f + v
  BY <1>2 DEF Parted
<1> DEFINE N == IF sx = sw THEN X * E + w ELSE X * E - w
<1>4. /\ p2.acc_sign = sx /\ p2.deep_sticky
      /\ F = IF sx = sw THEN X + f ELSE X - f
      /\ N \in Nat /\ N = IF sx = sw THEN F * E + v ELSE F * E - v
      /\ F >= P /\ F < 2^(FULL - 1)
      /\ f >= 1 \/ sx = sw => \A k \in Nat : k >= WIN - 1 => SameBits(p2, N, E, k)
  BY <1>2, FarSum
<1>5. Below(w, d) = d - WIN /\ 2^Below(w, d) = E
  BY <1>1, <1>3 DEF Below
<1>6. P \in Nat /\ P >= 8 * ONE
  <2>1. P \in Nat /\ ONE * 2^WIN = 2 * P /\ 2^WIN = 32 * (ONE * ONE) /\ ONE * ONE >= 8 * ONE /\ ONE * ONE \in Nat
    BY WindowPowers
  <2>2. ONE * 2^WIN >= 8 * 2^WIN
    BY <1>1
  <2> HIDE DEF P
  <2> QED BY <1>1, <2>1, <2>2
<1>7. F \in Nat
  BY DEF Meets, SumOK
<1> HIDE DEF F, N, P
<1>8. N >= 1
  <2>1. F * E >= 2 * E /\ F * E \in Nat
    <3>1. F >= 2
      BY <1>1, <1>4, <1>6, <1>7
    <3> QED BY <1>3, <1>7, <3>1
  <2> QED BY <1>3, <1>4, <2>1
<1> DEFINE T == Total(x, sx, w, sw, d)
<1>9. T = (IF sx THEN 0 - N ELSE N) /\ T \in Int
  <2>1. WIN + Below(w, d) - d = 0
    BY <1>1, <1>5
  <2>2. w * 2^0 = w
    <3>1. 2^0 = 1
      OBVIOUS
    <3> QED BY <1>1, <3>1
  <2>3. T = (IF sx THEN 0 - X * E ELSE X * E) + (IF sw THEN 0 - w ELSE w)
    BY <1>3, <1>5, <2>1, <2>2 DEF Total, WithSign
  <2>4. X * E \in Nat
    BY <1>3
  <2> DEFINE xe == X * E
  <2>5. N = (IF sx <=> sw THEN xe + w ELSE xe - w) /\ xe \in Nat /\ T = (IF sx THEN 0 - xe ELSE xe) + (IF sw THEN 0 - w ELSE w)
    BY <1>1, <2>3, <2>4 DEF N
  <2> HIDE DEF T, xe
  <2>6. CASE sx /\ sw
    BY <1>1, <2>5, <2>6
  <2>7. CASE sx /\ ~sw
    BY <1>1, <2>5, <2>7
  <2>8. CASE ~sx /\ sw
    BY <1>1, <2>5, <2>8
  <2>9. CASE ~sx /\ ~sw
    BY <1>1, <2>5, <2>9
  <2> QED BY <2>6, <2>7, <2>8, <2>9
<1> HIDE DEF T
<1>10. Absolute(T) = N /\ (T < 0 <=> sx) /\ T # 0
  <2>1. N \in Nat
    BY <1>4
  <2>2. CASE sx
    BY <1>8, <1>9, <2>1, <2>2 DEF Absolute
  <2>3. CASE ~sx
    BY <1>8, <1>9, <2>1, <2>3 DEF Absolute
  <2> QED BY <2>2, <2>3
<1>11. F >= 8 * ONE /\ F # 0
  BY <1>1, <1>4, <1>6, <1>7
<1>12. StandsFor(p2, T, E)
  <2>1. p2.acc_sign = (T < 0)
    BY <1>1, <1>4, <1>10
  <2> QED BY <1>3, <1>4, <1>9, <1>10, <1>11, <2>1 DEF StandsFor, F
<1>13. ASSUME ~Steps(sx, w, sw, d) PROVE SameAbove(p2, N, E)
  <2>1. f >= 1 \/ sx = sw
    BY <1>3, <1>13 DEF Steps
  <2>2. ASSUME NEW top, NEW k, Leads(F, top), k \in Nat, k >= top - FRAC PROVE SameBits(p2, N, E, k)
    <3>1. PICK b \in Nat : b = WIN + FRAC - 1
      BY <1>1
    <3>2. 2^b <= F
      BY <1>4, <1>6, <1>7, <3>1 DEF P
    <3>3. top >= b /\ top \in Nat
      BY <1>7, <2>2, <3>2, LeadsFrom DEF Leads
    <3>4. k >= WIN - 1
      BY <1>1, <2>2, <3>1, <3>3
    <3> QED BY <1>4, <2>1, <2>2, <3>4
  <2> QED BY <2>2 DEF SameAbove, F
<1>14. ASSUME Steps(sx, w, sw, d)
       PROVE  N = F * E - w /\ F = x * 2^WIN /\ w < E /\ (p2.cross_exact <=> d >= WIN + n)
  <2>1. f = 0 /\ sx # sw
    BY <1>3, <1>14 DEF Steps
  <2>2. w = v
    <3>1. E * 0 = 0
      BY <1>3
    <3> QED BY <1>3, <2>1, <3>1
  <2>3. N = F * E - w /\ w < E
    BY <1>3, <1>4, <2>1, <2>2
  <2>4. F = X
    <3>1. F = X - 0
      BY <1>4, <2>1
    <3> QED BY <1>3, <3>1
  <2>5. p2.cross_exact <=> d >= WIN + n
    <3>1. w # 0 /\ sw # p2.acc_sign
      BY <1>4, <1>14, <2>1 DEF Steps
    <3> QED BY <1>1, <3>1
  <2> QED BY <1>3, <2>3, <2>4, <2>5
<1> QED BY <1>4, <1>5, <1>10, <1>11, <1>12, <1>13, <1>14 DEF T, F

(* The leading bit of N / E, and that the one of the sum is.                *)
Leading(N, E, top) == 2^top * E <= N /\ N < 2^(top + 1) * E

(* The leading bit of a sum leaves room for guard and round bits.           *)
LEMMA SumTop ==
  ASSUME NEW F \in Nat, F >= 8 * ONE, NEW top, Leads(F, top)
  PROVE  top \in Nat /\ top >= FRAC + 3
<1>1. FRAC \in Nat /\ 2^(FRAC + 3) = 8 * ONE
  BY WindowPowers, Window
<1>2. PICK b \in Nat : b = FRAC + 3
  BY <1>1
<1>3. 2^b <= F
  BY <1>1, <1>2
<1> QED BY <1>2, <1>3, LeadsFrom DEF Leads

(* The sum has its leading bit where the register has.                      *)
LEMMA SameLeading ==
  ASSUME NEW p2, NEW N, NEW E, p2.full \in Nat, p2.full >= 8 * ONE, SameAbove(p2, N, E),
         NEW top, Leads(p2.full, top)
  PROVE  Leading(N, E, top)
<1> DEFINE F == p2.full
           j == top - FRAC - 2
<1>1. top \in Nat /\ top >= FRAC + 3 /\ FRAC \in Nat /\ ONE \in Nat /\ ONE >= 8
  BY SumTop, WindowPowers, Window
<1>2. PICK k \in Nat : k = top - FRAC /\ k - 2 = j /\ j \in Nat
  BY <1>1
<1>3. SameBits(p2, N, E, k)
  <2>1. k >= top - FRAC
    BY <1>1, <1>2
  <2> QED BY <1>2, <2>1 DEF SameAbove
<1>4. N \in Nat /\ E \in Nat /\ E >= 1 /\ N \div (2^j * E) = F \div 2^j
  BY <1>2, <1>3 DEF SameBits
<1>5. PICK h \in Nat : h = 2^j /\ h >= 1
  BY <1>2, Powers
<1>6. 2^top = h * (4 * ONE) /\ 2^(top + 1) = h * (8 * ONE)
  <2>1. PICK a \in Nat : a = FRAC + 2
    BY <1>1
  <2>2. PICK b \in Nat : b = FRAC + 3
    BY <1>1
  <2>3. top = j + a /\ top + 1 = j + b /\ a + 1 = b
    BY <1>1, <2>1, <2>2
  <2>4. 2^(j + a) = 2^j * 2^a /\ 2^(j + b) = 2^j * 2^b
    <3>1. 2^(j + a) = 2^j * 2^a
      BY <1>2, PowerSum
    <3>2. 2^(j + b) = 2^j * 2^b
      BY <1>2, PowerSum
    <3> QED BY <3>1, <3>2
  <2>5. 2^b = 8 * ONE /\ 2^b = 2 * 2^a /\ 2^a \in Nat
    BY <2>2, <2>3, Powers, WindowPowers
  <2>6. 2^a = 4 * ONE
    BY <1>1, <2>5
  <2> HIDE DEF j
  <2> QED BY <1>5, <2>3, <2>4, <2>5, <2>6
<1>7. F \in Nat /\ 2^top <= F /\ F < 2^(top + 1)
  BY DEF Leads
<1> HIDE DEF F, j
<1> DEFINE D == h * E
           Q == F \div h
<1>8. D \in Nat /\ D >= 1
  BY <1>4, <1>5
<1>9. Q >= 4 * ONE /\ ~(Q >= 8 * ONE)
  <2>1. (F \div h >= 4 * ONE <=> F >= h * (4 * ONE)) /\ (F \div h >= 8 * ONE <=> F >= h * (8 * ONE))
    BY <1>1, <1>5, <1>7, Threshold
  <2>2. h * (4 * ONE) \in Nat /\ h * (8 * ONE) \in Nat
    BY <1>1, <1>5
  <2> QED BY <1>6, <1>7, <2>1, <2>2
<1>10. N >= D * (4 * ONE) /\ ~(N >= D * (8 * ONE))
  <2> HIDE DEF D, Q
  <2>1. (N \div D >= 4 * ONE <=> N >= D * (4 * ONE)) /\ (N \div D >= 8 * ONE <=> N >= D * (8 * ONE))
    BY <1>1, <1>4, <1>8, Threshold
  <2>2. N \div D = Q
    BY <1>4, <1>5 DEF D, Q
  <2> QED BY <1>9, <2>1, <2>2
<1>11. D * (4 * ONE) = 2^top * E /\ D * (8 * ONE) = 2^(top + 1) * E
  <2>1. ASSUME NEW c \in Nat PROVE (h * E) * c = (h * c) * E
    BY <1>4, <1>5
  <2>2. 4 * ONE \in Nat /\ 8 * ONE \in Nat
    BY <1>1
  <2> QED BY <1>6, <2>1, <2>2
<1>12. D * (4 * ONE) \in Nat /\ D * (8 * ONE) \in Nat
  BY <1>1, <1>8
<1> HIDE DEF D
<1> QED BY <1>4, <1>10, <1>11, <1>12 DEF Leading

(* A little less than a sum that is no power of two.                        *)
LEMMA StepLeading ==
  ASSUME NEW F \in Nat, NEW E \in Nat, NEW w \in Nat, w >= 1, w < E, NEW N, N = F * E - w,
         NEW top, Leads(F, top), F # 2^top
  PROVE  Leading(N, E, top)
<1>1. PICK p \in Nat : p = 2^top /\ 2^(top + 1) = 2 * p /\ p >= 1
  BY Powers DEF Leads
<1>2. p + 1 <= F /\ F + 1 <= 2 * p
  BY <1>1 DEF Leads
<1>3. (p + 1) * E <= F * E /\ (F + 1) * E <= (2 * p) * E
  BY <1>1, <1>2
<1>4. (p + 1) * E = p * E + E /\ (F + 1) * E = F * E + E /\ p * E \in Nat /\ F * E \in Nat /\ (2 * p) * E \in Nat
  BY <1>1
<1> DEFINE fe == F * E
           pe == p * E
           ppe == (2 * p) * E
<1>5. fe \in Nat /\ pe \in Nat /\ ppe \in Nat /\ pe + E <= fe /\ fe + E <= ppe /\ N = fe - w
  BY <1>3, <1>4
<1> HIDE DEF fe, pe, ppe
<1>6. pe <= N /\ N < ppe
  BY <1>5
<1> QED BY <1>1, <1>6 DEF Leading, pe, ppe

(* What is below half a unit is rounded like a quarter.                     *)
LEMMA SmallRounds ==
  ASSUME NEW rm \in RoundingModes, NEW neg \in BOOLEAN, NEW N \in Nat, N >= 1, NEW D \in Nat, 2 * N < D
  PROVE  Reference!RoundQuotient(rm, neg, N, D) = Reference!RoundQuotient(rm, neg, 1, 4)
<1>1. N \div D = 0 /\ N % D = N
  <2>1. Division(N, D, 0, N)
    <3>1. D * 0 = 0
      OBVIOUS
    <3> QED BY <3>1 DEF Division
  <2> QED BY <2>1, DivisionIs
<1>2. 1 \div 4 = 0 /\ 1 % 4 = 1
  OBVIOUS
<1>3. ~Odd(0)
  BY DEF Odd
<1>4. Reference!RoundQuotient(rm, neg, N, D) =
        IF (CASE rm = "RNE" -> 2 * N > D \/ (2 * N = D /\ Odd(0))
              [] rm = "RMM" -> 2 * N >= D
              [] rm = "RTZ" -> FALSE
              [] rm = "RDN" -> neg /\ 2 * N > 0
              [] rm = "RUP" -> ~neg /\ 2 * N > 0)
        THEN 0 + 1 ELSE 0
  BY <1>1, ReferenceFormat DEF Reference!RoundQuotient
<1>5. Reference!RoundQuotient(rm, neg, 1, 4) =
        IF (CASE rm = "RNE" -> 2 > 4 \/ (2 = 4 /\ Odd(0))
              [] rm = "RMM" -> 2 >= 4
              [] rm = "RTZ" -> FALSE
              [] rm = "RDN" -> neg /\ 2 > 0
              [] rm = "RUP" -> ~neg /\ 2 > 0)
        THEN 0 + 1 ELSE 0
  BY <1>2, ReferenceFormat DEF Reference!RoundQuotient
<1>6. ~(2 * N > D) /\ 2 * N # D /\ ~(2 * N >= D) /\ 2 * N > 0
  OBVIOUS
<1>7. CASE rm = "RNE"
  BY <1>3, <1>4, <1>5, <1>6, <1>7
<1>8. CASE rm = "RMM"
  BY <1>4, <1>5, <1>6, <1>8
<1>9. CASE rm = "RTZ"
  BY <1>4, <1>5, <1>9
<1>10. CASE rm = "RDN"
  BY <1>4, <1>5, <1>6, <1>10
<1>11. CASE rm = "RUP"
  BY <1>4, <1>5, <1>6, <1>11
<1> QED BY <1>7, <1>8, <1>9, <1>10, <1>11 DEF RoundingModes

(* The number S * 2^k0 is N / E units of 2^base.                            *)
Scales(base, S, k0, N, E) ==
  /\ S \in Nat /\ S >= 1 /\ k0 \in Int /\ base \in Int
  /\ \E B \in Nat, u \in Nat : E = 2^B /\ N = S * 2^u /\ k0 = base - B + u

(* The exponent of the sum in the units of the reference.                   *)
LEMMA ScaledTop ==
  ASSUME NEW base, NEW S, NEW k0, NEW N, NEW E, Scales(base, S, k0, N, E),
         NEW l, Leads(S, l), NEW top \in Nat, Leading(N, E, top)
  PROVE  l + k0 = base + top
<1>1. PICK B \in Nat, u \in Nat : E = 2^B /\ N = S * 2^u /\ k0 = base - B + u
  BY DEF Scales
<1>2. S \in Nat /\ k0 \in Int /\ base \in Int /\ l \in Nat /\ 2^l <= S /\ S < 2^(l + 1) /\ 2^l \in Nat /\ 2^(l + 1) \in Nat
  BY Powers DEF Scales, Leads
<1>3. PICK t \in Nat : t = 2^u /\ t >= 1
  BY Powers
<1> DEFINE a == l + u
           b == top + B
<1>4. a \in Nat /\ b \in Nat /\ N \in Nat
  BY <1>1, <1>2, <1>3
<1>5. Leads(N, a)
  <2>1. 2^a = 2^l * t
    BY <1>2, <1>3, PowerSum
  <2>2. 2^(a + 1) = 2^(l + 1) * t
    <3>1. PICK m \in Nat : m = l + 1
      BY <1>2
    <3>2. 2^(m + u) = 2^m * 2^u
      BY PowerSum
    <3>3. m + u = a + 1
      BY <1>2, <3>1
    <3> HIDE DEF a
    <3> QED BY <1>3, <3>1, <3>2, <3>3
  <2>3. 2^l * t <= S * t /\ S * t < 2^(l + 1) * t
    BY <1>2, <1>3
  <2> HIDE DEF a
  <2> QED BY <1>1, <1>3, <1>4, <2>1, <2>2, <2>3 DEF Leads
<1>6. Leads(N, b)
  <2>1. 2^b = 2^top * E
    BY <1>1, PowerSum
  <2>2. 2^(b + 1) = 2^(top + 1) * E
    <3>1. PICK m \in Nat : m = top + 1
      OBVIOUS
    <3>2. 2^(m + B) = 2^m * 2^B
      BY PowerSum
    <3>3. m + B = b + 1
      BY <3>1
    <3> HIDE DEF b
    <3> QED BY <1>1, <3>1, <3>2, <3>3
  <2> HIDE DEF b
  <2> QED BY <1>4, <2>1, <2>2 DEF Leads, Leading
<1>7. 2^a <= N /\ 2^b <= N
  BY <1>5, <1>6 DEF Leads
<1> HIDE DEF a, b
<1>8. a >= b /\ b >= a
  BY <1>4, <1>5, <1>6, <1>7, LeadsFrom
<1>9. a = b
  BY <1>4, <1>8
<1> QED BY <1>1, <1>2, <1>9 DEF a, b

(* The reference rounds N / E at position k.                                *)
LEMMA SameScale ==
  ASSUME NEW base, NEW S, NEW k0, NEW N, NEW E, Scales(base, S, k0, N, E), NEW k \in Nat,
         NEW n, NEW d, InUnitsOf(S, 1, k0, base + k, n, d)
  PROVE  SameRatio(n, d, N, 2^k * E)
<1>1. PICK B \in Nat, u \in Nat : E = 2^B /\ N = S * 2^u /\ k0 = base - B + u
  BY DEF Scales
<1>2. S \in Nat /\ k0 \in Int /\ base \in Int
  BY DEF Scales
<1>3. PICK t \in Nat : t = 2^u /\ t >= 1
  BY Powers
<1>4. PICK p \in Nat : p = 2^k /\ p >= 1
  BY Powers
<1>5. E \in Nat /\ E >= 1
  BY <1>1, Powers
<1>6. CASE k0 >= base + k
  <2>1. PICK i \in Nat : i = k0 - (base + k)
    BY <1>2, <1>6
  <2>2. n = S * 2^i /\ d = 1
    BY <1>6, <2>1 DEF InUnitsOf
  <2>3. PICK m \in Nat : m = i + k
    BY <2>1
  <2>4. u = m + B
    BY <1>1, <1>2, <2>1, <2>3
  <2>5. PICK g \in Nat : g = 2^i
    BY Powers
  <2>6. 2^m = g * p /\ t = (g * p) * E
    <3>1. 2^(i + k) = 2^i * 2^k
      BY PowerSum
    <3>2. 2^(m + B) = 2^m * 2^B
      BY PowerSum
    <3> QED BY <1>1, <1>3, <1>4, <2>3, <2>4, <2>5, <3>1, <3>2
  <2>7. n = S * g /\ N = S * ((g * p) * E)
    BY <1>1, <1>3, <2>2, <2>5, <2>6
  <2>8. (S * g) * (p * E) = S * ((g * p) * E) /\ S * g \in Nat /\ S * ((g * p) * E) \in Nat /\ p * E \in Nat /\ p * E >= 1
    <3>1. p * E \in Nat /\ p * E >= 1 /\ g * p \in Nat
      BY <1>4, <1>5
    <3>2. (g * p) * E = g * (p * E)
      BY <1>4, <1>5, <2>5
    <3>3. (S * g) * (p * E) = S * (g * (p * E)) /\ S * g \in Nat /\ S * (g * (p * E)) \in Nat
      BY <1>2, <2>5, <3>1
    <3> QED BY <3>1, <3>2, <3>3
  <2>9. N * 1 = N
    BY <2>7, <2>8
  <2> QED BY <1>4, <2>2, <2>7, <2>8, <2>9 DEF SameRatio
<1>7. CASE ~(k0 >= base + k)
  <2>1. PICK i \in Nat : i = (base + k) - k0
    BY <1>2, <1>7
  <2>2. n = S /\ d = 1 * 2^i
    BY <1>7, <2>1 DEF InUnitsOf
  <2>3. PICK g \in Nat : g = 2^i /\ g >= 1
    BY Powers
  <2>4. i + u = k + B
    BY <1>1, <1>2, <2>1
  <2>5. g * t = p * E
    <3>1. 2^(i + u) = 2^i * 2^u
      BY PowerSum
    <3>2. 2^(k + B) = 2^k * 2^B
      BY PowerSum
    <3> QED BY <1>1, <1>3, <1>4, <2>3, <2>4, <3>1, <3>2
  <2>6. d = g /\ S * (p * E) = (S * t) * g /\ p * E \in Nat /\ p * E >= 1 /\ S * t \in Nat
    <3>1. S * (g * t) = (S * t) * g
      BY <1>2, <1>3, <2>3
    <3> QED BY <1>2, <1>3, <1>4, <1>5, <2>2, <2>3, <2>5, <3>1
  <2> QED BY <1>1, <1>2, <1>3, <1>4, <2>2, <2>3, <2>6 DEF SameRatio
<1> QED BY <1>6, <1>7

(* The units of the reference, in those of the register.                    *)
LEMMA UnitsAt ==
  ASSUME NEW rm \in RoundingModes, NEW neg \in BOOLEAN,
         NEW base, NEW S, NEW k0, NEW N, NEW E, Scales(base, S, k0, N, E),
         NEW l, Leads(S, l), l <= 4 * (FRAC + BIAS), NEW k \in Nat
  PROVE  Reference!InUnits(rm, neg, S, 1, k0, base + k) = Reference!RoundQuotient(rm, neg, N, 2^k * E)
<1>1. PICK B \in Nat, u \in Nat : E = 2^B /\ N = S * 2^u /\ k0 = base - B + u
  BY DEF Scales
<1>2. S \in Nat /\ S >= 1 /\ k0 \in Int /\ base \in Int /\ l \in Nat /\ 2^l <= S /\ S < 2^(l + 1) /\ 2^l \in Nat /\ 2^(l + 1) \in Nat
  BY Powers DEF Scales, Leads
<1>3. Reference!Log2(S, 1) = l
  BY <1>2, LogWhole
<1>4. CASE ~(l + k0 < base + k - 1)
  <2>1. PICK q \in Int : q = base + k
    BY <1>2
  <2>2. PICK n, d : InUnitsOf(S, 1, k0, q, n, d)
    BY DEF InUnitsOf
  <2>3. SameRatio(n, d, N, 2^k * E)
    BY <2>1, <2>2, SameScale
  <2>4. ~(S > 0 /\ Reference!Log2(S, 1) + k0 < q - 1)
    <3>1. ~(l + k0 < q - 1)
      BY <1>2, <1>4, <2>1
    <3> QED BY <1>3, <3>1
  <2>5. Reference!InUnits(rm, neg, S, 1, k0, q) = Reference!RoundQuotient(rm, neg, n, d)
    BY <2>2, <2>4, UnitsRounded
  <2>6. Reference!RoundQuotient(rm, neg, n, d) = Reference!RoundQuotient(rm, neg, N, 2^k * E)
    BY <2>3, RatioRounds
  <2> QED BY <2>1, <2>5, <2>6
<1>5. CASE l + k0 < base + k - 1
  <2>2. Reference!InUnits(rm, neg, S, 1, k0, base + k) = Reference!RoundQuotient(rm, neg, 1, 4)
    <3>1. PICK q \in Int : q = base + k
      BY <1>2
    <3>2. l + k0 < q - 1
      BY <1>2, <1>5, <3>1
    <3>3. S > 0 /\ Reference!Log2(S, 1) + k0 < q - 1
      BY <1>2, <1>3, <3>2
    <3>4. Reference!InUnits(rm, neg, S, 1, k0, q) = Reference!RoundQuotient(rm, neg, 1, 4)
      BY <3>3 DEF Reference!InUnits
    <3> QED BY <3>1, <3>4
  <2>3. PICK m \in Nat : m = l + 1
    BY <1>2
  <2>4. PICK j \in Nat : j = m + u /\ j + 1 <= k + B
    <3>1. (m + u) + 1 <= k + B
      BY <1>1, <1>2, <1>5, <2>3
    <3> QED BY <2>3, <3>1
  <2>5. PICK t \in Nat : t = 2^u /\ t >= 1
    BY Powers
  <2>6. PICK f \in Nat : f = 2^m
    BY Powers
  <2>7. 2^j = f * t
    BY <2>3, <2>4, <2>5, <2>6, PowerSum
  <2>8. 2 * 2^j <= 2^(k + B) /\ 2^(k + B) = 2^k * E /\ 2^j \in Nat /\ 2^(k + B) \in Nat
    <3>1. PICK i \in Nat : i = k + B /\ j < i
      BY <2>4
    <3>2. 2 * 2^j <= 2^i /\ 2^i \in Nat
      BY <3>1, PowerOrder, Powers
    <3>3. 2^(k + B) = 2^k * 2^B
      BY PowerSum
    <3> QED BY <1>1, <3>1, <3>2, <3>3, Powers
  <2>9. N \in Nat /\ N >= 1 /\ N < 2^j
    <3>1. S * t \in Nat /\ S * t >= 1 /\ (S + 1) * t <= f * t /\ (S + 1) * t = S * t + t /\ f * t \in Nat
      <4>1. S + 1 <= f
        BY <1>2, <2>3, <2>6
      <4> QED BY <1>2, <2>5, <2>6, <4>1
    <3> QED BY <1>1, <2>5, <2>7, <3>1
  <2>10. PICK D \in Nat : D = 2^k * E /\ 2 * N < D
    BY <2>8, <2>9
  <2>11. Reference!RoundQuotient(rm, neg, N, D) = Reference!RoundQuotient(rm, neg, 1, 4)
    BY <2>9, <2>10, SmallRounds
  <2> QED BY <2>2, <2>10, <2>11
<1> QED BY <1>4, <1>5

(* Beyond the highest bit of the sum every position is like the first one.  *)
LEMMA UnitsBeyond ==
  ASSUME NEW rm \in RoundingModes, NEW neg \in BOOLEAN,
         NEW base, NEW S, NEW k0, NEW N, NEW E, Scales(base, S, k0, N, E),
         NEW l, Leads(S, l), l <= 4 * (FRAC + BIAS), NEW j \in Nat, 2 * N < 2^j * E, NEW k \in Nat, j <= k
  PROVE  Reference!InUnits(rm, neg, S, 1, k0, base + k) = Reference!RoundQuotient(rm, neg, N, 2^j * E)
<1>1. N \in Nat /\ N >= 1 /\ E \in Nat /\ E >= 1
  <2>1. PICK B \in Nat, u \in Nat : E = 2^B /\ N = S * 2^u
    BY DEF Scales
  <2>2. PICK t \in Nat : t = 2^u /\ t >= 1
    BY Powers
  <2>3. S \in Nat /\ S >= 1
    BY DEF Scales
  <2>4. S * t \in Nat /\ S * t >= 1
    BY <2>2, <2>3
  <2> QED BY <2>1, <2>2, <2>4, Powers
<1>2. PICK x \in Nat, y \in Nat : x = 2^j /\ y = 2^k /\ x <= y
  BY Powers, PowerOrder
<1>3. x * E <= y * E /\ x * E \in Nat /\ y * E \in Nat
  BY <1>1, <1>2
<1>4. PICK D \in Nat : D = 2^j * E /\ 2 * N < D
  BY <1>2, <1>3
<1>5. PICK G \in Nat : G = 2^k * E /\ 2 * N < G
  BY <1>1, <1>2, <1>3
<1>6. Reference!RoundQuotient(rm, neg, N, D) = Reference!RoundQuotient(rm, neg, N, G)
  <2>1. Reference!RoundQuotient(rm, neg, N, D) = Reference!RoundQuotient(rm, neg, 1, 4)
    BY <1>1, <1>4, SmallRounds
  <2>2. Reference!RoundQuotient(rm, neg, N, G) = Reference!RoundQuotient(rm, neg, 1, 4)
    BY <1>1, <1>5, SmallRounds
  <2> QED BY <2>1, <2>2
<1>7. Reference!InUnits(rm, neg, S, 1, k0, base + k) = Reference!RoundQuotient(rm, neg, N, G)
  BY <1>5, UnitsAt
<1> QED BY <1>4, <1>6, <1>7

(* Equal ratios have equal bounds.                                          *)
LEMMA RatioBounds ==
  ASSUME NEW n, NEW d, NEW N, NEW D, SameRatio(n, d, N, D), NEW c \in Nat
  PROVE  c * D <= N <=> c * d <= n
<1>1. n \in Nat /\ d \in Nat /\ d >= 1 /\ N \in Nat /\ D \in Nat /\ D >= 1 /\ n * D = N * d
  BY DEF SameRatio
<1>2. n \div d = N \div D
  BY RatioDivision
<1>3. (n \div d >= c <=> n >= d * c) /\ (N \div D >= c <=> N >= D * c)
  BY <1>1, Threshold
<1>4. d * c = c * d /\ D * c = c * D /\ d * c \in Nat /\ D * c \in Nat
  BY <1>1
<1> QED BY <1>1, <1>2, <1>3, <1>4

(* The rounded significand has FRAC + 1 bits, or one more.                  *)
LEMMA MantissaRange ==
  ASSUME NEW rm \in RoundingModes, NEW neg \in BOOLEAN, NEW N \in Nat, NEW D \in Nat, D >= 1,
         ONE * D <= N, N < (2 * ONE) * D
  PROVE  LET m == Reference!RoundQuotient(rm, neg, N, D)
         IN  m \in ONE..2 * ONE /\ m \div (2 * ONE) = (IF m = 2 * ONE THEN 1 ELSE 0)
<1> DEFINE m == Reference!RoundQuotient(rm, neg, N, D)
<1>1. ONE \in Nat /\ ONE >= 8
  BY Formats
<1>2. N \div D \in Nat /\ m \in {N \div D, N \div D + 1}
  BY RoundNeighbour
<1>3. N \div D >= ONE /\ ~(N \div D >= 2 * ONE)
  <2>1. N >= D * ONE /\ ~(N >= D * (2 * ONE))
    BY <1>1
  <2>2. (N \div D >= ONE <=> N >= D * ONE) /\ (N \div D >= 2 * ONE <=> N >= D * (2 * ONE))
    BY <1>1, Threshold
  <2> QED BY <2>1, <2>2
<1> HIDE DEF m
<1>4. m \in ONE..2 * ONE
  BY <1>1, <1>2, <1>3
<1>5. CASE m = 2 * ONE
  <2>1. Division(m, 2 * ONE, 1, 0)
    BY <1>1, <1>5 DEF Division
  <2> QED BY <1>4, <1>5, <2>1, DivisionIs DEF m
<1>6. CASE m # 2 * ONE
  <2>1. Division(m, 2 * ONE, 0, m)
    BY <1>1, <1>4, <1>6 DEF Division
  <2> QED BY <1>4, <1>6, <2>1, DivisionIs DEF m
<1> QED BY <1>5, <1>6

(* A little less than c is rounded to c by the nearest modes.               *)
LEMMA JustBelow ==
  ASSUME NEW rm \in {"RNE", "RMM"}, NEW neg \in BOOLEAN, NEW D \in Nat, NEW v \in Nat, v >= 1, 2 * v < D,
         NEW c \in Nat, c >= 1, NEW N, N = c * D - v
  PROVE  N \in Nat /\ Reference!RoundQuotient(rm, neg, N, D) = c /\ N % D # 0
<1>1. Division(N, D, c - 1, D - v)
  <2>1. c * D = D * (c - 1) + D
    OBVIOUS
  <2>2. D * (c - 1) \in Nat
    OBVIOUS
  <2> DEFINE y == D * (c - 1)
  <2>3. N = y + (D - v)
    BY <2>1, <2>2
  <2> QED BY <2>3 DEF Division
<1>2. N \div D = c - 1 /\ N % D = D - v
  BY <1>1, DivisionIs
<1>3. N \in Nat
  BY <1>1 DEF Division
<1>4. 2 * (D - v) > D /\ 2 * (D - v) >= D /\ c - 1 + 1 = c
  OBVIOUS
<1>5. Reference!RoundQuotient(rm, neg, N, D) = c
  <2>1. CASE rm = "RNE"
    BY <1>2, <1>4, <2>1 DEF Reference!RoundQuotient
  <2>2. CASE rm = "RMM"
    BY <1>2, <1>4, <2>2 DEF Reference!RoundQuotient
  <2> QED BY <2>1, <2>2
<1> QED BY <1>2, <1>3, <1>5

(* The lesser of two.                                                       *)
LEMMA MinTwo ==
  ASSUME NEW a \in Int, NEW b \in Int
  PROVE  Min({a, b}) = IF a <= b THEN a ELSE b
<1>1. Min({a, b}) = CHOOSE x \in {a, b} : \A y \in {a, b} : x <= y
  BY DEF Min
<1>2. CASE a <= b
  <2>1. \A x \in {a, b} : (\A y \in {a, b} : x <= y) => x = a
    BY <1>2
  <2>2. \A y \in {a, b} : a <= y
    BY <1>2
  <2> QED BY <1>1, <1>2, <2>1, <2>2
<1>3. CASE ~(a <= b)
  <2>1. \A x \in {a, b} : (\A y \in {a, b} : x <= y) => x = b
    BY <1>3
  <2>2. \A y \in {a, b} : b <= y
    BY <1>3
  <2> QED BY <1>1, <1>3, <2>1, <2>2
<1> QED BY <1>2, <1>3

(* What the reference says of a number below 2^EMIN.                        *)
LEMMA GridPacked ==
  ASSUME NEW rm \in RoundingModes, NEW neg \in BOOLEAN, NEW S, NEW k0, NEW e \in Int,
         Reference!Log2(S, 1) + k0 = e, e < EMIN,
         NEW N \in Nat, NEW G \in Nat, G >= 1, N < ONE * G,
         \A r \in RoundingModes, s \in BOOLEAN :
           Reference!InUnits(r, s, S, 1, k0, EMIN - FRAC) = Reference!RoundQuotient(r, s, N, G),
         NEW mn, mn = Reference!InUnits(rm, neg, S, 1, k0, e - FRAC)
  PROVE  LET m == Reference!RoundQuotient(rm, neg, N, G)
         IN  Reference!Rounded(rm, neg, S, 1, k0) =
               Answer(Subnormal(neg, m),
                      Raise("NX", N % G # 0) \cup Raise("UF", N % G # 0 /\ ~(e = EMIN - 1 /\ mn = 2 * ONE)))
<1> DEFINE q == EMIN - FRAC
           M(r, s) == Reference!InUnits(r, s, S, 1, k0, q)
           m == M(rm, neg)
           whole == m = M("RTZ", FALSE) /\ m = M("RUP", FALSE)
           exact == Reference!Rounded(rm, neg, S, 1, k0)
           tiny == e < EMIN /\ ~(e = EMIN - 1 /\ Reference!InUnits(rm, neg, S, 1, k0, e - FRAC) = 2 * ONE)
           ex == q + FRAC + m \div (2 * ONE)
           value == IF m < ONE THEN Float(neg, 0, m)
                    ELSE Float(neg, ex + BIAS, IF m = 2 * ONE THEN 0 ELSE m - ONE)
<1>1. /\ FRAC \in Nat /\ FRAC >= 3 /\ BIAS \in Nat /\ BIAS > FRAC /\ ONE \in Nat /\ ONE >= 8
      /\ EMIN = 1 - BIAS /\ EMAX = BIAS
  BY Formats DEF EMIN, EMAX
<1>2. exact = IF ex > EMAX
              THEN LET towards_inf == CASE rm \in {"RNE", "RMM"} -> TRUE [] rm = "RTZ" -> FALSE
                                        [] rm = "RDN" -> neg [] rm = "RUP" -> ~neg
                   IN  Answer(IF towards_inf THEN Inf(neg) ELSE MaxFinite(neg), {"OF", "NX"})
              ELSE Answer(value, IF whole THEN {} ELSE IF tiny THEN {"NX", "UF"} ELSE {"NX"})
  <2>1. (IF Reference!Log2(S, 1) + k0 < EMIN THEN EMIN ELSE Reference!Log2(S, 1) + k0) - FRAC = q
    BY <1>1
  <2> QED BY <1>1, <2>1, ReferenceFormat DEF Reference!Rounded
<1>3. M("RTZ", FALSE) = Reference!RoundQuotient("RTZ", FALSE, N, G)
      /\ M("RUP", FALSE) = Reference!RoundQuotient("RUP", FALSE, N, G)
      /\ m = Reference!RoundQuotient(rm, neg, N, G)
  BY DEF RoundingModes
<1> HIDE DEF M, exact
<1>4. /\ N \div G \in Nat /\ m \in {N \div G, N \div G + 1}
      /\ N % G = 0 <=> whole
  <2> DEFINE Q(r, s) == Reference!RoundQuotient(r, s, N, G)
  <2>1. /\ N \div G \in Nat /\ Q(rm, neg) \in {N \div G, N \div G + 1}
        /\ N % G = 0 <=> Q(rm, neg) = Q("RTZ", FALSE) /\ Q(rm, neg) = Q("RUP", FALSE)
    BY RoundNeighbour
  <2>2. M("RTZ", FALSE) = Q("RTZ", FALSE) /\ M("RUP", FALSE) = Q("RUP", FALSE) /\ M(rm, neg) = Q(rm, neg)
    BY <1>3
  <2> HIDE DEF Q
  <2> QED BY <2>1, <2>2
<1>5. m \in 0..ONE
  <2>1. ~(N \div G >= ONE)
    <3>1. ~(N >= G * ONE)
      BY <1>1
    <3>2. N \div G >= ONE <=> N >= G * ONE
      BY <1>1, Threshold
    <3> QED BY <3>1, <3>2
  <2> HIDE DEF m
  <2> QED BY <1>1, <1>4, <2>1
<1> HIDE DEF m, whole
<1>6. ex = EMIN /\ ~(ex > EMAX)
  <2>1. Division(m, 2 * ONE, 0, m)
    BY <1>1, <1>5 DEF Division
  <2> QED BY <1>1, <2>1, DivisionIs
<1>7. Subnormal(neg, m) = value
  <2>1. 2^FRAC = ONE
    BY DEF ONE
  <2>2. CASE m = ONE
    <3>1. Division(m, ONE, 1, 0)
      BY <1>1, <2>2 DEF Division
    <3>2. Odd(1)
      BY DEF Odd
    <3>3. Bit(m, FRAC) /\ m % ONE = 0
      BY <2>1, <3>1, <3>2, DivisionIs DEF Bit
    <3>4. ex + BIAS = 1 /\ m - ONE = 0 /\ ~(m < ONE) /\ m # 2 * ONE
      BY <1>1, <1>6, <2>2
    <3> HIDE DEF ex
    <3> QED BY <3>3, <3>4 DEF Subnormal
  <2>3. CASE m # ONE
    <3>1. m < ONE /\ Division(m, ONE, 0, m)
      BY <1>1, <1>5, <2>3 DEF Division
    <3>2. ~Odd(0)
      BY DEF Odd
    <3>3. ~Bit(m, FRAC) /\ m % ONE = m
      BY <2>1, <3>1, <3>2, DivisionIs DEF Bit
    <3> QED BY <3>1, <3>3 DEF Subnormal
  <2> QED BY <2>2, <2>3
<1>8. PICK lost \in BOOLEAN : lost <=> N % G # 0
  OBVIOUS
<1>9. tiny <=> ~(e = EMIN - 1 /\ mn = 2 * ONE)
  OBVIOUS
<1> HIDE DEF tiny, ex, value
<1>10. Raise("NX", N % G # 0) \cup Raise("UF", N % G # 0 /\ ~(e = EMIN - 1 /\ mn = 2 * ONE))
         = IF whole THEN {} ELSE IF tiny THEN {"NX", "UF"} ELSE {"NX"}
  <2>1. CASE lost
    BY <1>4, <1>8, <1>9, <2>1 DEF Raise
  <2>2. CASE ~lost
    BY <1>4, <1>8, <2>2 DEF Raise
  <2> QED BY <2>1, <2>2
<1>11. exact = Answer(value, IF whole THEN {} ELSE IF tiny THEN {"NX", "UF"} ELSE {"NX"})
  BY <1>2, <1>6
<1> QED BY <1>3, <1>7, <1>10, <1>11 DEF exact

(* Where finite_final cuts a sum whose leading bit is in place top.         *)
Grid(p2) == Min({EMIN - FRAC - p2.base, FULL})
Needed(p2, top, k) == k = top - FRAC \/ (p2.base + top < EMIN /\ k = Grid(p2))

(* The leading bit of N / E is one place below that of the sum.             *)
Drops(p2, N, E, top) ==
  /\ p2.full = 2^top /\ p2.rm \in {"RNE", "RMM"}
  /\ \E v \in Nat : v >= 1 /\ v < E /\ N = p2.full * E - v

(* The registers hold a sum that stands for N / E.                          *)
SumOf(p2, N, E) ==
  /\ SumOK(p2) /\ p2.base \in Int /\ E \in Nat /\ E >= 1
  /\ p2.full >= 8 * ONE /\ p2.full < 2^(FULL - 1)
  /\ \A top, k : Leads(p2.full, top) /\ Needed(p2, top, k) => CutIs(p2, N, E, k)
  /\ \A top : Leads(p2.full, top) => Leading(N, E, top) \/ Drops(p2, N, E, top)

(* The cuts and what they are of.                                           *)
CutAt(p2, top, N, E, k, D) ==
  /\ k \in Nat /\ k >= 3 /\ D \in Nat /\ D >= 1 /\ D = 2^k * E
  /\ Cut(p2, k).mag = Reference!RoundQuotient(p2.rm, p2.acc_sign, N, D)
  /\ Cut(p2, k).inexact <=> N % D # 0

Placed(p2, top) ==
  /\ top \in Nat /\ top >= FRAC + 3 /\ top + 2 <= FULL
  /\ Msb(p2.full) = top

(* The place the normaliser finds.                                          *)
LEMMA HasPlace ==
  ASSUME NEW p2, NEW N, NEW E, SumOf(p2, N, E)
  PROVE  \E top : Placed(p2, top) /\ Leads(p2.full, top)
<1>1. p2.full \in Nat /\ p2.full >= 8 * ONE /\ p2.full < 2^(FULL - 1)
  BY DEF SumOf, SumOK
<1>2. FRAC \in Nat /\ FRAC >= 3 /\ ONE \in Nat /\ ONE >= 8 /\ FULL = 4 * FRAC + 9 /\ BIAS \in Nat /\ BIAS > FRAC
  BY Window, Formats
<1>3. PICK b \in Nat : b = FULL - 1
  BY <1>2
<1>4. PICK top \in 0..b - 1 : 2^top <= p2.full /\ p2.full < 2^(top + 1)
  <2>1. p2.full < 2^b /\ p2.full >= 1
    BY <1>1, <1>2, <1>3
  <2> QED BY <1>1, <2>1, HasLeadingBit
<1>5. top \in Nat /\ top + 2 <= FULL /\ top <= 4 * (FRAC + BIAS)
  BY <1>2, <1>3
<1>6. Msb(p2.full) = top
  BY <1>1, <1>4, <1>5, LeadingBit
<1>7. Leads(p2.full, top)
  BY <1>4, <1>5 DEF Leads
<1>8. top >= FRAC + 3
  BY <1>1, <1>7, SumTop
<1> QED BY <1>5, <1>6, <1>7, <1>8 DEF Placed

(* The shift onto the subnormal grid.                                       *)
LEMMA GridPlace ==
  ASSUME NEW p2, p2.base \in Int, NEW top, Placed(p2, top), p2.base + top < EMIN
  PROVE  /\ Grid(p2) \in Nat /\ Grid(p2) >= 3 /\ Grid(p2) + FRAC >= top + 1
         /\ Grid(p2) = EMIN - FRAC - p2.base \/ (Grid(p2) = FULL /\ FULL <= EMIN - FRAC - p2.base)
<1>1. /\ FRAC \in Nat /\ FRAC >= 3 /\ FULL = 4 * FRAC + 9 /\ FULL \in Nat /\ EMIN \in Int
  BY Window, Formats DEF EMIN
<1>2. top \in Nat /\ top >= FRAC + 3 /\ top + 2 <= FULL
  BY DEF Placed
<1>3. PICK g \in Int : g = EMIN - FRAC - p2.base
  BY <1>1
<1>4. Grid(p2) = IF g <= FULL THEN g ELSE FULL
  BY <1>1, <1>3, MinTwo DEF Grid
<1>5. g + FRAC >= top + 1 /\ g >= 3
  BY <1>1, <1>2, <1>3
<1> QED BY <1>1, <1>2, <1>3, <1>4, <1>5

(* The cut the rounding is made at.                                         *)
LEMMA HasCut ==
  ASSUME NEW p2, NEW N, NEW E, SumOf(p2, N, E), NEW top, Leads(p2.full, top),
         NEW k \in Nat, k >= 3, Needed(p2, top, k)
  PROVE  \E D : CutAt(p2, top, N, E, k, D)
<1>1. CutIs(p2, N, E, k)
  BY DEF SumOf
<1>2. PICK p \in Nat : p = 2^k /\ p >= 1
  BY Powers
<1>3. E \in Nat /\ E >= 1
  BY DEF SumOf
<1>4. p * E \in Nat /\ p * E >= 1
  BY <1>2, <1>3
<1>5. PICK D \in Nat : D = 2^k * E /\ D >= 1
  BY <1>2, <1>4
<1> QED BY <1>1, <1>5 DEF CutAt, CutIs

(* What is packed of the cuts.                                              *)
LEMMA FinalIs ==
  ASSUME NEW p2, NEW top, Placed(p2, top), p2.full # 0
  PROVE  finite_final(p2) =
           LET x    == p2.base + top
               norm == Cut(p2, top - FRAC)
               exp  == x + norm.mag \div (2 * ONE)
               sub  == Cut(p2, Grid(p2))
           IN  IF x < EMIN
               THEN Answer(Subnormal(p2.acc_sign, sub.mag),
                           Raise("NX", sub.inexact) \cup Raise("UF", sub.inexact /\ exp < EMIN))
               ELSE IF exp > EMAX THEN Overflowed(p2.rm, p2.acc_sign)
               ELSE Answer(Float(p2.acc_sign, exp + BIAS, norm.mag % ONE), Raise("NX", norm.inexact))
<1>1. Msb(p2.full) = top
  BY DEF Placed
<1> QED BY <1>1 DEF finite_final, Grid

(* The number below 2^EMIN: both roundings of the reference are cuts.       *)
BelowNormal(p2, e, mn) ==
  LET sub == Cut(p2, Grid(p2))
  IN  Answer(Subnormal(p2.acc_sign, sub.mag),
             Raise("NX", sub.inexact) \cup Raise("UF", sub.inexact /\ ~(e = EMIN - 1 /\ mn = 2 * ONE)))

(* A sum below the normal range is rounded on the subnormal grid.           *)
LEMMA SubnormalSum ==
  ASSUME NEW p2, NEW N, NEW E, SumOf(p2, N, E), NEW top, Placed(p2, top), Leads(p2.full, top),
         NEW S, NEW k0, Scales(p2.base, S, k0, N, E), NEW l, Leads(S, l), l <= 4 * (FRAC + BIAS),
         p2.base + top < EMIN, NEW e \in Int, l + k0 = e, e <= p2.base + top,
         N < 2^(top + 1) * E,
         NEW mn, mn = Reference!InUnits(p2.rm, p2.acc_sign, S, 1, k0, e - FRAC)
  PROVE  Reference!Rounded(p2.rm, p2.acc_sign, S, 1, k0) = BelowNormal(p2, e, mn)
<1> DEFINE rm == p2.rm
           neg == p2.acc_sign
           base == p2.base
           g == Grid(p2)
<1>1. rm \in RoundingModes /\ neg \in BOOLEAN /\ base \in Int /\ E \in Nat /\ E >= 1
  BY DEF SumOf, SumOK
<1>2. /\ FRAC \in Nat /\ FRAC >= 3 /\ BIAS \in Nat /\ ONE \in Nat /\ ONE >= 8 /\ EMIN = 1 - BIAS /\ EMIN \in Int
      /\ FULL \in Nat /\ top \in Nat /\ top + 2 <= FULL
  BY Window, Formats DEF EMIN, Placed
<1>3. /\ g \in Nat /\ g >= 3 /\ g + FRAC >= top + 1
      /\ g = EMIN - FRAC - base \/ (g = FULL /\ FULL <= EMIN - FRAC - base)
  BY <1>1, GridPlace
<1>4. PICK D : CutAt(p2, top, N, E, g, D)
  <2>1. Needed(p2, top, g)
    BY DEF Needed
  <2> QED BY <1>3, <2>1, HasCut
<1> HIDE DEF rm, neg, base, g
<1>5. /\ D \in Nat /\ D >= 1 /\ D = 2^g * E
      /\ Cut(p2, g).mag = Reference!RoundQuotient(rm, neg, N, D)
      /\ Cut(p2, g).inexact <=> N % D # 0
  BY <1>4 DEF CutAt, rm, neg
<1>6. N \in Nat
  <2>1. PICK u \in Nat : N = S * 2^u
    BY DEF Scales
  <2> QED BY <2>1, Powers DEF Scales
<1>7. N < ONE * D
  <2>1. PICK p \in Nat : p = 2^g
    BY <1>3, Powers
  <2>2. PICK t \in Nat, f \in Nat : t = top + 1 /\ f = g + FRAC
    BY <1>2, <1>3
  <2>3. 2^t <= 2^f /\ 2^f = p * ONE /\ 2^t \in Nat
    <3>1. 2^(g + FRAC) = 2^g * 2^FRAC
      BY <1>2, <1>3, PowerSum
    <3>2. 2^t <= 2^f
      BY <1>3, <2>2, PowerOrder
    <3>3. 2^FRAC = ONE
      BY DEF ONE
    <3> QED BY <2>1, <2>2, <3>1, <3>2, <3>3, Powers
  <2>4. PICK y \in Nat : y = 2^t
    BY <2>3
  <2>5. y * E <= (p * ONE) * E /\ y * E \in Nat /\ (p * ONE) * E \in Nat
    BY <1>1, <1>2, <2>1, <2>3, <2>4
  <2>6. (p * ONE) * E = ONE * D
    BY <1>1, <1>2, <1>5, <2>1
  <2>7. N < y * E
    BY <2>2, <2>4
  <2> QED BY <1>6, <2>5, <2>6, <2>7
<1>8. ASSUME NEW r \in RoundingModes, NEW s \in BOOLEAN
      PROVE  Reference!InUnits(r, s, S, 1, k0, EMIN - FRAC) = Reference!RoundQuotient(r, s, N, D)
  <2>1. PICK k \in Nat : k = EMIN - FRAC - base /\ g <= k
    BY <1>1, <1>2, <1>3
  <2>2. base + k = EMIN - FRAC
    BY <1>1, <1>2, <2>1
  <2>3. CASE g = k
    <3>1. Reference!InUnits(r, s, S, 1, k0, base + k) = Reference!RoundQuotient(r, s, N, 2^k * E)
      BY <1>8, UnitsAt DEF base
    <3> QED BY <1>5, <2>2, <2>3, <3>1
  <2>4. CASE g # k
    <3>1. g = FULL
      BY <1>3, <2>1, <2>4
    <3>2. 2 * N < 2^g * E
      <4>1. PICK t \in Nat : t = top + 1 /\ t < g
        BY <1>2, <3>1
      <4>2. PICK y \in Nat, z \in Nat : y = 2^t /\ z = 2^g /\ 2 * y <= z
        BY <1>3, <4>1, PowerOrder, Powers
      <4>3. (2 * y) * E <= z * E /\ (2 * y) * E = 2 * (y * E) /\ y * E \in Nat /\ z * E \in Nat
        BY <1>1, <4>2
      <4>4. N < y * E
        BY <4>1, <4>2
      <4> QED BY <1>6, <4>2, <4>3, <4>4
    <3>3. Reference!InUnits(r, s, S, 1, k0, base + k) = Reference!RoundQuotient(r, s, N, 2^g * E)
      BY <1>3, <1>8, <2>1, <3>2, UnitsBeyond DEF base
    <3> QED BY <1>5, <2>2, <3>3
  <2> QED BY <2>3, <2>4
<1>9. Reference!Log2(S, 1) + k0 = e /\ e < EMIN
  <2>1. Reference!Log2(S, 1) = l
    BY LogWhole DEF Leads, Scales
  <2> QED BY <1>1, <1>2, <2>1 DEF base
<1>10. mn = Reference!InUnits(rm, neg, S, 1, k0, e - FRAC)
  BY DEF rm, neg
<1>11. Reference!Rounded(rm, neg, S, 1, k0) =
         LET m == Reference!RoundQuotient(rm, neg, N, D)
         IN  Answer(Subnormal(neg, m),
                    Raise("NX", N % D # 0) \cup Raise("UF", N % D # 0 /\ ~(e = EMIN - 1 /\ mn = 2 * ONE)))
  BY <1>1, <1>5, <1>6, <1>7, <1>8, <1>9, <1>10, GridPacked
<1>12. PICK lost \in BOOLEAN : lost = (N % D # 0)
  OBVIOUS
<1>13. Raise("NX", Cut(p2, g).inexact) = Raise("NX", lost)
       /\ Raise("UF", Cut(p2, g).inexact /\ ~(e = EMIN - 1 /\ mn = 2 * ONE)) = Raise("UF", lost /\ ~(e = EMIN - 1 /\ mn = 2 * ONE))
  BY <1>5, <1>12 DEF Raise
<1> QED BY <1>5, <1>11, <1>12, <1>13 DEF rm, neg, g, BelowNormal

(* The cut of a normal sum.                                                 *)
LEMMA NormalPowers ==
  ASSUME NEW top \in Nat, top >= FRAC + 3, NEW E \in Nat, E >= 1
  PROVE  LET k == top - FRAC
         IN  /\ k \in Nat /\ k >= 3 /\ k - 1 \in Nat
             /\ 2^top * E = ONE * (2^k * E) /\ 2^(top + 1) * E = (2 * ONE) * (2^k * E)
             /\ 2^k * E = 2 * (2^(k - 1) * E) /\ 2^(k - 1) * E \in Nat /\ 2^(k - 1) * E >= 4 * E
<1>1. FRAC \in Nat /\ FRAC >= 3 /\ ONE \in Nat /\ ONE >= 8 /\ 2^FRAC = ONE
  BY Formats DEF ONE
<1>2. PICK k \in Nat : k = top - FRAC /\ k >= 3
  BY <1>1
<1>3. PICK j \in Nat : j = k - 1 /\ j + 1 = k /\ 2 <= j
  BY <1>2
<1>4. PICK p \in Nat : p = 2^j /\ p >= 4
  <2>1. 2^2 <= 2^j
    BY <1>3, PowerOrder
  <2>2. 2^2 = 4
    OBVIOUS
  <2> QED BY <2>1, <2>2, Powers
<1>5. 2^k = 2 * p
  BY <1>3, <1>4, Powers
<1>6. 2^top = (2 * p) * ONE /\ 2^(top + 1) = 2 * 2^top
  <2>1. 2^(k + FRAC) = 2^k * 2^FRAC
    BY <1>1, PowerSum
  <2>2. k + FRAC = top
    BY <1>1, <1>2
  <2> QED BY <1>1, <1>5, <2>1, <2>2, Powers
<1>7. /\ ((2 * p) * ONE) * E = ONE * ((2 * p) * E)
      /\ (2 * ((2 * p) * ONE)) * E = (2 * ONE) * ((2 * p) * E)
      /\ (2 * p) * E = 2 * (p * E) /\ p * E \in Nat /\ p * E >= 4 * E
  BY <1>1, <1>4
<1> QED BY <1>2, <1>3, <1>4, <1>5, <1>6, <1>7

(* The leading bit is that of the exact number.                             *)
LEMMA LeadingRounds ==
  ASSUME NEW p2, NEW N, NEW E, SumOf(p2, N, E), NEW top, Placed(p2, top), Leads(p2.full, top),
         NEW S, NEW k0, Scales(p2.base, S, k0, N, E), NEW l, Leads(S, l), l <= 4 * (FRAC + BIAS),
         Leading(N, E, top)
  PROVE  finite_final(p2) = Reference!Rounded(p2.rm, p2.acc_sign, S, 1, k0)
<1> DEFINE rm == p2.rm
           neg == p2.acc_sign
           base == p2.base
           k == top - FRAC
           x == base + top
           D == 2^k * E
           mn == Reference!RoundQuotient(rm, neg, N, D)
           up == IF mn = 2 * ONE THEN 1 ELSE 0
           norm == Cut(p2, k)
           sub == Cut(p2, Grid(p2))
           final == finite_final(p2)
           exact == Reference!Rounded(rm, neg, S, 1, k0)
<1>1. rm \in RoundingModes /\ neg \in BOOLEAN /\ base \in Int /\ E \in Nat /\ E >= 1 /\ p2.full # 0
  <2>1. p2.full >= 8 * ONE /\ ONE \in Nat /\ ONE >= 8
    BY Formats DEF SumOf
  <2> QED BY <2>1 DEF SumOf, SumOK
<1>2. /\ FRAC \in Nat /\ FRAC >= 3 /\ BIAS \in Nat /\ ONE \in Nat /\ ONE >= 8 /\ EMIN = 1 - BIAS /\ EMIN \in Int
      /\ top \in Nat /\ top >= FRAC + 3 /\ x \in Int
  BY <1>1, Window, Formats DEF EMIN, Placed
<1>3. k \in Nat /\ k >= 3 /\ D \in Nat /\ D >= 1 /\ ONE * D <= N /\ N < (2 * ONE) * D
  <2>1. /\ k \in Nat /\ k >= 3
        /\ 2^top * E = ONE * (2^k * E) /\ 2^(top + 1) * E = (2 * ONE) * (2^k * E)
    BY <1>1, <1>2, NormalPowers
  <2>2. PICK p \in Nat : p = 2^k /\ p >= 1
    BY <2>1, Powers
  <2>3. p * E \in Nat /\ p * E >= 1
    BY <1>1, <2>2
  <2> HIDE DEF k
  <2> QED BY <2>1, <2>2, <2>3 DEF Leading
<1>4. N \in Nat
  <2>1. PICK u \in Nat : N = S * 2^u
    BY DEF Scales
  <2> QED BY <2>1, Powers DEF Scales
<1>5. norm.mag = mn /\ (norm.inexact <=> N % D # 0)
  <2>1. Needed(p2, top, k)
    BY DEF Needed
  <2>2. CutIs(p2, N, E, k)
    BY <2>1 DEF SumOf
  <2> QED BY <2>2 DEF CutIs
<1> HIDE DEF rm, neg, base, k, D, x
<1>6. mn \in ONE..2 * ONE /\ mn \div (2 * ONE) = up
  BY <1>1, <1>3, <1>4, MantissaRange
<1>7. l + k0 = x /\ Reference!Log2(S, 1) = l /\ k0 \in Int /\ l \in Nat
  <2>1. l + k0 = x
    BY <1>2, ScaledTop DEF x, base
  <2>2. Reference!Log2(S, 1) = l
    BY LogWhole DEF Leads, Scales
  <2> QED BY <2>1, <2>2 DEF Scales, Leads
<1>8. Reference!InUnits(rm, neg, S, 1, k0, x - FRAC) = mn /\ x - FRAC = base + k
  <2>1. x - FRAC = base + k
    BY <1>1, <1>2 DEF x, k
  <2>2. Reference!InUnits(rm, neg, S, 1, k0, base + k) = Reference!RoundQuotient(rm, neg, N, 2^k * E)
    BY <1>1, <1>3, UnitsAt DEF base
  <2> QED BY <2>1, <2>2 DEF D
<1>9. final = IF x < EMIN
              THEN Answer(Subnormal(neg, sub.mag), Raise("NX", sub.inexact) \cup Raise("UF", sub.inexact /\ x + up < EMIN))
              ELSE IF x + up > EMAX THEN Overflowed(rm, neg)
              ELSE Answer(Float(neg, x + up + BIAS, mn % ONE), Raise("NX", norm.inexact))
  <2>1. final =
           LET exp  == x + norm.mag \div (2 * ONE)
           IN  IF x < EMIN
               THEN Answer(Subnormal(neg, sub.mag),
                           Raise("NX", sub.inexact) \cup Raise("UF", sub.inexact /\ exp < EMIN))
               ELSE IF exp > EMAX THEN Overflowed(rm, neg)
               ELSE Answer(Float(neg, exp + BIAS, norm.mag % ONE), Raise("NX", norm.inexact))
    BY <1>1, FinalIs DEF x, base, k, rm, neg
  <2> HIDE DEF final, norm, sub, mn, up
  <2> QED BY <1>5, <1>6, <2>1
<1> HIDE DEF final, exact, norm, sub
<1>10. CASE EMIN <= x
  <2>1. PICK n, d : InUnitsOf(S, 1, k0, base + k, n, d)
    BY DEF InUnitsOf
  <2>2. SameRatio(n, d, N, D)
    BY <1>3, <2>1, SameScale DEF base, D
  <2>3. n \in Nat /\ d \in Nat /\ d >= 1
    BY <2>2 DEF SameRatio
  <2>4. ONE * d <= n /\ n < (2 * ONE) * d
    <3>1. PICK t \in Nat : t = 2 * ONE
      BY <1>2
    <3>2. (ONE * D <= N <=> ONE * d <= n) /\ (t * D <= N <=> t * d <= n)
      BY <1>2, <2>2, RatioBounds
    <3>3. t * D \in Nat /\ t * d \in Nat
      BY <1>3, <2>3
    <3> QED BY <1>3, <1>4, <2>3, <3>1, <3>2, <3>3
  <2>5. Reference!RoundQuotient(rm, neg, n, d) = mn /\ (n % d = 0 <=> N % D = 0)
    BY <1>1, <2>2, RatioRounds
  <2>6. InUnitsOf(S, 1, k0, x - FRAC, n, d)
    BY <1>8, <2>1
  <2>7. exact = LET m == Reference!RoundQuotient(rm, neg, n, d)
                    u == IF m = 2 * ONE THEN 1 ELSE 0
                IN  IF x + u > EMAX THEN Overflowed(rm, neg)
                    ELSE Answer(Float(neg, x + u + BIAS, m % ONE), IF n % d = 0 THEN {} ELSE {"NX"})
    <3>1. Reference!Log2(S, 1) + k0 = x /\ x \in Int /\ EMIN <= x
      BY <1>2, <1>7, <1>10
    <3>2. Reference!Rounded(rm, neg, S, 1, k0) =
            LET m == Reference!RoundQuotient(rm, neg, n, d)
                u == IF m = 2 * ONE THEN 1 ELSE 0
            IN  IF x + u > EMAX THEN Overflowed(rm, neg)
                ELSE Answer(Float(neg, x + u + BIAS, m % ONE), IF n % d = 0 THEN {} ELSE {"NX"})
      BY <1>1, <2>3, <2>4, <2>6, <3>1, RoundsNormally
    <3> QED BY <3>2 DEF exact
  <2> HIDE DEF mn
  <2>8. exact = IF x + up > EMAX THEN Overflowed(rm, neg)
                ELSE Answer(Float(neg, x + up + BIAS, mn % ONE), IF N % D = 0 THEN {} ELSE {"NX"})
    BY <2>5, <2>7
  <2>9. Raise("NX", norm.inexact) = IF N % D = 0 THEN {} ELSE {"NX"}
    BY <1>5 DEF Raise
  <2>10. ~(x < EMIN)
    BY <1>2, <1>10
  <2> HIDE DEF up
  <2> QED BY <1>9, <2>8, <2>9, <2>10 DEF final, exact, rm, neg
<1>11. CASE ~(EMIN <= x)
  <2>1. x < EMIN
    BY <1>2, <1>11
  <2>2. exact = Answer(Subnormal(neg, sub.mag),
                       Raise("NX", sub.inexact) \cup Raise("UF", sub.inexact /\ ~(x = EMIN - 1 /\ mn = 2 * ONE)))
    <3>1. N < 2^(top + 1) * E
      BY DEF Leading
    <3>2. PICK e \in Int : e = x
      BY <1>2
    <3>3. l + k0 = e /\ e <= p2.base + top /\ p2.base + top < EMIN
      BY <1>2, <1>7, <2>1, <3>2 DEF x, base
    <3>4. mn = Reference!InUnits(p2.rm, p2.acc_sign, S, 1, k0, e - FRAC)
      BY <1>8, <3>2 DEF rm, neg
    <3> HIDE DEF mn
    <3>5. Reference!Rounded(p2.rm, p2.acc_sign, S, 1, k0) = BelowNormal(p2, e, mn)
      BY <3>1, <3>3, <3>4, SubnormalSum
    <3> QED BY <3>2, <3>5 DEF exact, sub, rm, neg, BelowNormal
  <2>3. ~(x = EMIN - 1 /\ mn = 2 * ONE) <=> x + up < EMIN
    <3> HIDE DEF mn
    <3> QED BY <1>2, <2>1
  <2>4. Raise("UF", sub.inexact /\ ~(x = EMIN - 1 /\ mn = 2 * ONE)) = Raise("UF", sub.inexact /\ x + up < EMIN)
    <3> HIDE DEF mn, up
    <3> QED BY <2>3 DEF Raise
  <2> HIDE DEF mn, up
  <2> QED BY <1>9, <2>1, <2>2, <2>4 DEF final, exact, rm, neg
<1> QED BY <1>10, <1>11 DEF final, exact, rm, neg

(* A borrow from a power of 2 moves the leading bit.                        *)
LEMMA DroppedLeading ==
  ASSUME NEW top \in Nat, top >= 1, NEW E \in Nat, NEW v \in Nat, v >= 1, v < E,
         NEW N, N = 2^top * E - v
  PROVE  N \in Nat /\ Leading(N, E, top - 1) /\ N < 2^top * E
<1>1. PICK j \in Nat : j = top - 1 /\ j + 1 = top
  OBVIOUS
<1>2. PICK p \in Nat : p = 2^j /\ p >= 1 /\ 2^top = 2 * p
  BY <1>1, Powers
<1>3. p * E \in Nat /\ p * E >= E /\ (2 * p) * E = 2 * (p * E)
  BY <1>2
<1> DEFINE pe == p * E
<1>4. N = 2 * pe - v /\ pe \in Nat /\ pe >= E
  BY <1>2, <1>3
<1> HIDE DEF pe
<1>5. N \in Nat /\ pe <= N /\ N < 2 * pe
  BY <1>4
<1>6. 2^(j + 1) * E = 2 * pe /\ 2^j * E = pe
  BY <1>1, <1>2, <1>3 DEF pe
<1> QED BY <1>1, <1>5, <1>6 DEF Leading

(* The exact number is just below a power of two that the sum is: the       *)
(* nearest modes take it for that power.                                    *)
LEMMA DroppedRounds ==
  ASSUME NEW p2, NEW N, NEW E, SumOf(p2, N, E), NEW top, Placed(p2, top), Leads(p2.full, top),
         NEW S, NEW k0, Scales(p2.base, S, k0, N, E), NEW l, Leads(S, l), l <= 4 * (FRAC + BIAS),
         Drops(p2, N, E, top)
  PROVE  finite_final(p2) = Reference!Rounded(p2.rm, p2.acc_sign, S, 1, k0)
<1> DEFINE rm == p2.rm
           neg == p2.acc_sign
           base == p2.base
           k == top - FRAC
           x == base + top
           D == 2^k * E
           D1 == 2^(k - 1) * E
           norm == Cut(p2, k)
           sub == Cut(p2, Grid(p2))
           final == finite_final(p2)
           exact == Reference!Rounded(rm, neg, S, 1, k0)
<1>1. rm \in RoundingModes /\ rm \in {"RNE", "RMM"} /\ neg \in BOOLEAN /\ base \in Int /\ E \in Nat /\ E >= 1 /\ p2.full # 0
  <2>1. p2.full >= 8 * ONE /\ ONE \in Nat /\ ONE >= 8
    BY Formats DEF SumOf
  <2> QED BY <2>1 DEF SumOf, SumOK, Drops
<1>2. /\ FRAC \in Nat /\ FRAC >= 3 /\ BIAS \in Nat /\ BIAS > FRAC /\ ONE \in Nat /\ ONE >= 8
      /\ EMIN = 1 - BIAS /\ EMIN \in Int /\ EMAX = BIAS
      /\ top \in Nat /\ top >= FRAC + 3 /\ x \in Int
  BY <1>1, Window, Formats DEF EMIN, EMAX, Placed
<1>3. PICK v \in Nat : v >= 1 /\ v < E /\ N = 2^top * E - v
  BY DEF Drops
<1>4. /\ k \in Nat /\ k - 1 \in Nat /\ D \in Nat /\ D1 \in Nat /\ D = 2 * D1 /\ D1 >= 4 * E
      /\ N = ONE * D - v /\ N = (2 * ONE) * D1 - v
  <2>1. /\ k \in Nat /\ k - 1 \in Nat
        /\ 2^top * E = ONE * (2^k * E)
        /\ 2^k * E = 2 * (2^(k - 1) * E) /\ 2^(k - 1) * E \in Nat /\ 2^(k - 1) * E >= 4 * E
    BY <1>1, <1>2, NormalPowers
  <2> HIDE DEF k
  <2>2. D = 2 * D1 /\ D1 \in Nat /\ D1 >= 4 * E /\ 2^top * E = ONE * D
    BY <2>1
  <2>3. ONE * (2 * D1) = (2 * ONE) * D1 /\ 2 * D1 \in Nat
    BY <1>2, <2>2
  <2> HIDE DEF D, D1
  <2> QED BY <1>3, <2>1, <2>2, <2>3
<1>5. N \in Nat /\ Leading(N, E, top - 1) /\ N < 2^top * E /\ N < ONE * D
  <2>1. N \in Nat /\ Leading(N, E, top - 1) /\ N < 2^top * E
    <3>1. top >= 1 /\ top \in Nat
      BY <1>2
    <3> QED BY <1>1, <1>3, <3>1, DroppedLeading
  <2>2. ONE * D \in Nat
    BY <1>2, <1>4
  <2> HIDE DEF D
  <2> QED BY <1>3, <1>4, <2>1, <2>2
<1>6. norm.mag = Reference!RoundQuotient(rm, neg, N, D) /\ (norm.inexact <=> N % D # 0)
  <2>1. Needed(p2, top, k)
    BY DEF Needed
  <2>2. CutIs(p2, N, E, k)
    BY <2>1 DEF SumOf
  <2> QED BY <2>2 DEF CutIs
<1> HIDE DEF rm, neg, base, k, D, D1, x
<1>7. /\ Reference!RoundQuotient(rm, neg, N, D) = ONE /\ N % D # 0
      /\ Reference!RoundQuotient(rm, neg, N, D1) = 2 * ONE /\ N % D1 # 0
  <2>1. 2 * v < D /\ 2 * v < D1
    BY <1>1, <1>3, <1>4
  <2>2. Reference!RoundQuotient(rm, neg, N, D) = ONE /\ N % D # 0
    <3>1. ONE >= 1 /\ ONE \in Nat
      BY <1>2
    <3> QED BY <1>1, <1>3, <1>4, <2>1, <3>1, JustBelow
  <2>3. Reference!RoundQuotient(rm, neg, N, D1) = 2 * ONE /\ N % D1 # 0
    <3>1. PICK c \in Nat : c = 2 * ONE /\ c >= 1
      BY <1>2
    <3>2. N = c * D1 - v
      BY <1>4, <3>1
    <3> QED BY <1>1, <1>3, <1>4, <2>1, <3>1, <3>2, JustBelow
  <2> QED BY <2>2, <2>3
<1>8. l + k0 = x - 1 /\ Reference!Log2(S, 1) = l /\ k0 \in Int /\ l \in Nat /\ Reference!Log2(S, 1) + k0 = x - 1
  <2>1. PICK t \in Nat : t = top - 1
    BY <1>2
  <2>2. Leading(N, E, t)
    BY <1>5, <2>1
  <2>3. l + k0 = p2.base + t
    BY <2>2, ScaledTop
  <2>4. l + k0 = x - 1
    BY <1>1, <1>2, <2>1, <2>3 DEF x, base
  <2>5. Reference!Log2(S, 1) = l
    BY LogWhole DEF Leads, Scales
  <2> QED BY <2>4, <2>5 DEF Scales, Leads
<1>9. Reference!InUnits(rm, neg, S, 1, k0, (x - 1) - FRAC) = 2 * ONE /\ (x - 1) - FRAC = base + (k - 1)
  <2>1. (x - 1) - FRAC = base + (k - 1)
    BY <1>1, <1>2 DEF x, k
  <2>2. PICK j \in Nat : j = k - 1
    BY <1>4
  <2>3. Reference!InUnits(rm, neg, S, 1, k0, base + j) = Reference!RoundQuotient(rm, neg, N, 2^j * E)
    BY <1>1, UnitsAt DEF base
  <2> QED BY <1>7, <2>1, <2>2, <2>3 DEF D1
<1>10. ONE \div (2 * ONE) = 0 /\ ONE % ONE = 0 /\ (2 * ONE) % ONE = 0
  <2>1. Division(ONE, 2 * ONE, 0, ONE) /\ Division(ONE, ONE, 1, 0) /\ Division(2 * ONE, ONE, 2, 0)
    BY <1>2 DEF Division
  <2> QED BY <2>1, DivisionIs
<1>11. final = IF x < EMIN
               THEN Answer(Subnormal(neg, sub.mag), Raise("NX", sub.inexact) \cup Raise("UF", sub.inexact))
               ELSE IF x > EMAX THEN Overflowed(rm, neg)
               ELSE Answer(Float(neg, x + BIAS, 0), {"NX"})
  <2>1. final =
           LET exp  == x + norm.mag \div (2 * ONE)
           IN  IF x < EMIN
               THEN Answer(Subnormal(neg, sub.mag),
                           Raise("NX", sub.inexact) \cup Raise("UF", sub.inexact /\ exp < EMIN))
               ELSE IF exp > EMAX THEN Overflowed(rm, neg)
               ELSE Answer(Float(neg, exp + BIAS, norm.mag % ONE), Raise("NX", norm.inexact))
    BY <1>1, FinalIs DEF x, base, k, rm, neg
  <2>2. norm.mag \div (2 * ONE) = 0 /\ norm.mag % ONE = 0 /\ x + 0 = x
    BY <1>2, <1>6, <1>7, <1>10
  <2>3. Raise("NX", norm.inexact) = {"NX"}
    BY <1>6, <1>7 DEF Raise
  <2> HIDE DEF norm
  <2>4. x < EMIN => Raise("UF", sub.inexact /\ x < EMIN) = Raise("UF", sub.inexact)
    BY DEF Raise
  <2> HIDE DEF final, sub
  <2> QED BY <2>1, <2>2, <2>3, <2>4
<1> HIDE DEF final, exact, norm, sub
<1>12. CASE EMIN <= x - 1
  <2>1. PICK n, d : InUnitsOf(S, 1, k0, base + (k - 1), n, d)
    BY DEF InUnitsOf
  <2>2. SameRatio(n, d, N, D1)
    <3>1. PICK j \in Nat : j = k - 1
      BY <1>4
    <3>2. InUnitsOf(S, 1, k0, base + j, n, d)
      BY <2>1, <3>1
    <3>3. SameRatio(n, d, N, 2^j * E)
      BY <3>2, SameScale DEF base
    <3> QED BY <3>1, <3>3 DEF D1
  <2>3. n \in Nat /\ d \in Nat /\ d >= 1 /\ D1 \in Nat /\ D1 >= 1
    BY <2>2 DEF SameRatio
  <2>4. ONE * d <= n /\ n < (2 * ONE) * d
    <3>1. PICK t \in Nat : t = 2 * ONE
      BY <1>2
    <3>2. (ONE * D1 <= N <=> ONE * d <= n) /\ (t * D1 <= N <=> t * d <= n)
      BY <1>2, <2>2, RatioBounds
    <3>3. t * D1 \in Nat /\ t * d \in Nat /\ ONE * D1 \in Nat /\ t * D1 = 2 * (ONE * D1) /\ ONE * D1 >= D1
      BY <1>2, <2>3, <3>1
    <3>4. ONE * D1 <= N /\ ~(t * D1 <= N)
      <4> DEFINE y == ONE * D1
      <4>1. N = 2 * y - v /\ y \in Nat /\ y >= D1 /\ t * D1 = 2 * y
        BY <1>4, <3>1, <3>3
      <4> HIDE DEF y
      <4>2. y <= N /\ ~(2 * y <= N)
        BY <1>1, <1>3, <1>4, <4>1
      <4> QED BY <4>1, <4>2 DEF y
    <3> QED BY <2>3, <3>1, <3>2, <3>3, <3>4
  <2>5. Reference!RoundQuotient(rm, neg, n, d) = 2 * ONE /\ n % d # 0
    BY <1>1, <1>7, <2>2, RatioRounds
  <2>6. PICK e \in Int : e = x - 1
    BY <1>2
  <2>7. InUnitsOf(S, 1, k0, e - FRAC, n, d) /\ Reference!Log2(S, 1) + k0 = e /\ EMIN <= e
    BY <1>8, <1>9, <1>12, <2>1, <2>6
  <2>8. exact = LET m == Reference!RoundQuotient(rm, neg, n, d)
                    u == IF m = 2 * ONE THEN 1 ELSE 0
                IN  IF e + u > EMAX THEN Overflowed(rm, neg)
                    ELSE Answer(Float(neg, e + u + BIAS, m % ONE), IF n % d = 0 THEN {} ELSE {"NX"})
    BY <1>1, <2>3, <2>4, <2>7, RoundsNormally DEF exact
  <2>9. exact = IF e + 1 > EMAX THEN Overflowed(rm, neg) ELSE Answer(Float(neg, e + 1 + BIAS, 0), {"NX"})
    BY <1>10, <2>5, <2>8
  <2>10. e + 1 = x /\ ~(x < EMIN)
    BY <1>2, <1>12, <2>6
  <2> QED BY <1>11, <2>9, <2>10 DEF final, exact, rm, neg
<1>13. CASE x = EMIN
  <2>1. EMIN - FRAC = base + k
    BY <1>1, <1>2, <1>13 DEF x, k
  <2>2. ASSUME NEW r \in RoundingModes, NEW s \in BOOLEAN
        PROVE  Reference!InUnits(r, s, S, 1, k0, EMIN - FRAC) = Reference!RoundQuotient(r, s, N, D)
    <3>1. Reference!InUnits(r, s, S, 1, k0, base + k) = Reference!RoundQuotient(r, s, N, 2^k * E)
      BY <1>4, <2>2, UnitsAt DEF base
    <3> QED BY <2>1, <3>1 DEF D
  <2>3. PICK e \in Int : e = x - 1
    BY <1>2
  <2>4. Reference!Log2(S, 1) + k0 = e /\ e < EMIN /\ e = EMIN - 1
    BY <1>2, <1>8, <1>13, <2>3
  <2>5. PICK mn : mn = 2 * ONE
    OBVIOUS
  <2>6. mn = Reference!InUnits(rm, neg, S, 1, k0, e - FRAC)
    BY <1>9, <2>3, <2>5
  <2>7. D \in Nat /\ D >= 1
    BY <1>1, <1>4
  <2>8. exact = LET m == Reference!RoundQuotient(rm, neg, N, D)
                IN  Answer(Subnormal(neg, m),
                           Raise("NX", N % D # 0) \cup Raise("UF", N % D # 0 /\ ~(e = EMIN - 1 /\ mn = 2 * ONE)))
    BY <1>1, <1>5, <2>2, <2>4, <2>6, <2>7, GridPacked DEF exact
  <2>9. Raise("NX", N % D # 0) \cup Raise("UF", N % D # 0 /\ ~(e = EMIN - 1 /\ mn = 2 * ONE)) = {"NX"}
    BY <1>7, <2>4, <2>5 DEF Raise
  <2>10. Subnormal(neg, ONE) = Float(neg, 1, 0)
    <3>1. 2^FRAC = ONE
      BY DEF ONE
    <3>2. Division(ONE, ONE, 1, 0) /\ Odd(1)
      BY <1>2 DEF Division, Odd
    <3>3. Bit(ONE, FRAC)
      BY <3>1, <3>2, DivisionIs DEF Bit
    <3> QED BY <1>10, <3>3 DEF Subnormal
  <2>11. exact = Answer(Float(neg, 1, 0), {"NX"})
    BY <1>7, <2>8, <2>9, <2>10
  <2>12. ~(x < EMIN) /\ ~(x > EMAX) /\ x + BIAS = 1
    BY <1>2, <1>13
  <2> QED BY <1>11, <2>11, <2>12 DEF final, exact, rm, neg
<1>14. CASE x < EMIN
  <2>1. PICK e \in Int : e = x - 1
    BY <1>2
  <2>2. l + k0 = e /\ e <= p2.base + top /\ p2.base + top < EMIN /\ e # EMIN - 1
    BY <1>1, <1>2, <1>8, <1>14, <2>1 DEF x, base
  <2>3. N < 2^(top + 1) * E
    <3>1. PICK p \in Nat : p = 2^top /\ 2^(top + 1) = 2 * p
      BY <1>2, Powers
    <3>2. p * E \in Nat /\ (2 * p) * E = 2 * (p * E)
      BY <1>1, <3>1
    <3> QED BY <1>5, <3>1, <3>2
  <2>4. PICK mn : mn = Reference!InUnits(p2.rm, p2.acc_sign, S, 1, k0, e - FRAC)
    OBVIOUS
  <2>5. Reference!Rounded(p2.rm, p2.acc_sign, S, 1, k0) = BelowNormal(p2, e, mn)
    BY <2>2, <2>3, <2>4, SubnormalSum
  <2>6. exact = Answer(Subnormal(neg, sub.mag), Raise("NX", sub.inexact) \cup Raise("UF", sub.inexact))
    <3>1. Raise("UF", sub.inexact /\ ~(e = EMIN - 1 /\ mn = 2 * ONE)) = Raise("UF", sub.inexact)
      BY <2>2 DEF Raise
    <3> QED BY <2>5, <3>1 DEF exact, sub, rm, neg, BelowNormal
  <2> QED BY <1>11, <1>14, <2>6 DEF final, exact, rm, neg
<1>15. EMIN <= x - 1 \/ x = EMIN \/ x < EMIN
  BY <1>2
<1> QED BY <1>12, <1>13, <1>14, <1>15

(* Every sum is rounded like the number it stands for.                      *)
LEMMA SumRounds ==
  ASSUME NEW p2, NEW N, NEW E, SumOf(p2, N, E),
         NEW S, NEW k0, Scales(p2.base, S, k0, N, E), NEW l, Leads(S, l), l <= 4 * (FRAC + BIAS)
  PROVE  finite_final(p2) = Reference!Rounded(p2.rm, p2.acc_sign, S, 1, k0)
<1>1. PICK top : Placed(p2, top) /\ Leads(p2.full, top)
  BY HasPlace
<1>2. Leading(N, E, top) \/ Drops(p2, N, E, top)
  BY <1>1 DEF SumOf
<1> QED BY <1>1, <1>2, LeadingRounds, DroppedRounds

(* The leading bit as the priority encoder finds it.                        *)
LEMMA PlacedIs ==
  ASSUME NEW p2, p2.full \in Nat, p2.full >= 8 * ONE, p2.full < 2^(FULL - 1), NEW top, Leads(p2.full, top)
  PROVE  Placed(p2, top)
<1>1. FRAC \in Nat /\ FRAC >= 3 /\ FULL = 4 * FRAC + 9 /\ BIAS \in Nat /\ BIAS > FRAC
  BY Window, Formats
<1>2. top \in Nat /\ 2^top <= p2.full /\ p2.full < 2^(top + 1) /\ top >= FRAC + 3
  BY SumTop DEF Leads
<1>3. top + 2 <= FULL
  <2>1. PICK b \in Nat : b = FULL - 1
    BY <1>1
  <2>2. ASSUME b <= top PROVE FALSE
    <3>1. 2^b <= 2^top /\ 2^b \in Nat /\ 2^top \in Nat
      BY <1>2, <2>2, PowerOrder, Powers
    <3>2. p2.full < 2^b
      BY <2>1
    <3> QED BY <1>2, <3>1, <3>2
  <2> QED BY <1>1, <1>2, <2>1, <2>2
<1>4. top <= 4 * (FRAC + BIAS)
  BY <1>1, <1>2, <1>3
<1>5. Msb(p2.full) = top
  BY <1>2, <1>4, LeadingBit
<1> QED BY <1>2, <1>3, <1>5 DEF Placed

(* Every cut that is needed leaves guard and round bits.                    *)
LEMMA NeededPlace ==
  ASSUME NEW p2, p2.base \in Int, NEW top, Placed(p2, top), NEW k, Needed(p2, top, k)
  PROVE  k \in Nat /\ k >= 3 /\ k >= top - FRAC
<1>1. FRAC \in Nat /\ top \in Nat /\ top >= FRAC + 3
  BY Window DEF Placed
<1>2. CASE k = top - FRAC
  BY <1>1, <1>2
<1>3. CASE k # top - FRAC
  <2>1. p2.base + top < EMIN /\ k = Grid(p2)
    BY <1>3 DEF Needed
  <2>2. k \in Nat /\ k >= 3 /\ k + FRAC >= top + 1
    BY <2>1, GridPlace
  <2> QED BY <1>1, <2>2
<1> QED BY <1>2, <1>3

(* Where the registers step back, the directed modes see the lost term, and *)
(* the nearest modes cut off zeros only.                                    *)
StepsWell(p2, n, d) ==
  /\ Directed(p2.rm) => d >= WIN + n /\ \A t \in Nat : p2.full # 2^t
  /\ ~Directed(p2.rm) =>
       \A top, k : Leads(p2.full, top) /\ Needed(p2, top, k) => ~Low(p2.full, k)

(* The register of the sum stands for the two terms.                        *)
LEMMA TermsSum ==
  ASSUME NEW p2, NEW x, NEW sx, NEW w, NEW sw, NEW d, NEW n,
         Meets(p2, x, sx, w, sw, d, n), Sized(x, w, n), p2.base \in Int,
         Steps(sx, w, sw, d) => StepsWell(p2, n, d)
  PROVE  LET T == Total(x, sx, w, sw, d)
             E == 2^Below(w, d)
         IN  /\ T \in Int /\ E \in Nat /\ E >= 1
             /\ p2.full = 0 <=> T = 0
             /\ T # 0 => p2.acc_sign = (T < 0) /\ SumOf(p2, Absolute(T), E)
<1> DEFINE T == Total(x, sx, w, sw, d)
           E == 2^Below(w, d)
           N == Absolute(T)
<1>1. /\ StandsFor(p2, T, E)
      /\ ~Steps(sx, w, sw, d) => SameAbove(p2, N, E)
      /\ Steps(sx, w, sw, d) => /\ N = p2.full * E - w /\ w < E /\ p2.full # 0 /\ p2.deep_sticky
                                /\ p2.cross_exact <=> d >= WIN + n
  <2>1. CASE w # 0 /\ d > WIN
    BY <2>1, FarStands
  <2>2. CASE ~(w # 0 /\ d > WIN)
    BY <2>2, NearStands DEF Steps
  <2> QED BY <2>1, <2>2
<1> HIDE DEF T, E, N
<1>2. /\ E \in Nat /\ E >= 1 /\ T \in Int /\ (p2.full = 0 <=> T = 0)
      /\ p2.full # 0 => p2.acc_sign = (T < 0) /\ p2.full >= 8 * ONE /\ p2.full < 2^(FULL - 1)
  BY <1>1 DEF StandsFor
<1>3. SumOK(p2) /\ p2.full \in Nat /\ w \in Nat /\ p2.rm \in RoundingModes
  BY DEF Meets, SumOK
<1>4. ASSUME p2.full # 0 PROVE SumOf(p2, N, E)
  <2>1. \A top : Leads(p2.full, top) => Placed(p2, top)
    BY <1>2, <1>3, <1>4, PlacedIs
  <2>2. CASE ~Steps(sx, w, sw, d)
    <3>1. ASSUME NEW top, NEW k, Leads(p2.full, top), Needed(p2, top, k) PROVE CutIs(p2, N, E, k)
      <4>1. k \in Nat /\ k >= top - FRAC
        BY <2>1, <3>1, NeededPlace
      <4>2. SameBits(p2, N, E, k)
        BY <1>1, <2>2, <3>1, <4>1 DEF SameAbove
      <4> QED BY <1>3, <4>2, CutSame
    <3>2. ASSUME NEW top, Leads(p2.full, top) PROVE Leading(N, E, top)
      BY <1>1, <1>2, <1>3, <1>4, <2>2, <3>2, SameLeading
    <3> QED BY <1>2, <1>3, <1>4, <3>1, <3>2 DEF SumOf
  <2>3. CASE Steps(sx, w, sw, d)
    <3>1. /\ N = p2.full * E - w /\ w < E /\ w >= 1 /\ p2.deep_sticky
          /\ p2.cross_exact <=> d >= WIN + n
      BY <1>1, <1>3, <2>3 DEF Steps
    <3>2. StepsWell(p2, n, d)
      BY <2>3
    <3>3. p2.full >= 1 /\ p2.full \in Nat
      BY <1>3, <1>4
    <3>4. N \in Nat
      <4>1. p2.full * E >= E /\ p2.full * E \in Nat
        BY <1>2, <3>3
      <4> QED BY <1>2, <1>3, <3>1, <4>1
    <3>5. ASSUME NEW top, NEW k, Leads(p2.full, top), Needed(p2, top, k) PROVE CutIs(p2, N, E, k)
      <4>1. k \in Nat /\ k >= 3
        BY <2>1, <3>5, NeededPlace
      <4>2. (Directed(p2.rm) => p2.cross_exact) /\ (~Directed(p2.rm) => ~Low(p2.full, k))
        BY <3>1, <3>2, <3>5 DEF StepsWell
      <4>3. \E v \in 1..E - 1 : N = p2.full * E - v
        <5>1. w \in 1..E - 1
          BY <1>2, <1>3, <3>1
        <5> QED BY <3>1, <5>1
      <4>4. Stepped(p2, N, E, k)
        BY <1>2, <3>1, <3>3, <3>4, <4>1, <4>2, <4>3 DEF Stepped
      <4> QED BY <1>3, <4>4, CutStepped
    <3>6. ASSUME NEW top, Leads(p2.full, top) PROVE Leading(N, E, top) \/ Drops(p2, N, E, top)
      <4>1. CASE p2.full # 2^top
        <5>1. PICK F \in Nat : F = p2.full
          BY <1>3
        <5>2. Leading(N, E, top)
          BY <1>2, <1>3, <3>1, <3>6, <4>1, <5>1, StepLeading
        <5> QED BY <5>2
      <4>2. CASE p2.full = 2^top
        <5>1. ~Directed(p2.rm)
          BY <3>2, <3>6, <4>2 DEF StepsWell, Leads
        <5>2. p2.rm \in {"RNE", "RMM"}
          BY <1>3, <5>1 DEF Directed, RoundingModes
        <5> QED BY <1>3, <3>1, <4>2, <5>2 DEF Drops
      <4> QED BY <4>1, <4>2
    <3> QED BY <1>2, <1>3, <1>4, <3>5, <3>6 DEF SumOf
  <2> QED BY <2>2, <2>3
<1> QED BY <1>2, <1>4 DEF T, E, N

(* What stage 0 hands on: a product and a summand, each zero or normalised. *)
Factored(p0) ==
  /\ p0.rm \in RoundingModes /\ p0.p_sign \in BOOLEAN /\ p0.c_sign \in BOOLEAN
  /\ p0.prod \in Nat /\ p0.c_sig \in Nat /\ p0.p_exp \in Int /\ p0.c_lsb \in Int
  /\ p0.prod # 0 => p0.prod >= ONE * ONE /\ p0.prod < 4 * (ONE * ONE)
  /\ p0.c_sig # 0 => p0.c_sig >= ONE /\ p0.c_sig < 2 * ONE

(* The product is the term aligned to the upper part of the window.         *)
ProductLeads(p0) == p0.c_sig = 0 \/ (p0.prod # 0 /\ p0.p_exp >= p0.c_lsb)

AlignedWell(A, v, sh, n) ==
  /\ AlignedTo(A, InWindow(v, sh))
  /\ A.far_sticky <=> v # 0 /\ sh > WIN
  /\ A.off <=> v # 0 /\ sh >= WIN + n

(* A term as the aligner leaves it.                                         *)
LEMMA TermAligned ==
  ASSUME NEW v \in Nat, NEW sh \in Nat, NEW n \in Nat, n >= 1, v < 2^n, NEW s, v # 0 => s = sh
  PROVE  AlignedWell(Aligned(v, s, n), v, sh, n)
<1>1. CASE v # 0
  BY <1>1, AlignedIs DEF AlignedWell
<1>2. CASE v = 0
  <2>1. InWindow(0, sh) = 0
    <3>1. 2^WIN \in Nat /\ 2^sh \in Nat /\ 2^sh >= 1
      BY Window, Powers
    <3>2. 0 * 2^WIN = 0
      BY <3>1
    <3>3. Division(0, 2^sh, 0, 0)
      BY <3>1 DEF Division
    <3> QED BY <3>2, <3>3, DivisionIs DEF InWindow
  <2> QED BY <1>2, <2>1, NoTerm DEF AlignedWell
<1> QED BY <1>1, <1>2

(* The term at the upper part of the window.                                *)
LEMMA TopAligned ==
  ASSUME NEW v \in Nat, NEW n \in Nat, n >= 1, v < 2^n, NEW s, v # 0 => s = 0
  PROVE  LET A == Aligned(v, s, n) IN AlignedTo(A, v * 2^WIN) /\ ~A.far_sticky /\ ~A.off
<1>1. PICK z \in Nat : z = 0
  OBVIOUS
<1>2. AlignedWell(Aligned(v, s, n), v, z, n)
  BY <1>1, TermAligned
<1>3. InWindow(v, z) = v * 2^WIN
  <2>1. PICK W \in Nat : W = 2^WIN
    BY Window, Powers
  <2>2. PICK y \in Nat : y = v * W
    BY <2>1
  <2>3. 2^z = 1
    <3>1. 2^0 = 1
      OBVIOUS
    <3> QED BY <1>1, <3>1
  <2>4. Division(y, 1, y, 0)
    BY DEF Division
  <2>5. y \div 1 = y
    BY <2>4, DivisionIs
  <2> QED BY <2>1, <2>2, <2>3, <2>5 DEF InWindow
<1>4. ~(z > WIN) /\ ~(z >= WIN + n)
  BY <1>1, Window
<1> QED BY <1>2, <1>3, <1>4 DEF AlignedWell

(* What stage 2 makes of a term x at the upper part of the window and one,  *)
(* w, that starts d places further down.                                    *)
Joined(p2, A, sx, B, sw, T) ==
  /\ T \in Int
  /\ p2.acc_sign = (T < 0) /\ p2.full = IF T < 0 THEN 0 - T ELSE T
  /\ p2.deep_sticky <=> A.far_sticky \/ B.far_sticky
  /\ p2.cross_exact <=> (A.off /\ A.far_sticky /\ sx # p2.acc_sign)
                         \/ (B.off /\ B.far_sticky /\ sw # p2.acc_sign)
  /\ p2.acc_sign \in BOOLEAN /\ p2.deep_sticky \in BOOLEAN /\ p2.cross_exact \in BOOLEAN
  /\ p2.rm \in RoundingModes

(* The sum of an unshifted and a shifted term.                              *)
LEMMA JoinedMeets ==
  ASSUME NEW p2, NEW A, NEW B, NEW x \in Nat, NEW sx \in BOOLEAN, NEW w \in Nat, NEW sw \in BOOLEAN,
         NEW d \in Nat, NEW n \in Nat, n >= 1, ~A.far_sticky, ~A.off, AlignedWell(B, w, d, n),
         Joined(p2, A, sx, B, sw, WithSign(sx, x * 2^WIN) + WithSign(sw, InWindow(w, d)))
  PROVE  Meets(p2, x, sx, w, sw, d, n)
<1> DEFINE T == WithSign(sx, x * 2^WIN) + WithSign(sw, InWindow(w, d))
<1>1. Joined(p2, A, sx, B, sw, T)
  OBVIOUS
<1>2. p2.acc_sign = (T < 0) /\ p2.full = IF T < 0 THEN 0 - T ELSE T
  BY <1>1 DEF Joined
<1> HIDE DEF T
<1>3. SumOK(p2)
  <2>1. p2.full \in Nat
    BY <1>1 DEF Joined
  <2> QED BY <1>1, <2>1 DEF Joined, SumOK
<1>4. d >= WIN + n => d > WIN
  BY Window
<1>5. p2.deep_sticky <=> w # 0 /\ d > WIN
  BY <1>1 DEF Joined, AlignedWell
<1>6. p2.cross_exact <=> w # 0 /\ d >= WIN + n /\ sw # p2.acc_sign
  BY <1>1, <1>4 DEF Joined, AlignedWell
<1> QED BY <1>2, <1>3, <1>5, <1>6 DEF Meets, T

(* The two terms when the product is the higher.                            *)
LEMMA ProductMeets ==
  ASSUME NEW p0, Factored(p0), ProductLeads(p0),
         NEW d, d = IF p0.c_sig = 0 THEN 0 ELSE p0.p_exp - p0.c_lsb
  PROVE  LET p2 == Add(Align(p0))
         IN  /\ Meets(p2, p0.prod, p0.p_sign, p0.c_sig, p0.c_sign, d, FRAC + 1)
             /\ Sized(p0.prod, p0.c_sig, FRAC + 1)
             /\ p2.base = p0.p_exp - WIN /\ p2.rm = p0.rm
             /\ p2.zero_sign = IF p0.p_sign = p0.c_sign THEN p0.p_sign ELSE p0.rm = "RDN"
<1>1. /\ p0.rm \in RoundingModes /\ p0.p_sign \in BOOLEAN /\ p0.c_sign \in BOOLEAN
      /\ p0.prod \in Nat /\ p0.c_sig \in Nat /\ p0.p_exp \in Int /\ p0.c_lsb \in Int
      /\ p0.prod # 0 => p0.prod >= ONE * ONE /\ p0.prod < 4 * (ONE * ONE)
      /\ p0.c_sig # 0 => p0.c_sig >= ONE /\ p0.c_sig < 2 * ONE
  BY DEF Factored
<1>2. /\ FRAC \in Nat /\ ONE \in Nat /\ ONE >= 8 /\ ONE * ONE \in Nat /\ ONE * ONE >= 8 * ONE
      /\ 2^(FRAC + 1) = 2 * ONE /\ 2^(2 * FRAC + 2) = 4 * (ONE * ONE) /\ WIN \in Nat
  BY WindowPowers, Window
<1>3. d \in Nat
  BY <1>1 DEF ProductLeads
<1>4. PICK m \in Nat, n \in Nat, s \in Int : m = 2 * FRAC + 2 /\ n = FRAC + 1 /\ m >= 1 /\ n >= 1 /\ s = p0.p_exp - p0.c_lsb
  <2>1. FRAC + 1 \in Nat /\ FRAC + 1 >= 1 /\ 2 * FRAC + 2 \in Nat /\ 2 * FRAC + 2 >= 1 /\ p0.p_exp - p0.c_lsb \in Int
    BY <1>1, <1>2
  <2> QED BY <2>1
<1> DEFINE p1 == Align(p0)
           A == Aligned(p0.prod, p0.p_exp - p0.p_exp, m)
           B == Aligned(p0.c_sig, s, n)
<1>5. p1.p = A /\ p1.c = B /\ p1.rm = p0.rm /\ p1.p_sign = p0.p_sign /\ p1.c_sign = p0.c_sign /\ p1.base = p0.p_exp - WIN
  <2>1. Align(p0).base = p0.p_exp - WIN /\ p1.p = Aligned(p0.prod, p0.p_exp - p0.p_exp, 2 * FRAC + 2) /\ p1.c = Aligned(p0.c_sig, p0.p_exp - p0.c_lsb, FRAC + 1)
    BY <1>1 DEF Align, ProductLeads
  <2>2. p1.rm = p0.rm /\ p1.p_sign = p0.p_sign /\ p1.c_sign = p0.c_sign
    BY DEF Align
  <2> QED BY <1>4, <2>1, <2>2
<1>6. AlignedTo(A, p0.prod * 2^WIN) /\ ~A.far_sticky /\ ~A.off
  <2>1. p0.prod < 2^m
    BY <1>1, <1>2, <1>4
  <2>2. PICK z \in Int : z = p0.p_exp - p0.p_exp /\ z = 0
    BY <1>1
  <2>3. LET a == Aligned(p0.prod, z, m) IN AlignedTo(a, p0.prod * 2^WIN) /\ ~a.far_sticky /\ ~a.off
    BY <1>1, <1>4, <2>1, <2>2, TopAligned
  <2> QED BY <2>2, <2>3
<1>7. AlignedWell(B, p0.c_sig, d, n)
  <2>1. p0.c_sig < 2^n
    BY <1>1, <1>2, <1>4
  <2>2. p0.c_sig # 0 => s = d
    BY <1>4
  <2> QED BY <1>1, <1>3, <1>4, <2>1, <2>2, TermAligned
<1> HIDE DEF A, B, p1
<1> DEFINE p2 == Add(p1)
           f == p0.prod * 2^WIN
           g == InWindow(p0.c_sig, d)
<1>8. AlignedTo(p1.p, f) /\ AlignedTo(p1.c, g) /\ p1.p_sign \in BOOLEAN /\ p1.c_sign \in BOOLEAN
  BY <1>1, <1>5, <1>6, <1>7 DEF AlignedWell
<1>9. f \in Nat /\ g \in Nat
  BY <1>8 DEF AlignedTo
<1> HIDE DEF f, g
<1>10. /\ Joined(p2, A, p0.p_sign, B, p0.c_sign, WithSign(p0.p_sign, f) + WithSign(p0.c_sign, g))
       /\ p2.rm = p0.rm /\ p2.base = p0.p_exp - WIN
       /\ p2.zero_sign = IF p0.p_sign = p0.c_sign THEN p0.p_sign ELSE p0.rm = "RDN"
  <2> DEFINE T == WithSign(p1.p_sign, f) + WithSign(p1.c_sign, g)
  <2>1. /\ T \in Int
        /\ p2.acc_sign = (T < 0) /\ p2.full = IF T < 0 THEN 0 - T ELSE T
        /\ p2.deep_sticky = (p1.p.far_sticky \/ p1.c.far_sticky)
        /\ p2.cross_exact = ((p1.p.off /\ p1.p.far_sticky /\ p1.p_sign # p2.acc_sign) \/
                             (p1.c.off /\ p1.c.far_sticky /\ p1.c_sign # p2.acc_sign))
        /\ p2.acc_sign \in BOOLEAN /\ p2.deep_sticky \in BOOLEAN /\ p2.cross_exact \in BOOLEAN
        /\ p2.rm = p1.rm /\ p2.base = p1.base
        /\ p2.zero_sign = IF p1.p_sign = p1.c_sign THEN p1.p_sign ELSE p1.rm = "RDN"
    <3>1. Summed(p1, p2, T)
      BY <1>8, AddIs
    <3> HIDE DEF p2, T
    <3> QED BY <3>1 DEF Summed
  <2>2. T = WithSign(p0.p_sign, f) + WithSign(p0.c_sign, g)
    BY <1>1, <1>5, <1>9 DEF WithSign
  <2> HIDE DEF T, p2
  <2>3. p2.rm \in RoundingModes
    BY <1>1, <1>5, <2>1
  <2>4. /\ p2.deep_sticky <=> A.far_sticky \/ B.far_sticky
        /\ p2.cross_exact <=> (A.off /\ A.far_sticky /\ p0.p_sign # p2.acc_sign)
                               \/ (B.off /\ B.far_sticky /\ p0.c_sign # p2.acc_sign)
    BY <1>5, <2>1
  <2>5. Joined(p2, A, p0.p_sign, B, p0.c_sign, T)
    BY <2>1, <2>3, <2>4 DEF Joined
  <2> QED BY <1>5, <2>1, <2>2, <2>5
<1>11. Meets(p2, p0.prod, p0.p_sign, p0.c_sig, p0.c_sign, d, n)
  <2> HIDE DEF p2
  <2> QED BY <1>1, <1>3, <1>4, <1>6, <1>7, <1>10, JoinedMeets DEF f, g
<1>12. Sized(p0.prod, p0.c_sig, FRAC + 1)
  <2>1. p0.c_sig # 0 => p0.prod # 0
    BY DEF ProductLeads
  <2>2. p0.prod < 4 * (ONE * ONE) /\ p0.c_sig < 4 * (ONE * ONE) /\ (p0.prod # 0 => p0.prod >= ONE)
    BY <1>1, <1>2
  <2> QED BY <1>1, <2>1, <2>2 DEF Sized
<1> HIDE DEF p2
<1> QED BY <1>4, <1>10, <1>11, <1>12 DEF p2, p1

(* The two terms when the summand is the higher.                            *)
LEMMA SummandMeets ==
  ASSUME NEW p0, Factored(p0), ~ProductLeads(p0),
         NEW d, d = IF p0.prod = 0 THEN 0 ELSE p0.c_lsb - p0.p_exp
  PROVE  LET p2 == Add(Align(p0))
         IN  /\ Meets(p2, p0.c_sig, p0.c_sign, p0.prod, p0.p_sign, d, 2 * FRAC + 2)
             /\ Sized(p0.c_sig, p0.prod, 2 * FRAC + 2)
             /\ p2.base = p0.c_lsb - WIN /\ p2.rm = p0.rm
             /\ p2.zero_sign = IF p0.p_sign = p0.c_sign THEN p0.p_sign ELSE p0.rm = "RDN"
<1>1. /\ p0.rm \in RoundingModes /\ p0.p_sign \in BOOLEAN /\ p0.c_sign \in BOOLEAN
      /\ p0.prod \in Nat /\ p0.c_sig \in Nat /\ p0.p_exp \in Int /\ p0.c_lsb \in Int
      /\ p0.prod # 0 => p0.prod >= ONE * ONE /\ p0.prod < 4 * (ONE * ONE)
      /\ p0.c_sig # 0 => p0.c_sig >= ONE /\ p0.c_sig < 2 * ONE
  BY DEF Factored
<1>2. /\ FRAC \in Nat /\ ONE \in Nat /\ ONE >= 8 /\ ONE * ONE \in Nat /\ ONE * ONE >= 8 * ONE
      /\ 2^(FRAC + 1) = 2 * ONE /\ 2^(2 * FRAC + 2) = 4 * (ONE * ONE) /\ WIN \in Nat
  BY WindowPowers, Window
<1>3. d \in Nat
  BY <1>1 DEF ProductLeads
<1>4. PICK m \in Nat, n \in Nat, s \in Int : m = FRAC + 1 /\ n = 2 * FRAC + 2 /\ m >= 1 /\ n >= 1 /\ s = p0.c_lsb - p0.p_exp
  <2>1. FRAC + 1 \in Nat /\ FRAC + 1 >= 1 /\ 2 * FRAC + 2 \in Nat /\ 2 * FRAC + 2 >= 1 /\ p0.c_lsb - p0.p_exp \in Int
    BY <1>1, <1>2
  <2> QED BY <2>1
<1> DEFINE p1 == Align(p0)
           A == Aligned(p0.c_sig, p0.c_lsb - p0.c_lsb, m)
           B == Aligned(p0.prod, s, n)
<1>5. p1.c = A /\ p1.p = B /\ p1.rm = p0.rm /\ p1.p_sign = p0.p_sign /\ p1.c_sign = p0.c_sign /\ p1.base = p0.c_lsb - WIN
  <2>1. Align(p0).base = p0.c_lsb - WIN /\ p1.c = Aligned(p0.c_sig, p0.c_lsb - p0.c_lsb, FRAC + 1) /\ p1.p = Aligned(p0.prod, p0.c_lsb - p0.p_exp, 2 * FRAC + 2)
    BY <1>1 DEF Align, ProductLeads
  <2>2. p1.rm = p0.rm /\ p1.p_sign = p0.p_sign /\ p1.c_sign = p0.c_sign
    BY DEF Align
  <2> QED BY <1>4, <2>1, <2>2
<1>6. AlignedTo(A, p0.c_sig * 2^WIN) /\ ~A.far_sticky /\ ~A.off
  <2>1. p0.c_sig < 2^m
    BY <1>1, <1>2, <1>4
  <2>2. PICK z \in Int : z = p0.c_lsb - p0.c_lsb /\ z = 0
    BY <1>1
  <2>3. LET a == Aligned(p0.c_sig, z, m) IN AlignedTo(a, p0.c_sig * 2^WIN) /\ ~a.far_sticky /\ ~a.off
    BY <1>1, <1>4, <2>1, <2>2, TopAligned
  <2> QED BY <2>2, <2>3
<1>7. AlignedWell(B, p0.prod, d, n)
  <2>1. p0.prod < 2^n
    BY <1>1, <1>2, <1>4
  <2>2. p0.prod # 0 => s = d
    BY <1>4
  <2> QED BY <1>1, <1>3, <1>4, <2>1, <2>2, TermAligned
<1> HIDE DEF A, B, p1
<1> DEFINE p2 == Add(p1)
           f == p0.c_sig * 2^WIN
           g == InWindow(p0.prod, d)
<1>8. AlignedTo(p1.c, f) /\ AlignedTo(p1.p, g) /\ p1.p_sign \in BOOLEAN /\ p1.c_sign \in BOOLEAN
  BY <1>1, <1>5, <1>6, <1>7 DEF AlignedWell
<1>9. f \in Nat /\ g \in Nat
  BY <1>8 DEF AlignedTo
<1> HIDE DEF f, g
<1>10. /\ Joined(p2, A, p0.c_sign, B, p0.p_sign, WithSign(p0.c_sign, f) + WithSign(p0.p_sign, g))
       /\ p2.rm = p0.rm /\ p2.base = p0.c_lsb - WIN
       /\ p2.zero_sign = IF p0.p_sign = p0.c_sign THEN p0.p_sign ELSE p0.rm = "RDN"
  <2> DEFINE T == WithSign(p1.p_sign, g) + WithSign(p1.c_sign, f)
  <2>1. /\ T \in Int
        /\ p2.acc_sign = (T < 0) /\ p2.full = IF T < 0 THEN 0 - T ELSE T
        /\ p2.deep_sticky = (p1.p.far_sticky \/ p1.c.far_sticky)
        /\ p2.cross_exact = ((p1.p.off /\ p1.p.far_sticky /\ p1.p_sign # p2.acc_sign) \/
                             (p1.c.off /\ p1.c.far_sticky /\ p1.c_sign # p2.acc_sign))
        /\ p2.acc_sign \in BOOLEAN /\ p2.deep_sticky \in BOOLEAN /\ p2.cross_exact \in BOOLEAN
        /\ p2.rm = p1.rm /\ p2.base = p1.base
        /\ p2.zero_sign = IF p1.p_sign = p1.c_sign THEN p1.p_sign ELSE p1.rm = "RDN"
    <3>1. Summed(p1, p2, T)
      BY <1>8, AddIs
    <3> HIDE DEF p2, T
    <3> QED BY <3>1 DEF Summed
  <2>2. T = WithSign(p0.c_sign, f) + WithSign(p0.p_sign, g)
    BY <1>1, <1>5, <1>9 DEF WithSign
  <2> HIDE DEF T, p2
  <2>3. p2.rm \in RoundingModes
    BY <1>1, <1>5, <2>1
  <2>4. /\ p2.deep_sticky <=> A.far_sticky \/ B.far_sticky
        /\ p2.cross_exact <=> (A.off /\ A.far_sticky /\ p0.c_sign # p2.acc_sign)
                               \/ (B.off /\ B.far_sticky /\ p0.p_sign # p2.acc_sign)
    BY <1>5, <2>1
  <2>5. Joined(p2, A, p0.c_sign, B, p0.p_sign, T)
    BY <2>1, <2>3, <2>4 DEF Joined
  <2> QED BY <1>5, <2>1, <2>2, <2>5
<1>11. Meets(p2, p0.c_sig, p0.c_sign, p0.prod, p0.p_sign, d, n)
  <2> HIDE DEF p2
  <2> QED BY <1>1, <1>3, <1>4, <1>6, <1>7, <1>10, JoinedMeets DEF f, g
<1>12. Sized(p0.c_sig, p0.prod, 2 * FRAC + 2)
  <2>1. p0.prod # 0 => p0.c_sig # 0
    BY DEF ProductLeads
  <2>2. p0.c_sig < 4 * (ONE * ONE) /\ p0.prod < 4 * (ONE * ONE) /\ (p0.c_sig # 0 => p0.c_sig >= ONE)
    BY <1>1, <1>2
  <2> QED BY <1>1, <2>1, <2>2 DEF Sized
<1> HIDE DEF p2
<1> QED BY <1>4, <1>10, <1>11, <1>12 DEF p2, p1

(* What has left the window wholly lies that far below it.                  *)
LEMMA WindowLeft ==
  ASSUME NEW v \in Nat, NEW d \in Nat, NEW b \in Nat, 2^b <= v, InWindow(v, d) = 0
  PROVE  d >= WIN + b + 1
<1>1. WIN \in Nat
  BY Window
<1>2. PICK W \in Nat, D \in Nat, B \in Nat, s \in Nat : W = 2^WIN /\ W >= 1 /\ D = 2^d /\ D >= 1 /\ B = 2^b /\ s = WIN + b
  BY <1>1, Powers
<1>3. 2^s = W * B
  BY <1>1, <1>2, PowerSum
<1>4. ASSUME d <= s PROVE FALSE
  <2>1. D <= W * B
    BY <1>2, <1>3, <1>4, PowerOrder
  <2>2. W * B <= v * W /\ v * W \in Nat /\ W * B \in Nat
    BY <1>2
  <2>3. v * W >= D * 1
    BY <1>2, <2>1, <2>2
  <2>4. (v * W) \div D >= 1
    <3>1. PICK y \in Nat : y = v * W
      BY <2>2
    <3> QED BY <1>2, <2>3, <3>1, Threshold
  <2>5. (v * W) \div D = 0
    BY <1>2 DEF InWindow
  <2> QED BY <2>4, <2>5
<1> QED BY <1>1, <1>2, <1>4

(* What a power of 2 makes of a number is one only of a power of 2.         *)
LEMMA PowerOf ==
  ASSUME NEW v \in Nat, v >= 1, NEW m \in Nat, NEW n \in Nat, v < 2^n, NEW t \in Nat, v * 2^m = 2^t
  PROVE  \E k \in 0..n - 1 : v = 2^k
<1>1. PICK M \in Nat, N \in Nat, T \in Nat : M = 2^m /\ M >= 1 /\ N = 2^n /\ T = 2^t /\ T >= 1
  BY Powers
<1>2. v * M = T /\ v < N
  BY <1>1
<1>3. t >= m
  <2>1. ASSUME t < m PROVE FALSE
    <3>1. 2 * T <= M
      BY <1>1, <2>1, PowerOrder
    <3>2. v * M >= 1 * M
      BY <1>1
    <3> QED BY <1>1, <1>2, <3>1, <3>2
  <2> QED BY <2>1
<1>4. PICK k \in Nat : k = t - m /\ t = m + k
  BY <1>3
<1>5. PICK K \in Nat : K = 2^k
  BY Powers
<1>6. T = M * K
  BY <1>1, <1>4, <1>5, PowerSum
<1>7. v = K
  <2>1. M * v = M * K
    BY <1>1, <1>2, <1>6
  <2>2. M * v <= M * K => v <= K
    <3> SUFFICES ASSUME v >= K + 1, M * v <= M * K PROVE FALSE
      BY <1>5
    <3>1. M * v >= M * (K + 1) /\ M * (K + 1) = M * K + M /\ M * K \in Nat /\ M * v \in Nat
      BY <1>1, <1>5
    <3> QED BY <1>1, <3>1
  <2>3. M * v >= M * K => v >= K
    <3> SUFFICES ASSUME K >= v + 1, M * v >= M * K PROVE FALSE
      BY <1>5
    <3>1. M * K >= M * (v + 1) /\ M * (v + 1) = M * v + M /\ M * K \in Nat /\ M * v \in Nat
      BY <1>1, <1>5
    <3> QED BY <1>1, <3>1
  <2>4. M * v \in Nat
    BY <1>1
  <2> QED BY <1>5, <2>1, <2>2, <2>3, <2>4
<1>8. k < n
  <2>1. ASSUME n <= k PROVE FALSE
    <3>1. N <= K
      BY <1>1, <1>5, <2>1, PowerOrder
    <3> QED BY <1>1, <1>2, <1>7, <3>1
  <2> QED BY <2>1
<1>9. k \in 0..n - 1
  BY <1>8
<1> QED BY <1>5, <1>7, <1>9

(* Where the registers misplace the sum.                                    *)
Lost(p0) ==
  /\ p0.prod # 0 /\ p0.c_sig # 0 /\ p0.p_sign # p0.c_sign
  /\ \/ /\ p0.p_exp - p0.c_lsb >= WIN + FRAC + 1
        /\ Directed(p0.rm) => \E k \in 0..2 * FRAC + 1 : p0.prod = 2^k
     \/ /\ Directed(p0.rm) /\ p0.c_lsb - p0.p_exp >= WIN + 2 * FRAC + 1
        /\ p0.c_sig = ONE \/ p0.c_lsb - p0.p_exp = WIN + 2 * FRAC + 1

(* Bits that left the window of the product leave it on the side the sum    *)
(* steps to.                                                                *)
LEMMA ProductStepsWell ==
  ASSUME NEW p0, Factored(p0), ProductLeads(p0), ~Lost(p0),
         NEW d, d = IF p0.c_sig = 0 THEN 0 ELSE p0.p_exp - p0.c_lsb,
         Steps(p0.p_sign, p0.c_sig, p0.c_sign, d)
  PROVE  StepsWell(Add(Align(p0)), FRAC + 1, d)
<1> DEFINE p2 == Add(Align(p0))
<1>1. /\ Meets(p2, p0.prod, p0.p_sign, p0.c_sig, p0.c_sign, d, FRAC + 1)
      /\ Sized(p0.prod, p0.c_sig, FRAC + 1) /\ p2.rm = p0.rm
  BY ProductMeets
<1> HIDE DEF p2
<1>2. p0.c_sig # 0 /\ d > WIN /\ p0.p_sign # p0.c_sign /\ InWindow(p0.c_sig, d) = 0 /\ d = p0.p_exp - p0.c_lsb /\ p0.prod # 0
  BY DEF Steps, ProductLeads
<1>3. /\ p0.prod \in Nat /\ p0.c_sig \in Nat /\ p0.prod >= 1 /\ p0.prod < 4 * (ONE * ONE) /\ p0.c_sig >= ONE
      /\ FRAC \in Nat /\ WIN \in Nat /\ d \in Nat /\ 2^FRAC = ONE /\ 2^(2 * FRAC + 2) = 4 * (ONE * ONE)
  <2>1. ONE \in Nat /\ ONE >= 8 /\ ONE * ONE \in Nat /\ ONE * ONE >= 8 * ONE
    BY WindowPowers
  <2>2. d \in Nat
    BY <1>1 DEF Meets
  <2>3. /\ p0.prod \in Nat /\ p0.c_sig \in Nat /\ p0.prod >= ONE * ONE /\ p0.prod < 4 * (ONE * ONE) /\ p0.c_sig >= ONE
    BY <1>2 DEF Factored
  <2> QED BY <2>1, <2>2, <2>3, WindowPowers, Window
<1>4. d >= WIN + FRAC + 1
  BY <1>2, <1>3, WindowLeft
<1>5. Directed(p0.rm) /\ ~\E k \in 0..2 * FRAC + 1 : p0.prod = 2^k
  BY <1>2, <1>4 DEF Lost
<1>6. p2.full = p0.prod * 2^WIN
  <2>1. PICK n \in Nat : n = FRAC + 1
    BY <1>3
  <2> QED BY <1>1, <1>2, <2>1, FarStands
<1>7. ASSUME NEW t \in Nat, p2.full = 2^t PROVE FALSE
  <2>1. PICK n \in Nat : n = 2 * FRAC + 2 /\ n - 1 = 2 * FRAC + 1
    BY <1>3
  <2>2. p0.prod < 2^n
    BY <1>3, <2>1
  <2>3. \E k \in 0..n - 1 : p0.prod = 2^k
    BY <1>3, <1>6, <1>7, <2>2, PowerOf
  <2> QED BY <1>5, <2>1, <2>3
<1> QED BY <1>1, <1>3, <1>4, <1>5, <1>7 DEF StepsWell, p2

(* A number of U units of 2^K, shifted left by z places until its leading   *)
(* bit is bit FRAC.                                                         *)
ShiftedUp(sig, lsb, U, K, z) ==
  U \in Nat /\ U >= 1 /\ K \in Int /\ z \in Nat /\ sig = U * 2^z /\ lsb = K - z

(* Only a subnormal number is shifted.                                      *)
NormalisedTo(sig, lsb, U, K) ==
  \E z \in 0..FRAC : ShiftedUp(sig, lsb, U, K, z) /\ K >= EMIN - FRAC /\ (z # 0 => K = EMIN - FRAC)

(* A multiple of a power of 2 has no bits below it.                         *)
LEMMA WholeAt ==
  ASSUME NEW U \in Nat, NEW k \in Nat
  PROVE  ~Low(U * 2^k, k)
<1>1. PICK p \in Nat : p = 2^k /\ p >= 1
  BY Powers
<1>2. PICK y \in Nat : y = U * p /\ y = p * U + 0
  <2>1. U * p \in Nat /\ U * p = p * U + 0
    BY <1>1
  <2> QED BY <2>1
<1>3. Division(y, p, U, 0)
  BY <1>1, <1>2 DEF Division
<1>4. y % p = 0
  BY <1>3, DivisionIs
<1> QED BY <1>1, <1>2, <1>4 DEF Low

(* The same with the summand higher.                                        *)
LEMMA SummandStepsWell ==
  ASSUME NEW p0, Factored(p0), ~ProductLeads(p0), ~Lost(p0),
         NEW U, NEW K, NormalisedTo(p0.c_sig, p0.c_lsb, U, K),
         NEW d, d = IF p0.prod = 0 THEN 0 ELSE p0.c_lsb - p0.p_exp,
         Steps(p0.c_sign, p0.prod, p0.p_sign, d)
  PROVE  StepsWell(Add(Align(p0)), 2 * FRAC + 2, d)
<1> DEFINE p2 == Add(Align(p0))
<1>1. /\ Meets(p2, p0.c_sig, p0.c_sign, p0.prod, p0.p_sign, d, 2 * FRAC + 2)
      /\ Sized(p0.c_sig, p0.prod, 2 * FRAC + 2) /\ p2.rm = p0.rm /\ p2.base = p0.c_lsb - WIN
  BY SummandMeets
<1> HIDE DEF p2
<1>2. p0.c_sig # 0 /\ d > WIN /\ p0.p_sign # p0.c_sign /\ InWindow(p0.prod, d) = 0 /\ d = p0.c_lsb - p0.p_exp /\ p0.prod # 0
  BY DEF Steps, ProductLeads
<1>3. /\ p0.prod \in Nat /\ p0.c_sig \in Nat /\ p0.c_sig >= 1 /\ p0.c_sig < 2 * ONE /\ p0.c_sig >= ONE /\ p0.prod >= ONE * ONE
      /\ FRAC \in Nat /\ FRAC >= 3 /\ WIN \in Nat /\ d \in Nat /\ 2^FRAC = ONE /\ 2^(FRAC + 1) = 2 * ONE
      /\ p0.c_lsb \in Int /\ p0.p_exp \in Int /\ p0.rm \in RoundingModes /\ FULL = 4 * FRAC + 9 /\ WIN = 2 * FRAC + 5
      /\ ONE \in Nat /\ ONE >= 8 /\ ONE * ONE \in Nat
  <2>1. ONE \in Nat /\ ONE >= 8 /\ ONE * ONE \in Nat /\ ONE * ONE >= 8 * ONE
    BY WindowPowers
  <2>2. d \in Nat
    BY <1>1 DEF Meets
  <2>3. /\ p0.prod \in Nat /\ p0.c_sig \in Nat /\ p0.prod >= ONE * ONE /\ p0.c_sig < 2 * ONE /\ p0.c_sig >= ONE
        /\ p0.c_lsb \in Int /\ p0.p_exp \in Int /\ p0.rm \in RoundingModes
    BY <1>2 DEF Factored
  <2> QED BY <2>1, <2>2, <2>3, WindowPowers, Window
<1>4. d >= WIN + 2 * FRAC + 1
  <2>1. PICK b \in Nat : b = FRAC + FRAC
    BY <1>3
  <2>2. 2^b = ONE * ONE
    BY <1>3, <2>1, PowerSum
  <2>3. d >= WIN + b + 1
    BY <1>2, <1>3, <2>2, WindowLeft
  <2> QED BY <1>3, <2>1, <2>3
<1>5. Directed(p0.rm) => p0.c_sig # ONE /\ d >= WIN + (2 * FRAC + 2)
  BY <1>2, <1>3, <1>4 DEF Lost
<1>6. p2.full = p0.c_sig * 2^WIN
  <2>1. PICK n \in Nat : n = 2 * FRAC + 2
    BY <1>3
  <2> QED BY <1>1, <1>2, <2>1, FarStands
<1>7. ASSUME NEW t \in Nat, p2.full = 2^t PROVE p0.c_sig = ONE
  <2>1. PICK n \in Nat : n = FRAC + 1
    BY <1>3
  <2>2. p0.c_sig < 2^n
    BY <1>3, <2>1
  <2>3. PICK k \in 0..n - 1 : p0.c_sig = 2^k
    BY <1>3, <1>6, <1>7, <2>2, PowerOf
  <2>4. k = FRAC
    <3>1. ASSUME k < FRAC PROVE FALSE
      <4>1. 2 * 2^k <= 2^FRAC /\ 2^k \in Nat
        BY <1>3, <2>3, <3>1, PowerOrder, Powers
      <4> QED BY <1>3, <2>3, <4>1
    <3> QED BY <1>3, <2>1, <2>3, <3>1
  <2> QED BY <1>3, <2>3, <2>4
<1>8. ASSUME NEW top, NEW k, Leads(p2.full, top), Needed(p2, top, k) PROVE ~Low(p2.full, k)
  <2>1. PICK z \in 0..FRAC : ShiftedUp(p0.c_sig, p0.c_lsb, U, K, z) /\ K >= EMIN - FRAC /\ (z # 0 => K = EMIN - FRAC)
    BY DEF NormalisedTo
  <2>2. U \in Nat /\ K \in Int /\ z \in Nat /\ p0.c_sig = U * 2^z /\ p0.c_lsb = K - z /\ EMIN \in Int
    BY <2>1, Formats DEF ShiftedUp, EMIN
  <2>3. top = FRAC + WIN
    <3>1. PICK W \in Nat, s \in Nat : W = 2^WIN /\ W >= 1 /\ s = FRAC + WIN
      BY <1>3, Powers
    <3>2. 2^s = ONE * W /\ 2^(s + 1) = 2 * (ONE * W) /\ 2^s \in Nat
      <4>1. 2^(FRAC + WIN) = 2^FRAC * 2^WIN
        BY <1>3, PowerSum
      <4>2. 2^s \in Nat /\ 2^(s + 1) = 2 * 2^s
        BY <3>1, Powers
      <4> QED BY <1>3, <3>1, <4>1, <4>2
    <3>3. PICK F \in Nat : F = p2.full
      BY <1>1 DEF Meets, SumOK
    <3>4. ONE * W <= F /\ F < 2 * (ONE * W)
      <4>1. p0.c_sig * W >= ONE * W /\ p0.c_sig * W <= (2 * ONE - 1) * W /\ (2 * ONE - 1) * W = 2 * (ONE * W) - W
            /\ p0.c_sig * W \in Nat /\ ONE * W \in Nat
        BY <1>3, <3>1
      <4> QED BY <1>6, <3>1, <3>3, <4>1
    <3>5. Leads(F, top) /\ top \in Nat /\ F >= 2^top /\ 2^top \in Nat
      BY <1>8, <3>3, Powers DEF Leads
    <3>6. top >= s
      BY <3>2, <3>3, <3>4, <3>5, LeadsFrom
    <3>7. top <= s
      <4>1. ASSUME s < top PROVE FALSE
        <5>1. 2 * 2^s <= 2^top
          BY <3>1, <3>5, <4>1, PowerOrder
        <5>2. ONE * W \in Nat
          BY <1>3, <3>1
        <5> QED BY <3>2, <3>4, <3>5, <5>1, <5>2
      <4> QED BY <3>1, <3>5, <4>1
    <3> QED BY <3>1, <3>5, <3>6, <3>7
  <2>4. CASE k = top - FRAC
    <3>1. k = WIN /\ k \in Nat
      BY <1>3, <2>3, <2>4
    <3> QED BY <1>3, <1>6, <3>1, WholeAt
  <2>5. CASE p2.base + top < EMIN /\ k = Grid(p2)
    <3>1. K - z + FRAC < EMIN
      BY <1>1, <1>3, <2>2, <2>3, <2>5
    <3>2. K = EMIN - FRAC
      BY <1>3, <2>1, <2>2, <3>1
    <3>3. PICK g \in Int : g = EMIN - FRAC - p2.base /\ g = z + WIN /\ g <= FULL
      <4>1. p2.base = EMIN - FRAC - z - WIN
        BY <1>1, <1>3, <2>2, <3>2
      <4>2. EMIN - FRAC - p2.base = z + WIN /\ z + WIN \in Int /\ z + WIN <= FULL
        BY <1>3, <2>1, <2>2, <4>1
      <4> QED BY <4>2
    <3>4. k = g /\ k \in Nat
      <4>1. Grid(p2) = g
        <5>1. FULL \in Int
          BY <1>3
        <5> QED BY <3>3, <5>1, MinTwo DEF Grid
      <4> QED BY <1>3, <2>2, <2>5, <3>3, <4>1
    <3>5. p2.full = U * 2^k
      <4>1. PICK Z \in Nat, W \in Nat : Z = 2^z /\ W = 2^WIN
        BY <1>3, <2>2, Powers
      <4>2. 2^(z + WIN) = Z * W
        BY <1>3, <2>2, <4>1, PowerSum
      <4>3. (U * Z) * W = U * (Z * W)
        BY <2>2, <4>1
      <4> QED BY <1>6, <2>2, <3>3, <3>4, <4>1, <4>2, <4>3
    <3> QED BY <2>2, <3>4, <3>5, WholeAt
  <2> QED BY <1>8, <2>4, <2>5 DEF Needed
<1> QED BY <1>1, <1>5, <1>7, <1>8 DEF StepsWell, p2

(* A term of U units of 2^K, shifted up or not, zero exactly if U is.       *)
TermOf(sig, lsb, U, K) ==
  /\ U \in Nat /\ K \in Int /\ sig \in Nat
  /\ sig = 0 <=> U = 0
  /\ U # 0 => \E z \in Nat : ShiftedUp(sig, lsb, U, K, z)

(* The unit both terms are whole multiples of.                              *)
Common(U, K, V, H) == IF V = 0 THEN K ELSE IF U = 0 THEN H ELSE Reference!Least(K, H)
InCommon(U, K, k) == IF U = 0 THEN 0 ELSE U * 2^(K - k)
ExactSum(sx, U, K, sw, V, H) ==
  WithSign(sx, InCommon(U, K, Common(U, K, V, H))) + WithSign(sw, InCommon(V, H, Common(U, K, V, H)))

Rescales(U, z, K, k, m) == (U * 2^z) * 2^((K - z) - m) = (U * 2^(K - k)) * 2^(k - m)

(* One number in two units.                                                 *)
LEMMA Rescaled ==
  ASSUME NEW U \in Nat, NEW z \in Nat, NEW K \in Int, NEW k \in Int, NEW m \in Int,
         k <= K, m <= k, m <= K - z
  PROVE  Rescales(U, z, K, k, m)
<1>1. PICK a \in Nat, b \in Nat, c \in Nat, s \in Nat : a = (K - z) - m /\ b = K - k /\ c = k - m /\ s = K - m
  <2>1. (K - z) - m \in Nat /\ K - k \in Nat /\ k - m \in Nat /\ K - m \in Nat
    OBVIOUS
  <2> QED BY <2>1
<1>2. z + a = s /\ b + c = s
  BY <1>1
<1>3. PICK A \in Nat, B \in Nat, C \in Nat, Z \in Nat : A = 2^a /\ B = 2^b /\ C = 2^c /\ Z = 2^z
  BY <1>1, Powers
<1>4. Z * A = B * C
  <2>1. 2^(z + a) = Z * A /\ 2^(b + c) = B * C
    BY <1>1, <1>3, PowerSum
  <2> QED BY <1>2, <2>1
<1>5. (U * Z) * A = U * (Z * A) /\ (U * B) * C = U * (B * C)
  BY <1>3
<1> QED BY <1>1, <1>3, <1>4, <1>5 DEF Rescales

(* Signed terms scale together.                                             *)
LEMMA SignedScale ==
  ASSUME NEW sx \in BOOLEAN, NEW sw \in BOOLEAN, NEW a \in Nat, NEW b \in Nat, NEW t \in Nat
  PROVE  WithSign(sx, a * t) + WithSign(sw, b * t) = (WithSign(sx, a) + WithSign(sw, b)) * t
<1>1. /\ (a + b) * t = a * t + b * t
      /\ ((0 - a) + b) * t = (0 - a * t) + b * t
      /\ (a + (0 - b)) * t = a * t + (0 - b * t)
      /\ ((0 - a) + (0 - b)) * t = (0 - a * t) + (0 - b * t)
  OBVIOUS
<1>2. CASE sx /\ sw
  BY <1>1, <1>2 DEF WithSign
<1>3. CASE sx /\ ~sw
  BY <1>1, <1>3 DEF WithSign
<1>4. CASE ~sx /\ sw
  BY <1>1, <1>4 DEF WithSign
<1>5. CASE ~sx /\ ~sw
  BY <1>1, <1>5 DEF WithSign
<1> QED BY <1>2, <1>3, <1>4, <1>5

(* The lower of the exponents of two terms, of which a zero has none.       *)
LEMMA CommonIs ==
  ASSUME NEW U \in Nat, NEW K \in Int, NEW V \in Nat, NEW H \in Int
  PROVE  /\ Common(U, K, V, H) \in Int
         /\ U # 0 => Common(U, K, V, H) <= K
         /\ V # 0 => Common(U, K, V, H) <= H
         /\ Common(U, K, V, H) = K \/ Common(U, K, V, H) = H
  BY DEF Common, Reference!Least

(* Terms in their common unit are whole.                                    *)
LEMMA InCommonIs ==
  ASSUME NEW U \in Nat, NEW K \in Int, NEW k \in Int, U # 0 => k <= K
  PROVE  InCommon(U, K, k) \in Nat
<1>1. CASE U # 0
  <2>1. PICK a \in Nat : a = K - k
    <3>1. K - k \in Nat
      BY <1>1
    <3> QED BY <3>1
  <2>2. U * 2^a \in Nat
    BY Powers
  <2> QED BY <1>1, <2>1, <2>2 DEF InCommon
<1> QED BY <1>1 DEF InCommon

(* The sum the registers stand for is the exact one, in other units.        *)
LEMMA TotalScales ==
  ASSUME NEW x, NEW lx \in Int, NEW U, NEW K, TermOf(x, lx, U, K),
         NEW w, NEW lw \in Int, NEW V, NEW H, TermOf(w, lw, V, H), w # 0 => x # 0,
         NEW d \in Nat, d = IF w = 0 THEN 0 ELSE lx - lw,
         NEW sx \in BOOLEAN, NEW sw \in BOOLEAN
  PROVE  /\ ExactSum(sx, U, K, sw, V, H) \in Int
         /\ \E u \in Nat : /\ Total(x, sx, w, sw, d) = ExactSum(sx, U, K, sw, V, H) * 2^u
                           /\ ExactSum(sx, U, K, sw, V, H) # 0 => Common(U, K, V, H) = (lx - WIN) - Below(w, d) + u
<1> DEFINE k == Common(U, K, V, H)
           p == InCommon(U, K, k)
           s == InCommon(V, H, k)
           B == Below(w, d)
           m == (lx - WIN) - B
<1>1. /\ U \in Nat /\ K \in Int /\ x \in Nat /\ V \in Nat /\ H \in Int /\ w \in Nat
      /\ (x = 0 <=> U = 0) /\ (w = 0 <=> V = 0)
      /\ U # 0 => \E z \in Nat : ShiftedUp(x, lx, U, K, z)
      /\ V # 0 => \E z \in Nat : ShiftedUp(w, lw, V, H, z)
  BY DEF TermOf
<1>2. /\ WIN \in Nat /\ B \in Nat /\ m \in Int /\ m <= lx - WIN
      /\ w # 0 => m <= lw /\ WIN + B - d = lw - m
      /\ WIN + B = lx - m
  <2>1. WIN \in Nat
    BY Window
  <2>2. CASE w # 0 /\ d > WIN
    BY <1>1, <2>1, <2>2 DEF Below
  <2>3. CASE ~(w # 0 /\ d > WIN)
    BY <1>1, <2>1, <2>3 DEF Below
  <2> QED BY <2>2, <2>3
<1>3. k \in Int /\ (U # 0 => k <= K) /\ (V # 0 => k <= H) /\ (k = K \/ k = H) /\ (V = 0 => k = K)
  <2>1. V = 0 => k = K
    BY DEF Common
  <2> HIDE DEF k
  <2>2. k \in Int /\ (U # 0 => k <= K) /\ (V # 0 => k <= H) /\ (k = K \/ k = H)
    BY <1>1, CommonIs DEF k
  <2> QED BY <2>1, <2>2
<1>4. p \in Nat /\ s \in Nat
  BY <1>1, <1>3, InCommonIs
<1>5. ExactSum(sx, U, K, sw, V, H) = WithSign(sx, p) + WithSign(sw, s)
  BY DEF ExactSum
<1>6. ExactSum(sx, U, K, sw, V, H) \in Int
  BY <1>4, <1>5 DEF WithSign
<1> HIDE DEF k, p, s, B, m
<1>7. CASE U = 0
  <2>1. x = 0 /\ w = 0 /\ V = 0
    BY <1>1, <1>7
  <2>2. p = 0 /\ s = 0
    BY <1>7, <2>1 DEF p, s, InCommon
  <2>3. WithSign(sx, 0) + WithSign(sw, 0) = 0
    BY DEF WithSign
  <2>4. Total(x, sx, w, sw, d) = 0
    <3>1. 2^WIN \in Nat /\ 2^B \in Nat
      BY <1>2, Powers
    <3>2. (0 * 2^WIN) * 2^B = 0
      BY <3>1
    <3> QED BY <2>1, <2>3, <3>2 DEF Total, B
  <2>5. PICK u \in Nat : u = 0
    OBVIOUS
  <2>6. 0 * 2^u = 0
    BY Powers
  <2> QED BY <1>5, <1>6, <1>7, <2>2, <2>3, <2>4, <2>5, <2>6
<1>8. CASE U # 0
  <2>1. PICK z \in Nat : ShiftedUp(x, lx, U, K, z)
    BY <1>1, <1>8
  <2>2. x = U * 2^z /\ lx = K - z
    BY <2>1 DEF ShiftedUp
  <2>3. m <= k
    <3>1. CASE k = K
      BY <1>1, <1>2, <1>3, <2>2, <3>1
    <3>2. CASE k # K
      <4>1. V # 0 /\ k = H
        BY <1>3, <3>2
      <4>2. PICK y \in Nat : ShiftedUp(w, lw, V, H, y)
        BY <1>1, <4>1
      <4>3. lw = H - y /\ w # 0
        BY <1>1, <4>1, <4>2 DEF ShiftedUp
      <4> QED BY <1>1, <1>2, <4>1, <4>3
    <3> QED BY <3>1, <3>2
  <2>4. PICK u \in Nat : u = k - m
    <3>1. k - m \in Nat
      BY <1>2, <1>3, <2>3
    <3> QED BY <3>1
  <2>5. PICK t \in Nat : t = 2^u
    BY Powers
  <2>6. (x * 2^WIN) * 2^B = p * t
    <3>1. (x * 2^WIN) * 2^B = x * 2^(WIN + B)
      <4>1. PICK W \in Nat, b \in Nat : W = 2^WIN /\ b = 2^B
        BY <1>2, Powers
      <4>2. 2^(WIN + B) = W * b
        BY <1>2, <4>1, PowerSum
      <4>3. (x * W) * b = x * (W * b)
        BY <1>1, <4>1
      <4> QED BY <4>1, <4>2, <4>3
    <3>2. m <= K - z
      BY <1>1, <1>2, <2>2
    <3>3. (U * 2^z) * 2^((K - z) - m) = (U * 2^(K - k)) * 2^(k - m)
      <4>1. k <= K
        BY <1>3, <1>8
      <4>2. Rescales(U, z, K, k, m)
        BY <1>1, <1>2, <1>3, <2>3, <3>2, <4>1, Rescaled
      <4> QED BY <4>2 DEF Rescales
    <3>4. p = U * 2^(K - k)
      BY <1>8 DEF p, InCommon
    <3> QED BY <1>2, <2>2, <2>4, <2>5, <3>1, <3>3, <3>4
  <2>7. (IF w = 0 THEN 0 ELSE w * 2^(WIN + B - d)) = s * t
    <3>1. CASE w = 0
      <4>1. s = 0
        BY <1>1, <3>1 DEF s, InCommon
      <4> QED BY <3>1, <4>1
    <3>2. CASE w # 0
      <4>1. V # 0
        BY <1>1, <3>2
      <4>2. PICK y \in Nat : ShiftedUp(w, lw, V, H, y)
        BY <1>1, <4>1
      <4>3. w = V * 2^y /\ lw = H - y
        BY <4>2 DEF ShiftedUp
      <4>4. m <= H - y
        BY <1>2, <3>2, <4>3
      <4>5. (V * 2^y) * 2^((H - y) - m) = (V * 2^(H - k)) * 2^(k - m)
        <5>1. k <= H
          BY <1>3, <4>1
        <5>2. Rescales(V, y, H, k, m)
          BY <1>1, <1>2, <1>3, <2>3, <4>4, <5>1, Rescaled
        <5> QED BY <5>2 DEF Rescales
      <4>6. s = V * 2^(H - k)
        BY <4>1 DEF s, InCommon
      <4> QED BY <1>2, <2>4, <2>5, <3>2, <4>3, <4>5, <4>6
    <3> QED BY <3>1, <3>2
  <2>8. Total(x, sx, w, sw, d) = WithSign(sx, p * t) + WithSign(sw, s * t)
    BY <2>6, <2>7 DEF Total, B
  <2>9. Total(x, sx, w, sw, d) = ExactSum(sx, U, K, sw, V, H) * t
    BY <1>4, <1>5, <2>8, SignedScale
  <2>10. k = m + u
    BY <1>2, <1>3, <2>4
  <2> QED BY <1>6, <2>5, <2>9, <2>10 DEF k, m, B
<1> QED BY <1>7, <1>8

(* The order of the terms does not matter.                                  *)
LEMMA CommonSwaps ==
  ASSUME NEW P \in Nat, NEW kp \in Int, NEW C \in Nat, NEW kc \in Int, C # 0, NEW ps \in BOOLEAN, NEW cs \in BOOLEAN
  PROVE  /\ Common(C, kc, P, kp) = Common(P, kp, C, kc)
         /\ ExactSum(cs, C, kc, ps, P, kp) = ExactSum(ps, P, kp, cs, C, kc)
<1>1. Common(C, kc, P, kp) = Common(P, kp, C, kc)
  BY DEF Common, Reference!Least
<1>2. PICK k \in Int : k = Common(P, kp, C, kc) /\ (P # 0 => k <= kp) /\ (C # 0 => k <= kc)
  <2>1. Common(P, kp, C, kc) \in Int
    BY CommonIs
  <2>2. P # 0 => Common(P, kp, C, kc) <= kp
    BY CommonIs
  <2>3. C # 0 => Common(P, kp, C, kc) <= kc
    BY CommonIs
  <2> QED BY <2>1, <2>2, <2>3
<1>3. PICK p \in Nat, s \in Nat : p = InCommon(P, kp, k) /\ s = InCommon(C, kc, k)
  BY <1>2, InCommonIs
<1>4. WithSign(cs, s) + WithSign(ps, p) = WithSign(ps, p) + WithSign(cs, s)
  BY DEF WithSign
<1> QED BY <1>1, <1>2, <1>3, <1>4 DEF ExactSum

(* How large they get.                                                      *)
LEMMA InCommonBound ==
  ASSUME NEW V \in Nat, NEW K \in Int, NEW k \in Int, NEW n \in Nat, NEW c \in Nat,
         V < 2^n, V # 0 => k <= K /\ K - k + n <= c
  PROVE  InCommon(V, K, k) < 2^c
<1>1. CASE V = 0
  <2>1. 2^c >= 1 /\ 2^c \in Nat
    BY Powers
  <2> QED BY <1>1, <2>1 DEF InCommon
<1>2. CASE V # 0
  <2>1. PICK a \in Nat, s \in Nat : a = K - k /\ s = a + n /\ s <= c
    <3>1. K - k \in Nat /\ K - k + n \in Nat
      BY <1>2
    <3> QED BY <1>2, <3>1
  <2>2. PICK A \in Nat, N \in Nat, S \in Nat, D \in Nat : A = 2^a /\ A >= 1 /\ N = 2^n /\ S = 2^s /\ D = 2^c
    BY <2>1, Powers
  <2>3. S = A * N /\ S <= D
    <3>1. 2^(a + n) = A * N
      BY <2>1, <2>2, PowerSum
    <3>2. 2^s <= 2^c
      BY <2>1, PowerOrder
    <3> QED BY <2>1, <2>2, <3>1, <3>2
  <2>4. V * A <= (N - 1) * A /\ (N - 1) * A = A * N - A /\ V * A \in Nat /\ A * N \in Nat
    BY <2>2
  <2>5. V * A < D
    BY <2>2, <2>3, <2>4
  <2> QED BY <1>2, <2>1, <2>2, <2>5 DEF InCommon
<1> QED BY <1>1, <1>2

(* The terms are numbers of the format.                                     *)
InFormat(P, kp, C, kc) ==
  /\ P < 4 * (ONE * ONE) /\ C < 2 * ONE
  /\ P # 0 /\ C # 0 => kp - kc <= 3 * BIAS - FRAC - 1 /\ kc - kp <= 3 * BIAS + FRAC - 2

(* How large the exact sum gets.                                            *)
LEMMA SumBound ==
  ASSUME NEW P \in Nat, NEW kp \in Int, NEW C \in Nat, NEW kc \in Int, InFormat(P, kp, C, kc),
         NEW ps \in BOOLEAN, NEW cs \in BOOLEAN
  PROVE  /\ ExactSum(ps, P, kp, cs, C, kc) \in Int
         /\ Absolute(ExactSum(ps, P, kp, cs, C, kc)) < 2^(3 * BIAS + 2 * FRAC + 2)
<1>1. FRAC \in Nat /\ FRAC >= 3 /\ BIAS \in Nat /\ BIAS > FRAC /\ 2^(FRAC + 1) = 2 * ONE /\ 2^(2 * FRAC + 2) = 4 * (ONE * ONE)
  BY WindowPowers, Formats
<1>2. PICK k \in Int : k = Common(P, kp, C, kc) /\ (P # 0 => k <= kp) /\ (C # 0 => k <= kc)
  <2>1. Common(P, kp, C, kc) \in Int /\ (P # 0 => Common(P, kp, C, kc) <= kp) /\ (C # 0 => Common(P, kp, C, kc) <= kc)
    BY CommonIs
  <2> QED BY <2>1
<1>3. PICK p \in Nat, s \in Nat : p = InCommon(P, kp, k) /\ s = InCommon(C, kc, k)
  BY <1>2, InCommonIs
<1>4. PICK m \in Nat, n \in Nat, c \in Nat : m = 2 * FRAC + 2 /\ n = FRAC + 1 /\ c = 3 * BIAS + 2 * FRAC + 1 /\ c + 1 = 3 * BIAS + 2 * FRAC + 2
  <2>1. 2 * FRAC + 2 \in Nat /\ FRAC + 1 \in Nat /\ 3 * BIAS + 2 * FRAC + 1 \in Nat
        /\ 3 * BIAS + 2 * FRAC + 1 + 1 = 3 * BIAS + 2 * FRAC + 2
    BY <1>1
  <2> QED BY <2>1
<1>5. p < 2^c /\ s < 2^c
  <2>1. P < 2^m /\ C < 2^n
    BY <1>1, <1>4 DEF InFormat
  <2>2. (k = kp \/ (k = kc /\ C # 0)) /\ (P = 0 /\ C # 0 => k = kc)
    BY <1>2 DEF Common, Reference!Least
  <2>3. (P # 0 => kp - k + m <= c) /\ (C # 0 => kc - k + n <= c)
    BY <1>1, <1>2, <1>4, <2>2 DEF InFormat
  <2> QED BY <1>2, <1>3, <1>4, <2>1, <2>3, InCommonBound
<1>6. 2^(c + 1) = 2 * 2^c /\ 2^c \in Nat
  BY <1>4, Powers
<1>7. ExactSum(ps, P, kp, cs, C, kc) = (IF ps THEN 0 - p ELSE p) + (IF cs THEN 0 - s ELSE s)
  BY <1>2, <1>3 DEF ExactSum, WithSign
<1> DEFINE X == ExactSum(ps, P, kp, cs, C, kc)
<1> HIDE DEF X
<1>8. X \in Int /\ X < p + s + 1 /\ 0 - X < p + s + 1
  BY <1>3, <1>7 DEF X
<1>9. Absolute(X) < 2 * 2^c
  BY <1>3, <1>5, <1>6, <1>8 DEF Absolute
<1> QED BY <1>4, <1>6, <1>8, <1>9 DEF X

(* Magnitude and sign of a multiple.                                        *)
LEMMA AbsoluteScale ==
  ASSUME NEW X \in Int, NEW t \in Nat, t >= 1
  PROVE  /\ X * t \in Int /\ Absolute(X) \in Nat /\ Absolute(X * t) = Absolute(X) * t
         /\ (X * t < 0 <=> X < 0) /\ (X * t = 0 <=> X = 0)
<1>1. CASE X < 0
  <2>1. PICK y \in Nat : y = 0 - X /\ y >= 1 /\ X = 0 - y
    <3>1. 0 - X \in Nat
      BY <1>1
    <3> QED BY <1>1, <3>1
  <2>2. X * t = 0 - y * t /\ y * t \in Nat /\ y * t >= 1
    BY <2>1
  <2> QED BY <1>1, <2>1, <2>2 DEF Absolute
<1>2. CASE X = 0
  <2>1. X * t = 0
    BY <1>2
  <2> QED BY <1>2, <2>1 DEF Absolute
<1>3. CASE X > 0
  <2>1. X * t >= 1 /\ X * t \in Nat
    BY <1>3
  <2> QED BY <1>3, <2>1 DEF Absolute
<1> QED BY <1>1, <1>2, <1>3

(* The answer for a sum X in units of 2^k.                                  *)
SumAnswer(rm, zero_sign, X, k) ==
  IF X # 0 THEN Reference!Rounded(rm, X < 0, Absolute(X), 1, k) ELSE Answer(Zero(zero_sign), {})

(* The registers stand for T in units of 2^(base - B), T for X in units of  *)
(* 2^k.                                                                     *)
Registers(p2, T, B) ==
  /\ p2.base \in Int /\ T \in Int /\ B \in Nat
  /\ p2.full = 0 <=> T = 0
  /\ T # 0 => p2.acc_sign = (T < 0) /\ SumOf(p2, Absolute(T), 2^B)
Rebased(p2, T, B, X, k) ==
  /\ X \in Int /\ k \in Int
  /\ \E u \in Nat : T = X * 2^u /\ (X # 0 => k = p2.base - B + u)

(* The answer of the last stage is that of the exact sum.                   *)
LEMMA FinalSum ==
  ASSUME NEW p2, NEW T, NEW B, Registers(p2, T, B), NEW X, NEW k, Rebased(p2, T, B, X, k),
         Absolute(X) < 2^(3 * BIAS + 2 * FRAC + 2)
  PROVE  finite_final(p2) = SumAnswer(p2.rm, p2.zero_sign, X, k)
<1>1. PICK u \in Nat : T = X * 2^u /\ (X # 0 => k = p2.base - B + u)
  BY DEF Rebased
<1>2. /\ p2.base \in Int /\ T \in Int /\ B \in Nat /\ X \in Int /\ k \in Int
      /\ p2.full = 0 <=> T = 0
      /\ T # 0 => p2.acc_sign = (T < 0) /\ SumOf(p2, Absolute(T), 2^B)
  BY DEF Registers, Rebased
<1>3. PICK t \in Nat : t = 2^u /\ t >= 1
  BY Powers
<1>4. Absolute(X) \in Nat /\ Absolute(T) = Absolute(X) * t /\ (T < 0 <=> X < 0) /\ (T = 0 <=> X = 0)
  BY <1>1, <1>2, <1>3, AbsoluteScale
<1>5. CASE X = 0
  <2>1. p2.full = 0
    BY <1>2, <1>4, <1>5
  <2> QED BY <1>5, <2>1 DEF finite_final, SumAnswer
<1>6. CASE X # 0
  <2>1. PICK S \in Nat, N \in Nat, E \in Nat : S = Absolute(X) /\ N = Absolute(T) /\ E = 2^B /\ S >= 1
    <3>1. Absolute(X) # 0
      BY <1>2, <1>6 DEF Absolute
    <3>2. Absolute(T) \in Nat /\ 2^B \in Nat
      BY <1>2, Powers DEF Absolute
    <3> QED BY <1>4, <3>1, <3>2
  <2>2. SumOf(p2, N, E) /\ p2.acc_sign = (X < 0)
    BY <1>2, <1>4, <1>6, <2>1
  <2>3. Scales(p2.base, S, k, N, E)
    BY <1>1, <1>2, <1>3, <1>4, <1>6, <2>1 DEF Scales
  <2>4. FRAC \in Nat /\ FRAC >= 3 /\ BIAS \in Nat /\ BIAS > FRAC
    BY Formats
  <2>5. PICK b \in Nat : b = 3 * BIAS + 2 * FRAC + 2
    BY <2>4
  <2>6. PICK l \in 0..b - 1 : 2^l <= S /\ S < 2^(l + 1)
    BY <2>1, <2>5, HasLeadingBit
  <2>7. Leads(S, l) /\ l <= 4 * (FRAC + BIAS)
    BY <2>4, <2>5, <2>6 DEF Leads
  <2>8. finite_final(p2) = Reference!Rounded(p2.rm, p2.acc_sign, S, 1, k)
    BY <2>2, <2>3, <2>7, SumRounds
  <2> QED BY <1>6, <2>1, <2>2, <2>8 DEF SumAnswer
<1> QED BY <1>5, <1>6

(* The three stages: a product of P units and a summand of C units.         *)
LEMMA FusedSum ==
  ASSUME NEW p0, Factored(p0), ~Lost(p0),
         NEW P, NEW kp, TermOf(p0.prod, p0.p_exp, P, kp),
         NEW C, NEW kc, TermOf(p0.c_sig, p0.c_lsb, C, kc),
         C # 0 => NormalisedTo(p0.c_sig, p0.c_lsb, C, kc), InFormat(P, kp, C, kc)
  PROVE  finite_final(Add(Align(p0))) =
           SumAnswer(p0.rm, IF p0.p_sign = p0.c_sign THEN p0.p_sign ELSE p0.rm = "RDN",
                     ExactSum(p0.p_sign, P, kp, p0.c_sign, C, kc), Common(P, kp, C, kc))
<1>1. /\ P \in Nat /\ kp \in Int /\ C \in Nat /\ kc \in Int
      /\ (p0.prod = 0 <=> P = 0) /\ (p0.c_sig = 0 <=> C = 0)
  BY DEF TermOf
<1>2. /\ p0.p_sign \in BOOLEAN /\ p0.c_sign \in BOOLEAN /\ p0.prod \in Nat /\ p0.c_sig \in Nat
      /\ p0.p_exp \in Int /\ p0.c_lsb \in Int
  BY DEF Factored
<1> DEFINE p2 == Add(Align(p0))
           X == ExactSum(p0.p_sign, P, kp, p0.c_sign, C, kc)
           k == Common(P, kp, C, kc)
           zs == IF p0.p_sign = p0.c_sign THEN p0.p_sign ELSE p0.rm = "RDN"
<1>3. X \in Int /\ Absolute(X) < 2^(3 * BIAS + 2 * FRAC + 2) /\ k \in Int
  BY <1>1, <1>2, SumBound, CommonIs
<1>4. WIN \in Nat
  BY Window
<1>5. CASE ProductLeads(p0)
  <2>1. PICK d : d = IF p0.c_sig = 0 THEN 0 ELSE p0.p_exp - p0.c_lsb
    OBVIOUS
  <2>2. PICK n \in Nat : n = FRAC + 1
    BY Window
  <2>3. /\ Meets(p2, p0.prod, p0.p_sign, p0.c_sig, p0.c_sign, d, n)
        /\ Sized(p0.prod, p0.c_sig, n) /\ p2.base = p0.p_exp - WIN /\ p2.rm = p0.rm /\ p2.zero_sign = zs
    BY <1>5, <2>1, <2>2, ProductMeets
  <2>4. Steps(p0.p_sign, p0.c_sig, p0.c_sign, d) => StepsWell(p2, n, d)
    BY <1>5, <2>1, <2>2, ProductStepsWell
  <2> HIDE DEF p2, X, k, zs
  <2>5. PICK T, B : T = Total(p0.prod, p0.p_sign, p0.c_sig, p0.c_sign, d) /\ B = Below(p0.c_sig, d)
    OBVIOUS
  <2>6. d \in Nat /\ B \in Nat
    BY <1>4, <2>3, <2>5 DEF Meets, Below
  <2>7. p2.base \in Int
    BY <1>2, <1>4, <2>3
  <2>8. /\ T \in Int /\ (p2.full = 0 <=> T = 0)
        /\ T # 0 => p2.acc_sign = (T < 0) /\ SumOf(p2, Absolute(T), 2^B)
    BY <2>3, <2>4, <2>5, <2>7, TermsSum
  <2>9. PICK u \in Nat : T = X * 2^u /\ (X # 0 => k = (p0.p_exp - WIN) - B + u)
    <3>1. p0.c_sig # 0 => p0.prod # 0
      BY <1>5 DEF ProductLeads
    <3>2. X = ExactSum(p0.p_sign, P, kp, p0.c_sign, C, kc) /\ k = Common(P, kp, C, kc)
      BY DEF X, k
    <3> QED BY <1>2, <2>1, <2>5, <2>6, <3>1, <3>2, TotalScales
  <2>10. finite_final(p2) = SumAnswer(p2.rm, p2.zero_sign, X, k)
    <3>1. X \in Int /\ k \in Int /\ Absolute(X) < 2^(3 * BIAS + 2 * FRAC + 2)
      BY <1>3 DEF X, k
    <3>2. Rebased(p2, T, B, X, k)
      BY <2>3, <2>9, <3>1 DEF Rebased
    <3>3. Registers(p2, T, B)
      BY <2>6, <2>7, <2>8 DEF Registers
    <3> QED BY <3>1, <3>2, <3>3, FinalSum
  <2> QED BY <2>3, <2>10 DEF p2, X, k, zs
<1>6. CASE ~ProductLeads(p0)
  <2>0. p0.c_sig # 0 /\ C # 0
    BY <1>1, <1>6 DEF ProductLeads
  <2>1. PICK d : d = IF p0.prod = 0 THEN 0 ELSE p0.c_lsb - p0.p_exp
    OBVIOUS
  <2>2. PICK n \in Nat : n = 2 * FRAC + 2
    BY Window
  <2>3. /\ Meets(p2, p0.c_sig, p0.c_sign, p0.prod, p0.p_sign, d, n)
        /\ Sized(p0.c_sig, p0.prod, n) /\ p2.base = p0.c_lsb - WIN /\ p2.rm = p0.rm /\ p2.zero_sign = zs
    BY <1>6, <2>1, <2>2, SummandMeets
  <2>4. Steps(p0.c_sign, p0.prod, p0.p_sign, d) => StepsWell(p2, n, d)
    BY <1>6, <2>0, <2>1, <2>2, SummandStepsWell
  <2> HIDE DEF p2, X, k, zs
  <2>5. PICK T, B : T = Total(p0.c_sig, p0.c_sign, p0.prod, p0.p_sign, d) /\ B = Below(p0.prod, d)
    OBVIOUS
  <2>6. d \in Nat /\ B \in Nat
    BY <1>4, <2>3, <2>5 DEF Meets, Below
  <2>7. p2.base \in Int
    BY <1>2, <1>4, <2>3
  <2>8. /\ T \in Int /\ (p2.full = 0 <=> T = 0)
        /\ T # 0 => p2.acc_sign = (T < 0) /\ SumOf(p2, Absolute(T), 2^B)
    BY <2>3, <2>4, <2>5, <2>7, TermsSum
  <2>9. PICK u \in Nat : T = X * 2^u /\ (X # 0 => k = (p0.c_lsb - WIN) - B + u)
    <3>1. X = ExactSum(p0.c_sign, C, kc, p0.p_sign, P, kp) /\ k = Common(C, kc, P, kp)
      BY <1>1, <1>2, <2>0, CommonSwaps DEF X, k
    <3> QED BY <1>2, <2>0, <2>1, <2>5, <2>6, <3>1, TotalScales
  <2>10. finite_final(p2) = SumAnswer(p2.rm, p2.zero_sign, X, k)
    <3>1. X \in Int /\ k \in Int /\ Absolute(X) < 2^(3 * BIAS + 2 * FRAC + 2)
      BY <1>3 DEF X, k
    <3>2. Rebased(p2, T, B, X, k)
      BY <2>3, <2>9, <3>1 DEF Rebased
    <3>3. Registers(p2, T, B)
      BY <2>6, <2>7, <2>8 DEF Registers
    <3> QED BY <3>1, <3>2, <3>3, FinalSum
  <2> QED BY <2>3, <2>10 DEF p2, X, k, zs
<1> QED BY <1>5, <1>6

(* An operand that is U units of 2^K.                                       *)
Number(o, U, K) ==
  /\ U \in Nat /\ U < 2 * ONE /\ K \in Int /\ K >= EMIN - FRAC /\ K <= BIAS - FRAC
  /\ o.sig \in Nat /\ o.sig < 2 * ONE /\ o.exp \in Int
  /\ o.sig = 0 <=> U = 0
  /\ o.sig # 0 => o.sig >= ONE /\ NormalisedTo(o.sig, o.exp - FRAC, U, K)

(* A decoded operand is the number it was decoded from.                     *)
LEMMA NumberOf ==
  ASSUME NEW x \in Floats, is_zero(x) \/ finite(x)
  PROVE  Number(decode(x), Reference!Units(x), Reference!Last(x))
<1> DEFINE o == decode(x)
<1>1. /\ x.exp \in 0..SPECIAL /\ x.frac \in 0..ONE - 1 /\ SPECIAL = 2 * BIAS + 1 /\ ONE \in Nat /\ ONE >= 8
      /\ FRAC \in Nat /\ FRAC >= 3 /\ BIAS \in Nat /\ BIAS > FRAC /\ EMIN = 1 - BIAS
  BY Formats DEF Floats, EMIN
<1>2. /\ Reference!Units(x) = IF x.exp = 0 THEN x.frac ELSE ONE + x.frac
      /\ Reference!Last(x) = (IF x.exp = 0 THEN EMIN ELSE x.exp - BIAS) - FRAC
  BY ReferenceFormat DEF Reference!Units, Reference!Last
<1>3. x.exp <= SPECIAL - 1
  BY <1>1 DEF is_zero, finite
<1>4. PICK U \in Nat, K \in Int : U = Reference!Units(x) /\ K = Reference!Last(x)
                                  /\ U < 2 * ONE /\ K >= EMIN - FRAC /\ K <= BIAS - FRAC
  <2>1. CASE x.exp = 0
    BY <1>1, <1>2, <2>1
  <2>2. CASE x.exp # 0
    BY <1>1, <1>2, <1>3, <2>2
  <2> QED BY <2>1, <2>2
<1>5. CASE is_zero(x)
  <2>1. o.exp = 0 /\ o.sig = 0
    <3>1. o.kind = "zero"
      BY <1>5, DecodedKind
    <3> QED BY <3>1, DecodedKind
  <2>2. U = 0
    BY <1>1, <1>2, <1>4, <1>5 DEF is_zero
  <2> HIDE DEF o
  <2> QED BY <1>1, <1>4, <2>1, <2>2 DEF Number, o
<1>6. CASE finite(x)
  <2>1. PICK z \in 0..FRAC : Normalises(x, o, z)
    BY <1>6, DecodedFinite
  <2> HIDE DEF o
  <2>2. /\ o.sig = U * 2^z /\ o.exp - FRAC = K - z /\ o.sig \in ONE..2 * ONE - 1
        /\ o.exp \in 1 - BIAS - FRAC..BIAS /\ (z # 0 => x.exp = 0)
    BY <1>4, <2>1 DEF Normalises
  <2>3. U # 0 /\ U >= 1
    <3>1. ASSUME U = 0 PROVE FALSE
      <4>1. 2^z \in Nat
        <5>1. z \in 0..4 * FRAC + BIAS + 1
          BY <1>1
        <5> QED BY <5>1, Powers
      <4>2. 0 * 2^z = 0
        BY <4>1
      <4> QED BY <1>1, <2>2, <3>1, <4>2
    <3> QED BY <1>4, <3>1
  <2>4. z # 0 => K = EMIN - FRAC
    BY <1>2, <1>4, <2>2
  <2>5. ShiftedUp(o.sig, o.exp - FRAC, U, K, z)
    BY <1>1, <1>4, <2>2, <2>3 DEF ShiftedUp
  <2>6. NormalisedTo(o.sig, o.exp - FRAC, U, K)
    BY <1>4, <2>4, <2>5 DEF NormalisedTo
  <2>7. o.sig \in Nat /\ o.sig # 0 /\ o.sig >= ONE /\ o.sig < 2 * ONE /\ o.exp \in Int
    BY <1>1, <2>2
  <2> QED BY <1>4, <2>3, <2>6, <2>7 DEF Number, o
<1> QED BY <1>5, <1>6

(* The registers of stage 0 for three operands that are numbers.            *)
Multiplied(p0, a, b, c, rm) ==
  /\ p0.rm = rm /\ p0.p_sign = (a.sign # b.sign) /\ p0.c_sign = c.sign
  /\ p0.prod = Product(a.sig, b.sig) /\ p0.p_exp = a.exp + b.exp - 2 * FRAC
  /\ p0.c_sig = c.sig /\ p0.c_lsb = c.exp - FRAC

(* Products of shifted numbers.                                             *)
LEMMA ShiftedProduct ==
  ASSUME NEW s, NEW l, NEW U, NEW K, NEW y, ShiftedUp(s, l, U, K, y),
         NEW t, NEW m, NEW V, NEW H, NEW z, ShiftedUp(t, m, V, H, z)
  PROVE  ShiftedUp(s * t, l + m, U * V, K + H, y + z)
<1>1. /\ U \in Nat /\ U >= 1 /\ K \in Int /\ y \in Nat /\ s = U * 2^y /\ l = K - y
      /\ V \in Nat /\ V >= 1 /\ H \in Int /\ z \in Nat /\ t = V * 2^z /\ m = H - z
  BY DEF ShiftedUp
<1>2. PICK Y \in Nat, Z \in Nat : Y = 2^y /\ Z = 2^z
  BY <1>1, Powers
<1>3. 2^(y + z) = Y * Z
  BY <1>1, <1>2, PowerSum
<1>4. (U * Y) * (V * Z) = (U * V) * (Y * Z)
  <2>1. (U * Y) * (V * Z) = U * (Y * (V * Z)) /\ Y * (V * Z) = V * (Y * Z) /\ U * (V * (Y * Z)) = (U * V) * (Y * Z)
    BY <1>1, <1>2
  <2> QED BY <2>1
<1>5. U * V \in Nat /\ U * V >= 1 /\ K + H \in Int /\ y + z \in Nat /\ l + m = (K + H) - (y + z)
  <2>1. U * V >= 1 * 1 /\ U * V \in Nat
    BY <1>1
  <2> QED BY <1>1, <2>1
<1> QED BY <1>1, <1>2, <1>3, <1>4, <1>5 DEF ShiftedUp

(* The first stage holds the product and the summand exactly.               *)
LEMMA NumbersFactored ==
  ASSUME NEW p0, NEW a, NEW b, NEW c, NEW rm \in RoundingModes, Multiplied(p0, a, b, c, rm),
         a.sign \in BOOLEAN, b.sign \in BOOLEAN, c.sign \in BOOLEAN,
         NEW U, NEW K, Number(a, U, K), NEW V, NEW H, Number(b, V, H), NEW C, NEW kc, Number(c, C, kc)
  PROVE  /\ Factored(p0) /\ p0.prod = a.sig * b.sig
         /\ TermOf(p0.prod, p0.p_exp, U * V, K + H) /\ TermOf(p0.c_sig, p0.c_lsb, C, kc)
         /\ C # 0 => NormalisedTo(p0.c_sig, p0.c_lsb, C, kc)
         /\ InFormat(U * V, K + H, C, kc)
<1>1. /\ U \in Nat /\ U < 2 * ONE /\ K \in Int /\ K >= EMIN - FRAC /\ K <= BIAS - FRAC
      /\ a.sig \in Nat /\ a.sig < 2 * ONE /\ a.exp \in Int /\ (a.sig = 0 <=> U = 0)
      /\ a.sig # 0 => a.sig >= ONE /\ NormalisedTo(a.sig, a.exp - FRAC, U, K)
  BY DEF Number
<1>2. /\ V \in Nat /\ V < 2 * ONE /\ H \in Int /\ H >= EMIN - FRAC /\ H <= BIAS - FRAC
      /\ b.sig \in Nat /\ b.sig < 2 * ONE /\ b.exp \in Int /\ (b.sig = 0 <=> V = 0)
      /\ b.sig # 0 => b.sig >= ONE /\ NormalisedTo(b.sig, b.exp - FRAC, V, H)
  BY DEF Number
<1>3. /\ C \in Nat /\ C < 2 * ONE /\ kc \in Int /\ kc >= EMIN - FRAC /\ kc <= BIAS - FRAC
      /\ c.sig \in Nat /\ c.sig < 2 * ONE /\ c.exp \in Int /\ (c.sig = 0 <=> C = 0)
      /\ c.sig # 0 => c.sig >= ONE /\ NormalisedTo(c.sig, c.exp - FRAC, C, kc)
  BY DEF Number
<1>4. FRAC \in Nat /\ BIAS \in Nat /\ ONE \in Nat /\ ONE >= 8 /\ EMIN = 1 - BIAS
  BY Formats DEF EMIN
<1>5. p0.prod = a.sig * b.sig
  <2>1. b.sig \in 0..2 * ONE - 1
    BY <1>2, <1>4
  <2> QED BY <1>1, <2>1, ProductIs DEF Multiplied
<1>6. \A m \in Nat, n \in Nat : /\ m * n \in Nat /\ (m * n = 0 <=> m = 0 \/ n = 0)
                                /\ m < 2 * ONE /\ n < 2 * ONE => m * n < 4 * (ONE * ONE)
                                /\ m >= ONE /\ n >= ONE => m * n >= ONE * ONE
  <2> SUFFICES ASSUME NEW m \in Nat, NEW n \in Nat
               PROVE  /\ m * n \in Nat /\ (m * n = 0 <=> m = 0 \/ n = 0)
                      /\ m < 2 * ONE /\ n < 2 * ONE => m * n < 4 * (ONE * ONE)
                      /\ m >= ONE /\ n >= ONE => m * n >= ONE * ONE
    OBVIOUS
  <2>1. m * n \in Nat /\ (m = 0 \/ n = 0 => m * n = 0)
    OBVIOUS
  <2>2. m # 0 /\ n # 0 => m * n # 0
    <3> SUFFICES ASSUME m >= 1, n >= 1 PROVE m * n >= 1
      BY <2>1
    <3>1. m * n >= 1 * 1
      OBVIOUS
    <3> QED BY <3>1
  <2>3. ASSUME m < 2 * ONE, n < 2 * ONE PROVE m * n < 4 * (ONE * ONE)
    <3>1. PICK h \in Nat : h = 2 * ONE /\ h >= 1
      BY <1>4
    <3>2. m * n <= (h - 1) * n /\ (h - 1) * n = h * n - n /\ h * n <= h * (h - 1) /\ h * (h - 1) = h * h - h
          /\ h * n \in Nat /\ h * h \in Nat
      BY <2>3, <3>1
    <3>3. h * h = 4 * (ONE * ONE)
      BY <1>4, <3>1
    <3> QED BY <2>1, <3>1, <3>2, <3>3
  <2>4. ASSUME m >= ONE, n >= ONE PROVE m * n >= ONE * ONE
    BY <1>4, <2>4
  <2> QED BY <2>1, <2>2, <2>3, <2>4
<1>7. /\ a.sig * b.sig \in Nat /\ U * V \in Nat /\ U * V < 4 * (ONE * ONE) /\ a.sig * b.sig < 4 * (ONE * ONE)
      /\ (a.sig * b.sig = 0 <=> a.sig = 0 \/ b.sig = 0) /\ (U * V = 0 <=> U = 0 \/ V = 0)
      /\ a.sig # 0 /\ b.sig # 0 => a.sig * b.sig >= ONE * ONE
  BY <1>1, <1>2, <1>6
<1>8. Factored(p0)
  <2>1. p0.rm = rm /\ p0.p_sign \in BOOLEAN /\ p0.c_sign \in BOOLEAN /\ p0.c_sig = c.sig
        /\ p0.p_exp \in Int /\ p0.c_lsb \in Int
    BY <1>1, <1>2, <1>3, <1>4 DEF Multiplied
  <2> QED BY <1>3, <1>5, <1>7, <2>1 DEF Factored
<1>9. TermOf(p0.prod, p0.p_exp, U * V, K + H)
  <2>1. ASSUME U * V # 0 PROVE \E z \in Nat : ShiftedUp(p0.prod, p0.p_exp, U * V, K + H, z)
    <3>1. a.sig # 0 /\ b.sig # 0
      BY <1>1, <1>2, <1>7, <2>1
    <3>2. PICK y \in 0..FRAC : ShiftedUp(a.sig, a.exp - FRAC, U, K, y)
      BY <1>1, <3>1 DEF NormalisedTo
    <3>3. PICK z \in 0..FRAC : ShiftedUp(b.sig, b.exp - FRAC, V, H, z)
      BY <1>2, <3>1 DEF NormalisedTo
    <3>4. ShiftedUp(a.sig * b.sig, (a.exp - FRAC) + (b.exp - FRAC), U * V, K + H, y + z)
      BY <3>2, <3>3, ShiftedProduct
    <3>5. (a.exp - FRAC) + (b.exp - FRAC) = p0.p_exp /\ y + z \in Nat
      BY <1>1, <1>2, <1>4 DEF Multiplied
    <3> QED BY <1>5, <3>4, <3>5
  <2>2. p0.prod = 0 <=> U * V = 0
    BY <1>1, <1>2, <1>5, <1>7
  <2>3. K + H \in Int
    BY <1>1, <1>2
  <2> QED BY <1>5, <1>7, <2>1, <2>2, <2>3 DEF TermOf
<1>10. TermOf(p0.c_sig, p0.c_lsb, C, kc) /\ (C # 0 => NormalisedTo(p0.c_sig, p0.c_lsb, C, kc))
  <2>1. p0.c_sig = c.sig /\ p0.c_lsb = c.exp - FRAC
    BY DEF Multiplied
  <2>2. C # 0 => NormalisedTo(p0.c_sig, p0.c_lsb, C, kc)
    BY <1>3, <2>1
  <2>3. C # 0 => \E z \in Nat : ShiftedUp(p0.c_sig, p0.c_lsb, C, kc, z)
    <3>1. \A z \in 0..FRAC : z \in Nat
      BY <1>4
    <3> QED BY <2>2, <3>1 DEF NormalisedTo
  <2> QED BY <1>3, <2>1, <2>2, <2>3 DEF TermOf
<1>11. InFormat(U * V, K + H, C, kc)
  BY <1>1, <1>2, <1>3, <1>4, <1>7 DEF InFormat
<1> QED BY <1>5, <1>8, <1>9, <1>10, <1>11

(* The reference for three numbers.                                         *)
ThreeNumbers(a, b, c, np, nc, U, K, V, H, C, kc, pn, cn) ==
  /\ ~is_inf(a) /\ ~is_nan(a) /\ ~is_inf(b) /\ ~is_nan(b) /\ ~is_inf(c) /\ ~is_nan(c)
  /\ U \in Nat /\ U = Reference!Units(a) /\ K \in Int /\ K = Reference!Last(a)
  /\ V \in Nat /\ V = Reference!Units(b) /\ H \in Int /\ H = Reference!Last(b)
  /\ C \in Nat /\ C = Reference!Units(c) /\ kc \in Int /\ kc = Reference!Last(c)
  /\ pn \in BOOLEAN /\ pn = ((a.sign # b.sign) # np) /\ cn \in BOOLEAN /\ cn = (c.sign # nc)

(* The reference on three numbers is the exact sum, rounded.                *)
LEMMA NumbersSum ==
  ASSUME NEW a, NEW b, NEW c, NEW rm, NEW np, NEW nc,
         NEW U, NEW K, NEW V, NEW H, NEW C, NEW kc, NEW pn, NEW cn,
         ThreeNumbers(a, b, c, np, nc, U, K, V, H, C, kc, pn, cn),
         NEW P, P = U * V, NEW kp, kp = K + H
  PROVE  Reference!RefSum(rm, a, b, c, np, nc) =
           SumAnswer(rm, IF pn = cn THEN pn ELSE rm = "RDN",
                     ExactSum(pn, P, kp, cn, C, kc), Common(P, kp, C, kc))
<1>1. /\ ~is_inf(a) /\ ~is_nan(a) /\ ~is_inf(b) /\ ~is_nan(b) /\ ~is_inf(c) /\ ~is_nan(c)
      /\ U = Reference!Units(a) /\ K = Reference!Last(a) /\ V = Reference!Units(b) /\ H = Reference!Last(b)
      /\ C = Reference!Units(c) /\ kc = Reference!Last(c)
      /\ pn = ((a.sign # b.sign) # np) /\ cn = (c.sign # nc)
  BY DEF ThreeNumbers
<1>0. U \in Nat /\ V \in Nat /\ K \in Int /\ H \in Int /\ P \in Nat /\ kp \in Int /\ C \in Nat /\ kc \in Int /\ pn \in BOOLEAN /\ cn \in BOOLEAN
  BY DEF ThreeNumbers
<1> DEFINE k == Common(P, kp, C, kc)
           p == InCommon(P, kp, k)
           s == InCommon(C, kc, k)
           exact == (IF pn THEN -p ELSE p) + (IF cn THEN -s ELSE s)
<1>2. /\ ~Reference!AnyNaN({a, b, c}) /\ ~Reference!is_inf(a) /\ ~Reference!is_inf(b) /\ ~Reference!is_inf(c)
      /\ \A n \in Int : Reference!Pow2(n) = 2^n
  BY <1>1, ReferenceFormat DEF Reference!AnyNaN, Reference!Pow2
<1>3. k \in Int /\ (P # 0 => k <= kp) /\ (C # 0 => k <= kc)
  <2>1. Common(P, kp, C, kc) \in Int /\ (P # 0 => Common(P, kp, C, kc) <= kp) /\ (C # 0 => Common(P, kp, C, kc) <= kc)
    BY ONLY <1>0, CommonIs
  <2> QED BY ONLY <2>1
<1>4. k = IF C = 0 THEN K + H ELSE IF U * V = 0 THEN kc ELSE Reference!Least(K + H, kc)
  BY DEF Common
<1>5. /\ p = IF U * V = 0 THEN 0 ELSE U * V * Reference!Pow2(K + H - k)
      /\ s = IF C = 0 THEN 0 ELSE C * Reference!Pow2(kc - k)
  <2> HIDE DEF k
  <2>1. Reference!Pow2(K + H - k) = 2^(kp - k) /\ Reference!Pow2(kc - k) = 2^(kc - k)
    BY <1>0, <1>2, <1>3
  <2> QED BY <2>1 DEF InCommon
<1>6. Reference!RefSum(rm, a, b, c, np, nc) =
        IF exact # 0
        THEN Reference!Rounded(rm, exact < 0, IF exact < 0 THEN -exact ELSE exact, 1, k)
        ELSE Reference!Answer(Reference!Zero(IF pn = cn THEN pn ELSE rm = "RDN"), {})
  <2> HIDE DEF k, p, s
  <2> QED BY <1>0, <1>1, <1>2, <1>4, <1>5 DEF Reference!RefSum
<1>7. p \in Nat /\ s \in Nat
  <2> HIDE DEF k
  <2> QED BY <1>0, <1>3, InCommonIs
<1>8. ExactSum(pn, P, kp, cn, C, kc) = WithSign(pn, p) + WithSign(cn, s)
  BY DEF ExactSum
<1>9. exact = ExactSum(pn, P, kp, cn, C, kc) /\ exact \in Int
  <2> HIDE DEF p, s
  <2> QED BY <1>0, <1>7, <1>8 DEF WithSign
<1> HIDE DEF exact
<1>10. (IF exact < 0 THEN -exact ELSE exact) = Absolute(exact)
  BY <1>9 DEF Absolute
<1> HIDE DEF k
<1>11. Reference!RefSum(rm, a, b, c, np, nc) =
         SumAnswer(rm, IF pn = cn THEN pn ELSE rm = "RDN", exact, k)
  BY <1>6, <1>10, ReferenceFormat DEF SumAnswer
<1> QED BY <1>9, <1>11 DEF k

(* An operand and the number it was decoded from, whatever its sign.        *)
SameOperand(t, x) ==
  /\ x \in Floats /\ t.sign \in BOOLEAN
  /\ t.kind = decode(x).kind /\ t.exp = decode(x).exp /\ t.sig = decode(x).sig

KindOf(t, x) ==
  /\ t.kind = "zero" <=> is_zero(x)
  /\ t.kind = "inf" <=> is_inf(x)
  /\ t.kind = "snan" <=> is_snan(x)
  /\ nan(t) <=> is_nan(x)
  /\ t.kind = "finite" <=> finite(x)
  /\ t.kind \in Kinds

(* The kinds of a decoded operand.                                          *)
LEMMA SameKind ==
  ASSUME NEW t, NEW x, SameOperand(t, x)
  PROVE  KindOf(t, x)
<1>1. x \in Floats /\ t.kind = decode(x).kind
  BY DEF SameOperand
<1>2. nan(t) <=> nan(decode(x))
  BY <1>1 DEF nan
<1> QED BY <1>1, <1>2, DecodedKind DEF KindOf

(* Infinities and NaNs.                                                     *)
LEMMA SpecialSum ==
  ASSUME NEW t, NEW a, SameOperand(t, a), NEW u, NEW b, SameOperand(u, b), NEW v, NEW c, SameOperand(v, c),
         is_special(t, u, v), NEW rm, NEW np \in BOOLEAN, NEW nc \in BOOLEAN,
         (t.sign # u.sign) = ((a.sign # b.sign) # np), v.sign = (c.sign # nc)
  PROVE  sp_answer(t, u, v) = Reference!RefSum(rm, a, b, c, np, nc)
<1>1. KindOf(t, a) /\ KindOf(u, b) /\ KindOf(v, c)
  BY SameKind
<1>2. PICK pn \in BOOLEAN, cn \in BOOLEAN : /\ pn = (t.sign # u.sign) /\ cn = v.sign
                                            /\ pn = ((a.sign # b.sign) # np) /\ cn = (c.sign # nc)
  BY DEF SameOperand
<1> DEFINE kinds == {t.kind, u.kind}
           mul_invalid == kinds = {"zero", "inf"}
           prod_inf == "inf" \in kinds /\ ~mul_invalid /\ ~nan(t) /\ ~nan(u)
           inf_opposite == prod_inf /\ v.kind = "inf" /\ pn # cn
           invalid == "snan" \in kinds \cup {v.kind} \/ mul_invalid \/ inf_opposite
           any == nan(t) \/ nan(u) \/ nan(v)
           p_inf == is_inf(a) \/ is_inf(b)
<1>3. sp_answer(t, u, v) = IF any \/ mul_invalid \/ inf_opposite
                           THEN Answer(CanonicalNaN, Raise("NV", invalid))
                           ELSE Answer(Inf(IF prod_inf THEN pn ELSE cn), {})
  BY <1>2 DEF sp_answer
<1>4. /\ any <=> Reference!AnyNaN({a, b, c})
      /\ Reference!QuietNaN({a, b, c}) = Answer(CanonicalNaN, Raise("NV", "snan" \in kinds \cup {v.kind}))
      /\ Reference!Invalid = Answer(CanonicalNaN, {"NV"})
  <2>1. any <=> Reference!AnyNaN({a, b, c})
    BY <1>1, ReferenceFormat DEF Reference!AnyNaN, KindOf
  <2>2. (\E x \in {a, b, c} : Reference!is_snan(x)) <=> "snan" \in kinds \cup {v.kind}
    BY <1>1, ReferenceFormat DEF KindOf
  <2>3. Reference!QuietNaN({a, b, c}) = Answer(CanonicalNaN, Raise("NV", "snan" \in kinds \cup {v.kind}))
    BY <2>2, ReferenceFormat DEF Reference!QuietNaN, Raise
  <2>4. Reference!Invalid = Answer(CanonicalNaN, {"NV"})
    BY ReferenceFormat DEF Reference!Invalid
  <2> QED BY <2>1, <2>3, <2>4
<1>5. /\ mul_invalid <=> (is_zero(a) /\ is_inf(b)) \/ (is_inf(a) /\ is_zero(b))
      /\ "inf" \in kinds <=> p_inf
      /\ ~(is_zero(a) /\ is_inf(a)) /\ ~(is_zero(b) /\ is_inf(b))
      /\ v.kind = "inf" <=> is_inf(c)
      /\ v.kind = "inf" => ~nan(v)
      /\ any \/ p_inf \/ is_inf(c)
  <2>1. mul_invalid <=> (is_zero(a) /\ is_inf(b)) \/ (is_inf(a) /\ is_zero(b))
    BY <1>1 DEF KindOf
  <2>2. any \/ p_inf \/ is_inf(c)
    BY <1>1 DEF KindOf, is_special
  <2> QED BY <1>1, <2>1, <2>2 DEF KindOf, nan
<1>6. p_inf /\ (is_zero(a) \/ is_zero(b)) <=> mul_invalid
  BY <1>5
<1>7. Reference!RefSum(rm, a, b, c, np, nc) =
        IF p_inf /\ (is_zero(a) \/ is_zero(b)) THEN Reference!Invalid
        ELSE IF any THEN Reference!QuietNaN({a, b, c})
        ELSE IF p_inf THEN IF is_inf(c) /\ pn # cn THEN Reference!Invalid ELSE Answer(Inf(pn), {})
        ELSE Answer(Inf(cn), {})
  <2>1. Reference!Answer(Reference!Inf(pn), {}) = Answer(Inf(pn), {}) /\ Reference!Answer(Reference!Inf(cn), {}) = Answer(Inf(cn), {})
    BY ReferenceFormat
  <2>2. (Reference!is_inf(a) \/ Reference!is_inf(b) <=> p_inf) /\ (Reference!is_inf(c) <=> is_inf(c))
        /\ (Reference!is_zero(a) <=> is_zero(a)) /\ (Reference!is_zero(b) <=> is_zero(b))
    BY ReferenceFormat
  <2> HIDE DEF any, p_inf
  <2> QED BY <1>2, <1>4, <1>5, <2>1, <2>2 DEF Reference!RefSum
<1> HIDE DEF kinds, any, p_inf
<1>8. CASE mul_invalid
  <2>1. Raise("NV", invalid) = {"NV"}
    BY <1>8 DEF Raise
  <2> QED BY <1>3, <1>4, <1>6, <1>7, <1>8, <2>1
<1>9. CASE ~mul_invalid /\ any
  <2>1. ~inf_opposite
    BY <1>5, <1>9 DEF any
  <2>2. Raise("NV", invalid) = Raise("NV", "snan" \in kinds \cup {v.kind})
    BY <1>9, <2>1 DEF Raise
  <2> HIDE DEF mul_invalid, invalid, inf_opposite
  <2> QED BY <1>3, <1>4, <1>6, <1>7, <1>9, <2>2
<1>10. CASE ~mul_invalid /\ ~any /\ p_inf
  <2>1. prod_inf
    BY <1>5, <1>10 DEF any
  <2>2. inf_opposite <=> is_inf(c) /\ pn # cn
    BY <1>5, <2>1
  <2>3. inf_opposite => Raise("NV", invalid) = {"NV"}
    BY DEF Raise
  <2> HIDE DEF mul_invalid, invalid, inf_opposite, prod_inf
  <2> QED BY <1>3, <1>4, <1>6, <1>7, <1>10, <2>1, <2>2, <2>3
<1>11. CASE ~mul_invalid /\ ~any /\ ~p_inf
  <2>1. ~prod_inf /\ ~inf_opposite
    BY <1>5, <1>11
  <2> HIDE DEF mul_invalid, invalid, inf_opposite, prod_inf
  <2> QED BY <1>3, <1>6, <1>7, <1>11, <2>1
<1> QED BY <1>8, <1>9, <1>10, <1>11

(* The units of a number.                                                   *)
LEMMA UnitsAre ==
  ASSUME NEW x \in Floats
  PROVE  Reference!Units(x) \in Nat /\ Reference!Last(x) \in Int /\ x.sign \in BOOLEAN
<1>1. /\ x.exp \in 0..SPECIAL /\ x.frac \in 0..ONE - 1 /\ SPECIAL \in Nat /\ ONE \in Nat
      /\ FRAC \in Nat /\ BIAS \in Nat /\ EMIN = 1 - BIAS /\ x.sign \in BOOLEAN
  BY Formats DEF Floats, EMIN
<1>2. /\ Reference!Units(x) = IF x.exp = 0 THEN x.frac ELSE ONE + x.frac
      /\ Reference!Last(x) = (IF x.exp = 0 THEN EMIN ELSE x.exp - BIAS) - FRAC
  BY ReferenceFormat DEF Reference!Units, Reference!Last
<1> QED BY <1>1, <1>2

(* The constants of the operations with two operands.                       *)
LEMMA OneDecoded ==
  /\ Reference!OneAsFloat \in Floats /\ Reference!OneAsFloat.sign = FALSE
  /\ LET one == [sign |-> FALSE, kind |-> "finite", exp |-> 0, sig |-> ONE]
     IN  SameOperand(one, Reference!OneAsFloat)
<1>1. FRAC \in Nat /\ BIAS \in Nat /\ BIAS >= 1 /\ ONE \in Nat /\ ONE >= 8 /\ SPECIAL = 2 * BIAS + 1
  BY Formats
<1>2. Reference!OneAsFloat = [sign |-> FALSE, exp |-> BIAS, frac |-> 0]
  BY ReferenceFormat DEF Reference!OneAsFloat, Float
<1>3. PICK x : x = Reference!OneAsFloat
  OBVIOUS
<1>4. x.sign = FALSE /\ x.exp = BIAS /\ x.frac = 0
  BY <1>2, <1>3
<1>5. x \in Floats
  BY <1>1, <1>2, <1>3 DEF Floats
<1>6. is_normal(x) /\ ~is_subnormal(x) /\ finite(x)
  BY <1>1, <1>4, <1>5 DEF is_normal, is_subnormal, finite, is_zero
<1>7. decode(x).exp = 0 /\ decode(x).sig = ONE
  <2>1. decode(x).exp = BIAS - BIAS /\ decode(x).sig = ONE + 0
    <3>1. decode(x).exp = x.exp - BIAS /\ decode(x).sig = ONE + x.frac
      BY <1>6 DEF decode
    <3> QED BY <1>4, <3>1
  <2> QED BY <1>1, <2>1
<1>8. decode(x).kind = "finite"
  BY <1>5, <1>6, DecodedKind
<1> QED BY <1>3, <1>4, <1>5, <1>7, <1>8 DEF SameOperand

(* A zero of either sign.                                                   *)
LEMMA ZeroDecoded ==
  ASSUME NEW s \in BOOLEAN
  PROVE  /\ Reference!Zero(s) \in Floats /\ Reference!Zero(s).sign = s
         /\ SameOperand([sign |-> s, kind |-> "zero", exp |-> 0, sig |-> 0], Reference!Zero(s))
<1>1. FRAC \in Nat /\ BIAS \in Nat /\ BIAS >= 1 /\ ONE \in Nat /\ ONE >= 8 /\ SPECIAL = 2 * BIAS + 1
  BY Formats
<1>2. Reference!Zero(s) = [sign |-> s, exp |-> 0, frac |-> 0]
  BY ReferenceFormat DEF Zero, Float
<1>3. PICK x : x = Reference!Zero(s)
  OBVIOUS
<1>4. x.sign = s /\ x.exp = 0 /\ x.frac = 0
  BY <1>2, <1>3
<1>5. x \in Floats
  BY <1>1, <1>2, <1>3 DEF Floats
<1>6. is_zero(x)
  BY <1>4 DEF is_zero
<1>7. decode(x).kind = "zero" /\ decode(x).exp = 0 /\ decode(x).sig = 0
  <2>1. decode(x).kind = "zero"
    BY <1>5, <1>6, DecodedKind
  <2> QED BY <1>5, <2>1, DecodedKind
<1> QED BY <1>3, <1>4, <1>5, <1>7 DEF SameOperand

(* A negated operand is the negated number.                                 *)
LEMMA FlipSame ==
  ASSUME NEW x \in Floats, NEW n \in BOOLEAN
  PROVE  /\ SameOperand(decode(x), x) /\ SameOperand(Flip(decode(x), n), x)
         /\ decode(x).sign = x.sign /\ Flip(decode(x), n).sign = (x.sign # n)
<1>1. decode(x) = [sign |-> x.sign, kind |-> decode(x).kind, exp |-> decode(x).exp, sig |-> decode(x).sig]
  BY DEF decode
<1>2. x.sign \in BOOLEAN
  BY UnitsAre
<1>3. PICK o : o = decode(x)
  OBVIOUS
<1>4. /\ Flip(o, n).sign = (o.sign # n) /\ Flip(o, n).kind = o.kind
      /\ Flip(o, n).exp = o.exp /\ Flip(o, n).sig = o.sig
  BY <1>1, <1>3 DEF Flip
<1> QED BY <1>1, <1>2, <1>3, <1>4 DEF SameOperand

(* The terms an operation adds, and those of the reference.                 *)
TermsMean(t, fa, fb, fc, np, nc) ==
  /\ SameOperand(t[1], fa) /\ SameOperand(t[2], fb) /\ SameOperand(t[3], fc)
  /\ (t[1].sign # t[2].sign) = ((fa.sign # fb.sign) # np)
  /\ t[3].sign = (fc.sign # nc)
  /\ np \in BOOLEAN /\ nc \in BOOLEAN

(* Each operation is a product and a summand, of which a sign may be        *)
(* flipped, for the pipeline and for the reference.                         *)
SameTerms(op, rm, a, b, c) ==
  \E fa \in Floats, fb \in Floats, fc \in Floats, np \in BOOLEAN, nc \in BOOLEAN :
    /\ TermsMean(Terms(op, decode(a), decode(b), decode(c)), fa, fb, fc, np, nc)
    /\ Reference!RefFma(op, rm, a, b, c) = Reference!RefSum(rm, fa, fb, fc, np, nc)

LEMMA FmaTerms ==
  ASSUME NEW op \in FmaOps, NEW rm, NEW a \in Floats, NEW b \in Floats, NEW c \in Floats
  PROVE  SameTerms(op, rm, a, b, c)
<1> DEFINE t == Terms(op, decode(a), decode(b), decode(c))
<1>1. /\ a.sign \in BOOLEAN /\ b.sign \in BOOLEAN /\ c.sign \in BOOLEAN
  BY UnitsAre
<1>2. CASE op = "FADD_S"
  <2>1. PICK one : one = [sign |-> FALSE, kind |-> "finite", exp |-> 0, sig |-> ONE]
    OBVIOUS
  <2>2. PICK f \in Floats : f = Reference!OneAsFloat /\ f.sign = FALSE /\ SameOperand(one, f) /\ one.sign = FALSE
    BY <2>1, OneDecoded
  <2>3. t = <<one, decode(a), Flip(decode(b), FALSE)>>
    BY <1>2, <2>1 DEF Terms, AddOps
  <2>4. SameOperand(decode(a), a) /\ decode(a).sign = a.sign
        /\ SameOperand(Flip(decode(b), FALSE), b) /\ Flip(decode(b), FALSE).sign = (b.sign # FALSE)
    BY FlipSame
  <2> HIDE DEF t
  <2>5. TermsMean(t, f, a, b, FALSE, FALSE)
    BY <1>1, <2>1, <2>2, <2>3, <2>4 DEF TermsMean
  <2>6. Reference!RefFma(op, rm, a, b, c) = Reference!RefSum(rm, f, a, b, FALSE, FALSE)
    BY <1>2, <2>2 DEF Reference!RefFma
  <2> QED BY <2>2, <2>5, <2>6 DEF t, SameTerms
<1>3. CASE op = "FSUB_S"
  <2>1. PICK one : one = [sign |-> FALSE, kind |-> "finite", exp |-> 0, sig |-> ONE]
    OBVIOUS
  <2>2. PICK f \in Floats : f = Reference!OneAsFloat /\ f.sign = FALSE /\ SameOperand(one, f) /\ one.sign = FALSE
    BY <2>1, OneDecoded
  <2>3. t = <<one, decode(a), Flip(decode(b), TRUE)>>
    BY <1>3, <2>1 DEF Terms, AddOps
  <2>4. SameOperand(decode(a), a) /\ decode(a).sign = a.sign
        /\ SameOperand(Flip(decode(b), TRUE), b) /\ Flip(decode(b), TRUE).sign = (b.sign # TRUE)
    BY FlipSame
  <2> HIDE DEF t
  <2>5. TermsMean(t, f, a, b, FALSE, TRUE)
    BY <1>1, <2>1, <2>2, <2>3, <2>4 DEF TermsMean
  <2>6. Reference!RefFma(op, rm, a, b, c) = Reference!RefSum(rm, f, a, b, FALSE, TRUE)
    BY <1>3, <2>2 DEF Reference!RefFma
  <2> QED BY <2>2, <2>5, <2>6 DEF t, SameTerms
<1>4. CASE op = "FMUL_S"
  <2>1. PICK s \in BOOLEAN : s = (a.sign # b.sign)
    BY <1>1
  <2>2. PICK zero : zero = [sign |-> s, kind |-> "zero", exp |-> 0, sig |-> 0]
    OBVIOUS
  <2>3. PICK f \in Floats : f = Reference!Zero(s) /\ f.sign = s /\ SameOperand(zero, f) /\ zero.sign = s
    BY <2>2, ZeroDecoded
  <2>4. /\ SameOperand(decode(a), a) /\ decode(a).sign = a.sign
        /\ SameOperand(decode(b), b) /\ decode(b).sign = b.sign
    BY FlipSame
  <2>5. t = <<decode(a), decode(b), zero>>
    BY <1>4, <2>1, <2>2, <2>4 DEF Terms, AddOps
  <2> HIDE DEF t
  <2>6. TermsMean(t, a, b, f, FALSE, FALSE)
    BY <1>1, <2>1, <2>2, <2>3, <2>4, <2>5 DEF TermsMean
  <2>7. Reference!RefFma(op, rm, a, b, c) = Reference!RefSum(rm, a, b, f, FALSE, FALSE)
    BY <1>4, <2>1, <2>3 DEF Reference!RefFma
  <2> QED BY <2>6, <2>7 DEF t, SameTerms
<1>5. CASE op \in {"FMADD_S", "FMSUB_S", "FNMADD_S", "FNMSUB_S"}
  <2>1. PICK np \in BOOLEAN, nc \in BOOLEAN : /\ np = (op \in {"FNMADD_S", "FNMSUB_S"})
                                              /\ nc = (op \in {"FMSUB_S", "FNMADD_S"})
    <3>1. (op \in {"FNMADD_S", "FNMSUB_S"}) \in BOOLEAN /\ (op \in {"FMSUB_S", "FNMADD_S"}) \in BOOLEAN
      OBVIOUS
    <3> QED BY <3>1
  <2>2. t = <<Flip(decode(a), np), decode(b), Flip(decode(c), nc)>>
    BY <1>5, <2>1 DEF Terms, AddOps
  <2>3. /\ SameOperand(Flip(decode(a), np), a) /\ Flip(decode(a), np).sign = (a.sign # np)
        /\ SameOperand(decode(b), b) /\ decode(b).sign = b.sign
        /\ SameOperand(Flip(decode(c), nc), c) /\ Flip(decode(c), nc).sign = (c.sign # nc)
    BY FlipSame
  <2> HIDE DEF t
  <2>4. ((a.sign # np) # b.sign) = ((a.sign # b.sign) # np)
    BY <1>1
  <2>5. TermsMean(t, a, b, c, np, nc)
    BY <1>1, <2>2, <2>3, <2>4 DEF TermsMean
  <2>6. Reference!RefFma(op, rm, a, b, c) = Reference!RefSum(rm, a, b, c, np, nc)
    BY <1>5, <2>1 DEF Reference!RefFma
  <2> QED BY <2>5, <2>6 DEF t, SameTerms
<1> QED BY <1>2, <1>3, <1>4, <1>5 DEF FmaOps, AddOps

(* A finite operand or a zero is a number.                                  *)
LEMMA SameNumber ==
  ASSUME NEW t, NEW x, SameOperand(t, x), t.kind \in {"zero", "finite"}
  PROVE  /\ \E U \in Nat, K \in Int : U = Reference!Units(x) /\ K = Reference!Last(x) /\ Number(t, U, K)
         /\ ~is_inf(x) /\ ~is_nan(x) /\ t.sign \in BOOLEAN
         /\ t.sig # 0 => t.kind = "finite"
<1>1. /\ x \in Floats /\ t.sign \in BOOLEAN /\ t.exp = decode(x).exp /\ t.sig = decode(x).sig
      /\ t.kind = decode(x).kind
  BY DEF SameOperand
<1>2. KindOf(t, x)
  BY SameKind
<1>3. is_zero(x) \/ finite(x)
  BY <1>2 DEF KindOf
<1>4. ~is_inf(x) /\ ~is_nan(x)
  <2>1. t.kind # "inf" /\ ~nan(t)
    BY DEF nan
  <2> QED BY <1>2, <2>1 DEF KindOf
<1>5. PICK U \in Nat, K \in Int : U = Reference!Units(x) /\ K = Reference!Last(x)
  BY <1>1, UnitsAre
<1>6. Number(decode(x), U, K)
  BY <1>1, <1>3, <1>5, NumberOf
<1>7. Number(t, U, K)
  BY <1>1, <1>6 DEF Number
<1>8. t.sig # 0 => t.kind = "finite"
  BY <1>1, DecodedKind
<1> QED BY <1>1, <1>4, <1>5, <1>7, <1>8

(* A factor or a summand that is no number makes the operation special.     *)
LEMMA NoneSpecial ==
  ASSUME NEW t, NEW a, SameOperand(t, a), NEW u, NEW b, SameOperand(u, b), NEW v, NEW c, SameOperand(v, c),
         ~is_special(t, u, v)
  PROVE  t.kind \in {"zero", "finite"} /\ u.kind \in {"zero", "finite"} /\ v.kind \in {"zero", "finite"}
<1>1. t.kind \in Kinds /\ u.kind \in Kinds /\ v.kind \in Kinds
  BY SameKind DEF KindOf
<1> QED BY <1>1 DEF is_special, nan, Kinds

(* Where an operation is left out, its registers misplace the sum.          *)
LEMMA LostMeans ==
  ASSUME NEW r, NEW p0, NEW x, NEW y, NEW z,
         Terms(r.op, decode(r.a), decode(r.b), decode(r.c)) = <<x, y, z>>,
         Multiplied(p0, x, y, z, r.rm), p0.prod = x.sig * y.sig, Lost(p0),
         x.sig \in Nat, y.sig \in Nat, z.sig \in Nat,
         x.sig # 0 => x.kind = "finite", y.sig # 0 => y.kind = "finite", z.sig # 0 => z.kind = "finite"
  PROVE  Misplaced(r)
<1> DEFINE t == Terms(r.op, decode(r.a), decode(r.b), decode(r.c))
<1>1. t[1] = x /\ t[2] = y /\ t[3] = z
  OBVIOUS
<1> HIDE DEF t
<1>2. /\ p0.prod # 0 /\ p0.c_sig # 0 /\ p0.p_sign # p0.c_sign
      /\ \/ /\ p0.p_exp - p0.c_lsb >= WIN + FRAC + 1
            /\ Directed(p0.rm) => \E k \in 0..2 * FRAC + 1 : p0.prod = 2^k
         \/ /\ Directed(p0.rm) /\ p0.c_lsb - p0.p_exp >= WIN + 2 * FRAC + 1
            /\ p0.c_sig = ONE \/ p0.c_lsb - p0.p_exp = WIN + 2 * FRAC + 1
  BY DEF Lost
<1>3. /\ p0.rm = r.rm /\ p0.p_sign = (x.sign # y.sign) /\ p0.c_sign = z.sign
      /\ p0.p_exp = x.exp + y.exp - 2 * FRAC /\ p0.c_sig = z.sig /\ p0.c_lsb = z.exp - FRAC
  BY DEF Multiplied
<1>4. x.kind = "finite" /\ y.kind = "finite" /\ z.kind = "finite"
  <2>1. x.sig # 0 /\ y.sig # 0
    BY <1>2
  <2> QED BY <1>2, <1>3, <2>1
<1>5. \A i \in 1..3 : t[i].kind = "finite"
  BY <1>1, <1>4
<1>6. (t[1].sign # t[2].sign) # t[3].sign
  BY <1>1, <1>2, <1>3
<1>7. \/ /\ (t[1].exp + t[2].exp - 2 * FRAC) - (t[3].exp - FRAC) >= WIN + FRAC + 1
         /\ r.rm \in {"RTZ", "RDN", "RUP"} => \E k \in 0..2 * FRAC + 1 : t[1].sig * t[2].sig = 2^k
      \/ /\ r.rm \in {"RTZ", "RDN", "RUP"} /\ (t[3].exp - FRAC) - (t[1].exp + t[2].exp - 2 * FRAC) >= WIN + 2 * FRAC + 1
         /\ t[3].sig = ONE \/ (t[3].exp - FRAC) - (t[1].exp + t[2].exp - 2 * FRAC) = WIN + 2 * FRAC + 1
  BY <1>1, <1>2, <1>3, Zenon DEF Directed
<1> QED BY <1>5, <1>6, <1>7, Zenon DEF Misplaced, t

(* What the three stages make of a request.                                 *)
FusedOf(r) == Add(Align(Multiply(r.op, r.rm, decode(r.a), decode(r.b), decode(r.c))))

(* What a request leaves the pipeline with is what the reference answers.   *)
LEMMA FusedAnswer ==
  ASSUME NEW r \in Requests, r.op \in FmaOps, ~Misplaced(r)
  PROVE  (IF FusedOf(r).special THEN FusedOf(r).sp ELSE finite_final(FusedOf(r))) =
           Reference!RefFma(r.op, r.rm, r.a, r.b, r.c)
<1> DEFINE t == Terms(r.op, decode(r.a), decode(r.b), decode(r.c))
<1>1. r.rm \in RoundingModes /\ r.a \in Floats /\ r.b \in Floats /\ r.c \in Floats
  BY RequestFields
<1>2. PICK a \in Floats, b \in Floats, c \in Floats, np \in BOOLEAN, nc \in BOOLEAN :
        /\ TermsMean(t, a, b, c, np, nc)
        /\ Reference!RefFma(r.op, r.rm, r.a, r.b, r.c) = Reference!RefSum(r.rm, a, b, c, np, nc)
  <2>1. PICK op \in FmaOps, rm \in RoundingModes, x \in Floats, y \in Floats, z \in Floats :
          op = r.op /\ rm = r.rm /\ x = r.a /\ y = r.b /\ z = r.c
    BY <1>1, Zenon
  <2>2. SameTerms(op, rm, x, y, z)
    BY FmaTerms
  <2> QED BY <2>1, <2>2 DEF SameTerms
<1>3. PICK u, v, w : t = <<u, v, w>>
  BY DEF Terms
<1> DEFINE p0 == Multiply(r.op, r.rm, decode(r.a), decode(r.b), decode(r.c))
           p2 == FusedOf(r)
<1>4. /\ p0.special = is_special(u, v, w)
      /\ p0.sp = IF is_special(u, v, w) THEN sp_answer(u, v, w) ELSE Answer(Zero(FALSE), {})
      /\ Multiplied(p0, u, v, w, r.rm)
  <2>1. /\ p0.rm = r.rm /\ p0.special = is_special(u, v, w)
        /\ p0.sp = IF is_special(u, v, w) THEN sp_answer(u, v, w) ELSE Answer(Zero(FALSE), {})
    BY <1>3 DEF Multiply
  <2>2. /\ p0.prod = Product(u.sig, v.sig) /\ p0.p_exp = u.exp + v.exp - 2 * FRAC
        /\ p0.p_sign = (u.sign # v.sign)
    BY <1>3 DEF Multiply
  <2>3. p0.c_sig = w.sig /\ p0.c_lsb = w.exp - FRAC /\ p0.c_sign = w.sign
    BY <1>3 DEF Multiply
  <2> HIDE DEF p0
  <2> QED BY <2>1, <2>2, <2>3 DEF Multiplied
<1>5. p2 = Add(Align(p0)) /\ p2.special = p0.special /\ p2.sp = p0.sp /\ p0.rm = r.rm
  <2>1. p2 = Add(Align(p0)) /\ p0.rm = r.rm
    BY DEF FusedOf, Multiply
  <2> HIDE DEF p0, p2
  <2>2. PICK p1 : p1 = Align(p0)
    OBVIOUS
  <2>3. p1.special = p0.special /\ p1.sp = p0.sp
    BY <2>2 DEF Align
  <2>4. Add(p1).special = p1.special /\ Add(p1).sp = p1.sp
    BY DEF Add
  <2> QED BY <2>1, <2>2, <2>3, <2>4
<1> HIDE DEF t, p0, p2
<1>6. /\ SameOperand(u, a) /\ SameOperand(v, b) /\ SameOperand(w, c)
      /\ (u.sign # v.sign) = ((a.sign # b.sign) # np) /\ w.sign = (c.sign # nc)
  BY <1>2, <1>3 DEF TermsMean
<1>7. CASE is_special(u, v, w)
  <2>1. sp_answer(u, v, w) = Reference!RefSum(r.rm, a, b, c, np, nc)
    BY <1>6, <1>7, SpecialSum
  <2> QED BY <1>2, <1>4, <1>5, <1>7, <2>1 DEF p2
<1>8. CASE ~is_special(u, v, w)
  <2>1. u.kind \in {"zero", "finite"} /\ v.kind \in {"zero", "finite"} /\ w.kind \in {"zero", "finite"}
    BY <1>6, <1>8, NoneSpecial
  <2>2. PICK U \in Nat, K \in Int : U = Reference!Units(a) /\ K = Reference!Last(a) /\ Number(u, U, K)
    BY <1>6, <2>1, SameNumber
  <2>3. PICK V \in Nat, H \in Int : V = Reference!Units(b) /\ H = Reference!Last(b) /\ Number(v, V, H)
    BY <1>6, <2>1, SameNumber
  <2>4. PICK C \in Nat, kc \in Int : C = Reference!Units(c) /\ kc = Reference!Last(c) /\ Number(w, C, kc)
    BY <1>6, <2>1, SameNumber
  <2>5. /\ ~is_inf(a) /\ ~is_nan(a) /\ ~is_inf(b) /\ ~is_nan(b) /\ ~is_inf(c) /\ ~is_nan(c)
        /\ u.sign \in BOOLEAN /\ v.sign \in BOOLEAN /\ w.sign \in BOOLEAN
        /\ u.sig # 0 => u.kind = "finite"
        /\ v.sig # 0 => v.kind = "finite"
        /\ w.sig # 0 => w.kind = "finite"
    BY <1>6, <2>1, SameNumber
  <2>6. /\ Factored(p0) /\ p0.prod = u.sig * v.sig
        /\ TermOf(p0.prod, p0.p_exp, U * V, K + H) /\ TermOf(p0.c_sig, p0.c_lsb, C, kc)
        /\ C # 0 => NormalisedTo(p0.c_sig, p0.c_lsb, C, kc)
        /\ InFormat(U * V, K + H, C, kc)
    BY <1>1, <1>4, <2>2, <2>3, <2>4, <2>5, NumbersFactored
  <2>7. ~Lost(p0)
    <3>1. u.sig \in Nat /\ v.sig \in Nat /\ w.sig \in Nat
      BY <2>2, <2>3, <2>4 DEF Number
    <3>2. Terms(r.op, decode(r.a), decode(r.b), decode(r.c)) = <<u, v, w>>
      BY <1>3 DEF t
    <3> QED BY <1>4, <2>5, <2>6, <3>1, <3>2, LostMeans
  <2>8. PICK P \in Nat, kp \in Int : P = U * V /\ kp = K + H
    <3>1. U * V \in Nat /\ K + H \in Int
      OBVIOUS
    <3> QED BY <3>1
  <2>9. /\ TermOf(p0.prod, p0.p_exp, P, kp) /\ InFormat(P, kp, C, kc)
    BY <2>6, <2>8
  <2>10. finite_final(p2) =
           SumAnswer(p0.rm, IF p0.p_sign = p0.c_sign THEN p0.p_sign ELSE p0.rm = "RDN",
                     ExactSum(p0.p_sign, P, kp, p0.c_sign, C, kc), Common(P, kp, C, kc))
    BY <1>5, <2>6, <2>7, <2>9, FusedSum
  <2>11. PICK pn \in BOOLEAN, cn \in BOOLEAN : pn = p0.p_sign /\ cn = p0.c_sign
    BY <2>6 DEF Factored
  <2>12. pn = ((a.sign # b.sign) # np) /\ cn = (c.sign # nc)
    BY <1>4, <1>6, <2>11 DEF Multiplied
  <2>13. Reference!RefSum(r.rm, a, b, c, np, nc) =
           SumAnswer(r.rm, IF pn = cn THEN pn ELSE r.rm = "RDN",
                     ExactSum(pn, P, kp, cn, C, kc), Common(P, kp, C, kc))
    <3>1. PICK rm : rm = r.rm
      OBVIOUS
    <3>2. Reference!RefSum(rm, a, b, c, np, nc) =
            SumAnswer(rm, IF pn = cn THEN pn ELSE rm = "RDN",
                      ExactSum(pn, P, kp, cn, C, kc), Common(P, kp, C, kc))
      <4>1. ThreeNumbers(a, b, c, np, nc, U, K, V, H, C, kc, pn, cn)
        BY <2>2, <2>3, <2>4, <2>5, <2>8, <2>12, Zenon DEF ThreeNumbers
      <4> QED BY <2>8, <4>1, NumbersSum
    <3> QED BY <3>1, <3>2
  <2>14. finite_final(p2) = Reference!RefSum(r.rm, a, b, c, np, nc)
    BY <1>5, <2>8, <2>10, <2>11, <2>13
  <2>15. ~p2.special
    BY <1>4, <1>5, <1>8
  <2> QED BY <1>2, <2>14, <2>15 DEF p2
<1> QED BY <1>7, <1>8

-----------------------------------------------------------------------------
(* What the stage that holds the operation holds is of that operation.      *)
FmaOfRequest ==
  request.op \in FmaOps =>
    LET p0 == Multiply(request.op, request.rm, decode(request.a), decode(request.b), decode(request.c))
    IN  /\ fma.p0.valid => fma.p0 = p0
        /\ fma.p1.valid => fma.p1 = Align(p0)
        /\ fma.p2.valid => fma.p2 = Add(Align(p0))

(* The three stages of fma_unit.v hold the same request from its issue to   *)
(* its answer, each what it makes of the operands.                          *)
THEOREM SpecFmaOfRequest == Spec => []FmaOfRequest
<1>1. Init => FmaOfRequest
  BY OpsDiffer DEF Init, FmaOfRequest, Ops
<1>2. FmaOfRequest /\ Serves /\ [Next]_vars => FmaOfRequest'
  <2> SUFFICES ASSUME FmaOfRequest, Serves, [Next]_vars PROVE FmaOfRequest'
    OBVIOUS
  <2>1. ~Empty.valid /\ None.op \notin FmaOps
    BY OpsDiffer DEF Empty, Ops
  <2>2. ASSUME request = None, NEW r \in Requests, Load(r) PROVE FmaOfRequest'
    <3>1. fma.p0 = Empty /\ fma.p1 = Empty
      BY <2>1, <2>2 DEF Serves, Stages
    <3>2. request' = r
      BY <2>2 DEF Load
    <3>3. CASE r.op \in FmaOps
      <4>1. fma' = [p0 |-> Multiply(r.op, r.rm, decode(r.a), decode(r.b), decode(r.c)), p1 |-> Empty, p2 |-> Empty]
        BY <2>1, <2>2, <3>1, <3>3 DEF Load, FmaClock
      <4> QED BY <2>1, <3>2, <4>1 DEF FmaOfRequest
    <3> QED BY <3>2, <3>3 DEF FmaOfRequest
  <2>3. CASE Cycle
    <3>1. request' = request \/ request' = None
      BY <2>3 DEF Cycle
    <3>2. fma' = [p0 |-> Empty, p1 |-> IF fma.p0.valid THEN Align(fma.p0) ELSE Empty,
                                p2 |-> IF fma.p1.valid THEN Add(fma.p1) ELSE Empty]
      BY <2>3 DEF Cycle, FmaClock
    <3>3. CASE request' = None
      BY <2>1, <3>3 DEF FmaOfRequest
    <3>4. CASE request' = request /\ request.op \in FmaOps
      <4> DEFINE p0 == Multiply(request.op, request.rm, decode(request.a), decode(request.b), decode(request.c))
      <4>1. /\ fma.p0.valid => fma.p0 = p0
            /\ fma.p1.valid => fma.p1 = Align(p0)
        BY <3>4 DEF FmaOfRequest
      <4>2. p0' = p0
        BY <3>4
      <4> HIDE DEF p0
      <4>3. /\ ~fma'.p0.valid
            /\ fma'.p1.valid => fma'.p1 = Align(p0)
            /\ fma'.p2.valid => fma'.p2 = Add(Align(p0))
        BY <2>1, <3>2, <4>1
      <4> QED BY <3>4, <4>3 DEF FmaOfRequest, p0
    <3> QED BY <3>1, <3>3, <3>4 DEF FmaOfRequest
  <2>4. CASE Flush
    <3>1. request' = None
      BY <2>4 DEF Flush
    <3> QED BY <2>1, <3>1 DEF FmaOfRequest
  <2>5. CASE UNCHANGED vars
    BY <2>5 DEF vars, FmaOfRequest
  <2> QED BY <2>2, <2>3, <2>4, <2>5 DEF Next, Issue
<1> QED BY <1>1, <1>2, SpecServes, PTL DEF Spec

(* Sums, products and fused forms are rounded once, whatever the operands:  *)
(* the window of fma_unit.v and its sticky bits stand for the exact sum,    *)
(* except where the step back of a directed mode misplaces it.              *)
THEOREM SpecFusedRounded ==
  Spec => []FusedRounded
<1>1. FmaOfRequest /\ Serves => FusedRounded
  <2> SUFFICES ASSUME FmaOfRequest, Serves, fma.p2.valid, ~Misplaced(request)
               PROVE  Answered = Reference!RefFma(request.op, request.rm, request.a, request.b, request.c)
    BY DEF FusedRounded
  <2>1. request.op \in FmaOps /\ request \in Requests
    <3>1. request.op \in FmaOps
      BY DEF Serves, Stages, Empty
    <3> QED BY <3>1, OpsDiffer DEF Serves, Ops
  <2>2. PICK r \in Requests : r = request
    BY <2>1
  <2>3. fma.p2 = FusedOf(r)
    BY <2>1, <2>2 DEF FmaOfRequest, FusedOf
  <2>4. Answered = (IF FusedOf(r).special THEN FusedOf(r).sp ELSE finite_final(FusedOf(r)))
    BY <2>3 DEF Answered, fma_result
  <2> QED BY <2>1, <2>2, <2>4, FusedAnswer
<1> QED BY <1>1, SpecServes, SpecFmaOfRequest, PTL
=============================================================================
