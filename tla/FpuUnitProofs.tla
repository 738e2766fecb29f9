--------------------------- MODULE FpuUnitProofs -----------------------------
(****************************************************************************)
(* Proofs about FpuUnit for every format FRAC, BIAS and every set of        *)
(* requests: the unit serves one operation at a time; square roots,         *)
(* quotients and conversions are rounded once and the quick operations are  *)
(* exact, against the reference of FloatReference.  Before that, about the  *)
(* two iterative units alone, whatever operands in decoded form they are    *)
(* started with: the division keeps its remainder within two thirds of the  *)
(* divisor and the root its residue within two thirds of a unit of twice    *)
(* the root, so that no digit loses anything, and the repair of the last    *)
(* cycle ends in the root rounded down.                                     *)
(****************************************************************************)
EXTENDS FpuUnit, TLAPS, WellFoundedInduction, FiniteSetTheorems, FunctionTheorems

(***************************************************************************)
(* Numbers and powers                                                      *)
(***************************************************************************)

(* A set of numbers has a least one: induction, in the form the provers can *)
(* use, without an operator as parameter.                                   *)
LEMMA Least ==
  ASSUME NEW S \in SUBSET Nat, S # {}
  PROVE  \E x \in S : \A y \in S : x <= y
<1>1. \E x \in S : \A y \in S : <<y, x>> \notin OpToRel(<, Nat)
  BY NatLessThanWellFounded, WFMin
<1>2. PICK x \in S : \A y \in S : ~(y < x)
  BY <1>1 DEF OpToRel
<1> QED BY <1>2

LEMMA SetInduction ==
  ASSUME NEW S \in SUBSET Nat, 0 \in S, \A n \in S : n + 1 \in S
  PROVE  S = Nat
<1> SUFFICES ASSUME S # Nat PROVE FALSE
  OBVIOUS
<1>1. PICK x \in Nat \ S : \A y \in Nat \ S : x <= y
  BY Least
<1>2. x - 1 \in Nat /\ (x - 1) + 1 = x /\ ~(x <= x - 1)
  BY <1>1
<1> QED BY <1>1, <1>2

(* What the provers do not know of ^ follows from the number of subsets of  *)
(* a finite set: a set with one more element has twice as many.             *)
LEMMA PowersDouble == \A n \in Nat : 2^(n + 1) = 2 * 2^n
<1> SUFFICES ASSUME NEW n \in Nat PROVE 2^(n + 1) = 2 * 2^n
  OBVIOUS
<1> DEFINE S == 1..n
           A == SUBSET S
           B == {X \cup {n + 1} : X \in A}
           f == [X \in A |-> X \cup {n + 1}]
<1>1. IsFiniteSet(S) /\ Cardinality(S) = n /\ n + 1 \notin S
  BY FS_Interval
<1>2. IsFiniteSet(S \cup {n + 1}) /\ Cardinality(S \cup {n + 1}) = n + 1
  BY <1>1, FS_AddElement
<1> HIDE DEF S
<1>3. IsFiniteSet(A) /\ Cardinality(A) = 2^n
  BY <1>1, FS_SUBSET
<1>4. Cardinality(SUBSET (S \cup {n + 1})) = 2^(n + 1)
  BY <1>2, FS_SUBSET
<1>5. SUBSET (S \cup {n + 1}) = A \cup B
  <2>1. ASSUME NEW Y \in SUBSET (S \cup {n + 1}) PROVE Y \in A \cup B
    <3>1. CASE n + 1 \in Y
      <4>1. Y \ {n + 1} \in A /\ Y = (Y \ {n + 1}) \cup {n + 1}
        BY <3>1
      <4> QED BY <4>1
    <3>2. CASE n + 1 \notin Y
      BY <3>2
    <3> QED BY <3>1, <3>2
  <2>2. ASSUME NEW Y \in A \cup B PROVE Y \in SUBSET (S \cup {n + 1})
    OBVIOUS
  <2> QED BY <2>1, <2>2
<1>6. A \cap B = {}
  BY <1>1
<1> HIDE DEF A, B
<1>7. f \in Bijection(A, B)
  <2>1. f \in [A -> B]
    BY DEF B
  <2>2. ASSUME NEW X \in A, NEW Y \in A, f[X] = f[Y] PROVE X = Y
    <3>1. X \cup {n + 1} = Y \cup {n + 1} /\ n + 1 \notin X /\ n + 1 \notin Y
      BY <1>1, <2>2 DEF A
    <3> QED BY <3>1
  <2>3. \A Y \in B : \E X \in A : f[X] = Y
    BY DEF B
  <2> HIDE DEF f
  <2>4. f \in Injection(A, B)
    BY <2>1, <2>2 DEF Injection, IsInjective
  <2>5. f \in Surjection(A, B)
    BY <2>1, <2>3 DEF Surjection
  <2> QED BY <2>4, <2>5 DEF Bijection
<1>8. IsFiniteSet(B) /\ Cardinality(B) = Cardinality(A)
  BY <1>3, <1>7, FS_Bijection DEF ExistsBijection
<1>9. Cardinality(SUBSET (S \cup {n + 1})) = Cardinality(A) + Cardinality(B) - Cardinality({})
  BY <1>3, <1>5, <1>6, <1>8, FS_Union
<1>10. Cardinality({}) = 0 /\ Cardinality(A) \in Nat
  BY <1>3, FS_EmptySet, FS_CardinalityType
<1>11. 2^(n + 1) = 2^n + 2^n - 0 /\ 2^n \in Nat
  BY <1>3, <1>4, <1>8, <1>9, <1>10
<1> QED BY <1>11

(* Powers are at least 1.                                                    *)
LEMMA Powers ==
  ASSUME NEW n \in Nat
  PROVE  2^n \in Nat /\ 2^n >= 1 /\ 2^(n + 1) = 2 * 2^n
<1> DEFINE S == {k \in Nat : 2^k \in Nat /\ 2^k >= 1}
<1>1. 0 \in S
  <2>1. 2^0 = 1
    OBVIOUS
  <2> QED BY <2>1
<1>2. ASSUME NEW k \in S PROVE k + 1 \in S
  <2>1. 2^(k + 1) = 2 * 2^k /\ k \in Nat /\ 2^k \in Nat /\ 2^k >= 1
    BY PowersDouble
  <2> QED BY <2>1
<1> HIDE DEF S
<1>3. S \in SUBSET Nat
  BY DEF S
<1>4. S = Nat
  BY <1>1, <1>2, <1>3, SetInduction
<1>5. 2^n \in Nat /\ 2^n >= 1
  BY <1>4 DEF S
<1> QED BY <1>5, PowersDouble

(* Exponents of products add.                                               *)
LEMMA PowerSum ==
  ASSUME NEW m \in Nat, NEW n \in Nat
  PROVE  2^(m + n) = 2^m * 2^n
<1> DEFINE S == {k \in Nat : 2^(m + k) = 2^m * 2^k}
<1>1. 0 \in S
  <2>1. 2^0 = 1 /\ m + 0 = m /\ 2^m \in Nat
    BY Powers
  <2>2. 2^m * 1 = 2^m
    BY <2>1
  <2> QED BY <2>1, <2>2
<1>2. ASSUME NEW k \in S PROVE k + 1 \in S
  <2>1. k \in Nat /\ m + k \in Nat /\ (m + k) + 1 = m + (k + 1) /\ 2^(m + k) = 2^m * 2^k
    OBVIOUS
  <2>2. 2^(k + 1) = 2 * 2^k /\ 2^((m + k) + 1) = 2 * 2^(m + k) /\ 2^m \in Nat /\ 2^k \in Nat
    BY <2>1, Powers
  <2>3. 2^m * (2 * 2^k) = 2 * (2^m * 2^k)
    BY <2>2
  <2>4. 2^(m + (k + 1)) = 2^m * 2^(k + 1)
    BY <2>1, <2>2, <2>3
  <2> QED BY <2>1, <2>4
<1> HIDE DEF S
<1>3. S \in SUBSET Nat
  BY DEF S
<1>4. S = Nat
  BY <1>1, <1>2, <1>3, SetInduction
<1> QED BY <1>4 DEF S

(* Powers grow.                                                             *)
LEMMA PowerOrder ==
  ASSUME NEW m \in Nat, NEW n \in Nat, m <= n
  PROVE  /\ 2^m \in Nat /\ 2^m >= 1 /\ 2^n \in Nat /\ 2^(m + 1) = 2 * 2^m
         /\ 2^m <= 2^n /\ (m < n => 2 * 2^m <= 2^n)
<1>1. PICK d \in Nat : n = m + d
  <2>1. n - m \in Nat /\ n = m + (n - m)
    OBVIOUS
  <2> QED BY <2>1
<1>2. 2^n = 2^m * 2^d /\ 2^m \in Nat /\ 2^d \in Nat /\ 2^d >= 1
  BY <1>1, PowerSum, Powers
<1>3. 2^m * 2^d >= 2^m * 1
  BY <1>2
<1>4. ASSUME d = 0 PROVE 2^m <= 2^n /\ (m < n => 2 * 2^m <= 2^n)
  BY <1>1, <1>2, <1>3, <1>4
<1>5. ASSUME d # 0 PROVE 2^m <= 2^n /\ (m < n => 2 * 2^m <= 2^n)
  <2>1. d - 1 \in Nat /\ (d - 1) + 1 = d
    BY <1>5
  <2>2. 2^d = 2 * 2^(d - 1) /\ 2^(d - 1) \in Nat /\ 2^(d - 1) >= 1
    BY <2>1, Powers
  <2>3. 2^m * (2 * 2^(d - 1)) >= 2 * 2^m
    <3>1. 2^m * (2 * 2^(d - 1)) = 2 * (2^m * 2^(d - 1)) /\ 2^m * 2^(d - 1) >= 2^m * 1
      BY <1>2, <2>2
    <3> QED BY <1>2, <3>1
  <2> QED BY <1>2, <1>3, <2>2, <2>3
<1>6. 2^n \in Nat /\ 2^m >= 1 /\ 2^(m + 1) = 2 * 2^m
  BY Powers
<1> QED BY <1>2, <1>4, <1>5, <1>6

(* Shifts by a difference.                                                  *)
LEMMA PowerSplit ==
  ASSUME NEW m \in Nat, NEW n \in Nat, m <= n
  PROVE  n - m \in Nat /\ 2^n = 2^m * 2^(n - m) /\ 2^(n - m) \in Nat /\ 2^(n - m) >= 1
<1>1. PICK d \in Nat : d = n - m
  <2>1. n - m \in Nat
    OBVIOUS
  <2> QED BY <2>1
<1>2. n = m + d
  BY <1>1
<1>3. 2^n = 2^m * 2^d /\ 2^d \in Nat /\ 2^d >= 1
  BY <1>2, PowerSum, Powers
<1> QED BY <1>1, <1>3

(* Two steps at once.                                                       *)
LEMMA Double ==
  ASSUME NEW n \in Nat
  PROVE  2^(n + 1) = 2 * 2^n /\ 2^(n + 2) = 4 * 2^n
<1>1. n + 1 \in Nat /\ (n + 1) + 1 = n + 2 /\ 2^n \in Nat
  BY Powers
<1>2. 2^(n + 1) = 2 * 2^n /\ 2^((n + 1) + 1) = 2 * 2^(n + 1)
  BY <1>1, Powers
<1> QED BY <1>1, <1>2

(* The powers of 4.                                                         *)
LEMMA EvenPowers ==
  ASSUME NEW n \in Nat
  PROVE  2^(2 * n) \in Nat /\ 2^(2 * n) >= 1 /\ 2^(2 * (n + 1)) = 4 * 2^(2 * n)
<1>1. PICK k \in Nat : k = 2 * n
  OBVIOUS
<1>2. 2^k \in Nat /\ 2^k >= 1 /\ 2^(k + 2) = 4 * 2^k
  BY Powers, Double
<1>3. 2 * (n + 1) = k + 2
  BY <1>1
<1> QED BY <1>1, <1>2, <1>3

(* The leading 1 of a significand has at least three bits below it.         *)
LEMMA Hidden ==
  ONE \in Nat /\ ONE >= 8
<1>1. PICK h \in Nat : FRAC = h + 3
  <2>1. FRAC - 3 \in Nat /\ FRAC = (FRAC - 3) + 3
    BY FormatAssumption
  <2> QED BY <2>1
<1>2. (h + 2) + 1 = h + 3 /\ h + 2 \in Nat /\ 2^h \in Nat /\ 2^h >= 1
  BY Powers
<1>3. 2^(h + 2) = 4 * 2^h /\ 2^((h + 2) + 1) = 2 * 2^(h + 2)
  BY <1>2, Double, Powers
<1>4. 2^(h + 3) = 8 * 2^h
  BY <1>2, <1>3
<1> QED BY <1>1, <1>2, <1>4 DEF ONE

(***************************************************************************)
(* The division                                                            *)
(***************************************************************************)

(* The digits that can be selected.                                         *)
LEMMA DigitType ==
  ASSUME NEW d, NEW P, NEW cnt
  PROVE  SelectDigit(cnt, P, d) \in -4..4
<1> DEFINE y == Magnitude(4 * P)
           h == d \div 2
           m == IF y < h THEN 0
                ELSE IF y < d + h THEN 1
                ELSE IF cnt # 0 \/ y < 2 * d + h THEN 2
                ELSE IF y < 3 * d + h THEN 3 ELSE 4
<1>1. m \in 0..4
  OBVIOUS
<1>2. SelectDigit(cnt, P, d) = IF P < 0 THEN -m ELSE m
  BY DEF SelectDigit
<1> HIDE DEF m
<1> QED BY <1>1, <1>2

(* A digit chosen by the thresholds, which are rounded down, leaves a       *)
(* remainder within two thirds of the divisor, and its multiple exists.     *)
LEMMA DigitBound ==
  ASSUME NEW d \in Nat, d >= 8, NEW P \in Int, NEW cnt \in Nat,
         IF cnt = 0 THEN P \in 0..d - 1 ELSE 3 * Magnitude(P) <= 2 * d
  PROVE  LET q == SelectDigit(cnt, P, d)
         IN  /\ q \in -2..4
             /\ Multiple(q, d) = q * d
             /\ 4 * P - q * d \in Int
             /\ 3 * Magnitude(4 * P - q * d) <= 2 * d
<1> DEFINE q == SelectDigit(cnt, P, d)
           y == Magnitude(4 * P)
<1>1. PICK h \in Nat : h = d \div 2 /\ 2 * h <= d /\ d <= 2 * h + 1
  OBVIOUS
<1>2. y \in Nat /\ (P >= 0 => y = 4 * P) /\ (P < 0 => y = -(4 * P))
  BY DEF Magnitude
<1>3. (cnt = 0 => P >= 0 /\ y <= 4 * d - 4) /\ (cnt # 0 => 3 * y <= 8 * d)
  BY <1>2 DEF Magnitude
<1>4. PICK r \in 0..4 : /\ q = IF P < 0 THEN -r ELSE r
                        /\ r \in 3..4 => cnt = 0
                        /\ 3 * (y - r * d) <= 2 * d
                        /\ 3 * (r * d - y) <= 2 * d
  <2>1. CASE y < h
    BY <1>1, <1>2, <2>1 DEF SelectDigit
  <2>2. CASE ~(y < h) /\ y < d + h
    BY <1>1, <1>2, <2>2 DEF SelectDigit
  <2>3. CASE ~(y < d + h) /\ (cnt # 0 \/ y < 2 * d + h)
    BY <1>1, <1>2, <1>3, <2>3 DEF SelectDigit
  <2>4. CASE ~(y < 2 * d + h) /\ cnt = 0 /\ y < 3 * d + h
    BY <1>1, <1>2, <1>3, <2>4 DEF SelectDigit
  <2>5. CASE ~(y < 3 * d + h) /\ cnt = 0
    BY <1>1, <1>2, <1>3, <2>5 DEF SelectDigit
  <2> QED BY <1>1, <1>2, <2>1, <2>2, <2>3, <2>4, <2>5
<1>5. q \in -2..4
  BY <1>3, <1>4
<1>6. Multiple(q, d) = q * d
  BY <1>5 DEF Multiple
<1>7. 4 * P - q * d \in Int /\ 3 * Magnitude(4 * P - q * d) <= 2 * d
  <2>1. CASE P < 0
    <3>1. q = -r /\ q * d = -(r * d) /\ r * d \in Int
      BY <1>4, <2>1
    <3> QED BY <1>2, <1>4, <2>1, <3>1 DEF Magnitude
  <2>2. CASE P >= 0
    <3>1. q = r /\ r * d \in Int
      BY <1>4, <2>2
    <3> QED BY <1>2, <1>4, <2>2, <3>1 DEF Magnitude
  <2> QED BY <2>1, <2>2
<1> QED BY <1>5, <1>6, <1>7

-----------------------------------------------------------------------------
(* The register keeps any value of its width.                               *)
LEMMA KeptTypes ==
  ASSUME NEW n \in Int
  PROVE  /\ Kept(n) \in -2 * ONE..2 * ONE - 1
         /\ n \in -2 * ONE..2 * ONE - 1 => Kept(n) = n
<1>1. ONE \in Nat /\ ONE >= 8
  BY FormatAssumption, Hidden
<1>2. 4 * ONE \in Nat /\ 4 * ONE > 0 /\ n + 2 * ONE \in Int
  BY <1>1
<1>3. (n + 2 * ONE) % (4 * ONE) \in 0..4 * ONE - 1
  BY <1>2
<1> QED BY <1>1, <1>3 DEF Kept

(* The significand of a finite operand is normalised.                       *)
LEMMA DivNormalised ==
  ASSUME NEW o \in Operands
  PROVE  /\ o.sig \in Nat /\ o.sig < 2 * ONE /\ o.exp \in Int
         /\ o.kind = "finite" => o.sig >= ONE
  BY FormatAssumption, Hidden DEF Operands

LEMMA DigitsNat == DIGITS \in Nat
  BY FormatAssumption, Hidden DEF DIGITS

(* What the first digits get: the dividend, doubled if it is below the      *)
(* divisor, less the divisor.                                               *)
LEMMA StartBound ==
  ASSUME NEW s1 \in Operands, NEW s2 \in Operands
  PROVE  LET P == (IF s1.sig < s2.sig THEN 2 * s1.sig ELSE s1.sig) - s2.sig
         IN  /\ P \in -2 * ONE..2 * ONE - 1
             /\ Finite(s1, s2) => P \in 0..s2.sig - 1
<1>1. ONE \in Nat /\ ONE >= 8
  BY FormatAssumption, Hidden
<1>2. /\ s1.sig \in Nat /\ s1.sig < 2 * ONE
      /\ s2.sig \in Nat /\ s2.sig < 2 * ONE
      /\ Finite(s1, s2) => s1.sig >= ONE /\ s2.sig >= ONE
  BY DivNormalised DEF Finite
<1> QED BY <1>1, <1>2

-----------------------------------------------------------------------------
(* The inductive invariant: the types and the bound.                        *)
DivInv == DivTypeOK /\ RemainderBounded

LEMMA IdleInv == DivIdle.busy = FALSE /\ (fdiv = DivIdle => DivInv)
<1>1. NoOperand \in Operands
  BY FormatAssumption, Hidden DEF NoOperand, Operands, Kinds
<1>2. fdiv = DivIdle => DivTypeOK
  BY <1>1, FormatAssumption, Hidden, DigitsNat DEF DivTypeOK, DivIdle, RoundingModes
<1>3. DivIdle.busy = FALSE
  BY DEF DivIdle
<1>4. fdiv = DivIdle => RemainderBounded
  BY <1>3 DEF RemainderBounded
<1> QED BY <1>2, <1>3, <1>4 DEF DivInv

(* A digit: DivInv holds again and the remainder is the whole one.          *)
LEMMA StepInv ==
  ASSUME DivInv, DivStep
  PROVE  /\ DivInv'
         /\ Finite(fdiv.s1, fdiv.s2) =>
              fdiv'.quo * fdiv.s2.sig + fdiv'.rem = 4 * (fdiv.quo * fdiv.s2.sig + fdiv.rem)
<1> DEFINE d == fdiv.s2.sig
           P == fdiv.rem
           q == SelectDigit(fdiv.cnt, P, d)
           R == 4 * P - Multiple(q, d)
<1>1. ONE \in Nat /\ ONE >= 8 /\ DIGITS \in Nat
  BY FormatAssumption, Hidden, DigitsNat
<1>2. /\ d \in Nat /\ d < 2 * ONE /\ P \in Int /\ fdiv.cnt \in Nat /\ fdiv.quo \in Int
      /\ fdiv.busy /\ fdiv.cnt < DIGITS
  BY <1>1, DivNormalised DEF DivInv, DivTypeOK, DivStep, Running
<1>3. q \in Int /\ q * d \in Int /\ R \in Int
  <2>1. q \in -4..4
    BY DigitType
  <2> QED BY <1>2, <2>1 DEF Multiple
<1>4. fdiv' = [fdiv EXCEPT !.cnt = fdiv.cnt + 1, !.quo = 4 * fdiv.quo + q, !.rem = Kept(R)]
  BY DEF DivStep
<1>5. /\ fdiv'.cnt = fdiv.cnt + 1 /\ fdiv'.quo = 4 * fdiv.quo + q /\ fdiv'.rem = Kept(R)
      /\ fdiv'.s1 = fdiv.s1 /\ fdiv'.s2 = fdiv.s2 /\ fdiv'.busy = fdiv.busy
      /\ fdiv'.wb_valid = fdiv.wb_valid /\ fdiv'.rm = fdiv.rm /\ DOMAIN fdiv' = DOMAIN fdiv
  BY <1>4 DEF DivInv, DivTypeOK, DivIdle
<1>6. DivTypeOK'
  <2>1. fdiv.cnt + 1 \in 0..DIGITS /\ 4 * fdiv.quo + q \in Int
    BY <1>1, <1>2, <1>3
  <2> QED BY <1>3, <1>5, <2>1, KeptTypes DEF DivInv, DivTypeOK
<1>7. ASSUME Finite(fdiv.s1, fdiv.s2)
      PROVE  fdiv'.rem = 4 * P - q * d /\ 3 * Magnitude(fdiv'.rem) <= 2 * d
  <2>1. d >= 8 /\ (IF fdiv.cnt = 0 THEN P \in 0..d - 1 ELSE 3 * Magnitude(P) <= 2 * d)
    <3>1. d >= ONE
      BY <1>7, DivNormalised DEF Finite, DivInv, DivTypeOK
    <3> QED BY <1>1, <1>2, <1>7, <3>1 DEF DivInv, RemainderBounded
  <2>2. Multiple(q, d) = q * d /\ 3 * Magnitude(4 * P - q * d) <= 2 * d
    BY <1>2, <2>1, DigitBound
  <2>3. R = 4 * P - q * d /\ 3 * Magnitude(R) <= 2 * d
    BY <2>2
  <2>4. R \in -2 * ONE..2 * ONE - 1
    BY <1>1, <1>2, <1>3, <2>3 DEF Magnitude
  <2> QED BY <1>3, <1>5, <2>3, <2>4, KeptTypes
<1>8. RemainderBounded'
  BY <1>2, <1>5, <1>7 DEF RemainderBounded, Finite
<1>9. ASSUME Finite(fdiv.s1, fdiv.s2)
      PROVE  fdiv'.quo * d + fdiv'.rem = 4 * (fdiv.quo * d + P)
  <2>1. fdiv'.rem = 4 * P - q * d
    BY <1>7, <1>9
  <2>2. (4 * fdiv.quo + q) * d = 4 * (fdiv.quo * d) + q * d
    BY <1>2, <1>3
  <2>3. fdiv.quo * d \in Int
    BY <1>2
  <2> QED BY <1>2, <1>3, <1>5, <2>1, <2>2, <2>3
<1> QED BY <1>6, <1>8, <1>9 DEF DivInv

LEMMA StartInv ==
  ASSUME NEW s1 \in Operands, NEW s2 \in Operands, NEW rm \in RoundingModes,
         DivStart(s1, s2, rm)
  PROVE  DivInv'
<1> DEFINE P == (IF s1.sig < s2.sig THEN 2 * s1.sig ELSE s1.sig) - s2.sig
<1>1. /\ fdiv'.busy = TRUE /\ fdiv'.wb_valid = FALSE /\ fdiv'.cnt = 0 /\ fdiv'.quo = 0
      /\ fdiv'.rem = P /\ fdiv'.s1 = s1 /\ fdiv'.s2 = s2 /\ fdiv'.rm = rm
      /\ DOMAIN fdiv' = DOMAIN DivIdle
  BY DEF DivStart, DivIdle
<1>2. DivTypeOK'
  <2>1. P \in -2 * ONE..2 * ONE - 1 /\ 0 \in 0..DIGITS
    BY StartBound, DigitsNat
  <2> HIDE DEF P
  <2>2. fdiv'.busy \in BOOLEAN /\ fdiv'.wb_valid \in BOOLEAN
    BY <1>1
  <2>3. fdiv'.quo \in Int /\ fdiv'.cnt \in 0..DIGITS
    BY <1>1, <2>1
  <2> QED BY <1>1, <2>1, <2>2, <2>3 DEF DivTypeOK
<1>3. RemainderBounded'
  BY <1>1, StartBound DEF RemainderBounded
<1> QED BY <1>2, <1>3 DEF DivInv

LEMMA FinishInv ==
  ASSUME DivInv, DivFinish
  PROVE  DivInv'
<1>1. /\ fdiv'.cnt = fdiv.cnt /\ fdiv'.quo = fdiv.quo /\ fdiv'.rem = fdiv.rem
      /\ fdiv'.s1 = fdiv.s1 /\ fdiv'.s2 = fdiv.s2 /\ fdiv'.busy = fdiv.busy
      /\ fdiv'.wb_valid = TRUE /\ fdiv'.rm = fdiv.rm /\ DOMAIN fdiv' = DOMAIN fdiv
  BY DEF DivFinish, DivInv, DivTypeOK, DivIdle
<1> QED BY <1>1 DEF DivInv, DivTypeOK, RemainderBounded, Finite

LEMMA NextInv ==
  ASSUME DivInv, [DivNext]_fdiv
  PROVE  DivInv'
<1>1. CASE \E s1, s2 \in Operands, rm \in RoundingModes : DivStart(s1, s2, rm)
  BY <1>1, StartInv
<1>2. CASE DivStep
  BY <1>2, StepInv
<1>3. CASE DivFinish
  BY <1>3, FinishInv
<1>4. CASE fdiv' = DivIdle
  <2>1. (fdiv = DivIdle => DivInv)'
    BY IdleInv, PTL
  <2> QED BY <1>4, <2>1 DEF DivIdle
<1>5. CASE UNCHANGED fdiv
  BY <1>5 DEF DivInv, DivTypeOK, RemainderBounded
<1> QED BY <1>1, <1>2, <1>3, <1>4, <1>5 DEF DivNext, DivClock, DivRelease, DivFlush

(* Every reachable state of the division satisfies the invariant.           *)
THEOREM DivInvariant == DivSpec => []DivInv
<1>1. DivInit => DivInv
  BY IdleInv DEF DivInit
<1>2. DivInv /\ [DivNext]_fdiv => DivInv'
  BY NextInv
<1> QED BY <1>1, <1>2, PTL DEF DivSpec

(* The registers keep their types and widths (fdiv.v:303-353).              *)
THEOREM DivTypes == DivSpec => []DivTypeOK
<1>1. DivInv => DivTypeOK
  BY DEF DivInv
<1> QED BY <1>1, DivInvariant, PTL

(* fdiv.v:88 for every divisor and dividend: the remainder never leaves     *)
(* two thirds of the divisor, so the digits -2..2 always suffice.           *)
THEOREM DivRemainderBounded == DivSpec => []RemainderBounded
<1>1. DivInv => RemainderBounded
  BY DEF DivInv
<1> QED BY <1>1, DivInvariant, PTL

(* No digit, multiple or cut register loses a part of the dividend.         *)
THEOREM DivNothingLost == DivSpec => NothingLost
<1>1. DivInv /\ [DivNext]_fdiv =>
        [DivStep /\ Finite(fdiv.s1, fdiv.s2) =>
           fdiv'.quo * fdiv.s2.sig + fdiv'.rem = 4 * (fdiv.quo * fdiv.s2.sig + fdiv.rem)]_fdiv
  BY StepInv
<1> QED BY <1>1, DivInvariant, PTL DEF DivSpec, NothingLost

(* The significand's width: at least 3 bits, and an odd number of them.     *)
LEMMA Width ==
  /\ FRAC \in Nat /\ FRAC >= 3 /\ BIAS \in Nat /\ BIAS > FRAC
  /\ STEPS \in Nat /\ 2 * STEPS = FRAC + 1 /\ STEPS >= 2
  /\ 2^(FRAC - 2) \in Nat /\ 2^(FRAC - 2) >= 2
  /\ 2^(FRAC - 1) = 2 * 2^(FRAC - 2)
  /\ ONE = 4 * 2^(FRAC - 2)
  /\ 2^(FRAC + 1) = 8 * 2^(FRAC - 2)
  /\ 2^(FRAC + 2) = 16 * 2^(FRAC - 2)
  /\ 2^(FRAC + 3) = 32 * 2^(FRAC - 2)
  /\ 2^(FRAC + 4) = 64 * 2^(FRAC - 2)
<1>1. FRAC \in Nat /\ FRAC % 2 = 1 /\ ONE \in Nat /\ ONE >= 8 /\ BIAS \in Nat /\ BIAS > FRAC
  BY FormatAssumption, Hidden
<1>2. FRAC # 1
  <2> SUFFICES ASSUME FRAC = 1 PROVE FALSE
    OBVIOUS
  <2>1. 2^(0 + 1) = 2 * 2^0 /\ 2^0 = 1 /\ 0 + 1 = FRAC
    BY <1>1, Powers, EvenPowers
  <2> QED BY <1>1, <2>1 DEF ONE
<1>3. FRAC >= 3
  BY <1>1, <1>2
<1>4. STEPS \in Nat /\ 2 * STEPS = FRAC + 1 /\ STEPS >= 2
  BY <1>1, <1>3 DEF STEPS
<1> DEFINE h == 2^(FRAC - 2)
<1>5. h \in Nat
  BY <1>1, <1>3, Powers
<1>6. 2^(FRAC - 1) = 2 * h /\ ONE = 4 * h
  <2>1. (FRAC - 2) + 1 = FRAC - 1 /\ (FRAC - 2) + 2 = FRAC /\ FRAC - 2 \in 0..4 * FRAC + BIAS - 1
    BY <1>1, <1>3
  <2> QED BY <2>1, Double DEF ONE
<1>7. 2^(FRAC + 1) = 8 * h /\ 2^(FRAC + 2) = 16 * h
  BY <1>1, <1>3, <1>5, <1>6, Double DEF ONE
<1>8. 2^(FRAC + 3) = 32 * h /\ 2^(FRAC + 4) = 64 * h
  <2>1. (FRAC + 2) + 1 = FRAC + 3 /\ (FRAC + 2) + 2 = FRAC + 4 /\ FRAC + 2 \in 0..4 * FRAC + BIAS - 1
    BY <1>1, <1>3
  <2> QED BY <1>5, <1>7, <2>1, Double
<1> QED BY <1>1, <1>3, <1>4, <1>5, <1>6, <1>7, <1>8

(***************************************************************************)
(* The square root                                                         *)
(***************************************************************************)

(* The place of the digits found in step c, one unit of Y then.             *)
Place(c) == 2^(FRAC + 1 - 2 * c)

LEMMA PlaceFacts ==
  ASSUME NEW c \in 0..STEPS
  PROVE  /\ Place(c) \in Nat /\ Place(c) >= 1
         /\ 2^(2 * c) \in Nat /\ 2^(2 * c) >= 1 /\ 2^(2 * c) * Place(c) = 2 * ONE
         /\ c >= 1 => Place(c) <= 2 * 2^(FRAC - 2)
         /\ c < STEPS => /\ Place(c) = 4 * Place(c + 1)
                         /\ Place(c + 1) = 2^(FRAC - 1 - 2 * c)
                         /\ 2^(2 * (c + 1)) = 4 * 2^(2 * c)
<1> DEFINE S == {k \in Nat : k <= STEPS => 2^(2 * k) * Place(k) = 2 * ONE}
<1>1. FRAC \in Nat /\ BIAS \in Nat /\ STEPS \in Nat /\ 2 * STEPS = FRAC + 1 /\ STEPS <= FRAC
  BY Width
<1>2. ASSUME NEW k \in 0..STEPS
      PROVE  /\ Place(k) \in Nat /\ Place(k) >= 1 /\ 2^(2 * k) \in Nat /\ 2^(2 * k) >= 1
             /\ k < STEPS => /\ Place(k) = 4 * Place(k + 1)
                             /\ Place(k + 1) = 2^(FRAC - 1 - 2 * k)
                             /\ 2^(2 * (k + 1)) = 4 * 2^(2 * k)
  <2>1. FRAC + 1 - 2 * k \in 0..4 * FRAC + BIAS + 1 /\ k \in 0..FRAC + 1
    BY <1>1
  <2>2. Place(k) \in Nat /\ Place(k) >= 1 /\ 2^(2 * k) \in Nat /\ 2^(2 * k) >= 1
    BY <2>1, Powers, EvenPowers DEF Place
  <2>3. ASSUME k < STEPS
        PROVE  /\ Place(k) = 4 * Place(k + 1)
               /\ Place(k + 1) = 2^(FRAC - 1 - 2 * k)
               /\ 2^(2 * (k + 1)) = 4 * 2^(2 * k)
    <3> DEFINE m == FRAC - 1 - 2 * k
    <3>1. m \in 0..4 * FRAC + BIAS - 1 /\ k \in 0..FRAC
      BY <1>1, <2>3
    <3>2. FRAC + 1 - 2 * k = m + 2 /\ FRAC + 1 - 2 * (k + 1) = m
      BY <1>1
    <3>3. 2^(m + 2) = 4 * 2^m
      BY <3>1, Double
    <3> QED BY <3>1, <3>2, <3>3, Powers, EvenPowers DEF Place
  <2> QED BY <2>2, <2>3
<1>3. 0 \in S
  <2>1. 2^(2 * 0) = 1 /\ FRAC + 1 - 2 * 0 = FRAC + 1
    BY <1>1
  <2>2. 2^(FRAC + 1) = 2 * ONE /\ ONE \in Nat
    BY <1>1, Powers, EvenPowers, FormatAssumption, Hidden DEF ONE
  <2> QED BY <2>1, <2>2 DEF Place
<1>4. ASSUME NEW k \in S PROVE k + 1 \in S
  <2> SUFFICES ASSUME k + 1 <= STEPS PROVE 2^(2 * (k + 1)) * Place(k + 1) = 2 * ONE
    OBVIOUS
  <2>1. k \in 0..STEPS /\ k < STEPS /\ k + 1 \in 0..STEPS
    BY <1>1
  <2>2. 2^(2 * k) * Place(k) = 2 * ONE
    BY <2>1
  <2>3. Place(k + 1) \in Nat /\ 2^(2 * k) \in Nat /\ Place(k) = 4 * Place(k + 1) /\ 2^(2 * (k + 1)) = 4 * 2^(2 * k)
    BY <1>2, <2>1
  <2>4. (4 * 2^(2 * k)) * Place(k + 1) = 2^(2 * k) * (4 * Place(k + 1))
    BY <2>3
  <2> QED BY <2>2, <2>3, <2>4
<1> HIDE DEF S
<1>5. S = Nat
  BY <1>3, <1>4, SetInduction DEF S
<1>6. 2^(2 * c) * Place(c) = 2 * ONE
  BY <1>1, <1>5 DEF S
<1>7. ASSUME c >= 1 PROVE Place(c) <= 2 * 2^(FRAC - 2)
  <2> DEFINE h == 2^(FRAC - 2)
  <2>1. h \in Nat /\ 2 * ONE = 8 * h
    BY Width
  <2>2. PICK k \in 0..STEPS : k < STEPS /\ c = k + 1
    <3>1. c - 1 \in 0..STEPS /\ c - 1 < STEPS /\ c = (c - 1) + 1
      BY <1>1, <1>7
    <3> QED BY <3>1
  <2>3. 2^(2 * k) >= 1 /\ 2^(2 * k) \in Nat /\ 2^(2 * c) = 4 * 2^(2 * k) /\ Place(c) \in Nat
    BY <1>2, <2>2
  <2>4. 4 * (2^(2 * k) * Place(c)) = 8 * h /\ 2^(2 * k) * Place(c) \in Nat
    BY <1>6, <2>1, <2>3
  <2>5. 2^(2 * k) * Place(c) >= Place(c)
    BY <2>3
  <2> QED BY <2>1, <2>3, <2>4, <2>5
<1> QED BY <1>2, <1>6, <1>7

-----------------------------------------------------------------------------
(* The range a residue may be in, when Y has units of U and W = 2 Y: the    *)
(* root is within two thirds of a unit of Y.                                *)
Contained(P, W, U) == -6 * W + 4 * U <= 9 * P /\ 9 * P <= 6 * W + 4 * U

(* Comparing a quotient rounded down is comparing the number.               *)
LEMMA Threshold ==
  ASSUME NEW b \in Nat, b > 0, NEW a \in Int, NEW t \in Int
  PROVE  (a \div b >= t <=> a >= b * t) /\ a \div b \in Int
<1>1. a \div b \in Int /\ b * (a \div b) <= a /\ a < b * ((a \div b) + 1)
  OBVIOUS
<1> DEFINE q == a \div b
<1> HIDE DEF q
<1>2. q \in Int /\ b * q <= a /\ a < b * (q + 1)
  BY <1>1 DEF q
<1>3. ASSUME q >= t PROVE a >= b * t
  <2>1. b * q >= b * t
    BY <1>2, <1>3
  <2>2. b * t \in Int /\ b * q \in Int
    BY <1>2
  <2> QED BY <1>2, <2>1, <2>2
<1>4. ASSUME q < t PROVE a < b * t
  <2>1. q + 1 <= t
    BY <1>2, <1>4
  <2>2. b * (q + 1) <= b * t
    BY <1>2, <2>1
  <2>3. b * t \in Int /\ b * (q + 1) \in Int
    BY <1>2
  <2> QED BY <1>2, <2>2, <2>3
<1>5. q >= t <=> a >= b * t
  BY <1>2, <1>3, <1>4
<1> QED BY <1>1, <1>5 DEF q

(* The bounds near and far of the table between the digits, for each of its *)
(* sixteen rows.                                                            *)
LEMMA Rows ==
  ASSUME NEW w \in 16..31
  PROVE  LET near == (w + 2) \div 4
             far  == (3 * w + 3) \div 4
         IN  /\ near \in Nat /\ far \in Nat /\ near < far /\ near > 0
             /\ 2 * near >= (w - 1) \div 2
             /\ 4 * near >= w - 1 /\ 4 * near <= w + 2
             /\ 4 * far >= 3 * w /\ 4 * far <= 3 * w + 3
             /\ w < 19 => 4 * far <= 3 * w + 2
OBVIOUS

-----------------------------------------------------------------------------
(* The row of the table for W.                                              *)
RowOf(W) == IF W >= 2^(FRAC + 3) THEN 31 ELSE W \div 2^(FRAC - 2)

LEMMA RowFacts ==
  ASSUME NEW W \in Int, 16 * 2^(FRAC - 2) <= W, W <= 32 * 2^(FRAC - 2)
  PROVE  LET h == 2^(FRAC - 2)
         IN  RowOf(W) \in 16..31 /\ h * RowOf(W) <= W /\ W <= h * (RowOf(W) + 1)
<1> DEFINE h == 2^(FRAC - 2)
<1>1. h \in Nat /\ h >= 2 /\ 2^(FRAC + 3) = 32 * h
  BY Width
<1>2. CASE W >= 32 * h
  <2>1. RowOf(W) = 31
    BY <1>1, <1>2 DEF RowOf
  <2> QED BY <1>1, <1>2, <2>1
<1>3. CASE ~(W >= 32 * h)
  <2>1. RowOf(W) = W \div h
    BY <1>1, <1>3 DEF RowOf
  <2>2. W \div h \in Int /\ h * (W \div h) <= W /\ W < h * ((W \div h) + 1)
    BY <1>1
  <2>3. W \div h >= 16
    <3>1. W >= h * 16
      BY <1>1
    <3> QED BY <1>1, <3>1, Threshold
  <2>4. W \div h < 32
    <3>1. W \div h \in Int /\ (W \div h >= 32 <=> W >= h * 32)
      BY <1>1, Threshold
    <3>2. ~(W >= h * 32)
      BY <1>1, <1>3
    <3> HIDE DEF h
    <3> QED BY <3>1, <3>2
  <2>5. h * ((W \div h) + 1) \in Int
    BY <1>1, <2>2
  <2> QED BY <2>1, <2>2, <2>3, <2>4, <2>5
<1> QED BY <1>2, <1>3

(* The digit of the table keeps the residue contained, whatever the bits it *)
(* does not see are.                                                        *)
LEMMA TableContains ==
  ASSUME NEW W \in Int, 16 * 2^(FRAC - 2) <= W, W <= 32 * 2^(FRAC - 2),
         NEW u \in Nat, u >= 1, 2 * u <= 2^(FRAC - 2),
         NEW P \in Int, Contained(P, W, 4 * u)
  PROVE  LET q == TableDigit((4 * P) \div 2^(FRAC - 1), RowOf(W))
         IN  /\ q \in -2..2
             /\ Contained(4 * P - q * W - q * q * u, W + 2 * q * u, u)
             /\ P >= 0 => q >= 0
             /\ P <= 0 => q <= 0
<1> DEFINE h == 2^(FRAC - 2)
           w == RowOf(W)
           near == (w + 2) \div 4
           far  == (3 * w + 3) \div 4
           t == (4 * P) \div 2^(FRAC - 1)
           q == TableDigit(t, w)
<1>1. h \in Nat /\ h >= 2 /\ 2^(FRAC - 1) = 2 * h
  BY Width
<1>2. w \in 16..31 /\ h * w <= W /\ W <= h * (w + 1)
  BY RowFacts
<1>3. /\ near \in Nat /\ far \in Nat /\ near < far /\ near > 0
      /\ 4 * near >= w - 1 /\ 4 * near <= w + 2
      /\ 4 * far >= 3 * w /\ 4 * far <= 3 * w + 3
      /\ w < 19 => 4 * far <= 3 * w + 2
  BY <1>2, Rows
<1>4. /\ t \in Int
      /\ t >= near <=> 4 * P >= (2 * h) * near
      /\ t >= far <=> 4 * P >= (2 * h) * far
      /\ t >= -near <=> 4 * P >= (2 * h) * (-near)
      /\ t >= -far <=> 4 * P >= (2 * h) * (-far)
  <2>1. ASSUME NEW k \in Int
        PROVE  t \in Int /\ (t >= k <=> 4 * P >= (2 * h) * k)
    BY <1>1, Threshold
  <2>2. near \in Int /\ far \in Int /\ -near \in Int /\ -far \in Int
    BY <1>3
  <2> HIDE DEF t, near, far
  <2> QED BY <2>1, <2>2
<1>5. /\ t < -far => q = -2
      /\ -far <= t /\ t < -near => q = -1
      /\ -near <= t /\ t < near => q = 0
      /\ near <= t /\ t < far => q = 1
      /\ far <= t => q = 2
  <2> HIDE DEF t, w
  <2>1. /\ near \in Nat /\ far \in Nat /\ near < far /\ near > 0 /\ t \in Int
    BY <1>3, <1>4
  <2>2. TableDigit(t, w) = CASE t < -far                     -> -2
        [] -far <= t /\ t < -near     -> -1
        [] -near <= t /\ t < near     -> 0
        [] near <= t /\ t < far       -> 1
        [] far <= t                     -> 2
    BY DEF TableDigit
  <2> HIDE DEF near, far
  <2> QED BY <2>1, <2>2
<1> DEFINE X == h * w
           N == h * near
           F == h * far
<1>6. /\ X \in Int /\ N \in Int /\ F \in Int
      /\ X >= 16 * h /\ X <= W /\ W <= X + h
      /\ 4 * N >= X - h /\ 4 * N <= X + 2 * h /\ N > 0
      /\ 4 * F >= 3 * X /\ 4 * F <= 3 * X + 3 * h
      /\ X >= 19 * h \/ 4 * F <= 3 * X + 2 * h
      /\ (2 * h) * near = 2 * N /\ (2 * h) * far = 2 * F
      /\ (2 * h) * (-near) = -(2 * N) /\ (2 * h) * (-far) = -(2 * F)
  <2> HIDE DEF h, w, near, far
  <2>1. X \in Int /\ N \in Int /\ F \in Int /\ h * (w + 1) = X + h
    BY <1>1, <1>2, <1>3
  <2>2. h * w >= h * 16
    BY <1>1, <1>2
  <2>3. h * (4 * near) >= h * (w - 1) /\ h * (4 * near) <= h * (w + 2)
    BY <1>1, <1>2, <1>3
  <2>4. h * (4 * far) >= h * (3 * w) /\ h * (4 * far) <= h * (3 * w + 3)
    BY <1>1, <1>2, <1>3
  <2>5. CASE w < 19
    <3>1. h * (4 * far) <= h * (3 * w + 2)
      BY <1>1, <1>2, <1>3, <2>5
    <3> QED BY <1>1, <1>2, <1>3, <2>1, <2>2, <2>3, <2>4, <3>1
  <2>6. CASE w >= 19
    <3>1. h * w >= h * 19
      BY <1>1, <1>2, <2>6
    <3> QED BY <1>1, <1>2, <1>3, <2>1, <2>2, <2>3, <2>4, <3>1
  <2> QED BY <1>2, <2>5, <2>6
<1> HIDE DEF h, w, near, far, t, q, X, N, F
<1>7. /\ -6 * W + 16 * u <= 9 * P /\ 9 * P <= 6 * W + 16 * u
  BY DEF Contained
<1>8. CASE t < -far
  <2>1. 4 * P < -(2 * F) /\ q = -2
    BY <1>3, <1>4, <1>5, <1>6, <1>8
  <2>2. q * W = -2 * W /\ q * q * u = 4 * u /\ 2 * q * u = -(4 * u)
    BY <2>1
  <2> QED BY <1>1, <1>6, <1>7, <2>1, <2>2 DEF Contained, q, h, t, w
<1>9. CASE -far <= t /\ t < -near
  <2>1. 4 * P >= -(2 * F) /\ 4 * P < -(2 * N) /\ q = -1
    BY <1>3, <1>4, <1>5, <1>6, <1>9
  <2>2. q * W = -W /\ q * q * u = u /\ 2 * q * u = -(2 * u)
    BY <2>1
  <2> QED BY <1>1, <1>6, <1>7, <2>1, <2>2 DEF Contained, q, h, t, w
<1>10. CASE -near <= t /\ t < near
  <2>1. 4 * P >= -(2 * N) /\ 4 * P < 2 * N /\ q = 0
    BY <1>3, <1>4, <1>5, <1>6, <1>10
  <2>2. q * W = 0 /\ q * q * u = 0 /\ 2 * q * u = 0
    BY <2>1
  <2> QED BY <1>1, <1>6, <1>7, <2>1, <2>2 DEF Contained, q, h, t, w
<1>11. CASE near <= t /\ t < far
  <2>1. 4 * P >= 2 * N /\ 4 * P < 2 * F /\ q = 1
    BY <1>3, <1>4, <1>5, <1>6, <1>11
  <2>2. q * W = W /\ q * q * u = u /\ 2 * q * u = 2 * u
    BY <2>1
  <2> QED BY <1>1, <1>6, <1>7, <2>1, <2>2 DEF Contained, q, h, t, w
<1>12. CASE far <= t
  <2>1. 4 * P >= 2 * F /\ q = 2
    BY <1>3, <1>4, <1>5, <1>6, <1>12
  <2>2. q * W = 2 * W /\ q * q * u = 4 * u /\ 2 * q * u = 4 * u
    BY <2>1
  <2> QED BY <1>1, <1>6, <1>7, <2>1, <2>2 DEF Contained, q, h, t, w
<1> QED BY <1>3, <1>4, <1>8, <1>9, <1>10, <1>11, <1>12

(* The first digit is the lowest of those nearest to 4 P: there is one.     *)
LEMMA FirstNearest ==
  ASSUME NEW t4 \in Int
  PROVE  LET dist(q) == LET c == t4 - q * (2^(FRAC + 2) + q * 2^(FRAC - 1))
                        IN  IF c < 0 THEN -c ELSE c
         IN  /\ FirstDigit(t4) \in 0..4
             /\ \A r \in 0..4 : dist(r) \in Int /\ dist(FirstDigit(t4)) <= dist(r)
<1> DEFINE c(q) == t4 - q * (2^(FRAC + 2) + q * 2^(FRAC - 1))
           dist(q) == IF c(q) < 0 THEN -c(q) ELSE c(q)
           m == [q \in 0..4 |-> dist(q)]
           First(q) == /\ \A r \in 0..q - 1 : m[q] < m[r]
                       /\ \A r \in q..4     : m[q] <= m[r]
           q == FirstDigit(t4)
<1>1. 2^(FRAC + 2) \in Int /\ 2^(FRAC - 1) \in Int
  BY Width
<1>2. \A r \in 0..4 : dist(r) \in Int
  <2>1. \A r \in 0..4 : r * (2^(FRAC + 2) + r * 2^(FRAC - 1)) \in Int
    BY <1>1
  <2>2. \A r \in 0..4 : c(r) \in Int
    BY <2>1
  <2> HIDE DEF c
  <2> QED BY <2>2
<1>3. \A r \in 0..4 : m[r] = dist(r)
  OBVIOUS
<1>4. q = CHOOSE r \in 0..4 : First(r)
  BY DEF FirstDigit
<1> HIDE DEF c, dist, m, q
<1>5. \A s \in 0..4 : m[s] \in Int
  BY <1>2, <1>3
<1>6. \E r \in 0..4 : First(r)
  <2>1. m[0] \in Int /\ m[1] \in Int /\ m[2] \in Int /\ m[3] \in Int /\ m[4] \in Int
    BY <1>5
  <2>2. \E r \in 0..4 : \A s \in 0..4 : m[r] <= m[s]
    <3>1. \/ m[0] <= m[1] /\ m[0] <= m[2] /\ m[0] <= m[3] /\ m[0] <= m[4]
          \/ m[1] <= m[0] /\ m[1] <= m[2] /\ m[1] <= m[3] /\ m[1] <= m[4]
          \/ m[2] <= m[0] /\ m[2] <= m[1] /\ m[2] <= m[3] /\ m[2] <= m[4]
          \/ m[3] <= m[0] /\ m[3] <= m[1] /\ m[3] <= m[2] /\ m[3] <= m[4]
          \/ m[4] <= m[0] /\ m[4] <= m[1] /\ m[4] <= m[2] /\ m[4] <= m[3]
      BY <2>1
    <3>2. \A s \in 0..4 : s = 0 \/ s = 1 \/ s = 2 \/ s = 3 \/ s = 4
      OBVIOUS
    <3> QED BY <2>1, <3>1, <3>2
  <2> DEFINE S == {r \in 0..4 : \A s \in 0..4 : m[r] <= m[s]}
  <2>3. \E r \in S : \A s \in S : r <= s
    <3>1. S \in SUBSET Nat /\ S # {}
      BY <2>2
    <3> QED BY <3>1, Least
  <2>4. PICK r \in S : \A s \in S : r <= s
    BY <2>3
  <2>6. r \in 0..4 /\ \A s \in r..4 : m[r] <= m[s]
    BY <2>4
  <2>7. \A s \in 0..r - 1 : m[r] < m[s]
    <3> SUFFICES ASSUME NEW s \in 0..r - 1, m[s] <= m[r] PROVE FALSE
      BY <1>5, <2>6
    <3>0. s \in 0..4 /\ m[r] \in Int /\ m[s] \in Int
      BY <1>5, <2>6
    <3>1. s \in S
      <4>1. \A k \in 0..4 : m[r] <= m[k]
        BY <2>4
      <4>2. \A k \in 0..4 : m[s] <= m[k]
        BY <1>5, <3>0, <4>1
      <4> QED BY <3>0, <4>2
    <3> QED BY <2>4, <2>6, <3>1
  <2> QED BY <2>6, <2>7
<1>7. q \in 0..4 /\ First(q)
  BY <1>4, <1>6
<1>8. \A r \in 0..4 : m[q] <= m[r]
  BY <1>5, <1>7
<1>9. q \in 0..4 /\ \A r \in 0..4 : dist(r) \in Int /\ dist(q) <= dist(r)
  BY <1>2, <1>3, <1>7, <1>8
<1> QED BY <1>9 DEF q, dist, c

LEMMA FirstContains ==
  ASSUME NEW P \in Int, 0 <= P, P < 6 * ONE
  PROVE  LET q == FirstDigit(4 * P)
             u == 2^(FRAC - 1)
             W == 4 * ONE
         IN  /\ q \in 0..4
             /\ Contained(4 * P - q * W - q * q * u, W + 2 * q * u, u)
<1> DEFINE h == 2^(FRAC - 2)
           t4 == 4 * P
           c(q) == t4 - q * (2^(FRAC + 2) + q * 2^(FRAC - 1))
           m == [q \in 0..4 |-> IF c(q) < 0 THEN -c(q) ELSE c(q)]
           q == FirstDigit(t4)
<1>1. h \in Nat /\ h >= 2 /\ 2^(FRAC - 1) = 2 * h /\ 2^(FRAC + 2) = 16 * h /\ ONE = 4 * h
  BY Width
<1>2. t4 \in Int /\ 0 <= t4 /\ t4 < 96 * h
  BY <1>1
<1>3. /\ c(0) = t4 /\ c(1) = t4 - 18 * h /\ c(2) = t4 - 40 * h /\ c(3) = t4 - 66 * h /\ c(4) = t4 - 96 * h
  BY <1>1, <1>2
<1>4. \A r \in 0..4 : m[r] = IF c(r) < 0 THEN -c(r) ELSE c(r)
  OBVIOUS
<1> DEFINE Abs(x) == IF x < 0 THEN -x ELSE x
<1>5. /\ m[0] = Abs(t4) /\ m[1] = Abs(t4 - 18 * h) /\ m[2] = Abs(t4 - 40 * h)
      /\ m[3] = Abs(t4 - 66 * h) /\ m[4] = Abs(t4 - 96 * h)
  BY <1>3, <1>4
<1>6. q \in 0..4 /\ \A r \in 0..4 : m[q] <= m[r]
  <2>1. q \in 0..4 /\ \A r \in 0..4 : m[r] \in Int /\ m[q] <= m[r]
    BY <1>2, FirstNearest
  <2> QED BY <2>1
<1> HIDE DEF h, t4, c, m, q
<1>10. m[q] <= m[0] /\ m[q] <= m[1] /\ m[q] <= m[2] /\ m[q] <= m[3] /\ m[q] <= m[4]
  BY <1>6
<1>11. Contained(t4 - q * (16 * h) - q * q * (2 * h), 16 * h + 2 * q * (2 * h), 2 * h)
  <2>0. q = 0 \/ q = 1 \/ q = 2 \/ q = 3 \/ q = 4
    BY <1>6
  <2>1. CASE q = 0
    BY <1>1, <1>2, <1>5, <1>10, <2>1 DEF Contained
  <2>2. CASE q = 1
    BY <1>1, <1>2, <1>5, <1>10, <2>2 DEF Contained
  <2>3. CASE q = 2
    BY <1>1, <1>2, <1>5, <1>10, <2>3 DEF Contained
  <2>4. CASE q = 3
    BY <1>1, <1>2, <1>5, <1>10, <2>4 DEF Contained
  <2>5. CASE q = 4
    BY <1>1, <1>2, <1>5, <1>10, <2>5 DEF Contained
  <2> QED BY <2>0, <2>1, <2>2, <2>3, <2>4, <2>5
<1>12. 4 * ONE = 16 * h
  BY <1>1
<1> QED BY <1>1, <1>6, <1>11, <1>12 DEF q, t4

-----------------------------------------------------------------------------
(* The registers keep what fits into them.                                  *)
LEMMA Cuts ==
  /\ \A x \in Int : -8 * ONE <= x /\ x < 8 * ONE => Signed(FRAC + 4, x) = x
  /\ \A x \in Int : 0 <= x /\ x < 8 * ONE => Unsigned(FRAC + 3, x) = x
  /\ \A x \in Int : 0 <= x /\ x < 16 * ONE => Unsigned(FRAC + 4, x) = x
<1> DEFINE h == 2^(FRAC - 2)
<1>1. /\ h \in Nat /\ h >= 2 /\ 2^(FRAC + 3) = 32 * h /\ 2^(FRAC + 4) = 64 * h /\ ONE = 4 * h
      /\ (FRAC + 4) - 1 = FRAC + 3
  BY Width
<1> HIDE DEF h
<1>2. ASSUME NEW x \in Int, 0 <= x, x < 64 * h PROVE x % (64 * h) = x
  BY <1>1, <1>2
<1>3. ASSUME NEW x \in Int, 0 <= x, x < 32 * h PROVE x % (32 * h) = x
  BY <1>1, <1>3
<1>4. ASSUME NEW x \in Int, -8 * ONE <= x, x < 8 * ONE PROVE Signed(FRAC + 4, x) = x
  <2>1. x + 32 * h \in Int /\ 0 <= x + 32 * h /\ x + 32 * h < 64 * h
    BY <1>1, <1>4
  <2>2. (x + 32 * h) % (64 * h) = x + 32 * h
    BY <1>2, <2>1
  <2> QED BY <1>1, <2>2 DEF Signed
<1>5. ASSUME NEW x \in Int, 0 <= x, x < 8 * ONE PROVE Unsigned(FRAC + 3, x) = x
  BY <1>1, <1>3, <1>5 DEF Unsigned
<1>6. ASSUME NEW x \in Int, 0 <= x, x < 16 * ONE PROVE Unsigned(FRAC + 4, x) = x
  BY <1>1, <1>2, <1>6 DEF Unsigned
<1> QED BY <1>4, <1>5, <1>6

-----------------------------------------------------------------------------
RootTypeOK ==
  /\ DOMAIN fsqrt = DOMAIN RootIdle
  /\ fsqrt.busy \in BOOLEAN /\ fsqrt.wb_valid \in BOOLEAN
  /\ fsqrt.cnt \in 0..STEPS /\ fsqrt.rm \in RoundingModes /\ fsqrt.s1 \in Operands
  /\ fsqrt.P \in Int /\ fsqrt.Y \in Int /\ fsqrt.W \in Int /\ fsqrt.m25 \in Int

(* P is what is left of M after the square of Y, in units of U.             *)
Remains(U, P, M, Y) == U * P = M - Y * Y

(* What is left of the significand, its bounds, and the place of Y between  *)
(* 1 and 2, which are 2 ONE and 4 ONE.                                      *)
RootBounded ==
  LET U == Place(fsqrt.cnt)
  IN  /\ fsqrt.m25 \in ONE..4 * ONE - 2
      /\ fsqrt.W = 2 * fsqrt.Y
      /\ Remains(U, fsqrt.P, 4 * ONE * fsqrt.m25, fsqrt.Y)
      /\ fsqrt.Y = 2 * ONE \/ fsqrt.Y >= 2 * ONE + U
      /\ fsqrt.Y = 4 * ONE \/ fsqrt.Y <= 4 * ONE - U
      /\ fsqrt.cnt = 0 => fsqrt.Y = 2 * ONE
      /\ fsqrt.cnt # 0 => Contained(fsqrt.P, fsqrt.W, U)

RootInv ==
  /\ RootTypeOK
  /\ fsqrt.busy /\ fsqrt.s1.kind = "finite" => RootBounded

-----------------------------------------------------------------------------
LEMMA RootInvExact ==
  ASSUME RootInv
  PROVE  ResidueExact
<1> SUFFICES ASSUME fsqrt.busy, fsqrt.s1.kind = "finite"
             PROVE  /\ fsqrt.W = 2 * fsqrt.Y
                    /\ 2 * ONE * fsqrt.P = 2^(2 * fsqrt.cnt) * (4 * ONE * fsqrt.m25 - fsqrt.Y * fsqrt.Y)
  BY DEF ResidueExact
<1> DEFINE U == Place(fsqrt.cnt)
           f == 2^(2 * fsqrt.cnt)
<1>1. RootBounded /\ fsqrt.cnt \in 0..STEPS /\ fsqrt.P \in Int
  BY DEF RootInv, RootTypeOK
<1>2. U \in Nat /\ f \in Nat /\ f * U = 2 * ONE
  BY <1>1, PlaceFacts
<1>3. f * (U * fsqrt.P) = (f * U) * fsqrt.P
  BY <1>1, <1>2
<1>4. U * fsqrt.P = 4 * ONE * fsqrt.m25 - fsqrt.Y * fsqrt.Y /\ fsqrt.W = 2 * fsqrt.Y
  BY <1>1 DEF RootBounded, Remains
<1> QED BY <1>2, <1>3, <1>4

LEMMA Cancel ==
  ASSUME NEW a \in Nat, a > 0, NEW x \in Int, NEW y \in Int, a * x = a * y
  PROVE  x = y
<1>1. a * (x - y) = 0
  OBVIOUS
<1> QED BY <1>1

(* The square completed by a digit.                                         *)
LEMMA Completed ==
  ASSUME NEW P \in Int, NEW Y \in Int, NEW q \in Int, NEW u \in Int, NEW M \in Int,
         Remains(4 * u, P, M, Y)
  PROVE  Remains(u, 4 * P - q * (2 * Y) - q * q * u, M, Y + q * u)
<1> DEFINE a == q * u
<1>1. a \in Int
  OBVIOUS
<1>2. u * (q * (2 * Y)) = 2 * (a * Y) /\ u * (q * q * u) = a * a
  OBVIOUS
<1>3. u * (4 * P - q * (2 * Y) - q * q * u) = u * (4 * P) - u * (q * (2 * Y)) - u * (q * q * u)
  <2>1. q * (2 * Y) \in Int /\ q * q * u \in Int /\ 4 * P \in Int
    OBVIOUS
  <2> QED BY <2>1
<1>4. (Y + a) * (Y + a) = Y * Y + 2 * (a * Y) + a * a
  <2> HIDE DEF a
  <2> QED BY <1>1
<1>5. u * (4 * P) = M - Y * Y
  BY DEF Remains
<1>6. Y * Y \in Int /\ a * Y \in Int /\ a * a \in Int
  OBVIOUS
<1>7. u * (4 * P - q * (2 * Y) - q * q * u) = M - (Y + a) * (Y + a)
  BY <1>2, <1>3, <1>4, <1>5, <1>6
<1> QED BY <1>7 DEF Remains

(* One digit.                                                               *)
LEMMA DigitStep ==
  ASSUME RootTypeOK, RootBounded, fsqrt.cnt < STEPS
  PROVE  LET q  == Digit
             u  == 2^(FRAC - 1 - 2 * fsqrt.cnt)
             P1 == NextResidue(q, FRAC - 1 - 2 * fsqrt.cnt)
             Y1 == fsqrt.Y + q * u
         IN  /\ q \in -2..4 /\ u \in Nat /\ u = Place(fsqrt.cnt + 1)
             /\ P1 \in Int /\ -8 * ONE <= P1 /\ P1 < 8 * ONE
             /\ Remains(u, P1, 4 * ONE * fsqrt.m25, Y1)
             /\ Y1 = 2 * ONE \/ Y1 >= 2 * ONE + u
             /\ Y1 = 4 * ONE \/ Y1 <= 4 * ONE - u
             /\ Contained(P1, 2 * Y1, u)
<1> DEFINE h == 2^(FRAC - 2)
           c == fsqrt.cnt
           q == Digit
           u == Place(c + 1)
           P == fsqrt.P
           Y == fsqrt.Y
           W == fsqrt.W
           M == 4 * ONE * fsqrt.m25
           P1 == 4 * P - q * W - q * q * u
           Y1 == Y + q * u
<1>1. h \in Nat /\ h >= 2 /\ ONE = 4 * h /\ STEPS \in Nat /\ 2^(FRAC - 1) = 2 * h /\ FRAC \in Nat
  BY Width
<1>2. c \in 0..STEPS /\ c + 1 \in 0..STEPS /\ c < STEPS /\ c \in Nat
  BY <1>1 DEF RootTypeOK
<1>3. /\ Place(c) = 4 * u /\ u \in Nat /\ u >= 1 /\ u = 2^(FRAC - 1 - 2 * c)
      /\ c # 0 => Place(c) <= 2 * h
  <2>1. c # 0 => c >= 1
    BY <1>2
  <2> QED BY <1>2, <2>1, PlaceFacts
<1>4. /\ P \in Int /\ Y \in Int /\ W \in Int /\ M \in Int /\ fsqrt.m25 \in ONE..4 * ONE - 2
      /\ W = 2 * Y /\ (4 * u) * P = M - Y * Y /\ Remains(4 * u, P, M, Y)
      /\ Y = 2 * ONE \/ Y >= 2 * ONE + 4 * u
      /\ Y = 4 * ONE \/ Y <= 4 * ONE - 4 * u
      /\ c = 0 => Y = 2 * ONE
      /\ c # 0 => Contained(P, W, 4 * u)
  <2>1. P \in Int /\ Y \in Int /\ W \in Int /\ fsqrt.m25 \in Int /\ ONE \in Int /\ M \in Int
    BY <1>1 DEF RootTypeOK
  <2>2. Place(c) * P = M - Y * Y /\ Remains(Place(c), P, M, Y)
    BY DEF RootBounded, Remains
  <2>3. /\ fsqrt.m25 \in ONE..4 * ONE - 2 /\ W = 2 * Y
        /\ Y = 2 * ONE \/ Y >= 2 * ONE + Place(c)
        /\ Y = 4 * ONE \/ Y <= 4 * ONE - Place(c)
        /\ c = 0 => Y = 2 * ONE
        /\ c # 0 => Contained(P, W, Place(c))
    BY DEF RootBounded
  <2> QED BY <1>3, <2>1, <2>2, <2>3
<1>5. /\ q \in -2..4 /\ Contained(P1, W + 2 * q * u, u)
      /\ Y1 = 2 * ONE \/ Y1 >= 2 * ONE + u
      /\ Y1 = 4 * ONE \/ Y1 <= 4 * ONE - u
  <2>1. CASE c = 0
    <3>1. u = 2 * h /\ Y = 8 * h /\ W = 16 * h /\ W = 4 * ONE
      <4>1. FRAC - 1 - 2 * c = FRAC - 1
        BY <1>1, <2>1
      <4> QED BY <1>1, <1>3, <1>4, <2>1, <4>1
    <3>2. 0 <= P /\ P < 6 * ONE
      <4>1. (8 * h) * P = (16 * h) * fsqrt.m25 - (8 * h) * (8 * h)
        BY <1>1, <1>4, <3>1
      <4>2. (8 * h) * P = (8 * h) * (2 * fsqrt.m25 - 8 * h)
        BY <1>1, <1>4, <4>1
      <4>3. P = 2 * fsqrt.m25 - 8 * h
        <5>1. 8 * h \in Nat /\ 8 * h > 0 /\ 2 * fsqrt.m25 - 8 * h \in Int
          BY <1>1, <1>4
        <5> QED BY <1>4, <4>2, <5>1, Cancel
      <4> QED BY <1>1, <1>4, <4>3
    <3>3. q = FirstDigit(4 * P)
      BY <2>1 DEF Digit
    <3>4. q \in 0..4 /\ Contained(P1, W + 2 * q * u, u)
      BY <1>1, <1>4, <3>1, <3>2, <3>3, FirstContains
    <3>5. q = 0 \/ q = 1 \/ q = 2 \/ q = 3 \/ q = 4
      BY <3>4
    <3> HIDE DEF q, h, P, Y, W
    <3>6. /\ Y1 = 2 * ONE \/ Y1 >= 2 * ONE + u
          /\ Y1 = 4 * ONE \/ Y1 <= 4 * ONE - u
      <4>1. CASE q = 0
        BY <1>1, <3>1, <4>1
      <4>2. CASE q = 1
        BY <1>1, <3>1, <4>2
      <4>3. CASE q = 2
        BY <1>1, <3>1, <4>3
      <4>4. CASE q = 3
        BY <1>1, <3>1, <4>4
      <4>5. CASE q = 4
        BY <1>1, <3>1, <4>5
      <4> QED BY <3>5, <4>1, <4>2, <4>3, <4>4, <4>5
    <3> QED BY <3>4, <3>6
  <2>2. CASE c # 0
    <3>1. q = TableDigit((4 * P) \div 2^(FRAC - 1), RowOf(W))
      BY <2>2 DEF Digit, RowOf
    <3>2. 16 * h <= W /\ W <= 32 * h /\ 2 * u <= h /\ Contained(P, W, 4 * u)
      BY <1>1, <1>3, <1>4, <2>2
    <3>3. q \in -2..2 /\ Contained(P1, W + 2 * q * u, u) /\ (P >= 0 => q >= 0) /\ (P <= 0 => q <= 0)
      BY <1>1, <1>3, <1>4, <3>1, <3>2, TableContains
    <3>4. Y = 2 * ONE => P >= 0
      <4> SUFFICES ASSUME Y = 8 * h, P < 0 PROVE FALSE
        BY <1>1, <1>4
      <4>1. (4 * u) * P = (16 * h) * fsqrt.m25 - (8 * h) * (8 * h)
        BY <1>1, <1>4
      <4>2. (16 * h) * fsqrt.m25 >= (16 * h) * (4 * h)
        BY <1>1, <1>4
      <4>3. (4 * u) * P < 0
        BY <1>3, <1>4
      <4> QED BY <1>1, <1>3, <1>4, <4>1, <4>2, <4>3
    <3>5. Y = 4 * ONE => P <= 0
      <4> SUFFICES ASSUME Y = 16 * h, P > 0 PROVE FALSE
        BY <1>1, <1>4
      <4>1. (4 * u) * P = (16 * h) * fsqrt.m25 - (16 * h) * (16 * h)
        BY <1>1, <1>4
      <4>2. (16 * h) * fsqrt.m25 <= (16 * h) * (16 * h)
        BY <1>1, <1>4
      <4>3. (4 * u) * P > 0
        BY <1>3, <1>4
      <4> QED BY <1>1, <1>3, <1>4, <4>1, <4>2, <4>3
    <3>6. q = -2 \/ q = -1 \/ q = 0 \/ q = 1 \/ q = 2
      BY <3>3
    <3> HIDE DEF q, h, P, Y, W
    <3>7. /\ Y1 = 2 * ONE \/ Y1 >= 2 * ONE + u
          /\ Y1 = 4 * ONE \/ Y1 <= 4 * ONE - u
      <4>1. CASE q = -2
        BY <1>1, <1>3, <1>4, <3>3, <3>4, <4>1
      <4>2. CASE q = -1
        BY <1>1, <1>3, <1>4, <3>3, <3>4, <4>2
      <4>3. CASE q = 0
        <5>1. q * u = 0
          BY <1>3, <4>3
        <5>2. /\ Y = 2 * ONE \/ Y >= 2 * ONE + 4 * u
              /\ Y = 4 * ONE \/ Y <= 4 * ONE - 4 * u
              /\ Y \in Int /\ Y + q * u = Y /\ u \in Nat /\ ONE \in Nat
          BY <1>1, <1>3, <1>4, <5>1
        <5> QED BY <5>2
      <4>4. CASE q = 1
        BY <1>1, <1>3, <1>4, <3>3, <3>5, <4>4
      <4>5. CASE q = 2
        BY <1>1, <1>3, <1>4, <3>3, <3>5, <4>5
      <4> QED BY <3>6, <4>1, <4>2, <4>3, <4>4, <4>5
    <3> QED BY <3>3, <3>7
  <2> QED BY <2>1, <2>2
<1>6. NextResidue(q, FRAC - 1 - 2 * c) = P1
  BY <1>3 DEF NextResidue
<1> HIDE DEF h, c, q, u, P, Y, W
<1>7. P1 \in Int /\ q * u \in Int /\ Y1 \in Int /\ W + 2 * q * u = 2 * Y1
  <2>1. q \in Int /\ u \in Int /\ W \in Int
    BY <1>3, <1>4, <1>5
  <2>2. q * u \in Int /\ q * W \in Int /\ q * q * u \in Int
    BY <2>1
  <2>3. 2 * q * u = 2 * (q * u)
    BY <2>1
  <2> QED BY <1>4, <2>2, <2>3
<1>8. Remains(u, P1, M, Y1)
  <2> HIDE DEF M
  <2>1. q \in Int /\ u \in Int
    BY <1>3, <1>5
  <2>2. Remains(u, 4 * P - q * (2 * Y) - q * q * u, M, Y + q * u)
    BY <1>4, <2>1, Completed
  <2> QED BY <1>4, <2>2
<1>9. -8 * ONE <= P1 /\ P1 < 8 * ONE
  <2>1. u <= 2 * h
    BY <1>1, <1>3, <1>4 DEF c
  <2> QED BY <1>1, <1>3, <1>5, <1>7, <2>1 DEF Contained
<1> QED BY <1>3, <1>5, <1>6, <1>7, <1>8, <1>9 DEF h, c, q, u, P, Y, W

LEMMA Normalised ==
  ASSUME NEW o \in Operands
  PROVE  /\ o.sig \in Nat /\ o.sig < 2 * ONE /\ o.exp \in Int
         /\ o.kind = "finite" => o.sig >= ONE
  BY FormatAssumption, Hidden DEF Operands

LEMMA RootIdleInv == RootIdle.busy = FALSE /\ (fsqrt = RootIdle => RootInv)
<1>1. RootIdle.s1 \in Operands
  BY FormatAssumption, Hidden DEF RootIdle, Operands, Kinds
<1>2. RootIdle.busy = FALSE
  BY DEF RootIdle
<1>3. fsqrt = RootIdle => RootTypeOK
  BY <1>1, Width DEF RootTypeOK, RootIdle, RoundingModes
<1> QED BY <1>2, <1>3 DEF RootInv

LEMMA RootIdleTyped == fsqrt' = RootIdle => RootInv'
<1>1. RootIdle.s1 \in Operands
  BY FormatAssumption, Hidden DEF RootIdle, Operands, Kinds
<1> QED BY <1>1, Width DEF RootInv, RootTypeOK, RootIdle, RoundingModes
LEMMA RootStartInv ==
  ASSUME NEW s1 \in Operands, NEW rm \in RoundingModes, RootStart(s1, rm)
  PROVE  RootInv'
<1> DEFINE m == IF Odd(s1.exp) THEN 2 * s1.sig ELSE s1.sig
<1>1. /\ fsqrt'.busy = TRUE /\ fsqrt'.wb_valid = FALSE /\ fsqrt'.cnt = 0 /\ fsqrt'.rm = rm
      /\ fsqrt'.s1 = s1 /\ fsqrt'.m25 = m
      /\ fsqrt'.P = 2 * m - 2 * ONE /\ fsqrt'.Y = 2 * ONE /\ fsqrt'.W = 4 * ONE
      /\ DOMAIN fsqrt' = DOMAIN RootIdle
  BY DEF RootStart, RootIdle
<1>2. ONE \in Nat /\ ONE >= 8 /\ STEPS \in Nat
  BY FormatAssumption, Hidden, Width
<1>3. m \in Int /\ (s1.kind = "finite" => m \in ONE..4 * ONE - 2)
  BY <1>2, Normalised
<1> HIDE DEF m
<1>4. RootTypeOK'
  <2>1. 2 * m - 2 * ONE \in Int /\ 2 * ONE \in Int /\ 4 * ONE \in Int /\ 0 \in 0..STEPS
    BY <1>2, <1>3
  <2> QED BY <1>1, <1>3, <2>1 DEF RootTypeOK
<1>5. ASSUME s1.kind = "finite" PROVE RootBounded'
  <2>1. Place(0) = 2 * ONE
    <3>1. 0 \in 0..STEPS /\ 2^(2 * 0) = 1
      BY <1>2
    <3>2. Place(0) \in Nat /\ 2^(2 * 0) * Place(0) = 2 * ONE
      BY <3>1, PlaceFacts
    <3> QED BY <3>1, <3>2
  <2>2. m \in ONE..4 * ONE - 2
    BY <1>3, <1>5
  <2>3. (2 * ONE) * (2 * m - 2 * ONE) = 4 * ONE * m - (2 * ONE) * (2 * ONE)
    BY <1>2, <1>3
  <2>4. Place(fsqrt'.cnt) = 2 * ONE
    BY <1>1, <2>1
  <2> QED BY <1>1, <1>2, <2>2, <2>3, <2>4 DEF RootBounded, Remains
<1> QED BY <1>1, <1>4, <1>5 DEF RootInv

LEMMA DigitInt ==
  ASSUME RootTypeOK
  PROVE  Digit \in Int
<1>1. ASSUME NEW t4 \in Int PROVE FirstDigit(t4) \in Int
  BY FirstNearest
<1>2. ASSUME NEW t \in Int, NEW w \in Int PROVE TableDigit(t, w) \in Int
  <2>1. (w + 2) \div 4 \in Int /\ (3 * w + 3) \div 4 \in Int
    OBVIOUS
  <2> QED BY <2>1 DEF TableDigit
<1>3. fsqrt.P \in Int /\ fsqrt.W \in Int /\ 4 * fsqrt.P \in Int
  BY DEF RootTypeOK
<1>4. (4 * fsqrt.P) \div 2^(FRAC - 1) \in Int /\ fsqrt.W \div 2^(FRAC - 2) \in Int
  BY <1>3, Width
<1> DEFINE w_h == IF fsqrt.W >= 2^(FRAC + 3) THEN 31 ELSE fsqrt.W \div 2^(FRAC - 2)
           t_h == (4 * fsqrt.P) \div 2^(FRAC - 1)
<1>5. w_h \in Int /\ t_h \in Int
  BY <1>4
<1>6. Digit = IF fsqrt.cnt = 0 THEN FirstDigit(4 * fsqrt.P) ELSE TableDigit(t_h, w_h)
  BY DEF Digit
<1> HIDE DEF w_h, t_h
<1>7. FirstDigit(4 * fsqrt.P) \in Int /\ TableDigit(t_h, w_h) \in Int
  BY <1>1, <1>2, <1>3, <1>5
<1> QED BY <1>6, <1>7

LEMMA RootStepInv ==
  ASSUME RootInv, RootStep
  PROVE  RootInv'
<1> DEFINE q  == Digit
           sh == FRAC - 1 - 2 * fsqrt.cnt
           u  == 2^sh
           P1 == NextResidue(q, sh)
           Y1 == fsqrt.Y + q * u
<1>1. RootTypeOK /\ fsqrt.cnt < STEPS /\ fsqrt.busy
  BY DEF RootInv, RootStep
<1>2. fsqrt' = [fsqrt EXCEPT !.cnt = fsqrt.cnt + 1,
                     !.P = Signed(FRAC + 4, P1),
                     !.Y = Unsigned(FRAC + 3, Y1),
                     !.W = Unsigned(FRAC + 4, fsqrt.W + 2 * (q * u))]
  BY DEF RootStep
<1> HIDE DEF q, sh, u, P1, Y1
<1>3. /\ fsqrt'.cnt = fsqrt.cnt + 1 /\ fsqrt'.P = Signed(FRAC + 4, P1)
      /\ fsqrt'.Y = Unsigned(FRAC + 3, Y1) /\ fsqrt'.W = Unsigned(FRAC + 4, fsqrt.W + 2 * (q * u))
      /\ fsqrt'.busy = fsqrt.busy /\ fsqrt'.wb_valid = fsqrt.wb_valid /\ fsqrt'.rm = fsqrt.rm
      /\ fsqrt'.s1 = fsqrt.s1 /\ fsqrt'.m25 = fsqrt.m25 /\ DOMAIN fsqrt' = DOMAIN fsqrt
  BY <1>1, <1>2 DEF RootTypeOK, RootIdle
<1>4. fsqrt.cnt \in Nat /\ STEPS \in Nat /\ fsqrt.cnt + 1 \in 0..STEPS
  BY <1>1, Width DEF RootTypeOK
<1>5. RootTypeOK'
  <2>1. \A x \in Int : Signed(FRAC + 4, x) \in Int /\ Unsigned(FRAC + 3, x) \in Int /\ Unsigned(FRAC + 4, x) \in Int
    <3> DEFINE h == 2^(FRAC - 2)
    <3>1. /\ h \in Nat /\ h >= 2 /\ 2^(FRAC + 3) = 32 * h /\ 2^(FRAC + 4) = 64 * h
          /\ (FRAC + 4) - 1 = FRAC + 3
      BY Width
    <3> HIDE DEF h
    <3>2. \A x \in Int : x % (32 * h) \in Int /\ x % (64 * h) \in Int /\ (x + 32 * h) % (64 * h) \in Int
      BY <3>1
    <3> QED BY <3>1, <3>2 DEF Signed, Unsigned
  <2>2. fsqrt.P \in Int /\ fsqrt.Y \in Int /\ fsqrt.W \in Int
    BY <1>1 DEF RootTypeOK
  <2>3. q \in Int
    BY <1>1, DigitInt DEF q
  <2>4. u \in Int
    <3>1. sh \in 0..4 * FRAC + BIAS + 1
      BY <1>4, Width DEF sh
    <3> QED BY <3>1, Powers DEF u
  <2>5. P1 \in Int /\ Y1 \in Int /\ fsqrt.W + 2 * (q * u) \in Int
    <3>1. P1 = 4 * fsqrt.P - q * fsqrt.W - q * q * u
      BY DEF P1, NextResidue, u
    <3> QED BY <2>2, <2>3, <2>4, <3>1 DEF Y1
  <2> QED BY <1>1, <1>3, <1>4, <2>1, <2>5 DEF RootTypeOK
<1>6. ASSUME fsqrt'.busy, fsqrt'.s1.kind = "finite" PROVE RootBounded'
  <2>1. RootBounded
    BY <1>3, <1>6 DEF RootInv
  <2>2. /\ q \in -2..4 /\ u \in Nat /\ u = Place(fsqrt.cnt + 1)
        /\ P1 \in Int /\ -8 * ONE <= P1 /\ P1 < 8 * ONE
        /\ Remains(u, P1, 4 * ONE * fsqrt.m25, Y1)
        /\ Y1 = 2 * ONE \/ Y1 >= 2 * ONE + u
        /\ Y1 = 4 * ONE \/ Y1 <= 4 * ONE - u
        /\ Contained(P1, 2 * Y1, u)
    BY <1>1, <2>1, DigitStep DEF q, sh, u, P1, Y1
  <2>3. /\ ONE \in Nat /\ ONE >= 8 /\ fsqrt.Y \in Int /\ fsqrt.W = 2 * fsqrt.Y /\ q * u \in Int
        /\ fsqrt.m25 \in ONE..4 * ONE - 2
    BY <1>1, <2>1, <2>2, FormatAssumption, Hidden DEF RootTypeOK, RootBounded
  <2>4. Y1 \in Int /\ fsqrt.W + 2 * (q * u) = 2 * Y1 /\ Y1 >= 2 * ONE /\ Y1 <= 4 * ONE
    BY <2>2, <2>3 DEF Y1
  <2>5. fsqrt'.P = P1 /\ fsqrt'.Y = Y1 /\ fsqrt'.W = 2 * Y1
    BY <1>3, <2>2, <2>3, <2>4, Cuts
  <2>6. Place(fsqrt'.cnt) = u /\ fsqrt'.cnt # 0
    BY <1>3, <1>4, <2>2
  <2> QED BY <1>3, <2>2, <2>3, <2>5, <2>6 DEF RootBounded
<1> QED BY <1>5, <1>6 DEF RootInv

LEMMA RootFinishInv ==
  ASSUME RootInv, RootFinish
  PROVE  RootInv'
<1>1. RootTypeOK
  BY DEF RootInv
<1>2. /\ fsqrt'.wb_valid = TRUE /\ fsqrt'.cnt = fsqrt.cnt /\ fsqrt'.busy = fsqrt.busy
      /\ fsqrt'.P = fsqrt.P /\ fsqrt'.Y = fsqrt.Y /\ fsqrt'.W = fsqrt.W
      /\ fsqrt'.rm = fsqrt.rm /\ fsqrt'.s1 = fsqrt.s1 /\ fsqrt'.m25 = fsqrt.m25
      /\ DOMAIN fsqrt' = DOMAIN fsqrt
  BY <1>1 DEF RootFinish, RootTypeOK, RootIdle
<1>3. RootTypeOK'
  BY <1>1, <1>2 DEF RootTypeOK
<1>4. RootBounded => RootBounded'
  BY <1>2 DEF RootBounded
<1> QED BY <1>2, <1>3, <1>4 DEF RootInv

LEMMA RootNextInv ==
  ASSUME RootInv, [RootNext]_fsqrt
  PROVE  RootInv'
<1>1. ASSUME NEW s1 \in Operands, NEW rm \in RoundingModes, RootStart(s1, rm) PROVE RootInv'
  BY <1>1, RootStartInv
<1>2. CASE RootStep
  BY <1>2, RootStepInv
<1>3. CASE RootFinish
  BY <1>3, RootFinishInv
<1>4. CASE RootRelease \/ RootFlush
  <2>1. fsqrt' = RootIdle
    BY <1>4 DEF RootRelease, RootFlush
  <2> QED BY <2>1, RootIdleTyped DEF RootInv
<1>5. CASE UNCHANGED fsqrt
  BY <1>5 DEF RootInv, RootTypeOK, RootBounded
<1> QED BY <1>1, <1>2, <1>3, <1>4, <1>5 DEF RootNext, RootClock

(* Whatever significands and exponents fsqrt.v is started with, its         *)
(* registers stay within RootInv (fsqrt.v:71-128).                          *)
THEOREM RootInvariant == RootSpec => []RootInv
<1>1. RootInit => RootInv
  BY RootIdleInv DEF RootInit
<1>2. RootInv /\ [RootNext]_fsqrt => RootInv'
  BY RootNextInv
<1> QED BY <1>1, <1>2, PTL DEF RootSpec

(* P is exactly what the root found so far leaves of the significand: none  *)
(* of the registers P, Y and W of limited width ever overflows or loses a   *)
(* digit (fsqrt.v:94-128).                                                  *)
THEOREM RootResidueExact == RootSpec => []ResidueExact
<1>1. RootInv => ResidueExact
  BY RootInvExact
<1> QED BY <1>1, RootInvariant, PTL

-----------------------------------------------------------------------------
(* The estimate k is too large by at most one: the repair finds the root.   *)
LEMMA Repaired ==
  ASSUME NEW V \in Int, NEW k \in ONE..2 * ONE - 1, fsqrt.Y \div 2 = k,
         (k - 1) * (k - 1) <= V, V < (k + 1) * (k + 1)
  PROVE  LET r == RepairedRoot(V)
         IN  /\ r \in {k - 1, k}
             /\ r * r <= V /\ V < (r + 1) * (r + 1)
<1> DEFINE cut(x) == Unsigned(FRAC + 1, x)
<1>1. ONE \in Nat /\ ONE >= 8 /\ 2^(FRAC + 1) = 2 * ONE
  BY FormatAssumption, Hidden, Width
<1>2. k \in Nat /\ k >= 8 /\ (k - 1) + 1 = k
  BY <1>1
<1>3. cut(k) = k /\ cut(k - 1) = k - 1
  <2>1. \A x \in Int : 0 <= x /\ x < 2 * ONE => x % (2 * ONE) = x
    BY <1>1
  <2>2. k \in Int /\ 0 <= k /\ k < 2 * ONE /\ k - 1 \in Int /\ 0 <= k - 1 /\ k - 1 < 2 * ONE
    BY <1>1, <1>2
  <2> QED BY <1>1, <2>1, <2>2 DEF Unsigned
<1> DEFINE y0 == cut(fsqrt.Y \div 2)
           yD == IF y0 * y0 > V THEN cut(y0 - 1) ELSE y0
           y2 == IF yD * yD > V THEN cut(yD - 1) ELSE yD
           r  == IF (y2 + 1) * (y2 + 1) <= V THEN cut(y2 + 1) ELSE y2
<1>4. RepairedRoot(V) = r
  BY DEF RepairedRoot
<1> HIDE DEF cut
<1>5. y0 = k
  BY <1>3
<1> HIDE DEF y0
<1>6. CASE k * k > V
  <2>1. yD = k - 1
    BY <1>3, <1>5, <1>6
  <2> HIDE DEF yD
  <2>2. ~((k - 1) * (k - 1) > V)
    <3>1. (k - 1) * (k - 1) \in Int
      BY <1>2
    <3> QED BY <3>1
  <2>3. y2 = k - 1
    BY <2>1, <2>2
  <2> HIDE DEF y2
  <2>4. ~((y2 + 1) * (y2 + 1) <= V)
    <3>1. y2 + 1 = k /\ k * k \in Int
      BY <1>2, <2>3
    <3> QED BY <1>6, <3>1
  <2>5. r = k - 1
    BY <2>3, <2>4
  <2>6. (k - 1) * (k - 1) <= V /\ V < k * k
    <3>1. k * k \in Int
      BY <1>2
    <3> QED BY <1>6, <3>1
  <2> QED BY <1>2, <1>4, <2>5, <2>6
<1>7. CASE ~(k * k > V)
  <2>1. yD = k
    BY <1>5, <1>7
  <2> HIDE DEF yD
  <2>2. y2 = k
    BY <1>7, <2>1
  <2> HIDE DEF y2
  <2>3. ~((k + 1) * (k + 1) <= V)
    <3>1. (k + 1) * (k + 1) \in Int
      BY <1>2
    <3> QED BY <3>1
  <2>4. r = k
    BY <2>2, <2>3
  <2>5. k * k <= V
    <3>1. k * k \in Int
      BY <1>2
    <3> QED BY <1>7, <3>1
  <2> QED BY <1>2, <1>4, <2>4, <2>5
<1> QED BY <1>6, <1>7

(* The numbers the root of the last cycle lies between.                     *)
LEMMA Estimate ==
  ASSUME NEW V \in Int, NEW Y \in Nat, Y >= 16, NEW P \in Int,
         P = 4 * V - Y * Y, Contained(P, 2 * Y, 1)
  PROVE  LET k == Y \div 2
         IN  (k - 1) * (k - 1) <= V /\ V < (k + 1) * (k + 1)
<1> DEFINE k == Y \div 2
<1>1. k \in Nat /\ k >= 8 /\ (Y = 2 * k \/ Y = 2 * k + 1)
  OBVIOUS
<1> HIDE DEF k
<1> DEFINE s == k * k
<1>2. s \in Nat /\ (k - 1) * (k - 1) = s - 2 * k + 1 /\ (k + 1) * (k + 1) = s + 2 * k + 1
  BY <1>1
<1>3. -12 * Y + 4 <= 9 * P /\ 9 * P <= 12 * Y + 4
  BY DEF Contained
<1>4. CASE Y = 2 * k
  <2>1. Y * Y = 4 * s
    BY <1>1, <1>4
  <2> HIDE DEF s
  <2> QED BY <1>1, <1>2, <1>3, <1>4, <2>1 DEF k
<1>5. CASE Y = 2 * k + 1
  <2>1. Y * Y = 4 * s + 4 * k + 1
    BY <1>1, <1>5
  <2> HIDE DEF s
  <2> QED BY <1>1, <1>2, <1>3, <1>5, <2>1 DEF k
<1> QED BY <1>1, <1>4, <1>5

LEMMA Squares ==
  ASSUME NEW a \in Nat, NEW b \in Nat, a * a < (b + 1) * (b + 1)
  PROVE  a <= b
<1> SUFFICES ASSUME a >= b + 1 PROVE FALSE
  OBVIOUS
<1>1. a * a >= a * (b + 1) /\ a * (b + 1) >= (b + 1) * (b + 1)
  OBVIOUS
<1>2. a * a \in Int /\ a * (b + 1) \in Int /\ (b + 1) * (b + 1) \in Int
  OBVIOUS
<1> QED BY <1>1, <1>2

(* After the last digit the repair finds the root rounded down, of FRAC + 1 *)
(* bits (fsqrt.v:134-143).                                                  *)
LEMMA RootFound ==
  ASSUME RootInv, fsqrt.busy, fsqrt.s1.kind = "finite", fsqrt.cnt = STEPS
  PROVE  LET V == fsqrt.m25 * ONE
             r == RepairedRoot(V)
         IN  /\ V \in Int /\ V >= ONE * ONE /\ V < 4 * (ONE * ONE)
             /\ r \in ONE..2 * ONE - 1
             /\ r * r <= V /\ V < (r + 1) * (r + 1)
<1> DEFINE V == fsqrt.m25 * ONE
           k == fsqrt.Y \div 2
           r == RepairedRoot(V)
<1>1. /\ FRAC \in Nat /\ ONE \in Nat /\ ONE >= 8 /\ STEPS \in Nat /\ 2 * STEPS = FRAC + 1 /\ STEPS # 0
  BY FormatAssumption, Hidden, Width
<1>2. Place(STEPS) = 1
  <2>1. FRAC + 1 - 2 * STEPS = 0 /\ 2^0 = 1
    BY <1>1
  <2> QED BY <2>1 DEF Place
<1>3. RootTypeOK /\ RootBounded
  BY DEF RootInv
<1>4. /\ fsqrt.P \in Int /\ fsqrt.Y \in Int /\ fsqrt.m25 \in ONE..4 * ONE - 2
      /\ 1 * fsqrt.P = 4 * ONE * fsqrt.m25 - fsqrt.Y * fsqrt.Y
      /\ fsqrt.Y = 2 * ONE \/ fsqrt.Y >= 2 * ONE + 1
      /\ fsqrt.Y = 4 * ONE \/ fsqrt.Y <= 4 * ONE - 1
      /\ Contained(fsqrt.P, 2 * fsqrt.Y, 1)
  <2>1. Place(fsqrt.cnt) = 1 /\ fsqrt.cnt # 0
    BY <1>1, <1>2
  <2>2. /\ fsqrt.m25 \in ONE..4 * ONE - 2 /\ fsqrt.W = 2 * fsqrt.Y
        /\ Remains(1, fsqrt.P, 4 * ONE * fsqrt.m25, fsqrt.Y)
        /\ fsqrt.Y = 2 * ONE \/ fsqrt.Y >= 2 * ONE + 1
        /\ fsqrt.Y = 4 * ONE \/ fsqrt.Y <= 4 * ONE - 1
        /\ Contained(fsqrt.P, fsqrt.W, 1)
    BY <1>3, <2>1 DEF RootBounded
  <2>3. fsqrt.P \in Int /\ fsqrt.Y \in Int
    BY <1>3 DEF RootTypeOK
  <2> QED BY <2>2, <2>3 DEF Remains
<1>5. V \in Int /\ V >= ONE * ONE /\ V <= (4 * ONE - 2) * ONE
  BY <1>1, <1>4
<1>6. ONE * ONE \in Int /\ (4 * ONE - 2) * ONE = 4 * (ONE * ONE) - 2 * ONE
      /\ 4 * ONE * fsqrt.m25 = 4 * V
  BY <1>1, <1>4
<1>7. fsqrt.Y # 4 * ONE
  <2> SUFFICES ASSUME fsqrt.Y = 4 * ONE PROVE FALSE
    OBVIOUS
  <2>1. fsqrt.Y * fsqrt.Y = 16 * (ONE * ONE)
    BY <1>1
  <2>2. fsqrt.P <= -8 * ONE
    BY <1>1, <1>4, <1>5, <1>6, <2>1
  <2>3. 9 * fsqrt.P >= -12 * (4 * ONE) + 4
    BY <1>1, <1>4 DEF Contained
  <2> QED BY <1>1, <1>4, <2>2, <2>3
<1>8. fsqrt.Y \in Nat /\ fsqrt.Y >= 16 /\ k \in ONE..2 * ONE - 1
  BY <1>1, <1>4, <1>7
<1>9. (k - 1) * (k - 1) <= V /\ V < (k + 1) * (k + 1)
  <2>1. fsqrt.P = 4 * V - fsqrt.Y * fsqrt.Y
    <3>1. fsqrt.Y * fsqrt.Y \in Int /\ 1 * fsqrt.P = fsqrt.P
      BY <1>4
    <3> QED BY <1>4, <1>6, <3>1
  <2> HIDE DEF V
  <2> QED BY <1>4, <1>5, <1>8, <2>1, Estimate
<1> HIDE DEF V
<1>10. r \in {k - 1, k} /\ r * r <= V /\ V < (r + 1) * (r + 1)
  <2>1. fsqrt.Y \div 2 = k
    OBVIOUS
  <2> HIDE DEF k
  <2> QED BY <1>5, <1>8, <1>9, <2>1, Repaired
<1> HIDE DEF k, r
<1>11. r \in Nat /\ r <= 2 * ONE - 1
  BY <1>1, <1>8, <1>10
<1>12. ONE * ONE < (r + 1) * (r + 1)
  <2>1. (r + 1) * (r + 1) \in Int
    BY <1>11
  <2> QED BY <1>5, <1>6, <1>10, <2>1
<1>13. r >= ONE
  BY <1>1, <1>11, <1>12, Squares
<1>14. V < 4 * (ONE * ONE)
  BY <1>1, <1>5, <1>6
<1> QED BY <1>1, <1>5, <1>10, <1>11, <1>13, <1>14 DEF V, r

(***************************************************************************)
(* Powers, leading bits and operands in decoded form                       *)
(***************************************************************************)

-----------------------------------------------------------------------------
(* The leading bit of a number.                                             *)
LEMMA LeadingBit ==
  ASSUME NEW n \in Nat, NEW k \in Nat, 2^k <= n, n < 2^(k + 1), k <= 4 * (FRAC + BIAS)
  PROVE  Msb(n) = k
<1> DEFINE First(i) == n < 2^(i + 1) /\ \A j \in 0..i - 1 : n >= 2^(j + 1)
           m == Msb(n)
<1>1. FRAC \in Nat /\ BIAS \in Nat
  BY FormatAssumption, Hidden
<1>2. \A j \in 0..k - 1 : n >= 2^(j + 1)
  <2> SUFFICES ASSUME NEW j \in 0..k - 1 PROVE n >= 2^(j + 1)
    OBVIOUS
  <2>1. PICK i \in Nat : i = j + 1 /\ i <= k
    <3>1. j + 1 \in Nat /\ j + 1 <= k
      OBVIOUS
    <3> QED BY <3>1
  <2>2. 2^i <= 2^k /\ 2^i \in Nat /\ 2^k \in Nat
    BY <2>1, PowerOrder, Powers
  <2>3. n >= 2^i
    BY <2>2
  <2> QED BY <2>1, <2>3
<1>3. k \in 0..4 * (FRAC + BIAS) /\ First(k)
  BY <1>1, <1>2
<1>4. m = CHOOSE i \in 0..4 * (FRAC + BIAS) : First(i)
  BY DEF Msb
<1> HIDE DEF m
<1>5. m \in 0..4 * (FRAC + BIAS) /\ First(m)
  BY <1>3, <1>4
<1>6. m \in Nat /\ 2^(m + 1) \in Nat /\ 2^(k + 1) \in Nat
  <2>1. m \in Nat
    BY <1>5
  <2>2. 2^(m + 1) = 2 * 2^m /\ 2^m \in Nat /\ 2^(k + 1) = 2 * 2^k /\ 2^k \in Nat
    BY <2>1, Powers
  <2> QED BY <2>1, <2>2
<1>7. ASSUME m < k PROVE FALSE
  <2>1. m \in 0..k - 1
    BY <1>6, <1>7
  <2> QED BY <1>2, <1>5, <1>6, <2>1
<1>8. ASSUME k < m PROVE FALSE
  <2>1. k \in 0..m - 1
    BY <1>6, <1>8
  <2> QED BY <1>5, <1>6, <2>1
<1> QED BY <1>6, <1>7, <1>8 DEF m

(* A positive number has one.                                               *)
LEMMA HasLeadingBit ==
  ASSUME NEW b \in Nat, NEW n \in Nat, n >= 1, n < 2^b
  PROVE  \E k \in 0..b - 1 : 2^k <= n /\ n < 2^(k + 1)
<1> DEFINE T == {j \in 0..b : n < 2^j}
<1>2. T \in SUBSET Nat /\ T # {}
  <2>1. b \in T
    OBVIOUS
  <2> QED BY <2>1
<1>3. PICK j \in T : \A i \in T : j <= i
  BY <1>2, Least
<1>4. j # 0
  <2>1. n < 2^j
    BY <1>3
  <2> SUFFICES ASSUME j = 0 PROVE FALSE
    OBVIOUS
  <2>2. 2^j = 1
    OBVIOUS
  <2> QED BY <2>1, <2>2
<1>5. j - 1 \in 0..b - 1 /\ (j - 1) + 1 = j /\ j - 1 \notin T /\ j - 1 \in 0..b
  BY <1>3, <1>4
<1>6. ~(n < 2^(j - 1)) /\ 2^(j - 1) \in Nat
  <2>1. j - 1 \in Nat
    BY <1>5
  <2> QED BY <1>5, <2>1, Powers
<1> QED BY <1>3, <1>5, <1>6

-----------------------------------------------------------------------------
(* What the units are handed for a finite number: its significand shifted   *)
(* left by z places until its leading bit is bit FRAC, its exponent less z. *)
Normalises(x, o, z) ==
  /\ z \in 0..FRAC
  /\ o.sig = Reference!Units(x) * 2^z
  /\ o.exp - FRAC = Reference!Last(x) - z
  /\ o.sig \in ONE..2 * ONE - 1
  /\ o.exp \in 1 - BIAS - FRAC..BIAS
  /\ z # 0 => x.exp = 0

finite(x) == x \in Floats /\ x.exp # SPECIAL /\ ~is_zero(x)

LEMMA Formats ==
  /\ FRAC \in Nat /\ FRAC >= 3 /\ BIAS \in Nat /\ BIAS > FRAC
  /\ ONE \in Nat /\ ONE >= 8 /\ SPECIAL = 2 * BIAS + 1
  /\ ONE \div 2 \in Nat /\ ONE \div 2 >= 4 /\ ONE \div 2 < ONE
<1>1. ONE \in Nat /\ ONE >= 8
  BY FormatAssumption, Hidden
<1> HIDE DEF ONE
<1>2. ONE \div 2 \in Nat /\ ONE \div 2 >= 4 /\ ONE \div 2 < ONE
  BY <1>1
<1> QED BY <1>1, <1>2, Width DEF SPECIAL

(* The five kinds.                                                          *)
LEMMA DecodedKind ==
  ASSUME NEW x \in Floats
  PROVE  LET o == decode(x)
         IN  /\ o.sign = x.sign /\ o.sign \in BOOLEAN
             /\ o.kind \in Kinds
             /\ o.kind = "zero" <=> is_zero(x)
             /\ o.kind = "inf" <=> is_inf(x)
             /\ o.kind = "snan" <=> is_snan(x)
             /\ o.kind = "qnan" <=> is_qnan(x)
             /\ nan(o) <=> is_nan(x)
             /\ o.kind = "finite" <=> finite(x)
             /\ o.kind # "finite" => o.exp = 0 /\ o.sig = 0
<1> DEFINE o == decode(x)
<1>1. x.sign \in BOOLEAN /\ x.exp \in 0..SPECIAL /\ x.frac \in 0..ONE - 1
  BY DEF Floats
<1>2. /\ o.sign = x.sign
      /\ o.kind = CASE is_zero(x) -> "zero" [] is_inf(x) -> "inf" [] is_snan(x) -> "snan"
                    [] is_qnan(x) -> "qnan" [] OTHER -> "finite"
      /\ ~is_normal(x) /\ ~is_subnormal(x) => o.exp = 0 /\ o.sig = 0
  BY DEF decode
<1> HIDE DEF o
<1>3. SPECIAL # 0 /\ SPECIAL \in Nat /\ ONE \in Nat /\ ONE \div 2 \in Nat
  BY Formats
<1>4. /\ is_snan(x) <=> is_nan(x) /\ ~is_qnan(x)
      /\ is_qnan(x) => is_nan(x) /\ ~is_snan(x)
  BY <1>1, <1>3 DEF is_snan, is_qnan
<1>5. /\ is_zero(x) => ~is_inf(x) /\ ~is_snan(x) /\ ~is_qnan(x) /\ ~is_nan(x) /\ ~finite(x)
      /\ is_inf(x) => ~is_zero(x) /\ ~is_snan(x) /\ ~is_qnan(x) /\ ~is_nan(x) /\ ~finite(x)
      /\ is_nan(x) => ~is_zero(x) /\ ~is_inf(x) /\ ~finite(x) /\ (is_snan(x) \/ is_qnan(x))
      /\ finite(x) => ~is_zero(x) /\ ~is_inf(x) /\ ~is_snan(x) /\ ~is_qnan(x) /\ ~is_nan(x)
      /\ is_snan(x) => is_nan(x) /\ ~is_qnan(x)
      /\ is_qnan(x) => is_nan(x) /\ ~is_snan(x)
  BY <1>1, <1>3 DEF is_zero, is_inf, is_snan, is_qnan, is_nan, finite
<1>6. ~finite(x) => ~is_normal(x) /\ ~is_subnormal(x)
  BY <1>1, <1>3 DEF is_zero, finite, is_normal, is_subnormal
<1>7. /\ is_zero(x) => o.kind = "zero"
      /\ is_inf(x) => o.kind = "inf"
      /\ is_snan(x) => o.kind = "snan"
      /\ is_qnan(x) => o.kind = "qnan"
      /\ finite(x) => o.kind = "finite"
  BY <1>2, <1>5
<1>9. is_zero(x) \/ is_inf(x) \/ is_nan(x) \/ finite(x)
  BY <1>1, <1>3 DEF is_inf, is_nan, finite
<1>10. o.kind \in Kinds /\ (nan(o) <=> o.kind = "snan" \/ o.kind = "qnan")
  BY <1>5, <1>7, <1>9 DEF Kinds, nan
<1> QED BY <1>1, <1>2, <1>5, <1>6, <1>7, <1>9, <1>10 DEF o

(* The reference is about the same format.                                  *)
LEMMA ReferenceFormat ==
  /\ Reference!ONE = ONE /\ Reference!EMIN = EMIN /\ Reference!EMAX = EMAX
  /\ Reference!SPECIAL = SPECIAL /\ Reference!CanonicalNaN = CanonicalNaN
  /\ \A n : Reference!Msb(n) = Msb(n) /\ Reference!Odd(n) = Odd(n)
  /\ \A s, e, f : Reference!Float(s, e, f) = Float(s, e, f)
  /\ \A v, f : Reference!Answer(v, f) = Answer(v, f)
  /\ \A s : /\ Reference!Zero(s) = Zero(s) /\ Reference!Inf(s) = Inf(s)
            /\ Reference!MaxFinite(s) = MaxFinite(s)
  /\ \A x : /\ Reference!is_zero(x) <=> is_zero(x)
            /\ Reference!is_inf(x) <=> is_inf(x)
            /\ Reference!is_nan(x) <=> is_nan(x)
            /\ Reference!is_snan(x) <=> is_snan(x)
  BY DEF Reference!ONE, Reference!EMIN, Reference!EMAX, Reference!SPECIAL, Reference!CanonicalNaN,
         Reference!Msb, Reference!Odd, Reference!Float, Reference!Answer, Reference!Zero, Reference!Inf,
         Reference!MaxFinite, Reference!is_zero, Reference!is_inf, Reference!is_nan, Reference!is_snan,
         ONE, EMIN, EMAX, SPECIAL, CanonicalNaN, Msb, Odd, Float, Answer, Zero, Inf, MaxFinite,
         is_zero, is_inf, is_nan, is_snan

LEMMA DecodedFinite ==
  ASSUME NEW x, finite(x)
  PROVE  \E z \in 0..FRAC : Normalises(x, decode(x), z)
<1> DEFINE o == decode(x)
<1>1. /\ x.sign \in BOOLEAN /\ x.exp \in 0..SPECIAL - 1 /\ x.frac \in 0..ONE - 1
      /\ SPECIAL = 2 * BIAS + 1 /\ ONE \in Nat /\ ONE >= 8
      /\ FRAC \in Nat /\ FRAC >= 3 /\ BIAS \in Nat /\ BIAS > FRAC
  BY Formats DEF Floats, finite
<1>2. CASE x.exp # 0
  <2>1. is_normal(x) /\ ~is_subnormal(x)
    BY <1>1, <1>2 DEF is_normal, is_subnormal
  <2>2. o.exp = x.exp - BIAS /\ o.sig = ONE + x.frac
    BY <2>1 DEF decode
  <2>3. Reference!Units(x) = ONE + x.frac /\ Reference!Last(x) = x.exp - BIAS - FRAC
    BY <1>2, ReferenceFormat DEF Reference!Units, Reference!Last
  <2>4. 0 \in 0..FRAC /\ 2^0 = 1 /\ (ONE + x.frac) * 1 = ONE + x.frac
    BY <1>1
  <2> HIDE DEF o
  <2>5. Normalises(x, o, 0)
    BY <1>1, <1>2, <2>2, <2>3, <2>4 DEF Normalises
  <2> QED BY <2>4, <2>5 DEF o
<1>3. CASE x.exp = 0
  <2>1. x.frac \in Nat /\ x.frac >= 1 /\ is_subnormal(x) /\ ~is_normal(x)
    BY <1>1, <1>3 DEF finite, is_zero, is_subnormal, is_normal
  <2>2. FRAC <= 4 * (FRAC + BIAS)
    BY <1>1
  <2>3. PICK k \in 0..FRAC - 1 : 2^k <= x.frac /\ x.frac < 2^(k + 1)
    <3>1. x.frac < 2^FRAC
      BY <1>1 DEF ONE
    <3> QED BY <1>1, <2>1, <2>2, <3>1, HasLeadingBit
  <2>4. Msb(x.frac) = k
    BY <1>1, <2>1, <2>2, <2>3, LeadingBit
  <2> DEFINE z == FRAC - k
  <2>5. z \in 1..FRAC /\ k \in Nat /\ FRAC - 1 - k + 1 = z /\ k + z = FRAC /\ (k + 1) + z = FRAC + 1
    BY <1>1, <2>3
  <2>6. o.exp = -BIAS - (FRAC - 1 - k) /\ o.sig = x.frac * 2^z
    BY <2>1, <2>4, <2>5 DEF decode
  <2> HIDE DEF z, o
  <2>7. Reference!Units(x) = x.frac /\ Reference!Last(x) = (1 - BIAS) - FRAC
    BY <1>3, ReferenceFormat DEF Reference!Units, Reference!Last, EMIN
  <2>8. 2^z \in Nat /\ 2^z >= 1 /\ 2^k \in Nat /\ 2^(k + 1) \in Nat
        /\ 2^k * 2^z = ONE /\ 2^(k + 1) * 2^z = 2 * ONE
    <3>1. z \in 0..4 * FRAC + BIAS + 1 /\ k \in 0..4 * FRAC + BIAS + 1 /\ k + 1 \in 0..4 * FRAC + BIAS + 1
      BY <1>1, <2>5
    <3>2. 2^(k + z) = 2^k * 2^z /\ 2^((k + 1) + z) = 2^(k + 1) * 2^z
      BY <2>2, <2>5, PowerSum
    <3>3. 2^(FRAC + 1) = 2 * ONE
      BY Width
    <3> QED BY <2>5, <3>1, <3>2, <3>3, Powers DEF ONE
  <2>9. x.frac * 2^z >= 2^k * 2^z /\ x.frac * 2^z <= (2^(k + 1) - 1) * 2^z
    BY <2>1, <2>3, <2>8
  <2>10. (2^(k + 1) - 1) * 2^z = 2 * ONE - 2^z /\ x.frac * 2^z \in Int
    BY <2>1, <2>8
  <2>11. Normalises(x, o, z)
    BY <1>1, <1>3, <2>5, <2>6, <2>7, <2>8, <2>9, <2>10 DEF Normalises
  <2>12. z \in 0..FRAC
    BY <2>5
  <2> QED BY <2>11, <2>12 DEF o
<1> QED BY <1>2, <1>3

(* A decoder hands over operands.                                           *)
LEMMA DecodedOperand ==
  ASSUME NEW x \in Floats
  PROVE  decode(x) \in Operands
<1> DEFINE o == decode(x)
<1>1. ONE \in Nat /\ ONE >= 8 /\ BIAS \in Nat /\ FRAC \in Nat
  BY Formats
<1>2. o = [sign |-> o.sign, kind |-> o.kind, exp |-> o.exp, sig |-> o.sig]
  BY DEF decode
<1>3. o.sign \in BOOLEAN /\ o.kind \in Kinds
  BY DecodedKind
<1>4. o.exp \in Int /\ o.sig \in 0..2 * ONE - 1 /\ (o.kind = "finite" => o.sig >= ONE)
  <2>1. CASE o.kind = "finite"
    <3>1. finite(x)
      BY <2>1, DecodedKind
    <3>2. PICK z \in 0..FRAC : Normalises(x, o, z)
      BY <3>1, DecodedFinite
    <3> HIDE DEF o
    <3> QED BY <1>1, <3>2 DEF Normalises
  <2>2. CASE o.kind # "finite"
    <3>1. o.exp = 0 /\ o.sig = 0
      BY <2>2, DecodedKind
    <3> HIDE DEF o
    <3> QED BY <1>1, <2>2, <3>1
  <2> QED BY <2>1, <2>2
<1> HIDE DEF o
<1>5. o \in Operands
  BY <1>2, <1>3, <1>4 DEF Operands
<1> QED BY <1>5 DEF o

(***************************************************************************)
(* One operation at a time                                                 *)
(***************************************************************************)

LEMMA RequestFields ==
  ASSUME NEW r \in Requests
  PROVE  r.op \in Ops /\ r.rm \in RoundingModes /\ r.a \in Floats /\ r.b \in Floats /\ r.c \in Floats /\ r.n \in Words
  BY RequestsAssumption

(* The unit is a user of its square root: whatever it does is a step of     *)
(* RootSpec or leaves the registers alone.                                  *)
THEOREM SpecRoot == Spec => RootSpec
<1>1. Init => RootInit
  BY DEF Init
<1>2. ASSUME [Next]_vars PROVE [RootNext]_fsqrt
  <2>1. ASSUME NEW r \in Requests, Load(r) PROVE [RootNext]_fsqrt
    <3>1. decode(r.a) \in Operands /\ r.rm \in RoundingModes
      BY RequestFields, DecodedOperand
    <3> QED BY <2>1, <3>1 DEF Load, RootNext
  <2>2. CASE Cycle
    BY <2>2 DEF Cycle, RootNext
  <2>3. CASE Flush
    BY <2>3 DEF Flush, RootNext
  <2>4. CASE UNCHANGED vars
    BY <2>4 DEF vars
  <2> QED BY <1>2, <2>1, <2>2, <2>3, <2>4 DEF Next, Issue
<1> QED BY <1>1, <1>2, PTL DEF Spec, RootSpec

(* And a user of its divider.                                               *)
THEOREM SpecDivide == Spec => DivSpec
<1>1. Init => DivInit
  BY DEF Init
<1>2. ASSUME [Next]_vars PROVE [DivNext]_fdiv
  <2>1. ASSUME NEW r \in Requests, Load(r) PROVE [DivNext]_fdiv
    <3>1. decode(r.a) \in Operands /\ decode(r.b) \in Operands /\ r.rm \in RoundingModes
      BY RequestFields, DecodedOperand
    <3> QED BY <2>1, <3>1 DEF Load, DivNext
  <2>2. CASE Cycle
    BY <2>2 DEF Cycle, DivNext
  <2>3. CASE Flush
    BY <2>3 DEF Flush, DivNext
  <2>4. CASE UNCHANGED vars
    BY <2>4 DEF vars
  <2> QED BY <1>2, <2>1, <2>2, <2>3, <2>4 DEF Next, Issue
<1> QED BY <1>1, <1>2, PTL DEF Spec, DivSpec

-----------------------------------------------------------------------------
(* The operation in the execute stage is in one unit, in one of its stages. *)
Stages ==
  IF request.op \in FmaOps
  THEN \/ fma.p0.valid = TRUE /\ fma.p1 = Empty /\ fma.p2 = Empty
       \/ fma.p0 = Empty /\ fma.p1.valid = TRUE /\ fma.p2 = Empty
       \/ fma.p0 = Empty /\ fma.p1 = Empty /\ fma.p2.valid = TRUE
  ELSE fma.p0 = Empty /\ fma.p1 = Empty /\ fma.p2 = Empty

Serves ==
  /\ request = None \/ request \in Requests
  /\ fdiv.busy \in BOOLEAN /\ fdiv.wb_valid \in BOOLEAN
  /\ fsqrt.busy \in BOOLEAN /\ fsqrt.wb_valid \in BOOLEAN
  /\ fdiv.busy <=> request.op = "FDIV_S"
  /\ fsqrt.busy <=> request.op = "FSQRT_S"
  /\ fdiv.wb_valid => fdiv.busy
  /\ fsqrt.wb_valid => fsqrt.busy
  /\ Stages

LEMMA OpsDiffer ==
  /\ None.op \notin Ops
  /\ \A op \in QuickOps : op \notin ConvertOps /\ op \notin FmaOps /\ op # "FDIV_S" /\ op # "FSQRT_S"
  /\ \A op \in ConvertOps : op \notin FmaOps /\ op # "FDIV_S" /\ op # "FSQRT_S"
  /\ \A op \in FmaOps : op # "FDIV_S" /\ op # "FSQRT_S"
<1>1. /\ \A op \in QuickOps : op \notin ConvertOps /\ op \notin FmaOps /\ op # "FDIV_S" /\ op # "FSQRT_S" /\ op # "none"
  BY DEF QuickOps, ConvertOps, FmaOps, AddOps
<1>2. \A op \in ConvertOps : op \notin FmaOps /\ op # "FDIV_S" /\ op # "FSQRT_S" /\ op # "none"
  BY DEF ConvertOps, FmaOps, AddOps
<1>3. \A op \in FmaOps : op # "FDIV_S" /\ op # "FSQRT_S" /\ op # "none"
  BY DEF FmaOps, AddOps
<1> QED BY <1>1, <1>2, <1>3 DEF None, Ops

LEMMA DivClockServes ==
  ASSUME fdiv.busy = TRUE, fdiv.wb_valid \in BOOLEAN, DivTypeOK, DivClock
  PROVE  /\ fdiv'.busy \in BOOLEAN /\ fdiv'.wb_valid \in BOOLEAN
         /\ fdiv.wb_valid => fdiv'.busy = FALSE /\ fdiv'.wb_valid = FALSE
         /\ ~fdiv.wb_valid => fdiv'.busy = TRUE
<1>1. DOMAIN fdiv = DOMAIN DivIdle
  BY DEF DivTypeOK
<1>2. CASE DivStep
  BY <1>1, <1>2 DEF DivStep, Running, DivIdle
<1>3. CASE DivFinish
  BY <1>1, <1>3 DEF DivFinish, Running, DivIdle
<1>4. CASE DivRelease
  BY <1>4 DEF DivRelease, DivIdle
<1> QED BY <1>2, <1>3, <1>4 DEF DivClock

LEMMA RootClockServes ==
  ASSUME fsqrt.busy = TRUE, fsqrt.wb_valid \in BOOLEAN, RootTypeOK, RootClock
  PROVE  /\ fsqrt'.busy \in BOOLEAN /\ fsqrt'.wb_valid \in BOOLEAN
         /\ fsqrt.wb_valid => fsqrt'.busy = FALSE /\ fsqrt'.wb_valid = FALSE
         /\ ~fsqrt.wb_valid => fsqrt'.busy = TRUE
<1>1. DOMAIN fsqrt = DOMAIN RootIdle
  BY DEF RootTypeOK
<1>2. CASE RootStep
  BY <1>1, <1>2 DEF RootStep, RootIdle
<1>3. CASE RootFinish
  BY <1>1, <1>3 DEF RootFinish, RootIdle
<1>4. CASE RootRelease
  BY <1>4 DEF RootRelease, RootIdle
<1> QED BY <1>2, <1>3, <1>4 DEF RootClock

LEMMA ServesInit == Init => Serves
<1> SUFFICES ASSUME Init PROVE Serves
  OBVIOUS
<1>1. request.op \notin Ops /\ request.op \notin FmaOps /\ request.op # "FDIV_S" /\ request.op # "FSQRT_S"
  BY OpsDiffer DEF Init, Ops
<1>2. fdiv.busy = FALSE /\ fdiv.wb_valid = FALSE /\ fsqrt.busy = FALSE /\ fsqrt.wb_valid = FALSE
  BY DEF Init, DivInit, RootInit, DivIdle, RootIdle
<1>3. fma.p0 = Empty /\ fma.p1 = Empty /\ fma.p2 = Empty
  BY DEF Init, FmaInit
<1> QED BY <1>1, <1>2, <1>3 DEF Serves, Stages, Init

LEMMA ServesLoad ==
  ASSUME Serves, request = None, NEW r \in Requests, Load(r)
  PROVE  Serves'
<1>1. r.op \in Ops /\ request.op \notin Ops /\ request' = r
  BY RequestFields, OpsDiffer DEF Load
<1>2. /\ ~fdiv.busy /\ ~fdiv.wb_valid /\ ~fsqrt.busy /\ ~fsqrt.wb_valid
      /\ fma.p0 = Empty /\ fma.p1 = Empty /\ fma.p2 = Empty
  BY <1>1 DEF Serves, Stages, Ops
<1>3. /\ fdiv'.busy \in BOOLEAN /\ fdiv'.wb_valid = FALSE
      /\ fdiv'.busy <=> r.op = "FDIV_S"
  <2>1. CASE r.op = "FDIV_S"
    BY <2>1 DEF Load, DivStart, DivIdle
  <2>2. CASE r.op # "FDIV_S"
    BY <1>2, <2>2 DEF Load, Serves
  <2> QED BY <2>1, <2>2
<1>4. /\ fsqrt'.busy \in BOOLEAN /\ fsqrt'.wb_valid = FALSE
      /\ fsqrt'.busy <=> r.op = "FSQRT_S"
  <2>1. CASE r.op = "FSQRT_S"
    BY <2>1 DEF Load, RootStart, RootIdle
  <2>2. CASE r.op # "FSQRT_S"
    BY <1>2, <2>2 DEF Load, Serves
  <2> QED BY <2>1, <2>2
<1>5. Stages'
  <2>1. Empty.valid = FALSE
    BY DEF Empty
  <2> DEFINE entering == IF r.op \in FmaOps THEN Multiply(r.op, r.rm, decode(r.a), decode(r.b), decode(r.c)) ELSE Empty
  <2>2. fma' = [p0 |-> entering, p1 |-> Empty, p2 |-> Empty]
    BY <1>2, <2>1 DEF Load, FmaClock
  <2>3. IF r.op \in FmaOps THEN entering.valid = TRUE ELSE entering = Empty
    BY DEF Multiply
  <2> HIDE DEF entering
  <2> QED BY <1>1, <2>2, <2>3 DEF Stages
<1> QED BY <1>1, <1>3, <1>4, <1>5 DEF Serves

LEMMA ServesCycle ==
  ASSUME Serves, DivTypeOK, RootTypeOK, Cycle
  PROVE  Serves'
<1>1. request \in Requests /\ request.op \in Ops /\ None.op \notin Ops
  BY RequestFields, OpsDiffer DEF Serves, Cycle
<1>2. /\ request.op \in FmaOps => fma.p2 = Empty \/ fma.p2.valid = TRUE
      /\ request.op \notin FmaOps => fma.p2 = Empty
      /\ Empty.valid = FALSE
  BY DEF Serves, Stages, Empty
<1>3. fma' = [p0 |-> Empty, p1 |-> IF fma.p0.valid THEN Align(fma.p0) ELSE Empty,
                            p2 |-> IF fma.p1.valid THEN Add(fma.p1) ELSE Empty]
  BY DEF Cycle, FmaClock
<1>4. CASE request.op = "FDIV_S"
  <2>1. /\ fdiv.busy = TRUE /\ fsqrt.busy = FALSE /\ fsqrt.wb_valid = FALSE
        /\ request.op \notin FmaOps /\ request.op \notin QuickOps /\ request.op \notin ConvertOps
    BY <1>4, OpsDiffer DEF Serves
  <2>2. fpu_valid <=> fdiv.wb_valid
    BY <1>2, <2>1 DEF fpu_valid, fquick_wb_valid, fcvt_wb_valid
  <2>3. fsqrt' = fsqrt /\ DivClock
    BY <2>1 DEF Cycle
  <2>4. /\ fdiv'.busy \in BOOLEAN /\ fdiv'.wb_valid \in BOOLEAN
        /\ fdiv.wb_valid => fdiv'.busy = FALSE /\ fdiv'.wb_valid = FALSE
        /\ ~fdiv.wb_valid => fdiv'.busy = TRUE
    BY <2>1, <2>3, DivClockServes DEF Serves
  <2>5. fma'.p0 = Empty /\ fma'.p1 = Empty /\ fma'.p2 = Empty
    BY <1>2, <1>3, <2>1 DEF Serves, Stages
  <2>6. IF fdiv.wb_valid THEN request' = None ELSE request' = request
    BY <2>2 DEF Cycle
  <2>7. None.op \notin FmaOps /\ None.op # "FDIV_S" /\ None.op # "FSQRT_S"
    BY <1>1 DEF Ops
  <2> QED BY <1>1, <1>4, <2>1, <2>3, <2>4, <2>5, <2>6, <2>7 DEF Serves, Stages
<1>5. CASE request.op = "FSQRT_S"
  <2>1. /\ fsqrt.busy = TRUE /\ fdiv.busy = FALSE /\ fdiv.wb_valid = FALSE
        /\ request.op \notin FmaOps /\ request.op \notin QuickOps /\ request.op \notin ConvertOps
    BY <1>5, OpsDiffer DEF Serves
  <2>2. fpu_valid <=> fsqrt.wb_valid
    BY <1>2, <2>1 DEF fpu_valid, fquick_wb_valid, fcvt_wb_valid
  <2>3. fdiv' = fdiv /\ RootClock
    BY <2>1 DEF Cycle
  <2>4. /\ fsqrt'.busy \in BOOLEAN /\ fsqrt'.wb_valid \in BOOLEAN
        /\ fsqrt.wb_valid => fsqrt'.busy = FALSE /\ fsqrt'.wb_valid = FALSE
        /\ ~fsqrt.wb_valid => fsqrt'.busy = TRUE
    BY <2>1, <2>3, RootClockServes DEF Serves
  <2>5. fma'.p0 = Empty /\ fma'.p1 = Empty /\ fma'.p2 = Empty
    BY <1>2, <1>3, <2>1 DEF Serves, Stages
  <2>6. IF fsqrt.wb_valid THEN request' = None ELSE request' = request
    BY <2>2 DEF Cycle
  <2>7. None.op \notin FmaOps /\ None.op # "FDIV_S" /\ None.op # "FSQRT_S"
    BY <1>1 DEF Ops
  <2> QED BY <1>1, <1>5, <2>1, <2>3, <2>4, <2>5, <2>6, <2>7 DEF Serves, Stages
<1>6. CASE request.op \notin {"FDIV_S", "FSQRT_S"}
  <2>1. fdiv.busy = FALSE /\ fdiv.wb_valid = FALSE /\ fsqrt.busy = FALSE /\ fsqrt.wb_valid = FALSE
    BY <1>6 DEF Serves
  <2>2. fdiv' = fdiv /\ fsqrt' = fsqrt
    BY <2>1 DEF Cycle
  <2>3. CASE request.op \in FmaOps
    <3>1. request.op \notin QuickOps /\ request.op \notin ConvertOps
      BY <2>3, OpsDiffer
    <3>2. fpu_valid <=> fma.p2.valid
      BY <2>1, <3>1 DEF fpu_valid, fquick_wb_valid, fcvt_wb_valid
    <3>3. IF fma.p2.valid THEN request' = None ELSE request' = request
      BY <3>2 DEF Cycle
    <3>4. None.op \notin FmaOps /\ None.op # "FDIV_S" /\ None.op # "FSQRT_S"
      BY <1>1 DEF Ops
    <3>5. Stages'
      <4>1. CASE fma.p0.valid = TRUE /\ fma.p1 = Empty /\ fma.p2 = Empty
        <5>1. Align(fma.p0).valid = TRUE
          BY <4>1 DEF Align
        <5> QED BY <1>2, <1>3, <2>3, <3>3, <4>1, <5>1 DEF Stages
      <4>2. CASE fma.p0 = Empty /\ fma.p1.valid = TRUE /\ fma.p2 = Empty
        <5>1. Add(fma.p1).valid = TRUE
          BY <4>2 DEF Add
        <5> QED BY <1>2, <1>3, <2>3, <3>3, <4>2, <5>1 DEF Stages
      <4>3. CASE fma.p0 = Empty /\ fma.p1 = Empty /\ fma.p2.valid = TRUE
        BY <1>2, <1>3, <3>3, <3>4, <4>3 DEF Stages
      <4> QED BY <2>3, <4>1, <4>2, <4>3 DEF Serves, Stages
    <3> QED BY <1>1, <1>6, <2>1, <2>2, <3>3, <3>4, <3>5 DEF Serves
  <2>4. CASE request.op \notin FmaOps
    <3>1. request.op \in QuickOps \/ request.op \in ConvertOps
      BY <1>1, <1>6, <2>4 DEF Ops
    <3>2. request' = None
      BY <3>1 DEF Cycle, fpu_valid, fquick_wb_valid, fcvt_wb_valid
    <3>3. None.op \notin FmaOps /\ None.op # "FDIV_S" /\ None.op # "FSQRT_S"
      BY <1>1 DEF Ops
    <3>4. fma'.p0 = Empty /\ fma'.p1 = Empty /\ fma'.p2 = Empty
      BY <1>2, <1>3, <2>4 DEF Serves, Stages
    <3> QED BY <2>1, <2>2, <3>2, <3>3, <3>4 DEF Serves, Stages
  <2> QED BY <2>3, <2>4
<1> QED BY <1>4, <1>5, <1>6

LEMMA ServesFlush ==
  ASSUME Serves, Flush
  PROVE  Serves'
<1>1. None.op \notin FmaOps /\ None.op # "FDIV_S" /\ None.op # "FSQRT_S"
  BY OpsDiffer DEF Ops
<1>2. request.op \notin FmaOps
  BY OpsDiffer DEF Serves, Flush
<1>3. fma.p0 = Empty /\ fma.p1 = Empty /\ fma.p2 = Empty /\ fma' = fma /\ request' = None
  BY <1>2 DEF Serves, Stages, Flush
<1>4. fdiv'.busy = FALSE /\ fdiv'.wb_valid = FALSE
  <2>1. CASE fdiv.busy
    <3>1. fdiv' = DivIdle
      BY <2>1 DEF Flush, DivFlush
    <3> QED BY <3>1 DEF DivIdle
  <2>2. CASE ~fdiv.busy
    <3>1. fdiv' = fdiv
      BY <2>2 DEF Flush
    <3> QED BY <2>2, <3>1 DEF Serves
  <2> QED BY <2>1, <2>2
<1>5. fsqrt'.busy = FALSE /\ fsqrt'.wb_valid = FALSE
  <2>1. CASE fsqrt.busy
    <3>1. fsqrt' = RootIdle
      BY <2>1 DEF Flush, RootFlush
    <3> QED BY <3>1 DEF RootIdle
  <2>2. CASE ~fsqrt.busy
    <3>1. fsqrt' = fsqrt
      BY <2>2 DEF Flush
    <3> QED BY <2>2, <3>1 DEF Serves
  <2> QED BY <2>1, <2>2
<1> QED BY <1>1, <1>3, <1>4, <1>5 DEF Serves, Stages

(* One operation at a time, in one unit (fpu.v, exu.v:201-202).             *)
THEOREM SpecServes == Spec => []Serves
<1>1. Serves /\ DivTypeOK /\ RootTypeOK /\ [Next]_vars => Serves'
  <2> SUFFICES ASSUME Serves, DivTypeOK, RootTypeOK, [Next]_vars PROVE Serves'
    OBVIOUS
  <2>1. CASE Issue
    BY <2>1, ServesLoad DEF Issue
  <2>2. CASE Cycle
    BY <2>2, ServesCycle
  <2>3. CASE Flush
    BY <2>3, ServesFlush
  <2>4. CASE UNCHANGED vars
    BY <2>4 DEF vars, Serves, Stages
  <2> QED BY <2>1, <2>2, <2>3, <2>4 DEF Next
<1>2. DivInv => DivTypeOK
  BY DEF DivInv
<1>3. RootInv => RootTypeOK
  BY DEF RootInv
<1> QED BY <1>1, <1>2, <1>3, ServesInit, SpecRoot, SpecDivide, RootInvariant, DivInvariant, PTL DEF Spec

-----------------------------------------------------------------------------
(* The root the unit holds is that of the operation in the execute stage.   *)
RootOfRequest ==
  fsqrt.busy =>
    /\ fsqrt.s1 = decode(request.a) /\ fsqrt.rm = request.rm
    /\ fsqrt.m25 = IF Odd(fsqrt.s1.exp) THEN 2 * fsqrt.s1.sig ELSE fsqrt.s1.sig
    /\ fsqrt.wb_valid => fsqrt.cnt = STEPS /\ fsqrt.wb = root_result

LEMMA RootOfRequestClock ==
  ASSUME RootTypeOK, RootOfRequest, fsqrt.busy = TRUE, RootClock,
         fsqrt'.busy => request' = request
  PROVE  RootOfRequest'
<1>1. DOMAIN fsqrt = DOMAIN RootIdle
  BY DEF RootTypeOK
<1>2. CASE RootStep
  <2>1. fsqrt'.s1 = fsqrt.s1 /\ fsqrt'.rm = fsqrt.rm /\ fsqrt'.m25 = fsqrt.m25
        /\ fsqrt'.wb_valid = fsqrt.wb_valid /\ ~fsqrt.wb_valid /\ fsqrt'.busy = TRUE
    BY <1>1, <1>2 DEF RootStep, RootIdle
  <2> QED BY <2>1 DEF RootOfRequest
<1>3. CASE RootFinish
  <2>1. fsqrt'.s1 = fsqrt.s1 /\ fsqrt'.rm = fsqrt.rm /\ fsqrt'.m25 = fsqrt.m25 /\ fsqrt'.Y = fsqrt.Y
        /\ fsqrt'.cnt = fsqrt.cnt /\ fsqrt.cnt = STEPS /\ fsqrt'.wb = root_result /\ fsqrt'.busy = TRUE
    BY <1>1, <1>3 DEF RootFinish, RootIdle
  <2>2. root_result' = root_result
    <3>1. ASSUME NEW V PROVE RepairedRoot(V)' = RepairedRoot(V)
      BY <2>1 DEF RepairedRoot
    <3>2. RepairedRoot(fsqrt.m25 * ONE)' = RepairedRoot(fsqrt.m25 * ONE)
      BY <2>1, <3>1
    <3>3. RoundedRoot' = RoundedRoot
      BY <2>1, <3>2 DEF RoundedRoot
    <3> QED BY <2>1, <3>3 DEF root_result
  <2> QED BY <2>1, <2>2 DEF RootOfRequest
<1>4. CASE RootRelease
  BY <1>4 DEF RootRelease, RootIdle, RootOfRequest
<1> QED BY <1>2, <1>3, <1>4 DEF RootClock

(* Until it answers, fsqrt.v holds the operand and the mode it was issued.  *)
THEOREM SpecRootOfRequest == Spec => []RootOfRequest
<1>1. Init => RootOfRequest
  BY DEF Init, RootInit, RootIdle, RootOfRequest
<1>2. RootOfRequest /\ Serves /\ DivTypeOK /\ RootTypeOK /\ Serves' /\ [Next]_vars => RootOfRequest'
  <2> SUFFICES ASSUME RootOfRequest, Serves, DivTypeOK, RootTypeOK, Serves', [Next]_vars PROVE RootOfRequest'
    OBVIOUS
  <2>1. ASSUME request = None, NEW r \in Requests, Load(r) PROVE RootOfRequest'
    <3>1. request' = r
      BY <2>1 DEF Load
    <3>2. CASE r.op = "FSQRT_S"
      <4>1. /\ fsqrt'.s1 = decode(r.a) /\ fsqrt'.rm = r.rm /\ fsqrt'.wb_valid = FALSE
            /\ fsqrt'.m25 = IF Odd(decode(r.a).exp) THEN 2 * decode(r.a).sig ELSE decode(r.a).sig
        BY <2>1, <3>2 DEF Load, RootStart, RootIdle
      <4> QED BY <3>1, <4>1 DEF RootOfRequest
    <3>3. CASE r.op # "FSQRT_S"
      BY <3>1, <3>3 DEF RootOfRequest, Serves
    <3> QED BY <3>2, <3>3
  <2>2. CASE Cycle
    <3>1. CASE fsqrt.busy
      <4>1. fsqrt'.busy => request' = request
        <5>1. None.op # "FSQRT_S"
          BY OpsDiffer DEF Ops
        <5> QED BY <2>2, <5>1 DEF Cycle, Serves
      <4>2. RootClock /\ fsqrt.busy = TRUE
        BY <2>2, <3>1 DEF Cycle, Serves
      <4> QED BY <4>1, <4>2, RootOfRequestClock
    <3>2. CASE ~fsqrt.busy
      BY <2>2, <3>2 DEF Cycle, RootOfRequest
    <3> QED BY <3>1, <3>2
  <2>3. CASE Flush
    <3>1. None.op # "FSQRT_S"
      BY OpsDiffer DEF Ops
    <3> QED BY <2>3, <3>1 DEF Flush, Serves, RootOfRequest
  <2>4. CASE UNCHANGED vars
    <3>1. request' = request /\ fsqrt' = fsqrt
      BY <2>4 DEF vars
    <3>2. root_result' = root_result
      BY <3>1 DEF root_result, RoundedRoot, RepairedRoot
    <3> QED BY <3>1, <3>2 DEF RootOfRequest
  <2> QED BY <2>1, <2>2, <2>3, <2>4 DEF Next, Issue
<1>3. DivInv => DivTypeOK
  BY DEF DivInv
<1>4. RootInv => RootTypeOK
  BY DEF RootInv
<1> QED BY <1>1, <1>2, <1>3, <1>4, SpecServes, SpecRoot, SpecDivide, RootInvariant, DivInvariant, PTL DEF Spec

-----------------------------------------------------------------------------
(* What is proved of the iterative units above holds in this one: the       *)
(* remainder of fdiv.v is bounded, its digits and those of fsqrt.v lose     *)
(* nothing (fdiv.v:121-142).                                                *)
THEOREM SpecRemainderBounded == Spec => []RemainderBounded
BY SpecDivide, DivRemainderBounded, PTL

(* fdiv.v:121-142 for the operations the execute stage issues.              *)
THEOREM SpecNothingLost == Spec => NothingLost
BY SpecDivide, DivNothingLost, PTL

(* fsqrt.v:94-128 for the operations the execute stage issues.              *)
THEOREM SpecResidueExact == Spec => []ResidueExact
BY SpecRoot, RootResidueExact, PTL

(***************************************************************************)
(* The square root                                                         *)
(***************************************************************************)

(* A whole quotient needs no rounding.                                      *)
LEMMA RoundWhole ==
  ASSUME NEW rm \in RoundingModes, NEW neg \in BOOLEAN, NEW den \in Nat, den >= 1,
         NEW num \in Nat, num % den = 0
  PROVE  Reference!RoundQuotient(rm, neg, num, den) = num \div den
<1> DEFINE r == num \div den
<1>1. num \div den = r /\ num % den = 0
  OBVIOUS
<1> HIDE DEF r
<1>2. Reference!RoundQuotient(rm, neg, num, den) =
        IF (CASE rm = "RNE" -> 2 * 0 > den \/ (2 * 0 = den /\ Odd(r))
              [] rm = "RMM" -> 2 * 0 >= den
              [] rm = "RTZ" -> FALSE
              [] rm = "RDN" -> neg /\ 2 * 0 > 0
              [] rm = "RUP" -> ~neg /\ 2 * 0 > 0)
        THEN r + 1 ELSE r
  BY <1>1, ReferenceFormat DEF Reference!RoundQuotient
<1>3. ~(2 * 0 > den) /\ 2 * 0 # den /\ ~(2 * 0 >= den) /\ ~(2 * 0 > 0)
  OBVIOUS
<1> QED BY <1>2, <1>3 DEF RoundingModes, r

(* What has FRAC + 1 bits and an exponent of the format is rounded to       *)
(* itself; twice ONE carries into the exponent.                             *)
LEMMA RoundsToItself ==
  ASSUME NEW rm \in RoundingModes, NEW neg \in BOOLEAN, NEW y \in ONE..2 * ONE, NEW k \in Int, NEW c \in 0..1,
         y = 2 * ONE <=> c = 1, EMIN <= k + FRAC, k + FRAC + c <= EMAX
  PROVE  Reference!Rounded(rm, neg, y, 1, k).value =
           Float(neg, k + FRAC + c + BIAS, IF c = 1 THEN 0 ELSE y - ONE)
<1> DEFINE e == Reference!Log2(y, 1) + k
           q == (IF e < EMIN THEN EMIN ELSE e) - FRAC
           m == Reference!InUnits(rm, neg, y, 1, k, q)
<1>1. /\ ONE \in Nat /\ ONE >= 8 /\ FRAC \in Nat /\ FRAC >= 3 /\ BIAS \in Nat /\ BIAS > FRAC
      /\ 2^FRAC = ONE /\ 2^(FRAC + 1) = 2 * ONE /\ 2^((FRAC + 1) + 1) = 4 * ONE
      /\ EMIN \in Int /\ EMAX \in Int
  <2>1. 2^(FRAC + 2) = 4 * ONE /\ (FRAC + 1) + 1 = FRAC + 2
    BY Width
  <2> QED BY <2>1, Formats, Width DEF ONE, EMIN, EMAX
<1> HIDE DEF ONE
<1>2. y \in Nat /\ y >= ONE /\ y <= 2 * ONE
  BY <1>1
<1>3. (y = 2 * ONE <=> c = 1) /\ (y < 2 * ONE <=> c = 0)
  BY <1>1, <1>2
<1>4. c \in 0..1 /\ k + FRAC + c <= EMAX
  OBVIOUS
<1>5. Msb(y) = FRAC + c /\ Msb(1) = 0
  <2>1. FRAC + 1 <= 4 * (FRAC + BIAS)
    BY <1>1
  <2>2. 2^(FRAC + c) <= y /\ y < 2^((FRAC + c) + 1)
    <3>1. CASE y = 2 * ONE
      <4>1. FRAC + c = FRAC + 1
        BY <1>1, <1>3, <3>1
      <4> QED BY <1>1, <3>1, <4>1
    <3>2. CASE y < 2 * ONE
      <4>1. FRAC + c = FRAC
        BY <1>1, <1>3, <3>2
      <4> QED BY <1>1, <1>2, <3>2, <4>1
    <3> QED BY <1>1, <1>2, <3>1, <3>2
  <2>3. FRAC + c \in Nat /\ FRAC + c <= 4 * (FRAC + BIAS)
    BY <1>1, <1>4, <2>1
  <2>4. Msb(1) = 0
    <3>1. PICK z \in Nat : z = 0
      OBVIOUS
    <3>2. 2^z <= 1 /\ 1 < 2^(z + 1) /\ z <= 4 * (FRAC + BIAS)
      BY <1>1, <2>1, <3>1
    <3> QED BY <3>1, <3>2, LeadingBit
  <2>5. Msb(y) = FRAC + c
    BY <1>2, <2>2, <2>3, LeadingBit
  <2> QED BY <2>4, <2>5
<1>6. Reference!Log2(y, 1) = FRAC + c
  <2>1. 2^(FRAC + c) <= y /\ 1 * 2^(FRAC + c) = 2^(FRAC + c) /\ 2^(FRAC + c) \in Int
    <3>1. CASE c = 0
      <4>1. FRAC + c = FRAC
        BY <1>1, <3>1
      <4> QED BY <1>1, <1>2, <4>1
    <3>2. CASE c = 1
      <4>1. FRAC + c = FRAC + 1 /\ y = 2 * ONE
        BY <1>1, <1>2, <1>3, <3>2
      <4> QED BY <1>1, <4>1
    <3> QED BY <1>4, <3>1, <3>2
  <2>2. FRAC + c - 0 = FRAC + c /\ FRAC + c >= 0
    BY <1>1, <1>4
  <2>3. Reference!Msb(y) - Reference!Msb(1) = FRAC + c
    <3>1. Reference!Msb(y) = Msb(y) /\ Reference!Msb(1) = Msb(1)
      BY ReferenceFormat
    <3> QED BY <1>1, <1>4, <1>5, <3>1
  <2>4. y >= 1 * 2^(FRAC + c)
    BY <1>2, <2>1
  <2> QED BY <2>2, <2>3, <2>4 DEF Reference!Log2, Reference!Pow2
<1>7. e = k + FRAC + c /\ q = k + c /\ e \in Int
  BY <1>1, <1>4, <1>6
<1> HIDE DEF e, q
<1>8. m = IF y = 2 * ONE THEN ONE ELSE y
  <2>1. ~(Reference!Log2(y, 1) + k < q - 1)
    BY <1>1, <1>4, <1>6, <1>7
  <2>2. CASE y = 2 * ONE
    <3>1. c = 1 /\ ~(k >= q) /\ q - k = 1
      BY <1>3, <1>7, <2>2
    <3>2. m = Reference!RoundQuotient(rm, neg, 2 * ONE, 1 * 2^1)
      BY <1>2, <2>1, <2>2, <3>1 DEF Reference!InUnits, Reference!Pow2
    <3>3. 1 * 2^1 = 2 /\ 2 * ONE \in Nat /\ (2 * ONE) % 2 = 0 /\ (2 * ONE) \div 2 = ONE
      BY <1>1
    <3>4. Reference!RoundQuotient(rm, neg, 2 * ONE, 2) = (2 * ONE) \div 2
      BY <3>3, RoundWhole
    <3>5. m = ONE
      BY <3>2, <3>3, <3>4
    <3> QED BY <2>2, <3>5
  <2>3. CASE y < 2 * ONE
    <3>1. k >= q /\ k - q = 0
      BY <1>3, <1>7, <2>3
    <3>2. m = Reference!RoundQuotient(rm, neg, y * 2^0, 1)
      BY <1>2, <2>1, <3>1 DEF Reference!InUnits, Reference!Pow2
    <3>3. y * 2^0 = y /\ y % 1 = 0 /\ y \div 1 = y
      BY <1>2
    <3>4. Reference!RoundQuotient(rm, neg, y, 1) = y \div 1
      BY <1>2, <3>3, RoundWhole
    <3>5. m = y
      BY <3>2, <3>3, <3>4
    <3> QED BY <1>2, <2>3, <3>5
  <2> QED BY <1>1, <1>2, <2>2, <2>3
<1> HIDE DEF m
<1>9. m \div (2 * ONE) = 0 /\ m >= ONE /\ m # 2 * ONE /\ m \in Int
  <2>1. m \in Nat /\ m >= ONE /\ m < 2 * ONE
    BY <1>1, <1>2, <1>8
  <2>2. m \div (2 * ONE) = 0
    BY <1>1, <2>1
  <2> QED BY <2>1, <2>2
<1>10. ~(q + FRAC + m \div (2 * ONE) > EMAX) /\ q + FRAC + m \div (2 * ONE) = k + FRAC + c
  BY <1>1, <1>4, <1>7, <1>9
<1>11. Reference!Rounded(rm, neg, y, 1, k).value = Float(neg, k + FRAC + c + BIAS, m - ONE)
  <2>1. Reference!Rounded(rm, neg, y, 1, k).value =
          IF q + FRAC + m \div (2 * ONE) > EMAX
          THEN Reference!Rounded(rm, neg, y, 1, k).value
          ELSE IF m < ONE THEN Float(neg, 0, m)
               ELSE Float(neg, q + FRAC + m \div (2 * ONE) + BIAS, IF m = 2 * ONE THEN 0 ELSE m - ONE)
    BY ReferenceFormat DEF Reference!Rounded, e, q, m, Answer
  <2>2. ~(m < ONE)
    BY <1>1, <1>9
  <2> QED BY <1>9, <1>10, <2>1, <2>2
<1>12. m - ONE = IF c = 1 THEN 0 ELSE y - ONE
  BY <1>1, <1>2, <1>3, <1>8
<1> QED BY <1>11, <1>12

(* The reference shifts a number until its units have a root of FRAC + 1    *)
(* bits: there is one way to do that, and it leads to the radicand of       *)
(* fsqrt.v.                                                                 *)
Scaled(x, s) ==
  /\ (Reference!Last(x) - s) % 2 = 0
  /\ Reference!Units(x) * 2^s >= ONE * ONE
  /\ Reference!Units(x) * 2^s < 4 * ONE * ONE

Radicand(o) == (IF Odd(o.exp) THEN 2 * o.sig ELSE o.sig) * ONE

LEMMA RootScale ==
  ASSUME NEW x, finite(x), NEW V, V = Radicand(decode(x)), V >= ONE * ONE, V < 4 * (ONE * ONE)
  PROVE  LET s == CHOOSE i \in 0..4 * FRAC : Scaled(x, i)
         IN  /\ s \in 0..4 * FRAC
             /\ Reference!Units(x) * 2^s = V
             /\ (Reference!Last(x) - s) \div 2 = decode(x).exp \div 2 - FRAC
<1> DEFINE o == decode(x)
           U == Reference!Units(x)
           L == Reference!Last(x)
           d == IF Odd(o.exp) THEN 1 ELSE 0
           s == CHOOSE i \in 0..4 * FRAC : Scaled(x, i)
<1>1. /\ FRAC \in Nat /\ FRAC >= 3 /\ BIAS \in Nat /\ ONE \in Nat /\ ONE >= 8 /\ 2^FRAC = ONE
  BY Formats DEF ONE
<1>2. PICK z \in 0..FRAC : Normalises(x, o, z)
  BY DecodedFinite
<1>3. U \in Nat
  <2>1. x.frac \in Nat
    BY <1>1 DEF finite, Floats
  <2> QED BY <1>1, <2>1, ReferenceFormat DEF Reference!Units
<1> HIDE DEF o, U
<1>4. o.sig = U * 2^z /\ o.exp - FRAC = L - z /\ o.sig \in Nat /\ o.exp \in Int /\ L \in Int
  <2>1. L \in Int
    <3>1. x.exp \in Int /\ EMIN \in Int
      BY <1>1 DEF finite, Floats, EMIN
    <3> QED BY <1>1, <3>1, ReferenceFormat DEF Reference!Last
  <2>2. o.sig = U * 2^z /\ o.exp - FRAC = L - z /\ o.sig \in Nat /\ o.exp \in Int
    BY <1>1, <1>2 DEF Normalises, U
  <2> QED BY <2>1, <2>2
<1> HIDE DEF L
<1> DEFINE t == z + FRAC + d
<1>5. d \in 0..1 /\ (o.exp - d) % 2 = 0 /\ (d = 1 <=> Odd(o.exp))
  BY <1>4 DEF Odd
<1> HIDE DEF d
<1>6. t \in 0..4 * FRAC /\ t \in Nat
  BY <1>1, <1>5
<1>7. U * 2^t = V
  <2>1. 2^t = 2^(z + FRAC) * 2^d /\ 2^(z + FRAC) = 2^z * 2^FRAC
    <3>1. z \in Nat /\ d \in Nat /\ z + FRAC \in Nat
      BY <1>1, <1>5
    <3>2. 2^(z + FRAC) = 2^z * 2^FRAC
      BY <1>1, <3>1, PowerSum
    <3>3. 2^((z + FRAC) + d) = 2^(z + FRAC) * 2^d
      BY <1>6, <3>1, PowerSum
    <3> QED BY <3>2, <3>3
  <2>2. 2^z \in Nat
    <3>1. z \in 0..4 * FRAC + BIAS + 1
      BY <1>1
    <3> QED BY <3>1, Powers
  <2>3. V = (IF d = 1 THEN 2 * o.sig ELSE o.sig) * ONE
    BY <1>5 DEF Radicand, o
  <2>4. CASE d = 1
    <3>1. 2^d = 2
      BY <2>4
    <3>2. U * ((2^z * ONE) * 2) = (2 * (U * 2^z)) * ONE
      BY <1>1, <1>3, <2>2
    <3> QED BY <1>1, <1>4, <2>1, <2>3, <2>4, <3>1, <3>2
  <2>5. CASE d = 0
    <3>1. 2^d = 1
      BY <2>5
    <3>2. U * ((2^z * ONE) * 1) = (U * 2^z) * ONE
      BY <1>1, <1>3, <2>2
    <3> QED BY <1>1, <1>4, <2>1, <2>3, <2>5, <3>1, <3>2
  <2> QED BY <1>5, <2>4, <2>5
<1>8. L - t = (o.exp - d) - 2 * FRAC /\ (L - t) % 2 = 0
  <2>1. L - t = (o.exp - d) - 2 * FRAC
    <3>1. o.exp - FRAC = L - z /\ o.exp \in Int /\ L \in Int /\ FRAC \in Int /\ z \in Int /\ d \in Int
      BY <1>1, <1>4, <1>5
    <3> QED BY <3>1
  <2> HIDE DEF t
  <2>2. PICK j \in Int : o.exp - d = 2 * j
    <3>1. o.exp - d \in Int /\ (o.exp - d) % 2 = 0
      BY <1>4, <1>5
    <3>2. o.exp - d = 2 * ((o.exp - d) \div 2) /\ (o.exp - d) \div 2 \in Int
      BY <3>1
    <3> QED BY <3>2
  <2>3. L - t = 2 * (j - FRAC) /\ j - FRAC \in Int
    BY <1>1, <2>1, <2>2
  <2> QED BY <2>1, <2>3
<1> HIDE DEF t
<1>9. ONE * ONE \in Nat /\ 4 * ONE * ONE = 4 * (ONE * ONE)
  BY <1>1
<1>10. Scaled(x, t)
  BY <1>7, <1>8, <1>9 DEF Scaled, U, L
<1>11. s \in 0..4 * FRAC /\ Scaled(x, s)
  BY <1>6, <1>10
<1> HIDE DEF s
<1>12. /\ s \in Nat /\ (L - s) % 2 = 0
       /\ U * 2^s >= ONE * ONE /\ U * 2^s < 4 * (ONE * ONE)
       /\ U * 2^t >= ONE * ONE /\ U * 2^t < 4 * (ONE * ONE)
  BY <1>1, <1>7, <1>9, <1>11 DEF Scaled, U, L
<1>13. ASSUME NEW i \in Nat, NEW j \in Nat, i + 2 <= j,
              U * 2^i >= ONE * ONE, U * 2^j < 4 * (ONE * ONE)
       PROVE  FALSE
  <2>1. 2^(i + 1) = 2 * 2^i /\ 2 * 2^(i + 1) <= 2^j /\ 2^i \in Nat /\ 2^j \in Nat
    <3>1. i < i + 1 /\ i + 1 < j /\ i + 1 \in Nat
      BY <1>1, <1>13
    <3>2. 2^(i + 1) = 2 * 2^i /\ 2^i \in Nat
      BY <3>1, PowerOrder
    <3>3. 2 * 2^(i + 1) <= 2^j /\ 2^j \in Nat
      BY <1>13, <3>1, PowerOrder
    <3> QED BY <3>2, <3>3
  <2>2. 4 * 2^i <= 2^j
    BY <2>1
  <2>3. U * (4 * 2^i) <= U * 2^j /\ U * (4 * 2^i) = 4 * (U * 2^i)
    BY <1>3, <2>1, <2>2
  <2>4. U * 2^i \in Int /\ U * 2^j \in Int
    BY <1>3, <2>1
  <2> QED BY <1>9, <1>13, <2>3, <2>4
<1>14. s = t
  <2>1. ~(s + 2 <= t)
    BY <1>6, <1>12, <1>13
  <2>2. ~(t + 2 <= s)
    BY <1>6, <1>12, <1>13
  <2>3. s \in Nat /\ t \in Nat /\ (L - s) % 2 = 0 /\ (L - t) % 2 = 0 /\ L \in Int
    BY <1>4, <1>6, <1>8, <1>12
  <2> QED BY <2>1, <2>2, <2>3
<1>15. (L - t) \div 2 = o.exp \div 2 - FRAC
  BY <1>1, <1>4, <1>5, <1>8
<1> QED BY <1>7, <1>11, <1>14, <1>15 DEF s, o, U, L

(* A root rounded down is one number.                                       *)
LEMMA OneRoot ==
  ASSUME NEW n \in Int, NEW r \in Nat, NEW s \in Nat,
         r * r <= n, n < (r + 1) * (r + 1), s * s <= n, n < (s + 1) * (s + 1)
  PROVE  r = s
<1>1. r * r \in Int /\ s * s \in Int /\ (r + 1) * (r + 1) \in Int /\ (s + 1) * (s + 1) \in Int
  OBVIOUS
<1>2. r * r < (s + 1) * (s + 1) /\ s * s < (r + 1) * (r + 1)
  BY <1>1
<1>3. r <= s /\ s <= r
  BY <1>2, Squares
<1> QED BY <1>3

(* A finite positive number.                                                *)
LEMMA RoundedRootExact ==
  ASSUME RootInv, fsqrt.busy, fsqrt.cnt = STEPS, NEW a \in Floats, finite(a),
         fsqrt.s1 = decode(a), fsqrt.m25 = IF Odd(fsqrt.s1.exp) THEN 2 * fsqrt.s1.sig ELSE fsqrt.s1.sig,
         ~a.sign
  PROVE  RoundedRoot = Reference!RefRoot(fsqrt.rm, a)
<1> DEFINE rm == fsqrt.rm
           o == fsqrt.s1
           V == fsqrt.m25 * ONE
           r == RepairedRoot(V)
           up == \/ rm \in {"RNE", "RMM"} /\ V - r * r > r
                 \/ rm = "RUP" /\ V - r * r # 0
           c == IF r + (IF up THEN 1 ELSE 0) = 2 * ONE THEN 1 ELSE 0
           y == r + (IF up THEN 1 ELSE 0)
           shift == CHOOSE i \in 0..4 * FRAC : Scaled(a, i)
           k == (Reference!Last(a) - shift) \div 2
<1>1. /\ FRAC \in Nat /\ FRAC >= 3 /\ BIAS \in Nat /\ BIAS > FRAC /\ ONE \in Nat /\ ONE >= 8
  BY Formats
<1>2. fsqrt.s1.kind = "finite" /\ rm \in RoundingModes
  BY DecodedKind DEF RootInv, RootTypeOK
<1>3. /\ V \in Int /\ V >= ONE * ONE /\ V < 4 * (ONE * ONE)
      /\ r \in ONE..2 * ONE - 1 /\ r * r <= V /\ V < (r + 1) * (r + 1)
  BY <1>2, RootFound
<1>4. V = Radicand(decode(a))
  BY DEF Radicand
<1> HIDE DEF V, r
<1>5. shift \in 0..4 * FRAC /\ Reference!Units(a) * 2^shift = V /\ k = o.exp \div 2 - FRAC
  BY <1>3, <1>4, RootScale
<1> HIDE DEF shift, k
<1>6. r \in Nat /\ r * r \in Nat /\ (r + 1) * (r + 1) = r * r + 2 * r + 1
      /\ (2 * r + 1) * (2 * r + 1) = 4 * (r * r) + 4 * r + 1
  BY <1>1, <1>3
<1>7. o.exp \in 1 - BIAS - FRAC..BIAS /\ o.exp \in Int
  <2>1. PICK z \in 0..FRAC : Normalises(a, decode(a), z)
    BY DecodedFinite
  <2> QED BY <1>1, <2>1 DEF Normalises
<1>8. /\ y \in ONE..2 * ONE /\ c \in 0..1 /\ (y = 2 * ONE <=> c = 1)
      /\ k \in Int /\ EMIN <= k + FRAC /\ k + FRAC + c <= EMAX
  <2>1. y \in Nat /\ y >= ONE /\ y <= 2 * ONE
    BY <1>1, <1>3, <1>6
  <2>2. c \in 0..1 /\ (y = 2 * ONE <=> c = 1)
    OBVIOUS
  <2> HIDE DEF y, c
  <2>3. o.exp \div 2 \in Int /\ o.exp \div 2 >= 1 - BIAS /\ o.exp \div 2 + 1 <= BIAS
    BY <1>1, <1>7
  <2> QED BY <1>1, <1>5, <2>1, <2>2, <2>3 DEF EMIN, EMAX
<1>9. y \div (2 * ONE) = c /\ y % ONE = (IF c = 1 THEN 0 ELSE y - ONE) /\ y \in Nat
  <2> HIDE DEF y, c
  <2>1. y \in Nat /\ y >= ONE /\ y <= 2 * ONE
    BY <1>1, <1>8
  <2>2. CASE y = 2 * ONE
    <3>1. (2 * ONE) \div (2 * ONE) = 1 /\ (2 * ONE) % ONE = 0
      BY <1>1
    <3> QED BY <1>8, <2>1, <2>2, <3>1
  <2>3. CASE y < 2 * ONE
    <3>1. y \div (2 * ONE) = 0 /\ y % ONE = y - ONE
      BY <1>1, <2>1, <2>3
    <3> QED BY <1>8, <2>1, <2>3, <3>1
  <2> QED BY <1>1, <2>1, <2>2, <2>3
<1>10. RoundedRoot = Answer(Float(FALSE, k + FRAC + c + BIAS, IF c = 1 THEN 0 ELSE y - ONE),
                            IF V = r * r THEN {} ELSE {"NX"})
  <2>1. RoundedRoot = Answer(Float(FALSE, (o.exp \div 2) + y \div (2 * ONE) + BIAS, y % ONE),
                             Raise("NX", V - r * r # 0))
    BY DEF RoundedRoot, V, r
  <2>2. (o.exp \div 2) + c + BIAS = k + FRAC + c + BIAS
    <3>1. o.exp \div 2 \in Int /\ k = o.exp \div 2 - FRAC /\ FRAC \in Int /\ c \in Int /\ BIAS \in Int
      BY <1>1, <1>5, <1>7, <1>8
    <3> HIDE DEF c
    <3> QED BY <3>1
  <2>3. Raise("NX", V - r * r # 0) = IF V = r * r THEN {} ELSE {"NX"}
    BY <1>3, <1>6 DEF Raise
  <2> HIDE DEF y, c
  <2> QED BY <1>9, <2>1, <2>2, <2>3
<1> DEFINE R == CHOOSE i \in ONE..2 * ONE - 1 : i * i <= V /\ V < (i + 1) * (i + 1)
           Up == CASE rm \in {"RNE", "RMM"} -> 4 * V > (2 * r + 1) * (2 * r + 1)
                 [] rm = "RUP"            -> V > r * r
                 [] rm \in {"RTZ", "RDN"} -> FALSE
<1>11. R = r
  <2>1. R \in ONE..2 * ONE - 1 /\ R * R <= V /\ V < (R + 1) * (R + 1)
    BY <1>3
  <2> HIDE DEF R
  <2>2. R \in Nat
    BY <1>1, <2>1
  <2> QED BY <1>3, <1>6, <2>1, <2>2, OneRoot
<1>12. Up <=> up
  <2>1. 4 * V > (2 * r + 1) * (2 * r + 1) <=> V - r * r > r
    BY <1>3, <1>6
  <2>2. V > r * r <=> V - r * r # 0
    BY <1>3, <1>6
  <2> QED BY <1>2, <2>1, <2>2 DEF RoundingModes
<1>13. Reference!RefRoot(rm, a) =
         Answer(Reference!Rounded(rm, FALSE, y, 1, k).value, IF V = r * r THEN {} ELSE {"NX"})
  <2>1. ~is_nan(a) /\ ~is_zero(a) /\ ~is_inf(a) /\ ~a.sign
    BY DEF finite, is_nan, is_inf
  <2>2. shift = CHOOSE i \in 0..4 * FRAC : /\ (Reference!Last(a) - i) % 2 = 0
                                          /\ Reference!Units(a) * Reference!Pow2(i) >= Reference!ONE * Reference!ONE
                                          /\ Reference!Units(a) * Reference!Pow2(i) < 4 * Reference!ONE * Reference!ONE
    BY DEF shift, Scaled, Reference!Pow2, Reference!ONE, ONE
  <2> DEFINE n == Reference!Units(a) * Reference!Pow2(shift)
             r0 == CHOOSE i \in Reference!ONE..2 * Reference!ONE - 1 : i * i <= n /\ n < (i + 1) * (i + 1)
             up0 == CASE rm \in {"RNE", "RMM"} -> 4 * n > (2 * r0 + 1) * (2 * r0 + 1)
                 [] rm = "RUP"            -> n > r0 * r0
                 [] rm \in {"RTZ", "RDN"} -> FALSE
             exact == Reference!Rounded(rm, FALSE, r0 + (IF up0 THEN 1 ELSE 0), 1, (Reference!Last(a) - shift) \div 2)
  <2>3. Reference!RefRoot(rm, a) =
          CASE Reference!is_nan(a)  -> Reference!QuietNaN({a})
            [] Reference!is_zero(a) -> Reference!Answer(Reference!Zero(a.sign), {})
            [] ~Reference!is_nan(a) /\ ~Reference!is_zero(a) /\ a.sign -> Reference!Invalid
            [] Reference!is_inf(a) /\ ~a.sign -> Reference!Answer(Reference!Inf(FALSE), {})
            [] OTHER -> Reference!Answer(exact.value, IF n = r0 * r0 THEN {} ELSE {"NX"})
    BY <2>2 DEF Reference!RefRoot
  <2>4. n = V
    BY <1>5 DEF Reference!Pow2
  <2> HIDE DEF n
  <2>5. r0 = r
    BY <1>11, <2>4, ReferenceFormat
  <2> HIDE DEF r0
  <2>6. up0 <=> up
    BY <1>12, <2>4, <2>5
  <2> HIDE DEF up0, up
  <2>7. exact = Reference!Rounded(rm, FALSE, y, 1, k)
    BY <2>5, <2>6 DEF k
  <2> HIDE DEF exact
  <2>8. Reference!RefRoot(rm, a) = Reference!Answer(exact.value, IF n = r0 * r0 THEN {} ELSE {"NX"})
    BY <2>1, <2>3, ReferenceFormat
  <2> QED BY <2>4, <2>5, <2>7, <2>8, ReferenceFormat
<1> HIDE DEF y, c
<1>14. Reference!Rounded(rm, FALSE, y, 1, k).value =
         Float(FALSE, k + FRAC + c + BIAS, IF c = 1 THEN 0 ELSE y - ONE)
  <2>1. PICK neg \in BOOLEAN : neg = FALSE
    OBVIOUS
  <2>2. Reference!Rounded(rm, neg, y, 1, k).value =
          Float(neg, k + FRAC + c + BIAS, IF c = 1 THEN 0 ELSE y - ONE)
    BY <1>2, <1>8, RoundsToItself
  <2> QED BY <2>1, <2>2
<1> QED BY <1>10, <1>13, <1>14

(* The answer of the root unit, for every kind of operand.                  *)
LEMMA RootAnswer ==
  ASSUME RootInv, RootOfRequest, Serves, fsqrt.wb_valid
  PROVE  Answered = Reference!RefRoot(request.rm, request.a)
<1> DEFINE a == request.a
           o == decode(a)
<1>1. fsqrt.busy /\ request.op = "FSQRT_S"
  BY DEF Serves
<1>2. request \in Requests
  BY <1>1, OpsDiffer DEF Serves, Ops
<1>3. a \in Floats /\ request.rm \in RoundingModes
  BY <1>2, RequestFields
<1>4. fsqrt.s1 = o /\ fsqrt.rm = request.rm /\ fsqrt.cnt = STEPS /\ fsqrt.wb = root_result
      /\ fsqrt.m25 = IF Odd(fsqrt.s1.exp) THEN 2 * fsqrt.s1.sig ELSE fsqrt.s1.sig
  BY <1>1 DEF RootOfRequest
<1>5. Answered = root_result
  <2>1. request.op \notin FmaOps /\ request.op \notin QuickOps /\ request.op \notin ConvertOps /\ request.op # "FDIV_S"
    BY <1>1, OpsDiffer
  <2>2. ~fma.p2.valid /\ ~fdiv.wb_valid
    BY <2>1 DEF Serves, Stages, Empty
  <2> QED BY <1>4, <2>1, <2>2 DEF Answered, fquick_wb_valid, fcvt_wb_valid
<1>6. /\ o.sign = a.sign /\ o.sign \in BOOLEAN /\ o.kind \in Kinds
      /\ o.kind = "zero" <=> is_zero(a)
      /\ o.kind = "inf" <=> is_inf(a)
      /\ o.kind = "snan" <=> is_snan(a)
      /\ o.kind = "qnan" <=> is_qnan(a)
      /\ nan(o) <=> is_nan(a)
      /\ o.kind = "finite" <=> finite(a)
  BY <1>3, DecodedKind
<1> HIDE DEF o
<1> HIDE DEF a
<1> DEFINE exact == Reference!RefRoot(request.rm, a)
<1>7. /\ is_nan(a) => exact = Reference!QuietNaN({a})
      /\ ~is_nan(a) /\ is_zero(a) => exact = Answer(Zero(a.sign), {})
      /\ ~is_nan(a) /\ ~is_zero(a) /\ a.sign => exact = Reference!Invalid
      /\ ~is_nan(a) /\ ~is_zero(a) /\ ~a.sign /\ is_inf(a) => exact = Answer(Inf(FALSE), {})
  <2>1. /\ is_nan(a) => ~is_zero(a) /\ ~is_inf(a)
        /\ is_zero(a) => ~is_inf(a)
    BY Formats DEF is_nan, is_zero, is_inf
  <2>2. CASE is_nan(a)
    BY <2>1, <2>2, ReferenceFormat DEF Reference!RefRoot
  <2>3. CASE is_zero(a)
    BY <2>1, <2>3, ReferenceFormat DEF Reference!RefRoot
  <2>4. CASE ~is_nan(a) /\ ~is_zero(a) /\ a.sign
    BY <2>1, <2>4, ReferenceFormat DEF Reference!RefRoot
  <2>5. CASE ~is_nan(a) /\ ~is_zero(a) /\ ~a.sign /\ is_inf(a)
    BY <2>1, <2>5, ReferenceFormat DEF Reference!RefRoot
  <2> HIDE DEF exact
  <2> QED BY <2>1, <2>2, <2>3, <2>4, <2>5
<1>8. Reference!QuietNaN({a}) = Answer(CanonicalNaN, Raise("NV", is_snan(a)))
      /\ Reference!Invalid = Answer(CanonicalNaN, {"NV"})
  BY ReferenceFormat DEF Reference!QuietNaN, Reference!Invalid, Raise
<1>9. CASE nan(o)
  <2>1. root_result = Answer(CanonicalNaN, Raise("NV", is_snan(a)))
    BY <1>4, <1>6, <1>9 DEF root_result, nan, Raise
  <2> QED BY <1>5, <1>6, <1>7, <1>8, <1>9, <2>1 DEF a
<1>10. CASE o.kind \in {"finite", "inf"} /\ o.sign
  <2>1. root_result = Answer(CanonicalNaN, {"NV"})
    BY <1>4, <1>10 DEF root_result, nan
  <2> QED BY <1>5, <1>6, <1>7, <1>8, <1>10, <2>1 DEF a, nan
<1>11. CASE o.kind = "zero"
  <2>1. root_result = Answer(Zero(a.sign), {})
    BY <1>4, <1>6, <1>11 DEF root_result, nan
  <2> QED BY <1>5, <1>6, <1>7, <1>11, <2>1 DEF a, nan
<1>12. CASE o.kind = "inf" /\ ~o.sign
  <2>1. root_result = Answer(Inf(FALSE), {})
    BY <1>4, <1>12 DEF root_result, nan
  <2> QED BY <1>5, <1>6, <1>7, <1>12, <2>1 DEF a, nan
<1>13. CASE o.kind = "finite" /\ ~o.sign
  <2>1. root_result = RoundedRoot
    BY <1>4, <1>13 DEF root_result, nan
  <2>2. finite(a) /\ ~a.sign
    BY <1>6, <1>13
  <2>3. RoundedRoot = Reference!RefRoot(fsqrt.rm, a)
    BY <1>1, <1>3, <1>4, <2>2, RoundedRootExact DEF a, o
  <2> QED BY <1>4, <1>5, <2>1, <2>3 DEF a
<1> QED BY <1>6, <1>9, <1>10, <1>11, <1>12, <1>13 DEF Kinds, nan

(* Every square root is the exact root rounded once, in every mode, with    *)
(* the right flags: the digit table, the repair of fsqrt.v:134-143 and the  *)
(* rounding of fsqrt.v:145-163 for every format and every operand.          *)
THEOREM SpecRootRounded == Spec => []RootRounded
<1>1. RootInv /\ RootOfRequest /\ Serves => RootRounded
  BY RootAnswer DEF RootRounded
<1> QED BY <1>1, SpecServes, SpecRootOfRequest, SpecRoot, RootInvariant, PTL

(***************************************************************************)
(* Comparisons, extremes and classes                                       *)
(***************************************************************************)

(* The fields of a number as one integer.                                   *)
Bits(x) == x.exp * ONE + x.frac

LEMMA Lexicographic ==
  ASSUME NEW o \in Nat, NEW e \in Nat, NEW f \in Nat, NEW m \in 0..o - 1, NEW n \in 0..o - 1
  PROVE  e * o + m < f * o + n <=> e < f \/ (e = f /\ m < n)
<1>1. e * o \in Int /\ f * o \in Int
  OBVIOUS
<1>2. CASE e < f
  <2>1. (e + 1) * o <= f * o /\ (e + 1) * o = e * o + o
    BY <1>2
  <2> QED BY <1>1, <1>2, <2>1
<1>3. CASE e = f
  BY <1>1, <1>3
<1>4. CASE f < e
  <2>1. (f + 1) * o <= e * o /\ (f + 1) * o = f * o + o
    BY <1>4
  <2> QED BY <1>1, <1>4, <2>1
<1> QED BY <1>2, <1>3, <1>4

(* Two subnormal numbers: the one shifted further is the smaller one.       *)
LEMMA ShiftedOrder ==
  ASSUME NEW m \in Nat, NEW n \in Nat, NEW y \in 0..FRAC, NEW z \in 0..FRAC,
         m * 2^y \in ONE..2 * ONE - 1, n * 2^z \in ONE..2 * ONE - 1
  PROVE  m < n <=> y > z \/ (y = z /\ m * 2^y < n * 2^z)
<1>1. /\ FRAC \in Nat /\ ONE \in Nat /\ y \in Nat /\ z \in Nat
  BY Formats
<1>2. /\ 2^y \in Nat /\ 2^y >= 1 /\ 2^z \in Nat /\ 2^z >= 1
      /\ m * 2^y \in Int /\ n * 2^z \in Int /\ m * 2^z \in Int /\ n * 2^y \in Int
      /\ m * (2 * 2^z) = 2 * (m * 2^z) /\ n * (2 * 2^y) = 2 * (n * 2^y)
  <2>1. y \in 0..4 * FRAC + BIAS + 1 /\ z \in 0..4 * FRAC + BIAS + 1
    BY Formats
  <2>2. 2^y \in Nat /\ 2^y >= 1 /\ 2^z \in Nat /\ 2^z >= 1
    BY <2>1, Powers
  <2> QED BY <2>2
<1>3. CASE y > z
  <2>1. 2 * 2^z <= 2^y
    BY <1>1, <1>3, PowerOrder
  <2>2. m * (2 * 2^z) <= m * 2^y
    BY <1>2, <2>1
  <2>3. m * 2^z < n * 2^z
    BY <1>1, <1>2, <2>2
  <2>4. m < n
    <3>1. m >= n => m * 2^z >= n * 2^z
      BY <1>2
    <3> QED BY <1>2, <2>3, <3>1
  <2> QED BY <1>3, <2>4
<1>4. CASE y < z
  <2>1. 2 * 2^y <= 2^z
    BY <1>1, <1>4, PowerOrder
  <2>2. n * (2 * 2^y) <= n * 2^z
    BY <1>2, <2>1
  <2>3. n * 2^y < m * 2^y
    BY <1>1, <1>2, <2>2
  <2>4. n < m
    <3>1. n >= m => n * 2^y >= m * 2^y
      BY <1>2
    <3> QED BY <1>2, <2>3, <3>1
  <2> QED BY <1>1, <1>4, <2>4
<1>5. CASE y = z
  <2>1. m >= n => m * 2^y >= n * 2^y
    BY <1>2
  <2>2. m < n => (m + 1) * 2^y <= n * 2^y /\ (m + 1) * 2^y = m * 2^y + 2^y
    BY <1>2
  <2> QED BY <1>2, <1>5, <2>1, <2>2
<1> QED BY <1>1, <1>3, <1>4, <1>5

LEMMA FiniteFields ==
  ASSUME NEW x, finite(x), NEW z, Normalises(x, decode(x), z)
  PROVE  IF x.exp = 0
         THEN z >= 1 /\ decode(x).sig = x.frac * 2^z /\ decode(x).exp = 1 - BIAS - z
         ELSE z = 0 /\ decode(x).sig = ONE + x.frac /\ decode(x).exp = x.exp - BIAS
<1> DEFINE o == decode(x)
<1>1. /\ x.exp \in 0..SPECIAL - 1 /\ x.frac \in 0..ONE - 1
      /\ SPECIAL = 2 * BIAS + 1 /\ ONE \in Nat /\ FRAC \in Nat /\ BIAS \in Nat
  BY Formats DEF Floats, finite
<1>2. /\ z \in 0..FRAC /\ o.sig = Reference!Units(x) * 2^z /\ o.exp - FRAC = Reference!Last(x) - z
      /\ o.sig \in ONE..2 * ONE - 1 /\ o.exp \in 1 - BIAS - FRAC..BIAS /\ (z # 0 => x.exp = 0)
  BY DEF Normalises
<1> HIDE DEF o
<1>3. /\ Reference!Units(x) = (IF x.exp = 0 THEN x.frac ELSE ONE + x.frac)
      /\ Reference!Last(x) = (IF x.exp = 0 THEN 1 - BIAS ELSE x.exp - BIAS) - FRAC
  BY ReferenceFormat DEF Reference!Units, Reference!Last, EMIN
<1>4. z = 0 => 2^z = 1
  OBVIOUS
<1> DEFINE w == 2^z
<1>5. o.sig = Reference!Units(x) * w /\ (z = 0 => w = 1)
  BY <1>2, <1>4
<1>6. CASE x.exp = 0
  <2>1. o.sig = x.frac * w
    BY <1>3, <1>5, <1>6
  <2>2. z >= 1
    <3> HIDE DEF w
    <3>1. z = 0 => o.sig = x.frac
      BY <1>1, <1>5, <2>1
    <3> QED BY <1>1, <1>2, <3>1
  <2>3. o.exp = 1 - BIAS - z
    BY <1>1, <1>2, <1>3, <1>6
  <2> QED BY <1>6, <2>1, <2>2, <2>3 DEF o
<1>7. CASE x.exp # 0
  <2>1. z = 0
    BY <1>2, <1>7
  <2> HIDE DEF w
  <2>2. o.sig = ONE + x.frac
    BY <1>1, <1>3, <1>5, <1>7, <2>1
  <2>3. o.exp = x.exp - BIAS
    BY <1>1, <1>2, <1>3, <1>7, <2>1
  <2> QED BY <1>7, <2>1, <2>2, <2>3 DEF o
<1> QED BY <1>6, <1>7

LEMMA FiniteOrder ==
  ASSUME NEW a, NEW b, finite(a), finite(b)
  PROVE  (decode(a).exp < decode(b).exp \/ (decode(a).exp = decode(b).exp /\ decode(a).sig < decode(b).sig))
           <=> (a.exp < b.exp \/ (a.exp = b.exp /\ a.frac < b.frac))
<1> DEFINE o == decode(a)
           p == decode(b)
<1>1. /\ a.exp \in 0..SPECIAL - 1 /\ a.frac \in 0..ONE - 1 /\ b.exp \in 0..SPECIAL - 1 /\ b.frac \in 0..ONE - 1
      /\ SPECIAL = 2 * BIAS + 1 /\ ONE \in Nat /\ FRAC \in Nat /\ BIAS \in Nat /\ BIAS > FRAC
  BY Formats DEF Floats, finite
<1>2. PICK y \in 0..FRAC : Normalises(a, o, y)
  BY DecodedFinite
<1>3. PICK z \in 0..FRAC : Normalises(b, p, z)
  BY DecodedFinite
<1>5. /\ a.exp # 0 => y = 0 /\ o.sig = ONE + a.frac /\ o.exp = a.exp - BIAS
      /\ a.exp = 0 => y >= 1 /\ o.sig = a.frac * 2^y /\ o.exp = 1 - BIAS - y
  BY <1>2, FiniteFields
<1>6. /\ b.exp # 0 => z = 0 /\ p.sig = ONE + b.frac /\ p.exp = b.exp - BIAS
      /\ b.exp = 0 => z >= 1 /\ p.sig = b.frac * 2^z /\ p.exp = 1 - BIAS - z
  BY <1>3, FiniteFields
<1>11. o.sig \in ONE..2 * ONE - 1 /\ p.sig \in ONE..2 * ONE - 1
  BY <1>2, <1>3 DEF Normalises
<1> HIDE DEF o, p
<1>7. CASE a.exp # 0 /\ b.exp # 0
  <2>1. /\ o.exp < p.exp <=> a.exp < b.exp
        /\ o.exp = p.exp <=> a.exp = b.exp
        /\ o.sig < p.sig <=> a.frac < b.frac
    BY <1>1, <1>5, <1>6, <1>7
  <2> QED BY <2>1 DEF o, p
<1>8. CASE a.exp = 0 /\ b.exp # 0
  <2>1. o.exp < p.exp /\ a.exp < b.exp
    BY <1>1, <1>5, <1>6, <1>8
  <2> QED BY <2>1 DEF o, p
<1>9. CASE a.exp # 0 /\ b.exp = 0
  <2>1. o.exp > p.exp /\ a.exp > b.exp /\ o.exp \in Int /\ p.exp \in Int
    BY <1>1, <1>3, <1>5, <1>6, <1>9
  <2> QED BY <1>1, <2>1 DEF o, p
<1>10. CASE a.exp = 0 /\ b.exp = 0
  <2>1. a.frac * 2^y \in ONE..2 * ONE - 1 /\ b.frac * 2^z \in ONE..2 * ONE - 1 /\ a.frac \in Nat /\ b.frac \in Nat
    BY <1>1, <1>5, <1>6, <1>10, <1>11
  <2>2. a.frac < b.frac <=> y > z \/ (y = z /\ a.frac * 2^y < b.frac * 2^z)
    BY <2>1, ShiftedOrder
  <2>3. /\ o.exp < p.exp <=> y > z
        /\ o.exp = p.exp <=> y = z
    <3>1. y \in Int /\ z \in Int /\ BIAS \in Int
      BY <1>1
    <3> QED BY <3>1, <1>5, <1>6, <1>10
  <2>4. o.sig = a.frac * 2^y /\ p.sig = b.frac * 2^z
    BY <1>5, <1>6, <1>10
  <2>5. a.exp = b.exp /\ ~(a.exp < b.exp)
    BY <1>10
  <2> QED BY <2>2, <2>3, <2>4, <2>5 DEF o, p
<1> QED BY <1>7, <1>8, <1>9, <1>10

(* Magnitudes are ordered as their fields are, zeros and infinities too.    *)
LEMMA MagnitudeOrder ==
  ASSUME NEW a \in Floats, NEW b \in Floats, ~is_nan(a), ~is_nan(b)
  PROVE  lt_abs(a, b) <=> Bits(a) < Bits(b)
<1>1. /\ a.exp \in 0..SPECIAL /\ a.frac \in 0..ONE - 1 /\ b.exp \in 0..SPECIAL /\ b.frac \in 0..ONE - 1
      /\ SPECIAL \in Nat /\ SPECIAL > 0 /\ ONE \in Nat
  BY Formats DEF Floats
<1>2. /\ a.exp = SPECIAL => a.frac = 0
      /\ b.exp = SPECIAL => b.frac = 0
  BY DEF is_nan
<1>3. Bits(a) < Bits(b) <=> a.exp < b.exp \/ (a.exp = b.exp /\ a.frac < b.frac)
  <2>1. a.exp \in Nat /\ b.exp \in Nat
    BY <1>1
  <2> DEFINE e == a.exp
             f == b.exp
             m == a.frac
             n == b.frac
             o == ONE
  <2>2. e \in Nat /\ f \in Nat /\ o \in Nat /\ m \in 0..o - 1 /\ n \in 0..o - 1
    BY <1>1, <2>1
  <2>3. Bits(a) = e * o + m /\ Bits(b) = f * o + n
    BY DEF Bits
  <2>4. e * o + m < f * o + n <=> e < f \/ (e = f /\ m < n)
    <3> HIDE DEF e, f, m, n, o
    <3> QED BY <2>2, Lexicographic, Zenon
  <2> QED BY <2>3, <2>4
<1>4. CASE finite(a) /\ finite(b)
  <2>1. ~is_inf(a) /\ ~is_inf(b) /\ ~is_zero(a) /\ ~is_zero(b)
    BY <1>4 DEF finite, is_inf
  <2> QED BY <1>3, <1>4, <2>1, FiniteOrder DEF lt_abs
<1>5. CASE ~finite(a) \/ ~finite(b)
  <2>1. /\ is_inf(a) <=> a.exp = SPECIAL
        /\ is_inf(b) <=> b.exp = SPECIAL
    BY <1>2 DEF is_inf
  <2>2. CASE is_inf(a)
    BY <1>1, <1>2, <1>3, <2>1, <2>2 DEF lt_abs
  <2>3. CASE ~is_inf(a) /\ is_inf(b)
    BY <1>1, <1>2, <1>3, <2>1, <2>3 DEF lt_abs
  <2>4. CASE ~is_inf(a) /\ ~is_inf(b)
    <3>1. is_zero(a) \/ is_zero(b)
      BY <1>5, <2>1, <2>4 DEF finite
    <3>2. lt_abs(a, b) <=> is_zero(a) /\ ~is_zero(b)
      BY <2>4, <3>1 DEF lt_abs
    <3> QED BY <1>1, <1>3, <3>1, <3>2 DEF is_zero
  <2> QED BY <2>2, <2>3, <2>4
<1> QED BY <1>4, <1>5

LEMMA KeyOrder ==
  ASSUME NEW a \in Floats, NEW b \in Floats, ~is_nan(a), ~is_nan(b)
  PROVE  /\ less(a, b) <=> Reference!Key(a) < Reference!Key(b)
         /\ Reference!Key(a) \in Int /\ Reference!Key(b) \in Int
         /\ Bits(a) \in Nat /\ Bits(b) \in Nat
         /\ is_zero(a) <=> Bits(a) = 0
         /\ is_zero(b) <=> Bits(b) = 0
         /\ Reference!Key(a) = IF a.sign THEN -Bits(a) ELSE Bits(a)
         /\ Reference!Key(b) = IF b.sign THEN -Bits(b) ELSE Bits(b)
<1>1. /\ a.exp \in Nat /\ a.frac \in 0..ONE - 1 /\ b.exp \in Nat /\ b.frac \in 0..ONE - 1 /\ ONE \in Nat /\ ONE >= 8
      /\ a.sign \in BOOLEAN /\ b.sign \in BOOLEAN
  <2>1. SPECIAL \in Nat /\ ONE \in Nat /\ ONE >= 8
    BY Formats
  <2> QED BY <2>1 DEF Floats
<1>2. /\ Reference!Key(a) = IF a.sign THEN -Bits(a) ELSE Bits(a)
      /\ Reference!Key(b) = IF b.sign THEN -Bits(b) ELSE Bits(b)
  BY ReferenceFormat DEF Reference!Key, Bits
<1>3. ASSUME NEW e \in Nat, NEW f \in 0..ONE - 1
      PROVE  e * ONE + f \in Nat /\ (e * ONE + f = 0 <=> e = 0 /\ f = 0)
  <2>1. e * ONE \in Nat
    BY <1>1
  <2>2. e >= 1 => e * ONE >= 1 * ONE
    BY <1>1
  <2> QED BY <1>1, <2>1, <2>2
<1>4. /\ Bits(a) \in Nat /\ Bits(b) \in Nat
      /\ is_zero(a) <=> Bits(a) = 0
      /\ is_zero(b) <=> Bits(b) = 0
  BY <1>1, <1>3 DEF is_zero, Bits
<1>5. lt_abs(a, b) <=> Bits(a) < Bits(b)
  BY MagnitudeOrder
<1>6. lt_abs(b, a) <=> Bits(b) < Bits(a)
  BY MagnitudeOrder
<1>7. less(a, b) <=> Reference!Key(a) < Reference!Key(b)
  BY <1>1, <1>2, <1>4, <1>5, <1>6 DEF less
<1>8. Reference!Key(a) \in Int /\ Reference!Key(b) \in Int
  BY <1>1, <1>2, <1>4
<1> QED BY <1>2, <1>4, <1>7, <1>8

LEMMA SameFloat ==
  ASSUME NEW a \in Floats, NEW s \in BOOLEAN
  PROVE  /\ a = Float(a.sign, a.exp, a.frac)
         /\ [a EXCEPT !.sign = s] = Float(s, a.exp, a.frac)
         /\ is_zero(a) => a = Zero(a.sign)
<1>1. a = [sign |-> a.sign, exp |-> a.exp, frac |-> a.frac]
  BY DEF Floats
<1>2. [a EXCEPT !.sign = s] = [sign |-> s, exp |-> a.exp, frac |-> a.frac]
  BY <1>1
<1> QED BY <1>1, <1>2 DEF Float, Zero, is_zero

(* Minimum and maximum, of NaNs and of zeros of both signs too.             *)
LEMMA ExtremeExact ==
  ASSUME NEW a \in Floats, NEW b \in Floats, NEW lower \in BOOLEAN
  PROVE  Extreme(a, b, lower) = Reference!RefExtreme(a, b, lower)
<1> DEFINE below(x, y) == Reference!Key(x) < Reference!Key(y) \/ (Reference!Key(x) = Reference!Key(y) /\ x.sign /\ ~y.sign)
           ref == Reference!RefExtreme(a, b, lower)
<1>1. ref = IF is_nan(a) THEN IF is_nan(b) THEN CanonicalNaN ELSE b
            ELSE IF is_nan(b) THEN a
            ELSE IF lower THEN IF below(b, a) THEN b ELSE a
            ELSE IF below(a, b) THEN b ELSE a
  BY ReferenceFormat DEF Reference!RefExtreme
<1> HIDE DEF ref
<1>2. CASE is_nan(a) \/ is_nan(b)
  <2>1. is_nan(a) => ~is_zero(a)
    BY Formats DEF is_nan, is_zero
  <2>2. CASE is_nan(a) /\ is_nan(b)
    <3>1. Extreme(a, b, lower) = CanonicalNaN
      BY <2>1, <2>2 DEF Extreme
    <3> QED BY <1>1, <2>2, <3>1 DEF ref
  <2>3. CASE is_nan(a) /\ ~is_nan(b)
    <3>1. Extreme(a, b, lower) = b
      BY <2>1, <2>3 DEF Extreme
    <3> QED BY <1>1, <2>3, <3>1 DEF ref
  <2>4. CASE ~is_nan(a) /\ is_nan(b)
    <3>1. ~is_zero(b)
      BY <2>4, Formats DEF is_nan, is_zero
    <3>2. Extreme(a, b, lower) = a
      BY <2>4, <3>1 DEF Extreme
    <3> QED BY <1>1, <2>4, <3>2 DEF ref
  <2> QED BY <1>2, <2>2, <2>3, <2>4
<1>3. CASE ~is_nan(a) /\ ~is_nan(b)
  <2>1. /\ less(a, b) <=> Reference!Key(a) < Reference!Key(b)
        /\ Reference!Key(a) \in Int /\ Reference!Key(b) \in Int
        /\ Bits(a) \in Nat /\ Bits(b) \in Nat
        /\ is_zero(a) <=> Bits(a) = 0
        /\ is_zero(b) <=> Bits(b) = 0
        /\ Reference!Key(a) = IF a.sign THEN -Bits(a) ELSE Bits(a)
        /\ Reference!Key(b) = IF b.sign THEN -Bits(b) ELSE Bits(b)
    BY <1>3, KeyOrder
  <2>2. less(b, a) <=> Reference!Key(b) < Reference!Key(a)
    BY <1>3, KeyOrder
  <2>3. a.sign \in BOOLEAN /\ b.sign \in BOOLEAN
    BY DEF Floats
  <2>4. CASE is_zero(a) /\ is_zero(b) /\ a.sign # b.sign
    <3>1. Extreme(a, b, lower) = Zero(lower)
      BY <1>3, <2>4 DEF Extreme
    <3>2. a = Zero(a.sign) /\ b = Zero(b.sign)
      BY <2>3, <2>4, SameFloat
    <3>3. Reference!Key(a) = 0 /\ Reference!Key(b) = 0
      <4>1. \A n \in Int : -n = 0 - n
        OBVIOUS
      <4>2. \A n \in Nat : n = 0 => 0 - n = 0
        OBVIOUS
      <4>3. /\ Reference!Key(a) = IF a.sign THEN 0 - Bits(a) ELSE Bits(a)
            /\ Reference!Key(b) = IF b.sign THEN 0 - Bits(b) ELSE Bits(b)
        BY <2>1, <4>1
      <4> QED BY <2>1, <2>4, <4>2, <4>3
    <3>4. below(b, a) <=> b.sign /\ ~a.sign
      BY <3>3
    <3>5. below(a, b) <=> a.sign /\ ~b.sign
      BY <3>3
    <3> HIDE DEF below
    <3>6. lower => ref = (IF b.sign /\ ~a.sign THEN b ELSE a)
      BY <1>1, <1>3, <3>4
    <3>7. ~lower => ref = (IF a.sign /\ ~b.sign THEN b ELSE a)
      BY <1>1, <1>3, <3>5
    <3>8. CASE lower = TRUE /\ a.sign = TRUE /\ b.sign = FALSE
      BY <3>1, <3>2, <3>6, <3>8 DEF ref
    <3>9. CASE lower = TRUE /\ a.sign = FALSE /\ b.sign = TRUE
      BY <3>1, <3>2, <3>6, <3>9 DEF ref
    <3>10. CASE lower = FALSE /\ a.sign = TRUE /\ b.sign = FALSE
      BY <3>1, <3>2, <3>7, <3>10 DEF ref
    <3>11. CASE lower = FALSE /\ a.sign = FALSE /\ b.sign = TRUE
      BY <3>1, <3>2, <3>7, <3>11 DEF ref
    <3>12. /\ lower = TRUE \/ lower = FALSE
           /\ (a.sign = TRUE /\ b.sign = FALSE) \/ (a.sign = FALSE /\ b.sign = TRUE)
      BY <2>3, <2>4
    <3> QED BY <3>8, <3>9, <3>10, <3>11, <3>12
  <2>5. CASE ~(is_zero(a) /\ is_zero(b) /\ a.sign # b.sign)
    <3>1. Reference!Key(a) = Reference!Key(b) => (a.sign <=> b.sign)
      BY <2>1, <2>3, <2>5
    <3>2. below(a, b) <=> less(a, b)
      BY <2>1, <3>1
    <3>3. below(b, a) <=> less(b, a)
      BY <2>2, <3>1
    <3>4. Extreme(a, b, lower) = IF (IF lower THEN less(b, a) ELSE less(a, b)) THEN b ELSE a
      BY <1>3, <2>5 DEF Extreme
    <3> HIDE DEF below
    <3>5. CASE lower = TRUE
      <4>1. ref = IF below(b, a) THEN b ELSE a
        BY <1>1, <1>3, <3>5
      <4> QED BY <3>3, <3>4, <3>5, <4>1 DEF ref
    <3>6. CASE lower = FALSE
      <4>1. ref = IF below(a, b) THEN b ELSE a
        BY <1>1, <1>3, <3>6
      <4>2. Extreme(a, b, lower) = IF less(a, b) THEN b ELSE a
        BY <3>4, <3>6
      <4>3. Extreme(a, b, lower) = ref
        BY <3>2, <4>1, <4>2
      <4> QED BY <4>3 DEF ref
    <3> QED BY <3>5, <3>6
  <2> QED BY <2>4, <2>5
<1> QED BY <1>2, <1>3

LEMMA ClassExact ==
  ASSUME NEW a \in Floats
  PROVE  class_result(a) = Reference!RefClass(a)
<1> DEFINE top == SPECIAL * ONE
           k == Reference!Key(a)
           classes == << k = -top, -top < k /\ k <= -ONE, -ONE < k /\ k < 0, k = 0 /\ a.sign,
                         k = 0 /\ ~a.sign, 0 < k /\ k < ONE, ONE <= k /\ k < top, k = top >>
           c == CHOOSE i \in 1..8 : classes[i]
           ref == Reference!RefClass(a)
<1>1. ref = IF is_nan(a) THEN IF is_snan(a) THEN 256 ELSE 512 ELSE 2^(c - 1)
  BY ReferenceFormat DEF Reference!RefClass, Reference!Pow2
<1> HIDE DEF ref
<1>2. CASE is_nan(a)
  <2>1. /\ ~is_inf(a) /\ ~is_normal(a) /\ ~is_subnormal(a) /\ ~is_zero(a)
        /\ is_qnan(a) <=> ~is_snan(a)
    BY <1>2, Formats DEF Floats, is_nan, is_inf, is_normal, is_subnormal, is_zero, is_qnan, is_snan
  <2>2. CASE is_snan(a)
    <3>1. class_result(a) = 256
      BY <2>1, <2>2 DEF class_result
    <3> QED BY <1>1, <1>2, <2>2, <3>1 DEF ref
  <2>3. CASE is_qnan(a)
    <3>1. class_result(a) = 512
      BY <2>1, <2>3 DEF class_result
    <3> QED BY <1>1, <1>2, <2>1, <2>3, <3>1 DEF ref
  <2> QED BY <2>1, <2>2, <2>3
<1>3. CASE ~is_nan(a)
  <2>1. /\ a.sign \in BOOLEAN /\ a.exp \in 0..SPECIAL /\ a.frac \in 0..ONE - 1
        /\ SPECIAL \in Nat /\ SPECIAL >= 2 /\ ONE \in Nat /\ ONE >= 8
    BY Formats DEF Floats
  <2>2. Bits(a) \in Nat /\ k = (IF a.sign THEN -Bits(a) ELSE Bits(a)) /\ (is_zero(a) <=> Bits(a) = 0)
    BY <1>3, KeyOrder
  <2>3. /\ top \in Int
        /\ a.exp >= 1 => a.exp * ONE >= 1 * ONE
        /\ a.exp < SPECIAL => (a.exp + 1) * ONE <= SPECIAL * ONE /\ (a.exp + 1) * ONE = a.exp * ONE + ONE
        /\ a.exp * ONE \in Int
        /\ SPECIAL * ONE >= 2 * ONE
    BY <2>1
  <2>4. /\ is_inf(a) => Bits(a) = top
        /\ is_normal(a) => ONE <= Bits(a) /\ Bits(a) < top
        /\ is_subnormal(a) => 0 < Bits(a) /\ Bits(a) < ONE
        /\ is_zero(a) => Bits(a) = 0
        /\ top >= 2 * ONE
    <3>1. is_inf(a) => Bits(a) = top
      BY <2>1, <2>3 DEF is_inf, Bits
    <3>2. is_normal(a) => ONE <= Bits(a) /\ Bits(a) < top
      BY <2>1, <2>3 DEF is_normal, Bits
    <3>3. is_subnormal(a) => 0 < Bits(a) /\ Bits(a) < ONE
      <4>1. 0 * ONE = 0
        BY <2>1
      <4> QED BY <2>1, <4>1 DEF is_subnormal, Bits
    <3> QED BY <2>2, <2>3, <3>1, <3>2, <3>3
  <2>5. /\ is_inf(a) => ~is_normal(a) /\ ~is_subnormal(a) /\ ~is_zero(a) /\ ~is_snan(a) /\ ~is_qnan(a)
        /\ is_normal(a) => ~is_inf(a) /\ ~is_subnormal(a) /\ ~is_zero(a) /\ ~is_snan(a) /\ ~is_qnan(a)
        /\ is_subnormal(a) => ~is_inf(a) /\ ~is_normal(a) /\ ~is_zero(a) /\ ~is_snan(a) /\ ~is_qnan(a)
        /\ is_zero(a) => ~is_inf(a) /\ ~is_normal(a) /\ ~is_subnormal(a) /\ ~is_snan(a) /\ ~is_qnan(a)
        /\ is_inf(a) \/ is_normal(a) \/ is_subnormal(a) \/ is_zero(a)
    BY <1>3, <2>1 DEF is_nan, is_inf, is_normal, is_subnormal, is_zero, is_qnan, is_snan
  <2>6. ASSUME NEW i \in 1..8, classes[i], \A j \in 1..8 : classes[j] => j = i PROVE c = i
    <3> DEFINE Is(j) == classes[j]
    <3>1. c = CHOOSE j \in 1..8 : Is(j)
      OBVIOUS
    <3>2. Is(i) /\ \A j \in 1..8 : Is(j) => j = i
      BY <2>6
    <3> HIDE DEF Is
    <3> QED BY <3>1, <3>2
  <2>7. /\ classes[1] <=> k = -top
        /\ classes[2] <=> -top < k /\ k <= -ONE
        /\ classes[3] <=> -ONE < k /\ k < 0
        /\ classes[4] <=> k = 0 /\ a.sign
        /\ classes[5] <=> k = 0 /\ ~a.sign
        /\ classes[6] <=> 0 < k /\ k < ONE
        /\ classes[7] <=> ONE <= k /\ k < top
        /\ classes[8] <=> k = top
    OBVIOUS
  <2> HIDE DEF classes, k, top, c
  <2>8. \A j \in 1..8 : j = 1 \/ j = 2 \/ j = 3 \/ j = 4 \/ j = 5 \/ j = 6 \/ j = 7 \/ j = 8
    OBVIOUS
  <2>22. /\ k \in Int /\ top \in Int /\ ONE \in Int
         /\ is_normal(a) /\ a.sign => -top < k /\ k <= -ONE
         /\ is_normal(a) /\ ~a.sign => ONE <= k /\ k < top
         /\ is_zero(a) => k = 0
    <3>1. \A n \in Int : -n = 0 - n
      OBVIOUS
    <3>2. \A n \in Nat : n = 0 => 0 - n = 0
      OBVIOUS
    <3>3. k = IF a.sign THEN 0 - Bits(a) ELSE Bits(a)
      BY <2>2, <3>1
    <3>4. is_zero(a) => k = 0
      BY <2>2, <3>2, <3>3
    <3> QED BY <2>1, <2>2, <2>3, <2>4, <3>4 DEF top
  <2>9. ASSUME is_inf(a), a.sign PROVE c = 1
    BY <2>1, <2>2, <2>4, <2>6, <2>7, <2>8, <2>22, <2>9
  <2>10. ASSUME is_normal(a), a.sign PROVE c = 2
    BY <2>1, <2>2, <2>4, <2>6, <2>7, <2>8, <2>22, <2>10
  <2>11. ASSUME is_subnormal(a), a.sign PROVE c = 3
    BY <2>1, <2>2, <2>4, <2>6, <2>7, <2>8, <2>22, <2>11
  <2>12. ASSUME is_zero(a), a.sign PROVE c = 4
    BY <2>1, <2>2, <2>4, <2>6, <2>7, <2>8, <2>22, <2>12
  <2>13. ASSUME is_zero(a), ~a.sign PROVE c = 5
    BY <2>1, <2>2, <2>4, <2>6, <2>7, <2>8, <2>22, <2>13
  <2>14. ASSUME is_subnormal(a), ~a.sign PROVE c = 6
    BY <2>1, <2>2, <2>4, <2>6, <2>7, <2>8, <2>22, <2>14
  <2>15. ASSUME is_normal(a), ~a.sign PROVE c = 7
    BY <2>1, <2>2, <2>4, <2>6, <2>7, <2>8, <2>22, <2>15
  <2>16. ASSUME is_inf(a), ~a.sign PROVE c = 8
    BY <2>1, <2>2, <2>4, <2>6, <2>7, <2>8, <2>22, <2>16
  <2>17. ref = 2^(c - 1)
    BY <1>1, <1>3
  <2>18. CASE is_inf(a)
    <3>1. class_result(a) = IF a.sign THEN 2^0 ELSE 2^7
      BY <2>5, <2>18 DEF class_result
    <3>2. c - 1 = IF a.sign THEN 0 ELSE 7
      BY <2>9, <2>16, <2>18
    <3>3. ref = IF a.sign THEN 2^0 ELSE 2^7
      BY <2>17, <3>2
    <3> QED BY <3>1, <3>3 DEF ref
  <2>19. CASE is_normal(a)
    <3>1. class_result(a) = IF a.sign THEN 2^1 ELSE 2^6
      BY <2>5, <2>19 DEF class_result
    <3>2. c - 1 = IF a.sign THEN 1 ELSE 6
      BY <2>10, <2>15, <2>19
    <3>3. ref = IF a.sign THEN 2^1 ELSE 2^6
      BY <2>17, <3>2
    <3> QED BY <3>1, <3>3 DEF ref
  <2>20. CASE is_subnormal(a)
    <3>1. class_result(a) = IF a.sign THEN 2^2 ELSE 2^5
      BY <2>5, <2>20 DEF class_result
    <3>2. c - 1 = IF a.sign THEN 2 ELSE 5
      BY <2>11, <2>14, <2>20
    <3>3. ref = IF a.sign THEN 2^2 ELSE 2^5
      BY <2>17, <3>2
    <3> QED BY <3>1, <3>3 DEF ref
  <2>21. CASE is_zero(a)
    <3>1. class_result(a) = IF a.sign THEN 2^3 ELSE 2^4
      BY <2>5, <2>21 DEF class_result
    <3>2. c - 1 = IF a.sign THEN 3 ELSE 4
      BY <2>12, <2>13, <2>21
    <3>3. ref = IF a.sign THEN 2^3 ELSE 2^4
      BY <2>17, <3>2
    <3> QED BY <3>1, <3>3 DEF ref
  <2> QED BY <2>5, <2>18, <2>19, <2>20, <2>21
<1> QED BY <1>2, <1>3

(* The value and the flags of every operation of the quick unit.            *)
LEMMA QuickAnswer ==
  ASSUME NEW op \in QuickOps, NEW a \in Floats, NEW b \in Floats
  PROVE  Quick(op, a, b) = Reference!RefQuick(op, a, b)
<1> DEFINE truth(p) == IF ~(is_nan(a) \/ is_nan(b)) /\ p THEN 1 ELSE 0
           nv(p)    == IF p THEN {"NV"} ELSE {}
           signal   == nv(is_snan(a) \/ is_snan(b))
           ref      == Reference!RefQuick(op, a, b)
           s        == Reference!Key(a)
           t        == Reference!Key(b)
<1>1. Reference!AnyNaN({a, b}) <=> is_nan(a) \/ is_nan(b)
  BY ReferenceFormat DEF Reference!AnyNaN
<1>2. /\ op = "FMIN_S" => ref = Answer(Reference!RefExtreme(a, b, TRUE), signal)
      /\ op = "FMAX_S" => ref = Answer(Reference!RefExtreme(a, b, FALSE), signal)
      /\ op = "FEQ_S" => ref = Answer(truth(s = t), signal)
      /\ op = "FLT_S" => ref = Answer(truth(s < t), nv(is_nan(a) \/ is_nan(b)))
      /\ op = "FLE_S" => ref = Answer(truth(s <= t), nv(is_nan(a) \/ is_nan(b)))
      /\ op = "FCLASS_S" => ref = Answer(Reference!RefClass(a), {})
      /\ op = "FSGNJ_S" => ref = Answer(Float(b.sign, a.exp, a.frac), {})
      /\ op = "FSGNJN_S" => ref = Answer(Float(~b.sign, a.exp, a.frac), {})
      /\ op = "FSGNJX_S" => ref = Answer(Float(a.sign # b.sign, a.exp, a.frac), {})
  BY <1>1, ReferenceFormat DEF Reference!RefQuick
<1>3. Quick(op, a, b) = Answer(fquick_result(op, a, b), fquick_fflags_final(op, a, b))
  BY DEF Quick
<1> HIDE DEF ref
<1>4. CASE op \in {"FMIN_S", "FMAX_S"}
  <2>1. PICK l \in BOOLEAN : l = (op = "FMIN_S")
    OBVIOUS
  <2>2. Extreme(a, b, l) = Reference!RefExtreme(a, b, l)
    BY ExtremeExact
  <2>3. fquick_fflags_final(op, a, b) = signal
    BY <1>4 DEF fquick_fflags_final, Raise
  <2>4. CASE op = "FMIN_S"
    <3>1. l = TRUE
      BY <2>1, <2>4
    <3>2. fquick_result(op, a, b) = Extreme(a, b, l)
      BY <2>4, <3>1 DEF fquick_result
    <3> QED BY <1>2, <1>3, <2>2, <2>3, <2>4, <3>1, <3>2 DEF ref
  <2>5. CASE op = "FMAX_S"
    <3>1. l = FALSE
      BY <2>1, <2>5
    <3>2. fquick_result(op, a, b) = Extreme(a, b, l)
      BY <2>5, <3>1 DEF fquick_result
    <3> QED BY <1>2, <1>3, <2>2, <2>3, <2>5, <3>1, <3>2 DEF ref
  <2> QED BY <1>4, <2>4, <2>5
<1>5. CASE op \in {"FEQ_S", "FLT_S", "FLE_S"}
  <2>1. fquick_fflags_final(op, a, b) = IF op = "FEQ_S" THEN signal ELSE nv(is_nan(a) \/ is_nan(b))
    BY <1>5 DEF fquick_fflags_final, Raise
  <2>2. ~is_nan(a) /\ ~is_nan(b) =>
          /\ less(a, b) <=> s < t
          /\ less(b, a) <=> t < s
          /\ s \in Int /\ t \in Int
    BY KeyOrder
  <2> HIDE DEF s, t
  <2>3. ~is_nan(a) /\ ~is_nan(b) =>
          /\ s = t <=> ~less(a, b) /\ ~less(b, a)
          /\ s <= t <=> ~less(b, a)
    BY <2>2
  <2>4. op = "FEQ_S" => fquick_result(op, a, b) = truth(s = t)
    BY <2>3 DEF fquick_result
  <2>5. op = "FLT_S" => fquick_result(op, a, b) = truth(s < t)
    BY <2>2 DEF fquick_result
  <2>6. op = "FLE_S" => fquick_result(op, a, b) = truth(s <= t)
    BY <2>2, <2>3 DEF fquick_result
  <2> HIDE DEF truth, nv, signal
  <2> QED BY <1>2, <1>3, <1>5, <2>1, <2>4, <2>5, <2>6 DEF ref
<1>6. CASE op = "FCLASS_S"
  <2>1. fquick_result(op, a, b) = Reference!RefClass(a) /\ fquick_fflags_final(op, a, b) = {}
    BY <1>6, ClassExact DEF fquick_result, fquick_fflags_final, Raise
  <2> QED BY <1>2, <1>3, <1>6, <2>1 DEF ref
<1>7. CASE op \in {"FSGNJ_S", "FSGNJN_S", "FSGNJX_S"}
  <2>1. a.sign \in BOOLEAN /\ b.sign \in BOOLEAN
    BY DEF Floats
  <2>2. fquick_fflags_final(op, a, b) = {}
    BY <1>7 DEF fquick_fflags_final, Raise
  <2>3. op = "FSGNJ_S" => fquick_result(op, a, b) = Float(b.sign, a.exp, a.frac)
    BY <2>1, SameFloat DEF fquick_result
  <2>4. op = "FSGNJN_S" => fquick_result(op, a, b) = Float(~b.sign, a.exp, a.frac)
    <3>1. PICK n \in BOOLEAN : n = ~b.sign
      OBVIOUS
    <3>2. op = "FSGNJN_S" => fquick_result(op, a, b) = [a EXCEPT !.sign = n]
      BY <3>1 DEF fquick_result
    <3>3. [a EXCEPT !.sign = n] = Float(n, a.exp, a.frac)
      BY SameFloat
    <3> QED BY <3>1, <3>2, <3>3
  <2>5. op = "FSGNJX_S" => fquick_result(op, a, b) = Float(a.sign # b.sign, a.exp, a.frac)
    <3>1. PICK n \in BOOLEAN : n = (a.sign # b.sign)
      OBVIOUS
    <3>2. op = "FSGNJX_S" => fquick_result(op, a, b) = [a EXCEPT !.sign = n]
      BY <3>1 DEF fquick_result
    <3>3. [a EXCEPT !.sign = n] = Float(n, a.exp, a.frac)
      BY SameFloat
    <3> QED BY <3>1, <3>2, <3>3
  <2> QED BY <1>2, <1>3, <1>7, <2>2, <2>3, <2>4, <2>5 DEF ref
<1> QED BY <1>4, <1>5, <1>6, <1>7 DEF QuickOps

(* The answer of fquick.v, with the NV of fpu.v:185-189, is that of the     *)
(* order of the numbers, whatever the operands.                             *)
THEOREM SpecQuickExact == Spec => []QuickExact
<1>1. Serves => QuickExact
  <2> SUFFICES ASSUME Serves, request.op \in QuickOps
               PROVE  Answered = Reference!RefQuick(request.op, request.a, request.b)
    BY DEF QuickExact, fquick_wb_valid
  <2>1. request \in Requests /\ request.op \notin FmaOps
    BY OpsDiffer DEF Serves, Ops
  <2>2. ~fma.p2.valid
    BY <2>1 DEF Serves, Stages, Empty
  <2>3. Answered = Quick(request.op, request.a, request.b)
    BY <2>2 DEF Answered, fquick_wb_valid
  <2> QED BY <2>1, <2>3, RequestFields, QuickAnswer
<1> QED BY <1>1, SpecServes, PTL
-----------------------------------------------------------------------------
(* Conversions                                                              *)

(* Quotient and remainder are what they are by one equation.                *)
Division(n, d, q, r) ==
  d \in Nat /\ d >= 1 /\ q \in Nat /\ r \in Nat /\ r < d /\ n = d * q + r

LEMMA DivisionIs ==
  ASSUME NEW n, NEW d, NEW q, NEW r, Division(n, d, q, r)
  PROVE  n \div d = q /\ n % d = r
<1>0. n \in Nat /\ d \in Nat /\ d >= 1 /\ q \in Nat /\ r \in Nat /\ r < d /\ n = d * q + r
  BY DEF Division
<1>1. d * (q + 1) = d * q + d /\ d * q \in Int /\ d * (q + 1) \in Int
  BY <1>0
<1>2. n >= d * q /\ ~(n >= d * (q + 1))
  BY <1>0, <1>1
<1>3. (n \div d >= q <=> n >= d * q) /\ (n \div d >= q + 1 <=> n >= d * (q + 1)) /\ n \div d \in Int
  BY <1>0, Threshold
<1>4. n \div d = q
  BY <1>0, <1>2, <1>3
<1>5. n % d = n - d * (n \div d)
  BY <1>0
<1> QED BY <1>0, <1>1, <1>4, <1>5

(* One more bit goes to the remainder.                                      *)
LEMMA OneBitMore ==
  ASSUME NEW n \in Nat, NEW k \in Nat
  PROVE  /\ 2^k \in Nat /\ 2^k >= 1 /\ 2^(k + 1) = 2 * 2^k
         /\ n % 2^k \in Nat /\ n % 2^k < 2^k
         /\ n % 2^(k + 1) = (IF Bit(n, k) THEN 2^k ELSE 0) + (n % 2^k)
<1>1. 2^k \in Nat /\ 2^k >= 1 /\ 2^(k + 1) = 2 * 2^k
  <2>1. k < k + 1 /\ k + 1 \in Nat
    OBVIOUS
  <2> QED BY <2>1, PowerOrder
<1> DEFINE p == 2^k
           q == n \div p
           b == q % 2
           h == q \div 2
           r == n % p
<1>2. p \in Nat /\ p >= 1 /\ q \in Nat /\ r \in Nat /\ r < p /\ n = p * q + r
  <2>1. p \in Nat /\ p >= 1
    BY <1>1
  <2> HIDE DEF p
  <2>2. q \in Int /\ q >= 0
    <3>1. n >= p * 0
      BY <2>1
    <3> QED BY <2>1, <3>1, Threshold
  <2> QED BY <2>1, <2>2
<1>3. b \in 0..1 /\ h \in Nat /\ q = 2 * h + b /\ (Bit(n, k) <=> b = 1)
  <2> HIDE DEF q
  <2>1. b \in 0..1 /\ h \in Nat /\ q = 2 * h + b
    BY <1>2
  <2> QED BY <2>1 DEF Bit, Odd, q, p
<1>4. 2^(k + 1) = 2 * p
  BY <1>1
<1> HIDE DEF p, q, b, h, r
<1>5. p * b \in Nat /\ p * b + r < 2 * p /\ p * b = IF b = 1 THEN p ELSE 0
  <2>1. CASE b = 0
    BY <1>2, <2>1
  <2>2. CASE b = 1
    BY <1>2, <2>2
  <2> QED BY <1>3, <2>1, <2>2
<1>6. n = (2 * p) * h + (p * b + r)
  <2>1. p * (2 * h + b) = (2 * p) * h + p * b
    BY <1>2, <1>3
  <2>2. (2 * p) * h \in Int
    BY <1>2, <1>3
  <2> QED BY <1>2, <1>3, <1>5, <2>1, <2>2
<1>7. n % (2 * p) = p * b + r
  <2> DEFINE d == 2 * p
             s == p * b + r
  <2>1. d \in Nat /\ d >= 1 /\ s \in Nat /\ s < d /\ n = d * h + s
    BY <1>2, <1>3, <1>5, <1>6
  <2> HIDE DEF d, s
  <2>2. n % d = s
    <3>1. Division(n, d, h, s)
      BY <1>3, <2>1 DEF Division
    <3> QED BY <3>1, DivisionIs
  <2> QED BY <2>2 DEF d, s
<1>8. p * b + r = (IF Bit(n, k) THEN p ELSE 0) + r
  BY <1>3, <1>5
<1> QED BY <1>1, <1>2, <1>4, <1>7, <1>8 DEF p, r

(* What rounding up means for a remainder r < 2 * h of a division by 2 * h. *)
LeavesBits(n, h, g, ro, st) ==
  \E lo \in 0..h - 1 : n % (2 * h) = (IF g THEN h ELSE 0) + lo /\ (ro \/ st <=> lo # 0)

LEMMA RoundUpIs ==
  ASSUME NEW rm \in RoundingModes, NEW neg \in BOOLEAN, NEW n \in Nat, NEW h \in Nat, h >= 1,
         NEW g \in BOOLEAN, NEW ro \in BOOLEAN, NEW st \in BOOLEAN, LeavesBits(n, h, g, ro, st)
  PROVE  LET below == n \div (2 * h)
         IN  /\ Reference!RoundQuotient(rm, neg, n, 2 * h) =
                  IF round_up(rm, neg, Odd(below), g, ro, st) THEN below + 1 ELSE below
             /\ inexact(g, ro, st) <=> n % (2 * h) # 0
<1> DEFINE below == n \div (2 * h)
           rest  == 2 * (n % (2 * h))
<1>0. PICK lo \in 0..h - 1 : n % (2 * h) = (IF g THEN h ELSE 0) + lo /\ (ro \/ st <=> lo # 0)
  BY DEF LeavesBits
<1>1. /\ rest > 2 * h <=> g /\ (ro \/ st)
      /\ rest = 2 * h <=> g /\ ~(ro \/ st)
      /\ rest >= 2 * h <=> g
      /\ rest > 0 <=> g \/ ro \/ st
      /\ n % (2 * h) # 0 <=> g \/ ro \/ st
  <2>1. CASE g
    BY <1>0, <2>1
  <2>2. CASE ~g
    BY <1>0, <2>2
  <2> QED BY <2>1, <2>2
<1>2. Reference!RoundQuotient(rm, neg, n, 2 * h) =
        IF (CASE rm = "RNE" -> rest > 2 * h \/ (rest = 2 * h /\ Odd(below))
              [] rm = "RMM" -> rest >= 2 * h
              [] rm = "RTZ" -> FALSE
              [] rm = "RDN" -> neg /\ rest > 0
              [] rm = "RUP" -> ~neg /\ rest > 0)
        THEN below + 1 ELSE below
  BY ReferenceFormat DEF Reference!RoundQuotient
<1>3. inexact(g, ro, st) <=> n % (2 * h) # 0
  BY <1>1 DEF inexact
<1> HIDE DEF below, rest
<1>4. Reference!RoundQuotient(rm, neg, n, 2 * h) =
        IF round_up(rm, neg, Odd(below), g, ro, st) THEN below + 1 ELSE below
  <2>1. CASE rm = "RNE"
    BY <1>1, <1>2, <2>1 DEF round_up
  <2>2. CASE rm = "RMM"
    BY <1>1, <1>2, <2>2 DEF round_up
  <2>3. CASE rm = "RTZ"
    BY <1>1, <1>2, <2>3 DEF round_up
  <2>4. CASE rm = "RDN"
    BY <1>1, <1>2, <2>4 DEF round_up
  <2>5. CASE rm = "RUP"
    BY <1>1, <1>2, <2>5 DEF round_up
  <2> QED BY <2>1, <2>2, <2>3, <2>4, <2>5 DEF RoundingModes
<1> QED BY <1>3, <1>4 DEF below

(* The guard, round and sticky bits of a shift say all that rounding asks   *)
(* of the bits that leave.                                                  *)
LEMMA ShiftRounds ==
  ASSUME NEW rm \in RoundingModes, NEW neg \in BOOLEAN, NEW n \in Nat, NEW rs \in Nat, rs >= 1
  PROVE  /\ RoundedUp(rm, neg, Shifted(n, rs)) = Reference!RoundQuotient(rm, neg, n, 2^rs)
         /\ Inexact(Shifted(n, rs)) <=> n % 2^rs # 0
<1> DEFINE x  == Shifted(n, rs)
           lo == n % 2^(rs - 1)
<1>1. /\ x.mag = n \div 2^rs
      /\ x.guard = Bit(n, rs - 1)
      /\ x.round <=> rs >= 2 /\ Bit(n, rs - 2)
      /\ x.sticky <=> rs >= 3 /\ Low(n, rs - 2)
      /\ x.guard \in BOOLEAN /\ x.round \in BOOLEAN /\ x.sticky \in BOOLEAN
  BY DEF Shifted, Bit, Odd, Low
<1> HIDE DEF x
<1>2. /\ 2^(rs - 1) \in Nat /\ 2^(rs - 1) >= 1 /\ 2^rs = 2 * 2^(rs - 1)
      /\ lo \in Nat /\ lo < 2^(rs - 1)
      /\ n % 2^rs = (IF Bit(n, rs - 1) THEN 2^(rs - 1) ELSE 0) + lo
  <2>1. rs - 1 \in Nat /\ (rs - 1) + 1 = rs
    OBVIOUS
  <2> QED BY <2>1, OneBitMore
<1>3. x.round \/ x.sticky <=> lo # 0
  <2>1. CASE rs = 1
    <3>1. 2^(rs - 1) = 1
      BY <2>1
    <3> QED BY <1>1, <1>2, <2>1, <3>1
  <2>2. CASE rs >= 2
    <3>1. rs - 2 \in Nat /\ (rs - 2) + 1 = rs - 1
      <4>1. FRAC \in Nat /\ BIAS \in Nat
        BY Formats
      <4> QED BY <2>2, <4>1
    <3>2. /\ 2^(rs - 2) \in Nat /\ 2^(rs - 2) >= 1
          /\ n % 2^(rs - 2) \in Nat
          /\ lo = (IF Bit(n, rs - 2) THEN 2^(rs - 2) ELSE 0) + (n % 2^(rs - 2))
      BY <3>1, OneBitMore
    <3>3. rs = 2 => n % 2^(rs - 2) = 0
      <4>1. rs = 2 => 2^(rs - 2) = 1
        OBVIOUS
      <4> QED BY <4>1
    <3>4. x.sticky <=> n % 2^(rs - 2) # 0
      BY <1>1, <2>2, <3>3 DEF Low
    <3>5. x.round <=> Bit(n, rs - 2)
      BY <1>1, <2>2
    <3> HIDE DEF lo
    <3> QED BY <3>2, <3>4, <3>5
  <2> QED BY <2>1, <2>2
<1> HIDE DEF lo
<1> DEFINE h == 2^(rs - 1)
<1>4. /\ Reference!RoundQuotient(rm, neg, n, 2 * h) =
           IF round_up(rm, neg, Odd(n \div (2 * h)), x.guard, x.round, x.sticky)
           THEN n \div (2 * h) + 1 ELSE n \div (2 * h)
      /\ inexact(x.guard, x.round, x.sticky) <=> n % (2 * h) # 0
  <2>1. h \in Nat /\ h >= 1 /\ n % (2 * h) = (IF x.guard THEN h ELSE 0) + lo /\ lo < h /\ lo \in Nat
    BY <1>1, <1>2
  <2> HIDE DEF h
  <2>2. LeavesBits(n, h, x.guard, x.round, x.sticky)
    BY <1>3, <2>1 DEF LeavesBits
  <2> QED BY <1>1, <2>1, <2>2, RoundUpIs
<1>5. 2 * h = 2^rs
  BY <1>2
<1> HIDE DEF h
<1> QED BY <1>1, <1>4, <1>5 DEF RoundedUp, Inexact, x

(* The reference rounds N / D, the fraction in units of 2^q.                *)
InUnitsOf(num, den, k, q, N, D) ==
  /\ N = IF k >= q THEN num * 2^(k - q) ELSE num
  /\ D = IF k >= q THEN den ELSE den * 2^(q - k)

LEMMA UnitsRounded ==
  ASSUME NEW rm, NEW neg, NEW num, NEW den, NEW k, NEW q, NEW N, NEW D,
         InUnitsOf(num, den, k, q, N, D), ~(num > 0 /\ Reference!Log2(num, den) + k < q - 1)
  PROVE  Reference!InUnits(rm, neg, num, den, k, q) = Reference!RoundQuotient(rm, neg, N, D)
<1>1. CASE k >= q
  <2>1. N = num * Reference!Pow2(k - q) /\ D = den
    BY <1>1 DEF InUnitsOf, Reference!Pow2
  <2> QED BY <1>1, <2>1 DEF Reference!InUnits
<1>2. CASE ~(k >= q)
  <2>1. N = num /\ D = den * Reference!Pow2(q - k)
    BY <1>2 DEF InUnitsOf, Reference!Pow2
  <2> QED BY <1>2, <2>1 DEF Reference!InUnits
<1> QED BY <1>1, <1>2

(* A quotient is rounded to one of its two neighbours, in every direction   *)
(* to itself only when it is whole.                                         *)
LEMMA RoundNeighbour ==
  ASSUME NEW rm \in RoundingModes, NEW neg \in BOOLEAN, NEW N \in Nat, NEW D \in Nat, D >= 1
  PROVE  LET m(r, s) == Reference!RoundQuotient(r, s, N, D)
         IN  /\ N \div D \in Nat /\ D * (N \div D) <= N /\ N < D * (N \div D + 1)
             /\ m(rm, neg) \in {N \div D, N \div D + 1}
             /\ N % D = 0 <=> m("RUP", FALSE) = m("RTZ", FALSE)
             /\ N % D = 0 <=> m(rm, neg) = m("RTZ", FALSE) /\ m(rm, neg) = m("RUP", FALSE)
<1> DEFINE b == N \div D
           m == Reference!RoundQuotient(rm, neg, N, D)
<1>1. b \in Nat /\ N % D \in Nat /\ D * b <= N /\ N < D * (b + 1)
  <2>1. N \div D \in Int /\ D * (N \div D) <= N /\ N < D * (N \div D + 1)
    OBVIOUS
  <2>2. N \div D >= 0
    <3>1. N >= D * 0
      OBVIOUS
    <3> QED BY <3>1, Threshold
  <2> QED BY <2>1, <2>2
<1>2. Reference!RoundQuotient("RTZ", FALSE, N, D) = b
  BY DEF Reference!RoundQuotient
<1>3. Reference!RoundQuotient("RUP", FALSE, N, D) = IF 2 * (N % D) > 0 THEN b + 1 ELSE b
  BY DEF Reference!RoundQuotient
<1>4. m \in {b, b + 1}
  <2>1. \E c : m = IF c THEN b + 1 ELSE b
    BY DEF Reference!RoundQuotient
  <2> QED BY <2>1
<1>5. N % D = 0 => m = b
  <2>1. N % D = 0 => m = N \div D
    BY RoundWhole
  <2> QED BY <2>1
<1> HIDE DEF b, m
<1>6. N % D = 0 <=> m = b /\ m = (IF 2 * (N % D) > 0 THEN b + 1 ELSE b)
  BY <1>1, <1>4, <1>5
<1>7. N % D = 0 <=> b = (IF 2 * (N % D) > 0 THEN b + 1 ELSE b)
  BY <1>1
<1> QED BY <1>1, <1>2, <1>3, <1>4, <1>6, <1>7 DEF b, m

(* A number with an exponent of the format is rounded to FRAC + 1 bits.     *)
LEMMA RoundsNormally ==
  ASSUME NEW rm \in RoundingModes, NEW neg \in BOOLEAN, NEW num, NEW den, NEW k, NEW e \in Int,
         Reference!Log2(num, den) + k = e, EMIN <= e,
         NEW N \in Nat, NEW D \in Nat, D >= 1, InUnitsOf(num, den, k, e - FRAC, N, D),
         ONE * D <= N, N < (2 * ONE) * D
  PROVE  LET m  == Reference!RoundQuotient(rm, neg, N, D)
             up == IF m = 2 * ONE THEN 1 ELSE 0
         IN  /\ m \in ONE..2 * ONE
             /\ Reference!Rounded(rm, neg, num, den, k) =
                  IF e + up > EMAX THEN Overflowed(rm, neg)
                  ELSE Answer(Float(neg, e + up + BIAS, m % ONE), IF N % D = 0 THEN {} ELSE {"NX"})
<1> DEFINE m  == Reference!RoundQuotient(rm, neg, N, D)
           up == IF m = 2 * ONE THEN 1 ELSE 0
           E  == Reference!Log2(num, den) + k
           q  == (IF E < EMIN THEN EMIN ELSE E) - FRAC
           mm == Reference!InUnits(rm, neg, num, den, k, q)
<1>1. /\ ONE \in Nat /\ ONE >= 8 /\ FRAC \in Nat /\ BIAS \in Nat /\ EMIN \in Int /\ EMAX \in Int
  BY Formats DEF EMIN, EMAX
<1>2. E = e /\ ~(E < EMIN) /\ q = e - FRAC
  BY <1>1
<1>3. \A r, s : Reference!InUnits(r, s, num, den, k, q) = Reference!RoundQuotient(r, s, N, D)
  <2>1. ~(Reference!Log2(num, den) + k < q - 1)
    BY <1>1, <1>2
  <2>2. InUnitsOf(num, den, k, q, N, D)
    BY <1>2
  <2> HIDE DEF q
  <2> TAKE r, s
  <2> QED BY <2>1, <2>2, UnitsRounded
<1>4. mm = m
  BY <1>3
<1> HIDE DEF mm, q, E
<1>5. /\ N \div D \in Nat /\ D * (N \div D) <= N /\ N < D * (N \div D + 1)
      /\ m \in {N \div D, N \div D + 1}
      /\ N % D = 0 <=> m = Reference!RoundQuotient("RTZ", FALSE, N, D) /\ m = Reference!RoundQuotient("RUP", FALSE, N, D)
  BY RoundNeighbour
<1>6. N \div D >= ONE /\ ~(N \div D >= 2 * ONE)
  <2>1. N >= D * ONE /\ ~(N >= D * (2 * ONE))
    BY <1>1
  <2>2. (N \div D >= ONE <=> N >= D * ONE) /\ (N \div D >= 2 * ONE <=> N >= D * (2 * ONE))
    BY <1>1, Threshold
  <2> QED BY <2>1, <2>2
<1>7. m \in ONE..2 * ONE
  <2>1. N \div D \in ONE..2 * ONE - 1
    BY <1>1, <1>5, <1>6
  <2> HIDE DEF m
  <2> QED BY <1>1, <1>5, <2>1
<1> DEFINE exact == m = Reference!RoundQuotient("RTZ", FALSE, N, D) /\ m = Reference!RoundQuotient("RUP", FALSE, N, D)
           inf == CASE rm \in {"RNE", "RMM"} -> TRUE [] rm = "RTZ" -> FALSE
                    [] rm = "RDN" -> neg [] rm = "RUP" -> ~neg
           tiny == E < EMIN /\ ~(E = EMIN - 1 /\ Reference!InUnits(rm, neg, num, den, k, E - FRAC) = 2 * ONE)
<1>8. exact <=> N % D = 0
  BY <1>5
<1>9. m \div (2 * ONE) = up /\ ~(m < ONE) /\ m % ONE = (IF m = 2 * ONE THEN 0 ELSE m - ONE) /\ up \in 0..1
  <2> HIDE DEF m
  <2>1. CASE m = 2 * ONE
    <3>1. Division(m, 2 * ONE, up, 0) /\ Division(m, ONE, 2, 0)
      BY <1>1, <2>1 DEF Division
    <3>2. m \div (2 * ONE) = up /\ m % ONE = 0
      BY <3>1, DivisionIs
    <3> QED BY <1>1, <1>7, <2>1, <3>2
  <2>2. CASE m # 2 * ONE
    <3>1. Division(m, 2 * ONE, up, m) /\ Division(m, ONE, 1, m - ONE)
      BY <1>1, <1>7, <2>2 DEF Division
    <3>2. m \div (2 * ONE) = up /\ m % ONE = m - ONE
      BY <3>1, DivisionIs
    <3> QED BY <1>1, <1>7, <2>2, <3>2
  <2> QED BY <2>1, <2>2
<1> HIDE DEF m, up
<1>10. Reference!Rounded(rm, neg, num, den, k) =
         LET exp == q + FRAC + m \div (2 * ONE)
             value == IF m < ONE THEN Float(neg, 0, m)
                      ELSE Float(neg, exp + BIAS, IF m = 2 * ONE THEN 0 ELSE m - ONE)
         IN IF exp > EMAX
            THEN Answer(IF inf THEN Inf(neg) ELSE MaxFinite(neg), {"OF", "NX"})
            ELSE Answer(value, IF exact THEN {} ELSE IF tiny THEN {"NX", "UF"} ELSE {"NX"})
  <2>1. Reference!InUnits("RTZ", FALSE, num, den, k, q) = Reference!RoundQuotient("RTZ", FALSE, N, D)
        /\ Reference!InUnits("RUP", FALSE, num, den, k, q) = Reference!RoundQuotient("RUP", FALSE, N, D)
    BY <1>3
  <2> QED BY <1>4, <2>1, ReferenceFormat DEF Reference!Rounded, E, q, mm, Answer
<1>11. ~tiny
  BY <1>2
<1>12. Answer(IF inf THEN Inf(neg) ELSE MaxFinite(neg), {"OF", "NX"}) = Overflowed(rm, neg)
  BY DEF Overflowed, RoundingModes
<1> HIDE DEF exact, tiny, inf
<1>13. q + FRAC + m \div (2 * ONE) = e + up
  BY <1>1, <1>2, <1>9
<1>14. Reference!Rounded(rm, neg, num, den, k) =
         IF e + up > EMAX THEN Overflowed(rm, neg)
         ELSE Answer(Float(neg, e + up + BIAS, m % ONE), IF N % D = 0 THEN {} ELSE {"NX"})
  BY <1>8, <1>9, <1>10, <1>11, <1>12, <1>13
<1> QED BY <1>7, <1>14 DEF m, up

(* The exponent of a whole number is the place of its leading bit.          *)
LEMMA LogWhole ==
  ASSUME NEW n \in Nat, NEW j \in Nat, 2^j <= n, n < 2^(j + 1), j <= 4 * (FRAC + BIAS)
  PROVE  Reference!Log2(n, 1) = j
<1>1. Msb(n) = j
  BY LeadingBit
<1>2. Msb(1) = 0
  <2>1. PICK z \in Nat : z = 0
    OBVIOUS
  <2>2. FRAC \in Nat /\ BIAS \in Nat
    BY Formats
  <2>3. 2^z <= 1 /\ 1 < 2^(z + 1) /\ z <= 4 * (FRAC + BIAS)
    BY <2>1, <2>2
  <2> QED BY <2>1, <2>3, LeadingBit
<1>3. Reference!Msb(n) - Reference!Msb(1) = j
  <2>1. Reference!Msb(n) = Msb(n) /\ Reference!Msb(1) = Msb(1)
    BY ReferenceFormat
  <2> QED BY <1>1, <1>2, <2>1
<1>4. 2^j \in Nat
  BY Powers
<1>5. n >= 1 * 2^j
  BY <1>4
<1> QED BY <1>3, <1>5 DEF Reference!Log2, Reference!Pow2

(* The units of a finite number and the exponent its decoder finds.         *)
LEMMA UnitsLog ==
  ASSUME NEW x, finite(x)
  PROVE  /\ Reference!Units(x) \in Nat /\ Reference!Units(x) >= 1
         /\ Reference!Last(x) \in Int /\ decode(x).exp \in Int
         /\ Reference!Log2(Reference!Units(x), 1) + Reference!Last(x) = decode(x).exp
<1> DEFINE o == decode(x)
           U == Reference!Units(x)
           L == Reference!Last(x)
<1>1. /\ FRAC \in Nat /\ FRAC >= 3 /\ BIAS \in Nat /\ BIAS > FRAC /\ ONE \in Nat /\ ONE >= 8 /\ 2^FRAC = ONE
  BY Formats DEF ONE
<1>2. PICK z \in 0..FRAC : Normalises(x, o, z)
  BY DecodedFinite
<1>3. U \in Nat /\ L \in Int
  <2>1. x.frac \in Nat /\ x.exp \in Int /\ EMIN \in Int
    BY <1>1 DEF finite, Floats, EMIN
  <2> QED BY <1>1, <2>1, ReferenceFormat DEF Reference!Units, Reference!Last
<1>4. o.sig = U * 2^z /\ o.sig >= ONE /\ o.sig < 2 * ONE /\ o.exp - FRAC = L - z /\ o.sig \in Nat /\ o.exp \in Int
  BY <1>1, <1>2 DEF Normalises
<1> HIDE DEF o, U, L
<1> DEFINE j == FRAC - z
<1>5. j \in Nat /\ j + 1 \in Nat /\ j <= 4 * (FRAC + BIAS) /\ z \in Nat
  BY <1>1
<1>6. 2^j * 2^z = ONE /\ 2^(j + 1) * 2^z = 2 * ONE /\ 2^j \in Nat /\ 2^(j + 1) \in Nat /\ 2^z \in Nat /\ 2^z >= 1
  <2>1. 2^(j + z) = 2^j * 2^z
    BY <1>5, PowerSum
  <2>2. j + z = FRAC
    BY <1>1
  <2>3. 2^(j + 1) = 2 * 2^j /\ 2^j \in Nat
    <3>1. j < j + 1
      BY <1>5
    <3> QED BY <1>5, <3>1, PowerOrder
  <2>4. 2^z \in Nat /\ 2^z >= 1
    <3>1. z \in 0..4 * FRAC + BIAS + 1
      BY <1>1
    <3> QED BY <3>1, Powers
  <2> HIDE DEF j
  <2>5. (2 * 2^j) * 2^z = 2 * (2^j * 2^z)
    BY <2>3, <2>4
  <2> QED BY <1>1, <2>1, <2>2, <2>3, <2>4, <2>5
<1>7. j + L = o.exp
  <2>1. L - z = o.exp - FRAC
    BY <1>4
  <2> QED BY <1>1, <1>3, <1>4, <2>1
<1> HIDE DEF j
<1>8. 2^j <= U /\ U < 2^(j + 1)
  <2>1. ASSUME U < 2^j PROVE FALSE
    <3>1. U * 2^z <= (2^j - 1) * 2^z /\ (2^j - 1) * 2^z = 2^j * 2^z - 2^z
      BY <1>3, <1>6, <2>1
    <3> QED BY <1>1, <1>3, <1>4, <1>6, <3>1
  <2>2. ASSUME U >= 2^(j + 1) PROVE FALSE
    <3>1. U * 2^z >= 2^(j + 1) * 2^z
      BY <1>3, <1>6, <2>2
    <3> QED BY <1>1, <1>4, <1>6, <3>1
  <2> QED BY <1>3, <1>6, <2>1, <2>2
<1>9. Reference!Log2(U, 1) = j
  BY <1>3, <1>5, <1>8, LogWhole
<1>10. U >= 1
  <2>1. 2^j >= 1
    BY <1>6, <1>1
  <2> QED BY <1>3, <1>6, <1>8, <2>1
<1> QED BY <1>3, <1>4, <1>7, <1>9, <1>10 DEF o, U, L

(* A whole number is not rounded.                                           *)
LEMMA NothingToRound ==
  ASSUME NEW rm \in RoundingModes, NEW neg \in BOOLEAN, NEW n \in Nat, NEW x,
         x = [mag |-> n, guard |-> FALSE, round |-> FALSE, sticky |-> FALSE]
  PROVE  RoundedUp(rm, neg, x) = n /\ ~Inexact(x) /\ Reference!RoundQuotient(rm, neg, n, 1) = n
<1>1. ~round_up(rm, neg, Odd(n), FALSE, FALSE, FALSE) /\ ~inexact(FALSE, FALSE, FALSE)
  BY DEF round_up, inexact, RoundingModes
<1>2. n % 1 = 0 /\ n \div 1 = n
  OBVIOUS
<1>3. Reference!RoundQuotient(rm, neg, n, 1) = n
  BY <1>2, RoundWhole
<1> QED BY <1>1, <1>3 DEF RoundedUp, Inexact

(* What is below half a unit.                                               *)
LEMMA QuarterRounds ==
  ASSUME NEW rm \in RoundingModes, NEW neg \in BOOLEAN
  PROVE  Reference!RoundQuotient(rm, neg, 1, 4) = IF round_up(rm, neg, FALSE, FALSE, FALSE, TRUE) THEN 1 ELSE 0
<1>1. 1 \div 4 = 0 /\ 2 * (1 % 4) = 2 /\ ~(2 > 4) /\ 2 # 4 /\ ~(2 >= 4) /\ 2 > 0 /\ 0 + 1 = 1
  OBVIOUS
<1>2. Reference!RoundQuotient(rm, neg, 1, 4) =
        IF (CASE rm = "RNE" -> 2 > 4 \/ (2 = 4 /\ Odd(0))
              [] rm = "RMM" -> 2 >= 4
              [] rm = "RTZ" -> FALSE
              [] rm = "RDN" -> neg /\ 2 > 0
              [] rm = "RUP" -> ~neg /\ 2 > 0)
        THEN 0 + 1 ELSE 0
  BY <1>1, ReferenceFormat DEF Reference!RoundQuotient
<1>3. CASE rm = "RNE"
  BY <1>1, <1>2, <1>3 DEF round_up
<1>4. CASE rm = "RMM"
  BY <1>1, <1>2, <1>4 DEF round_up
<1>5. CASE rm = "RTZ"
  BY <1>1, <1>2, <1>5 DEF round_up
<1>6. CASE rm = "RDN"
  BY <1>1, <1>2, <1>6 DEF round_up
<1>7. CASE rm = "RUP"
  BY <1>1, <1>2, <1>7 DEF round_up
<1> QED BY <1>3, <1>4, <1>5, <1>6, <1>7 DEF RoundingModes

(* The integer nearest to a finite number below 2^(2 * XLEN).               *)
LEMMA IntegerPart ==
  ASSUME NEW rm \in RoundingModes, NEW neg \in BOOLEAN, NEW a, finite(a), decode(a).exp < 2 * XLEN
  PROVE  LET M(r, s) == Reference!InUnits(r, s, Reference!Units(a), 1, Reference!Last(a), 0)
             x == f2i(decode(a))
         IN  /\ RoundedUp(rm, neg, x) = M(rm, neg) /\ M(rm, neg) \in Nat
             /\ Inexact(x) <=> M("RUP", FALSE) # M("RTZ", FALSE)
<1> DEFINE o == decode(a)
           U == Reference!Units(a)
           L == Reference!Last(a)
           x == f2i(o)
           M(r, s) == Reference!InUnits(r, s, U, 1, L, 0)
           Goal == /\ RoundedUp(rm, neg, x) = M(rm, neg) /\ M(rm, neg) \in Nat
                   /\ Inexact(x) <=> M("RUP", FALSE) # M("RTZ", FALSE)
<1>0. SUFFICES Goal
  OBVIOUS
<1> HIDE DEF Goal
<1>1. /\ FRAC \in Nat /\ FRAC >= 3 /\ BIAS \in Nat /\ BIAS > FRAC /\ ONE \in Nat /\ ONE >= 8 /\ 2^FRAC = ONE
      /\ XLEN \in Nat /\ XLEN > FRAC /\ XLEN <= BIAS
  BY Formats, WordAssumption DEF ONE, EMAX
<1>2. PICK z \in 0..FRAC : Normalises(a, o, z)
  BY DecodedFinite
<1>3. U \in Nat /\ U >= 1 /\ L \in Int /\ o.exp \in Int /\ Reference!Log2(U, 1) + L = o.exp
  BY UnitsLog
<1>4. /\ o.sig = U * 2^z /\ o.sig \in ONE..2 * ONE - 1 /\ o.sig \in Nat /\ o.exp - FRAC = L - z
      /\ o.exp >= 1 - BIAS - FRAC /\ o.exp <= BIAS
      /\ z # 0 => a.exp = 0
  BY <1>1, <1>2 DEF Normalises
<1>5. o.exp >= -1 => z = 0 /\ o.sig = U /\ L = o.exp - FRAC
  <2>1. SUFFICES ASSUME o.exp >= -1 PROVE z = 0 /\ o.sig = U /\ L = o.exp - FRAC
    OBVIOUS
  <2>2. a.exp # 0
    <3>1. SUFFICES ASSUME a.exp = 0 PROVE FALSE
      OBVIOUS
    <3>2. L = (1 - BIAS) - FRAC
      BY <3>1, ReferenceFormat DEF Reference!Last, EMIN
    <3> QED BY <1>1, <1>3, <1>4, <2>1, <3>2
  <2>3. z = 0 /\ 2^z = 1
    <3>1. z = 0
      BY <1>4, <2>2
    <3>2. 2^0 = 1
      OBVIOUS
    <3> QED BY <3>1, <3>2
  <2> HIDE DEF o, U, L
  <2> QED BY <1>3, <1>4, <2>3
<1>6. o.exp < 2 * XLEN
  OBVIOUS
<1> HIDE DEF o, U, L
<1>7. CASE o.exp < -1
  <2>1. \A r, s : M(r, s) = Reference!RoundQuotient(r, s, 1, 4)
    BY <1>3, <1>7 DEF Reference!InUnits
  <2>2. x = [mag |-> 0, guard |-> FALSE, round |-> FALSE, sticky |-> TRUE]
    <3>1. ~(o.exp > 2 * XLEN + FRAC - 1) /\ ~(o.exp >= FRAC) /\ FRAC - o.exp > FRAC + 1
      BY <1>1, <1>3, <1>7
    <3> QED BY <3>1 DEF f2i
  <2>3. /\ M(rm, neg) = Reference!RoundQuotient(rm, neg, 1, 4)
        /\ M("RTZ", FALSE) = Reference!RoundQuotient("RTZ", FALSE, 1, 4)
        /\ M("RUP", FALSE) = Reference!RoundQuotient("RUP", FALSE, 1, 4)
    BY <2>1
  <2> HIDE DEF x, M
  <2>4. Inexact(x) /\ RoundedUp(rm, neg, x) = IF round_up(rm, neg, FALSE, FALSE, FALSE, TRUE) THEN 1 ELSE 0
    <3>1. x.mag = 0 /\ x.guard = FALSE /\ x.round = FALSE /\ x.sticky = TRUE
      BY <2>2
    <3>2. Odd(0) = FALSE
      BY DEF Odd
    <3>3. RoundedUp(rm, neg, x) = IF round_up(rm, neg, FALSE, FALSE, FALSE, TRUE) THEN 0 + 1 ELSE 0
      BY <3>1, <3>2, Zenon DEF RoundedUp
    <3>4. Inexact(x)
      BY <3>1 DEF Inexact, inexact
    <3> QED BY <3>3, <3>4
  <2>5. RoundedUp(rm, neg, x) = M(rm, neg) /\ M(rm, neg) \in Nat /\ M("RUP", FALSE) # M("RTZ", FALSE)
    <3>1. "RUP" \in RoundingModes /\ "RTZ" \in RoundingModes
      BY DEF RoundingModes
    <3>2. /\ M("RUP", FALSE) = IF round_up("RUP", FALSE, FALSE, FALSE, FALSE, TRUE) THEN 1 ELSE 0
          /\ M("RTZ", FALSE) = IF round_up("RTZ", FALSE, FALSE, FALSE, FALSE, TRUE) THEN 1 ELSE 0
          /\ M(rm, neg) = IF round_up(rm, neg, FALSE, FALSE, FALSE, TRUE) THEN 1 ELSE 0
      BY <2>3, <3>1, QuarterRounds
    <3>3. round_up("RUP", FALSE, FALSE, FALSE, FALSE, TRUE) /\ ~round_up("RTZ", FALSE, FALSE, FALSE, FALSE, TRUE)
      BY DEF round_up
    <3>4. M("RUP", FALSE) = 1 /\ M("RTZ", FALSE) = 0
      BY <3>2, <3>3
    <3>5. RoundedUp(rm, neg, x) = M(rm, neg)
      BY <2>4, <3>2
    <3>6. M(rm, neg) \in Nat
      BY <3>2
    <3>7. M("RUP", FALSE) # M("RTZ", FALSE)
      <4>1. 1 # 0
        OBVIOUS
      <4> QED BY <3>4, <4>1, Zenon
    <3> QED BY <3>5, <3>6, <3>7
  <2> QED BY <2>4, <2>5 DEF Goal
<1>8. CASE o.exp >= -1 /\ o.exp < FRAC
  <2> DEFINE rs == FRAC - o.exp
             D  == 2^rs
  <2>1. rs \in Nat /\ rs >= 1 /\ rs <= FRAC + 1 /\ L = -rs /\ o.sig = U
    BY <1>1, <1>3, <1>5, <1>8
  <2>2. x = Shifted(U, rs)
    <3>1. ~(o.exp > 2 * XLEN + FRAC - 1) /\ ~(o.exp >= FRAC) /\ ~(rs > FRAC + 1)
      BY <1>1, <1>3, <1>8
    <3> QED BY <2>1, <3>1 DEF f2i
  <2>3. D \in Nat /\ D >= 1
    <3>1. rs \in 0..4 * FRAC + BIAS + 1
      BY <1>1, <2>1
    <3> HIDE DEF rs
    <3> QED BY <3>1, Powers
  <2>4. InUnitsOf(U, 1, L, 0, U, D)
    <3>1. ~(L >= 0) /\ 0 - L = rs /\ 1 * 2^rs = D
      BY <2>1, <2>3
    <3> HIDE DEF rs, D
    <3> QED BY <3>1 DEF InUnitsOf
  <2>5. ~(U > 0 /\ Reference!Log2(U, 1) + L < 0 - 1)
    BY <1>3, <1>8
  <2> HIDE DEF x
  <2>6. \A r, s : M(r, s) = Reference!RoundQuotient(r, s, U, D)
    <3> TAKE r, s
    <3> HIDE DEF D, rs
    <3> QED BY <2>4, <2>5, UnitsRounded
  <2>7. RoundedUp(rm, neg, x) = Reference!RoundQuotient(rm, neg, U, D) /\ (Inexact(x) <=> U % D # 0)
    BY <1>3, <2>1, <2>2, ShiftRounds
  <2> HIDE DEF M, D
  <2>8. /\ U % D = 0 <=> M("RUP", FALSE) = M("RTZ", FALSE)
        /\ Reference!RoundQuotient(rm, neg, U, D) \in {U \div D, U \div D + 1} /\ U \div D \in Nat
    BY <1>3, <2>3, <2>6, RoundNeighbour
  <2>9. RoundedUp(rm, neg, x) = M(rm, neg) /\ M(rm, neg) \in Nat /\ (Inexact(x) <=> M("RUP", FALSE) # M("RTZ", FALSE))
    <3>1. RoundedUp(rm, neg, x) = M(rm, neg) /\ M(rm, neg) = Reference!RoundQuotient(rm, neg, U, D)
      BY <2>6, <2>7
    <3>2. Inexact(x) <=> M("RUP", FALSE) # M("RTZ", FALSE)
      BY <2>7, <2>8
    <3>3. M(rm, neg) \in Nat
      BY <2>8, <3>1
    <3> QED BY <3>1, <3>2, <3>3
  <2> QED BY <2>9 DEF Goal
<1>9. CASE o.exp >= FRAC
  <2>1. L \in Nat /\ L = o.exp - FRAC /\ o.sig = U /\ L + FRAC + 1 <= BIAS + 1
    BY <1>1, <1>3, <1>4, <1>5, <1>9
  <2> DEFINE n == U * 2^L
  <2>2. n \in Nat /\ n < 2^(2 * XLEN)
    <3>1. 2^L \in Nat /\ 2^L >= 1 /\ 2^(FRAC + 1) = 2 * ONE /\ 2^(L + (FRAC + 1)) = 2^L * 2^(FRAC + 1)
      <4>1. L \in 0..4 * FRAC + BIAS + 1 /\ FRAC + 1 \in Nat
        BY <1>1, <2>1
      <4>2. 2^L \in Nat /\ 2^L >= 1
        BY <4>1, Powers
      <4>3. 2^(L + (FRAC + 1)) = 2^L * 2^(FRAC + 1)
        BY <2>1, <4>1, PowerSum
      <4> QED BY <4>2, <4>3, Width DEF ONE
    <3>2. U * 2^L <= (2 * ONE - 1) * 2^L /\ (2 * ONE - 1) * 2^L = 2^L * (2 * ONE) - 2^L /\ U * 2^L \in Nat
      <4>1. U \in Nat /\ U <= 2 * ONE - 1
        BY <1>3, <1>4, <2>1
      <4> QED BY <1>1, <3>1, <4>1
    <3>3. 2^(L + (FRAC + 1)) <= 2^(2 * XLEN) /\ 2^(2 * XLEN) \in Nat
      <4>1. L + (FRAC + 1) <= 2 * XLEN /\ L + (FRAC + 1) \in Nat /\ 2 * XLEN \in Nat
        BY <1>1, <1>3, <1>6, <2>1
      <4> QED BY <4>1, PowerOrder
    <3> QED BY <1>1, <3>1, <3>2, <3>3
  <2>3. 2^(2 * XLEN) \in Nat /\ 2^(2 * XLEN) >= 1
    <3>1. 2 * XLEN \in Nat /\ 2 * XLEN <= 2 * XLEN + 1
      BY <1>1
    <3> QED BY <3>1, PowerOrder
  <2>4. x = [mag |-> n, guard |-> FALSE, round |-> FALSE, sticky |-> FALSE]
    <3>1. ~(o.exp > 2 * XLEN + FRAC - 1)
      BY <1>1, <1>3, <1>6
    <3>2. o.sig * 2^(o.exp - FRAC) = n
      BY <2>1
    <3> HIDE DEF n
    <3>3. n % 2^(2 * XLEN) = n
      BY <2>2, <2>3
    <3> QED BY <1>9, <3>1, <3>2, <3>3 DEF f2i
  <2>5. InUnitsOf(U, 1, L, 0, n, 1)
    <3>1. L >= 0 /\ L - 0 = L
      BY <2>1
    <3> QED BY <3>1 DEF InUnitsOf
  <2>6. ~(U > 0 /\ Reference!Log2(U, 1) + L < 0 - 1)
    BY <1>1, <1>3, <1>9
  <2> HIDE DEF x, n
  <2>7. \A r, s : M(r, s) = Reference!RoundQuotient(r, s, n, 1)
    <3> TAKE r, s
    <3> QED BY <2>5, <2>6, UnitsRounded
  <2> HIDE DEF M
  <2>8. \A r \in RoundingModes, s \in BOOLEAN : M(r, s) = n
    <3> TAKE r \in RoundingModes, s \in BOOLEAN
    <3>1. Reference!RoundQuotient(r, s, n, 1) = n
      BY <2>2, NothingToRound
    <3> QED BY <2>7, <3>1
  <2>9. M(rm, neg) = n /\ M("RUP", FALSE) = n /\ M("RTZ", FALSE) = n
    BY <2>8 DEF RoundingModes
  <2>10. RoundedUp(rm, neg, x) = n /\ ~Inexact(x)
    BY <2>2, <2>4, NothingToRound
  <2>11. RoundedUp(rm, neg, x) = M(rm, neg) /\ M(rm, neg) \in Nat /\ (Inexact(x) <=> M("RUP", FALSE) # M("RTZ", FALSE))
    BY <2>2, <2>9, <2>10
  <2> QED BY <2>11 DEF Goal
<1> QED BY <1>1, <1>3, <1>7, <1>8, <1>9

(* Beyond the register every word is too small.                             *)
LEMMA IntegerTooLarge ==
  ASSUME NEW rm \in RoundingModes, NEW neg \in BOOLEAN, NEW a, finite(a), decode(a).exp >= 2 * XLEN + FRAC
  PROVE  LET m == Reference!InUnits(rm, neg, Reference!Units(a), 1, Reference!Last(a), 0)
             x == f2i(decode(a))
         IN  /\ m \in Nat /\ m >= 2^XLEN
             /\ RoundedUp(rm, neg, x) \in Nat /\ RoundedUp(rm, neg, x) >= 2^XLEN
<1> DEFINE o == decode(a)
           U == Reference!Units(a)
           L == Reference!Last(a)
           x == f2i(o)
           m == Reference!InUnits(rm, neg, U, 1, L, 0)
<1>1. /\ FRAC \in Nat /\ FRAC >= 3 /\ BIAS \in Nat /\ BIAS > FRAC /\ ONE \in Nat /\ ONE >= 8 /\ 2^FRAC = ONE
      /\ XLEN \in Nat /\ XLEN > FRAC /\ XLEN <= BIAS
  BY Formats, WordAssumption DEF ONE, EMAX
<1>2. PICK z \in 0..FRAC : Normalises(a, o, z)
  BY DecodedFinite
<1>3. U \in Nat /\ U >= 1 /\ L \in Int /\ o.exp \in Int /\ Reference!Log2(U, 1) + L = o.exp
  BY UnitsLog
<1>4. /\ o.sig = U * 2^z /\ o.sig \in ONE..2 * ONE - 1 /\ o.sig \in Nat /\ o.exp - FRAC = L - z
      /\ o.exp <= BIAS /\ z \in Nat
  BY <1>1, <1>2 DEF Normalises
<1>5. o.exp >= 2 * XLEN + FRAC
  OBVIOUS
<1> HIDE DEF o, U, L
<1>6. L \in Nat /\ L = (o.exp - FRAC) + z
  BY <1>1, <1>3, <1>4, <1>5
<1> DEFINE n == U * 2^L
<1>8. n \in Nat /\ n >= 2^XLEN
  <2>1. XLEN < L
    BY <1>1, <1>3, <1>4, <1>5, <1>6
  <2>2. 2 * 2^XLEN <= 2^L /\ 2^XLEN \in Nat /\ 2^L \in Nat
    BY <1>1, <1>6, <2>1, PowerOrder
  <2>3. U * 2^L >= 1 * 2^L /\ U * 2^L \in Nat
    BY <1>3, <2>2
  <2> QED BY <2>2, <2>3
<1>9. m = n
  <2>1. InUnitsOf(U, 1, L, 0, n, 1)
    <3>1. L >= 0 /\ L - 0 = L
      BY <1>6
    <3> QED BY <3>1 DEF InUnitsOf
  <2>2. ~(U > 0 /\ Reference!Log2(U, 1) + L < 0 - 1)
    BY <1>1, <1>3, <1>5
  <2> HIDE DEF n
  <2>3. m = Reference!RoundQuotient(rm, neg, n, 1)
    BY <2>1, <2>2, UnitsRounded
  <2> HIDE DEF m
  <2>4. Reference!RoundQuotient(rm, neg, n, 1) = n
    <3>1. n % 1 = 0 /\ n \div 1 = n
      BY <1>8
    <3> QED BY <1>8, <3>1, RoundWhole
  <2> QED BY <2>3, <2>4
<1> HIDE DEF n, m
<1>10. RoundedUp(rm, neg, x) = 2^(2 * XLEN) - 1 /\ 2^(2 * XLEN) \in Nat /\ 2 * 2^XLEN <= 2^(2 * XLEN) /\ 2^XLEN \in Nat /\ 2^XLEN >= 1
  <2>1. 2^(2 * XLEN) \in Nat /\ 2 * 2^XLEN <= 2^(2 * XLEN) /\ 2^XLEN \in Nat /\ 2^XLEN >= 1
    <3>1. XLEN < 2 * XLEN /\ 2 * XLEN \in Nat /\ 2 * XLEN <= 2 * XLEN + 1 /\ XLEN \in Nat
      BY <1>1
    <3> QED BY <3>1, PowerOrder
  <2>2. x = [mag |-> 2^(2 * XLEN) - 1, guard |-> FALSE, round |-> FALSE, sticky |-> FALSE]
    <3>1. o.exp > 2 * XLEN + FRAC - 1
      BY <1>1, <1>3, <1>5
    <3> QED BY <3>1 DEF f2i
  <2> HIDE DEF x
  <2>3. RoundedUp(rm, neg, x) = 2^(2 * XLEN) - 1
    <3>1. 2^(2 * XLEN) - 1 \in Nat
      BY <2>1
    <3> QED BY <2>2, <3>1, NothingToRound
  <2> QED BY <2>1, <2>3
<1> HIDE DEF x
<1>11. RoundedUp(rm, neg, x) \in Nat /\ RoundedUp(rm, neg, x) >= 2^XLEN
  BY <1>10
<1> QED BY <1>8, <1>9, <1>11 DEF x, m, o, U, L

(* The words of the two ends, and what fits between them.                   *)
FitsWord(signed, neg, mag) ==
  IF signed THEN mag < IntMin \/ (mag = IntMin /\ neg)
  ELSE mag = 0 \/ (~neg /\ mag <= UintMax)

LEMMA WordRange ==
  ASSUME NEW signed \in BOOLEAN, NEW neg \in BOOLEAN, NEW m \in Nat, NEW mag \in Nat,
         mag = m \/ (mag >= 2^XLEN /\ m >= 2^XLEN)
  PROVE  LET lo == IF signed THEN -(2^(XLEN - 1)) ELSE 0
             hi == IF signed THEN 2^(XLEN - 1) - 1 ELSE 2^XLEN - 1
             i == IF neg THEN -m ELSE m
             word(j) == IF j < 0 THEN j + 2^XLEN ELSE j
         IN  /\ FitsWord(signed, neg, mag) <=> ~(i < lo) /\ ~(i > hi)
             /\ FitsWord(signed, neg, mag) => mag = m /\ word(i) = IF neg THEN Negative(mag) ELSE mag
             /\ \A b \in BOOLEAN : Saturated(signed, b) = Answer(word(IF b THEN lo ELSE hi), {"NV"})
<1>1. IntMin \in Nat /\ IntMin >= 1 /\ 2^XLEN = 2 * IntMin /\ IntMin = 2^(XLEN - 1)
  <2>1. XLEN \in Nat /\ XLEN - 1 \in Nat /\ XLEN - 1 < XLEN /\ (XLEN - 1) + 1 = XLEN
    BY WordAssumption, Formats DEF EMAX
  <2> QED BY <2>1, PowerOrder DEF IntMin
<1>2. UintMax = 2 * IntMin - 1 /\ IntMax = IntMin - 1
  BY <1>1 DEF UintMax, IntMax
<1>3. Negative(mag) = (2 * IntMin - mag) % (2 * IntMin)
  BY <1>1 DEF Negative
<1> HIDE DEF IntMin, UintMax, IntMax, Negative
<1>4. mag = 0 => Negative(mag) = 0
  BY <1>1, <1>3
<1>5. mag > 0 /\ mag <= IntMin => Negative(mag) = 2 * IntMin - mag
  BY <1>1, <1>3
<1> DEFINE lo == IF signed THEN -(2^(XLEN - 1)) ELSE 0
           hi == IF signed THEN 2^(XLEN - 1) - 1 ELSE 2^XLEN - 1
           i == IF neg THEN -m ELSE m
           word(j) == IF j < 0 THEN j + 2^XLEN ELSE j
<1>6. lo = (IF signed THEN 0 - IntMin ELSE 0) /\ hi = (IF signed THEN IntMin - 1 ELSE 2 * IntMin - 1)
      /\ i = (IF neg THEN 0 - m ELSE m) /\ lo \in Int /\ hi \in Int /\ i \in Int
  BY <1>1
<1>7. \A j : word(j) = IF j < 0 THEN j + 2 * IntMin ELSE j
  BY <1>1
<1> HIDE DEF lo, hi, i, word
<1>8. FitsWord(signed, neg, mag) <=> ~(i < lo) /\ ~(i > hi)
  <2>1. CASE signed
    BY <1>1, <1>2, <1>6, <2>1 DEF FitsWord
  <2>2. CASE ~signed
    BY <1>1, <1>2, <1>6, <2>2 DEF FitsWord
  <2> QED BY <2>1, <2>2
<1>9. FitsWord(signed, neg, mag) => mag = m /\ word(i) = IF neg THEN Negative(mag) ELSE mag
  <2> SUFFICES ASSUME FitsWord(signed, neg, mag) PROVE mag = m /\ word(i) = IF neg THEN Negative(mag) ELSE mag
    OBVIOUS
  <2>1. mag <= UintMax /\ (neg => mag <= IntMin) /\ mag = m
    BY <1>1, <1>2 DEF FitsWord
  <2>2. CASE neg /\ m > 0
    BY <1>1, <1>5, <1>6, <1>7, <2>1, <2>2
  <2>3. CASE neg /\ m = 0
    BY <1>1, <1>4, <1>6, <1>7, <2>1, <2>3
  <2>4. CASE ~neg
    BY <1>1, <1>6, <1>7, <2>1, <2>4
  <2> QED BY <2>2, <2>3, <2>4
<1>10. ASSUME NEW b \in BOOLEAN PROVE Saturated(signed, b) = Answer(word(IF b THEN lo ELSE hi), {"NV"})
  <2>1. word(IF b THEN lo ELSE hi) = IF signed THEN (IF b THEN IntMin ELSE IntMax) ELSE (IF b THEN 0 ELSE UintMax)
    <3>1. CASE b
      BY <1>1, <1>2, <1>6, <1>7, <3>1
    <3>2. CASE ~b
      BY <1>1, <1>2, <1>6, <1>7, <3>2
    <3> QED BY <3>1, <3>2
  <2> QED BY <2>1 DEF Saturated
<1> QED BY <1>8, <1>9, <1>10 DEF lo, hi, i, word

(* FCVT.W.S and FCVT.WU.S.                                                  *)
LEMMA ToIntRounded ==
  ASSUME NEW rm \in RoundingModes, NEW signed \in BOOLEAN, NEW a \in Floats, ~BeyondRegister(a)
  PROVE  FloatToInt(rm, signed, decode(a)) = Reference!RefToInt(rm, signed, a)
<1> DEFINE o    == decode(a)
           M(r, s) == Reference!InUnits(r, s, Reference!Units(a), 1, Reference!Last(a), 0)
           m    == M(rm, a.sign)
           lo   == IF signed THEN -(2^(XLEN - 1)) ELSE 0
           hi   == IF signed THEN 2^(XLEN - 1) - 1 ELSE 2^XLEN - 1
           i    == IF a.sign THEN -m ELSE m
           word(j) == IF j < 0 THEN j + 2^XLEN ELSE j
           end(b) == Answer(word(IF b THEN lo ELSE hi), {"NV"})
           x    == f2i(o)
           mag  == RoundedUp(rm, o.sign, x)
<1>1. /\ o.sign = a.sign /\ a.sign \in BOOLEAN /\ o.kind \in Kinds
      /\ o.kind = "zero" <=> is_zero(a)
      /\ o.kind = "inf" <=> is_inf(a)
      /\ nan(o) <=> is_nan(a)
      /\ o.kind = "finite" <=> finite(a)
      /\ nan(o) <=> o.kind = "snan" \/ o.kind = "qnan"
  BY DecodedKind DEF nan
<1>2. Reference!RefToInt(rm, signed, a) =
        IF is_nan(a) THEN end(FALSE)
        ELSE IF is_inf(a) \/ i < lo \/ i > hi THEN end(a.sign)
        ELSE Answer(word(i), IF M("RUP", FALSE) = M("RTZ", FALSE) THEN {} ELSE {"NX"})
  BY ReferenceFormat DEF Reference!RefToInt, Reference!Pow2
<1>3. FloatToInt(rm, signed, o) =
        CASE nan(o)         -> Saturated(signed, FALSE)
          [] o.kind = "inf" -> Saturated(signed, o.sign)
          [] o.kind = "zero" -> Answer(0, {})
          [] OTHER -> IF FitsWord(signed, o.sign, mag)
                      THEN Answer(IF o.sign THEN Negative(mag) ELSE mag, Raise("NX", Inexact(x)))
                      ELSE Saturated(signed, o.sign)
  BY DEF FloatToInt, FitsWord
<1> DEFINE InWord(m1, m2) ==
      /\ FitsWord(signed, a.sign, m1) <=> ~((IF a.sign THEN -m2 ELSE m2) < lo) /\ ~((IF a.sign THEN -m2 ELSE m2) > hi)
      /\ FitsWord(signed, a.sign, m1) => word(IF a.sign THEN -m2 ELSE m2) = IF a.sign THEN Negative(m1) ELSE m1
      /\ \A b \in BOOLEAN : Saturated(signed, b) = end(b)
<1>4. ASSUME NEW m1 \in Nat, NEW m2 \in Nat, m1 = m2 \/ (m1 >= 2^XLEN /\ m2 >= 2^XLEN)
      PROVE  InWord(m1, m2)
  BY <1>1, <1>4, WordRange
<1>5. \A b \in BOOLEAN : Saturated(signed, b) = end(b)
  <2>1. PICK z \in Nat : z = 0
    OBVIOUS
  <2>2. InWord(z, z)
    BY <1>4
  <2> QED BY <2>2
<1> HIDE DEF end, word, lo, hi, InWord
<1>6. CASE is_nan(a)
  <2>1. nan(o)
    BY <1>1, <1>6
  <2>2. FloatToInt(rm, signed, o) = Saturated(signed, FALSE)
    BY <1>1, <1>3, <2>1
  <2> HIDE DEF o, M
  <2> QED BY <1>2, <1>5, <1>6, <2>2 DEF o
<1>7. CASE is_inf(a)
  <2>1. ~nan(o) /\ o.kind = "inf" /\ ~is_nan(a)
    BY <1>1, <1>7
  <2>2. FloatToInt(rm, signed, o) = Saturated(signed, o.sign)
    BY <1>3, <2>1
  <2> HIDE DEF o, M
  <2> QED BY <1>1, <1>2, <1>5, <1>7, <2>1, <2>2 DEF o
<1>8. CASE is_zero(a)
  <2>1. ~nan(o) /\ o.kind = "zero" /\ ~is_nan(a) /\ ~is_inf(a)
    BY <1>1, <1>8
  <2>2. FloatToInt(rm, signed, o) = Answer(0, {})
    BY <1>3, <2>1
  <2>3. \A r \in RoundingModes, s \in BOOLEAN : M(r, s) = 0
    <3> TAKE r \in RoundingModes, s \in BOOLEAN
    <3>1. a.exp = 0 /\ a.frac = 0
      BY <1>8 DEF is_zero
    <3>2. FRAC \in Nat /\ BIAS \in Nat /\ BIAS > FRAC /\ FRAC >= 3
      BY Formats
    <3>3. Reference!Units(a) = 0 /\ Reference!Last(a) = (1 - BIAS) - FRAC
      BY <3>1, ReferenceFormat DEF Reference!Units, Reference!Last, EMIN
    <3> DEFINE L == Reference!Last(a)
               D == 2^(0 - L)
    <3>4. ~(L >= 0) /\ 0 - L \in 0..4 * FRAC + BIAS + 1
      BY <3>2, <3>3
    <3>5. D \in Nat /\ D >= 1
      <4> HIDE DEF L
      <4> QED BY <3>4, Powers
    <3>6. M(r, s) = Reference!RoundQuotient(r, s, 0, D)
      <4>1. InUnitsOf(0, 1, L, 0, 0, D) /\ ~(0 > 0 /\ Reference!Log2(0, 1) + L < 0 - 1)
        <5>1. 1 * D = D
          BY <3>5
        <5> QED BY <3>4, <5>1 DEF InUnitsOf
      <4> HIDE DEF L, D
      <4>2. Reference!InUnits(r, s, 0, 1, L, 0) = Reference!RoundQuotient(r, s, 0, D)
        BY <4>1, UnitsRounded
      <4> QED BY <3>3, <4>2 DEF L
    <3> HIDE DEF L, D, M
    <3>7. 0 % D = 0 /\ 0 \div D = 0
      <4>1. Division(0, D, 0, 0)
        BY <3>5 DEF Division
      <4> QED BY <4>1, DivisionIs
    <3>8. Reference!RoundQuotient(r, s, 0, D) = 0
      BY <3>5, <3>7, RoundWhole
    <3> QED BY <3>6, <3>8
  <2>4. m = 0 /\ M("RUP", FALSE) = M("RTZ", FALSE)
    BY <1>1, <2>3 DEF RoundingModes
  <2> HIDE DEF o, M, m, i
  <2>5. PICK z \in Nat : z = 0
    OBVIOUS
  <2>6. InWord(z, z)
    BY <1>4
  <2>7. i = (IF a.sign THEN -z ELSE z)
    BY <2>4, <2>5 DEF i
  <2>8. FitsWord(signed, a.sign, z) /\ (IF a.sign THEN Negative(z) ELSE z) = 0
    <3>1. IntMin \in Nat /\ IntMin >= 1 /\ 2^XLEN = 2 * IntMin
      <4>1. XLEN \in Nat /\ XLEN - 1 \in Nat /\ XLEN - 1 < XLEN /\ (XLEN - 1) + 1 = XLEN
        BY WordAssumption, Formats DEF EMAX
      <4> QED BY <4>1, PowerOrder DEF IntMin
    <3>2. FitsWord(signed, a.sign, z)
      BY <2>5, <3>1 DEF FitsWord
    <3>3. Negative(z) = 0
      <4>1. Negative(z) = (2 * IntMin - 0) % (2 * IntMin)
        BY <2>5, <3>1 DEF Negative
      <4> HIDE DEF IntMin
      <4> QED BY <3>1, <4>1
    <3> QED BY <2>5, <3>2, <3>3
  <2>9. ~(i < lo) /\ ~(i > hi) /\ word(i) = 0
    BY <2>6, <2>7, <2>8 DEF InWord
  <2> QED BY <1>2, <2>1, <2>2, <2>4, <2>9 DEF o
<1>9. CASE finite(a)
  <2> DEFINE up == M("RUP", FALSE)
             down == M("RTZ", FALSE)
  <2>1. ~nan(o) /\ o.kind = "finite" /\ ~is_nan(a) /\ ~is_inf(a)
    BY <1>1, <1>9
  <2>2. FloatToInt(rm, signed, o) =
          IF FitsWord(signed, a.sign, mag)
          THEN Answer(IF a.sign THEN Negative(mag) ELSE mag, Raise("NX", Inexact(x)))
          ELSE Saturated(signed, a.sign)
    BY <1>1, <1>3, <2>1
  <2>3. Reference!RefToInt(rm, signed, a) =
          IF i < lo \/ i > hi THEN end(a.sign)
          ELSE Answer(word(i), IF up = down THEN {} ELSE {"NX"})
    BY <1>2, <2>1
  <2>4. o.exp \in Int
    BY <1>9, UnitsLog
  <2>5. /\ mag \in Nat /\ m \in Nat
        /\ mag = m \/ (mag >= 2^XLEN /\ m >= 2^XLEN)
        /\ mag < 2^XLEN => (Inexact(x) <=> up # down)
    <3>1. CASE o.exp < 2 * XLEN
      <4>1. RoundedUp(rm, a.sign, x) = m /\ m \in Nat /\ (Inexact(x) <=> up # down)
        BY <1>1, <1>9, <3>1, IntegerPart
      <4> HIDE DEF M, m, x, o, up, down
      <4> QED BY <1>1, <4>1
    <3>2. CASE o.exp >= 2 * XLEN + FRAC
      <4>1. /\ m \in Nat /\ m >= 2^XLEN
            /\ RoundedUp(rm, a.sign, x) \in Nat /\ RoundedUp(rm, a.sign, x) >= 2^XLEN
        BY <1>1, <1>9, <3>2, IntegerTooLarge
      <4>2. 2^XLEN \in Nat
        <5>1. XLEN \in 0..4 * FRAC + BIAS + 1
          BY WordAssumption, Formats DEF EMAX
        <5> QED BY <5>1, Powers
      <4> HIDE DEF M, m, x, o, up, down
      <4> QED BY <1>1, <4>1, <4>2
    <3>3. ~(o.exp \in 2 * XLEN..2 * XLEN + FRAC - 1)
      BY <2>1 DEF BeyondRegister
    <3>4. XLEN \in Nat /\ FRAC \in Nat
      BY WordAssumption, Formats
    <3> HIDE DEF M, m, x, mag, up, down
    <3> QED BY <2>4, <3>1, <3>2, <3>3, <3>4
  <2> HIDE DEF M, m, x, mag, i, o, up, down
  <2>6. InWord(mag, m)
    BY <1>4, <2>5
  <2>7. i = (IF a.sign THEN -m ELSE m)
    BY DEF i
  <2>8. CASE FitsWord(signed, a.sign, mag)
    <3>1. ~(i < lo) /\ ~(i > hi) /\ word(i) = IF a.sign THEN Negative(mag) ELSE mag
      BY <2>6, <2>7, <2>8 DEF InWord
    <3>2. Inexact(x) <=> up # down
      <4>1. IntMin \in Nat /\ IntMin >= 1 /\ 2^XLEN = 2 * IntMin
        <5>1. XLEN \in Nat /\ XLEN - 1 \in Nat /\ XLEN - 1 < XLEN /\ (XLEN - 1) + 1 = XLEN
          BY WordAssumption, Formats DEF EMAX
        <5> QED BY <5>1, PowerOrder DEF IntMin
      <4>2. UintMax = 2 * IntMin - 1
        BY <4>1 DEF UintMax
      <4> HIDE DEF IntMin, UintMax
      <4>3. mag < 2^XLEN
        BY <1>1, <2>5, <2>8, <4>1, <4>2 DEF FitsWord
      <4>4. mag = m
        BY <2>5, <4>1, <4>3
      <4> QED BY <2>5, <4>3, <4>4
    <3>3. Raise("NX", Inexact(x)) = IF up = down THEN {} ELSE {"NX"}
      BY <3>2 DEF Raise
    <3> QED BY <2>2, <2>3, <2>8, <3>1, <3>3 DEF o
  <2>9. CASE ~FitsWord(signed, a.sign, mag)
    <3>1. i < lo \/ i > hi
      BY <2>6, <2>7, <2>9 DEF InWord
    <3> QED BY <1>1, <1>5, <2>2, <2>3, <2>9, <3>1 DEF o
  <2> QED BY <2>8, <2>9
<1>10. is_nan(a) \/ is_inf(a) \/ is_zero(a) \/ finite(a)
  <2>1. a.exp \in 0..SPECIAL /\ a.frac \in 0..ONE - 1
    BY DEF Floats
  <2> QED BY <2>1, Formats DEF is_nan, is_inf, finite
<1> QED BY <1>6, <1>7, <1>8, <1>9, <1>10

(* A whole number shifted until its leading bit is bit FRAC.                *)
AlignedInt(n, msb) ==
  IF msb >= FRAC THEN Shifted(n, msb - FRAC) ELSE Shifted(n * 2^(FRAC - msb), 0)

LEMMA AlignedRounds ==
  ASSUME NEW rm \in RoundingModes, NEW neg \in BOOLEAN, NEW n \in Nat, NEW msb \in Nat,
         2^msb <= n, n < 2^(msb + 1)
  PROVE  \E N \in Nat, D \in Nat :
           /\ D >= 1 /\ InUnitsOf(n, 1, 0, msb - FRAC, N, D)
           /\ ONE * D <= N /\ N < (2 * ONE) * D
           /\ RoundedUp(rm, neg, AlignedInt(n, msb)) = Reference!RoundQuotient(rm, neg, N, D)
           /\ Inexact(AlignedInt(n, msb)) <=> N % D # 0
<1> DEFINE x == AlignedInt(n, msb)
           Goal(N, D) == /\ D >= 1 /\ InUnitsOf(n, 1, 0, msb - FRAC, N, D)
                         /\ ONE * D <= N /\ N < (2 * ONE) * D
                         /\ RoundedUp(rm, neg, x) = Reference!RoundQuotient(rm, neg, N, D)
                         /\ Inexact(x) <=> N % D # 0
<1>0. SUFFICES \E N \in Nat, D \in Nat : Goal(N, D)
  OBVIOUS
<1>1. /\ FRAC \in Nat /\ FRAC >= 3 /\ BIAS \in Nat /\ ONE \in Nat /\ ONE >= 8 /\ 2^FRAC = ONE /\ 2^(FRAC + 1) = 2 * ONE
      /\ 2^msb \in Nat /\ 2^(msb + 1) \in Nat /\ 2^(msb + 1) = 2 * 2^msb
  <2>1. FRAC \in Nat /\ msb < msb + 1 /\ msb + 1 \in Nat
    BY Formats
  <2>2. 2^msb \in Nat /\ 2^(msb + 1) \in Nat /\ 2^(msb + 1) = 2 * 2^msb
    BY <2>1, PowerOrder
  <2> QED BY <2>2, Formats, Width DEF ONE
<1> HIDE DEF x
<1>2. CASE msb > FRAC
  <2> DEFINE rs == msb - FRAC
             D == 2^rs
  <2>1. rs \in Nat /\ rs >= 1 /\ x = Shifted(n, rs)
    BY <1>1, <1>2 DEF x, AlignedInt
  <2>2. RoundedUp(rm, neg, x) = Reference!RoundQuotient(rm, neg, n, D) /\ (Inexact(x) <=> n % D # 0)
    <3> HIDE DEF rs
    <3> QED BY <2>1, ShiftRounds
  <2>3. D \in Nat /\ D >= 1 /\ ONE * D = 2^msb
    <3>1. rs + FRAC = msb
      BY <1>1, <2>1
    <3>2. D \in Nat /\ D >= 1 /\ 2^(rs + FRAC) = D * 2^FRAC
      <4> HIDE DEF rs
      <4> QED BY <1>1, <2>1, <3>1, Powers, PowerSum
    <3> HIDE DEF D
    <3> QED BY <1>1, <3>1, <3>2
  <2>4. InUnitsOf(n, 1, 0, msb - FRAC, n, D)
    <3>1. ~(0 >= msb - FRAC) /\ (msb - FRAC) - 0 = rs /\ 1 * D = D
      BY <1>1, <1>2, <2>3
    <3> QED BY <3>1 DEF InUnitsOf
  <2>5. ONE * D <= n /\ n < (2 * ONE) * D
    <3> HIDE DEF D
    <3>1. (2 * ONE) * D = 2 * (ONE * D)
      BY <1>1, <2>3
    <3> QED BY <1>1, <2>3, <3>1
  <2> HIDE DEF D
  <2>6. Goal(n, D)
    BY <2>2, <2>3, <2>4, <2>5
  <2> HIDE DEF Goal
  <2> QED BY <2>3, <2>6
<1>3. CASE ~(msb > FRAC)
  <2> DEFINE ls == FRAC - msb
             N == n * 2^ls
  <2>1. ls \in Nat /\ ls <= FRAC /\ 2^ls \in Nat /\ 2^ls >= 1 /\ 2^msb * 2^ls = ONE
    <3>1. ls \in Nat /\ ls \in 0..4 * FRAC + BIAS + 1 /\ msb + ls = FRAC /\ ls <= FRAC
      BY <1>1, <1>3
    <3> HIDE DEF ls
    <3>2. 2^(msb + ls) = 2^msb * 2^ls /\ 2^ls \in Nat /\ 2^ls >= 1
      BY <3>1, Powers, PowerSum
    <3> QED BY <1>1, <3>1, <3>2
  <2>2. N \in Nat /\ ONE <= N /\ N < 2 * ONE
    <3> HIDE DEF ls
    <3>1. n * 2^ls >= 2^msb * 2^ls /\ n * 2^ls \in Nat
      BY <1>1, <2>1
    <3>2. n <= 2 * 2^msb - 1
      BY <1>1
    <3>3. n * 2^ls <= (2 * 2^msb - 1) * 2^ls /\ (2 * 2^msb - 1) * 2^ls = 2 * (2^msb * 2^ls) - 2^ls
      BY <1>1, <2>1, <3>2
    <3> QED BY <1>1, <2>1, <3>1, <3>3
  <2>3. x = Shifted(N, 0)
    <3>1. CASE msb = FRAC
      <4>1. msb >= FRAC /\ msb - FRAC = 0 /\ ls = 0
        BY <1>1, <3>1
      <4>2. N = n
        <5>1. 2^0 = 1 /\ n * 1 = n
          OBVIOUS
        <5> QED BY <4>1, <5>1
      <4> HIDE DEF N, ls
      <4> QED BY <4>1, <4>2 DEF x, AlignedInt
    <3>2. CASE msb # FRAC
      <4>1. ~(msb >= FRAC)
        BY <1>1, <1>3, <3>2
      <4> QED BY <4>1 DEF x, AlignedInt
    <3> QED BY <3>1, <3>2
  <2>4. InUnitsOf(n, 1, 0, msb - FRAC, N, 1)
    <3>1. 0 >= msb - FRAC /\ 0 - (msb - FRAC) = ls
      BY <1>1, <1>3
    <3> HIDE DEF ls
    <3> QED BY <3>1 DEF InUnitsOf
  <2> HIDE DEF N
  <2>5. x = [mag |-> N, guard |-> FALSE, round |-> FALSE, sticky |-> FALSE]
    <3>1. 2^0 = 1 /\ N \div 1 = N /\ ~(0 >= 1) /\ ~(0 >= 2) /\ ~(0 >= 3)
      BY <2>2
    <3> QED BY <2>3, <3>1 DEF Shifted
  <2>6. RoundedUp(rm, neg, x) = N /\ ~Inexact(x) /\ Reference!RoundQuotient(rm, neg, N, 1) = N /\ N % 1 = 0
    BY <2>2, <2>5, NothingToRound
  <2>7. Goal(N, 1)
    BY <1>1, <2>2, <2>4, <2>6
  <2> HIDE DEF Goal
  <2> QED BY <2>2, <2>7
<1> QED BY <1>2, <1>3

(* FCVT.S.W and FCVT.S.WU.                                                  *)
LEMMA FromIntRounded ==
  ASSUME NEW rm \in RoundingModes, NEW signed \in BOOLEAN, NEW n \in Words
  PROVE  IntToFloat(rm, signed, n) = Reference!RefFromInt(rm, signed, n)
<1> DEFINE neg == signed /\ n >= IntMin
           mag == IF neg THEN Negative(n) ELSE n
           i == IF signed /\ n >= 2^(XLEN - 1) THEN n - 2^XLEN ELSE n
           msb == Msb(mag)
           x == AlignedInt(mag, msb)
           sig == RoundedUp(rm, neg, x)
           exp == IF sig = 2 * ONE THEN msb + 1 ELSE msb
<1>1. IntMin \in Nat /\ IntMin >= 1 /\ 2^XLEN = 2 * IntMin /\ IntMin = 2^(XLEN - 1)
  <2>1. XLEN \in Nat /\ XLEN - 1 \in Nat /\ XLEN - 1 < XLEN /\ (XLEN - 1) + 1 = XLEN
    BY WordAssumption, Formats DEF EMAX
  <2> QED BY <2>1, PowerOrder DEF IntMin
<1>2. n \in Nat /\ n < 2 * IntMin
  BY <1>1 DEF Words
<1>3. Negative(n) = (2 * IntMin - n) % (2 * IntMin)
  BY <1>1 DEF Negative
<1>4. IntToFloat(rm, signed, n) =
        IF mag = 0 THEN Answer(Zero(FALSE), {})
        ELSE Answer(Float(neg, exp + BIAS, sig % ONE), Raise("NX", Inexact(x)))
  BY DEF IntToFloat, AlignedInt
<1>5. Reference!RefFromInt(rm, signed, n) =
        IF i = 0 THEN Answer(Zero(FALSE), {})
        ELSE Reference!Rounded(rm, i < 0, IF i < 0 THEN -i ELSE i, 1, 0)
  BY ReferenceFormat DEF Reference!RefFromInt, Reference!Pow2
<1>6. i = (IF neg THEN n - 2 * IntMin ELSE n)
  BY <1>1
<1> HIDE DEF IntMin, Negative, i, x, msb
<1>7. mag \in Nat /\ mag < 2 * IntMin /\ (mag = 0 <=> i = 0) /\ (i # 0 => ((i < 0) = neg) /\ (IF i < 0 THEN -i ELSE i) = mag)
  <2>1. CASE neg
    <3>1. Negative(n) = 2 * IntMin - n
      BY <1>1, <1>2, <1>3, <2>1
    <3> QED BY <1>1, <1>2, <1>6, <2>1, <3>1
  <2>2. CASE ~neg
    BY <1>1, <1>2, <1>6, <2>2
  <2> QED BY <2>1, <2>2
<1>8. neg \in BOOLEAN
  OBVIOUS
<1> HIDE DEF mag, neg
<1>9. CASE mag = 0
  BY <1>4, <1>5, <1>7, <1>9
<1>10. CASE mag # 0
  <2>1. /\ FRAC \in Nat /\ FRAC >= 3 /\ BIAS \in Nat /\ BIAS > FRAC /\ ONE \in Nat /\ ONE >= 8
        /\ XLEN \in Nat /\ XLEN <= BIAS /\ EMAX = BIAS /\ EMIN = 1 - BIAS
    BY Formats, WordAssumption DEF EMAX, EMIN
  <2>2. PICK k \in 0..XLEN - 1 : 2^k <= mag /\ mag < 2^(k + 1)
    <3>1. mag >= 1 /\ mag < 2^XLEN /\ mag \in Nat /\ XLEN \in Nat
      BY <1>1, <1>7, <1>10, <2>1
    <3> QED BY <3>1, HasLeadingBit
  <2>3. msb = k /\ k \in Nat /\ k + 1 <= BIAS /\ k <= 4 * (FRAC + BIAS)
    <3>1. k \in Nat /\ k + 1 <= BIAS /\ k <= 4 * (FRAC + BIAS)
      BY <2>1, <2>2
    <3> QED BY <1>7, <2>2, <3>1, LeadingBit DEF msb
  <2>4. PICK N \in Nat, D \in Nat :
           /\ D >= 1 /\ InUnitsOf(mag, 1, 0, k - FRAC, N, D)
           /\ ONE * D <= N /\ N < (2 * ONE) * D
           /\ RoundedUp(rm, neg, AlignedInt(mag, k)) = Reference!RoundQuotient(rm, neg, N, D)
           /\ Inexact(AlignedInt(mag, k)) <=> N % D # 0
    BY <1>7, <1>8, <2>2, <2>3, AlignedRounds
  <2>5. Reference!Log2(mag, 1) + 0 = k /\ EMIN <= k /\ k \in Int
    <3>1. Reference!Log2(mag, 1) = k
      BY <1>7, <2>2, <2>3, LogWhole
    <3> QED BY <2>1, <2>3, <3>1
  <2> DEFINE m == Reference!RoundQuotient(rm, neg, N, D)
             up == IF m = 2 * ONE THEN 1 ELSE 0
  <2>6. Reference!Rounded(rm, neg, mag, 1, 0) =
             IF k + up > EMAX THEN Overflowed(rm, neg)
             ELSE Answer(Float(neg, k + up + BIAS, m % ONE), IF N % D = 0 THEN {} ELSE {"NX"})
    BY <1>7, <1>8, <2>4, <2>5, RoundsNormally
  <2>7. sig = m /\ (Inexact(x) <=> N % D # 0)
    BY <2>3, <2>4 DEF x
  <2> HIDE DEF m, sig
  <2>8. up \in 0..1 /\ ~(k + up > EMAX) /\ exp = k + up
    BY <2>1, <2>3, <2>7
  <2>9. Raise("NX", Inexact(x)) = IF N % D = 0 THEN {} ELSE {"NX"}
    BY <2>7 DEF Raise
  <2>10. IntToFloat(rm, signed, n) = Answer(Float(neg, k + up + BIAS, m % ONE), IF N % D = 0 THEN {} ELSE {"NX"})
    BY <1>4, <1>10, <2>7, <2>8, <2>9
  <2>11. Reference!RefFromInt(rm, signed, n) = Reference!Rounded(rm, neg, mag, 1, 0)
    BY <1>5, <1>7, <1>10
  <2> QED BY <2>6, <2>8, <2>10, <2>11
<1> QED BY <1>9, <1>10

(* Conversions round once: what fcvt.v computes with its three bits is the  *)
(* reference, but for the numbers that lose leading bits.                   *)
THEOREM SpecConversionRounded == Spec => []ConversionRounded
<1>1. Serves => ConversionRounded
  <2> SUFFICES ASSUME Serves, request.op \in ConvertOps,
                      ~(request.op \in {"FCVT_W_S", "FCVT_WU_S"} /\ BeyondRegister(request.a))
               PROVE  Answered = Reference!RefConvert(request.op, request.rm, request.a, request.n)
    BY DEF ConversionRounded, fcvt_wb_valid
  <2>1. request \in Requests /\ request.op \notin FmaOps /\ request.op \notin QuickOps
    BY OpsDiffer DEF Serves, Ops
  <2>2. ~fma.p2.valid
    BY <2>1 DEF Serves, Stages, Empty
  <2>3. Answered = Convert(request.op, request.rm, request.a, request.n)
    BY <2>1, <2>2 DEF Answered, fquick_wb_valid, fcvt_wb_valid
  <2>4. request.rm \in RoundingModes /\ request.a \in Floats /\ request.n \in Words
    BY <2>1, RequestFields
  <2>5. CASE request.op = "FCVT_W_S"
    <3>1. FloatToInt(request.rm, TRUE, decode(request.a)) = Reference!RefToInt(request.rm, TRUE, request.a)
      BY <2>4, <2>5, ToIntRounded
    <3> QED BY <2>3, <2>5, <3>1 DEF Convert, Reference!RefConvert
  <2>6. CASE request.op = "FCVT_WU_S"
    <3>1. FloatToInt(request.rm, FALSE, decode(request.a)) = Reference!RefToInt(request.rm, FALSE, request.a)
      BY <2>4, <2>6, ToIntRounded
    <3> QED BY <2>3, <2>6, <3>1 DEF Convert, Reference!RefConvert
  <2>7. CASE request.op = "FCVT_S_W"
    <3>1. IntToFloat(request.rm, TRUE, request.n) = Reference!RefFromInt(request.rm, TRUE, request.n)
      BY <2>4, FromIntRounded
    <3> QED BY <2>3, <2>7, <3>1 DEF Convert, Reference!RefConvert
  <2>8. CASE request.op = "FCVT_S_WU"
    <3>1. IntToFloat(request.rm, FALSE, request.n) = Reference!RefFromInt(request.rm, FALSE, request.n)
      BY <2>4, FromIntRounded
    <3> QED BY <2>3, <2>8, <3>1 DEF Convert, Reference!RefConvert
  <2> QED BY <2>5, <2>6, <2>7, <2>8 DEF ConvertOps
<1> QED BY <1>1, SpecServes, PTL
-----------------------------------------------------------------------------
(* The quotient                                                             *)

(* Equal fractions are rounded alike.                                       *)
SameRatio(N, D, n, d) ==
  N \in Nat /\ D \in Nat /\ D >= 1 /\ n \in Nat /\ d \in Nat /\ d >= 1 /\ N * d = n * D

(* They have the same whole part and proportional remainders.               *)
LEMMA RatioDivision ==
  ASSUME NEW N, NEW D, NEW n, NEW d, SameRatio(N, D, n, d)
  PROVE  /\ N \div D = n \div d
         /\ N % D \in Nat /\ n % d \in Nat /\ (N % D) * d = (n % d) * D
<1>1. N \in Nat /\ D \in Nat /\ D >= 1 /\ n \in Nat /\ d \in Nat /\ d >= 1 /\ N * d = n * D
  BY DEF SameRatio
<1> DEFINE b == n \div d
           r == n % d
<1>2. b \in Nat /\ r \in Nat /\ r < d /\ n = d * b + r
  <2>1. n \div d \in Int /\ n % d \in Nat /\ n % d < d /\ n = d * (n \div d) + (n % d)
    BY <1>1
  <2>2. n \div d >= 0
    <3>1. n >= d * 0
      BY <1>1
    <3> QED BY <1>1, <3>1, Threshold
  <2> QED BY <2>1, <2>2
<1> HIDE DEF b, r
<1> DEFINE R == N - D * b
<1>3. R \in Int /\ R * d = r * D
  <2>1. D * b \in Int /\ (N - D * b) * d = N * d - (D * b) * d
    BY <1>1, <1>2
  <2>2. (d * b + r) * D = (D * b) * d + r * D
    BY <1>1, <1>2
  <2>3. (D * b) * d \in Int /\ r * D \in Int
    BY <1>1, <1>2
  <2> QED BY <1>1, <1>2, <2>1, <2>2, <2>3
<1>4. N = D * b + R
  <2>1. D * b \in Int
    BY <1>1, <1>2
  <2> QED BY <1>1, <2>1
<1> HIDE DEF R
<1>5. R >= 0
  <2>1. SUFFICES ASSUME R <= -1 PROVE FALSE
    BY <1>3
  <2>2. R * d <= (-1) * d
    BY <1>1, <1>3, <2>1
  <2>3. r * D >= 0
    BY <1>1, <1>2
  <2> QED BY <1>1, <1>3, <2>2, <2>3
<1>6. R < D
  <2>1. SUFFICES ASSUME R >= D PROVE FALSE
    BY <1>1, <1>3
  <2>2. R * d >= D * d
    BY <1>1, <1>3, <2>1
  <2>3. r * D <= (d - 1) * D /\ (d - 1) * D = D * d - D
    BY <1>1, <1>2
  <2>4. D * d \in Int /\ r * D \in Int
    BY <1>1, <1>2
  <2> QED BY <1>1, <1>3, <2>2, <2>3, <2>4
<1>7. Division(N, D, b, R)
  BY <1>1, <1>2, <1>3, <1>4, <1>5, <1>6 DEF Division
<1>8. N \div D = b /\ N % D = R
  BY <1>7, DivisionIs
<1> QED BY <1>2, <1>3, <1>5, <1>8 DEF b, r

(* So every mode rounds them to the same integer.                           *)
LEMMA RatioRounds ==
  ASSUME NEW rm \in RoundingModes, NEW neg \in BOOLEAN, NEW N, NEW D, NEW n, NEW d, SameRatio(N, D, n, d)
  PROVE  /\ Reference!RoundQuotient(rm, neg, N, D) = Reference!RoundQuotient(rm, neg, n, d)
         /\ N % D = 0 <=> n % d = 0
<1> DEFINE R == N % D
           r == n % d
           b == n \div d
<1>1. N \div D = b /\ R \in Nat /\ r \in Nat /\ R * d = r * D /\ D \in Nat /\ D >= 1 /\ d \in Nat /\ d >= 1
  BY RatioDivision DEF SameRatio
<1>2. Reference!RoundQuotient(rm, neg, N, D) =
        LET away == CASE rm = "RNE" -> 2 * R > D \/ (2 * R = D /\ Odd(b))
                      [] rm = "RMM" -> 2 * R >= D
                      [] rm = "RTZ" -> FALSE
                      [] rm = "RDN" -> neg /\ 2 * R > 0
                      [] rm = "RUP" -> ~neg /\ 2 * R > 0
        IN IF away THEN b + 1 ELSE b
  BY <1>1, ReferenceFormat DEF Reference!RoundQuotient
<1>3. Reference!RoundQuotient(rm, neg, n, d) =
        LET away == CASE rm = "RNE" -> 2 * r > d \/ (2 * r = d /\ Odd(b))
                      [] rm = "RMM" -> 2 * r >= d
                      [] rm = "RTZ" -> FALSE
                      [] rm = "RDN" -> neg /\ 2 * r > 0
                      [] rm = "RUP" -> ~neg /\ 2 * r > 0
        IN IF away THEN b + 1 ELSE b
  BY ReferenceFormat DEF Reference!RoundQuotient
<1> HIDE DEF R, r, b
<1>4. /\ 2 * R > D <=> 2 * r > d
      /\ 2 * R = D <=> 2 * r = d
      /\ R = 0 <=> r = 0
  <2>1. (2 * R) * d = (2 * r) * D /\ (2 * R - D) * d = (2 * r - d) * D
    <3>1. (2 * R) * d = 2 * (R * d) /\ (2 * r) * D = 2 * (r * D) /\ (2 * R - D) * d = 2 * (R * d) - D * d /\ (2 * r - d) * D = 2 * (r * D) - D * d
      BY <1>1
    <3> QED BY <1>1, <3>1
  <2>2. ASSUME NEW X \in Int, NEW Y \in Int, X * d = Y * D PROVE (X > 0 <=> Y > 0) /\ (X = 0 <=> Y = 0)
    <3>1. X > 0 => X * d > 0
      BY <1>1
    <3>2. X < 0 => X * d < 0
      BY <1>1
    <3>3. Y > 0 => Y * D > 0
      BY <1>1
    <3>4. Y < 0 => Y * D < 0
      BY <1>1
    <3>5. X = 0 => X * d = 0
      BY <1>1
    <3>6. Y = 0 => Y * D = 0
      BY <1>1
    <3>7. X * d \in Int /\ Y * D \in Int
      BY <1>1
    <3> QED BY <2>2, <3>1, <3>2, <3>3, <3>4, <3>5, <3>6, <3>7
  <2>3. 2 * R - D \in Int /\ 2 * r - d \in Int
    BY <1>1
  <2>4. (2 * R - D > 0 <=> 2 * r - d > 0) /\ (2 * R - D = 0 <=> 2 * r - d = 0)
    BY <2>1, <2>2, <2>3
  <2>5. R = 0 <=> r = 0
    BY <1>1, <2>2
  <2> QED BY <1>1, <2>4, <2>5
<1>5. /\ 2 * R >= D <=> 2 * r >= d
      /\ 2 * R > 0 <=> 2 * r > 0
  BY <1>1, <1>4
<1>6. Reference!RoundQuotient(rm, neg, N, D) = Reference!RoundQuotient(rm, neg, n, d)
  <2>1. CASE rm = "RNE"
    BY <1>2, <1>3, <1>4, <2>1
  <2>2. CASE rm = "RMM"
    BY <1>2, <1>3, <1>5, <2>2
  <2>3. CASE rm = "RTZ"
    BY <1>2, <1>3, <2>3
  <2>4. CASE rm = "RDN"
    BY <1>2, <1>3, <1>5, <2>4
  <2>5. CASE rm = "RUP"
    BY <1>2, <1>3, <1>5, <2>5
  <2> QED BY <2>1, <2>2, <2>3, <2>4, <2>5 DEF RoundingModes
<1> QED BY <1>4, <1>6 DEF R, r

(* The leading bit of the units of a finite number.                         *)
LEMMA UnitsMsb ==
  ASSUME NEW x, finite(x)
  PROVE  \E z \in 0..FRAC : /\ Normalises(x, decode(x), z) /\ Msb(Reference!Units(x)) = FRAC - z
                            /\ Reference!Units(x) \in Nat /\ Reference!Units(x) >= 1 /\ Reference!Last(x) \in Int
<1> DEFINE U == Reference!Units(x)
<1>1. PICK z \in 0..FRAC : Normalises(x, decode(x), z)
  BY DecodedFinite
<1>2. U \in Nat /\ U >= 1 /\ Reference!Last(x) \in Int
      /\ Reference!Log2(U, 1) + Reference!Last(x) = decode(x).exp /\ decode(x).exp \in Int
  BY UnitsLog
<1>3. FRAC \in Nat /\ FRAC >= 3 /\ BIAS \in Nat /\ ONE \in Nat /\ ONE >= 8
  BY Formats
<1>4. U * 2^z >= ONE /\ U * 2^z < 2 * ONE
  BY <1>1, <1>3 DEF Normalises
<1> HIDE DEF U
<1> DEFINE j == FRAC - z
<1>5. j \in Nat /\ j + 1 \in Nat /\ j <= 4 * (FRAC + BIAS) /\ z \in Nat /\ j + z = FRAC /\ (j + 1) + z = FRAC + 1
  BY <1>3
<1> HIDE DEF j
<1>6. 2^j * 2^z = ONE /\ 2^(j + 1) * 2^z = 2 * ONE /\ 2^j \in Nat /\ 2^(j + 1) \in Nat /\ 2^z \in Nat /\ 2^z >= 1
  <2>1. z \in 0..4 * FRAC + BIAS + 1 /\ j \in 0..4 * FRAC + BIAS + 1
        /\ j + 1 \in 0..4 * FRAC + BIAS + 1
    BY <1>3, <1>5
  <2>2. 2^(j + z) = 2^j * 2^z /\ 2^((j + 1) + z) = 2^(j + 1) * 2^z
    BY <1>5, <2>1, PowerSum
  <2> QED BY <1>5, <2>1, <2>2, Powers, Width DEF ONE
<1>7. 2^j <= U /\ U < 2^(j + 1)
  <2>1. ASSUME U < 2^j PROVE FALSE
    <3>1. U * 2^z <= (2^j - 1) * 2^z /\ (2^j - 1) * 2^z = 2^j * 2^z - 2^z
      BY <1>2, <1>6, <2>1
    <3>2. 2^j * 2^z - 2^z <= ONE - 1
      BY <1>3, <1>6
    <3>3. U * 2^z \in Int /\ 2^j * 2^z - 2^z \in Int
      BY <1>2, <1>3, <1>6
    <3>4. U * 2^z <= 2^j * 2^z - 2^z
      BY <3>1
    <3> QED BY <1>3, <1>4, <3>2, <3>3, <3>4
  <2>2. ASSUME U >= 2^(j + 1) PROVE FALSE
    <3>1. U * 2^z >= 2^(j + 1) * 2^z
      BY <1>2, <1>6, <2>2
    <3>2. U * 2^z \in Int
      BY <1>2, <1>3, <1>6
    <3>3. 2^(j + 1) * 2^z = 2 * ONE
      BY <1>6
    <3> QED BY <1>3, <1>4, <3>1, <3>2, <3>3
  <2> QED BY <1>2, <1>6, <2>1, <2>2
<1>8. Msb(U) = j
  BY <1>2, <1>5, <1>7, LeadingBit
<1> QED BY <1>1, <1>2, <1>8 DEF U, j

(* Exponents of products of powers add.                                     *)
FourMultiply(h, i, j, k) ==
  /\ 2^(h + i + j + k) = 2^h * (2^i * (2^j * 2^k))
  /\ 2^h \in Nat /\ 2^i \in Nat /\ 2^j \in Nat /\ 2^k \in Nat
  /\ 2^h >= 1 /\ 2^i >= 1 /\ 2^j >= 1 /\ 2^k >= 1

LEMMA FourPowers ==
  ASSUME NEW h \in Nat, NEW i \in Nat, NEW j \in Nat, NEW k \in Nat
  PROVE  FourMultiply(h, i, j, k)
<1>1. PICK m \in Nat : m = j + k
  OBVIOUS
<1>2. PICK n \in Nat : n = i + m
  OBVIOUS
<1>3. 2^(h + n) = 2^h * 2^n /\ 2^n = 2^i * 2^m /\ 2^m = 2^j * 2^k
  BY <1>1, <1>2, PowerSum
<1>4. h + i + j + k = h + n
  BY <1>1, <1>2
<1>5. 2^(h + i + j + k) = 2^h * (2^i * (2^j * 2^k))
  BY <1>3, <1>4
<1>6. \A e \in Nat : 2^e \in Nat /\ 2^e >= 1
  BY Powers
<1> QED BY <1>5, <1>6 DEF FourMultiply

ThreeMultiply(h, i, j) ==
  /\ 2^(h + i + j) = 2^h * (2^i * 2^j)
  /\ 2^h \in Nat /\ 2^i \in Nat /\ 2^j \in Nat

LEMMA ThreePowers ==
  ASSUME NEW h \in Nat, NEW i \in Nat, NEW j \in Nat
  PROVE  ThreeMultiply(h, i, j)
<1>1. PICK m \in Nat : m = i + j
  OBVIOUS
<1>2. 2^(h + m) = 2^h * 2^m /\ 2^m = 2^i * 2^j
  BY <1>1, PowerSum
<1>3. h + i + j = h + m
  BY <1>1
<1>4. 2^(h + i + j) = 2^h * (2^i * 2^j)
  BY <1>2, <1>3
<1>5. \A e \in Nat : 2^e \in Nat
  BY Powers
<1> QED BY <1>4, <1>5 DEF ThreeMultiply

(* What fdiv.v starts from: the quotient of A and d, in [1, 2), times 2^e.  *)
Quotes(a, b, A, d, t, e) ==
  /\ t = (IF decode(a).sig < decode(b).sig THEN 1 ELSE 0)
  /\ A = (IF t = 1 THEN 2 * decode(a).sig ELSE decode(a).sig)
  /\ d = decode(b).sig
  /\ e = decode(a).exp - decode(b).exp - t

(* The fraction n / d, times 2^e, written in the units of the reference on  *)
(* any grid in reach of the result.                                         *)
OnGrids(a, b, n, d, e) ==
  \A q \in Int, rs \in 1..FRAC + 2 :
    rs = q + FRAC + 1 - e =>
      \E N, D : /\ InUnitsOf(Reference!Units(a), Reference!Units(b), Reference!Last(a) - Reference!Last(b), q, N, D)
                /\ SameRatio(N, D, n, d * 2^rs)

(* The same quotient as fdiv.v has it and in the units of the reference.    *)
LEMMA QuotientScale ==
  ASSUME NEW a, NEW b, finite(a), finite(b), NEW A, NEW d, NEW t, NEW e, Quotes(a, b, A, d, t, e)
  PROVE  LET k == Reference!Last(a) - Reference!Last(b)
         IN  /\ A \in Nat /\ d \in Nat /\ ONE <= d /\ d <= A /\ A < 2 * d /\ d < 2 * ONE
             /\ e \in Int /\ k \in Int
             /\ Reference!Units(a) \in Nat /\ Reference!Units(a) >= 1
             /\ Reference!Log2(Reference!Units(a), Reference!Units(b)) + k = e
             /\ OnGrids(a, b, (2 * ONE) * A, d, e)
<1> DEFINE Ua == Reference!Units(a)
           Ub == Reference!Units(b)
           La == Reference!Last(a)
           Lb == Reference!Last(b)
           k == La - Lb
           s == decode(a).sig
<1>1. PICK y \in 0..FRAC : Normalises(a, decode(a), y) /\ Msb(Ua) = FRAC - y /\ Ua \in Nat /\ Ua >= 1 /\ La \in Int
  BY UnitsMsb
<1>2. PICK z \in 0..FRAC : Normalises(b, decode(b), z) /\ Msb(Ub) = FRAC - z /\ Ub \in Nat /\ Ub >= 1 /\ Lb \in Int
  BY UnitsMsb
<1>3. FRAC \in Nat /\ FRAC >= 3 /\ BIAS \in Nat /\ BIAS > FRAC /\ ONE \in Nat /\ ONE >= 8
  BY Formats
<1>4. /\ s = Ua * 2^y /\ decode(a).exp - FRAC = La - y /\ s \in ONE..2 * ONE - 1 /\ decode(a).exp \in 1 - BIAS - FRAC..BIAS
  BY <1>1 DEF Normalises
<1>5. /\ d = Ub * 2^z /\ decode(b).exp - FRAC = Lb - z /\ d \in ONE..2 * ONE - 1 /\ decode(b).exp \in 1 - BIAS - FRAC..BIAS
  BY <1>2 DEF Normalises, Quotes
<1>6. /\ t = (IF s < d THEN 1 ELSE 0)
      /\ A = (IF t = 1 THEN 2 * s ELSE s)
      /\ e = decode(a).exp - decode(b).exp - t
  BY DEF Quotes
<1> HIDE DEF Ua, Ub, La, Lb, s
<1>7. s \in Nat /\ d \in Nat /\ A \in Nat /\ ONE <= d /\ d <= A /\ A < 2 * d /\ d < 2 * ONE /\ t \in 0..1
  BY <1>3, <1>4, <1>5, <1>6
<1>8. e \in Int /\ k \in Int /\ k = e + t + y - z
  <2>1. La \in Int /\ Lb \in Int
    BY <1>1, <1>2
  <2>2. decode(a).exp \in Int /\ decode(b).exp \in Int
    BY <1>3, <1>4, <1>5
  <2>3. decode(a).exp - FRAC = La - y /\ decode(b).exp - FRAC = Lb - z /\ e = decode(a).exp - decode(b).exp - t
    BY <1>4, <1>5, <1>6
  <2> DEFINE ea == decode(a).exp
             eb == decode(b).exp
  <2> HIDE DEF ea, eb
  <2>4. ea \in Int /\ eb \in Int /\ ea - FRAC = La - y /\ eb - FRAC = Lb - z /\ e = ea - eb - t
    BY <2>2, <2>3 DEF ea, eb
  <2> QED BY <1>1, <1>2, <1>3, <1>7, <2>1, <2>4
<1>9. y \in Nat /\ z \in Nat /\ y <= FRAC /\ z <= FRAC
  BY <1>1, <1>2, <1>3
<1>10. Reference!Log2(Ua, Ub) = z - y - t
  <2>1. Reference!Log2(Ua, Ub) =
           IF (IF z - y >= 0 THEN Ua >= Ub * 2^(z - y) ELSE Ua * 2^(-(z - y)) >= Ub)
           THEN z - y ELSE z - y - 1
    <3>1. Msb(Ua) - Msb(Ub) = z - y
      BY <1>1, <1>2, <1>3, <1>9 DEF Ua, Ub
    <3> QED BY <3>1, ReferenceFormat DEF Reference!Log2, Reference!Pow2
  <2>2. CASE z - y >= 0
    <3> DEFINE g == z - y
    <3>1. g \in Nat /\ g + y = z /\ g \in 0..4 * FRAC + BIAS + 1 /\ y \in 0..4 * FRAC + BIAS + 1
      BY <1>3, <1>9, <2>2
    <3> HIDE DEF g
    <3>2. 2^z = 2^g * 2^y /\ 2^g \in Nat /\ 2^y \in Nat /\ 2^y >= 1
      BY <1>9, <3>1, PowerSum, Powers
    <3> DEFINE G == 2^g
               Y == 2^y
    <3>3. G \in Nat /\ Y \in Nat /\ Y >= 1 /\ d = Ub * (G * Y) /\ s = Ua * Y
      BY <1>4, <1>5, <3>2
    <3> HIDE DEF G, Y
    <3>4. Ua >= Ub * G <=> ~(s < d)
      <4>1. Ub * G \in Nat /\ d = (Ub * G) * Y
        BY <1>2, <3>3 DEF Ub
      <4>2. ASSUME Ua >= Ub * G PROVE s >= d
        BY <1>1, <3>3, <4>1, <4>2 DEF Ua
      <4>3. ASSUME Ua < Ub * G PROVE s < d
        <5>1. Ua * Y <= (Ub * G - 1) * Y /\ (Ub * G - 1) * Y = (Ub * G) * Y - Y
          BY <1>1, <3>3, <4>1, <4>3 DEF Ua
        <5> QED BY <1>7, <3>3, <4>1, <5>1
      <4> QED BY <1>1, <1>7, <4>1, <4>2, <4>3 DEF Ua
    <3> QED BY <1>6, <1>7, <1>9, <2>1, <2>2, <3>4 DEF g, G
  <2>3. CASE z - y < 0
    <3> DEFINE g == -(z - y)
    <3>1. g \in Nat /\ g + z = y /\ g \in 0..4 * FRAC + BIAS + 1 /\ z \in 0..4 * FRAC + BIAS + 1
      BY <1>3, <1>9, <2>3
    <3> HIDE DEF g
    <3>2. 2^y = 2^g * 2^z /\ 2^g \in Nat /\ 2^z \in Nat /\ 2^z >= 1
      BY <1>9, <3>1, PowerSum, Powers
    <3> DEFINE G == 2^g
               Z == 2^z
    <3>3. G \in Nat /\ Z \in Nat /\ Z >= 1 /\ d = Ub * Z /\ s = Ua * (G * Z)
      BY <1>4, <1>5, <3>2
    <3> HIDE DEF G, Z
    <3>4. Ua * G >= Ub <=> ~(s < d)
      <4>1. Ua * G \in Nat /\ s = (Ua * G) * Z
        BY <1>1, <3>3 DEF Ua
      <4>2. ASSUME Ua * G >= Ub PROVE s >= d
        BY <1>2, <3>3, <4>1, <4>2 DEF Ub
      <4>3. ASSUME Ua * G <= Ub - 1 PROVE s < d
        <5>1. (Ua * G) * Z <= (Ub - 1) * Z /\ (Ub - 1) * Z = Ub * Z - Z
          BY <1>2, <3>3, <4>1, <4>3 DEF Ub
        <5> QED BY <1>7, <3>3, <4>1, <5>1
      <4> QED BY <1>2, <1>7, <4>1, <4>2, <4>3 DEF Ub
    <3> QED BY <1>6, <1>7, <1>9, <2>1, <2>3, <3>4 DEF g, G
  <2> QED BY <1>9, <2>2, <2>3
<1>11. Reference!Log2(Ua, Ub) + k = e
  BY <1>7, <1>8, <1>9, <1>10
<1>12. ASSUME NEW q \in Int, NEW rs \in 1..FRAC + 2, rs = q + FRAC + 1 - e
       PROVE  \E N, D : InUnitsOf(Ua, Ub, k, q, N, D) /\ SameRatio(N, D, (2 * ONE) * A, d * 2^rs)
  <2>0. rs \in Nat /\ rs <= FRAC + 2 /\ 2^rs \in Nat /\ 2^rs >= 1
    <3>1. rs \in 0..4 * FRAC + BIAS + 1 /\ rs \in Nat /\ rs <= FRAC + 2
      BY <1>3
    <3> QED BY <3>1, Powers
  <2>1. 2 * ONE = 2^(FRAC + 1) /\ A = s * 2^t /\ 2^t \in Nat
    <3>1. 2 * ONE = 2^(FRAC + 1)
      BY Width DEF ONE
    <3>2. CASE t = 1
      <4>1. 2^t = 2
        <5>1. 2^1 = 2
          OBVIOUS
        <5> QED BY <3>2, <5>1
      <4> QED BY <1>6, <1>7, <3>1, <3>2, <4>1
    <3>3. CASE t = 0
      <4>1. 2^t = 1
        <5>1. 2^0 = 1
          OBVIOUS
        <5> QED BY <3>3, <5>1
      <4> QED BY <1>6, <1>7, <3>1, <3>3, <4>1
    <3> QED BY <1>7, <3>2, <3>3
  <2>2. (2 * ONE) * A \in Nat /\ d * 2^rs \in Nat /\ d * 2^rs >= 1
    <3>1. ONE * A \in Nat /\ (2 * ONE) * A = 2 * (ONE * A)
      BY <1>3, <1>7
    <3>2. d * 2^rs >= d * 1
      BY <1>3, <1>7, <2>0
    <3> QED BY <1>3, <1>7, <2>0, <3>1, <3>2
  <2>3. CASE k >= q
    <3> DEFINE i == k - q
    <3>1. i \in Nat /\ i + z + rs = FRAC + 1 + y + t /\ i + z + rs <= 2 * FRAC + 2
      BY <1>3, <1>7, <1>8, <1>9, <1>12, <2>0, <2>3
    <3> HIDE DEF i
    <3>2. FRAC + 1 \in Nat /\ t \in Nat
          /\ i + z + rs = (FRAC + 1) + y + t
      BY <1>3, <1>7, <1>9, <2>0, <3>1
    <3>3. /\ 2^(i + z + rs) = 2^i * (2^z * 2^rs)
          /\ 2^i \in Nat /\ 2^z \in Nat
      <4>1. ThreeMultiply(i, z, rs)
        BY <1>9, <2>0, <3>1, ThreePowers
      <4> QED BY <4>1 DEF ThreeMultiply
    <3>4. /\ 2^((FRAC + 1) + y + t) = 2^(FRAC + 1) * (2^y * 2^t)
          /\ 2^y \in Nat
      <4>1. PICK f \in Nat : f = FRAC + 1
        BY <3>2
      <4>2. 2^(f + y + t) = 2^f * (2^y * 2^t) /\ 2^y \in Nat
        <5>1. ThreeMultiply(f, y, t)
          BY <1>9, <3>2, <4>1, ThreePowers
        <5> QED BY <5>1 DEF ThreeMultiply
      <4> QED BY <4>1, <4>2
    <3> DEFINE I == 2^i
               Z == 2^z
               R == 2^rs
               T == 2^t
               Y == 2^y
               F == 2 * ONE
    <3>6. I * (Z * R) = F * (Y * T) /\ I \in Nat /\ Z \in Nat /\ R \in Nat /\ T \in Nat /\ Y \in Nat /\ F \in Nat
      BY <1>3, <2>0, <2>1, <3>2, <3>3, <3>4
    <3>7. A = (Ua * Y) * T /\ d = Ub * Z
      BY <1>4, <1>5, <2>1
    <3> HIDE DEF I, Z, R, T, Y, F
    <3>8. (Ua * I) * (d * R) = (F * A) * Ub
      <4>1. (Ua * I) * ((Ub * Z) * R) = (Ua * Ub) * (I * (Z * R))
        BY <1>1, <1>2, <3>6 DEF Ua, Ub
      <4>2. (F * ((Ua * Y) * T)) * Ub = (Ua * Ub) * (F * (Y * T))
        BY <1>1, <1>2, <3>6 DEF Ua, Ub
      <4> QED BY <3>6, <3>7, <4>1, <4>2
    <3>9. SameRatio(Ua * I, Ub, F * A, d * R)
      <4>1. Ua * I \in Nat
        BY <1>1, <3>6 DEF Ua
      <4> QED BY <1>2, <2>2, <3>8, <4>1 DEF SameRatio, Ub, F, R
    <3>10. InUnitsOf(Ua, Ub, k, q, Ua * I, Ub)
      BY <2>3 DEF InUnitsOf, I, i
    <3> QED BY <3>9, <3>10 DEF F, R
  <2>4. CASE k < q
    <3> DEFINE i == q - k
    <3>1. i \in Nat /\ z + rs = FRAC + 1 + y + t + i /\ z + rs <= 2 * FRAC + 2
      BY <1>3, <1>7, <1>8, <1>9, <1>12, <2>0, <2>4
    <3> HIDE DEF i
    <3>2. FRAC + 1 \in Nat /\ t \in Nat
          /\ z + rs = (FRAC + 1) + y + t + i
      BY <1>3, <1>7, <1>9, <2>0, <3>1
    <3>3. /\ 2^(z + rs) = 2^z * 2^rs
          /\ 2^z \in Nat
      <4>1. z \in Nat /\ rs \in Nat
        BY <1>9, <2>0
      <4>2. 2^(z + rs) = 2^z * 2^rs
        BY <4>1, PowerSum
      <4>3. 2^z \in Nat
        BY <4>1, Powers
      <4> QED BY <4>2, <4>3
    <3>4. /\ 2^((FRAC + 1) + y + t + i) = 2^(FRAC + 1) * (2^y * (2^t * 2^i))
          /\ 2^y \in Nat /\ 2^i \in Nat /\ 2^i >= 1
      <4>1. PICK f \in Nat : f = FRAC + 1
        BY <3>2
      <4>2. FourMultiply(f, y, t, i)
        BY <1>9, <3>1, <3>2, <4>1, FourPowers
      <4> QED BY <4>1, <4>2 DEF FourMultiply
    <3> DEFINE I == 2^i
               Z == 2^z
               R == 2^rs
               T == 2^t
               Y == 2^y
               F == 2 * ONE
    <3>6. Z * R = F * (Y * (T * I)) /\ I \in Nat /\ I >= 1 /\ Z \in Nat /\ R \in Nat /\ T \in Nat /\ Y \in Nat /\ F \in Nat
      BY <1>3, <2>0, <2>1, <3>2, <3>3, <3>4
    <3>7. A = (Ua * Y) * T /\ d = Ub * Z
      BY <1>4, <1>5, <2>1
    <3> HIDE DEF I, Z, R, T, Y, F
    <3>8. Ua * (d * R) = (F * A) * (Ub * I)
      <4>1. Ua * ((Ub * Z) * R) = (Ua * Ub) * (Z * R)
        BY <1>1, <1>2, <3>6 DEF Ua, Ub
      <4>2. (F * ((Ua * Y) * T)) * (Ub * I) = (Ua * Ub) * (F * (Y * (T * I)))
        BY <1>1, <1>2, <3>6 DEF Ua, Ub
      <4> QED BY <3>6, <3>7, <4>1, <4>2
    <3>9. SameRatio(Ua, Ub * I, F * A, d * R)
      <4>1. Ub * I \in Nat /\ Ub * I >= 1
        <5>1. Ub * I >= 1 * I
          BY <1>2, <3>6 DEF Ub
        <5> QED BY <1>2, <3>6, <5>1 DEF Ub
      <4> QED BY <1>1, <2>2, <3>8, <4>1 DEF SameRatio, Ua, F, R
    <3>10. InUnitsOf(Ua, Ub, k, q, Ua, Ub * I)
      BY <1>8, <2>4 DEF InUnitsOf, I, i
    <3> QED BY <3>9, <3>10 DEF F, R
  <2> QED BY <1>8, <2>3, <2>4
<1>13. OnGrids(a, b, (2 * ONE) * A, d, e)
  BY <1>12 DEF OnGrids, Ua, Ub, La, Lb
<1> QED BY <1>1, <1>7, <1>8, <1>11, <1>13 DEF Ua, Ub, La, Lb

(* What the divider works on until it answers: the operands and the mode of *)
(* the request, of which the digits so far have lost nothing.               *)
Dividend(s1, s2) == (IF s1.sig < s2.sig THEN 2 * s1.sig ELSE s1.sig) - s2.sig

DivOfRequest ==
  fdiv.busy =>
    /\ fdiv.s1 = decode(request.a) /\ fdiv.s2 = decode(request.b) /\ fdiv.rm = request.rm
    /\ Finite(fdiv.s1, fdiv.s2) =>
         fdiv.quo * fdiv.s2.sig + fdiv.rem = 2^(2 * fdiv.cnt) * Dividend(fdiv.s1, fdiv.s2)
    /\ fdiv.wb_valid => fdiv.cnt = DIGITS /\ fdiv.wb = result_combo

(* The digits are as many as twice the leading bit needs.                   *)
LEMMA DigitCount ==
  /\ DIGITS = STEPS /\ DIGITS \in Nat /\ DIGITS >= 2 /\ 2^(2 * DIGITS) = 2 * ONE
  /\ \A c \in 0..DIGITS : 2^(2 * c) \in Nat
  /\ \A c \in Nat : c < DIGITS => 2^(2 * (c + 1)) = 4 * 2^(2 * c)
<1>1. DIGITS = STEPS /\ STEPS \in Nat /\ STEPS >= 2 /\ 2 * STEPS = FRAC + 1
  BY Width DEF DIGITS, STEPS
<1>2. FRAC + 1 - 2 * STEPS = 0
  BY <1>1, Width
<1>3. Place(STEPS) = 1
  <2>1. 2^0 = 1
    OBVIOUS
  <2> QED BY <1>2, <2>1 DEF Place
<1>4. STEPS \in 0..STEPS
  BY <1>1
<1>5. 2^(2 * STEPS) * Place(STEPS) = 2 * ONE /\ 2^(2 * STEPS) \in Nat
  BY <1>4, PlaceFacts
<1>6. 2^(2 * STEPS) = 2 * ONE
  BY <1>3, <1>5
<1>7. \A c \in Nat : c < STEPS => c \in 0..STEPS
  BY <1>1
<1> QED BY <1>1, <1>6, <1>7, PlaceFacts

(* A clock of the divider loses none of it.                                 *)
LEMMA DivOfRequestClock ==
  ASSUME DivInv, DivOfRequest, fdiv.busy = TRUE, DivClock,
         fdiv'.busy => request' = request
  PROVE  DivOfRequest'
<1>1. DOMAIN fdiv = DOMAIN DivIdle
  BY DEF DivInv, DivTypeOK
<1>2. CASE DivStep
  <2>1. fdiv'.s1 = fdiv.s1 /\ fdiv'.s2 = fdiv.s2 /\ fdiv'.rm = fdiv.rm /\ fdiv'.cnt = fdiv.cnt + 1
        /\ fdiv'.wb_valid = fdiv.wb_valid /\ ~fdiv.wb_valid /\ fdiv'.busy = TRUE /\ fdiv.cnt < DIGITS
    BY <1>1, <1>2 DEF DivStep, DivIdle, Running
  <2>2. ASSUME Finite(fdiv.s1, fdiv.s2)
        PROVE  fdiv'.quo * fdiv'.s2.sig + fdiv'.rem = 2^(2 * fdiv'.cnt) * Dividend(fdiv'.s1, fdiv'.s2)
    <3>1. fdiv'.quo * fdiv.s2.sig + fdiv'.rem = 4 * (fdiv.quo * fdiv.s2.sig + fdiv.rem)
      BY <1>2, <2>2, StepInv
    <3>2. fdiv.quo * fdiv.s2.sig + fdiv.rem = 2^(2 * fdiv.cnt) * Dividend(fdiv.s1, fdiv.s2)
      BY <2>2 DEF DivOfRequest
    <3>3. fdiv.cnt \in Nat /\ 2^(2 * fdiv.cnt) \in Nat /\ 2^(2 * (fdiv.cnt + 1)) = 4 * 2^(2 * fdiv.cnt)
      BY <2>1, DigitCount DEF DivInv, DivTypeOK
    <3>4. Dividend(fdiv.s1, fdiv.s2) \in Int
      BY DivNormalised DEF Dividend, DivInv, DivTypeOK
    <3>5. 4 * (2^(2 * fdiv.cnt) * Dividend(fdiv.s1, fdiv.s2)) = (4 * 2^(2 * fdiv.cnt)) * Dividend(fdiv.s1, fdiv.s2)
      BY <3>3, <3>4
    <3> QED BY <2>1, <3>1, <3>2, <3>3, <3>5
  <2> QED BY <2>1, <2>2 DEF DivOfRequest
<1>3. CASE DivFinish
  <2>1. fdiv'.s1 = fdiv.s1 /\ fdiv'.s2 = fdiv.s2 /\ fdiv'.rm = fdiv.rm /\ fdiv'.quo = fdiv.quo /\ fdiv'.rem = fdiv.rem
        /\ fdiv'.cnt = fdiv.cnt /\ fdiv.cnt = DIGITS /\ fdiv'.wb = result_combo /\ fdiv'.busy = TRUE
    BY <1>1, <1>3 DEF DivFinish, DivIdle, Running
  <2>2. result_combo' = result_combo
    BY <2>1 DEF result_combo
  <2>3. Dividend(fdiv.s1, fdiv.s2)' = Dividend(fdiv.s1, fdiv.s2)
    BY <2>1 DEF Dividend
  <2> QED BY <2>1, <2>2, <2>3 DEF DivOfRequest
<1>4. CASE DivRelease
  BY <1>4 DEF DivRelease, DivIdle, DivOfRequest
<1> QED BY <1>2, <1>3, <1>4 DEF DivClock

(* Until it answers, fdiv.v holds the operands and the mode it was issued,  *)
(* and its quotient and remainder are those of the digits found.            *)
THEOREM SpecDivOfRequest == Spec => []DivOfRequest
<1>1. Init => DivOfRequest
  BY DEF Init, DivInit, DivIdle, DivOfRequest
<1>2. DivOfRequest /\ Serves /\ DivInv /\ Serves' /\ [Next]_vars => DivOfRequest'
  <2> SUFFICES ASSUME DivOfRequest, Serves, DivInv, Serves', [Next]_vars PROVE DivOfRequest'
    OBVIOUS
  <2>1. ASSUME request = None, NEW r \in Requests, Load(r) PROVE DivOfRequest'
    <3>1. request' = r
      BY <2>1 DEF Load
    <3>2. CASE r.op = "FDIV_S"
      <4>1. DivStart(decode(r.a), decode(r.b), r.rm)
        BY <2>1, <3>2 DEF Load
      <4>2. /\ fdiv'.s1 = decode(r.a) /\ fdiv'.s2 = decode(r.b) /\ fdiv'.rm = r.rm /\ fdiv'.wb_valid = FALSE
            /\ fdiv'.quo = 0 /\ fdiv'.cnt = 0 /\ fdiv'.rem = Dividend(decode(r.a), decode(r.b))
        BY <4>1 DEF DivStart, DivIdle, Dividend
      <4>3. decode(r.a) \in Operands /\ decode(r.b) \in Operands
        BY RequestFields, DecodedOperand
      <4>4. decode(r.b).sig \in Int /\ Dividend(decode(r.a), decode(r.b)) \in Int
        BY <4>3, DivNormalised DEF Dividend
      <4>5. 2^(2 * fdiv'.cnt) = 1
        <5>1. 2^(2 * 0) = 1
          OBVIOUS
        <5> QED BY <4>2, <5>1
      <4>6. fdiv'.quo * fdiv'.s2.sig + fdiv'.rem = 2^(2 * fdiv'.cnt) * Dividend(fdiv'.s1, fdiv'.s2)
        BY <4>2, <4>4, <4>5
      <4> QED BY <3>1, <4>2, <4>6 DEF DivOfRequest
    <3>3. CASE r.op # "FDIV_S"
      BY <3>1, <3>3 DEF DivOfRequest, Serves
    <3> QED BY <3>2, <3>3
  <2>2. CASE Cycle
    <3>1. CASE fdiv.busy
      <4>1. fdiv'.busy => request' = request
        <5>1. None.op # "FDIV_S"
          BY OpsDiffer DEF Ops
        <5> QED BY <2>2, <5>1 DEF Cycle, Serves
      <4>2. DivClock /\ fdiv.busy = TRUE
        BY <2>2, <3>1 DEF Cycle, Serves
      <4> QED BY <4>1, <4>2, DivOfRequestClock
    <3>2. CASE ~fdiv.busy
      BY <2>2, <3>2 DEF Cycle, DivOfRequest
    <3> QED BY <3>1, <3>2
  <2>3. CASE Flush
    <3>1. None.op # "FDIV_S"
      BY OpsDiffer DEF Ops
    <3> QED BY <2>3, <3>1 DEF Flush, Serves, DivOfRequest
  <2>4. CASE UNCHANGED vars
    <3>1. request' = request /\ fdiv' = fdiv
      BY <2>4 DEF vars
    <3>2. result_combo' = result_combo
      BY <3>1 DEF result_combo
    <3>3. Dividend(fdiv.s1, fdiv.s2)' = Dividend(fdiv.s1, fdiv.s2)
      BY <3>1 DEF Dividend
    <3> QED BY <3>1, <3>2, <3>3 DEF DivOfRequest
  <2> QED BY <2>1, <2>2, <2>3, <2>4 DEF Next, Issue
<1> QED BY <1>1, <1>2, SpecServes, SpecDivide, DivInvariant, PTL DEF Spec

(* After the last digit and the repair: one division, with its remainder.   *)
LEMMA QuotientFound ==
  ASSUME DivInv, DivOfRequest, fdiv.busy, fdiv.cnt = DIGITS, Finite(fdiv.s1, fdiv.s2),
         NEW A, NEW d, A = Dividend(fdiv.s1, fdiv.s2) + fdiv.s2.sig, d = fdiv.s2.sig
  PROVE  LET frac == (IF fdiv.rem < 0 THEN fdiv.quo - 1 ELSE fdiv.quo) % (2 * ONE)
             rest == IF fdiv.rem < 0 THEN fdiv.rem + d ELSE fdiv.rem
         IN  frac \in 0..2 * ONE - 1 /\ rest \in 0..d - 1 /\ (2 * ONE) * A = (2 * ONE + frac) * d + rest
<1> DEFINE P == Dividend(fdiv.s1, fdiv.s2)
           Q == IF fdiv.rem < 0 THEN fdiv.quo - 1 ELSE fdiv.quo
           R == IF fdiv.rem < 0 THEN fdiv.rem + d ELSE fdiv.rem
<1>1. fdiv.s1 \in Operands /\ fdiv.s2 \in Operands /\ fdiv.quo \in Int /\ fdiv.rem \in Int
  BY Formats DEF DivInv, DivTypeOK
<1>2. P \in 0..d - 1 /\ d \in Nat
  <2>1. d \in Nat
    BY <1>1, DivNormalised
  <2> QED BY <1>1, <2>1, StartBound DEF Dividend
<1>3. 3 * Magnitude(fdiv.rem) <= 2 * d
  BY DigitCount DEF DivInv, RemainderBounded
<1>4. fdiv.quo * d + fdiv.rem = (2 * ONE) * P
  BY DigitCount DEF DivOfRequest
<1>5. ONE \in Nat /\ ONE >= 8
  BY Formats
<1> HIDE DEF P
<1>6. Q \in Int /\ R \in 0..d - 1 /\ Q * d + R = (2 * ONE) * P
  <2>1. CASE fdiv.rem < 0
    <3>1. (fdiv.quo - 1) * d = fdiv.quo * d - d /\ fdiv.quo * d \in Int
      BY <1>1, <1>2
    <3>2. R \in 0..d - 1
      BY <1>1, <1>2, <1>3, <2>1 DEF Magnitude
    <3> QED BY <1>1, <1>2, <1>4, <2>1, <3>1, <3>2
  <2>2. CASE ~(fdiv.rem < 0)
    <3>1. R \in 0..d - 1
      BY <1>1, <1>2, <1>3, <2>2 DEF Magnitude
    <3> QED BY <1>1, <1>4, <2>2, <3>1
  <2> QED BY <2>1, <2>2
<1> HIDE DEF Q, R
<1>7. Q >= 0
  <2>1. ASSUME Q <= -1 PROVE FALSE
    <3>1. Q * d <= (-1) * d /\ (-1) * d = -d /\ Q * d \in Int
      BY <1>2, <1>6, <2>1
    <3>2. (2 * ONE) * P >= 0
      <4>1. ONE * P \in Nat /\ (2 * ONE) * P = 2 * (ONE * P)
        BY <1>2, <1>5
      <4> QED BY <4>1
    <3> QED BY <1>2, <1>6, <3>1, <3>2
  <2> QED BY <1>6, <2>1
<1>8. Q < 2 * ONE
  <2>1. ASSUME Q >= 2 * ONE PROVE FALSE
    <3>1. Q * d >= (2 * ONE) * d /\ Q * d \in Int
      BY <1>2, <1>5, <1>6, <2>1
    <3>2. (2 * ONE) * P <= (2 * ONE) * (d - 1) /\ (2 * ONE) * (d - 1) = (2 * ONE) * d - 2 * ONE
      BY <1>2, <1>5
    <3>3. (2 * ONE) * d \in Int /\ (2 * ONE) * P \in Int
      BY <1>2, <1>5
    <3> QED BY <1>2, <1>5, <1>6, <3>1, <3>2, <3>3
  <2> QED BY <1>5, <1>6, <2>1
<1>9. Q % (2 * ONE) = Q
  BY <1>5, <1>6, <1>7, <1>8
<1>10. A = P + d
  BY DEF P
<1>11. (2 * ONE) * (P + d) = (2 * ONE) * P + (2 * ONE) * d /\ (2 * ONE + Q) * d = (2 * ONE) * d + Q * d
       /\ (2 * ONE) * P \in Int /\ (2 * ONE) * d \in Int /\ Q * d \in Int
  BY <1>2, <1>5, <1>6
<1>12. (2 * ONE) * A = (2 * ONE + Q) * d + R
  BY <1>6, <1>10, <1>11
<1> QED BY <1>5, <1>6, <1>7, <1>8, <1>9, <1>12 DEF Q, R

(* The quotient of finite numbers when the last digit is repaired.          *)
Found(a, b, d, e, frac, rest) ==
  /\ finite(a) /\ finite(b)
  /\ \E A, t : Quotes(a, b, A, d, t, e) /\ (2 * ONE) * A = (2 * ONE + frac) * d + rest
  /\ frac \in 0..2 * ONE - 1 /\ rest \in 0..d - 1

(* What is rounded, in which direction; st is the sticky bit.               *)
Rounding(rm, neg, a, b, d, e, frac, rest, st) ==
  /\ rm \in RoundingModes /\ neg \in BOOLEAN
  /\ Found(a, b, d, e, frac, rest)
  /\ st \in BOOLEAN /\ (st <=> rest # 0)

(* Of a quotient found: its exponent, and its value on any grid in reach.   *)
LEMMA FoundScale ==
  ASSUME NEW a, NEW b, NEW d, NEW e, NEW frac, NEW rest, Found(a, b, d, e, frac, rest)
  PROVE  LET k == Reference!Last(a) - Reference!Last(b)
             n == (2 * ONE + frac) * d + rest
         IN  /\ d \in Nat /\ d >= 8 /\ e \in Int /\ n \in Nat
             /\ Reference!Units(a) \in Nat /\ Reference!Units(a) >= 1
             /\ Reference!Log2(Reference!Units(a), Reference!Units(b)) + k = e
             /\ \A q \in Int, rs \in 1..FRAC + 2 :
                  rs = q + FRAC + 1 - e =>
                    \E N, D : /\ InUnitsOf(Reference!Units(a), Reference!Units(b), k, q, N, D)
                              /\ SameRatio(N, D, n, d * 2^rs)
<1>1. PICK A, t : Quotes(a, b, A, d, t, e) /\ (2 * ONE) * A = (2 * ONE + frac) * d + rest
  BY DEF Found
<1>2. ONE \in Nat /\ ONE >= 8
  BY Formats
<1>3. finite(a) /\ finite(b)
  BY DEF Found
<1>4. A \in Nat /\ (2 * ONE) * A \in Nat
  <2>1. A \in Nat
    BY <1>1, <1>3, QuotientScale
  <2>2. ONE * A \in Nat /\ (2 * ONE) * A = 2 * (ONE * A)
    BY <1>2, <2>1
  <2> QED BY <2>1, <2>2
<1> DEFINE n == (2 * ONE + frac) * d + rest
<1>5. n = (2 * ONE) * A /\ n \in Nat
  BY <1>1, <1>4
<1> HIDE DEF n
<1>6. LET k == Reference!Last(a) - Reference!Last(b)
      IN  /\ d \in Nat /\ ONE <= d /\ e \in Int
          /\ Reference!Units(a) \in Nat /\ Reference!Units(a) >= 1
          /\ Reference!Log2(Reference!Units(a), Reference!Units(b)) + k = e
          /\ \A q \in Int, rs \in 1..FRAC + 2 :
               rs = q + FRAC + 1 - e =>
                 \E N, D : /\ InUnitsOf(Reference!Units(a), Reference!Units(b), k, q, N, D)
                           /\ SameRatio(N, D, n, d * 2^rs)
  <2> DEFINE k == Reference!Last(a) - Reference!Last(b)
  <2>1. /\ d \in Nat /\ ONE <= d /\ e \in Int
        /\ Reference!Units(a) \in Nat /\ Reference!Units(a) >= 1
        /\ Reference!Log2(Reference!Units(a), Reference!Units(b)) + k = e
    BY <1>1, <1>3, QuotientScale
  <2>2. Quotes(a, b, A, d, t, e)
    BY <1>1
  <2>3. OnGrids(a, b, (2 * ONE) * A, d, e)
    BY <1>3, <2>2, QuotientScale
  <2>4. OnGrids(a, b, n, d, e)
    BY <1>5, <2>3
  <2> QED BY <2>1, <2>4 DEF OnGrids
<1> QED BY <1>2, <1>5, <1>6 DEF n

(* The rounding of normal results, and of all results as if exponents were  *)
(* unbounded.                                                               *)
LEMMA NormalRounds ==
  ASSUME NEW rm, NEW neg, NEW a, NEW b, NEW d, NEW e, NEW frac, NEW rest, NEW st,
         Rounding(rm, neg, a, b, d, e, frac, rest, st)
  PROVE  LET k == Reference!Last(a) - Reference!Last(b)
             x == Normal(rm, neg, e, frac, st)
         IN  \E N, D \in Nat :
               /\ D >= 1 /\ InUnitsOf(Reference!Units(a), Reference!Units(b), k, e - FRAC, N, D)
               /\ ONE * D <= N /\ N < (2 * ONE) * D
               /\ LET m == Reference!RoundQuotient(rm, neg, N, D)
                  IN  /\ m \in ONE..2 * ONE
                      /\ x.exp = e + (IF m = 2 * ONE THEN 1 ELSE 0)
                      /\ x.frac = m % ONE
                      /\ x.inexact <=> N % D # 0
<1> DEFINE k == Reference!Last(a) - Reference!Last(b)
           n == (2 * ONE + frac) * d + rest
<1>1. rm \in RoundingModes /\ neg \in BOOLEAN /\ Found(a, b, d, e, frac, rest) /\ st \in BOOLEAN /\ (st <=> rest # 0)
  BY DEF Rounding
<1>2. d \in Nat /\ d >= 8 /\ e \in Int /\ n \in Nat
  BY <1>1, FoundScale
<1>2a. /\ FRAC \in Nat /\ FRAC >= 3 /\ ONE \in Nat /\ ONE >= 8
      /\ frac \in Nat /\ frac < 2 * ONE /\ rest \in Nat /\ rest < d
  BY <1>1, <1>2, Formats DEF Found
<1>3. PICK N, D : InUnitsOf(Reference!Units(a), Reference!Units(b), k, e - FRAC, N, D) /\ SameRatio(N, D, n, d * 2^1)
  <2>1. PICK q \in Int : q = e - FRAC
    BY <1>1, <1>2a, <1>2
  <2>2. PICK rs \in 1..FRAC + 2 : rs = 1
    BY <1>1, <1>2a
  <2>3. rs = q + FRAC + 1 - e
    BY <1>1, <1>2a, <1>2, <2>1, <2>2
  <2>4. \E N, D : InUnitsOf(Reference!Units(a), Reference!Units(b), k, q, N, D) /\ SameRatio(N, D, n, d * 2^rs)
    BY <1>1, <2>3, FoundScale
  <2> QED BY <2>1, <2>2, <2>4
<1>4. SameRatio(N, D, n, 2 * d)
  <2>1. d * 2^1 = 2 * d
    <3>1. 2^1 = 2
      OBVIOUS
    <3> QED BY <1>2, <3>1
  <2> QED BY <1>3, <2>1
<1> DEFINE half == frac \div 2
           g == Odd(frac)
<1>5. half \in Nat /\ frac = 2 * half + (IF g THEN 1 ELSE 0) /\ half < ONE
  BY <1>1, <1>2a DEF Odd
<1>6. Odd(half) = Bit(frac, 1) /\ Odd(ONE + half) = Odd(half)
  <2>1. 2^1 = 2
    OBVIOUS
  <2>2. ONE = 4 * 2^(FRAC - 2) /\ 2^(FRAC - 2) \in Nat
    BY Width
  <2>3. (ONE + half) % 2 = half % 2
    BY <1>5, <2>2
  <2> QED BY <2>1, <2>3 DEF Bit, Odd
<1> DEFINE up == round_up(rm, neg, Bit(frac, 1), g, FALSE, st)
           fc == half + (IF up THEN 1 ELSE 0)
           x == Normal(rm, neg, e, frac, st)
<1>7. x.exp = e + fc \div ONE /\ x.frac = fc % ONE /\ x.inexact = inexact(g, FALSE, st)
  BY DEF Normal
<1> HIDE DEF x
<1>8. g \in BOOLEAN
  BY DEF Odd
<1> HIDE DEF half, g, n
<1>9. n = (2 * d) * (ONE + half) + ((IF g THEN d ELSE 0) + rest)
  <2>1. CASE g
    <3>1. (2 * ONE + (2 * half + 1)) * d = (2 * d) * (ONE + half) + d /\ (2 * d) * (ONE + half) \in Int
      BY <1>1, <1>2a, <1>2, <1>5
    <3> QED BY <1>1, <1>2a, <1>2, <1>5, <2>1, <3>1 DEF n
  <2>2. CASE ~g
    <3>1. (2 * ONE + (2 * half + 0)) * d = (2 * d) * (ONE + half) /\ (2 * d) * (ONE + half) \in Int
      BY <1>1, <1>2a, <1>2, <1>5
    <3> QED BY <1>1, <1>2a, <1>2, <1>5, <2>2, <3>1 DEF n
  <2> QED BY <2>1, <2>2
<1>10. Division(n, 2 * d, ONE + half, (IF g THEN d ELSE 0) + rest)
  BY <1>1, <1>2a, <1>2, <1>5, <1>9 DEF Division
<1>11. n \div (2 * d) = ONE + half /\ n % (2 * d) = (IF g THEN d ELSE 0) + rest
  BY <1>10, DivisionIs
<1>12. ASSUME NEW ro \in BOOLEAN, ~ro PROVE LeavesBits(n, d, g, ro, st)
  <2>1. rest \in 0..d - 1
    BY <1>1, <1>2a, <1>2
  <2> QED BY <1>1, <1>11, <1>12, <2>1 DEF LeavesBits
<1>13. /\ Reference!RoundQuotient(rm, neg, n, 2 * d) =
            IF round_up(rm, neg, Odd(ONE + half), g, FALSE, st) THEN ONE + half + 1 ELSE ONE + half
       /\ inexact(g, FALSE, st) <=> n % (2 * d) # 0
  <2>1. PICK ro \in BOOLEAN : ro = FALSE
    OBVIOUS
  <2>2. d >= 1 /\ st \in BOOLEAN /\ LeavesBits(n, d, g, ro, st)
    BY <1>1, <1>2, <1>12, <2>1
  <2>3. /\ Reference!RoundQuotient(rm, neg, n, 2 * d) =
              IF round_up(rm, neg, Odd(n \div (2 * d)), g, ro, st) THEN n \div (2 * d) + 1 ELSE n \div (2 * d)
        /\ inexact(g, ro, st) <=> n % (2 * d) # 0
    BY <1>1, <1>2, <1>8, <2>2, RoundUpIs
  <2> QED BY <1>11, <2>1, <2>3
<1> HIDE DEF up
<1>14. Reference!RoundQuotient(rm, neg, N, D) = ONE + fc /\ (inexact(g, FALSE, st) <=> N % D # 0)
  <2>1. /\ Reference!RoundQuotient(rm, neg, N, D) = Reference!RoundQuotient(rm, neg, n, 2 * d)
        /\ N % D = 0 <=> n % (2 * d) = 0
    BY <1>1, <1>4, RatioRounds
  <2>2. Reference!RoundQuotient(rm, neg, n, 2 * d) = ONE + fc
    <3>1. Reference!RoundQuotient(rm, neg, n, 2 * d) = IF up THEN ONE + half + 1 ELSE ONE + half
      BY <1>6, <1>13 DEF up
    <3> QED BY <1>1, <1>2a, <1>5, <3>1
  <2> QED BY <1>13, <2>1, <2>2
<1>15. N \in Nat /\ D \in Nat /\ D >= 1 /\ N \div D = ONE + half
  BY <1>4, <1>11, RatioDivision DEF SameRatio
<1>16. ONE * D <= N /\ N < (2 * ONE) * D
  <2>1. D * (ONE + half) <= N /\ N < D * (ONE + half + 1)
    BY <1>15, RoundNeighbour
  <2>2. ONE * D <= D * (ONE + half) /\ D * (ONE + half + 1) <= (2 * ONE) * D
    <3>1. D * (ONE + half) = ONE * D + D * half /\ D * half >= 0
      BY <1>1, <1>2a, <1>5, <1>15
    <3>2. D * (ONE + half + 1) = (2 * ONE) * D - D * (ONE - half - 1) /\ D * (ONE - half - 1) >= 0
      BY <1>1, <1>2a, <1>5, <1>15
    <3>3. ONE * D \in Int /\ (2 * ONE) * D \in Int /\ D * half \in Int /\ D * (ONE - half - 1) \in Int
      BY <1>1, <1>2a, <1>5, <1>15
    <3> QED BY <3>1, <3>2, <3>3
  <2>3. ONE * D \in Int /\ (2 * ONE) * D \in Int /\ D * (ONE + half) \in Int /\ D * (ONE + half + 1) \in Int
    BY <1>1, <1>2a, <1>5, <1>15
  <2> QED BY <1>15, <2>1, <2>2, <2>3
<1> DEFINE m == Reference!RoundQuotient(rm, neg, N, D)
<1>17. m = ONE + fc
  BY <1>14
<1> HIDE DEF m
<1>18. fc \in 0..ONE
  BY <1>1, <1>2a, <1>5
<1>19. m \in ONE..2 * ONE /\ fc \div ONE = (IF m = 2 * ONE THEN 1 ELSE 0) /\ fc % ONE = m % ONE
  <2>1. CASE fc = ONE
    <3>1. Division(fc, ONE, 1, 0)
      BY <1>1, <1>2a, <2>1 DEF Division
    <3>2. Division(m, ONE, 2, 0)
      BY <1>1, <1>2a, <1>17, <2>1 DEF Division
    <3> QED BY <1>1, <1>2a, <1>17, <2>1, <3>1, <3>2, DivisionIs
  <2>2. CASE fc # ONE
    <3>1. Division(fc, ONE, 0, fc)
      BY <1>1, <1>2a, <1>18, <2>2 DEF Division
    <3>2. Division(m, ONE, 1, fc)
      BY <1>1, <1>2a, <1>17, <1>18, <2>2 DEF Division
    <3> QED BY <1>1, <1>2a, <1>17, <1>18, <2>2, <3>1, <3>2, DivisionIs
  <2> QED BY <2>1, <2>2
<1>20. x.exp = e + (IF m = 2 * ONE THEN 1 ELSE 0) /\ x.frac = m % ONE /\ (x.inexact <=> N % D # 0)
  BY <1>7, <1>14, <1>19
<1> QED BY <1>3, <1>15, <1>16, <1>19, <1>20 DEF m, x

(* The reference on a grid the quotient is not too small for.               *)
LEMMA GridRounds ==
  ASSUME NEW a, NEW b, NEW d, NEW e, NEW frac, NEW rest, Found(a, b, d, e, frac, rest),
         NEW q \in Int, NEW rs \in 1..FRAC + 2, rs = q + FRAC + 1 - e
  PROVE  LET k == Reference!Last(a) - Reference!Last(b)
             n == (2 * ONE + frac) * d + rest
             D == d * 2^rs
             M(r, s) == Reference!InUnits(r, s, Reference!Units(a), Reference!Units(b), k, q)
         IN  /\ n \in Nat /\ D \in Nat /\ D >= 1
             /\ \A r \in RoundingModes, s \in BOOLEAN : M(r, s) = Reference!RoundQuotient(r, s, n, D)
<1> DEFINE k == Reference!Last(a) - Reference!Last(b)
           n == (2 * ONE + frac) * d + rest
           X == d * 2^rs
<1>1. PICK N, D : InUnitsOf(Reference!Units(a), Reference!Units(b), k, q, N, D) /\ SameRatio(N, D, n, X)
  BY FoundScale
<1>2. n \in Nat /\ X \in Nat /\ X >= 1
  BY <1>1 DEF SameRatio
<1> HIDE DEF n, X
<1>3. ~(Reference!Units(a) > 0 /\ Reference!Log2(Reference!Units(a), Reference!Units(b)) + k < q - 1)
  <2>1. e \in Int /\ Reference!Log2(Reference!Units(a), Reference!Units(b)) + k = e
    BY FoundScale
  <2>2. ~(e < q - 1)
    BY <2>1, Formats
  <2> QED BY <2>1, <2>2
<1>4. ASSUME NEW r \in RoundingModes, NEW s \in BOOLEAN
      PROVE  Reference!InUnits(r, s, Reference!Units(a), Reference!Units(b), k, q) = Reference!RoundQuotient(r, s, n, X)
  <2>1. Reference!InUnits(r, s, Reference!Units(a), Reference!Units(b), k, q) = Reference!RoundQuotient(r, s, N, D)
    BY <1>1, <1>3, UnitsRounded
  <2>2. Reference!RoundQuotient(r, s, N, D) = Reference!RoundQuotient(r, s, n, X)
    BY <1>1, RatioRounds
  <2> QED BY <2>1, <2>2
<1> QED BY <1>2, <1>4 DEF n, X

(* What the quotient leaves below bit i, with the remainder.                *)
BitsOfQuotient(Q, d, rest, i) ==
  LET h == d * 2^i
      n == Q * d + rest
      lo == (Q % 2^i) * d + rest
  IN  /\ h \in Nat /\ h >= 1 /\ d * 2^(i + 1) = 2 * h
      /\ n \in Nat /\ lo \in 0..h - 1
      /\ n % (2 * h) = (IF Bit(Q, i) THEN h ELSE 0) + lo
      /\ n \div (2 * h) = Q \div 2^(i + 1)
      /\ n % h = lo /\ n \div h = Q \div 2^i
      /\ lo # 0 <=> rest # 0 \/ Q % 2^i # 0
      /\ Q \div 2^(i + 1) \in Nat
      /\ Q \div 2^i = 2 * (Q \div 2^(i + 1)) + (IF Bit(Q, i) THEN 1 ELSE 0)

LEMMA QuotientBits ==
  ASSUME NEW Q \in Nat, NEW d \in Nat, d >= 1, NEW rest \in 0..d - 1, NEW i \in Nat
  PROVE  BitsOfQuotient(Q, d, rest, i)
<1> DEFINE W == 2^i
           V == 2^(i + 1)
           g == Bit(Q, i)
           x == Q % W
           b == Q \div V
           h == d * W
           n == Q * d + rest
           lo == x * d + rest
<1>1. W \in Nat /\ W >= 1 /\ V = 2 * W /\ x \in Nat /\ x < W /\ Q % V = (IF g THEN W ELSE 0) + x
  BY OneBitMore
<1>2. g \in BOOLEAN
  BY DEF Bit, Odd
<1>3. b \in Nat /\ Q = V * b + (Q % V)
  <2>1. V \in Nat /\ V >= 1
    BY <1>1
  <2> HIDE DEF V
  <2>2. Q \div V \in Int /\ Q = V * (Q \div V) + (Q % V)
    BY <2>1
  <2>3. Q \div V >= 0
    <3>1. Q >= V * 0
      BY <2>1
    <3> QED BY <2>1, <3>1, Threshold
  <2> QED BY <2>2, <2>3
<1> HIDE DEF W, V, g, x, b
<1> DEFINE c == IF g THEN 1 ELSE 0
<1>4. c \in 0..1 /\ Q = (2 * W) * b + W * c + x
  <2>1. (IF g THEN W ELSE 0) = W * c
    BY <1>1, <1>2
  <2> QED BY <1>1, <1>2, <1>3, <2>1
<1>5. (IF g THEN h ELSE 0) = h * c /\ h \in Nat
  <2>1. h \in Nat
    BY <1>1
  <2> HIDE DEF h
  <2> QED BY <1>2, <2>1
<1> HIDE DEF c
<1>6. h >= 1 /\ lo \in Nat /\ lo < h
  <2>1. d * W >= d * 1
    BY <1>1
  <2>2. x * d <= (W - 1) * d /\ (W - 1) * d = d * W - d /\ x * d \in Nat /\ d * W \in Int
    BY <1>1
  <2> QED BY <2>1, <2>2
<1>7. n = (2 * h) * b + (h * c + lo) /\ n \in Nat
  <2>1. ((2 * W) * b + W * c + x) * d = (2 * (d * W)) * b + ((d * W) * c + x * d)
    BY <1>1, <1>3, <1>4
  <2>2. (2 * (d * W)) * b \in Int /\ (d * W) * c \in Int /\ x * d \in Int /\ Q * d \in Nat
    BY <1>1, <1>3, <1>4
  <2>3. Q * d = (2 * (d * W)) * b + ((d * W) * c + x * d)
    BY <1>4, <2>1
  <2> QED BY <2>2, <2>3
<1> HIDE DEF n
<1>8. x * d \in Nat /\ (x * d = 0 <=> x = 0)
  <2>1. x >= 1 => x * d >= 1 * d
    BY <1>1
  <2>2. x = 0 => x * d = 0
    BY <1>1
  <2> QED BY <1>1, <2>1, <2>2
<1>9. lo # 0 <=> rest # 0 \/ x # 0
  BY <1>8
<1> HIDE DEF lo, h
<1>10. n \div (2 * h) = b /\ n % (2 * h) = h * c + lo
  <2>1. h * c \in Nat /\ h * c + lo < 2 * h
    <3>1. c = 0 => h * c = 0
      BY <1>5
    <3>2. c = 1 => h * c = h
      BY <1>5
    <3> QED BY <1>4, <1>5, <1>6, <3>1, <3>2
  <2>2. Division(n, 2 * h, b, h * c + lo)
    BY <1>3, <1>5, <1>6, <1>7, <2>1 DEF Division
  <2> QED BY <2>2, DivisionIs
<1>11. n \div h = 2 * b + c /\ n % h = lo
  <2>1. (2 * h) * b + (h * c + lo) = h * (2 * b + c) + lo
    BY <1>3, <1>4, <1>5, <1>6
  <2>2. Division(n, h, 2 * b + c, lo)
    BY <1>3, <1>4, <1>5, <1>6, <1>7, <2>1 DEF Division
  <2> QED BY <2>2, DivisionIs
<1>12. Q \div W = 2 * b + c
  <2>1. Q = W * (2 * b + c) + x
    BY <1>1, <1>3, <1>4
  <2>2. Division(Q, W, 2 * b + c, x)
    BY <1>1, <1>3, <1>4, <2>1 DEF Division
  <2> QED BY <2>2, DivisionIs
<1>13. d * V = 2 * h
  BY <1>1 DEF h
<1>14. lo \in 0..h - 1
  BY <1>5, <1>6
<1> QED BY <1>3, <1>5, <1>6, <1>7, <1>9, <1>10, <1>11, <1>12, <1>13, <1>14 DEF BitsOfQuotient, W, V, g, x, b, h, n, lo, c

(* The mantissa and the flags on the subnormal grid.                        *)
RoundsOnGrid(rm, neg, a, b, e, frac, st) ==
  LET k == Reference!Last(a) - Reference!Last(b)
      q == EMIN - FRAC
      M(r, s) == Reference!InUnits(r, s, Reference!Units(a), Reference!Units(b), k, q)
      x == SubGuarded(2 * ONE + frac, EMIN + 1 - e, st)
      up == round_up(rm, neg, Odd(x.mag), x.guard, x.round, x.sticky)
  IN  /\ M(rm, neg) = x.mag + (IF up THEN 1 ELSE 0)
      /\ M(rm, neg) \in 0..ONE
      /\ inexact(x.guard, x.round, x.sticky) <=> ~(M(rm, neg) = M("RTZ", FALSE) /\ M(rm, neg) = M("RUP", FALSE))

LEMMA SubnormalRounds ==
  ASSUME NEW rm, NEW neg, NEW a, NEW b, NEW d, NEW e, NEW frac, NEW rest, NEW st,
         Rounding(rm, neg, a, b, d, e, frac, rest, st), e < EMIN, ~(rm = "RNE" /\ HalfwaySubnormal(a, b))
  PROVE  RoundsOnGrid(rm, neg, a, b, e, frac, st)
<1> DEFINE k == Reference!Last(a) - Reference!Last(b)
           q == EMIN - FRAC
           M(r, s) == Reference!InUnits(r, s, Reference!Units(a), Reference!Units(b), k, q)
           rs == EMIN + 1 - e
           Q == 2 * ONE + frac
           n == Q * d + rest
           x == SubGuarded(Q, rs, st)
           up == round_up(rm, neg, Odd(x.mag), x.guard, x.round, x.sticky)
           m == M(rm, neg)
           below == M("RTZ", FALSE)
           above == M("RUP", FALSE)
           lost == inexact(x.guard, x.round, x.sticky)
           Goal == /\ m = x.mag + (IF up THEN 1 ELSE 0)
                   /\ m \in 0..ONE
                   /\ lost <=> ~(m = below /\ m = above)
<1>0. SUFFICES Goal
  BY DEF RoundsOnGrid
<1>a. rm \in RoundingModes /\ neg \in BOOLEAN /\ Found(a, b, d, e, frac, rest) /\ st \in BOOLEAN /\ (st <=> rest # 0)
  BY DEF Rounding
<1>1. d \in Nat /\ d >= 8 /\ e \in Int /\ n \in Nat /\ Reference!Units(a) \in Nat /\ Reference!Units(a) >= 1
      /\ Reference!Log2(Reference!Units(a), Reference!Units(b)) + k = e
  BY <1>a, FoundScale
<1>2. /\ FRAC \in Nat /\ FRAC >= 3 /\ BIAS \in Nat /\ BIAS > FRAC /\ ONE \in Nat /\ ONE >= 8
      /\ EMIN = 1 - BIAS
      /\ frac \in Nat /\ frac < 2 * ONE /\ rest \in Nat /\ rest < d
  BY <1>a, <1>1, Formats DEF Found, EMIN
<1>3. rs \in Int /\ rs >= 2 /\ Q \in Nat /\ Q < 4 * ONE /\ q \in Int
  BY <1>1, <1>2
<1>4. rm \in RoundingModes /\ "RTZ" \in RoundingModes /\ "RUP" \in RoundingModes
  BY <1>a DEF RoundingModes
<1> HIDE DEF Goal
<1>5. CASE rs > FRAC + 2
  <2>1. x = [mag |-> 0, guard |-> FALSE, round |-> FALSE, sticky |-> TRUE]
    BY <1>5 DEF SubGuarded
  <2>2. \A r, s : M(r, s) = Reference!RoundQuotient(r, s, 1, 4)
    <3>1. Reference!Units(a) > 0 /\ Reference!Log2(Reference!Units(a), Reference!Units(b)) + k < q - 1
      BY <1>1, <1>2, <1>3, <1>5
    <3> QED BY <3>1 DEF Reference!InUnits
  <2> HIDE DEF M, x
  <2>3. Reference!RoundQuotient(rm, neg, 1, 4) = IF round_up(rm, neg, FALSE, FALSE, FALSE, TRUE) THEN 1 ELSE 0
    BY <1>a, QuarterRounds
  <2>4. Reference!RoundQuotient("RTZ", FALSE, 1, 4) = 0 /\ Reference!RoundQuotient("RUP", FALSE, 1, 4) = 1
    BY DEF Reference!RoundQuotient
  <2>5. Odd(0) = FALSE
    BY DEF Odd
  <2>6. x.mag = 0 /\ x.guard = FALSE /\ x.round = FALSE /\ x.sticky = TRUE
    BY <2>1
  <2>7. up = round_up(rm, neg, FALSE, FALSE, FALSE, TRUE)
    BY <2>5, <2>6
  <2> HIDE DEF up
  <2>8. lost
    BY <2>6 DEF inexact
  <2>9. below = 0 /\ above = 1 /\ m = IF up THEN 1 ELSE 0
    BY <2>2, <2>3, <2>4, <2>7
  <2> HIDE DEF m, below, above, lost
  <2> QED BY <1>2, <2>6, <2>8, <2>9 DEF Goal
<1>6. CASE rs <= FRAC + 2
  <2> DEFINE i == rs - 1
             W == 2^i
             h == d * W
             g == Bit(Q, i)
             low == Q % W
             lo == low * d + rest
             b1 == Q \div 2^(i + 1)
  <2>1. i \in Nat /\ i >= 1 /\ i <= FRAC + 1 /\ i + 1 = rs /\ rest \in 0..d - 1
    BY <1>1, <1>2, <1>3, <1>6
  <2>2. /\ h \in Nat /\ h >= 1 /\ d * 2^(i + 1) = 2 * h
        /\ n \in Nat /\ lo \in 0..h - 1
        /\ n % (2 * h) = (IF g THEN h ELSE 0) + lo
        /\ n \div (2 * h) = b1
        /\ n % h = lo /\ n \div h = Q \div W
        /\ lo # 0 <=> rest # 0 \/ low # 0
        /\ b1 \in Nat
        /\ Q \div W = 2 * b1 + (IF g THEN 1 ELSE 0)
    <3> HIDE DEF rs, Q
    <3>1. d >= 1 /\ d \in Nat /\ Q \in Nat /\ i \in Nat /\ rest \in 0..d - 1
      BY <1>1, <1>3, <2>1
    <3> HIDE DEF i
    <3>2. BitsOfQuotient(Q, d, rest, i)
      BY <3>1, QuotientBits
    <3> QED BY <3>2 DEF BitsOfQuotient
  <2>3. g \in BOOLEAN
    BY DEF Bit, Odd
  <2>4. /\ x.mag = b1 /\ x.guard = g /\ x.round = Bit(Q, i - 1)
        /\ x.sticky = (st \/ Low(Q, i + 1))
    <3>1. x = [mag |-> Q \div 2^rs, guard |-> Bit(Q, rs - 1),
               round |-> Bit(Q, rs - 2), sticky |-> st \/ Low(Q, rs)]
      BY <1>2, <1>3, <1>6 DEF SubGuarded
    <3>2. rs - 2 = i - 1 /\ rs = i + 1
      BY <1>3
    <3> HIDE DEF x, Q
    <3> QED BY <3>1, <3>2
  <2>5. (x.round \/ x.sticky) <=> (g \/ lo # 0)
    <3> HIDE DEF rs, Q
    <3>1. W \in Nat /\ W >= 1 /\ low \in Nat /\ Q % 2^(i + 1) = (IF g THEN W ELSE 0) + low
      BY <1>3, <2>1, OneBitMore
    <3>2. Low(Q, i + 1) <=> (g \/ low # 0)
      BY <2>3, <3>1 DEF Low
    <3>3. Bit(Q, i - 1) => low # 0
      <4>1. PICK j \in Nat : j = i - 1
        BY <2>1
      <4>2. j + 1 = i
        BY <1>2, <1>3, <2>1, <4>1
      <4>3. 2^j \in Nat /\ 2^j >= 1 /\ Q % 2^j \in Nat /\ Q % 2^(j + 1) = (IF Bit(Q, j) THEN 2^j ELSE 0) + (Q % 2^j)
        BY <1>3, <4>2, OneBitMore
      <4>4. low = (IF Bit(Q, j) THEN 2^j ELSE 0) + (Q % 2^j)
        BY <4>2, <4>3
      <4> HIDE DEF low
      <4> QED BY <4>1, <4>3, <4>4
    <3> QED BY <1>a, <2>2, <2>4, <3>2, <3>3
  <2> HIDE DEF rs, Q, h, g, low, lo, b1, x, W, i, n
  <2>6. \A r \in RoundingModes, s \in BOOLEAN : M(r, s) = Reference!RoundQuotient(r, s, n, 2 * h)
    <3>1. rs \in 1..FRAC + 2 /\ rs = q + FRAC + 1 - e
      BY <1>1, <1>2, <1>3, <1>6 DEF rs
    <3>2. d * 2^rs = 2 * h
      BY <2>1, <2>2
    <3>3. \A r \in RoundingModes, s \in BOOLEAN : M(r, s) = Reference!RoundQuotient(r, s, n, d * 2^rs)
      <4> HIDE DEF q
      <4> QED BY <1>a, <1>3, <3>1, GridRounds DEF n, Q
    <3> HIDE DEF M
    <3> QED BY <3>2, <3>3
  <2>7. ~(rm = "RNE" /\ g /\ lo = 0)
    <3>1. SUFFICES ASSUME g, lo = 0 PROVE HalfwaySubnormal(a, b)
      OBVIOUS
    <3> DEFINE H(r) == Reference!InUnits(r, FALSE, Reference!Units(a), Reference!Units(b), k, EMIN - FRAC - 1)
    <3>2. \A r \in RoundingModes : H(r) = Reference!RoundQuotient(r, FALSE, n, h)
      <4>1. PICK p \in Int : p = EMIN - FRAC - 1
        BY <1>2
      <4>2. i \in 1..FRAC + 2 /\ i = p + FRAC + 1 - e
        BY <1>1, <1>2, <2>1, <4>1 DEF rs
      <4>3. \A r \in RoundingModes, s \in BOOLEAN :
              Reference!InUnits(r, s, Reference!Units(a), Reference!Units(b), k, p) = Reference!RoundQuotient(r, s, n, d * 2^i)
        BY <1>a, <4>2, GridRounds DEF n, Q
      <4> QED BY <4>1, <4>3 DEF h, W
    <3>3. \A r \in RoundingModes : H(r) = 2 * b1 + 1
      <4>1. n % h = 0 /\ n \div h = 2 * b1 + 1
        BY <2>2, <3>1
      <4>2. FALSE \in BOOLEAN
        OBVIOUS
      <4>3. \A r \in RoundingModes : Reference!RoundQuotient(r, FALSE, n, h) = n \div h
        BY <2>2, <4>1, <4>2, RoundWhole
      <4> QED BY <3>2, <4>1, <4>3
    <3>4. H("RTZ") = 2 * b1 + 1 /\ H("RUP") = 2 * b1 + 1
      <4> HIDE DEF H
      <4> QED BY <1>4, <3>3
    <3>5. Odd(2 * b1 + 1)
      BY <2>2 DEF Odd
    <3>6. decode(a).kind = "finite" /\ decode(b).kind = "finite"
      BY <1>a, DecodedKind DEF Found, finite
    <3> QED BY <1>1, <3>4, <3>5, <3>6 DEF HalfwaySubnormal
  <2> HIDE DEF M
  <2> DEFINE tail == lo # 0
             ru == round_up(rm, neg, Odd(b1), g, FALSE, tail)
  <2>8. tail \in BOOLEAN
    OBVIOUS
  <2>9. /\ Reference!RoundQuotient(rm, neg, n, 2 * h) = IF ru THEN b1 + 1 ELSE b1
        /\ inexact(g, FALSE, tail) <=> n % (2 * h) # 0
    <3>1. ASSUME NEW ro \in BOOLEAN, ~ro PROVE LeavesBits(n, h, g, ro, tail)
      BY <2>2, <3>1 DEF LeavesBits
    <3> HIDE DEF tail
    <3>2. PICK ro \in BOOLEAN : ro = FALSE
      OBVIOUS
    <3>3. LeavesBits(n, h, g, ro, tail)
      BY <3>1, <3>2
    <3>4. /\ Reference!RoundQuotient(rm, neg, n, 2 * h) =
                IF round_up(rm, neg, Odd(n \div (2 * h)), g, ro, tail) THEN n \div (2 * h) + 1 ELSE n \div (2 * h)
          /\ inexact(g, ro, tail) <=> n % (2 * h) # 0
      BY <2>2, <2>3, <2>8, <3>3, <1>a, RoundUpIs
    <3> QED BY <2>2, <3>2, <3>4
  <2>10. lost <=> (g \/ tail)
    BY <2>4, <2>5 DEF inexact
  <2>11. up <=> ru
    <3> DEFINE up1 == round_up(rm, neg, Odd(b1), g, x.round, x.sticky)
    <3>1. up = up1
      BY <2>4
    <3>2. CASE rm = "RNE"
      BY <2>5, <2>7, <3>1, <3>2 DEF round_up
    <3>3. CASE rm = "RTZ"
      BY <3>1, <3>3 DEF round_up
    <3>4. CASE rm = "RDN"
      BY <1>a, <2>5, <3>1, <3>4 DEF round_up
    <3>5. CASE rm = "RUP"
      BY <1>a, <2>5, <3>1, <3>5 DEF round_up
    <3>6. CASE rm = "RMM"
      BY <3>1, <3>6 DEF round_up
    <3> QED BY <3>2, <3>3, <3>4, <3>5, <3>6, <1>a DEF RoundingModes
  <2>12. inexact(g, FALSE, tail) <=> (g \/ tail)
    BY DEF inexact
  <2> HIDE DEF tail, ru, up, lost
  <2>13. m = x.mag + (IF up THEN 1 ELSE 0)
    <3>1. m = Reference!RoundQuotient(rm, neg, n, 2 * h)
      BY <1>a, <2>6
    <3> HIDE DEF m
    <3>2. m = IF up THEN b1 + 1 ELSE b1
      BY <2>9, <2>11, <3>1
    <3> QED BY <2>2, <2>4, <3>2
  <2>14. n % (2 * h) = 0 <=> m = below /\ m = above
    <3> DEFINE R(r, s) == Reference!RoundQuotient(r, s, n, 2 * h)
               v == R(rm, neg)
               vb == R("RTZ", FALSE)
               va == R("RUP", FALSE)
    <3>1. n \in Nat /\ 2 * h \in Nat /\ 2 * h >= 1
      BY <2>2
    <3>2. n % (2 * h) = 0 <=> v = vb /\ v = va
      BY <1>a, <3>1, RoundNeighbour
    <3>3. m = v /\ below = vb /\ above = va
      BY <1>a, <1>4, <2>6
    <3> HIDE DEF R, v, vb, va, m, below, above
    <3> QED BY <3>2, <3>3
  <2>15. b1 <= ONE - 1
    <3>1. 2^rs \in Nat /\ 2^rs >= 4
      <4>1. PICK o \in Nat : o = 1
        OBVIOUS
      <4>2. o < rs /\ rs \in Nat
        BY <1>2, <1>3, <1>6, <4>1
      <4>3. 2 * 2^o <= 2^rs /\ 2^rs \in Nat
        BY <4>2, PowerOrder
      <4>4. 2^o = 2
        <5>1. 2^1 = 2
          OBVIOUS
        <5> QED BY <4>1, <5>1
      <4> QED BY <4>3, <4>4
    <3>2. b1 = Q \div 2^rs
      BY <2>1 DEF b1
    <3>3. 2^rs * ONE >= 4 * ONE
      BY <1>2, <3>1
    <3> DEFINE T == 2^rs
    <3>4. T \in Nat /\ T >= 4 /\ T * ONE >= 4 * ONE /\ b1 = Q \div T
      BY <3>1, <3>2, <3>3
    <3> HIDE DEF T
    <3>5. ~(Q >= T * ONE)
      BY <1>2, <1>3, <3>4
    <3>6. ~(b1 >= ONE)
      BY <1>2, <1>3, <3>4, <3>5, Threshold
    <3> QED BY <1>2, <2>2, <3>6
  <2> HIDE DEF m, below, above
  <2>16. m \in 0..ONE
    BY <1>2, <2>2, <2>4, <2>13, <2>15
  <2> QED BY <2>9, <2>10, <2>12, <2>13, <2>14, <2>16 DEF Goal
<1> QED BY <1>2, <1>3, <1>5, <1>6

(* The packing of fdiv.v is the rounding of the reference.                  *)
LEMMA PackedRounds ==
  ASSUME NEW rm, NEW neg, NEW a, NEW b, NEW d, NEW e, NEW frac, NEW rest, NEW st,
         Rounding(rm, neg, a, b, d, e, frac, rest, st), ~(rm = "RNE" /\ HalfwaySubnormal(a, b))
  PROVE  Packed(rm, neg, e, frac, st) =
           Reference!Rounded(rm, neg, Reference!Units(a), Reference!Units(b), Reference!Last(a) - Reference!Last(b))
<1> DEFINE Ua == Reference!Units(a)
           Ub == Reference!Units(b)
           k == Reference!Last(a) - Reference!Last(b)
           nx == Normal(rm, neg, e, frac, st)
           exact == Reference!Rounded(rm, neg, Ua, Ub, k)
           packed == Packed(rm, neg, e, frac, st)
<1>0. rm \in RoundingModes /\ neg \in BOOLEAN /\ Found(a, b, d, e, frac, rest)
  BY DEF Rounding
<1>1. d \in Nat /\ d >= 8 /\ e \in Int /\ Ua \in Nat /\ Ua >= 1 /\ Reference!Log2(Ua, Ub) + k = e
  BY <1>0, FoundScale
<1>2. /\ FRAC \in Nat /\ FRAC >= 3 /\ BIAS \in Nat /\ BIAS > FRAC /\ ONE \in Nat /\ ONE >= 8
      /\ EMIN = 1 - BIAS /\ EMAX = BIAS
  BY Formats DEF EMIN, EMAX
<1>3. PICK N \in Nat, D \in Nat :
               /\ D >= 1 /\ InUnitsOf(Ua, Ub, k, e - FRAC, N, D)
               /\ ONE * D <= N /\ N < (2 * ONE) * D
               /\ LET m == Reference!RoundQuotient(rm, neg, N, D)
                  IN  /\ m \in ONE..2 * ONE
                      /\ nx.exp = e + (IF m = 2 * ONE THEN 1 ELSE 0)
                      /\ nx.frac = m % ONE
                      /\ nx.inexact <=> N % D # 0
  BY NormalRounds
<1> DEFINE mn == Reference!RoundQuotient(rm, neg, N, D)
           carry == IF mn = 2 * ONE THEN 1 ELSE 0
<1>4. mn \in ONE..2 * ONE /\ nx.exp = e + carry /\ nx.frac = mn % ONE /\ (nx.inexact <=> N % D # 0)
  BY <1>3
<1>5. packed =
        LET g  == SubGuarded(2 * ONE + frac, EMIN + 1 - e, st)
            up == round_up(rm, neg, Odd(g.mag), g.guard, g.round, g.sticky)
            lost == inexact(g.guard, g.round, g.sticky)
        IN  IF e < EMIN
            THEN Answer(Subnormal(neg, g.mag + (IF up THEN 1 ELSE 0)),
                        Raise("NX", lost) \cup Raise("UF", lost /\ nx.exp < EMIN))
            ELSE IF nx.exp > EMAX THEN Overflowed(rm, neg)
            ELSE Answer(Float(neg, nx.exp + BIAS, nx.frac), Raise("NX", nx.inexact))
  <2>1. 2 - BIAS - e = EMIN + 1 - e
    BY <1>1, <1>2
  <2> QED BY <2>1 DEF Packed
<1> HIDE DEF nx
<1>6. CASE EMIN <= e
  <2>1. exact = IF e + carry > EMAX THEN Overflowed(rm, neg)
                ELSE Answer(Float(neg, e + carry + BIAS, mn % ONE), IF N % D = 0 THEN {} ELSE {"NX"})
    BY <1>0, <1>1, <1>3, <1>6, RoundsNormally
  <2>2. packed = IF nx.exp > EMAX THEN Overflowed(rm, neg)
                 ELSE Answer(Float(neg, nx.exp + BIAS, nx.frac), Raise("NX", nx.inexact))
    BY <1>1, <1>2, <1>5, <1>6
  <2>3. Raise("NX", nx.inexact) = IF N % D = 0 THEN {} ELSE {"NX"}
    BY <1>4 DEF Raise
  <2> HIDE DEF packed, exact, mn, carry
  <2> QED BY <1>4, <2>1, <2>2, <2>3 DEF packed, exact
<1>7. CASE e < EMIN
  <2> DEFINE q == EMIN - FRAC
             M(r, s) == Reference!InUnits(r, s, Ua, Ub, k, q)
             m == M(rm, neg)
             below == M("RTZ", FALSE)
             above == M("RUP", FALSE)
             x == SubGuarded(2 * ONE + frac, EMIN + 1 - e, st)
             up == round_up(rm, neg, Odd(x.mag), x.guard, x.round, x.sticky)
             lost == inexact(x.guard, x.round, x.sticky)
             whole == m = below /\ m = above
  <2>1. m = x.mag + (IF up THEN 1 ELSE 0) /\ m \in 0..ONE /\ (lost <=> ~whole)
    <3>1. RoundsOnGrid(rm, neg, a, b, e, frac, st)
      BY <1>7, SubnormalRounds
    <3> QED BY <3>1 DEF RoundsOnGrid
  <2> DEFINE tiny == e < EMIN /\ ~ (e = EMIN - 1 /\ Reference!InUnits(rm, neg, Ua, Ub, k, e - FRAC) = 2 * ONE)
             ex == q + FRAC + m \div (2 * ONE)
             value == IF m < ONE THEN Float(neg, 0, m)
                      ELSE Float(neg, ex + BIAS, IF m = 2 * ONE THEN 0 ELSE m - ONE)
  <2>2. exact = IF ex > EMAX
                THEN LET towards_inf == CASE rm \in {"RNE", "RMM"} -> TRUE [] rm = "RTZ" -> FALSE
                                          [] rm = "RDN" -> neg [] rm = "RUP" -> ~neg
                     IN  Answer(IF towards_inf THEN Inf(neg) ELSE MaxFinite(neg), {"OF", "NX"})
                ELSE Answer(value, IF whole THEN {} ELSE IF tiny THEN {"NX", "UF"} ELSE {"NX"})
    <3>1. (IF Reference!Log2(Ua, Ub) + k < EMIN THEN EMIN ELSE Reference!Log2(Ua, Ub) + k) - FRAC = q
      BY <1>1, <1>7
    <3> HIDE DEF Ua, Ub, k
    <3> QED BY <1>1, <3>1, ReferenceFormat DEF Reference!Rounded
  <2>3. Reference!InUnits(rm, neg, Ua, Ub, k, e - FRAC) = mn
    <3>1. ~(Ua > 0 /\ Reference!Log2(Ua, Ub) + k < e - FRAC - 1)
      BY <1>1, <1>2
    <3> QED BY <1>3, <3>1, UnitsRounded
  <2>4. tiny <=> nx.exp < EMIN
    <3> HIDE DEF mn
    <3> QED BY <1>1, <1>2, <1>4, <1>7, <2>3
  <2>5. packed = Answer(Subnormal(neg, m), Raise("NX", lost) \cup Raise("UF", lost /\ nx.exp < EMIN))
    <3>1. packed = Answer(Subnormal(neg, x.mag + (IF up THEN 1 ELSE 0)),
                          Raise("NX", lost) \cup Raise("UF", lost /\ nx.exp < EMIN))
      BY <1>5, <1>7
    <3> HIDE DEF packed, x, up, lost, m
    <3> QED BY <2>1, <3>1
  <2>6. Raise("NX", lost) \cup Raise("UF", lost /\ nx.exp < EMIN)
          = IF whole THEN {} ELSE IF tiny THEN {"NX", "UF"} ELSE {"NX"}
    <3> HIDE DEF lost, whole, tiny
    <3>1. CASE lost
      BY <2>1, <2>4, <3>1 DEF Raise
    <3>2. CASE ~lost
      BY <2>1, <3>2 DEF Raise
    <3> QED BY <3>1, <3>2
  <2> HIDE DEF m
  <2>7. ex = EMIN
    <3>1. Division(m, 2 * ONE, 0, m)
      BY <1>2, <2>1 DEF Division
    <3> QED BY <1>2, <3>1, DivisionIs
  <2>8. Subnormal(neg, m) = value
    <3>1. 2^FRAC = ONE
      BY DEF ONE
    <3>2. CASE m = ONE
      <4>1. Division(m, ONE, 1, 0)
        BY <1>2, <3>2 DEF Division
      <4>2. Odd(1)
        BY DEF Odd
      <4>3. Bit(m, FRAC) /\ m % ONE = 0
        BY <3>1, <4>1, <4>2, DivisionIs DEF Bit
      <4>4. ex + BIAS = 1 /\ m - ONE = 0 /\ ~(m < ONE) /\ m # 2 * ONE
        BY <1>2, <2>7, <3>2
      <4> HIDE DEF ex
      <4> QED BY <4>3, <4>4 DEF Subnormal
    <3>3. CASE m # ONE
      <4>1. m < ONE /\ Division(m, ONE, 0, m)
        BY <1>2, <2>1, <3>3 DEF Division
      <4>2. ~Odd(0)
        BY DEF Odd
      <4>3. ~Bit(m, FRAC) /\ m % ONE = m
        BY <3>1, <4>1, <4>2, DivisionIs DEF Bit
      <4> QED BY <4>1, <4>3 DEF Subnormal
    <3> QED BY <3>2, <3>3
  <2>9. ~(ex > EMAX)
    BY <1>2, <2>7
  <2> HIDE DEF exact, packed, ex, value, whole, tiny
  <2> QED BY <2>2, <2>5, <2>6, <2>8, <2>9 DEF exact, packed
<1> QED BY <1>1, <1>2, <1>6, <1>7 DEF EMIN

(* The answer given, special operands included.                             *)
LEMMA DivAnswer ==
  ASSUME DivInv, DivOfRequest, Serves, fdiv.wb_valid,
         ~(request.rm = "RNE" /\ HalfwaySubnormal(request.a, request.b))
  PROVE  Answered = Reference!RefDivide(request.rm, request.a, request.b)
<1> DEFINE a == request.a
           b == request.b
           s1 == decode(a)
           s2 == decode(b)
           neg == s1.sign # s2.sign
<1>1. fdiv.busy /\ request.op = "FDIV_S"
  BY DEF Serves
<1>2. request \in Requests
  BY <1>1, OpsDiffer DEF Serves, Ops
<1>3. a \in Floats /\ b \in Floats /\ request.rm \in RoundingModes
  BY <1>2, RequestFields
<1>4. fdiv.s1 = s1 /\ fdiv.s2 = s2 /\ fdiv.rm = request.rm /\ fdiv.cnt = DIGITS /\ fdiv.wb = result_combo
  BY <1>1 DEF DivOfRequest
<1>5. Answered = result_combo
  <2>1. request.op \notin FmaOps /\ request.op \notin QuickOps /\ request.op \notin ConvertOps
    BY <1>1, OpsDiffer
  <2>2. ~fma.p2.valid
    BY <2>1 DEF Serves, Stages, Empty
  <2> QED BY <1>4, <2>1, <2>2 DEF Answered, fquick_wb_valid, fcvt_wb_valid
<1>6. CASE Finite(s1, s2)
  <2> DEFINE frac == (IF fdiv.rem < 0 THEN fdiv.quo - 1 ELSE fdiv.quo) % (2 * ONE)
             rest == IF fdiv.rem < 0 THEN fdiv.rem + s2.sig ELSE fdiv.rem
             t == IF s1.sig < s2.sig THEN 1 ELSE 0
             e == s1.exp - s2.exp - t
             A == IF s1.sig < s2.sig THEN 2 * s1.sig ELSE s1.sig
  <2>1. result_combo = Packed(request.rm, neg, e, frac, rest # 0)
    BY <1>4, <1>6 DEF result_combo
  <2>2. finite(a) /\ finite(b)
    BY <1>3, <1>6, DecodedKind DEF Finite
  <2>3. s1.sig \in Nat /\ s2.sig \in Nat
    BY <1>3, DecodedOperand, DivNormalised
  <2>4. frac \in 0..2 * ONE - 1 /\ rest \in 0..s2.sig - 1 /\ (2 * ONE) * A = (2 * ONE + frac) * s2.sig + rest
    <3>1. A = Dividend(fdiv.s1, fdiv.s2) + fdiv.s2.sig /\ s2.sig = fdiv.s2.sig
      BY <1>4, <2>3 DEF Dividend
    <3>2. Finite(fdiv.s1, fdiv.s2)
      BY <1>4, <1>6
    <3> HIDE DEF A
    <3> QED BY <1>1, <1>4, <3>1, <3>2, QuotientFound
  <2>5. Quotes(a, b, A, s2.sig, t, e)
    BY DEF Quotes
  <2> HIDE DEF frac, rest
  <2>6. Found(a, b, s2.sig, e, frac, rest)
    BY <2>2, <2>4, <2>5 DEF Found
  <2>7. neg \in BOOLEAN /\ neg = (a.sign # b.sign)
    BY <1>3, DecodedKind
  <2> HIDE DEF e, neg
  <2>8. Packed(request.rm, neg, e, frac, rest # 0) =
          Reference!Rounded(request.rm, neg, Reference!Units(a), Reference!Units(b), Reference!Last(a) - Reference!Last(b))
    <3>1. ~(request.rm = "RNE" /\ HalfwaySubnormal(a, b))
      OBVIOUS
    <3>2. PICK st \in BOOLEAN : st = (rest # 0)
      OBVIOUS
    <3> HIDE DEF a, b, s2
    <3>3. Rounding(request.rm, neg, a, b, s2.sig, e, frac, rest, st)
      BY <1>3, <2>6, <2>7, <3>2 DEF Rounding
    <3>4. Packed(request.rm, neg, e, frac, st) =
            Reference!Rounded(request.rm, neg, Reference!Units(a), Reference!Units(b), Reference!Last(a) - Reference!Last(b))
      BY <3>1, <3>3, PackedRounds
    <3> QED BY <3>2, <3>4
  <2>9. Reference!RefDivide(request.rm, a, b) =
          Reference!Rounded(request.rm, neg, Reference!Units(a), Reference!Units(b), Reference!Last(a) - Reference!Last(b))
    <3>1. ~is_zero(a) /\ ~is_zero(b) /\ a.exp # SPECIAL /\ b.exp # SPECIAL
      BY <2>2 DEF finite
    <3> HIDE DEF a, b
    <3>2. /\ ~(Reference!AnyNaN({a, b})) /\ ~is_inf(a) /\ ~is_inf(b)
      BY <3>1, ReferenceFormat DEF Reference!AnyNaN, is_nan, is_inf
    <3> QED BY <2>7, <3>1, <3>2, ReferenceFormat DEF Reference!RefDivide
  <2> QED BY <1>5, <2>1, <2>8, <2>9
<1>7. CASE ~Finite(s1, s2)
  <2>1. result_combo = Special(s1, s2, neg)
    BY <1>4, <1>7 DEF result_combo
  <2>2. \A x \in {a, b} :
          /\ decode(x).sign = x.sign /\ decode(x).kind \in Kinds
          /\ decode(x).kind = "zero" <=> is_zero(x)
          /\ decode(x).kind = "inf" <=> is_inf(x)
          /\ decode(x).kind = "snan" <=> is_snan(x)
          /\ nan(decode(x)) <=> is_nan(x)
          /\ decode(x).kind = "finite" <=> finite(x)
          /\ is_nan(x) => ~is_zero(x) /\ ~is_inf(x)
          /\ is_zero(x) => ~is_inf(x)
          /\ Reference!IsFinite(x) <=> ~is_nan(x) /\ ~is_inf(x)
          /\ is_snan(x) => is_nan(x)
    <3>1. ASSUME NEW x \in Floats
          PROVE /\ is_nan(x) => ~is_zero(x) /\ ~is_inf(x)
                /\ is_zero(x) => ~is_inf(x)
                /\ Reference!IsFinite(x) <=> ~is_nan(x) /\ ~is_inf(x)
                /\ is_snan(x) => is_nan(x)
      BY Formats, ReferenceFormat DEF is_nan, is_snan, is_zero, is_inf, Reference!IsFinite, Floats
    <3> QED BY <1>3, <3>1, DecodedKind
  <2> DEFINE exact == Reference!RefDivide(request.rm, a, b)
             sgn == a.sign # b.sign
  <2>3. neg = sgn
    BY <2>2
  <2>4. Reference!AnyNaN({a, b}) <=> is_nan(a) \/ is_nan(b)
    BY ReferenceFormat DEF Reference!AnyNaN
  <2>5. /\ Reference!QuietNaN({a, b}) = Answer(CanonicalNaN, Raise("NV", is_snan(a) \/ is_snan(b)))
        /\ Reference!Invalid = Answer(CanonicalNaN, {"NV"})
    BY ReferenceFormat DEF Reference!QuietNaN, Reference!Invalid, Raise
  <2> HIDE DEF a, b, s1, s2
  <2>6. CASE is_nan(a) \/ is_nan(b)
    <3>1. exact = Answer(CanonicalNaN, Raise("NV", is_snan(a) \/ is_snan(b)))
      BY <2>2, <2>4, <2>5, <2>6, ReferenceFormat DEF Reference!RefDivide
    <3>2. Special(s1, s2, neg) = Answer(CanonicalNaN, Raise("NV", is_snan(a) \/ is_snan(b)))
      BY <2>2, <2>6 DEF Special, s1, s2, Raise
    <3> QED BY <1>5, <2>1, <3>1, <3>2 DEF a, b
  <2>7. CASE ~is_nan(a) /\ ~is_nan(b) /\ ((is_inf(a) /\ is_inf(b)) \/ (is_zero(a) /\ is_zero(b)))
    <3>1. exact = Answer(CanonicalNaN, {"NV"})
      BY <2>2, <2>4, <2>5, <2>7, ReferenceFormat DEF Reference!RefDivide
    <3>2. Special(s1, s2, neg) = Answer(CanonicalNaN, {"NV"})
      BY <2>2, <2>7 DEF Special, s1, s2, Raise
    <3> QED BY <1>5, <2>1, <3>1, <3>2 DEF a, b
  <2>8. CASE ~is_nan(a) /\ ~is_nan(b) /\ is_inf(a) /\ ~is_inf(b)
    <3>1. exact = Answer(Inf(sgn), {})
      BY <2>2, <2>4, <2>8, ReferenceFormat DEF Reference!RefDivide
    <3>2. Special(s1, s2, neg) = Answer(Inf(sgn), {})
      BY <2>2, <2>3, <2>8 DEF Special, s1, s2, Raise
    <3> QED BY <1>5, <2>1, <3>1, <3>2 DEF a, b
  <2>9. CASE ~is_nan(a) /\ ~is_nan(b) /\ ~is_inf(a) /\ ~is_zero(a) /\ is_zero(b)
    <3>1. exact = Answer(Inf(sgn), {"DZ"})
      BY <2>2, <2>4, <2>9, ReferenceFormat DEF Reference!RefDivide
    <3>2. Special(s1, s2, neg) = Answer(Inf(sgn), {"DZ"})
      BY <2>2, <2>3, <2>9 DEF Special, s1, s2, Raise
    <3> QED BY <1>5, <2>1, <3>1, <3>2 DEF a, b
  <2>10. CASE ~is_nan(a) /\ ~is_nan(b) /\ ~is_inf(a) /\ ~is_zero(b) /\ (is_zero(a) \/ is_inf(b))
    <3>1. exact = Answer(Zero(sgn), {})
      BY <2>2, <2>4, <2>10, ReferenceFormat DEF Reference!RefDivide
    <3>2. Special(s1, s2, neg) = Answer(Zero(sgn), {})
      BY <2>2, <2>3, <2>10 DEF Special, s1, s2, Raise
    <3> QED BY <1>5, <2>1, <3>1, <3>2 DEF a, b
  <2>11. ~(~is_nan(a) /\ ~is_nan(b) /\ ~is_inf(a) /\ ~is_zero(a) /\ ~is_inf(b) /\ ~is_zero(b))
    BY <1>3, <1>7, <2>2 DEF Finite, finite, s1, s2, Reference!IsFinite, is_nan, is_inf, Kinds, nan
  <2> QED BY <2>2, <2>6, <2>7, <2>8, <2>9, <2>10, <2>11
<1> QED BY <1>6, <1>7

(* Every quotient is the exact one rounded once, in every mode, with the    *)
(* right flags, but for the named ties of the subnormal path: the digits,   *)
(* the repair and the two packings of fdiv.v for every format and operands. *)
THEOREM SpecQuotientRounded == Spec => []QuotientRounded
<1>1. DivInv /\ DivOfRequest /\ Serves => QuotientRounded
  BY DivAnswer DEF QuotientRounded
<1> QED BY <1>1, SpecServes, SpecDivide, DivInvariant, SpecDivOfRequest, PTL
==============================================================================
