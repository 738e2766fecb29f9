--------------------------- MODULE FloatReference ----------------------------
(****************************************************************************)
(* What the operations promise: the exact result, rounded once.  Written    *)
(* from the definition of the arithmetic and of the five rounding modes, in *)
(* exact integers, without a step of the hardware: no shifts into sticky    *)
(* bits, no guard bits, no digits.  NaN results are the canonical NaN,      *)
(* tininess is decided after rounding.                                      *)
(****************************************************************************)
EXTENDS FloatFormat

CONSTANT XLEN

(* A finite number is Signed units of 2^(Last(x)).                          *)
Units(x)  == IF x.exp = 0 THEN x.frac ELSE ONE + x.frac
Last(x)   == (IF x.exp = 0 THEN EMIN ELSE x.exp - BIAS) - FRAC
SignedUnits(x) == IF x.sign THEN -Units(x) ELSE Units(x)
Least(m, n) == IF m <= n THEN m ELSE n
Pow2(n)   == 2^n

(* num / den as an integer, num >= 0 and den > 0.                           *)
RoundQuotient(rm, negative, num, den) ==
  LET below == num \div den
      rest  == 2 * (num % den)
      away  == CASE rm = "RNE" -> rest > den \/ (rest = den /\ Odd(below))
                 [] rm = "RMM" -> rest >= den
                 [] rm = "RTZ" -> FALSE
                 [] rm = "RDN" -> negative /\ rest > 0
                 [] rm = "RUP" -> ~negative /\ rest > 0
  IN  IF away THEN below + 1 ELSE below

(* The exponent of num/den: 2^e <= num/den < 2^(e+1).                       *)
Log2(num, den) ==
  LET guess == Msb(num) - Msb(den)
  IN  IF (IF guess >= 0 THEN num >= den * Pow2(guess) ELSE num * Pow2(-guess) >= den)
      THEN guess ELSE guess - 1

(* The units of 2^q in num/den * 2^k; less than half a unit is as good as   *)
(* any other.                                                               *)
InUnits(rm, negative, num, den, k, q) ==
  IF num > 0 /\ Log2(num, den) + k < q - 1 THEN RoundQuotient(rm, negative, 1, 4)
  ELSE IF k >= q THEN RoundQuotient(rm, negative, num * Pow2(k - q), den)
  ELSE RoundQuotient(rm, negative, num, den * Pow2(q - k))

(* The number nearest to +-num/den * 2^k, num > 0, in the direction of rm.  *)
Rounded(rm, negative, num, den, k) ==
  LET e     == Log2(num, den) + k
      q     == (IF e < EMIN THEN EMIN ELSE e) - FRAC
      m     == InUnits(rm, negative, num, den, k, q)
      exact == m = InUnits("RTZ", FALSE, num, den, k, q) /\ m = InUnits("RUP", FALSE, num, den, k, q)
      (* As if exponents were unbounded: still below 2^EMIN? *)
      tiny  == e < EMIN /\ ~ (/\ e = EMIN - 1
                              /\ InUnits(rm, negative, num, den, k, e - FRAC) = 2 * ONE)
      exp   == q + FRAC + m \div (2 * ONE)
      value == IF m < ONE THEN Float(negative, 0, m)
               ELSE Float(negative, exp + BIAS, IF m = 2 * ONE THEN 0 ELSE m - ONE)
      towards_inf == CASE rm \in {"RNE", "RMM"} -> TRUE [] rm = "RTZ" -> FALSE
                       [] rm = "RDN" -> negative [] rm = "RUP" -> ~negative
  IN  IF exp > EMAX
      THEN Answer(IF towards_inf THEN Inf(negative) ELSE MaxFinite(negative), {"OF", "NX"})
      ELSE Answer(value, IF exact THEN {} ELSE IF tiny THEN {"NX", "UF"} ELSE {"NX"})

Invalid == Answer(CanonicalNaN, {"NV"})
QuietNaN(xs) == Answer(CanonicalNaN, IF \E x \in xs : is_snan(x) THEN {"NV"} ELSE {})
AnyNaN(xs)   == \E x \in xs : is_nan(x)
IsFinite(x)  == x.exp # SPECIAL

-----------------------------------------------------------------------------
RefDivide(rm, a, b) ==
  LET negative == a.sign # b.sign
  IN  CASE AnyNaN({a, b})                -> QuietNaN({a, b})
        [] is_inf(a) /\ is_inf(b)        -> Invalid
        [] is_zero(a) /\ is_zero(b)      -> Invalid
        [] is_inf(a) /\ IsFinite(b)      -> Answer(Inf(negative), {})
        [] IsFinite(a) /\ is_inf(b)      -> Answer(Zero(negative), {})
        [] is_zero(a) /\ IsFinite(b) /\ ~is_zero(b) -> Answer(Zero(negative), {})
        [] IsFinite(a) /\ ~is_zero(a) /\ is_zero(b) -> Answer(Inf(negative), {"DZ"})
        [] OTHER -> Rounded(rm, negative, Units(a), Units(b), Last(a) - Last(b))

(* The square root of n * 2^(2k): the root r of n, which is rounded by the  *)
(* place of n between r^2 and (r+1)^2.  n is taken so large that r has      *)
(* FRAC + 1 bits.                                                           *)
RefRoot(rm, a) ==
  LET shift == CHOOSE s \in 0..4 * FRAC : /\ (Last(a) - s) % 2 = 0
                                          /\ Units(a) * Pow2(s) >= ONE * ONE
                                          /\ Units(a) * Pow2(s) < 4 * ONE * ONE
      n     == Units(a) * Pow2(shift)
      r     == CHOOSE i \in ONE..2 * ONE - 1 : i * i <= n /\ n < (i + 1) * (i + 1)
      up    == CASE rm \in {"RNE", "RMM"} -> 4 * n > (2 * r + 1) * (2 * r + 1)
                 [] rm = "RUP"            -> n > r * r
                 [] rm \in {"RTZ", "RDN"} -> FALSE
      exact == Rounded(rm, FALSE, r + (IF up THEN 1 ELSE 0), 1, (Last(a) - shift) \div 2)
  IN  CASE is_nan(a)  -> QuietNaN({a})
        [] is_zero(a) -> Answer(Zero(a.sign), {})
        [] ~is_nan(a) /\ ~is_zero(a) /\ a.sign -> Invalid
        [] is_inf(a) /\ ~a.sign -> Answer(Inf(FALSE), {})
        [] OTHER -> Answer(exact.value, IF n = r * r THEN {} ELSE {"NX"})

(* negative_product and negative_sum tell the seven operations apart:       *)
(* (a * b, negated or not) + (c, negated or not).                           *)
RefSum(rm, a, b, c, negate_product, negate_c) ==
  LET p_neg == (a.sign # b.sign) # negate_product
      c_neg == c.sign # negate_c
      p_inf == is_inf(a) \/ is_inf(b)
      k     == IF Units(c) = 0 THEN Last(a) + Last(b)
               ELSE IF Units(a) * Units(b) = 0 THEN Last(c)
               ELSE Least(Last(a) + Last(b), Last(c))
      p     == IF Units(a) * Units(b) = 0 THEN 0
               ELSE Units(a) * Units(b) * Pow2(Last(a) + Last(b) - k)
      s     == IF Units(c) = 0 THEN 0 ELSE Units(c) * Pow2(Last(c) - k)
      exact == (IF p_neg THEN -p ELSE p) + (IF c_neg THEN -s ELSE s)
  IN  IF p_inf /\ (is_zero(a) \/ is_zero(b)) THEN Invalid
      ELSE IF AnyNaN({a, b, c}) THEN QuietNaN({a, b, c})
      ELSE IF p_inf THEN IF is_inf(c) /\ p_neg # c_neg THEN Invalid ELSE Answer(Inf(p_neg), {})
      ELSE IF is_inf(c) THEN Answer(Inf(c_neg), {})
      ELSE IF exact # 0
      THEN Rounded(rm, exact < 0, IF exact < 0 THEN -exact ELSE exact, 1, k)
      ELSE Answer(Zero(IF p_neg = c_neg THEN p_neg ELSE rm = "RDN"), {})

OneAsFloat == Float(FALSE, BIAS, 0)
RefFma(op, rm, a, b, c) ==
  CASE op = "FADD_S"   -> RefSum(rm, OneAsFloat, a, b, FALSE, FALSE)
    [] op = "FSUB_S"   -> RefSum(rm, OneAsFloat, a, b, FALSE, TRUE)
    [] op = "FMUL_S"   -> RefSum(rm, a, b, Zero(a.sign # b.sign), FALSE, FALSE)
    [] op = "FMADD_S"  -> RefSum(rm, a, b, c, FALSE, FALSE)
    [] op = "FMSUB_S"  -> RefSum(rm, a, b, c, FALSE, TRUE)
    [] op = "FNMSUB_S" -> RefSum(rm, a, b, c, TRUE, FALSE)
    [] op = "FNMADD_S" -> RefSum(rm, a, b, c, TRUE, TRUE)

-----------------------------------------------------------------------------
(* Words: the nearest integer if the word can hold it, else the nearest end *)
(* of the range and NV; a NaN goes to the upper end.                        *)
RefToInt(rm, signed, a) ==
  LET lo   == IF signed THEN -Pow2(XLEN - 1) ELSE 0
      hi   == IF signed THEN Pow2(XLEN - 1) - 1 ELSE Pow2(XLEN) - 1
      word(i) == IF i < 0 THEN i + Pow2(XLEN) ELSE i
      m    == InUnits(rm, a.sign, Units(a), 1, Last(a), 0)
      i    == IF a.sign THEN -m ELSE m
      exact == InUnits("RUP", FALSE, Units(a), 1, Last(a), 0) = InUnits("RTZ", FALSE, Units(a), 1, Last(a), 0)
      end(negative) == Answer(word(IF negative THEN lo ELSE hi), {"NV"})
  IN  IF is_nan(a) THEN end(FALSE)
      ELSE IF is_inf(a) \/ i < lo \/ i > hi THEN end(a.sign)
      ELSE Answer(word(i), IF exact THEN {} ELSE {"NX"})

RefFromInt(rm, signed, n) ==
  LET i == IF signed /\ n >= Pow2(XLEN - 1) THEN n - Pow2(XLEN) ELSE n
  IN  IF i = 0 THEN Answer(Zero(FALSE), {})
      ELSE Rounded(rm, i < 0, IF i < 0 THEN -i ELSE i, 1, 0)

RefConvert(op, rm, a, n) ==
  CASE op = "FCVT_W_S"  -> RefToInt(rm, TRUE, a)
    [] op = "FCVT_WU_S" -> RefToInt(rm, FALSE, a)
    [] op = "FCVT_S_W"  -> RefFromInt(rm, TRUE, n)
    [] op = "FCVT_S_WU" -> RefFromInt(rm, FALSE, n)

-----------------------------------------------------------------------------
(* The fields of a number read as one integer grow with its value, zeros of *)
(* both signs being equal.                                                  *)
Key(x) == LET bits == x.exp * ONE + x.frac IN IF x.sign THEN -bits ELSE bits

(* Minimum (s = TRUE) and maximum: -0 counts as below +0.                   *)
RefExtreme(a, b, lower) ==
  LET below(x, y) == Key(x) < Key(y) \/ (Key(x) = Key(y) /\ x.sign /\ ~y.sign)
  IN  IF is_nan(a) THEN IF is_nan(b) THEN CanonicalNaN ELSE b
      ELSE IF is_nan(b) THEN a
      ELSE IF lower THEN IF below(b, a) THEN b ELSE a
      ELSE IF below(a, b) THEN b ELSE a

RefClass(x) ==
  LET top == SPECIAL * ONE
      k   == Key(x)
      classes == << k = -top, -top < k /\ k <= -ONE, -ONE < k /\ k < 0, k = 0 /\ x.sign,
                    k = 0 /\ ~x.sign, 0 < k /\ k < ONE, ONE <= k /\ k < top, k = top >>
  IN  IF is_nan(x) THEN IF is_snan(x) THEN 256 ELSE 512
      ELSE Pow2((CHOOSE i \in 1..8 : classes[i]) - 1)

RefQuick(op, a, b) ==
  LET truth(p) == IF ~AnyNaN({a, b}) /\ p THEN 1 ELSE 0
      nv(p)    == IF p THEN {"NV"} ELSE {}
      signal   == nv(is_snan(a) \/ is_snan(b))
  IN  CASE op = "FMIN_S"   -> Answer(RefExtreme(a, b, TRUE), signal)
        [] op = "FMAX_S"   -> Answer(RefExtreme(a, b, FALSE), signal)
        [] op = "FEQ_S"    -> Answer(truth(Key(a) = Key(b)), signal)
        [] op = "FLT_S"    -> Answer(truth(Key(a) < Key(b)), nv(AnyNaN({a, b})))
        [] op = "FLE_S"    -> Answer(truth(Key(a) <= Key(b)), nv(AnyNaN({a, b})))
        [] op = "FCLASS_S" -> Answer(RefClass(a), {})
        [] op = "FSGNJ_S"  -> Answer(Float(b.sign, a.exp, a.frac), {})
        [] op = "FSGNJN_S" -> Answer(Float(~b.sign, a.exp, a.frac), {})
        [] op = "FSGNJX_S" -> Answer(Float(a.sign # b.sign, a.exp, a.frac), {})
=============================================================================
