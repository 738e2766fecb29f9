-------------------------- MODULE FloatCombinational -------------------------
(****************************************************************************)
(* The two combinational units of the FPU, which answer in the cycle of the *)
(* issue: fquick.v, with the NV of the comparisons that fpu.v puts in its   *)
(* place (comparison, minimum, classification, sign injection), and fcvt.v  *)
(* (conversion between numbers and XLEN-bit words; a word is the number its *)
(* bits spell, 0..2^XLEN - 1).                                              *)
(****************************************************************************)
EXTENDS FloatFormat

CONSTANT XLEN    (* 32 *)

(* A number with bits behind the point is below 2^FRAC, and so converts to  *)
(* a word without overflow; every word has an exponent the format holds.    *)
ASSUME WordAssumption == XLEN \in Nat /\ XLEN > FRAC /\ XLEN <= EMAX

(***************************************************************************)
(* Comparison, minimum, classification, sign injection: fquick.v           *)
(***************************************************************************)

QuickOps == {"FMIN_S", "FMAX_S", "FLT_S", "FEQ_S", "FLE_S", "FCLASS_S",
             "FSGNJ_S", "FSGNJN_S", "FSGNJX_S"}

class_result(a) ==
  CASE is_inf(a)       -> IF a.sign THEN 2^0 ELSE 2^7
    [] is_normal(a)    -> IF a.sign THEN 2^1 ELSE 2^6
    [] is_subnormal(a) -> IF a.sign THEN 2^2 ELSE 2^5
    [] is_zero(a)      -> IF a.sign THEN 2^3 ELSE 2^4
    [] is_snan(a)      -> 2^8
    [] is_qnan(a)      -> 2^9

(* Mutant: the magnitudes compared without looking for zeros.               *)
lt_abs_zero_as_one(a, b) ==
  LET da == decode(a)  db == decode(b)
  IN  /\ ~is_inf(a)
      /\ is_inf(b) \/ da.exp < db.exp \/ (da.exp = db.exp /\ da.sig < db.sig)

(* |a| < |b|.  Zeros first: decode gives them exponent 0, the exponent of 1.*)
lt_abs(a, b) ==
  LET da == decode(a)  db == decode(b)
  IN  /\ ~is_inf(a)
      /\ \/ is_inf(b)
         \/ is_zero(a) /\ ~is_zero(b)
         \/ /\ ~is_zero(a) /\ ~is_zero(b)
            /\ da.exp < db.exp \/ (da.exp = db.exp /\ da.sig < db.sig)

less(a, b) ==
  IF a.sign # b.sign THEN a.sign /\ ~(is_zero(a) /\ is_zero(b))
  ELSE IF a.sign THEN lt_abs(b, a) ELSE lt_abs(a, b)

(* FMIN and FMAX: lower says which of two numbers is taken, and by that the *)
(* sign of the zero among zeros of both signs.                              *)
Extreme(a, b, lower) ==
  CASE is_nan(a) /\ is_nan(b)                      -> CanonicalNaN
    [] is_nan(a) /\ ~is_nan(b)                     -> b
    [] ~is_nan(a) /\ is_nan(b)                     -> a
    [] is_zero(a) /\ is_zero(b) /\ a.sign # b.sign -> Zero(lower)
    [] OTHER -> IF (IF lower THEN less(b, a) ELSE less(a, b)) THEN b ELSE a

fquick_result(op, a, b) ==
  LET ordered == ~is_nan(a) /\ ~is_nan(b)
      eq      == ordered /\ ~less(a, b) /\ ~less(b, a)
      lt      == ordered /\ less(a, b)
  IN  CASE op = "FMIN_S"   -> Extreme(a, b, TRUE)
        [] op = "FMAX_S"   -> Extreme(a, b, FALSE)
        [] op = "FLT_S"    -> IF lt THEN 1 ELSE 0
        [] op = "FEQ_S"    -> IF eq THEN 1 ELSE 0
        [] op = "FLE_S"    -> IF lt \/ eq THEN 1 ELSE 0
        [] op = "FCLASS_S" -> class_result(a)
        [] op = "FSGNJ_S"  -> [a EXCEPT !.sign = b.sign]
        [] op = "FSGNJN_S" -> [a EXCEPT !.sign = ~b.sign]
        [] op = "FSGNJX_S" -> [a EXCEPT !.sign = (@ # b.sign)]

(* FLT and FLE signal any NaN; FEQ, FMIN and FMAX only a signaling one.     *)
fquick_fflags_final(op, a, b) ==
  Raise("NV", \/ /\ op \in {"FLT_S", "FLE_S"}
                 /\ is_nan(a) \/ is_nan(b)
              \/ /\ op \in {"FEQ_S", "FMIN_S", "FMAX_S"}
                 /\ is_snan(a) \/ is_snan(b))

Quick(op, a, b) == Answer(fquick_result(op, a, b), fquick_fflags_final(op, a, b))

(***************************************************************************)
(* Conversion: fcvt.v                                                      *)
(***************************************************************************)

ConvertOps == {"FCVT_W_S", "FCVT_WU_S", "FCVT_S_W", "FCVT_S_WU"}

Words   == 0..2^XLEN - 1
IntMin  == 2^(XLEN - 1)           (* 32'h80000000 *)
IntMax  == IntMin - 1
UintMax == 2^XLEN - 1
Negative(n) == (2^XLEN - n) % 2^XLEN     (* ~n + 1 *)

(* n shifted right by rs with the bits that leave it.                       *)
Shifted(n, rs) ==
  [mag    |-> n \div 2^rs,
   guard  |-> rs >= 1 /\ Bit(n, rs - 1),
   round  |-> rs >= 2 /\ Bit(n, rs - 2),
   sticky |-> rs >= 3 /\ Low(n, rs - 2)]

RoundedUp(rm, sign, x) ==
  IF round_up(rm, sign, Odd(x.mag), x.guard, x.round, x.sticky) THEN x.mag + 1 ELSE x.mag
Inexact(x) == inexact(x.guard, x.round, x.sticky)

(* Mutant: the overflow is judged before the rounding only.                 *)
f2i_round_too_late(o) ==
  LET rs == FRAC - o.exp
  IN  IF rs > 0 THEN [Shifted(o.sig, IF rs > FRAC + 1 THEN FRAC + 2 ELSE rs) EXCEPT !.round = FALSE]
      ELSE [mag |-> o.sig * 2^(-rs), guard |-> FALSE, round |-> FALSE, sticky |-> FALSE]

(* The integer part of a finite number, in a register of 2 * XLEN bits.     *)
f2i(o) ==
  LET whole(m) == [mag |-> m, guard |-> FALSE, round |-> FALSE, sticky |-> FALSE]
      rs       == FRAC - o.exp
  IN  IF o.exp > 2 * XLEN + FRAC - 1 THEN whole(2^(2 * XLEN) - 1)
      ELSE IF o.exp >= FRAC THEN whole((o.sig * 2^(o.exp - FRAC)) % 2^(2 * XLEN))
      ELSE IF rs > FRAC + 1 THEN [whole(0) EXCEPT !.sticky = TRUE]
      ELSE Shifted(o.sig, rs)

(* NaN, infinities and values beyond the word: the nearest end of the word, *)
(* NV alone.  Every NaN counts as positive.                                 *)
Saturated(signed, negative) ==
  Answer(IF signed THEN (IF negative THEN IntMin ELSE IntMax)
         ELSE (IF negative THEN 0 ELSE UintMax), {"NV"})

FloatToInt(rm, signed, o) ==
  LET neg   == o.sign
      x     == f2i(o)
      mag   == RoundedUp(rm, neg, x)
      fits  == IF signed THEN mag < IntMin \/ (mag = IntMin /\ neg)
               ELSE mag = 0 \/ (~neg /\ mag <= UintMax)
  IN  CASE nan(o)           -> Saturated(signed, FALSE)
        [] o.kind = "inf"   -> Saturated(signed, neg)
        [] o.kind = "zero"  -> Answer(0, {})
        [] OTHER -> IF fits
                    THEN Answer(IF neg THEN Negative(mag) ELSE mag, Raise("NX", Inexact(x)))
                    ELSE Saturated(signed, neg)

IntToFloat(rm, signed, n) ==
  LET neg == signed /\ n >= IntMin
      mag == IF neg THEN Negative(n) ELSE n
      msb == Msb(mag)
      x   == IF msb >= FRAC THEN Shifted(mag, msb - FRAC) ELSE Shifted(mag * 2^(FRAC - msb), 0)
      sig == RoundedUp(rm, neg, x)
      exp == IF sig = 2 * ONE THEN msb + 1 ELSE msb
  IN  IF mag = 0 THEN Answer(Zero(FALSE), {})
      ELSE Answer(Float(neg, exp + BIAS, sig % ONE), Raise("NX", Inexact(x)))

Convert(op, rm, a, n) ==
  CASE op = "FCVT_W_S"  -> FloatToInt(rm, TRUE, decode(a))
    [] op = "FCVT_WU_S" -> FloatToInt(rm, FALSE, decode(a))
    [] op = "FCVT_S_W"  -> IntToFloat(rm, TRUE, n)
    [] op = "FCVT_S_WU" -> IntToFloat(rm, FALSE, n)
==============================================================================
