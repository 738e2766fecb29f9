----------------------------- MODULE FloatFormat -----------------------------
(****************************************************************************)
(* The numbers of the FPU and what its units share: the fields of an        *)
(* operand, fpu_decoder.v, the rounding decision of frm.v and the results   *)
(* fdiv.v and fma_unit.v pack in the same way.  The hardware is the format  *)
(* FRAC = 23, BIAS = 127; every width below is written in terms of these    *)
(* two, so that small formats can be enumerated.                            *)
(****************************************************************************)
EXTENDS Integers, FiniteSets

CONSTANTS
  FRAC,    (* bits of the fraction field: 23 *)
  BIAS     (* of the exponent field: 127 *)

ONE     == 2^FRAC          (* the explicit leading 1 of a significand *)
SPECIAL == 2 * BIAS + 1    (* the all-ones exponent field, 8'hFF *)
EMIN    == 1 - BIAS
EMAX    == BIAS

(* Two digits of a quotient or root are found per cycle: FRAC + 1 of them   *)
(* with the guard bit, so FRAC is odd.                                      *)
ASSUME FormatAssumption ==
  /\ FRAC \in Nat /\ FRAC % 2 = 1 /\ FRAC >= 3
  /\ BIAS \in Nat /\ BIAS > FRAC

RoundingModes == {"RNE", "RTZ", "RDN", "RUP", "RMM"}
Flags         == {"NV", "DZ", "OF", "UF", "NX"}
Raise(f, cond) == IF cond THEN {f} ELSE {}

Floats == [sign : BOOLEAN, exp : 0..SPECIAL, frac : 0..ONE - 1]
Float(s, e, f) == [sign |-> s, exp |-> e, frac |-> f]
Zero(s)      == Float(s, 0, 0)
Inf(s)       == Float(s, SPECIAL, 0)
MaxFinite(s) == Float(s, SPECIAL - 1, ONE - 1)
CanonicalNaN == Float(FALSE, SPECIAL, ONE \div 2)

is_zero(x)      == x.exp = 0 /\ x.frac = 0
is_subnormal(x) == x.exp = 0 /\ x.frac # 0
is_normal(x)    == x.exp \notin {0, SPECIAL}
is_inf(x)       == x.exp = SPECIAL /\ x.frac = 0
is_nan(x)       == x.exp = SPECIAL /\ x.frac # 0
is_snan(x)      == is_nan(x) /\ x.frac < ONE \div 2
is_qnan(x)      == is_nan(x) /\ x.frac >= ONE \div 2

Odd(n)    == n % 2 = 1
Bit(n, k) == Odd(n \div 2^k)
Msb(n)    == CHOOSE k \in 0..4 * (FRAC + BIAS) : /\ n < 2^(k + 1)
                                                  /\ \A j \in 0..k - 1 : n >= 2^(j + 1)
Low(n, k) == n % 2^k # 0         (* a bit of n below position k is set *)

(* What a decoder hands to the units: a finite operand is                   *)
(* (-1)^sign * sig * 2^(exp - FRAC) with the leading 1 of sig in bit FRAC,  *)
(* subnormal ones normalised; exp and sig of any other operand are 0.       *)
decode(x) ==
  LET lead_zero == FRAC - 1 - Msb(x.frac)
      kind == CASE is_zero(x) -> "zero" [] is_inf(x) -> "inf" [] is_snan(x) -> "snan"
                [] is_qnan(x) -> "qnan" [] OTHER -> "finite"
  IN  [sign |-> x.sign, kind |-> kind,
       exp  |-> CASE is_normal(x)    -> x.exp - BIAS
                  [] is_subnormal(x) -> -BIAS - lead_zero
                  [] OTHER           -> 0,
       sig  |-> CASE is_normal(x)    -> ONE + x.frac
                  [] is_subnormal(x) -> x.frac * 2^(lead_zero + 1)
                  [] OTHER           -> 0]

Kinds    == {"zero", "finite", "inf", "snan", "qnan"}
Operands == {o \in [sign : BOOLEAN, kind : Kinds, exp : Int, sig : 0..2 * ONE - 1] :
               o.kind = "finite" => o.sig >= ONE}
nan(o)   == o.kind \in {"snan", "qnan"}

(* frm.v: whether the magnitude is rounded up.                              *)
round_up(rm, sign, lsb, guard, round, sticky) ==
  CASE rm = "RNE" -> guard /\ (round \/ sticky \/ lsb)
    [] rm = "RTZ" -> FALSE
    [] rm = "RDN" -> sign /\ (guard \/ round \/ sticky)
    [] rm = "RUP" -> ~sign /\ (guard \/ round \/ sticky)
    [] rm = "RMM" -> guard
inexact(guard, round, sticky) == guard \/ round \/ sticky

Answer(value, flags) == [value |-> value, fflags |-> flags]

(* Too large for the format: infinity, or the largest number where the mode *)
(* rounds towards it.                                                       *)
Overflowed(rm, sign) ==
  LET overflow_inf == \/ rm \in {"RNE", "RMM"}
                      \/ rm = "RUP" /\ ~sign
                      \/ rm = "RDN" /\ sign
  IN  Answer(IF overflow_inf THEN Inf(sign) ELSE MaxFinite(sign), {"OF", "NX"})

(* A result below 2^EMIN, m units of 2^(EMIN - FRAC): the carry into bit    *)
(* FRAC makes it the smallest normal number.                                *)
Subnormal(sign, m) == Float(sign, IF Bit(m, FRAC) THEN 1 ELSE 0, m % ONE)
=============================================================================
