----------------------------- MODULE FloatDivide -----------------------------
(****************************************************************************)
(* fdiv.v: the radix-4 SRT division.  A cycle finds one signed digit of the *)
(* quotient; the last one repairs a negative remainder, rounds and packs.   *)
(****************************************************************************)
EXTENDS FloatFormat

VARIABLE fdiv

DIGITS == (FRAC + 1) \div 2         (* 12 *)

(* While busy is low nothing reads the other registers before a start loads *)
(* them: they are shown as reset.                                           *)
NoOperand == [sign |-> FALSE, kind |-> "zero", exp |-> 0, sig |-> 0]
DivIdle == [busy |-> FALSE, wb_valid |-> FALSE, cnt |-> 0, rem |-> 0, quo |-> 0,
            s1 |-> NoOperand, s2 |-> NoOperand, rm |-> "RNE",
            wb |-> Answer(Zero(FALSE), {})]

Magnitude(n) == IF n < 0 THEN -n ELSE n

(* Mutant: the digits of the later steps for the first step too.            *)
SelectDigit_up_to_2(cnt, rem, d) ==
  LET ymag == Magnitude(4 * rem)
      dh   == d \div 2
      qmag == IF ymag < dh THEN 0 ELSE IF ymag < d + dh THEN 1 ELSE 2
  IN  IF rem < 0 THEN -qmag ELSE qmag

(* The digit nearest to 4P/d, from multiples of d/2 rounded down: 0..4 in   *)
(* the first step, -2..2 later.                                             *)
SelectDigit(cnt, rem, d) ==
  LET ymag == Magnitude(4 * rem)
      dh   == d \div 2
      qmag == IF ymag < dh THEN 0
              ELSE IF ymag < d + dh THEN 1
              ELSE IF cnt # 0 \/ ymag < 2 * d + dh THEN 2
              ELSE IF ymag < 3 * d + dh THEN 3 ELSE 4
  IN  IF rem < 0 THEN -qmag ELSE qmag

(* Mutant: the multiples of negative digits forgotten.                      *)
Multiple_without_negative(q, d) == IF q \in 0..4 THEN q * d ELSE 0

(* qd has no case for -3 and -4: no division of numbers needs them.         *)
Multiple(q, d) == IF q \in -2..4 THEN q * d ELSE 0

(* rem_ff keeps FRAC + 2 bits of the new remainder.                         *)
Kept(n) == IF n \in -2 * ONE..2 * ONE - 1 THEN n
           ELSE ((n + 2 * ONE) % (4 * ONE)) - 2 * ONE

-----------------------------------------------------------------------------
(* The packing of the last cycle (result_combo)                             *)

Finite(s1, s2) == s1.kind = "finite" /\ s2.kind = "finite"

Special(s1, s2, res_sign) ==
  LET invalid == s1.kind = s2.kind /\ s1.kind \in {"zero", "inf"}
  IN  IF nan(s1) \/ nan(s2) \/ invalid
      THEN Answer(CanonicalNaN, Raise("NV", "snan" \in {s1.kind, s2.kind} \/ invalid))
      ELSE IF s1.kind = "inf" \/ s2.kind = "zero"
      THEN Answer(Inf(res_sign), Raise("DZ", s1.kind # "inf"))
      ELSE Answer(Zero(res_sign), {})

(* The quotient is (2 * ONE + frac) / (2 * ONE), in [1, 2), times           *)
(* 2^norm_exp0; its last bit is the guard, sticky stands for the remainder. *)
Normal(rm, res_sign, norm_exp0, frac, sticky) ==
  LET up    == round_up(rm, res_sign, Bit(frac, 1), Odd(frac), FALSE, sticky)
      frac_c == frac \div 2 + (IF up THEN 1 ELSE 0)
  IN  [exp |-> norm_exp0 + frac_c \div ONE, frac |-> frac_c % ONE,
       inexact |-> inexact(Odd(frac), FALSE, sticky)]

(* Mutant: the remainder is forgotten where bits of the quotient are lost.  *)
SubGuarded_no_remainder(quo, sub_rsh, sticky) ==
  IF sub_rsh > FRAC + 2
  THEN [mag |-> 0, guard |-> FALSE, round |-> FALSE, sticky |-> TRUE]
  ELSE [mag |-> quo \div 2^sub_rsh, guard |-> Bit(quo, sub_rsh - 1),
        round |-> Bit(quo, sub_rsh - 2), sticky |-> Low(quo, sub_rsh - 2)]

(* On the grid of the subnormal numbers the quotient loses sub_rsh bits.    *)
(* sub_shift_sticky covers all of them, the guard and round bits too.       *)
SubGuarded(quo, sub_rsh, sticky) ==
  IF sub_rsh > FRAC + 2
  THEN [mag |-> 0, guard |-> FALSE, round |-> FALSE, sticky |-> TRUE]
  ELSE [mag |-> quo \div 2^sub_rsh, guard |-> Bit(quo, sub_rsh - 1),
        round |-> Bit(quo, sub_rsh - 2), sticky |-> sticky \/ Low(quo, sub_rsh)]

Packed(rm, res_sign, norm_exp0, frac, sticky) ==
  LET n  == Normal(rm, res_sign, norm_exp0, frac, sticky)
      g  == SubGuarded(2 * ONE + frac, 2 - BIAS - norm_exp0, sticky)
      up == round_up(rm, res_sign, Odd(g.mag), g.guard, g.round, g.sticky)
      lost == inexact(g.guard, g.round, g.sticky)
  IN  IF norm_exp0 < EMIN
      THEN Answer(Subnormal(res_sign, g.mag + (IF up THEN 1 ELSE 0)),
                  Raise("NX", lost) \cup Raise("UF", lost /\ n.exp < EMIN))
      ELSE IF n.exp > EMAX THEN Overflowed(rm, res_sign)
      ELSE Answer(Float(res_sign, n.exp + BIAS, n.frac), Raise("NX", n.inexact))

result_combo ==
  LET s1 == fdiv.s1  s2 == fdiv.s2
      res_sign  == s1.sign # s2.sign
      p_neg     == fdiv.rem < 0
      frac      == (IF p_neg THEN fdiv.quo - 1 ELSE fdiv.quo) % (2 * ONE)
      div_rem   == IF p_neg THEN fdiv.rem + s2.sig ELSE fdiv.rem
      norm_exp0 == s1.exp - s2.exp - (IF s1.sig < s2.sig THEN 1 ELSE 0)
  IN  IF Finite(s1, s2) THEN Packed(fdiv.rm, res_sign, norm_exp0, frac, div_rem # 0)
      ELSE Special(s1, s2, res_sign)

-----------------------------------------------------------------------------
(* The clocked process                                                      *)

DivInit == fdiv = DivIdle

(* P0 = a - d with a doubled if it is below d: the quotient's leading 1 is  *)
(* taken out before the first digit.                                        *)
DivStart(s1, s2, rm) ==
  /\ ~fdiv.busy
  /\ fdiv' = [DivIdle EXCEPT !.busy = TRUE, !.s1 = s1, !.s2 = s2, !.rm = rm,
                !.rem = (IF s1.sig < s2.sig THEN 2 * s1.sig ELSE s1.sig) - s2.sig]

Running == fdiv.busy /\ ~fdiv.wb_valid

DivStep ==
  /\ Running /\ fdiv.cnt < DIGITS
  /\ LET d == fdiv.s2.sig
         q == SelectDigit(fdiv.cnt, fdiv.rem, d)
     IN  fdiv' = [fdiv EXCEPT !.cnt = fdiv.cnt + 1,
                              !.quo = 4 * fdiv.quo + q,
                              !.rem = Kept(4 * fdiv.rem - Multiple(q, d))]

DivFinish ==
  /\ Running /\ fdiv.cnt = DIGITS
  /\ fdiv' = [fdiv EXCEPT !.wb_valid = TRUE, !.wb = result_combo]

DivRelease == fdiv.busy /\ fdiv.wb_valid /\ fdiv' = DivIdle
DivFlush   == fdiv.busy /\ fdiv' = DivIdle

DivClock == DivStep \/ DivFinish \/ DivRelease

DivNext ==
  \/ \E s1, s2 \in Operands, rm \in RoundingModes : DivStart(s1, s2, rm)
  \/ DivClock
  \/ DivFlush

DivSpec == DivInit /\ [][DivNext]_fdiv

-----------------------------------------------------------------------------
(* The registers of the division hold operands as the decoders normalise    *)
(* them, a digit counter that stops at 12 and a remainder of their width    *)
(* (fdiv.v:34-37, 123-126, 303-353), wb what was packed last.                  *)
DivTypeOK ==
  /\ DOMAIN fdiv = DOMAIN DivIdle
  /\ fdiv.busy \in BOOLEAN /\ fdiv.wb_valid \in BOOLEAN
  /\ fdiv.cnt \in 0..DIGITS /\ fdiv.quo \in Int /\ fdiv.rm \in RoundingModes
  /\ fdiv.rem \in -2 * ONE..2 * ONE - 1
  /\ fdiv.s1 \in Operands /\ fdiv.s2 \in Operands

(* Between numbers, the remainder stays within two thirds of the divisor    *)
(* after every digit, whatever digit the thresholds choose (the comment of  *)
(* fdiv.v:88): the digits -2..2 of the later steps suffice, and rem_ff      *)
(* never overflows.                                                         *)
RemainderBounded ==
  fdiv.busy /\ Finite(fdiv.s1, fdiv.s2) =>
    IF fdiv.cnt = 0 THEN fdiv.rem \in 0..fdiv.s2.sig - 1
    ELSE 3 * Magnitude(fdiv.rem) <= 2 * fdiv.s2.sig

(* No digit loses anything of the dividend: quotient times divisor plus     *)
(* remainder is the dividend with two more bits brought down, although the  *)
(* register cuts the remainder and the multiples 3d and 4d exist only for   *)
(* positive digits (fdiv.v:114-126).                                        *)
NothingLost ==
  [][DivStep /\ Finite(fdiv.s1, fdiv.s2) =>
       fdiv'.quo * fdiv.s2.sig + fdiv'.rem = 4 * (fdiv.quo * fdiv.s2.sig + fdiv.rem)]_fdiv
=============================================================================
