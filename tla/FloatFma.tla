------------------------------- MODULE FloatFma ------------------------------
(****************************************************************************)
(* fma_unit.v: addition, multiplication and the fused forms, as +-(a * b)   *)
(* +- c, in three stages.  Stage 0 multiplies, stage 1 aligns the product   *)
(* and c to the larger last bit L and keeps 2 FRAC + 5 bits below it,       *)
(* stage 2 adds; what follows it rounds and packs.                          *)
(****************************************************************************)
EXTENDS FloatFormat, FiniteSetsExt

VARIABLE fma     (* the stage registers: [p0, p1, p2] *)

AddOps == {"FADD_S", "FSUB_S"}
FmaOps == AddOps \cup {"FMUL_S", "FMADD_S", "FMSUB_S", "FNMADD_S", "FNMSUB_S"}

DROP == FRAC + 1          (* 24: bits kept below L exactly *)
FAR  == FRAC + 4          (* 27: bits kept below those *)
WIN  == DROP + FAR        (* 51 *)
FULL == WIN + 2 * FRAC + 4    (* at most 117: no bit of the sum so high *)

Flip(o, cond) == [o EXCEPT !.sign = (@ # cond)]
Sign(neg, n)  == IF neg THEN -n ELSE n

(* The factors and the summand of each operation: a sum is 1 * a + b, a     *)
(* product a * b + 0 with a zero of its own sign.                           *)
Terms(op, a, b, c) ==
  LET one  == [sign |-> FALSE, kind |-> "finite", exp |-> 0, sig |-> ONE]
      zero == [sign |-> a.sign # b.sign, kind |-> "zero", exp |-> 0, sig |-> 0]
  IN  CASE op \in AddOps   -> <<one, a, Flip(b, op = "FSUB_S")>>
        [] op = "FMUL_S"   -> <<a, b, zero>>
        [] OTHER -> <<Flip(a, op \in {"FNMADD_S", "FNMSUB_S"}), b,
                      Flip(c, op \in {"FMSUB_S", "FNMADD_S"})>>

-----------------------------------------------------------------------------
(* Stage 0                                                                  *)

(* Booth's digits of a multiplier, -2..2, and the sum of the shifted        *)
(* multiples of the multiplicand, which the Wallace tree and the adder of   *)
(* stage 1 form.                                                            *)
BoothDigit(y, i) ==
  LET y_group(k) == IF Bit(2 * y, 2 * i + k) THEN 1 ELSE 0
  IN  y_group(0) + y_group(1) - 2 * y_group(2)

Product(x, y) ==
  LET last   == (FRAC + 1) \div 2
      sum[i \in 0..last] == BoothDigit(y, i) * x * 2^(2 * i) + (IF i = 0 THEN 0 ELSE sum[i - 1])
  IN  sum[last]

is_special(a, b, c) == \E o \in {a, b, c} : nan(o) \/ o.kind = "inf"

sp_answer(a, b, c) ==
  LET kinds == {a.kind, b.kind}
      mul_invalid   == kinds = {"zero", "inf"}
      prod_inf      == "inf" \in kinds /\ ~mul_invalid /\ ~nan(a) /\ ~nan(b)
      prod_inf_sign == a.sign # b.sign
      inf_opposite  == prod_inf /\ c.kind = "inf" /\ prod_inf_sign # c.sign
      invalid       == "snan" \in kinds \cup {c.kind} \/ mul_invalid \/ inf_opposite
  IN  IF nan(a) \/ nan(b) \/ nan(c) \/ mul_invalid \/ inf_opposite
      THEN Answer(CanonicalNaN, Raise("NV", invalid))
      ELSE Answer(Inf(IF prod_inf THEN prod_inf_sign ELSE c.sign), {})

Multiply(op, rm, x, y, z) ==
  LET t == Terms(op, x, y, z)  a == t[1]  b == t[2]  c == t[3]
  IN  [valid |-> TRUE, rm |-> rm, special |-> is_special(a, b, c),
       sp |-> IF is_special(a, b, c) THEN sp_answer(a, b, c) ELSE Answer(Zero(FALSE), {}),
       prod |-> Product(a.sig, b.sig), p_exp |-> a.exp + b.exp - 2 * FRAC,
       p_sign |-> a.sign # b.sign,
       c_sig |-> c.sig, c_lsb |-> c.exp - FRAC, c_sign |-> c.sign]

-----------------------------------------------------------------------------
(* Stage 1                                                                  *)

(* A term of n significant bits whose last bit is sh below L, cut into the  *)
(* part at and above L, the DROP bits below and the FAR bits below those.   *)
(* far_sticky is set as soon as a bit may have fallen out of the window;    *)
(* off says that the whole term has, for the largest term of n bits.        *)
Aligned(v, sh, n) ==
  IF v = 0
  THEN [fixed |-> 0, drop |-> 0, far |-> 0, far_sticky |-> FALSE, off |-> FALSE]
  ELSE IF sh >= WIN + n
  THEN [fixed |-> 0, drop |-> 0, far |-> 0, far_sticky |-> TRUE, off |-> TRUE]
  ELSE [fixed |-> v \div 2^sh,
        drop  |-> ((v * 2^DROP) \div 2^sh) % 2^DROP,
        far   |-> ((v * 2^WIN) \div 2^sh) % 2^FAR,
        far_sticky |-> sh > WIN,
        off   |-> FALSE]

Align(p0) ==
  LET L == CASE p0.c_sig = 0 -> p0.p_exp
             [] p0.c_sig # 0 /\ p0.prod = 0 -> p0.c_lsb
             [] OTHER -> IF p0.p_exp >= p0.c_lsb THEN p0.p_exp ELSE p0.c_lsb
  IN  [valid |-> p0.valid, rm |-> p0.rm, special |-> p0.special, sp |-> p0.sp,
       p_sign |-> p0.p_sign, c_sign |-> p0.c_sign, base |-> L - WIN,
       p |-> Aligned(p0.prod, L - p0.p_exp, 2 * FRAC + 2),
       c |-> Aligned(p0.c_sig, L - p0.c_lsb, FRAC + 1)]

-----------------------------------------------------------------------------
(* Stage 2                                                                  *)

Add(p1) ==
  LET sum(part)   == Sign(p1.p_sign, p1.p[part]) + Sign(p1.c_sign, p1.c[part])
      full_signed == sum("fixed") * 2^WIN + sum("drop") * 2^FAR + sum("far")
      acc_sign    == full_signed < 0
      cross(x, s) == x.off /\ x.far_sticky /\ s # acc_sign
  IN  [valid |-> p1.valid, rm |-> p1.rm, special |-> p1.special, sp |-> p1.sp,
       full |-> Sign(acc_sign, full_signed), base |-> p1.base, acc_sign |-> acc_sign,
       zero_sign   |-> IF p1.p_sign = p1.c_sign THEN p1.p_sign ELSE p1.rm = "RDN",
       deep_sticky |-> p1.p.far_sticky \/ p1.c.far_sticky,
       cross_exact |-> cross(p1.p, p1.p_sign) \/ cross(p1.c, p1.c_sign)]

-----------------------------------------------------------------------------
(* Rounding, on the registers of stage 2                                    *)

(* Mutant: no step back.                                                    *)
Cut_no_step_back(p2, k) ==
  LET mag    == p2.full \div 2^k
      guard  == k >= 1 /\ Bit(p2.full, k - 1)
      round  == k >= 2 /\ Bit(p2.full, k - 2)
      sticky == p2.deep_sticky \/ (k >= 3 /\ Low(p2.full, k - 2))
      up     == round_up(p2.rm, p2.acc_sign, Odd(mag), guard, round, sticky)
  IN  [mag |-> IF up THEN mag + 1 ELSE mag, inexact |-> inexact(guard, round, sticky)]

(* full cut to its bits from position k up, with the bits below it.  Where  *)
(* a tiny term of the other sign left the window and the rest is exact, the *)
(* directed modes step back by one unit, without normalising again.         *)
Cut(p2, k) ==
  LET mag == p2.full \div 2^k
      dec == p2.rm \in {"RTZ", "RDN", "RUP"} /\ p2.cross_exact /\ ~Low(p2.full, k) /\ mag # 0
      eff == IF dec THEN mag - 1 ELSE mag
      guard  == k >= 1 /\ Bit(p2.full, k - 1)
      round  == k >= 2 /\ Bit(p2.full, k - 2)
      sticky == p2.deep_sticky \/ (k >= 3 /\ Low(p2.full, k - 2))
      up     == round_up(p2.rm, p2.acc_sign, Odd(eff), guard, round, sticky)
  IN  [mag |-> IF up THEN eff + 1 ELSE eff, inexact |-> inexact(guard, round, sticky)]

(* The sum is normalised by its leading bit, top >= FRAC, and, if it lies   *)
(* below 2^EMIN, rounded on the grid of the subnormal numbers instead; it   *)
(* is tiny if it is below 2^EMIN when rounded as if normal.                 *)
finite_final(p2) ==
  LET top      == Msb(p2.full)
      norm_exp == p2.base + top
      norm     == Cut(p2, top - FRAC)
      norm_exp_final == norm_exp + norm.mag \div (2 * ONE)
      sub      == Cut(p2, Min({EMIN - FRAC - p2.base, FULL}))
  IN  IF p2.full = 0 THEN Answer(Zero(p2.zero_sign), {})
      ELSE IF norm_exp < EMIN
      THEN Answer(Subnormal(p2.acc_sign, sub.mag),
                  Raise("NX", sub.inexact) \cup
                  Raise("UF", sub.inexact /\ norm_exp_final < EMIN))
      ELSE IF norm_exp_final > EMAX THEN Overflowed(p2.rm, p2.acc_sign)
      ELSE Answer(Float(p2.acc_sign, norm_exp_final + BIAS, norm.mag % ONE),
                  Raise("NX", norm.inexact))

fma_result == IF fma.p2.special THEN fma.p2.sp ELSE finite_final(fma.p2)

-----------------------------------------------------------------------------
(* The clocked process.  A stage that holds no operation is shown as reset. *)

Empty   == [valid |-> FALSE]
FmaInit == fma = [p0 |-> Empty, p1 |-> Empty, p2 |-> Empty]

FmaIdle == \A p \in {"p0", "p1", "p2"} : ~fma[p].valid

FmaClock(entering) ==
  fma' = [p0 |-> entering,
          p1 |-> IF fma.p0.valid THEN Align(fma.p0) ELSE Empty,
          p2 |-> IF fma.p1.valid THEN Add(fma.p1) ELSE Empty]
=============================================================================
