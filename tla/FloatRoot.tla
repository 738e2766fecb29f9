------------------------------ MODULE FloatRoot ------------------------------
(****************************************************************************)
(* fsqrt.v: the radix-4 SRT square root.  Y is the root found so far, W     *)
(* twice the root, P the scaled residue; the last cycle repairs the root by *)
(* at most two units, rounds and packs it.                                  *)
(****************************************************************************)
EXTENDS FloatFormat

VARIABLE fsqrt

STEPS == (FRAC + 1) \div 2          (* 12 *)

(* As in fdiv.v, registers nobody reads are shown as reset.                 *)
RootIdle == [busy |-> FALSE, wb_valid |-> FALSE, cnt |-> 0, P |-> 0, Y |-> 0, W |-> 0,
             m25 |-> 0, s1 |-> [sign |-> FALSE, kind |-> "zero", exp |-> 0, sig |-> 0],
             rm |-> "RNE", wb |-> Answer(Zero(FALSE), {})]

(* A register of n bits, without and with sign.                             *)
Unsigned(n, x) == x % 2^n
Signed(n, x)   == ((x + 2^(n - 1)) % 2^n) - 2^(n - 1)

(* The first digit q is 0..4, the one with 4P nearest to                    *)
(* q * (2^25 + q * 2^22); the lower one of two as near (m0..m4, cpt1..cpt4).*)
FirstDigit(t4) ==
  LET m[q \in 0..4] == LET c == t4 - q * (2^(FRAC + 2) + q * 2^(FRAC - 1))
                       IN  IF c < 0 THEN -c ELSE c
  IN  CHOOSE q \in 0..4 : /\ \A r \in 0..q - 1 : m[q] < m[r]
                          /\ \A r \in q..4     : m[q] <= m[r]

(* sqrt_srt_table.vh: the 32 rows compare the upper bits t_h of 4P with the *)
(* same two bounds on either side, w_h / 4 to the nearest and 3 w_h / 4     *)
(* rounded up.                                                              *)
TableDigit(t_h, w_h) ==
  LET near == (w_h + 2) \div 4
      far  == (3 * w_h + 3) \div 4
  IN  CASE t_h < -far                     -> -2
        [] -far <= t_h /\ t_h < -near     -> -1
        [] -near <= t_h /\ t_h < near     -> 0
        [] near <= t_h /\ t_h < far       -> 1
        [] far <= t_h                     -> 2

(* The change a digit makes to P, Y and W, at the place sh of this cycle.   *)
Digit ==
  LET t4  == 4 * fsqrt.P
      w_h == IF fsqrt.W >= 2^(FRAC + 3) THEN 31 ELSE fsqrt.W \div 2^(FRAC - 2)
  IN  IF fsqrt.cnt = 0 THEN FirstDigit(t4) ELSE TableDigit(t4 \div 2^(FRAC - 1), w_h)

(* Mutant: q^2 forgotten in the residue.                                    *)
NextResidue_linear(q, sh) == 4 * fsqrt.P - q * fsqrt.W

NextResidue(q, sh) == 4 * fsqrt.P - q * fsqrt.W - q * q * 2^sh

-----------------------------------------------------------------------------
(* The last cycle: yF is the root rounded down, against V = m25 << FRAC.    *)

(* Mutant: the estimate is never found too large.                           *)
RepairedRoot_up_only(V) ==
  LET y0i == Unsigned(FRAC + 1, fsqrt.Y \div 2)
  IN  IF (y0i + 1) * (y0i + 1) <= V THEN y0i + 1 ELSE y0i

RepairedRoot(V) ==
  LET y0i == Unsigned(FRAC + 1, fsqrt.Y \div 2)
      yD  == IF y0i * y0i > V THEN Unsigned(FRAC + 1, y0i - 1) ELSE y0i
      yD2 == IF yD * yD > V THEN Unsigned(FRAC + 1, yD - 1) ELSE yD
  IN  IF (yD2 + 1) * (yD2 + 1) <= V THEN Unsigned(FRAC + 1, yD2 + 1) ELSE yD2

(* No root lies half-way between two numbers, so RMM rounds like RNE.       *)
RoundedRoot ==
  LET V  == fsqrt.m25 * ONE
      yF == RepairedRoot(V)
      rf == V - yF * yF
      up == \/ fsqrt.rm \in {"RNE", "RMM"} /\ rf > yF
            \/ fsqrt.rm = "RUP" /\ rf # 0
      yR == yF + (IF up THEN 1 ELSE 0)
      res_exp == (fsqrt.s1.exp \div 2) + yR \div (2 * ONE)
  IN  Answer(Float(FALSE, res_exp + BIAS, yR % ONE), Raise("NX", rf # 0))

root_result ==
  LET s1 == fsqrt.s1
  IN  CASE nan(s1) -> Answer(CanonicalNaN, Raise("NV", s1.kind = "snan"))
        [] s1.kind \in {"finite", "inf"} /\ s1.sign -> Answer(CanonicalNaN, {"NV"})
        [] s1.kind = "zero" -> Answer(Zero(s1.sign), {})
        [] s1.kind = "inf" /\ ~s1.sign -> Answer(Inf(FALSE), {})
        [] s1.kind = "finite" /\ ~s1.sign -> RoundedRoot

-----------------------------------------------------------------------------
(* The clocked process                                                      *)

RootInit == fsqrt = RootIdle

(* The significand is doubled for an odd exponent; Y starts at 1.           *)
RootStart(s1, rm) ==
  LET m25 == IF Odd(s1.exp) THEN 2 * s1.sig ELSE s1.sig
  IN  /\ ~fsqrt.busy
      /\ fsqrt' = [RootIdle EXCEPT !.busy = TRUE, !.s1 = s1, !.rm = rm, !.m25 = m25,
                     !.P = 2 * m25 - 2 * ONE, !.Y = 2 * ONE, !.W = 4 * ONE]

RootStep ==
  /\ fsqrt.busy /\ ~fsqrt.wb_valid /\ fsqrt.cnt < STEPS
  /\ LET q    == Digit
         sh   == FRAC - 1 - 2 * fsqrt.cnt
         qinc == q * 2^sh
     IN  fsqrt' = [fsqrt EXCEPT !.cnt = fsqrt.cnt + 1,
                     !.P = Signed(FRAC + 4, NextResidue(q, sh)),
                     !.Y = Unsigned(FRAC + 3, fsqrt.Y + qinc),
                     !.W = Unsigned(FRAC + 4, fsqrt.W + 2 * qinc)]

RootFinish ==
  /\ fsqrt.busy /\ ~fsqrt.wb_valid /\ fsqrt.cnt = STEPS
  /\ fsqrt' = [fsqrt EXCEPT !.wb_valid = TRUE, !.wb = root_result]

RootRelease == fsqrt.busy /\ fsqrt.wb_valid /\ fsqrt' = RootIdle
RootFlush   == fsqrt.busy /\ fsqrt' = RootIdle

RootClock == RootStep \/ RootFinish \/ RootRelease

RootNext ==
  \/ \E s1 \in Operands, rm \in RoundingModes : RootStart(s1, rm)
  \/ RootClock
  \/ RootFlush

RootSpec == RootInit /\ [][RootNext]_fsqrt

-----------------------------------------------------------------------------
(* The residue is exact: P is what is left of the significand after the     *)
(* square of the root found so far, scaled by a digit per step, and W stays *)
(* twice the root, although P, Y and W are three registers of limited width *)
(* that are updated apart (fsqrt.v:94-128).                                 *)
ResidueExact ==
  fsqrt.busy /\ fsqrt.s1.kind = "finite" =>
    /\ fsqrt.W = 2 * fsqrt.Y
    /\ 2 * ONE * fsqrt.P = 2^(2 * fsqrt.cnt) * (4 * ONE * fsqrt.m25 - fsqrt.Y * fsqrt.Y)
=============================================================================
