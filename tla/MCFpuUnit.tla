------------------------------ MODULE MCFpuUnit ------------------------------
(* Requests for TLC.  With 3 fraction bits and bias 14 there are 480        *)
(* numbers; words have 7 bits.  The sets take every significand where it is *)
(* the digits that matter, the exponents at both ends of the range, around  *)
(* 1 and as far apart as the alignment of fma_unit.v distinguishes, and     *)
(* both signs where the sign can matter.                                    *)
EXTENDS FpuUnit

Numbers(exps, fracs) == [sign : BOOLEAN, exp : exps, frac : fracs]
Positive(S) == {x \in S : ~x.sign}
Fracs       == 0..ONE - 1
Nothing     == {Zero(FALSE)}

Request(ops, rms, as, bs, cs, ns) ==
  [op : ops, rm : rms, a : as, b : bs, c : cs, n : ns]

QuickRequests ==
  LET S == Numbers({0, 1, BIAS - 1, BIAS, SPECIAL - 1, SPECIAL}, {0, 1, ONE \div 2, ONE - 1})
  IN  Request(QuickOps, {"RNE"}, S, S, Nothing, {0})

ConvertRequests ==
  Request({"FCVT_W_S", "FCVT_WU_S"}, RoundingModes, Floats, Nothing, Nothing, {0}) \cup
  Request({"FCVT_S_W", "FCVT_S_WU"}, RoundingModes, Nothing, Nothing, Nothing, Words)

DivideRequests ==
  LET A == Numbers({0, 1, BIAS, SPECIAL - 1, SPECIAL}, Fracs)
      B == Positive(Numbers({0, 1, BIAS - 1, BIAS + 2, SPECIAL - 2, SPECIAL}, Fracs))
  IN  Request({"FDIV_S"}, RoundingModes, A, B, Nothing, {0})

RootRequests == Request({"FSQRT_S"}, RoundingModes, Floats, Nothing, Nothing, {0})

AddRequests ==
  LET Sums(as, bs) == Request(AddOps, RoundingModes, Positive(Numbers(as, Fracs)),
                              Numbers(bs, Fracs), Nothing, {0})
  IN  Sums({0, 1, 2, BIAS, SPECIAL - 3, SPECIAL}, {0, 1, 3, BIAS - 4, BIAS, SPECIAL - 5, SPECIAL})
      \cup Sums({SPECIAL - 1}, {BIAS, SPECIAL - 5, SPECIAL - 2, SPECIAL - 1})

MultiplyRequests ==
  LET A == Positive(Numbers({0, 1, BIAS - 3, BIAS, SPECIAL - 2, SPECIAL}, {0, 1, 3, 5, ONE - 1}))
      B == Numbers({0, 2, 3, BIAS, SPECIAL - 1, SPECIAL}, Fracs)
  IN  Request({"FMUL_S"}, RoundingModes, A, B, Nothing, {0})

(* Products near the smallest numbers, far below the summand, and near the  *)
(* largest numbers, far above the summand; 9 * 12 is a tie.                 *)
FuseRequests ==
  LET Fused(as, bs, cs) ==
        LET A == Positive(Numbers(as, {1, 3, 4, ONE - 1}))
            B == Positive(Numbers(bs, {0, 4, 5}))
            C == Numbers(cs, {0, 2, 5, ONE - 1})
        IN  Request({"FMADD_S"}, RoundingModes, A, B, C, {0}) \cup
            Request({"FMSUB_S", "FNMADD_S", "FNMSUB_S"}, {"RDN"}, A, B, C, {0})
  IN  Fused({0, 1, 8}, {2, BIAS - 2}, {0, 1, 4, 9}) \cup
      Fused({6, BIAS}, {6, 8, BIAS}, {0, 5, BIAS, BIAS + 5, BIAS + 6}) \cup
      Fused({BIAS + 6, SPECIAL - 1, SPECIAL}, {0, BIAS, BIAS + 6, SPECIAL},
            {BIAS - 4, BIAS, SPECIAL - 3, SPECIAL - 1, SPECIAL})

MCRequests == QuickRequests \cup ConvertRequests \cup DivideRequests \cup RootRequests
              \cup AddRequests \cup MultiplyRequests \cup FuseRequests

(* The largest numbers.                                                     *)
MCLargeNumbers ==
  Request({"FCVT_W_S", "FCVT_WU_S"}, RoundingModes, Numbers({2 * XLEN + BIAS}, Fracs),
          Nothing, Nothing, {0})

(* Sums of numbers as far apart as the window distinguishes, towards zero.  *)
MCFarSums ==
  Request({"FMADD_S"}, {"RTZ"}, Positive(Numbers({6, BIAS}, {0, 5})),
          Positive(Numbers({6, BIAS}, {0, 6})), Numbers({6, BIAS, BIAS + 6}, {0, 3}), {0})
=============================================================================
