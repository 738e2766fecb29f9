------------------------------- MODULE FpuUnit -------------------------------
(****************************************************************************)
(* fpu.v: the decoders, the five units and the arbiter, serving the execute *)
(* stage, which issues one operation at a time and waits for its answer     *)
(* (exu.v:201-202, 342).  The arithmetic is the matter here; the handshake  *)
(* with stalls and flushes of the pipeline is in ExuPipe.                   *)
(****************************************************************************)
EXTENDS FloatCombinational, FloatDivide, FloatRoot, FloatFma

CONSTANT Requests    (* what the execute stage may issue: src1..src3 are a, *)
                     (* b, c as numbers, src1 is n as a word                *)

VARIABLE request     (* the operation in the execute stage, or None *)

vars == <<request, fdiv, fsqrt, fma>>

Ops == QuickOps \cup ConvertOps \cup FmaOps \cup {"FDIV_S", "FSQRT_S"}

ASSUME RequestsAssumption ==
  Requests \subseteq [op : Ops, rm : RoundingModes, a : Floats, b : Floats, c : Floats, n : Words]

None == [op |-> "none"]
Reference == INSTANCE FloatReference

fquick_wb_valid == request.op \in QuickOps
fcvt_wb_valid   == request.op \in ConvertOps

fpu_valid == fma.p2.valid \/ fquick_wb_valid \/ fcvt_wb_valid \/ fdiv.wb_valid \/ fsqrt.wb_valid

(* With one id for every operation none is older: the first port wins.      *)
Answered ==
  IF fma.p2.valid THEN fma_result
  ELSE IF fquick_wb_valid THEN Quick(request.op, request.a, request.b)
  ELSE IF fcvt_wb_valid THEN Convert(request.op, request.rm, request.a, request.n)
  ELSE IF fdiv.wb_valid THEN fdiv.wb ELSE fsqrt.wb

-----------------------------------------------------------------------------
Init == request = None /\ DivInit /\ RootInit /\ FmaInit

(* The cycle in which an operation is issued: the quick unit and the        *)
(* conversions answer in it, the others load their registers at its end.    *)
Load(r) ==
  LET x == decode(r.a)  y == decode(r.b)  z == decode(r.c)
  IN  /\ request' = r
      /\ IF r.op = "FDIV_S" THEN DivStart(x, y, r.rm) ELSE UNCHANGED fdiv
      /\ IF r.op = "FSQRT_S" THEN RootStart(x, r.rm) ELSE UNCHANGED fsqrt
      /\ FmaClock(IF r.op \in FmaOps THEN Multiply(r.op, r.rm, x, y, z) ELSE Empty)

(* A later cycle; the one with the answer ends the operation.               *)
Cycle ==
  /\ request # None
  /\ request' = IF fpu_valid THEN None ELSE request
  /\ IF fdiv.busy THEN DivClock ELSE UNCHANGED fdiv
  /\ IF fsqrt.busy THEN RootClock ELSE UNCHANGED fsqrt
  /\ FmaClock(Empty)

(* A flush stops the iterative units; it does not reach the fma stages,     *)
(* whose id 0 is not younger than flush_id 0.                               *)
Flush ==
  /\ fdiv.busy \/ fsqrt.busy
  /\ request' = None
  /\ IF fdiv.busy THEN DivFlush ELSE UNCHANGED fdiv
  /\ IF fsqrt.busy THEN RootFlush ELSE UNCHANGED fsqrt
  /\ UNCHANGED fma

Issue == request = None /\ \E r \in Requests : Load(r)

Next == Issue \/ Cycle \/ Flush

Spec == Init /\ [][Next]_vars

-----------------------------------------------------------------------------
(* Comparisons, minima, classes and sign operations give the value and the  *)
(* NV that the order of the numbers, with NaNs beside it and zeros equal,   *)
(* demands (fquick.v:65-139, fpu.v:185-189).                                *)
QuickExact ==
  fquick_wb_valid =>
    Answered = Reference!RefQuick(request.op, request.a, request.b)

(* A number beyond the 2 * XLEN bits of f2i_mag, but not so far beyond that *)
(* the code sees it: its leading bits are shifted out of the register.      *)
BeyondRegister(a) ==
  LET o == decode(a) IN o.kind = "finite" /\ o.exp \in 2 * XLEN..2 * XLEN + FRAC - 1

(* Conversions round once, in the given mode; overflow is judged on the     *)
(* rounded value and saturates with NV and without NX (fcvt.v:257-314).     *)
(* Left out are the numbers whose leading bits the register loses (see      *)
(* LargeSaturates).                                                         *)
ConversionRounded ==
  fcvt_wb_valid /\ ~(request.op \in {"FCVT_W_S", "FCVT_WU_S"} /\ BeyondRegister(request.a)) =>
    Answered = Reference!RefConvert(request.op, request.rm, request.a, request.n)

(* fcvt.v:91: what exceeds 64 bits saturates and is left to the overflow    *)
(* check.  The code asks for an exponent above 86; from 64 on the leading   *)
(* bits are already lost, and 2^64 converts to 0 without NV.                *)
LargeSaturates ==
  fcvt_wb_valid /\ request.op \in {"FCVT_W_S", "FCVT_WU_S"} /\ decode(request.a).exp >= 2 * XLEN =>
    Answered = Reference!RefConvert(request.op, request.rm, request.a, request.n)

(* a / b lies half-way between two neighbours on the subnormal grid.        *)
HalfwaySubnormal(a, b) ==
  LET k == Reference!Last(a) - Reference!Last(b)
      halves(rm) == Reference!InUnits(rm, FALSE, Reference!Units(a), Reference!Units(b),
                                      k, EMIN - FRAC - 1)
  IN  /\ {decode(a).kind, decode(b).kind} = {"finite"}
      /\ Reference!Log2(Reference!Units(a), Reference!Units(b)) + k < EMIN
      /\ Odd(halves("RTZ")) /\ halves("RTZ") = halves("RUP")

(* Thirteen cycles of signed digits, the repaired remainder and the second  *)
(* path for subnormal results end in the quotient rounded once, with the    *)
(* right flags, in every mode.  Left out are the ties of the subnormal path *)
(* in RNE, which fdiv.v rounds up: the sticky bit of fdiv.v:214 contains    *)
(* the guard bit.                                                           *)
QuotientRounded ==
  fdiv.wb_valid /\ ~(request.rm = "RNE" /\ HalfwaySubnormal(request.a, request.b)) =>
    Answered = Reference!RefDivide(request.rm, request.a, request.b)

(* The digits of the selection table and the repair by at most two units    *)
(* end in the square root rounded once (fsqrt.v:134-163).                   *)
RootRounded == fsqrt.wb_valid => Answered = Reference!RefRoot(request.rm, request.a)

(* The sum has terms of opposite signs of which one is so small that it     *)
(* leaves the alignment window, and the code misplaces the result by it:    *)
(* a nearest mode takes a tie of the product with the sign of the tiny term *)
(* lost; a directed mode steps back from a power of two without normalising *)
(* it, or, one place nearer, does not see that the product is gone.         *)
Misplaced(r) ==
  LET t == Terms(r.op, decode(r.a), decode(r.b), decode(r.c))
      prod  == t[1].sig * t[2].sig
      p_exp == t[1].exp + t[2].exp - 2 * FRAC
      c_lsb == t[3].exp - FRAC
      directed == r.rm \in {"RTZ", "RDN", "RUP"}
      power    == \E k \in 0..2 * FRAC + 1 : prod = 2^k
  IN  /\ \A i \in 1..3 : t[i].kind = "finite"
      /\ (t[1].sign # t[2].sign) # t[3].sign
      /\ \/ p_exp - c_lsb >= WIN + FRAC + 1 /\ (directed => power)
         \/ /\ directed /\ c_lsb - p_exp >= WIN + 2 * FRAC + 1
            /\ t[3].sig = ONE \/ c_lsb - p_exp = WIN + 2 * FRAC + 1

(* Sums, products and fused forms are rounded once, whatever cancels and    *)
(* however far apart the terms are: the three slices of the window, the     *)
(* sticky bits and the step back of the directed modes (fma_unit.v:523-530, *)
(* 683-700) stand for the exact sum.                                        *)
FusedRounded ==
  fma.p2.valid /\ ~Misplaced(request) =>
    Answered = Reference!RefFma(request.op, request.rm, request.a, request.b, request.c)

(* fma_unit.v:523-525: where a tiny term of the opposite sign has left the  *)
(* window, the directed modes must step the result back by one ulp.  From a *)
(* power of two the step back loses the leading bit and the result is       *)
(* nearly twice as large.                                                   *)
DirectedStepsBack ==
  fma.p2.valid /\ ~fma.p2.special /\ fma.p2.cross_exact /\ fma.p2.rm \in {"RTZ", "RDN", "RUP"} =>
    Answered = Reference!RefFma(request.op, request.rm, request.a, request.b, request.c)
=============================================================================
