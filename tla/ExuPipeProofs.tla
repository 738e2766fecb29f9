---------------------------- MODULE ExuPipeProofs ----------------------------
(****************************************************************************)
(* The back end computes what the architecture defines, for every program,  *)
(* every set of registers, every depth of the bypass networks, every timing *)
(* of the units, misprediction, wrong path and fence, if no operation of the*)
(* FPU is itself taken for mispredicted (FpNeverMisses).                    *)
(* The invariant has three parts: what stands in the stage and when it is   *)
(* thrown away (Stage), what the units work on (Units), and where the value *)
(* of a register is between write-back and register file (Data).            *)
(****************************************************************************)
EXTENDS ExuPipe, TLAPS, WellFoundedInduction

FpKinds == {"fma", "fdiv", "fquick"}
X0      == [file |-> "x", n |-> 0]

(* The sequence the code does not stand: see the README.                    *)
FpNeverMisses == \A k \in FpKinds : k \notin MissKinds

(* What one clock edge is given.                                            *)
Inputs(answer, loaded, finish, taken, pc_update, next) ==
  /\ {answer, finish, taken, pc_update} \subseteq BOOLEAN
  /\ taken => ex.kind = "fence"
  /\ next \in Offers
  /\ Edge(answer, loaded, finish, taken, pc_update, next)

Instruction(i) ==
  /\ i.kind \in Kinds \cup {"none"}
  /\ i.rd \in Regs \cup {NoReg} /\ i.src \in Regs \cup {NoReg}
  /\ i.csr \in Csrs
  /\ i.miss \in BOOLEAN /\ i.stray \in BOOLEAN

(* A mispredicted instruction leaves in the cycle in which it is announced, *)
(* so that the one a flush finds in the stage is from the wrong path.       *)
Stage ==
  /\ Instruction(ex)
  /\ {idu_valid, flush_en, astray} \subseteq BOOLEAN
  /\ astray => flush_en \/ (idu_valid /\ ex.miss)
  /\ flush_en => astray
  /\ idu_valid => (ex.stray <=> flush_en)
  /\ idu_valid /\ ex.miss => /\ astray /\ ex.kind \in MissKinds
                             /\ ex.kind = "fence" \/ fence_left = 0

(* A unit works for the instruction in the stage, on its right operand.     *)
Wanted == Eval(arch_operand)

MduServes ==
  /\ ~(mdu.busy /\ mdu.done)
  /\ mdu.busy \/ mdu.done => ex.kind = "mdu" /\ mdu.result = Wanted

FmaServes ==
  /\ \A k \in 1..3 : fma[k].valid =>
       /\ idu_valid /\ ~flush_en /\ ex.kind = "fma" /\ fpu_busy /\ fma[k].x = Wanted
       /\ \A j \in 1..3 : fma[j].valid => j = k

FdivServes ==
  /\ fdiv = [busy |-> fdiv.busy, cnt |-> fdiv.cnt, wb_valid |-> fdiv.wb_valid, x |-> fdiv.x]
  /\ fdiv.busy => idu_valid /\ ~flush_en /\ ex.kind = "fdiv" /\ fdiv.x = Wanted
  /\ fdiv.wb_valid => fdiv.busy

Units == MduServes /\ FmaServes /\ FdivServes

(* The entry of its network a register would be read from.                  *)
Holds(net, r, k) == net[r.file][k].valid /\ net[r.file][k].rd = r.n

Youngest ==
  \A r \in Regs \ {X0}, k \in 1..BYPASS_DEPTH :
    Holds(bypass, r, k) /\ (\A j \in 1..k - 1 : ~Holds(bypass, r, j))
      => bypass[r.file][k].data = arch[r]

Data ==
  /\ regs = [r \in Regs |-> regs[r]] /\ arch = [r \in Regs |-> arch[r]]
  /\ arch_csr = [c \in Csrs |-> arch_csr[c]]
  /\ RegistersFollow /\ CsrsFollow
  /\ Youngest
  /\ wb.valid /\ wb.rd \in Regs => Holds(bypass, wb.rd, 1)

Inv == Stage /\ Units /\ Data

-----------------------------------------------------------------------------
(* Operands                                                                 *)

(* A nonempty set of entries has a youngest one.                            *)
LEMMA LeastEntry ==
  ASSUME NEW T, T \subseteq Nat, T # {}
  PROVE  \E x \in T : \A y \in T : x <= y
<1> DEFINE R == OpToRel(<, Nat)
<1>1. IsWellFoundedOn(R, Nat)
  BY NatLessThanWellFounded DEF R
<1>2. PICK x \in T : \A y \in T : ~(<<y, x>> \in R)
  <2> HIDE DEF R
  <2> QED BY <1>1, WFMin
<1>3. \A y \in T : x <= y
  <2> TAKE y \in T
  <2>1. x \in Nat /\ y \in Nat
    OBVIOUS
  <2>2. ~(y < x)
    <3> HIDE DEF R
    <3>1. <<y, x>> \in Nat \X Nat
      BY <2>1
    <3>2. y < x => <<y, x>> \in R
      BY <3>1 DEF R, OpToRel
    <3> QED BY <1>2, <3>2
  <2> QED BY <2>1, <2>2
<1> QED BY <1>3

LEMMA RegisterFacts ==
  ASSUME NEW r \in Regs
  PROVE  /\ r.file \in {"x", "f"} /\ r.n \in Nat
         /\ r # X0 <=> (r.n # 0 \/ r.file = "f")
         /\ r # NoReg /\ Readable(r)
         /\ \A q \in Regs : q.file = r.file /\ q.n = r.n => q = r
<1>1. \A q \in Regs : q = [file |-> q.file, n |-> q.n] /\ q.file \in {"x", "f"} /\ q.n \in Nat
  BY ExuAssumption DEF ExuAssumption
<1> QED BY <1>1 DEF X0, NoReg, Readable

(* The bypass network and the register file together give every register    *)
(* its architectural value.                                                 *)
LEMMA Operand ==
  ASSUME Stage, Data
  PROVE  operand = arch_operand
<1> SUFFICES ASSUME NEW r \in Regs PROVE bypass_data(r) = arch[r]
  BY DEF operand, arch_operand, Stage, Instruction, NoReg, Readable
<1> DEFINE hits == {k \in 1..BYPASS_DEPTH : /\ bypass[r.file][k].valid
                                            /\ bypass[r.file][k].rd = r.n
                                            /\ (r.n # 0 \/ r.file = "f")}
           best == CHOOSE k \in hits : \A j \in hits : k <= j
<1>1. bypass_data(r) = IF hits = {} THEN rf_data(r) ELSE bypass[r.file][best].data
  BY DEF bypass_data
<1>2. BYPASS_DEPTH \in Nat \ {0}
  BY ExuAssumption DEF ExuAssumption
<1>3. CASE hits = {}
  <2>1. ~(wb.valid /\ wb.rd = r /\ r # X0)
    BY <1>2, <1>3, RegisterFacts DEF Data, Holds
  <2> QED BY <1>1, <1>3, <2>1 DEF Data, RegistersFollow, X0
<1>4. CASE hits # {}
  <2>1. hits \subseteq Nat
    BY <1>2
  <2>2. \E x \in hits : \A y \in hits : x <= y
    <3> HIDE DEF hits
    <3> QED BY <1>4, <2>1, LeastEntry
  <2>3. best \in hits /\ \A y \in hits : best <= y
    <3> HIDE DEF hits
    <3> QED BY <2>2
  <2>4. best \in 1..BYPASS_DEPTH /\ r # X0 /\ Holds(bypass, r, best)
    BY <2>3, RegisterFacts DEF Holds
  <2>5. ASSUME NEW j \in 1..best - 1 PROVE ~Holds(bypass, r, j)
    <3>1. j \in 1..BYPASS_DEPTH /\ ~(best <= j)
      <4> HIDE DEF best, hits
      <4> QED BY <1>2, <2>4
    <3>2. j \notin hits
      <4> HIDE DEF best, hits
      <4> QED BY <2>3, <3>1
    <3>3. r.n # 0 \/ r.file = "f"
      BY <2>4, RegisterFacts
    <3> HIDE DEF best
    <3> QED BY <3>1, <3>2, <3>3 DEF Holds
  <2> HIDE DEF best, hits
  <2>6. bypass[r.file][best].data = arch[r]
    BY <2>4, <2>5 DEF Data, Youngest
  <2> QED BY <1>1, <1>4, <2>6
<1> QED BY <1>3, <1>4

-----------------------------------------------------------------------------
(* The stage                                                                *)

LEMMA OfferFacts ==
  ASSUME NEW next \in Offers, astray \in BOOLEAN
  PROVE  \/ next = Bubble
         \/ /\ Instruction(next) /\ next # Bubble /\ next.kind # "none"
            /\ next.stray = astray
            /\ next.miss => /\ next.kind \in MissKinds /\ ~astray
                            /\ ex.kind # "fence" /\ fence_left = 0
<1> SUFFICES ASSUME next # Bubble
    PROVE /\ Instruction(next) /\ next.kind # "none"
          /\ next.stray = astray
          /\ next.miss => /\ next.kind \in MissKinds /\ ~astray
                          /\ ex.kind # "fence" /\ fence_left = 0
  OBVIOUS
<1>1. PICK i \in Program :
        \E m \in IF MayMiss(i) THEN BOOLEAN ELSE {FALSE} :
           next = [kind |-> i.kind, rd |-> i.rd, src |-> i.src, csr |-> i.csr,
                   flag |-> i.flag, miss |-> m, stray |-> astray]
  BY DEF Offers
<1>2. PICK m \in BOOLEAN :
        /\ m => MayMiss(i)
        /\ next = [kind |-> i.kind, rd |-> i.rd, src |-> i.src, csr |-> i.csr,
                   flag |-> i.flag, miss |-> m, stray |-> astray]
  BY <1>1
<1>3. /\ i.kind \in Kinds /\ i.rd \in Regs \cup {NoReg} /\ i.src \in Regs \cup {NoReg}
      /\ i.csr \in Csrs
  BY ExuAssumption DEF ExuAssumption
<1>4. "none" \notin Kinds
  BY DEF Kinds
<1> QED BY <1>1, <1>2, <1>3, <1>4 DEF Instruction, MayMiss, fence_done

(* A mispredicted instruction whose redirection is announced leaves.        *)
LEMMA MissLeaves ==
  ASSUME FpNeverMisses, Stage, NEW answer, idu_valid, ex.miss, lsu_ready(answer), mdu_ready
  PROVE  leaves(answer)
<1>1. ex.kind \in MissKinds /\ (ex.kind = "fence" \/ fence_left = 0)
  BY DEF Stage
<1>2. ~op_fpu
  BY <1>1 DEF FpNeverMisses, op_fpu, FpKinds
<1> QED BY <1>1, <1>2 DEF leaves, done, fence_done

(* When the redirection rises and falls.                                    *)
LEMMA FlushRises ==
  ASSUME Stage, NEW answer, NEW pc_update \in BOOLEAN, BruClock(answer, pc_update)
  PROVE  /\ flush_en => flush_en' = ~pc_update
         /\ ~flush_en => flush_en' = (idu_valid /\ ex.miss /\ lsu_ready(answer) /\ mdu_ready)
<1>1. flush_en \in BOOLEAN /\ idu_valid \in BOOLEAN /\ ex.miss \in BOOLEAN
  BY DEF Stage, Instruction
<1>2. flush_en => lsu_ready(answer)
  BY DEF lsu_ready, lsu_en
<1> QED BY <1>1, <1>2 DEF BruClock

LEMMA StageStep ==
  ASSUME FpNeverMisses, Stage, NEW answer, NEW loaded, NEW finish, NEW taken, NEW pc_update, NEW next,
         Inputs(answer, loaded, finish, taken, pc_update, next)
  PROVE  Stage'
<1>1. /\ {answer, finish, taken, pc_update} \subseteq BOOLEAN
      /\ taken => ex.kind = "fence"
      /\ next \in Offers
      /\ DecodeClock(answer, next) /\ BruClock(answer, pc_update) /\ FenceClock(taken)
      /\ astray' = IF flush_en THEN astray /\ ~pc_update
                   ELSE astray \/ (exu_ready(answer) /\ next.miss)
  BY DEF Inputs, Edge, History
<1>2. /\ {idu_valid, flush_en, astray} \subseteq BOOLEAN /\ Instruction(ex)
  BY DEF Stage
<1>3. CASE flush_en
  <2>1. idu_valid' = FALSE /\ ex' = ex
    BY <1>1, <1>3 DEF DecodeClock
  <2>2. flush_en' = ~pc_update /\ astray' = ~pc_update
    BY <1>1, <1>3, FlushRises DEF Stage
  <2> QED BY <1>1, <1>2, <2>1, <2>2 DEF Stage, Instruction
<1>4. CASE ~flush_en /\ exu_ready(answer)
  <2>1. ex' = next /\ idu_valid' = (next # Bubble)
    BY <1>1, <1>4 DEF DecodeClock
  <2>2. flush_en' = (idu_valid /\ ex.miss)
    BY <1>1, <1>4, FlushRises DEF exu_ready, done
  <2>3. astray => flush_en'
    BY <1>4, <2>2 DEF Stage
  <2>4. flush_en' => astray
    BY <2>2 DEF Stage
  <2>5. astray' = (astray \/ next.miss)
    BY <1>1, <1>4
  <2>6. CASE next = Bubble
    BY <1>2, <2>1, <2>2, <2>3, <2>4, <2>5, <2>6 DEF Stage, Instruction, Bubble, Csrs
  <2>7. CASE next # Bubble
    <3>1. /\ Instruction(next) /\ next.stray = astray
          /\ next.miss => /\ next.kind \in MissKinds /\ ~astray
                          /\ ex.kind # "fence" /\ fence_left = 0
      BY <1>1, <1>2, <2>7, OfferFacts
    <3>2. next.miss => fence_left' = 0
      BY <1>1, <3>1 DEF FenceClock
    <3> QED BY <1>2, <2>1, <2>2, <2>3, <2>4, <2>5, <2>7, <3>1, <3>2 DEF Stage, Instruction
  <2> QED BY <2>6, <2>7
<1>5. CASE ~flush_en /\ ~exu_ready(answer)
  <2>1. ex' = ex /\ idu_valid' = idu_valid /\ astray' = astray
    BY <1>1, <1>2, <1>5 DEF DecodeClock
  <2>2. flush_en' = FALSE
    BY <1>1, <1>5, FlushRises, MissLeaves DEF leaves, exu_ready
  <2>3. idu_valid /\ ex.miss /\ ex.kind # "fence" => fence_left' = 0
    BY <1>1 DEF FenceClock, Stage
  <2> QED BY <1>2, <1>5, <2>1, <2>2, <2>3 DEF Stage, Instruction
<1> QED BY <1>3, <1>4, <1>5

-----------------------------------------------------------------------------
(* What a retiring instruction computes                                     *)

(* Something retires only from the right path, and makes room.              *)
LEMMA RetiringFacts ==
  ASSUME Stage, NEW answer, leaves(answer)
  PROVE  /\ idu_valid /\ exu_ready(answer)
         /\ retires(answer) <=> ~ex.stray
         /\ retires(answer) <=> ~flush_en
  BY DEF Stage, leaves, retires, exu_ready, Instruction

(* The arbiter gives the stage its own result.                              *)
LEMMA FpuAnswers ==
  ASSUME Stage, Units, Data, idu_valid, op_fpu, fpu_valid
  PROVE  fpu_result = Wanted
<1>1. CASE fma_wb
  BY <1>1 DEF fma_wb, fpu_result, Units, FmaServes
<1>2. CASE ~fma_wb /\ quick_wb
  BY <1>2, Operand DEF fpu_result, Wanted
<1>3. CASE ~fma_wb /\ ~quick_wb
  BY <1>3 DEF fpu_valid, fpu_result, Units, FdivServes
<1> QED BY <1>1, <1>2, <1>3

LEMMA RightResult ==
  ASSUME Inv, NEW answer, NEW loaded, retires(answer)
  PROVE  result(loaded) = arch_result(loaded)
<1>1. /\ idu_valid /\ mdu_ready /\ (op_fpu => fpu_valid)
  BY DEF retires, leaves, done
<1>2. CASE ex.kind = "csr"
  <2>1. ex.csr \in {"fflags", "mepc"}
    BY DEF Inv, Stage, Instruction, Csrs
  <2>2. csr_rdata(ex.csr) = IF ex.csr = "fflags" THEN arch_csr["fflags"] ELSE csr["mepc"]
    BY <2>1 DEF Inv, Data, CsrsFollow, csr_rdata
  <2> QED BY <1>2, <2>2 DEF result, arch_result, op_fpu
<1>3. CASE ex.kind = "mdu"
  BY <1>1, <1>3 DEF result, arch_result, op_fpu, mdu_ready, Inv, Units, MduServes, Wanted
<1>4. CASE ex.kind = "load"
  BY <1>4 DEF result, arch_result, op_fpu
<1>5. CASE op_fpu
  <2>1. fpu_result = Wanted
    BY <1>1, <1>5, FpuAnswers DEF Inv
  <2> QED BY <1>5, <2>1 DEF result, arch_result, op_fpu, Wanted
<1>6. CASE ex.kind \notin {"csr", "mdu", "load"} /\ ~op_fpu
  <2>1. operand = arch_operand
    BY Operand DEF Inv
  <2> QED BY <1>6, <2>1 DEF result, arch_result
<1> QED BY <1>2, <1>3, <1>4, <1>5, <1>6

-----------------------------------------------------------------------------
(* The units                                                                *)

(* What is wanted changes only with the instruction in the stage.           *)
LEMMA WantedStays ==
  ASSUME Stage, NEW answer, NEW loaded, NEW finish, NEW taken, NEW pc_update, NEW next,
         Inputs(answer, loaded, finish, taken, pc_update, next), ~retires(answer)
  PROVE  /\ arch' = arch /\ bypass' = bypass
         /\ ex' = ex => Wanted' = Wanted
<1>1. arch' = arch /\ bypass' = bypass
  BY DEF Inputs, Edge, History, BypassClock
<1>2. ex' = ex => arch_operand' = arch_operand
  BY <1>1 DEF arch_operand, Readable
<1> QED BY <1>1, <1>2 DEF Wanted, Eval

LEMMA MduStep ==
  ASSUME Inv, NEW answer, NEW loaded, NEW finish, NEW taken, NEW pc_update, NEW next,
         Inputs(answer, loaded, finish, taken, pc_update, next)
  PROVE  MduServes'
<1> DEFINE start == ex.kind = "mdu" /\ ~mdu.done /\ ~mdu.busy /\ lsu_ready(answer)
           stop  == mdu.busy /\ finish
<1>1. MduClock(answer, finish) /\ DecodeClock(answer, next)
  BY DEF Inputs, Edge
<1>2. mdu' = [busy   |-> start \/ (mdu.busy /\ ~stop),
              done   |-> stop,
              result |-> IF start THEN Eval(operand) ELSE mdu.result]
  BY <1>1 DEF MduClock
<1>3. /\ mdu'.busy = (start \/ (mdu.busy /\ ~stop)) /\ mdu'.done = stop
      /\ mdu'.result = IF start THEN Eval(operand) ELSE mdu.result
  BY <1>2
<1>4. ~(mdu'.busy /\ mdu'.done)
  BY <1>3
<1>5. ASSUME start \/ mdu.busy
      PROVE  ex'.kind = "mdu" /\ mdu'.result = Wanted'
  <2>1. ex.kind = "mdu" /\ ~mdu.done
    BY <1>5 DEF Inv, Units, MduServes
  <2>2. ~exu_ready(answer) /\ ~retires(answer)
    BY <2>1 DEF exu_ready, retires, leaves, done, mdu_ready
  <2>3. ex' = ex
    BY <1>1, <2>2 DEF DecodeClock
  <2>4. Wanted' = Wanted
    BY <2>2, <2>3, WantedStays DEF Inv
  <2>5. start => Eval(operand) = Wanted
    BY Operand DEF Inv, Wanted
  <2>6. ~start => mdu.result = Wanted
    BY <1>5 DEF Inv, Units, MduServes
  <2> QED BY <1>3, <2>1, <2>3, <2>4, <2>5, <2>6
<1>6. mdu'.busy \/ mdu'.done => start \/ mdu.busy
  BY <1>3
<1> QED BY <1>4, <1>5, <1>6 DEF MduServes

(* An operation of the FPU that has not got its result announces no flush.  *)
LEMMA NoFlushRises ==
  ASSUME FpNeverMisses, Stage, ~flush_en, op_fpu,
         NEW answer, NEW pc_update \in BOOLEAN, BruClock(answer, pc_update)
  PROVE  flush_en' = FALSE
<1>1. ~(idu_valid /\ ex.miss)
  BY DEF FpNeverMisses, Stage, op_fpu, FpKinds
<1>2. idu_valid \in BOOLEAN /\ ex.miss \in BOOLEAN
  BY DEF Stage, Instruction
<1> QED BY <1>1, <1>2, FlushRises

(* The multiply-add and the divider keep working for the stage.             *)
LEMMA FmaStep ==
  ASSUME FpNeverMisses, Inv, NEW answer, NEW loaded, NEW finish, NEW taken, NEW pc_update, NEW next,
         Inputs(answer, loaded, finish, taken, pc_update, next)
  PROVE  FmaServes'
<1> DEFINE issue == fpu_issue /\ ex.kind = "fma"
<1>1. FmaClock /\ FpuBusyClock /\ DecodeClock(answer, next)
  BY DEF Inputs, Edge
<1>2. /\ issue => fma'[1] = [valid |-> TRUE, x |-> Eval(operand)]
      /\ ~issue => fma'[1] = [valid |-> FALSE, x |-> 0]
      /\ fma'[2] = fma[1] /\ fma'[3] = fma[2]
  BY <1>1 DEF FmaClock
<1>3. /\ fma'[1].valid => issue /\ fma'[1].x = Eval(operand)
      /\ fma'[2] = fma[1] /\ fma'[3] = fma[2]
  BY <1>2
<1>4. \A j, k \in 1..3 : fma[j].valid /\ fma[k].valid => j = k
  BY DEF Inv, Units, FmaServes
<1>5. issue => \A k \in 1..3 : ~fma[k].valid
  BY DEF fpu_issue, Inv, Units, FmaServes
<1>6. ASSUME NEW k \in 1..3, NEW j \in 1..3, fma'[k].valid, fma'[j].valid
      PROVE  j = k
  BY <1>3, <1>4, <1>5, <1>6
<1>7. ASSUME NEW k \in 1..3, fma'[k].valid
      PROVE  idu_valid' /\ ~flush_en' /\ ex'.kind = "fma" /\ fpu_busy' /\ fma'[k].x = Wanted'
  <2>1. /\ idu_valid /\ ~flush_en /\ ex.kind = "fma" /\ (fpu_busy \/ issue)
        /\ fma'[k].x = Wanted
    <3>1. CASE issue /\ k = 1
      BY <1>3, <1>7, <3>1, Operand DEF Inv, Wanted, fpu_issue
    <3>2. CASE k \in {2, 3}
      BY <1>3, <1>7, <3>2 DEF Inv, Units, FmaServes
    <3> QED BY <1>3, <1>7, <3>1, <3>2
  <2>2. op_fpu /\ ~flush_en
    BY <2>1 DEF op_fpu
  <2>3. ~fma_wb
    BY <1>3, <1>4, <1>5, <1>7 DEF fma_wb
  <2>4. ~fpu_valid
    BY <2>1, <2>3 DEF fpu_valid, quick_wb, Inv, Units, FdivServes
  <2>5. ~exu_ready(answer) /\ ~retires(answer)
    BY <2>2, <2>4 DEF exu_ready, retires, leaves, done
  <2>6. ex' = ex /\ idu_valid' = idu_valid
    BY <1>1, <2>2, <2>5 DEF DecodeClock
  <2>7. fpu_busy'
    BY <1>1, <2>1, <2>2, <2>4 DEF FpuBusyClock
  <2>8. Wanted' = Wanted
    BY <2>5, <2>6, WantedStays DEF Inv
  <2>9. flush_en' = FALSE
    BY <2>2, NoFlushRises DEF Inputs, Edge, Inv
  <2> QED BY <2>1, <2>6, <2>7, <2>8, <2>9
<1> QED BY <1>6, <1>7 DEF FmaServes

LEMMA FdivStep ==
  ASSUME FpNeverMisses, Inv, NEW answer, NEW loaded, NEW finish, NEW taken, NEW pc_update, NEW next,
         Inputs(answer, loaded, finish, taken, pc_update, next)
  PROVE  FdivServes'
<1> DEFINE issue == fpu_issue /\ ex.kind = "fdiv" /\ ~fdiv.busy
<1>1. FdivClock /\ DecodeClock(answer, next)
  BY DEF Inputs, Edge
<1>2. fdiv.wb_valid => fdiv.busy
  BY DEF Inv, Units, FdivServes
<1>3. fdiv = [busy |-> fdiv.busy, cnt |-> fdiv.cnt, wb_valid |-> fdiv.wb_valid, x |-> fdiv.x]
  BY DEF Inv, Units, FdivServes
<1>4. CASE flush_en
  <2>1. fdiv' = [busy |-> FALSE, cnt |-> 0, wb_valid |-> FALSE, x |-> 0]
    BY <1>1, <1>4 DEF FdivClock
  <2> QED BY <2>1 DEF FdivServes
<1>5. CASE ~flush_en /\ ~issue /\ ~(fdiv.busy /\ ~fdiv.wb_valid)
  <2>1. \/ fdiv' = [fdiv EXCEPT !.wb_valid = FALSE] /\ ~fdiv.busy
        \/ fdiv' = [fdiv EXCEPT !.busy = FALSE, !.wb_valid = FALSE]
    BY <1>1, <1>5 DEF FdivClock
  <2> QED BY <1>3, <2>1 DEF FdivServes
<1>6. CASE ~flush_en /\ (issue \/ (fdiv.busy /\ ~fdiv.wb_valid))
  <2>1. idu_valid /\ ex.kind = "fdiv" /\ op_fpu
    BY <1>6 DEF fpu_issue, op_fpu, Inv, Units, FdivServes
  <2>2. ~fpu_valid
    BY <1>2, <1>6, <2>1 DEF fpu_valid, fma_wb, quick_wb, Inv, Units, FmaServes
  <2>3. ~exu_ready(answer) /\ ~retires(answer)
    BY <2>1, <2>2 DEF exu_ready, retires, leaves, done
  <2>4. ex' = ex /\ idu_valid' = idu_valid
    BY <1>1, <1>6, <2>3 DEF DecodeClock
  <2>5. Wanted' = Wanted
    BY <2>3, <2>4, WantedStays DEF Inv
  <2>8. flush_en' = FALSE
    BY <1>6, <2>1, NoFlushRises DEF Inputs, Edge, Inv
  <2>6. CASE issue
    <3>1. fdiv' = [busy |-> TRUE, cnt |-> 0, wb_valid |-> FALSE, x |-> Eval(operand)]
      BY <1>1, <1>6, <2>6 DEF FdivClock
    <3>2. Eval(operand) = Wanted
      BY Operand DEF Inv, Wanted
    <3> QED BY <2>1, <2>4, <2>5, <2>8, <3>1, <3>2 DEF FdivServes
  <2>7. CASE ~issue
    <3>1. \/ fdiv' = [fdiv EXCEPT !.wb_valid = TRUE]
          \/ fdiv' = [fdiv EXCEPT !.cnt = @ + 1]
      BY <1>1, <1>6, <2>7 DEF FdivClock
    <3>2. fdiv'.busy = TRUE /\ fdiv'.x = Wanted
      BY <1>3, <1>6, <2>7, <3>1 DEF Inv, Units, FdivServes
    <3>3. fdiv' = [busy |-> fdiv'.busy, cnt |-> fdiv'.cnt, wb_valid |-> fdiv'.wb_valid,
                   x |-> fdiv'.x]
      BY <1>3, <3>1
    <3> QED BY <2>1, <2>4, <2>5, <2>8, <3>2, <3>3 DEF FdivServes
  <2> QED BY <2>6, <2>7
<1> QED BY <1>4, <1>5, <1>6

-----------------------------------------------------------------------------
(* Registers and CSRs                                                       *)

(* What goes to write-back, in a cycle in which something retires, in one   *)
(* in which a flush takes the valid bit away, and in any other.             *)
LEMMA WriteBack ==
  ASSUME FpNeverMisses, Inv, NEW answer, NEW loaded, NEW finish, NEW taken, NEW pc_update, NEW next,
         Inputs(answer, loaded, finish, taken, pc_update, next)
  PROVE  /\ retires(answer) =>
              wb' = [valid |-> TRUE, kind |-> ex.kind, rd |-> ex.rd,
                     result |-> arch_result(loaded), op_fpu |-> op_fpu, flag |-> ex.flag,
                     csr |-> ex.csr, csr_wdata |-> arch_operand]
         /\ ~retires(answer) => ~wb'.valid
         /\ ~retires(answer) /\ wb'.kind = "csr" /\ wb'.csr = "mepc" => Spoils(answer)
<1>1. WbClock(answer, loaded)
  BY DEF Inputs, Edge
<1>2. operand = arch_operand
  BY Operand DEF Inv
<1>3. CASE retires(answer)
  <2>1. leaves(answer) /\ ~flush_en
    BY <1>3 DEF retires
  <2>2. result(loaded) = arch_result(loaded)
    BY <1>3, RightResult
  <2> QED BY <1>1, <1>2, <1>3, <2>1, <2>2 DEF WbClock
<1>4. CASE ~leaves(answer)
  BY <1>1, <1>4 DEF WbClock, NoWb, retires
<1>5. CASE leaves(answer) /\ ~retires(answer)
  <2>1. flush_en /\ (flush_en \in BOOLEAN)
    BY <1>5 DEF Inv, Stage, retires
  <2>2. wb'.valid = FALSE /\ wb'.kind = ex.kind /\ wb'.csr = ex.csr
    BY <1>1, <1>5, <2>1 DEF WbClock
  <2> QED BY <1>5, <2>1, <2>2 DEF Spoils
<1> QED BY <1>3, <1>4, <1>5

(* The register files catch up with the instruction being written back.     *)
LEMMA RegisterFiles ==
  ASSUME Inv, NEW answer, NEW loaded, NEW finish, NEW taken, NEW pc_update, NEW next,
         Inputs(answer, loaded, finish, taken, pc_update, next)
  PROVE  /\ regs' = [r \in Regs |-> regs'[r]]
         /\ \A r \in Regs : rf_data(r)' = arch[r]
<1>1. regs' = IF wb.valid /\ wb.rd \in Regs /\ wb.rd # X0
                THEN [regs EXCEPT ![wb.rd] = wb.result] ELSE regs
  BY DEF Inputs, Edge, RegsClock, X0
<1>2. regs = [r \in Regs |-> regs[r]]
  BY DEF Inv, Data
<1>3. \A r \in Regs : arch[r] = IF wb.valid /\ wb.rd = r /\ r # X0
                                  THEN wb.result ELSE IF r = X0 THEN 0 ELSE regs[r]
  BY DEF Inv, Data, RegistersFollow, rf_data, X0
<1>4. \A r \in Regs : r # X0 => regs'[r] = arch[r]
  BY <1>1, <1>2, <1>3
<1>5. regs' = [r \in Regs |-> regs'[r]]
  BY <1>1, <1>2
<1>6. ASSUME NEW r \in Regs PROVE rf_data(r)' = arch[r]
  <2>1. rf_data(r)' = IF r = X0 THEN 0 ELSE regs'[r]
    BY DEF rf_data, X0
  <2> QED BY <1>3, <1>4, <2>1
<1> QED BY <1>5, <1>6

LEMMA RegistersStep ==
  ASSUME FpNeverMisses, Inv, NEW answer, NEW loaded, NEW finish, NEW taken, NEW pc_update, NEW next,
         Inputs(answer, loaded, finish, taken, pc_update, next)
  PROVE  arch' = [r \in Regs |-> arch'[r]] /\ RegistersFollow'
<1>1. arch = [r \in Regs |-> arch[r]]
  BY DEF Inv, Data
<1>2. arch' = IF retires(answer) /\ ex.rd \in Regs \ {X0}
                THEN [arch EXCEPT ![ex.rd] = arch_result(loaded)] ELSE arch
  BY DEF Inputs, Edge, History, X0
<1>3. arch' = [r \in Regs |-> arch'[r]]
  BY <1>1, <1>2
<1>4. /\ retires(answer) => wb'.valid /\ wb'.rd = ex.rd /\ wb'.result = arch_result(loaded)
      /\ ~retires(answer) => ~wb'.valid
  BY WriteBack
<1>5. ASSUME NEW r \in Regs
      PROVE  arch'[r] = IF wb'.valid /\ wb'.rd = r /\ r # X0 THEN wb'.result ELSE rf_data(r)'
  <2>1. rf_data(r)' = arch[r]
    BY RegisterFiles
  <2> QED BY <1>1, <1>2, <1>4, <2>1
<1> QED BY <1>3, <1>5 DEF RegistersFollow, X0

LEMMA CsrsStep ==
  ASSUME FpNeverMisses, Inv, NEW answer, NEW loaded, NEW finish, NEW taken, NEW pc_update, NEW next,
         Inputs(answer, loaded, finish, taken, pc_update, next)
  PROVE  arch_csr' = [c \in Csrs |-> arch_csr'[c]] /\ CsrsFollow'
<1>1. /\ arch_csr = [c \in Csrs |-> arch_csr[c]]
      /\ arch_csr["fflags"] = fflags_next
      /\ arch_csr["mepc"] \in {Spoiled, IF wb.kind = "csr" /\ wb.csr = "mepc" THEN wb.csr_wdata
                                         ELSE csr["mepc"]}
  BY DEF Inv, Data, CsrsFollow, csr_rdata
<1>2. /\ csr' = [fflags |-> fflags_next,
                 mepc   |-> IF wb.kind = "csr" /\ wb.csr = "mepc" THEN wb.csr_wdata
                            ELSE csr["mepc"]]
      /\ arch_csr' =
           IF Spoils(answer) THEN [arch_csr EXCEPT !["mepc"] = Spoiled]
           ELSE IF ~retires(answer) THEN arch_csr
           ELSE IF ex.kind = "csr" THEN [arch_csr EXCEPT ![ex.csr] = arch_operand]
           ELSE IF op_fpu THEN [arch_csr EXCEPT !["fflags"] = Or(@, ex.flag)]
           ELSE arch_csr
  BY DEF Inputs, Edge, RegsClock, History
<1>3. csr'["fflags"] = arch_csr["fflags"] /\ arch_csr["mepc"] \in {Spoiled, csr'["mepc"]}
  BY <1>1, <1>2
<1>4. arch_csr' = [c \in Csrs |-> arch_csr'[c]]
  BY <1>1, <1>2
<1>5. fflags_next' = IF ~wb'.valid THEN csr'["fflags"]
                     ELSE IF wb'.kind = "csr" /\ wb'.csr = "fflags" THEN wb'.csr_wdata
                     ELSE IF wb'.op_fpu THEN Or(csr'["fflags"], wb'.flag)
                     ELSE csr'["fflags"]
  BY DEF fflags_next, Or
<1>6. CASE ~retires(answer)
  <2>1. ~wb'.valid /\ (wb'.kind = "csr" /\ wb'.csr = "mepc" => Spoils(answer))
    BY <1>6, WriteBack
  <2>2. arch_csr'["fflags"] = fflags_next'
    BY <1>1, <1>2, <1>3, <1>5, <1>6, <2>1
  <2>3. CASE Spoils(answer)
    <3>1. arch_csr'["mepc"] = Spoiled
      BY <1>1, <1>2, <2>3 DEF Csrs
    <3>2. Spoiled' = Spoiled
      BY DEF Spoiled
    <3> QED BY <1>4, <2>2, <3>1, <3>2 DEF CsrsFollow, csr_rdata
  <2>4. CASE ~Spoils(answer)
    <3>1. arch_csr'["mepc"] \in {Spoiled, csr'["mepc"]}
      BY <1>2, <1>3, <1>6, <2>4
    <3>2. ~(wb'.kind = "csr" /\ wb'.csr = "mepc")
      BY <2>1, <2>4
    <3>3. Spoiled' = Spoiled
      BY DEF Spoiled
    <3> QED BY <1>4, <2>2, <3>1, <3>2, <3>3 DEF CsrsFollow, csr_rdata
  <2> QED BY <2>3, <2>4
<1>7. CASE retires(answer)
  <2>1. /\ wb'.valid /\ wb'.kind = ex.kind /\ wb'.op_fpu = op_fpu /\ wb'.flag = ex.flag
        /\ wb'.csr = ex.csr /\ wb'.csr_wdata = arch_operand
    BY <1>7, WriteBack
  <2>2. /\ ex.csr \in Csrs /\ Csrs = {"fflags", "mepc"} /\ (ex.kind = "csr" => ~op_fpu)
        /\ ~Spoils(answer)
    BY <1>7 DEF Inv, Stage, Instruction, Csrs, op_fpu, Spoils, retires
  <2>3. arch_csr'["fflags"] = fflags_next'
    BY <1>1, <1>2, <1>3, <1>5, <1>7, <2>1, <2>2
  <2>4. arch_csr'["mepc"] \in {Spoiled, IF wb'.kind = "csr" /\ wb'.csr = "mepc" THEN wb'.csr_wdata
                                         ELSE csr'["mepc"]}
    BY <1>1, <1>2, <1>3, <1>7, <2>1, <2>2
  <2>5. Spoiled' = Spoiled
    BY DEF Spoiled
  <2> QED BY <1>4, <2>3, <2>4, <2>5 DEF CsrsFollow, csr_rdata
<1> QED BY <1>6, <1>7

(* The bypass network keeps the youngest result of every register first.    *)
LEMMA BypassStep ==
  ASSUME FpNeverMisses, Inv, NEW answer, NEW loaded, NEW finish, NEW taken, NEW pc_update, NEW next,
         Inputs(answer, loaded, finish, taken, pc_update, next)
  PROVE  Youngest' /\ (wb'.valid /\ wb'.rd \in Regs => Holds(bypass', wb'.rd, 1))
<1>1. BypassClock(answer, loaded)
  BY DEF Inputs, Edge
<1>2. CASE ~retires(answer)
  <2>1. arch' = arch /\ bypass' = bypass
    BY <1>2, WantedStays DEF Inv
  <2>2. ~wb'.valid
    BY <1>2, WriteBack
  <2> QED BY <2>1, <2>2 DEF Inv, Data, Youngest, Holds
<1>3. CASE retires(answer)
  <2>1. BYPASS_DEPTH \in Nat \ {0}
    BY ExuAssumption DEF ExuAssumption
  <2>2. result(loaded) = arch_result(loaded)
    BY <1>3, RightResult
  <2>3. wb'.rd = ex.rd /\ ex.rd \in Regs \cup {NoReg}
    BY <1>3, WriteBack DEF Inv, Stage, Instruction
  <2>4. arch' = IF ex.rd \in Regs \ {X0} THEN [arch EXCEPT ![ex.rd] = arch_result(loaded)] ELSE arch
    BY <1>3 DEF Inputs, Edge, History, X0
  <2>5. arch = [r \in Regs |-> arch[r]]
    BY DEF Inv, Data
  <2>6. ASSUME NEW r \in Regs
        PROVE  /\ \A k \in 2..BYPASS_DEPTH : bypass'[r.file][k] = bypass[r.file][k - 1]
               /\ Holds(bypass', r, 1) <=> ex.rd = r
               /\ ex.rd = r => bypass'[r.file][1].data = arch_result(loaded)
    <3>1. r.file \in {"x", "f"} /\ NoReg.file = "none"
      BY RegisterFacts DEF NoReg
    <3>2. bypass'[r.file] = [k \in 1..BYPASS_DEPTH |->
            IF k > 1 THEN bypass[r.file][k - 1]
            ELSE IF ex.rd.file = r.file
              THEN [valid |-> TRUE, rd |-> ex.rd.n, data |-> result(loaded)]
            ELSE [valid |-> FALSE, rd |-> 0, data |-> 0]]
      BY <1>1, <1>3, <3>1 DEF BypassClock
    <3>3. bypass'[r.file][1] = IF ex.rd.file = r.file
              THEN [valid |-> TRUE, rd |-> ex.rd.n, data |-> result(loaded)]
              ELSE [valid |-> FALSE, rd |-> 0, data |-> 0]
      BY <2>1, <3>2
    <3>4. ex.rd.file = r.file /\ ex.rd.n = r.n => ex.rd = r
      BY <2>3, <3>1, RegisterFacts
    <3>5. \A k \in 2..BYPASS_DEPTH : bypass'[r.file][k] = bypass[r.file][k - 1]
      BY <2>1, <3>2
    <3>6. Holds(bypass', r, 1) <=> ex.rd = r
      BY <3>3, <3>4 DEF Holds
    <3>7. ex.rd = r => bypass'[r.file][1].data = arch_result(loaded)
      BY <2>2, <3>3
    <3> QED BY <3>5, <3>6, <3>7
  <2>7. ASSUME NEW r \in Regs, r # X0, NEW k \in 1..BYPASS_DEPTH,
               Holds(bypass', r, k), \A j \in 1..k - 1 : ~Holds(bypass', r, j)
        PROVE  bypass'[r.file][k].data = arch'[r]
    <3>1. CASE ex.rd = r
      <4>1. k = 1
        BY <2>6, <2>7, <3>1
      <4>2. arch'[r] = arch_result(loaded)
        BY <2>4, <2>5, <2>7, <3>1
      <4> QED BY <2>6, <3>1, <4>1, <4>2
    <3>2. CASE ex.rd # r
      <4>1. k > 1
        BY <2>6, <2>7, <3>2
      <4>2. arch'[r] = arch[r]
        BY <2>4, <2>5, <3>2
      <4>3. k \in 2..BYPASS_DEPTH /\ k - 1 \in 1..BYPASS_DEPTH
        BY <2>1, <4>1
      <4>4. bypass'[r.file][k] = bypass[r.file][k - 1]
        BY <2>6, <4>3
      <4>5. Holds(bypass, r, k - 1)
        BY <2>7, <4>4 DEF Holds
      <4>6. ASSUME NEW j \in 1..(k - 1) - 1 PROVE ~Holds(bypass, r, j)
        <5>1. j + 1 \in 2..BYPASS_DEPTH /\ j + 1 \in 1..k - 1 /\ (j + 1) - 1 = j
          BY <2>1, <4>1
        <5>2. bypass'[r.file][j + 1] = bypass[r.file][j]
          BY <2>6, <5>1
        <5> QED BY <2>7, <5>1, <5>2 DEF Holds
      <4>7. bypass[r.file][k - 1].data = arch[r]
        BY <2>7, <4>3, <4>5, <4>6 DEF Inv, Data, Youngest
      <4> QED BY <4>2, <4>4, <4>7
    <3> QED BY <3>1, <3>2
  <2>8. ex.rd \in Regs => Holds(bypass', ex.rd, 1)
    BY <2>6 DEF Holds
  <2> QED BY <2>3, <2>7, <2>8 DEF Youngest, Holds
<1> QED BY <1>2, <1>3

-----------------------------------------------------------------------------
(* The invariant                                                            *)

LEMMA InvInit == Init => Inv
<1> SUFFICES ASSUME Init PROVE Inv
  OBVIOUS
<1>1. Stage
  BY DEF Init, Stage, Instruction, Bubble, Csrs
<1>2. Units
  BY DEF Init, Units, MduServes, FmaServes, FdivServes
<1>3. RegistersFollow
  BY DEF Init, RegistersFollow, NoWb, rf_data
<1>4. CsrsFollow
  BY DEF Init, CsrsFollow, NoWb, csr_rdata, fflags_next, Csrs
<1>5. Youngest
  BY RegisterFacts DEF Init, Youngest, Holds
<1> QED BY <1>1, <1>2, <1>3, <1>4, <1>5 DEF Init, Inv, Data, NoWb

LEMMA EdgeInputs ==
  ASSUME Next
  PROVE  \E answer, loaded, finish, taken, pc_update, next :
           Inputs(answer, loaded, finish, taken, pc_update, next)
<1>1. PICK answer \in BOOLEAN, finish \in BOOLEAN, pc_update \in BOOLEAN :
        Clocked(answer, finish, pc_update)
  <2>1. PICK answer \in Free(lsu_en), finish \in Free(mdu.busy), pc_update \in Free(flush_en) :
          Clocked(answer, finish, pc_update)
    BY DEF Next
  <2>2. {answer, finish, pc_update} \subseteq BOOLEAN
    BY DEF Free
  <2> QED BY <2>1, <2>2
<1>2. PICK loaded \in IF ex.kind = "load" THEN Values ELSE {0},
           taken  \in IF ex.kind = "fence" /\ idu_valid /\ ~flush_en THEN BOOLEAN ELSE {FALSE},
           next   \in IF exu_ready(answer) /\ ~flush_en THEN Offers ELSE {Bubble} :
        Edge(answer, loaded, finish, taken, pc_update, next)
  BY <1>1 DEF Clocked
<1>3. Inputs(answer, loaded, finish, taken, pc_update, next)
  <2>1. taken \in BOOLEAN /\ (taken => ex.kind = "fence")
    BY <1>2
  <2>2. next \in Offers
    BY <1>2 DEF Offers
  <2> QED BY <1>1, <1>2, <2>1, <2>2 DEF Inputs
<1> QED BY <1>3

LEMMA InvNext ==
  ASSUME FpNeverMisses, Inv, [Next]_vars
  PROVE  Inv'
<1>1. CASE UNCHANGED vars
  BY <1>1 DEF vars, stageVars, unitVars, wbVars, Inv, Stage, Units, MduServes, FmaServes,
     FdivServes, Wanted, Eval, arch_operand, Data, Youngest, RegistersFollow, CsrsFollow,
     csr_rdata, fflags_next, Or, rf_data, Spoiled
<1>2. CASE Next
  <2>1. PICK answer, loaded, finish, taken, pc_update, next :
          Inputs(answer, loaded, finish, taken, pc_update, next)
    BY <1>2, EdgeInputs
  <2>2. Stage'
    BY <2>1, StageStep DEF Inv
  <2>3. Units'
    BY <2>1, MduStep, FmaStep, FdivStep DEF Units
  <2>4. Data'
    BY <2>1, RegisterFiles, RegistersStep, CsrsStep, BypassStep DEF Data
  <2> QED BY <2>2, <2>3, <2>4 DEF Inv
<1> QED BY <1>1, <1>2

(* The register files are behind program order by the one instruction in    *)
(* write-back: for every program, in any timing of the units and of         *)
(* mispredictions (exu.v, bypass.v, wbu.v).                                 *)
THEOREM SpecRegistersFollow ==
  ASSUME FpNeverMisses
  PROVE  Spec => []RegistersFollow
<1>1. Inv => RegistersFollow
  BY DEF Inv, Data
<1> QED BY <1>1, InvInit, InvNext, PTL DEF Spec

(* A read of the accrued flags sees what has retired and nothing from a     *)
(* wrong path, and mepc is behind by the one instruction in write-back, but *)
(* from a wrong-path write on until the next right one (csr.v, wbu.v).      *)
THEOREM SpecCsrsFollow ==
  ASSUME FpNeverMisses
  PROVE  Spec => []CsrsFollow
<1>1. Inv => CsrsFollow
  BY DEF Inv, Data
<1> QED BY <1>1, InvInit, InvNext, PTL DEF Spec

(* What retires is from the right path, has worked on the operands program  *)
(* order gives it, and retires that result (exu.v:341, bypass.v).           *)
THEOREM SpecResultsInProgramOrder ==
  ASSUME FpNeverMisses
  PROVE  Spec => []ResultsInProgramOrder
<1>1. Inv => ResultsInProgramOrder
  <2> SUFFICES ASSUME Inv, NEW loaded \in Values, retires(TRUE)
      PROVE  ~ex.stray /\ operand = arch_operand /\ result(loaded) = arch_result(loaded)
    BY DEF ResultsInProgramOrder
  <2>1. ~ex.stray
    BY RetiringFacts DEF retires, Inv
  <2> QED BY <2>1, Operand, RightResult DEF Inv
<1> QED BY <1>1, InvInit, InvNext, PTL DEF Spec

(* The arbiter of fpu.v, which keeps one result of a cycle, has never       *)
(* another to drop.                                                         *)
THEOREM SpecFpuServesStage ==
  ASSUME FpNeverMisses
  PROVE  Spec => []FpuServesStage
<1>1. Inv => FpuServesStage
  BY DEF Inv, Units, FmaServes, FdivServes, FpuServesStage
<1> QED BY <1>1, InvInit, InvNext, PTL DEF Spec

(* What stands on the right path leaves the stage by retiring, what does    *)
(* not never retires (exu.v:341, bru.v).                                    *)
THEOREM SpecLeavesByRetiring ==
  ASSUME FpNeverMisses
  PROVE  Spec => LeavesByRetiring
<1> DEFINE Leaves == /\ wb'.valid => idu_valid /\ ~ex.stray
                     /\ idu_valid /\ ~ex.stray /\ ~wb'.valid => idu_valid' /\ ex' = ex
<1>1. Inv /\ [Next]_vars => [Leaves]_vars
  <2> SUFFICES ASSUME Inv, Next PROVE Leaves
    OBVIOUS
  <2>1. PICK answer, loaded, finish, taken, pc_update, next :
          Inputs(answer, loaded, finish, taken, pc_update, next)
    BY EdgeInputs
  <2>2. wb'.valid <=> retires(answer)
    BY <2>1, WriteBack
  <2>3. retires(answer) => idu_valid /\ ~ex.stray
    BY RetiringFacts DEF Inv, retires
  <2>4. ASSUME idu_valid, ~ex.stray, ~retires(answer)
        PROVE  idu_valid' /\ ex' = ex
    <3>1. ~flush_en /\ ~exu_ready(answer)
      BY <2>4 DEF Inv, Stage, Instruction, retires, leaves, exu_ready
    <3> QED BY <2>1, <2>4, <3>1 DEF Inputs, Edge, DecodeClock
  <2> QED BY <2>2, <2>3, <2>4
<1> QED BY <1>1, InvInit, InvNext, PTL DEF Spec, LeavesByRetiring
=============================================================================
