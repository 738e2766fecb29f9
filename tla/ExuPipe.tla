------------------------------ MODULE ExuPipe -------------------------------
(***************************************************************************)
(* Instruction by instruction through the back end: vsrc/decode.v (du_bus),*)
(* exu.v with bru.v, the handshakes of mdu.v and of the FPU (rtl/fpu.v),   *)
(* the two bypass.v networks, wbu.v and csr.v. One step is one clock edge. *)
(*                                                                         *)
(* Values are numbers below N and each instruction computes v + 1 of its   *)
(* source operand v, so that a stale operand shows in the result. Inputs   *)
(* from outside: what the decoder offers, when the LSU and the divider     *)
(* finish, when the fetch unit takes a redirection, whether the D-cache    *)
(* starts a fence. History: `arch' and `arch_csr' are the registers as the *)
(* retired instructions, in program order, define them; `astray' is TRUE   *)
(* while the decoder offers instructions from behind a misprediction.      *)
(***************************************************************************)
EXTENDS Naturals

CONSTANTS
  N,             (* values are 0..(N - 1) *)
  Regs,          (* registers: [file : {"x", "f"}, n : Nat] *)
  Program,       (* the instructions of the program *)
  MissKinds,     (* kinds of instruction that may be mispredicted *)
  BYPASS_DEPTH,  (* entries of a bypass network *)
  DIV_STEPS,     (* the last value of cnt in fdiv.v and fsqrt.v *)
  FENCE_CYCLES   (* how long fence_done is low *)

Values == 0..(N - 1)

(* rd is NoReg when nothing is written, src NoReg when nothing is read.    *)
Kinds  == {"alu", "jump", "load", "mdu", "fma", "fdiv", "fquick", "fence", "csr"}
Csrs   == {"fflags", "mepc"}
NoReg  == [file |-> "none", n |-> 0]

ASSUME ExuAssumption ==
  /\ N \in Nat \ {0, 1} /\ BYPASS_DEPTH \in Nat \ {0}
  /\ DIV_STEPS \in Nat /\ FENCE_CYCLES \in Nat \ {0}
  /\ \A r \in Regs : r \in [file : {"x", "f"}, n : Nat]
  /\ \A i \in Program : /\ i.kind \in Kinds
                        /\ i.rd \in Regs \cup {NoReg}
                        /\ i.src \in Regs \cup {NoReg}
                        /\ i.csr \in Csrs
                        /\ i.flag \in {0, 1}

(* In arch_csr: the last to write the CSR was from the wrong path.         *)
Spoiled == N

Bubble == [kind |-> "none", rd |-> NoReg, src |-> NoReg, csr |-> "mepc",
           flag |-> 0, miss |-> FALSE, stray |-> FALSE]

VARIABLES
  ex, idu_valid,          (* decode.v: du_bus and its valid bit *)
  flush_en,               (* bru.v *)
  fence_left,             (* cycles until fence_done *)
  mdu,                    (* mdu.v: [busy, done, result] *)
  fpu_busy,               (* exu.v: an fma is under way *)
  fma,                    (* fma_unit.v: the three stages, youngest first *)
  fdiv,                   (* fdiv.v, fsqrt.v: [busy, cnt, wb_valid, x] *)
  bypass,                 (* one network per file, BYPASS_DEPTH entries *)
  wb,                     (* exu_valid and ex_to_wb_bus *)
  regs, csr,              (* wbu.v: regs, fp_regs, fflags_r; csr.v *)
  arch, arch_csr, astray  (* history *)

stageVars == <<ex, idu_valid, flush_en, fence_left>>
unitVars  == <<mdu, fpu_busy, fma, fdiv>>
wbVars    == <<bypass, wb, regs, csr>>
vars      == <<stageVars, unitVars, wbVars, arch, arch_csr, astray>>

-----------------------------------------------------------------------------
(* Operands *)

Readable(r) == r.file # "none"

(* The register files. x0 reads as 0. *)
rf_data(r) == IF r = [file |-> "x", n |-> 0] THEN 0 ELSE regs[r]

(* Mutant: the oldest result instead of the youngest. *)
bypass_data_oldest(r) ==
  LET Hit(k) == /\ bypass[r.file][k].valid
                /\ bypass[r.file][k].rd = r.n
                /\ (r.n # 0 \/ r.file = "f")
      hits == {k \in 1..BYPASS_DEPTH : Hit(k)}
  IN  IF hits = {} THEN rf_data(r)
      ELSE bypass[r.file][CHOOSE k \in hits : \A j \in hits : k >= j].data

(* bypass.v: the youngest of the last three results for this register.     *)
(* ZERO_READONLY is set in the network of the x registers only.            *)
bypass_data(r) ==
  LET Hit(k) == /\ bypass[r.file][k].valid
                /\ bypass[r.file][k].rd = r.n
                /\ (r.n # 0 \/ r.file = "f")
      hits == {k \in 1..BYPASS_DEPTH : Hit(k)}
  IN  IF hits = {} THEN rf_data(r)
      ELSE bypass[r.file][CHOOSE k \in hits : \A j \in hits : k <= j].data

operand == IF Readable(ex.src) THEN bypass_data(ex.src) ELSE 0

Eval(v) == (v + 1) % N
Or(a, b) == IF a = 0 THEN b ELSE a

-----------------------------------------------------------------------------
(* The FPU *)

op_fpu    == ex.kind \in {"fma", "fdiv", "fquick"}
fpu_issue == idu_valid /\ op_fpu /\ ~fpu_busy /\ ~flush_en

(* The arbiter looks at the units in this order; a flush in this very cycle*)
(* hides every result (all ids are 0).                                     *)
fma_wb    == fma[3].valid
quick_wb  == fpu_issue /\ ex.kind = "fquick"
fpu_valid == ~flush_en /\ (fma_wb \/ quick_wb \/ fdiv.wb_valid)
fpu_result == IF fma_wb THEN fma[3].x ELSE IF quick_wb THEN Eval(operand) ELSE fdiv.x

(* is_younger(0, 0) is false: a flush does not reach into the fma stages.  *)
(* The result of a unit that is not at work is written 0 here and below.   *)
FmaClock ==
  fma' = [k \in 1..3 |->
            IF k > 1 THEN fma[k - 1]
            ELSE IF fpu_issue /\ ex.kind = "fma" THEN [valid |-> TRUE, x |-> Eval(operand)]
            ELSE [valid |-> FALSE, x |-> 0]]

FdivClock ==
  fdiv' =
    IF flush_en THEN [busy |-> FALSE, cnt |-> 0, wb_valid |-> FALSE, x |-> 0]
    ELSE IF fpu_issue /\ ex.kind = "fdiv" /\ ~fdiv.busy
      THEN [busy |-> TRUE, cnt |-> 0, wb_valid |-> FALSE, x |-> Eval(operand)]
    ELSE IF ~fdiv.busy THEN [fdiv EXCEPT !.wb_valid = FALSE]
    ELSE IF fdiv.wb_valid THEN [fdiv EXCEPT !.busy = FALSE, !.wb_valid = FALSE]
    ELSE IF fdiv.cnt = DIV_STEPS THEN [fdiv EXCEPT !.wb_valid = TRUE]
    ELSE [fdiv EXCEPT !.cnt = @ + 1]

(* Mutant: an fma is issued again in every cycle it is waited for. *)
FpuBusyClock_never == fpu_busy' = FALSE

FpuBusyClock ==
  fpu_busy' = IF flush_en \/ (idu_valid /\ op_fpu /\ fpu_valid) THEN FALSE
              ELSE fpu_busy \/ (fpu_issue /\ ex.kind = "fma")

-----------------------------------------------------------------------------
(* Handshakes. answer is the LSU's, for a load in the stage.               *)

lsu_en            == idu_valid /\ ex.kind = "load" /\ ~flush_en
lsu_ready(answer) == lsu_en => answer
mdu_ready         == mdu.done \/ ex.kind # "mdu"
fence_done        == fence_left = 0

done(answer) == /\ lsu_ready(answer)
                /\ mdu_ready
                /\ ex.kind = "fence" \/ fence_done
                /\ op_fpu => fpu_valid

exu_ready(answer) == done(answer)
leaves(answer)    == idu_valid /\ done(answer)
retires(answer)   == leaves(answer) /\ ~flush_en

(* Mutant: what a flush has taken the valid bit from is accrued too. *)
fflags_next_unqualified ==
  IF wb.kind = "csr" /\ wb.csr = "fflags" THEN wb.csr_wdata
  ELSE IF wb.op_fpu THEN Or(csr["fflags"], wb.flag)
  ELSE csr["fflags"]

(* The accrued flags once the instruction being written back is through.   *)
fflags_next ==
  IF ~wb.valid THEN csr["fflags"]
  ELSE IF wb.kind = "csr" /\ wb.csr = "fflags" THEN wb.csr_wdata
  ELSE IF wb.op_fpu THEN Or(csr["fflags"], wb.flag)
  ELSE csr["fflags"]

(* wbu.v forwards fflags from the write-back, csr.v forwards nothing. *)
csr_rdata(c) == IF c = "fflags" THEN fflags_next ELSE csr[c]

result(loaded) ==
  CASE ex.kind = "csr"  -> csr_rdata(ex.csr)
    [] ex.kind = "mdu"  -> mdu.result
    [] ex.kind = "load" -> loaded
    [] op_fpu           -> fpu_result
    [] OTHER            -> Eval(operand)

-----------------------------------------------------------------------------
(* The always blocks *)

DecodeClock(answer, next) ==
  IF flush_en THEN idu_valid' = FALSE /\ ex' = ex
  ELSE IF exu_ready(answer) THEN ex' = next /\ idu_valid' = (next # Bubble)
  ELSE UNCHANGED <<ex, idu_valid>>

(* Mutant: does not wait for the multiplier. *)
BruClock_early(answer, pc_update) ==
  flush_en' = IF ~lsu_ready(answer) THEN flush_en
              ELSE IF ex.miss /\ ~flush_en THEN idu_valid
              ELSE flush_en /\ ~pc_update

(* bru.v: a misprediction is announced once the operands are there, and    *)
(* stands until the fetch unit has taken the new address.                  *)
BruClock(answer, pc_update) ==
  flush_en' = IF ~lsu_ready(answer) THEN flush_en
              ELSE IF ex.miss /\ ~flush_en /\ mdu_ready THEN idu_valid
              ELSE flush_en /\ ~pc_update

(* dcache.v: fence_done falls behind a fence.i the D-cache is idle for.    *)
FenceClock(taken) ==
  fence_left' = IF fence_left > 0 THEN fence_left - 1
                ELSE IF taken THEN FENCE_CYCLES ELSE 0

(* Mutant: a flush stops the unit, and only a valid instruction starts it. *)
MduClock_flushed(answer, finish) ==
  LET start == /\ ex.kind = "mdu" /\ idu_valid /\ ~flush_en
               /\ ~mdu.done /\ ~mdu.busy /\ lsu_ready(answer)
      stop  == mdu.busy /\ finish /\ ~flush_en
  IN  mdu' = [busy   |-> start \/ (mdu.busy /\ ~stop /\ ~flush_en),
              done   |-> stop,
              result |-> IF start THEN Eval(operand) ELSE mdu.result]

(* mdu.v knows neither of flushes nor of idu_valid: what stands in du_bus  *)
(* is started, and what has been started is finished. mdu_done is high for *)
(* one cycle; if the instruction cannot leave in it, it starts again.      *)
MduClock(answer, finish) ==
  LET start == ex.kind = "mdu" /\ ~mdu.done /\ ~mdu.busy /\ lsu_ready(answer)
      stop  == mdu.busy /\ finish
  IN  mdu' = [busy   |-> start \/ (mdu.busy /\ ~stop),
              done   |-> stop,
              result |-> IF start THEN Eval(operand) ELSE mdu.result]

(* Both networks shift for every instruction that retires. *)
BypassClock(answer, loaded) ==
  bypass' =
    IF ~retires(answer) THEN bypass
    ELSE [f \in {"x", "f"} |-> [k \in 1..BYPASS_DEPTH |->
            IF k > 1 THEN bypass[f][k - 1]
            ELSE IF ex.rd.file = f
              THEN [valid |-> TRUE, rd |-> ex.rd.n, data |-> result(loaded)]
            ELSE [valid |-> FALSE, rd |-> 0, data |-> 0]]]

(* exu.v: the write-back register is loaded also when flush_en takes the   *)
(* valid bit away.                                                         *)
NoWb == [valid |-> FALSE, kind |-> "none", rd |-> NoReg, result |-> 0,
         op_fpu |-> FALSE, flag |-> 0, csr |-> "mepc", csr_wdata |-> 0]

WbClock(answer, loaded) ==
  wb' = IF ~leaves(answer) THEN NoWb
        ELSE [valid |-> ~flush_en, kind |-> ex.kind, rd |-> ex.rd,
              result |-> result(loaded), op_fpu |-> op_fpu, flag |-> ex.flag,
              csr |-> ex.csr, csr_wdata |-> operand]

(* Mutant: wrong-path results reach the register files. *)
RegsClock_unqualified ==
  /\ regs' = IF wb.rd \in Regs /\ wb.rd # [file |-> "x", n |-> 0]
               THEN [regs EXCEPT ![wb.rd] = wb.result] ELSE regs
  /\ csr' = [fflags |-> fflags_next,
             mepc   |-> IF wb.kind = "csr" /\ wb.csr = "mepc" THEN wb.csr_wdata
                        ELSE csr["mepc"]]

(* wbu.v and csr.v: fflags and the register files look at exu_valid, the   *)
(* machine CSRs do not.                                                    *)
RegsClock ==
  /\ regs' = IF wb.valid /\ wb.rd \in Regs /\ wb.rd # [file |-> "x", n |-> 0]
               THEN [regs EXCEPT ![wb.rd] = wb.result] ELSE regs
  /\ csr' = [fflags |-> fflags_next,
             mepc   |-> IF wb.kind = "csr" /\ wb.csr = "mepc" THEN wb.csr_wdata
                        ELSE csr["mepc"]]

(* A wrong-path instruction that goes on to write mepc.                    *)
Spoils(answer) == leaves(answer) /\ flush_en /\ ex.kind = "csr" /\ ex.csr = "mepc"

(* The architecture: what the instruction defines where it stands in       *)
(* program order. A machine CSR is read as csr.v has it, for csr.v keeps no*)
(* order: a read right behind a write gets the old value, and the write of *)
(* a wrong-path instruction arrives.                                       *)
arch_operand == IF Readable(ex.src) THEN arch[ex.src] ELSE 0

arch_result(loaded) ==
  CASE ex.kind = "csr"  -> IF ex.csr = "fflags" THEN arch_csr["fflags"] ELSE csr["mepc"]
    [] ex.kind = "load" -> loaded
    [] OTHER            -> Eval(arch_operand)

History(answer, loaded, pc_update, next) ==
  /\ arch' = IF retires(answer) /\ ex.rd \in Regs \ {[file |-> "x", n |-> 0]}
               THEN [arch EXCEPT ![ex.rd] = arch_result(loaded)] ELSE arch
  /\ arch_csr' =
       IF Spoils(answer) THEN [arch_csr EXCEPT !["mepc"] = Spoiled]
       ELSE IF ~retires(answer) THEN arch_csr
       ELSE IF ex.kind = "csr" THEN [arch_csr EXCEPT ![ex.csr] = arch_operand]
       ELSE IF op_fpu THEN [arch_csr EXCEPT !["fflags"] = Or(@, ex.flag)]
       ELSE arch_csr
  /\ astray' = IF flush_en THEN astray /\ ~pc_update
               ELSE astray \/ (exu_ready(answer) /\ next.miss)

Edge(answer, loaded, finish, taken, pc_update, next) ==
  /\ DecodeClock(answer, next)
  /\ BruClock(answer, pc_update)
  /\ FenceClock(taken)
  /\ FmaClock
  /\ FdivClock
  /\ FpuBusyClock
  /\ MduClock(answer, finish)
  /\ BypassClock(answer, loaded)
  /\ WbClock(answer, loaded)
  /\ RegsClock
  /\ History(answer, loaded, pc_update, next)

-----------------------------------------------------------------------------
(* What the decoder may offer next: nothing, or an instruction.            *)
MayMiss(i) == i.kind \in MissKinds /\ ~astray /\ ex.kind # "fence" /\ fence_done

Offers ==
  {Bubble} \cup
  UNION {{[kind |-> i.kind, rd |-> i.rd, src |-> i.src, csr |-> i.csr,
           flag |-> i.flag, miss |-> m, stray |-> astray] :
             m \in IF MayMiss(i) THEN BOOLEAN ELSE {FALSE}} :
         i \in Program}

Init ==
  /\ ex = Bubble /\ idu_valid = FALSE /\ flush_en = FALSE /\ fence_left = 0
  /\ mdu = [busy |-> FALSE, done |-> FALSE, result |-> 0]
  /\ fpu_busy = FALSE
  /\ fma = [k \in 1..3 |-> [valid |-> FALSE, x |-> 0]]
  /\ fdiv = [busy |-> FALSE, cnt |-> 0, wb_valid |-> FALSE, x |-> 0]
  /\ bypass = [f \in {"x", "f"} |-> [k \in 1..BYPASS_DEPTH |->
                 [valid |-> FALSE, rd |-> 0, data |-> 0]]]
  /\ wb = NoWb
  /\ regs = [r \in Regs |-> 0] /\ csr = [c \in Csrs |-> 0]
  /\ arch = regs /\ arch_csr = csr /\ astray = FALSE

(* An input nobody looks at in a cycle keeps one value in it. *)
Free(looked_at) == IF looked_at THEN BOOLEAN ELSE {TRUE}

Clocked(answer, finish, pc_update) ==
  \E loaded \in IF ex.kind = "load" THEN Values ELSE {0},
     taken  \in IF ex.kind = "fence" /\ idu_valid /\ ~flush_en THEN BOOLEAN ELSE {FALSE},
     next   \in IF exu_ready(answer) /\ ~flush_en THEN Offers ELSE {Bubble} :
    Edge(answer, loaded, finish, taken, pc_update, next)

Next ==
  \E answer \in Free(lsu_en), finish \in Free(mdu.busy), pc_update \in Free(flush_en) :
    Clocked(answer, finish, pc_update)

(* The clock runs; the LSU answers (MemPath), the divider counts to its end*)
(* and the fetch unit takes the redirection, each sooner or later.         *)
Spec == Init /\ [][Next]_vars /\ WF_vars(Clocked(TRUE, TRUE, TRUE))

-----------------------------------------------------------------------------
(* Properties *)

Entries == [1..BYPASS_DEPTH -> [valid : BOOLEAN, rd : {r.n : r \in Regs} \cup {0}, data : Values]]

TypeOK ==
  /\ ex.kind \in Kinds \cup {"none"}
  /\ {idu_valid, flush_en, fpu_busy, astray, mdu.busy, mdu.done} \subseteq BOOLEAN
  /\ fence_left \in 0..FENCE_CYCLES
  /\ fma \in [1..3 -> [valid : BOOLEAN, x : Values]]
  /\ fdiv.cnt \in 0..DIV_STEPS /\ fdiv.x \in Values
  /\ bypass \in [{"x", "f"} -> Entries]
  /\ wb.valid \in BOOLEAN /\ wb.result \in Values
  /\ regs \in [Regs -> Values] /\ arch \in [Regs -> Values]
  /\ csr \in [Csrs -> Values] /\ arch_csr \in [Csrs -> Values \cup {Spoiled}]

(* The register files are behind program order by exactly the instruction  *)
(* being written back, and x0 stays 0.                                     *)
RegistersFollow ==
  \A r \in Regs :
    arch[r] = IF wb.valid /\ wb.rd = r /\ r # [file |-> "x", n |-> 0]
                THEN wb.result ELSE rf_data(r)

(* An instruction that retires has worked on the operands program order    *)
(* gives it, whatever stalls, flushes and bypasses came between, also when *)
(* the unit took them many cycles earlier, and retires that very result.   *)
ResultsInProgramOrder ==
  \A loaded \in Values :
    retires(TRUE) => /\ ~ex.stray
                     /\ operand = arch_operand
                     /\ result(loaded) = arch_result(loaded)

(* A read of the accrued exception flags sees every instruction that has   *)
(* retired, the one being written back included, and none from a wrong path*)
(* (wbu.v). mepc is behind by at most the instruction being written back,  *)
(* but from a wrong-path write on until the next right one: csr.v does not *)
(* look at exu_valid, and nothing is promised of mepc meanwhile.           *)
CsrsFollow ==
  /\ arch_csr["fflags"] = csr_rdata("fflags")
  /\ arch_csr["mepc"] \in {Spoiled, IF wb.kind = "csr" /\ wb.csr = "mepc"
                                       THEN wb.csr_wdata ELSE csr["mepc"]}

(* Nothing is under way in the FPU but the instruction in the stage, so the*)
(* arbiter, which drops all but one result of a cycle, has nothing to drop.*)
FpuServesStage ==
  LET flying == {k \in 1..3 : fma[k].valid}
  IN  /\ flying # {} => idu_valid /\ ex.kind = "fma" /\ fpu_busy
      /\ \A j, k \in flying : j = k
      /\ fdiv.busy => idu_valid /\ ex.kind = "fdiv"
      /\ fdiv.wb_valid => fdiv.busy

(* exu.v:341: an instruction is kept in the stage until it is done. What   *)
(* stands on the right path leaves by retiring, what does not never does.  *)
LeavesByRetiring ==
  [][/\ wb'.valid => idu_valid /\ ~ex.stray
     /\ idu_valid /\ ~ex.stray /\ ~wb'.valid => idu_valid' /\ ex' = ex]_vars

(* exu.v:341: exu_ready is low while an instruction executes, so it comes  *)
(* back: no flush, stale instruction or lost result keeps the stage shut.  *)
StageReopens == []<>exu_ready(TRUE)

(* The same, but for the one way to shut it that the code has: an operation*)
(* of the FPU that a flush has found in the stage is never issued, and     *)
(* exu_ready waits for it although it is no longer valid.                  *)
StageReopensOrStale == []<>(exu_ready(TRUE) \/ (op_fpu /\ ~idu_valid))
=============================================================================
