------------------------------- MODULE DiffTest -------------------------------
(* Differential testing of the simulated core (difftest.cpp, the comparing    *)
(* half of trace_and_difftest in cpu.cpp, the glue of spike-diff/difftest.cc).*)
(*                                                                            *)
(* The device under test is the pipeline as the simulator sees it between two *)
(* clock cycles: an instruction may stand in the write-back stage (wbu) with  *)
(* the registers already holding its result; device stores leave the store    *)
(* buffer some cycles after they have retired.  Registers, floating-point     *)
(* registers and fcsr are one value.  The program is a constant: Kind tells   *)
(* instructions that touch a device, Follow is the address each goes on at,   *)
(* and Result what it does to the registers; a device load may read any word. *)
EXTENDS Integers

CONSTANTS Pc, Start, Words, Zero, Kind, Follow, Result,
          StoreBufferDepth,     \* retired device stores that have not drained
          AnyLateSkip,          \* FALSE: see Harmless
          StrayBreaks,          \* branches with an ebreak on the path mispredicted
          NoInst

Straight(pc) == Follow[pc] = pc + 4

ASSUME ProgramAssumption ==
    /\ Pc \subseteq Nat /\ Start \in Pc /\ NoInst \notin Pc
    /\ Zero \in Words
    /\ Kind \in [Pc -> {"plain", "store", "load", "ebreak"}]
    /\ Follow \in [Pc -> Pc]
    /\ Result \in [Pc -> [Words -> Words]]
    /\ StoreBufferDepth \in Nat /\ AnyLateSkip \in BOOLEAN
    /\ \A pc \in Pc : Kind[pc] \in {"store", "load"} => Straight(pc)
    /\ StrayBreaks \subseteq Pc

VARIABLES
    dut,            \* next instruction to retire, and the registers
    wbu,            \* the instruction in write-back, or NoInst
    undrained,      \* device stores retired and still in the store buffer
    request,        \* of a device load: "none", "visible" on the bus, or "seen"
    is_skip_ref,
    late,           \* is_skip_ref was raised by something that is not the
                    \* instruction about to retire
    ref,            \* program counter and registers of the reference
    last_ref_pc,
    honest,         \* the core has computed every result rightly so far
    judged,         \* and had before the cycle that has just passed
    absorbed        \* a wrong value has been copied into the reference

diff_vars == <<dut, wbu, undrained, request, is_skip_ref, late, ref, last_ref_pc,
               honest, judged, absorbed>>

(* init_difftest copies the reset state of the core into the reference.       *)
init_difftest ==
    /\ dut = [pc |-> Start, x |-> Zero] /\ wbu = NoInst
    /\ undrained = 0 /\ request = "none"
    /\ is_skip_ref = FALSE /\ late = FALSE
    /\ ref = [pc |-> Start, x |-> Zero] /\ last_ref_pc = Start
    /\ honest = TRUE /\ judged = TRUE /\ absorbed = FALSE

(* One step of the reference.  It has no devices: touching one is an access   *)
(* fault, and there is no instruction outside the program.                    *)
ref_difftest_exec(r) ==
    IF r.pc \notin Pc THEN r
    ELSE IF Kind[r.pc] \in {"store", "load"} THEN [r EXCEPT !.pc = NoInst]
    ELSE [pc |-> Follow[r.pc], x |-> Result[r.pc][r.x]]

(* The flag as trace_and_difftest leaves it before the comparison: a load on  *)
(* the bus and a device store in write-back raise it.                         *)
skip_raised_on_bus_only == is_skip_ref \/ request = "visible"
skip_raised ==
    \/ is_skip_ref
    \/ request = "visible"
    \/ wbu # NoInst /\ Kind[wbu] = "store"

isa_difftest_checkregs_pc_only(r) == last_ref_pc = wbu
isa_difftest_checkregs(r) == last_ref_pc = wbu /\ dut.x = r.x

Skipped == wbu # NoInst /\ skip_raised
Mismatch == /\ wbu # NoInst /\ ~skip_raised
            /\ ~isa_difftest_checkregs(ref_difftest_exec(ref))

difftest_step ==
    IF skip_raised
    THEN /\ ref' = [pc |-> wbu + 4, x |-> dut.x]
         /\ last_ref_pc' = wbu + 4
         /\ absorbed' = (absorbed \/ ~honest)
    ELSE /\ ref' = ref_difftest_exec(ref)
         /\ last_ref_pc' = ref'.pc
         /\ UNCHANGED absorbed

(* The comparing half of trace_and_difftest.  again: the watchpoints evaluated *)
(* afterwards, in the same call, have read a device.                          *)
Compare(again) ==
    /\ request' = IF request = "visible" THEN "seen" ELSE request
    /\ IF wbu # NoInst THEN difftest_step ELSE UNCHANGED <<ref, last_ref_pc, absorbed>>
    /\ is_skip_ref' = (again \/ (skip_raised /\ wbu = NoInst))
    /\ late' = (again \/ (late /\ wbu = NoInst))
    /\ UNCHANGED <<dut, wbu, undrained, honest, judged>>

-------------------------------------------------------------------------------
(* One clock cycle of the core.  The write-back stage takes an instruction or *)
(* none, and a device store may drain, which raises the flag through          *)
(* pmem_write, mmio_write and find_mapid_by_addr (include/device/map.h).      *)
Retires(y, right) ==
    LET pc == dut.pc IN
    /\ Kind[pc] # "ebreak"
    /\ Kind[pc] = "load" => request = "seen"
    /\ Kind[pc] = "store" => undrained < StoreBufferDepth
    /\ right => (Kind[pc] = "load" \/ y = Result[pc][dut.x])
    /\ wbu' = pc
    /\ dut' = [pc |-> Follow[pc], x |-> y]
    /\ honest' = (honest /\ right)
    /\ request' = "none"

RetiresNothing ==
    /\ wbu' = NoInst
    /\ request' = IF Kind[dut.pc] = "load" /\ request = "none" /\ wbu = NoInst
                  THEN "visible" ELSE request
    /\ UNCHANGED <<dut, honest>>

(* An instruction retires, and any one that computes may come out wrong.      *)
RetiresOne ==
    \/ \E y \in Words : Retires(y, TRUE)
    \/ honest /\ \E y \in Words : y # Result[dut.pc][dut.x]
                                  /\ Kind[dut.pc] = "plain" /\ Retires(y, FALSE)

(* A flag raised late makes the reference go on at pc + 4, whatever retires   *)
(* next.  Sequences in which that is a branch or a compressed instruction are *)
(* left out unless AnyLateSkip.                                               *)
Harmless(flag, pc) == flag /\ pc # NoInst /\ ~AnyLateSkip => Straight(pc)

Waiting == undrained + (IF wbu' # NoInst /\ Kind[wbu'] = "store" THEN 1 ELSE 0)

Drains(d) ==
    /\ d <= undrained
    /\ undrained' = Waiting - d
    /\ is_skip_ref' = (is_skip_ref \/ d = 1)
    /\ late' = (late \/ d = 1)
    /\ Harmless(late', wbu')
    /\ UNCHANGED <<ref, last_ref_pc, absorbed>>

Cycle(d) ==
    /\ RetiresNothing \/ RetiresOne
    /\ judged' = honest
    /\ Drains(d)

(* The execute stage reports an ebreak at every clock edge at which du_bus    *)
(* holds one, wrong path or not (exu.v).  At that edge the instruction before *)
(* it, unless there was a gap, only enters write-back.                        *)
BreakCycle(d) ==
    /\ \/ Kind[dut.pc] = "ebreak" /\ RetiresNothing
       \/ (Kind[Follow[dut.pc]] = "ebreak" \/ dut.pc \in StrayBreaks) /\ RetiresOne
    /\ judged' = honest
    /\ Drains(d)

(* What a device read by the debugger does here: it raises the flag as well.  *)
DebuggerReads ==
    /\ is_skip_ref' = TRUE /\ late' = TRUE
    /\ Harmless(TRUE, wbu)
    /\ UNCHANGED <<dut, wbu, undrained, request, ref, last_ref_pc, honest,
                   judged, absorbed>>
===============================================================================
