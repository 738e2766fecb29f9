--------------------------- MODULE SimulatorProofs ---------------------------
(* Differential testing never accuses a core that computes every result       *)
(* rightly, and never lets a wrong one end well but in two named ways: for    *)
(* every program, store buffer, delay, watchpoint and command.  And the       *)
(* watchpoints are the list they promise to be, whatever their number.        *)
(* And an expression evaluates to the value it means, however deep it is.     *)
(* NoFalseAlarm is not inductive.  What is: the reference stands where the    *)
(* core stands (InStep), but for the one instruction in write-back that has   *)
(* not been compared yet (OneBehind), and the skip flag is up only for a      *)
(* device access or for an instruction that goes on at pc + 4 (FlagEarned).   *)
EXTENDS Simulator, SdbExpr, TLAPS, FiniteSetTheorems, SequenceTheorems, WellFoundedInduction

Types ==
    /\ dut \in [pc : Pc, x : Words]
    /\ wbu \in Pc \cup {NoInst}
    /\ request \in {"none", "visible", "seen"}
    /\ is_skip_ref \in BOOLEAN /\ late \in BOOLEAN /\ honest \in BOOLEAN
    /\ at \in {"prompt", "trace", "cycle", "exit", "dead"}

(* The states in which the run goes on, or may go on after a command.         *)
Control ==
    /\ at = "trace" => npc_state = "RUNNING"
    /\ at = "cycle" => npc_state # "END"
Live == at \in {"trace", "cycle"} \/ (at = "prompt" /\ npc_state # "END")

Compared == wbu = NoInst \/ at = "cycle"

InStep == ref = dut /\ last_ref_pc = dut.pc

OneBehind ==
    /\ ref.pc = wbu /\ last_ref_pc = wbu
    /\ dut.pc = Follow[wbu]
    /\ request = "none"
    /\ skip_raised => Straight(wbu)
    /\ ~skip_raised => Kind[wbu] = "plain" /\ dut.x = Result[wbu][ref.x]

FlagEarned ==
    /\ request # "none" => Kind[dut.pc] = "load" /\ wbu = NoInst
    /\ request = "seen" => is_skip_ref
    /\ is_skip_ref => late \/ Kind[dut.pc] = "load"

Agreement ==
    honest /\ Live => IF Compared THEN InStep /\ FlagEarned ELSE OneBehind

NoAlarm == honest => npc_state # "ABORT"

Inv == Types /\ Control /\ Agreement /\ NoAlarm

(* After an honest instruction has been compared, the reference is in step,   *)
(* and the comparison has not failed.                                         *)
LEMMA CompareAgrees ==
  ASSUME Types, OneBehind, wbu # NoInst, NEW again \in BOOLEAN, Compare(again)
  PROVE  ref' = dut /\ last_ref_pc' = dut.pc /\ ~Mismatch
<1>1. /\ wbu \in Pc /\ dut.pc = Follow[wbu] /\ ref.pc = wbu /\ last_ref_pc = wbu
      /\ dut = [pc |-> dut.pc, x |-> dut.x]
  BY DEF OneBehind, Types
<1>2. CASE skip_raised
  <2>1. ref' = [pc |-> wbu + 4, x |-> dut.x] /\ last_ref_pc' = wbu + 4
    BY <1>2 DEF Compare, difftest_step
  <2>2. dut.pc = wbu + 4
    BY <1>1, <1>2 DEF OneBehind, Straight
  <2> QED
    BY <1>1, <1>2, <2>1, <2>2 DEF Mismatch
<1>3. CASE ~skip_raised
  <2>1. Kind[wbu] = "plain" /\ dut.x = Result[wbu][ref.x]
    BY <1>3 DEF OneBehind
  <2>2. ref_difftest_exec(ref) = dut
    BY <1>1, <2>1 DEF ref_difftest_exec
  <2>3. ref' = dut /\ last_ref_pc' = ref'.pc
    BY <1>3, <2>2 DEF Compare, difftest_step
  <2> QED
    BY <1>1, <1>3, <2>2, <2>3 DEF Mismatch, isa_difftest_checkregs
<1> QED
  BY <1>2, <1>3

(* trace_and_difftest: whatever stood in write-back has been compared.        *)
LEMMA TraceStep ==
  ASSUME Inv, trace_and_difftest
  PROVE  Inv'
<1> USE DEF Inv
<1>1. PICK read \in Readable :
        /\ Compare(TouchesDevice(read))
        /\ npc_state' = IF pool' # pool THEN "STOP"
                        ELSE IF Mismatch THEN "ABORT" ELSE npc_state
  BY DEF trace_and_difftest
<1> DEFINE again == TouchesDevice(read)
<1>2. again \in BOOLEAN
  BY DEF TouchesDevice
<1> HIDE DEF again
<1>3. Compare(again)
  BY <1>1 DEF again
<1>4. at = "trace" /\ at' = "cycle" /\ npc_state = "RUNNING"
  BY DEF trace_and_difftest, Control
<1>5. dut' = dut /\ wbu' = wbu /\ honest' = honest
  BY <1>3 DEF Compare
<1>6. Types'
  <2>1. request' \in {"none", "visible", "seen"}
    BY <1>3 DEF Compare, Types
  <2>2. is_skip_ref' \in BOOLEAN /\ late' \in BOOLEAN
    BY <1>3, Zenon DEF Compare
  <2> QED
    BY <1>4, <1>5, <2>1, <2>2 DEF Types
<1>7. Control'
  BY <1>1, <1>4 DEF Control
<1>8. CASE ~honest
  BY <1>5, <1>6, <1>7, <1>8 DEF Agreement, NoAlarm
<1>9. CASE honest /\ wbu = NoInst
  <2>1. InStep /\ FlagEarned
    BY <1>4, <1>9 DEF Agreement, Live, Compared
  <2>2. ref' = ref /\ last_ref_pc' = last_ref_pc
    BY <1>3, <1>9 DEF Compare
  <2>3. FlagEarned'
    <3>1. request' = IF request = "visible" THEN "seen" ELSE request
      BY <1>3 DEF Compare
    <3>2. is_skip_ref' = (again \/ is_skip_ref \/ request = "visible")
      BY <1>3, <1>9, Zenon DEF Compare, skip_raised
    <3>3. late' = (again \/ late)
      BY <1>3, <1>9, Zenon DEF Compare
    <3> QED
      BY <1>5, <1>9, <2>1, <3>1, <3>2, <3>3, <1>2 DEF FlagEarned, Types
  <2>4. ~Mismatch
    BY <1>9 DEF Mismatch
  <2>5. InStep'
    BY <1>5, <2>1, <2>2 DEF InStep
  <2> QED
    BY <1>1, <1>4, <1>5, <1>6, <1>7, <1>9, <2>3, <2>4, <2>5 DEF Agreement, Compared, NoAlarm
<1>10. CASE honest /\ wbu # NoInst
  <2>1. OneBehind
    BY <1>4, <1>10 DEF Agreement, Live, Compared
  <2>2. ref' = dut /\ last_ref_pc' = dut.pc /\ ~Mismatch
    BY <1>2, <1>3, <1>10, <2>1, CompareAgrees
  <2>3. InStep'
    BY <1>5, <2>2 DEF InStep
  <2>4. request' = "none"
    BY <1>3, <2>1 DEF Compare, OneBehind
  <2>5. is_skip_ref' = again /\ late' = again
    BY <1>3, <1>10, <1>2 DEF Compare
  <2>6. FlagEarned'
    BY <2>4, <2>5 DEF FlagEarned
  <2> QED
    BY <1>1, <1>4, <1>5, <1>6, <1>7, <1>10, <2>2, <2>3, <2>6 DEF Agreement, Compared, NoAlarm
<1> QED
  BY <1>8, <1>9, <1>10

-------------------------------------------------------------------------------
(* A device store that drains ahead of an instruction raises the flag late.   *)
LEMMA DrainFlags ==
  ASSUME Types, NEW d \in 0..1, Drains(d)
  PROVE  /\ is_skip_ref' = (is_skip_ref \/ d = 1)
         /\ late' = (late \/ d = 1)
         /\ ref' = ref /\ last_ref_pc' = last_ref_pc
         /\ ~AnyLateSkip /\ late' /\ wbu' # NoInst => Straight(wbu')
BY DEF Drains, Harmless

(* The next instruction enters write-back with its own result.                *)
LEMMA RetireStep ==
  ASSUME Types, ~AnyLateSkip, InStep, FlagEarned,
         NEW d \in 0..1, Drains(d),
         NEW y \in Words, Retires(y, TRUE)
  PROVE  OneBehind'
<1> DEFINE j == dut.pc
<1>1. j \in Pc /\ dut.x \in Words /\ j # NoInst
  BY ProgramAssumption DEF Types
<1>2. /\ wbu' = j /\ request' = "none"
      /\ dut' = [pc |-> Follow[j], x |-> y]
      /\ Kind[j] # "ebreak" /\ (Kind[j] = "load" => request = "seen")
      /\ Kind[j] = "load" \/ y = Result[j][dut.x]
  BY DEF Retires
<1>3. ref' = dut /\ last_ref_pc' = j
  BY DrainFlags DEF InStep
<1>4. Kind[j] \in {"plain", "store", "load", "ebreak"}
  BY <1>1, ProgramAssumption
<1>5. skip_raised' = (is_skip_ref' \/ Kind[j] = "store")
  BY <1>1, <1>2 DEF skip_raised
<1>6. ASSUME skip_raised' PROVE Straight(j)
  <2>1. CASE Kind[j] \in {"store", "load"}
    BY <1>1, <2>1, ProgramAssumption
  <2>2. CASE Kind[j] \notin {"store", "load"}
    <3>1. late'
      BY <1>5, <1>6, <2>2, DrainFlags DEF FlagEarned
    <3> QED
      BY <1>1, <1>2, <3>1, DrainFlags
  <2> QED
    BY <2>1, <2>2
<1>7. ASSUME ~skip_raised' PROVE Kind[j] = "plain" /\ dut'.x = Result[j][ref'.x]
  <2>1. ~is_skip_ref /\ Kind[j] # "store"
    BY <1>5, <1>7, DrainFlags
  <2>2. Kind[j] # "load"
    BY <1>2, <2>1 DEF FlagEarned
  <2> QED
    BY <1>2, <1>3, <1>4, <2>1, <2>2
<1> QED
  BY <1>2, <1>3, <1>6, <1>7 DEF OneBehind, Straight

(* One that computed wrongly is no longer an honest core's.                   *)
LEMMA RetireTypes ==
  ASSUME Types, NEW y \in Words, NEW right \in BOOLEAN, Retires(y, right)
  PROVE  /\ dut' \in [pc : Pc, x : Words] /\ wbu' \in Pc /\ wbu' # NoInst
         /\ request' = "none"
         /\ honest' = (honest /\ right)
<1>1. dut.pc \in Pc /\ Follow[dut.pc] \in Pc /\ dut.pc # NoInst
  BY ProgramAssumption DEF Types
<1> QED
  BY <1>1 DEF Retires

LEMMA RetireOneTypes ==
  ASSUME Types, RetiresOne
  PROVE  /\ dut' \in [pc : Pc, x : Words] /\ wbu' \in Pc /\ wbu' # NoInst
         /\ request' = "none" /\ honest' \in BOOLEAN
<1>1. PICK y \in Words, right \in BOOLEAN : Retires(y, right)
  BY DEF RetiresOne
<1>2. honest \in BOOLEAN
  BY DEF Types
<1> QED
  BY <1>1, <1>2, RetireTypes

LEMMA CycleStep ==
  ASSUME Inv, ~AnyLateSkip, single_cycle
  PROVE  Inv'
<1> USE DEF Inv
<1>1. PICK d \in 0..1, moved \in BOOLEAN :
        \/ Cycle(d) /\ Loops(npc_state, moved)
        \/ BreakCycle(d) /\ Loops("END", moved)
  BY DEF single_cycle
<1>2. at = "cycle" /\ npc_state # "END"
  BY DEF single_cycle, Control
<1>3. CASE BreakCycle(d) /\ Loops("END", moved)
  <2>1. npc_state' = "END" /\ at' \in {"exit", "prompt"}
    BY <1>3, Zenon DEF Loops
  <2>2. /\ dut' \in [pc : Pc, x : Words] /\ wbu' \in Pc \cup {NoInst}
        /\ request' \in {"none", "visible", "seen"} /\ honest' \in BOOLEAN
    <3>1. CASE RetiresOne
      BY <3>1, RetireOneTypes
    <3>2. CASE RetiresNothing
      BY <3>2 DEF RetiresNothing, Types
    <3> QED
      BY <1>3, <3>1, <3>2, Zenon DEF BreakCycle
  <2>3. is_skip_ref' \in BOOLEAN /\ late' \in BOOLEAN
    BY <1>3, DrainFlags DEF BreakCycle
  <2> QED
    BY <2>1, <2>2, <2>3 DEF Types, Control, Agreement, Live, NoAlarm
<1>4. CASE Cycle(d) /\ Loops(npc_state, moved)
  <2>1. /\ at' \in {"trace", "prompt", "exit"}
        /\ at' = "trace" => npc_state' = "RUNNING"
        /\ npc_state' = npc_state \/ npc_state' = "STOP"
    BY <1>4, Zenon DEF Loops
  <2>2. is_skip_ref' \in BOOLEAN /\ late' \in BOOLEAN /\ Drains(d)
    BY <1>4, DrainFlags DEF Cycle
  <2>3. (honest => InStep /\ FlagEarned)
    BY <1>2 DEF Agreement, Live, Compared
  <2>4. CASE RetiresNothing
    <3>1. /\ wbu' = NoInst /\ dut' = dut /\ honest' = honest
          /\ request' = IF Kind[dut.pc] = "load" /\ request = "none" /\ wbu = NoInst
                        THEN "visible" ELSE request
      BY <2>4 DEF RetiresNothing
    <3>2. Types'
      BY <2>1, <2>2, <3>1 DEF Types
    <3>3. honest => InStep'
      BY <2>2, <2>3, <3>1, DrainFlags DEF InStep
    <3>4. honest => FlagEarned'
      BY <2>2, <2>3, <3>1, DrainFlags DEF FlagEarned
    <3> QED
      BY <1>2, <2>1, <3>1, <3>2, <3>3, <3>4 DEF Control, Agreement, Compared, NoAlarm
  <2>5. ASSUME NEW y \in Words, NEW right \in BOOLEAN, Retires(y, right)
        PROVE  Types' /\ wbu' # NoInst /\ honest' = (honest /\ right)
    <3>1. /\ dut' \in [pc : Pc, x : Words] /\ wbu' \in Pc /\ wbu' # NoInst
          /\ request' = "none" /\ honest' = (honest /\ right)
      BY <2>5, RetireTypes
    <3> QED
      BY <2>1, <2>2, <3>1 DEF Types
  <2>6. CASE \E y \in Words : Retires(y, TRUE)
    <3>1. PICK y \in Words : Retires(y, TRUE)
      BY <2>6
    <3>2. Types' /\ wbu' # NoInst /\ honest' = honest
      BY <2>5, <3>1 DEF Types
    <3>3. honest => OneBehind'
      BY <2>2, <2>3, <3>1, RetireStep
    <3> QED
      BY <1>2, <2>1, <3>2, <3>3 DEF Control, Agreement, Compared, NoAlarm
  <2>7. CASE \E y \in Words : Retires(y, FALSE)
    <3>1. PICK y \in Words : Retires(y, FALSE)
      BY <2>7
    <3>2. Types' /\ ~honest'
      BY <2>5, <3>1
    <3> QED
      BY <1>2, <2>1, <3>2 DEF Control, Agreement, NoAlarm
  <2> QED
    BY <1>4, <2>4, <2>6, <2>7, Zenon DEF Cycle, RetiresOne
<1> QED
  BY <1>1, <1>3, <1>4

-------------------------------------------------------------------------------
(* A command leaves the core where it is; a device read raises the flag.      *)
LEMMA CommandStep ==
  ASSUME Inv, ~AnyLateSkip, at = "prompt",
         UNCHANGED diff_vars \/ DebuggerReads,
         \/ at' = "trace" /\ npc_state' = "RUNNING" /\ npc_state # "END"
         \/ at' = at /\ npc_state' = npc_state
         \/ at' \in {"exit", "dead"} /\ (npc_state' = npc_state \/ npc_state' = "QUIT")
  PROVE  Inv'
<1> USE DEF Inv
<1>1. /\ dut' = dut /\ wbu' = wbu /\ request' = request /\ honest' = honest
      /\ ref' = ref /\ last_ref_pc' = last_ref_pc
      /\ \/ is_skip_ref' = is_skip_ref /\ late' = late
         \/ /\ is_skip_ref' = TRUE /\ late' = TRUE
            /\ wbu # NoInst => Straight(wbu)
  BY DEF diff_vars, DebuggerReads, Harmless
<1>2. Types'
  BY <1>1 DEF Types
<1>3. Control' /\ (Live' => Live) /\ NoAlarm'
  BY <1>1 DEF Control, Live, NoAlarm
<1>4. Compared' = (wbu = NoInst) /\ Compared = (wbu = NoInst)
  BY <1>1 DEF Compared
<1>5. ASSUME InStep, FlagEarned PROVE InStep' /\ FlagEarned'
  BY <1>1, <1>5 DEF InStep, FlagEarned
<1>6. ASSUME OneBehind, wbu # NoInst PROVE OneBehind'
  <2>1. skip_raised' \in {skip_raised, TRUE} /\ (skip_raised' # skip_raised => Straight(wbu))
    BY <1>1, <1>6 DEF skip_raised
  <2> QED
    BY <1>1, <1>6, <2>1 DEF OneBehind, Straight, skip_raised
<1> QED
  BY <1>1, <1>2, <1>3, <1>4, <1>5, <1>6 DEF Agreement

LEMMA InvInit == Init => Inv
<1> SUFFICES ASSUME Init PROVE Inv
  OBVIOUS
<1>1. /\ dut = [pc |-> Start, x |-> Zero] /\ ref = [pc |-> Start, x |-> Zero]
      /\ wbu = NoInst /\ request = "none" /\ is_skip_ref = FALSE /\ late = FALSE
      /\ last_ref_pc = Start /\ honest = TRUE
      /\ \/ npc_state = "RUNNING" /\ at = "trace"
         \/ npc_state = "STOP" /\ at = "prompt"
  BY DEF Init, init_difftest
<1> QED
  BY <1>1, ProgramAssumption
  DEF Inv, Types, Control, Agreement, NoAlarm, Live, Compared, InStep, FlagEarned

LEMMA InvNext == Inv /\ ~AnyLateSkip /\ [Next]_vars => Inv'
<1> SUFFICES ASSUME Inv, ~AnyLateSkip, [Next]_vars PROVE Inv'
  OBVIOUS
<1>1. CASE trace_and_difftest
  BY <1>1, TraceStep
<1>2. CASE single_cycle
  BY <1>2, CycleStep
<1>3. ASSUME NEW count, cpu_exec(count) PROVE Inv'
  BY <1>3, CommandStep DEF cpu_exec, AtPrompt
<1>4. CASE cmd_q
  BY <1>4, CommandStep DEF cmd_q, AtPrompt
<1>5. CASE EndOfInput
  BY <1>5, CommandStep DEF EndOfInput, AtPrompt
<1>6. ASSUME NEW e, cmd_w(e) PROVE Inv'
  <2>1. at = "prompt" /\ at' = at /\ npc_state' = npc_state
    BY <1>6 DEF cmd_w, AtPrompt, ctl_vars
  <2>2. UNCHANGED diff_vars \/ DebuggerReads
    BY <1>6, Zenon DEF cmd_w
  <2> QED
    BY <2>1, <2>2, CommandStep
<1>7. ASSUME NEW no, cmd_d(no) PROVE Inv'
  BY <1>7, CommandStep DEF cmd_d, AtPrompt, ctl_vars
<1>8. ASSUME NEW addr, NEW words, cmd_x(addr, words) PROVE Inv'
  BY <1>8, CommandStep DEF cmd_x, AtPrompt
<1>9. CASE UNCHANGED vars
  BY <1>9 DEF vars, diff_vars, ctl_vars, Inv, Types, Control, Agreement, NoAlarm, Live,
              Compared, InStep, OneBehind, FlagEarned, skip_raised, Straight
<1> QED
  BY <1>1, <1>2, <1>3, <1>4, <1>5, <1>6, <1>7, <1>8, <1>9 DEF Next, Over

(* A core that computes every result rightly is never reported, whatever the  *)
(* program, as long as no store drains late ahead of a branch or a compressed *)
(* instruction (difftest_step, cpu.cpp, include/device/map.h).                *)
THEOREM SpecNoFalseAlarm ==
  ASSUME ~AnyLateSkip
  PROVE  Spec => []NoFalseAlarm
<1>1. Inv => NoFalseAlarm
  BY DEF Inv, NoAlarm, NoFalseAlarm
<1>2. Inv /\ [Next]_vars => Inv'
  BY InvNext
<1> QED
  BY <1>1, <1>2, InvInit, PTL DEF Spec

-------------------------------------------------------------------------------
(* VerdictIsEarned.  A wrong result is either lost in one of the two ways the *)
(* program has, or it stands in write-back and will be compared, with the     *)
(* reference just before it, or it has been reported, or it came in the very  *)
(* cycle that ended the run.                                                  *)
Earned == honest \/ absorbed \/ escaped

Suspect ==
    /\ wbu \in Pc /\ ref.pc = wbu /\ last_ref_pc = wbu
    /\ Kind[wbu] = "plain" /\ dut.x # Result[wbu][ref.x]

Reported == npc_state = "ABORT" \/ (npc_state = "QUIT" /\ at = "exit")

JustEnded == npc_state = "END" /\ judged

Caught ==
    /\ honest => judged
    /\ Earned \/ Reported \/ JustEnded
       \/ (Suspect /\ npc_state \notin {"END", "ABORT"} /\ at # "cycle")

(* What is suspect is found out by the comparison, or copied.                 *)
LEMMA CaughtTrace ==
  ASSUME Inv, Caught, trace_and_difftest
  PROVE  Caught'
<1>1. PICK read \in Readable :
        /\ Compare(TouchesDevice(read))
        /\ npc_state' = IF pool' # pool THEN "STOP"
                        ELSE IF Mismatch THEN "ABORT" ELSE npc_state
        /\ escaped' = (escaped \/ (Mismatch /\ pool' # pool))
  BY DEF trace_and_difftest
<1>2. at = "trace" /\ npc_state = "RUNNING"
  BY DEF trace_and_difftest, Inv, Control
<1>3. honest' = honest /\ judged' = judged
  BY <1>1 DEF Compare
<1>4. absorbed => absorbed'
  BY <1>1 DEF Compare, difftest_step
<1>5. honest' => judged'
  BY <1>3 DEF Caught
<1>6. CASE Earned
  BY <1>1, <1>3, <1>4, <1>5, <1>6, Zenon DEF Earned, Caught
<1>7. CASE ~Earned
  <2>1. Suspect /\ ~honest
    BY <1>2, <1>7 DEF Caught, Earned, Reported, JustEnded
  <2>2. wbu # NoInst
    BY <2>1, ProgramAssumption DEF Suspect
  <2>3. CASE skip_raised
    <3>1. absorbed'
      BY <1>1, <2>1, <2>2, <2>3 DEF Compare, difftest_step
    <3> QED
      BY <1>5, <3>1 DEF Caught, Earned
  <2>4. CASE ~skip_raised
    <3>1. ref_difftest_exec(ref).x = Result[wbu][ref.x]
      BY <2>1 DEF Suspect, ref_difftest_exec
    <3>2. Mismatch
      BY <2>1, <2>2, <2>4, <3>1 DEF Mismatch, isa_difftest_checkregs, Suspect
    <3>3. npc_state' = "ABORT" \/ escaped'
      BY <1>1, <3>2, Zenon
    <3> QED
      BY <1>5, <3>3 DEF Caught, Earned, Reported
  <2> QED
    BY <2>3, <2>4
<1> QED
  BY <1>6, <1>7

(* A wrong result comes into write-back behind a reference in step, or with   *)
(* the ebreak that ends the run.                                              *)
LEMMA CaughtCycle ==
  ASSUME Inv, Caught, single_cycle
  PROVE  Caught'
<1>1. PICK d \in 0..1, moved \in BOOLEAN :
        \/ Cycle(d) /\ Loops(npc_state, moved) /\ escaped' = escaped
        \/ /\ BreakCycle(d) /\ Loops("END", moved)
           /\ escaped' = (escaped \/ npc_state = "ABORT")
  BY DEF single_cycle
<1>2. at = "cycle" /\ npc_state # "END"
  BY DEF single_cycle, Inv, Control
<1>3. Earned \/ npc_state = "ABORT"
  BY <1>2 DEF Caught, Reported, JustEnded
<1>4. /\ RetiresNothing \/ RetiresOne
      /\ judged' = honest
      /\ absorbed' = absorbed /\ ref' = ref /\ last_ref_pc' = last_ref_pc
  <2>1. PICK e \in 0..1 : (RetiresNothing \/ RetiresOne) /\ judged' = honest /\ Drains(e)
    BY <1>1, Zenon DEF Cycle, BreakCycle
  <2> QED
    BY <2>1 DEF Drains
<1>5. honest' => judged'
  <2>1. CASE RetiresNothing
    BY <1>4, <2>1 DEF RetiresNothing
  <2>2. CASE RetiresOne
    <3>1. PICK y \in Words, right \in BOOLEAN : Retires(y, right)
      BY <2>2 DEF RetiresOne
    <3> QED
      BY <1>4, <3>1 DEF Retires
  <2> QED
    BY <1>4, <2>1, <2>2
<1>6. CASE BreakCycle(d) /\ Loops("END", moved) /\ escaped' = (escaped \/ npc_state = "ABORT")
  <2>1. npc_state' = "END"
    BY <1>6, Zenon DEF Loops
  <2>2. judged' \/ absorbed' \/ escaped'
    BY <1>3, <1>4, <1>6, Zenon DEF Earned
  <2> QED
    BY <1>5, <2>1, <2>2, Zenon DEF Caught, Earned, JustEnded
<1>7. CASE Cycle(d) /\ Loops(npc_state, moved) /\ escaped' = escaped
  <2>1. /\ at' # "cycle"
        /\ npc_state = "ABORT" => npc_state' = "ABORT"
        /\ npc_state' = npc_state \/ npc_state' = "STOP"
    BY <1>7, Zenon DEF Loops
  <2>2. CASE npc_state = "ABORT"
    BY <1>5, <2>1, <2>2 DEF Caught, Reported
  <2>3. CASE npc_state # "ABORT" /\ honest' = honest
    BY <1>3, <1>4, <1>5, <1>7, <2>3 DEF Caught, Earned
  <2>4. CASE npc_state # "ABORT" /\ honest' # honest
    <3>1. PICK y \in Words :
            /\ honest /\ y # Result[dut.pc][dut.x] /\ Kind[dut.pc] = "plain"
            /\ Retires(y, FALSE)
      <4>1. ~RetiresNothing
        BY <2>4 DEF RetiresNothing
      <4>2. ASSUME NEW y \in Words PROVE ~Retires(y, TRUE)
        BY <2>4 DEF Retires, Inv, Types
      <4> QED
        BY <1>4, <4>1, <4>2, Zenon DEF RetiresOne
    <3>2. InStep /\ dut.pc \in Pc
      BY <1>2, <3>1 DEF Inv, Agreement, Live, Compared, Types
    <3>3. wbu' = dut.pc /\ dut' = [pc |-> Follow[dut.pc], x |-> y]
      BY <3>1 DEF Retires
    <3>4. Suspect'
      BY <1>4, <3>1, <3>2, <3>3 DEF Suspect, InStep
    <3> QED
      BY <1>2, <1>5, <2>1, <2>4, <3>4 DEF Caught
  <2> QED
    BY <2>2, <2>3, <2>4
<1> QED
  BY <1>1, <1>6, <1>7, Zenon

(* A command changes no result; cpu_exec refuses after a report and after the *)
(* end of the program.                                                        *)
LEMMA CaughtCommand ==
  ASSUME Caught, at = "prompt",
         UNCHANGED diff_vars \/ DebuggerReads, escaped' = escaped,
         \/ at' = "trace" /\ npc_state' = "RUNNING" /\ npc_state \notin {"END", "ABORT"}
         \/ at' # "cycle" /\ npc_state' = npc_state
         \/ at' = "exit" /\ npc_state' = "QUIT"
  PROVE  Caught'
<1>1. /\ dut' = dut /\ wbu' = wbu /\ ref' = ref /\ last_ref_pc' = last_ref_pc
      /\ honest' = honest /\ judged' = judged /\ absorbed' = absorbed
  BY DEF diff_vars, DebuggerReads
<1>2. Earned' = Earned /\ Suspect' = Suspect /\ (honest' => judged')
  BY <1>1 DEF Earned, Suspect, Caught
<1> QED
  BY <1>1, <1>2 DEF Caught, Reported, JustEnded

LEMMA CaughtNext == Inv /\ Caught /\ [Next]_vars => Caught'
<1> SUFFICES ASSUME Inv, Caught, [Next]_vars PROVE Caught'
  OBVIOUS
<1>1. CASE trace_and_difftest
  BY <1>1, CaughtTrace
<1>2. CASE single_cycle
  BY <1>2, CaughtCycle
<1>3. ASSUME NEW count, cpu_exec(count) PROVE Caught'
  BY <1>3, CaughtCommand DEF cpu_exec, AtPrompt
<1>4. CASE cmd_q
  BY <1>4, CaughtCommand DEF cmd_q, AtPrompt
<1>5. CASE EndOfInput
  BY <1>5, CaughtCommand DEF EndOfInput, AtPrompt
<1>6. ASSUME NEW e, cmd_w(e) PROVE Caught'
  <2>1. at = "prompt" /\ at' = at /\ npc_state' = npc_state /\ escaped' = escaped
    BY <1>6 DEF cmd_w, AtPrompt, ctl_vars
  <2>2. UNCHANGED diff_vars \/ DebuggerReads
    BY <1>6, Zenon DEF cmd_w
  <2> QED
    BY <2>1, <2>2, CaughtCommand
<1>7. ASSUME NEW no, cmd_d(no) PROVE Caught'
  BY <1>7, CaughtCommand DEF cmd_d, AtPrompt, ctl_vars
<1>8. ASSUME NEW addr, NEW words, cmd_x(addr, words) PROVE Caught'
  <2>1. at = "prompt" /\ at' # "cycle" /\ npc_state' = npc_state /\ escaped' = escaped
    BY <1>8 DEF cmd_x, AtPrompt
  <2>2. UNCHANGED diff_vars \/ DebuggerReads
    BY <1>8, Zenon DEF cmd_x
  <2> QED
    BY <2>1, <2>2, CaughtCommand
<1>9. CASE UNCHANGED vars
  BY <1>9 DEF vars, diff_vars, ctl_vars, Caught, Earned, Reported, JustEnded, Suspect
<1> QED
  BY <1>1, <1>2, <1>3, <1>4, <1>5, <1>6, <1>7, <1>8, <1>9 DEF Next, Over

(* A run that ends with END computed rightly all that had retired when its    *)
(* last cycle began, or lost a mismatch in one of the two ways named: for     *)
(* every program, whenever the core first errs (difftest_step,                *)
(* trace_and_difftest, execute_once, ebreak).                                 *)
THEOREM SpecVerdictIsEarned ==
  ASSUME ~AnyLateSkip
  PROVE  Spec => []VerdictIsEarned
<1>1. Init => Inv /\ Caught
  BY InvInit DEF Init, init_difftest, Caught, Earned
<1>2. Inv /\ Caught /\ [Next]_vars => Inv' /\ Caught'
  BY InvNext, CaughtNext
<1>3. Caught => VerdictIsEarned
  BY DEF Caught, Earned, Reported, JustEnded, VerdictIsEarned
<1> QED
  BY <1>1, <1>2, <1>3, PTL DEF Spec

-------------------------------------------------------------------------------
(* The watchpoints: the cells linked by watchpoint.cpp are the list that      *)
(* WatchList promises, and the loop over them lets no change go by.  The      *)
(* invariant (Kept) names the two lists: m cells in use and the others free,  *)
(* threaded on next, backed by prev, without a cell in common, and every cell *)
(* in use numbered by its place.                                              *)
USE WatchAssumption

Cells == Pool!Cells
Null  == Pool!Null

LEMMA Nulls == Null = -1 /\ Null \notin Cells /\ Pool!Null = Null /\ Pool!Cells = Cells
BY DEF Null, Cells, Pool!Null, Pool!Cells

(* Induction over the numbers, as a set with 0 closed under successors.      *)
LEMMA SetInduction ==
  ASSUME NEW S \in SUBSET Nat, 0 \in S, \A k \in S : k + 1 \in S
  PROVE  S = Nat
<1> SUFFICES ASSUME S # Nat PROVE FALSE
  OBVIOUS
<1>1. \E x \in Nat \ S : \A y \in Nat \ S : <<y, x>> \notin OpToRel(<, Nat)
  BY NatLessThanWellFounded, WFMin
<1>2. PICK x \in Nat \ S : \A y \in Nat \ S : ~(y < x)
  BY <1>1 DEF OpToRel
<1>3. x - 1 \in Nat /\ (x - 1) + 1 = x /\ x - 1 < x
  BY <1>2
<1> QED
  BY <1>2, <1>3

(* The first j elements of s.                                                *)
Prefix(s, j) == [i \in 1..j |-> s[i]]

LEMMA FunctionIsSeq ==
  ASSUME NEW X, NEW k \in Nat, NEW s \in [1..k -> X]
  PROVE  s \in Seq(X) /\ Len(s) = k /\ DOMAIN s = 1..k
<1>1. s \in Seq(X)
  BY SeqDef
<1>2. Len(s) \in Nat /\ DOMAIN s = 1..Len(s)
  BY <1>1, LenProperties
<1>3. DOMAIN s = 1..k
  OBVIOUS
<1>4. ASSUME NEW x \in Nat, NEW y \in Nat, x < y, 1..x = 1..y PROVE FALSE
  <2>1. y \in 1..y /\ y \notin 1..x
    BY <1>4
  <2> QED
    BY <1>4, <2>1
<1>5. Len(s) = k
  <2> SUFFICES ASSUME Len(s) # k PROVE FALSE
    OBVIOUS
  <2>1. Len(s) < k \/ k < Len(s)
    BY <1>2
  <2> QED
    BY <1>2, <1>3, <1>4, <2>1
<1> QED
  BY <1>1, <1>3, <1>5

LEMMA PrefixLast ==
  ASSUME NEW X, NEW k \in Nat, NEW s \in [1..k -> X], NEW j \in 1..k
  PROVE  Prefix(s, j) # <<>> /\ Pool!Last(Prefix(s, j)) = s[j]
<1>1. Len(<<>>) = 0
  OBVIOUS
<1> DEFINE q == Prefix(s, j)
<1>2. q \in [1..j -> X] /\ j \in Nat
  BY DEF Prefix
<1>3. Len(q) = j /\ \A i \in 1..j : q[i] = s[i]
  BY <1>2, FunctionIsSeq DEF Prefix
<1> HIDE DEF q
<1> QED
  BY <1>1, <1>3 DEF Pool!Last, q

Grows(s, j) == Append(Prefix(s, j), s[j + 1]) = Prefix(s, j + 1)

LEMMA PrefixGrows ==
  ASSUME NEW X, NEW k \in Nat, NEW s \in [1..k -> X], NEW j \in 0..k, j < k
  PROVE  Grows(s, j)
<1> DEFINE p == Prefix(s, j)
           q == Prefix(s, j + 1)
<1>0. j + 1 \in 0..k
  OBVIOUS
<1>1. /\ p \in Seq(X) /\ Len(p) = j /\ \A i \in 1..j : p[i] = s[i]
  <2>1. p \in [1..j -> X] /\ j \in Nat
    BY DEF Prefix
  <2> QED
    BY <2>1, FunctionIsSeq DEF Prefix
<1>2. q \in Seq(X) /\ Len(q) = j + 1 /\ \A i \in 1..j + 1 : q[i] = s[i]
  <2>1. q \in [1..j + 1 -> X] /\ j + 1 \in Nat
    BY DEF Prefix
  <2> QED
    BY <2>1, FunctionIsSeq DEF Prefix
<1> HIDE DEF p, q
<1>3. s[j + 1] \in X
  OBVIOUS
<1>4. /\ Append(p, s[j + 1]) \in Seq(X) /\ Len(Append(p, s[j + 1])) = j + 1
      /\ \A i \in 1..j : Append(p, s[j + 1])[i] = s[i]
      /\ Append(p, s[j + 1])[j + 1] = s[j + 1]
  BY <1>1, <1>3, AppendProperties
<1>5. \A i \in 1..j + 1 : Append(p, s[j + 1])[i] = q[i]
  BY <1>2, <1>4
<1> QED
  BY <1>2, <1>4, <1>5, SeqEqual DEF p, q, Grows

(* s, of k cells, is threaded on the next pointers from the cell w on.       *)
Threaded(next, w, k, s) ==
  /\ w = IF k = 0 THEN Null ELSE s[1]
  /\ \A i \in 1..k : next[s[i]] = IF i = k THEN Null ELSE s[i + 1]

(* Then walking along the pointers (InUse) meets s and nothing else.         *)
LEMMA ChainIs ==
  ASSUME NEW p, NEW w, NEW k \in 0..NR_WP, NEW s \in [1..k -> Cells], Threaded(p.next, w, k, s)
  PROVE  Pool!Chain(p, w) = s
<1> DEFINE Step(f, j) == CASE j = 0 -> IF w = Null THEN <<>> ELSE <<w>>
                           [] OTHER -> LET so_far == f[j - 1] IN
                                       IF so_far = <<>> \/ p.next[Pool!Last(so_far)] = Null THEN so_far
                                       ELSE Append(so_far, p.next[Pool!Last(so_far)])
           Walk(f) == f = [j \in 0..NR_WP |-> Step(f, j)]
           reached == CHOOSE f : Walk(f)
           size(j) == IF j < k THEN j + 1 ELSE k
           g == [j \in 0..NR_WP |-> Prefix(s, size(j))]
<1>1. Pool!Chain(p, w) = reached[NR_WP]
  BY DEF Pool!Chain, Null, Pool!Null
<1>2. \A i \in 1..k : s[i] \in Cells /\ s[i] # Null
  BY DEF Cells, Null, Pool!Cells, Pool!Null
<1>3. ASSUME NEW f, NEW j \in 0..NR_WP, j = 0 \/ f[j - 1] = Prefix(s, size(j - 1))
      PROVE  Step(f, j) = Prefix(s, size(j))
  <2>1. CASE j = 0
    <3>1. k = 0 => Step(f, j) = <<>> /\ Prefix(s, size(j)) = <<>>
      <4>1. Prefix(s, 0) = <<>>
        BY DEF Prefix
      <4>2. k = 0 => w = Null /\ size(j) = 0
        BY <2>1 DEF Threaded
      <4>3. w = Null => Step(f, j) = <<>>
        BY <2>1
      <4> HIDE DEF Step
      <4> QED
        BY <4>1, <4>2, <4>3
    <3>2. k > 0 => w = s[1] /\ w # Null
      BY <1>2 DEF Threaded
    <3>3. k > 0 => Step(f, j) = <<s[1]>>
      BY <2>1, <3>2
    <3>4. k > 0 => Prefix(s, 1) = <<s[1]>>
      BY DEF Prefix
    <3> QED
      BY <2>1, <3>1, <3>3, <3>4
  <2>2. CASE j # 0
    <3> DEFINE h == size(j - 1)
               so_far == Prefix(s, h)
    <3>1. h \in 0..k /\ j - 1 \in Nat
      BY <2>2
    <3>2. Step(f, j) = IF so_far = <<>> \/ p.next[Pool!Last(so_far)] = Null THEN so_far
                       ELSE Append(so_far, p.next[Pool!Last(so_far)])
      BY <1>3, <2>2
    <3> HIDE DEF Step
    <3>3. CASE k = 0
      <4>1. h = 0 /\ size(j) = 0
        BY <2>2, <3>3
      <4>2. so_far = <<>>
        BY <4>1 DEF Prefix
      <4>3. Step(f, j) = so_far
        BY <3>2, <4>2
      <4> QED
        BY <4>1, <4>3
    <3>4. CASE k > 0
      <4>1. h > 0 /\ h <= k
        BY <2>2, <3>4
      <4> HIDE DEF h
      <4>2. so_far # <<>> /\ Pool!Last(so_far) = s[h]
        <5>1. k \in Nat /\ s \in [1..k -> Cells] /\ h \in 1..k
          BY <3>1, <4>1
        <5> QED
          BY <5>1, PrefixLast
      <4>3. p.next[s[h]] = IF h = k THEN Null ELSE s[h + 1]
        BY <3>1, <4>1 DEF Threaded
      <4>4. CASE h = k
        <5>1. size(j) = k
          BY <2>2, <3>4, <4>4 DEF h
        <5> QED
          BY <3>2, <4>2, <4>3, <4>4, <5>1
      <4>5. CASE h < k
        <5>1. size(j) = h + 1
          BY <2>2, <3>4, <4>5 DEF h
        <5>2. s[h + 1] # Null
          BY <1>2, <3>1, <4>5
        <5>3. Step(f, j) = Append(so_far, s[h + 1])
          BY <3>2, <4>2, <4>3, <4>5, <5>2
        <5>4. Append(so_far, s[h + 1]) = Prefix(s, h + 1)
          <6>1. h \in 0..k /\ h < k
            BY <3>1, <4>5
          <6>2. k \in Nat /\ s \in [1..k -> Cells]
            OBVIOUS
          <6>3. Grows(s, h)
            BY <6>1, <6>2, PrefixGrows
          <6> QED
            BY <6>3 DEF Grows
        <5> QED
          BY <5>1, <5>3, <5>4
      <4> QED
        BY <4>1, <4>4, <4>5, <3>1
    <3> QED
      BY <3>3, <3>4
  <2> QED
    BY <2>1, <2>2
<1> HIDE DEF Step
<1>4. Walk(g)
  <2>1. ASSUME NEW j \in 0..NR_WP PROVE g[j] = Step(g, j)
    <3>1. j = 0 \/ g[j - 1] = Prefix(s, size(j - 1))
      OBVIOUS
    <3> QED
      BY <1>3, <3>1
  <2> QED
    BY <2>1
<1>5. Walk(reached)
  BY <1>4
<1> HIDE DEF reached
<1> DEFINE S == {j \in Nat : j <= NR_WP => reached[j] = Prefix(s, size(j))}
<1>6. 0 \in S
  <2>1. reached[0] = Step(reached, 0)
    BY <1>5
  <2> QED
    BY <1>3, <2>1
<1>7. \A j \in S : j + 1 \in S
  <2> SUFFICES ASSUME NEW j \in S, j + 1 <= NR_WP PROVE reached[j + 1] = Prefix(s, size(j + 1))
    OBVIOUS
  <2> DEFINE i == j + 1
  <2>1. i \in 0..NR_WP /\ i - 1 = j /\ reached[j] = Prefix(s, size(j))
    OBVIOUS
  <2>2. reached[i] = Step(reached, i)
    BY <1>5, <2>1
  <2>3. reached[i - 1] = Prefix(s, size(i - 1))
    BY <2>1
  <2> HIDE DEF i
  <2>4. reached[i] = Prefix(s, size(i))
    BY <1>3, <2>1, <2>2, <2>3
  <2> QED
    BY <2>4 DEF i
<1>8. S = Nat
  <2> HIDE DEF S
  <2>1. S \in SUBSET Nat
    BY DEF S
  <2> QED
    BY <1>6, <1>7, <2>1, SetInduction
<1>9. NR_WP \in S
  BY <1>8
<1>10. size(NR_WP) = k
  OBVIOUS
<1>11. Prefix(s, k) = s
  BY DEF Prefix
<1> QED
  BY <1>1, <1>9, <1>10, <1>11

(* The cells of s, of k of them, are a doubly linked list that begins at w.   *)
Distinct(k, s) == \A i, j \in 1..k : s[i] = s[j] => i = j
Backed(prev, k, s) == \A i \in 1..k : prev[s[i]] = IF i = 1 THEN Null ELSE s[i - 1]
Linked(next, prev, w, k, s) ==
    /\ k \in Nat /\ s \in [1..k -> Cells] /\ Distinct(k, s)
    /\ Threaded(next, w, k, s) /\ Backed(prev, k, s)
Apart(k, s, l, t) == \A i \in 1..k, j \in 1..l : s[i] # t[j]

InFront(w, k, s) == [i \in 1..k + 1 |-> IF i = 1 THEN w ELSE s[i - 1]]
Without(j, k, s) == [i \in 1..k - 1 |-> IF i < j THEN s[i] ELSE s[i + 1]]

Pointers == [Cells -> Cells \cup {Null}]

(* Cell w is taken out from between its neighbours.                           *)
OutNext(next, prev, w) == Pool!Link(next, prev[w], next[w])
OutPrev(next, prev, w) == Pool!Link(prev, next[w], prev[w])
OutHead(next, prev, h, w) == IF prev[w] = Null THEN next[w] ELSE h

SetAt(g, f, w, v) == g \in Pointers /\ \A c \in Cells : g[c] = IF c = w THEN v ELSE f[c]

(* Link as a fact about its result, the form the other lemmas cite.           *)
LEMMA LinkIs ==
  ASSUME NEW f \in Pointers, NEW w \in Cells \cup {Null}, NEW v \in Cells \cup {Null}
  PROVE  SetAt(Pool!Link(f, w, v), f, w, v)
BY Nulls DEF Pool!Link, Pointers, SetAt

LEMMA TakenOut ==
  ASSUME NEW next \in Pointers, NEW prev \in Pointers, NEW h, NEW k, NEW s, Linked(next, prev, h, k, s),
         NEW j \in 1..k
  PROVE  LET w == s[j] IN
         /\ OutNext(next, prev, w) \in Pointers /\ OutPrev(next, prev, w) \in Pointers
         /\ Linked(OutNext(next, prev, w), OutPrev(next, prev, w), OutHead(next, prev, h, w), k - 1, Without(j, k, s))
         /\ OutHead(next, prev, h, w) \in Cells \cup {Null}
<1> DEFINE w == s[j]
           nx == OutNext(next, prev, w)
           p == OutPrev(next, prev, w)
           t == Without(j, k, s)
           g == OutHead(next, prev, h, w)
<1>1. /\ k \in Nat /\ s \in [1..k -> Cells] /\ Distinct(k, s) /\ Threaded(next, h, k, s) /\ Backed(prev, k, s)
      /\ k - 1 \in Nat
  BY DEF Linked
<1>2. next[w] \in Cells \cup {Null} /\ prev[w] \in Cells \cup {Null} /\ w \in Cells
  BY <1>1 DEF Pointers
<1>3. /\ next[w] = IF j = k THEN Null ELSE s[j + 1]
      /\ prev[w] = IF j = 1 THEN Null ELSE s[j - 1]
  BY <1>1 DEF Threaded, Backed
<1>4. /\ nx \in Pointers /\ p \in Pointers
      /\ \A c \in Cells : nx[c] = IF c = prev[w] THEN next[w] ELSE next[c]
      /\ \A c \in Cells : p[c] = IF c = next[w] THEN prev[w] ELSE prev[c]
  <2>1. SetAt(nx, next, prev[w], next[w])
    BY <1>2, LinkIs DEF OutNext
  <2>2. SetAt(p, prev, next[w], prev[w])
    BY <1>2, LinkIs DEF OutPrev
  <2> HIDE DEF w, nx, p
  <2> QED
    BY <2>1, <2>2 DEF SetAt
<1>5. t \in [1..k - 1 -> Cells] /\ \A i \in 1..k - 1 : t[i] = IF i < j THEN s[i] ELSE s[i + 1]
  BY <1>1 DEF Without
<1> HIDE DEF w, nx, p, t
<1>6. Distinct(k - 1, t)
  BY <1>1, <1>5 DEF Distinct
<1>7. \A i \in 1..k : s[i] \in Cells /\ s[i] # Null
  BY <1>1, Nulls
<1>8. Threaded(nx, g, k - 1, t)
  <2>1. g = IF k - 1 = 0 THEN Null ELSE t[1]
    <3>1. CASE j = 1
      BY <1>1, <1>3, <1>5, <3>1 DEF OutHead
    <3>2. CASE j # 1
      BY <1>1, <1>3, <1>5, <1>7, <3>2 DEF OutHead, Threaded
    <3> QED
      BY <3>1, <3>2
  <2>2. ASSUME NEW i \in 1..k - 1 PROVE nx[t[i]] = IF i = k - 1 THEN Null ELSE t[i + 1]
    <3>1. CASE i < j - 1
      <4>1. t[i] = s[i] /\ t[i + 1] = s[i + 1] /\ i # k - 1 /\ i \in 1..k /\ i + 1 \in 1..k - 1
        BY <1>1, <1>5, <3>1
      <4>2. s[i] # prev[w]
        BY <1>1, <1>3, <1>7, <3>1, <4>1 DEF Distinct
      <4>3. next[s[i]] = s[i + 1]
        BY <1>1, <3>1, <4>1 DEF Threaded
      <4> QED
        BY <1>4, <1>7, <4>1, <4>2, <4>3
    <3>2. CASE i = j - 1
      <4>1. t[i] = s[i] /\ s[i] = prev[w] /\ i \in 1..k
        BY <1>1, <1>3, <1>5, <3>2
      <4>2. nx[t[i]] = next[w]
        BY <1>4, <1>7, <4>1
      <4>3. i # k - 1 => t[i + 1] = s[j + 1] /\ j # k
        BY <1>1, <1>5, <3>2
      <4> QED
        BY <1>1, <1>3, <3>2, <4>2, <4>3
    <3>3. CASE i >= j
      <4>1. t[i] = s[i + 1] /\ i + 1 \in 1..k /\ (i # k - 1 => t[i + 1] = s[i + 2])
        BY <1>1, <1>5, <3>3
      <4>2. s[i + 1] # prev[w]
        BY <1>1, <1>3, <1>7, <3>3, <4>1 DEF Distinct
      <4>3. next[s[i + 1]] = IF i + 1 = k THEN Null ELSE s[(i + 1) + 1]
        BY <1>1, <4>1 DEF Threaded
      <4> QED
        BY <1>1, <1>4, <1>7, <4>1, <4>2, <4>3
    <3> QED
      BY <1>1, <3>1, <3>2, <3>3
  <2> HIDE DEF g
  <2> QED
    BY <2>1, <2>2 DEF Threaded
<1>9. Backed(p, k - 1, t)
  <2>1. ASSUME NEW i \in 1..k - 1 PROVE p[t[i]] = IF i = 1 THEN Null ELSE t[i - 1]
    <3>1. CASE i < j
      <4>1. t[i] = s[i] /\ (i # 1 => t[i - 1] = s[i - 1]) /\ i \in 1..k
        BY <1>1, <1>5, <3>1
      <4>2. s[i] # next[w]
        BY <1>1, <1>3, <1>7, <3>1, <4>1 DEF Distinct
      <4>3. prev[s[i]] = IF i = 1 THEN Null ELSE s[i - 1]
        BY <1>1, <4>1 DEF Backed
      <4> QED
        BY <1>4, <1>7, <4>1, <4>2, <4>3
    <3>2. CASE i = j
      <4>1. t[i] = s[i + 1] /\ s[i + 1] = next[w] /\ i + 1 \in 1..k
        BY <1>1, <1>3, <1>5, <3>2
      <4>2. p[t[i]] = prev[w]
        BY <1>4, <1>7, <4>1
      <4>3. i # 1 => t[i - 1] = s[i - 1]
        BY <1>1, <1>5, <3>2
      <4> QED
        BY <1>3, <3>2, <4>2, <4>3
    <3>3. CASE i > j
      <4>1. t[i] = s[i + 1] /\ t[i - 1] = s[i] /\ i + 1 \in 1..k /\ i # 1
        BY <1>1, <1>5, <3>3
      <4>2. s[i + 1] # next[w]
        BY <1>1, <1>3, <1>7, <3>3, <4>1 DEF Distinct
      <4>3. prev[s[i + 1]] = s[i]
        <5>1. prev[s[i + 1]] = IF i + 1 = 1 THEN Null ELSE s[(i + 1) - 1]
          BY <1>1, <4>1 DEF Backed
        <5> QED
          BY <5>1
      <4> QED
        BY <1>4, <1>7, <4>1, <4>2, <4>3
    <3> QED
      BY <1>1, <3>1, <3>2, <3>3
  <2> QED
    BY <2>1 DEF Backed
<1>10. g \in Cells \cup {Null}
  <2>1. h \in Cells \cup {Null}
    BY <1>1, <1>7 DEF Threaded
  <2> QED
    BY <1>2, <2>1 DEF OutHead
<1> QED
  BY <1>1, <1>4, <1>5, <1>6, <1>8, <1>9, <1>10 DEF Linked, w, nx, p, t

(* Cell w, of no list, is put before a list.                                  *)
InNext(next, h, w) == [next EXCEPT ![w] = h]
InPrev(prev, h, w) == Pool!Link([prev EXCEPT ![w] = Null], h, w)

LEMMA PutIn ==
  ASSUME NEW next \in Pointers, NEW prev \in Pointers, NEW h, NEW k, NEW s, Linked(next, prev, h, k, s),
         NEW w \in Cells, \A i \in 1..k : s[i] # w
  PROVE  /\ InNext(next, h, w) \in Pointers /\ InPrev(prev, h, w) \in Pointers
         /\ Linked(InNext(next, h, w), InPrev(prev, h, w), w, k + 1, InFront(w, k, s))
<1> DEFINE nx == InNext(next, h, w)
           p == InPrev(prev, h, w)
           t == InFront(w, k, s)
<1>1. /\ k \in Nat /\ s \in [1..k -> Cells] /\ Distinct(k, s) /\ Threaded(next, h, k, s) /\ Backed(prev, k, s)
      /\ k + 1 \in Nat
  BY DEF Linked
<1>7. \A i \in 1..k : s[i] \in Cells /\ s[i] # Null
  BY <1>1, Nulls
<1>2. h = (IF k = 0 THEN Null ELSE s[1]) /\ h \in Cells \cup {Null} /\ h # w
  BY <1>1, <1>7, Nulls DEF Threaded
<1>3. nx \in Pointers /\ \A c \in Cells : nx[c] = IF c = w THEN h ELSE next[c]
  BY <1>2 DEF InNext, Pointers
<1>4. p \in Pointers /\ \A c \in Cells : p[c] = IF c = h THEN w ELSE IF c = w THEN Null ELSE prev[c]
  <2> DEFINE q == [prev EXCEPT ![w] = Null]
  <2>1. q \in Pointers /\ \A c \in Cells : q[c] = IF c = w THEN Null ELSE prev[c]
    BY DEF Pointers
  <2> HIDE DEF q
  <2>2. p = Pool!Link(q, h, w)
    BY DEF InPrev, q
  <2>3. SetAt(p, q, h, w)
    BY <1>2, <2>1, <2>2, LinkIs
  <2> HIDE DEF p
  <2> QED
    BY <1>2, <2>1, <2>3 DEF SetAt
<1>5. t \in [1..k + 1 -> Cells] /\ \A i \in 1..k + 1 : t[i] = IF i = 1 THEN w ELSE s[i - 1]
  BY <1>1 DEF InFront
<1> HIDE DEF nx, p, t
<1>6. Distinct(k + 1, t)
  <2> SUFFICES ASSUME NEW i \in 1..k + 1, NEW j \in 1..k + 1, t[i] = t[j] PROVE i = j
    BY DEF Distinct
  <2>1. (i # 1 => i - 1 \in 1..k) /\ (j # 1 => j - 1 \in 1..k)
    BY <1>1
  <2> QED
    BY <1>1, <1>5, <2>1 DEF Distinct
<1>8. Threaded(nx, w, k + 1, t)
  <2>1. w = IF k + 1 = 0 THEN Null ELSE t[1]
    BY <1>1, <1>5
  <2>2. ASSUME NEW i \in 1..k + 1 PROVE nx[t[i]] = IF i = k + 1 THEN Null ELSE t[i + 1]
    <3>1. CASE i = 1
      BY <1>1, <1>2, <1>3, <1>5, <3>1
    <3>2. CASE i # 1
      <4>1. t[i] = s[i - 1] /\ (i # k + 1 => t[i + 1] = s[i]) /\ i - 1 \in 1..k
        BY <1>1, <1>5, <3>2
      <4>2. next[s[i - 1]] = IF i - 1 = k THEN Null ELSE s[(i - 1) + 1]
        BY <1>1, <4>1 DEF Threaded
      <4> QED
        BY <1>1, <1>3, <1>7, <4>1, <4>2
    <3> QED
      BY <3>1, <3>2
  <2> QED
    BY <2>1, <2>2 DEF Threaded
<1>9. Backed(p, k + 1, t)
  <2>1. ASSUME NEW i \in 1..k + 1 PROVE p[t[i]] = IF i = 1 THEN Null ELSE t[i - 1]
    <3>1. CASE i = 1
      BY <1>2, <1>4, <1>5, <3>1
    <3>2. CASE i = 2
      <4>1. t[i] = s[1] /\ t[i - 1] = w /\ h = s[1] /\ 1 \in 1..k
        BY <1>1, <1>2, <1>5, <3>2
      <4> QED
        BY <1>4, <1>7, <3>2, <4>1
    <3>3. CASE i > 2
      <4>1. t[i] = s[i - 1] /\ t[i - 1] = s[i - 2] /\ i - 1 \in 1..k /\ i - 1 # 1 /\ 1 \in 1..k
        BY <1>1, <1>5, <3>3
      <4>2. prev[s[i - 1]] = IF i - 1 = 1 THEN Null ELSE s[(i - 1) - 1]
        BY <1>1, <4>1 DEF Backed
      <4>3. s[i - 1] # h
        BY <1>1, <1>2, <4>1 DEF Distinct
      <4> QED
        BY <1>4, <1>7, <3>3, <4>1, <4>2, <4>3
    <3> QED
      BY <3>1, <3>2, <3>3
  <2> QED
    BY <2>1 DEF Backed
<1> QED
  BY <1>1, <1>3, <1>4, <1>5, <1>6, <1>8, <1>9 DEF Linked, nx, p, t

(* A list does not see pointers of other cells change.                        *)
LEMMA Untouched ==
  ASSUME NEW next, NEW prev, NEW h, NEW k, NEW s, Linked(next, prev, h, k, s), NEW nx, NEW p,
         \A i \in 1..k : nx[s[i]] = next[s[i]] /\ p[s[i]] = prev[s[i]]
  PROVE  Linked(nx, p, h, k, s)
BY DEF Linked, Threaded, Backed

Two(next, prev, h, k, s, g, l, t) ==
    /\ next \in Pointers /\ prev \in Pointers
    /\ Linked(next, prev, h, k, s) /\ Linked(next, prev, g, l, t)
    /\ Apart(k, s, l, t)

(* A cell moves from one list to the front of another (new_wp, free_wp).      *)
MoveNext(next, prev, g, w) == InNext(OutNext(next, prev, w), g, w)
MovePrev(next, prev, g, w) == InPrev(OutPrev(next, prev, w), g, w)

LEMMA Moved ==
  ASSUME NEW next, NEW prev, NEW h, NEW k, NEW s, NEW g, NEW l, NEW t,
         Two(next, prev, h, k, s, g, l, t), NEW j \in 1..k
  PROVE  Two(MoveNext(next, prev, g, s[j]), MovePrev(next, prev, g, s[j]),
             OutHead(next, prev, h, s[j]), k - 1, Without(j, k, s), s[j], l + 1, InFront(s[j], l, t))
<1> DEFINE w == s[j]
           nx == OutNext(next, prev, w)
           p == OutPrev(next, prev, w)
           nx2 == MoveNext(next, prev, g, w)
           p2 == MovePrev(next, prev, g, w)
           u == Without(j, k, s)
           v == InFront(w, l, t)
           f == OutHead(next, prev, h, w)
<1>1. /\ next \in Pointers /\ prev \in Pointers /\ Linked(next, prev, h, k, s) /\ Linked(next, prev, g, l, t)
      /\ \A a \in 1..k, b \in 1..l : s[a] # t[b]
  BY DEF Two, Apart
<1>2. /\ k \in Nat /\ l \in Nat /\ s \in [1..k -> Cells] /\ t \in [1..l -> Cells] /\ w \in Cells
      /\ Distinct(k, s) /\ k - 1 \in Nat
  BY <1>1 DEF Linked
<1>3. nx \in Pointers /\ p \in Pointers /\ Linked(nx, p, f, k - 1, u)
  BY <1>1, TakenOut
<1>4. next[w] \in Cells \cup {Null} /\ prev[w] \in Cells \cup {Null}
  BY <1>1, <1>2 DEF Pointers
<1>5. SetAt(nx, next, prev[w], next[w]) /\ SetAt(p, prev, next[w], prev[w])
  BY <1>1, <1>4, LinkIs DEF OutNext, OutPrev
<1>6. /\ next[w] = IF j = k THEN Null ELSE s[j + 1]
      /\ prev[w] = IF j = 1 THEN Null ELSE s[j - 1]
  BY <1>1, <1>2 DEF Threaded, Backed, Linked
<1>7. \A b \in 1..l : t[b] \in Cells /\ t[b] # Null /\ t[b] # w /\ t[b] # next[w] /\ t[b] # prev[w]
  <2> SUFFICES ASSUME NEW b \in 1..l PROVE t[b] \in Cells /\ t[b] # Null /\ t[b] # w /\ t[b] # next[w] /\ t[b] # prev[w]
    OBVIOUS
  <2>1. t[b] \in Cells /\ t[b] # Null
    BY <1>2, Nulls
  <2>2. (j # k => j + 1 \in 1..k) /\ (j # 1 => j - 1 \in 1..k)
    BY <1>2
  <2> QED
    BY <1>1, <1>6, <2>1, <2>2
<1> HIDE DEF w, nx, p, u
<1>8. Linked(nx, p, g, l, t)
  BY <1>1, <1>5, <1>7, Untouched DEF SetAt
<1>9. /\ nx2 \in Pointers /\ p2 \in Pointers /\ Linked(nx2, p2, w, l + 1, v)
  BY <1>2, <1>3, <1>7, <1>8, PutIn DEF MoveNext, MovePrev, nx, p
<1>10. \A i \in 1..k - 1 : u[i] \in Cells /\ u[i] # w /\ u[i] # g
  <2> SUFFICES ASSUME NEW i \in 1..k - 1 PROVE u[i] \in Cells /\ u[i] # w /\ u[i] # g
    OBVIOUS
  <2>1. PICK a \in 1..k : u[i] = s[a] /\ a # j
    <3>1. u[i] = IF i < j THEN s[i] ELSE s[i + 1]
      BY DEF u, Without
    <3> QED
      BY <1>2, <3>1
  <2>2. g = IF l = 0 THEN Null ELSE t[1]
    BY <1>1 DEF Linked, Threaded
  <2>3. u[i] \in Cells /\ u[i] # w
    BY <1>2, <2>1 DEF Distinct, w
  <2>4. u[i] # g
    BY <1>1, <1>2, <2>1, <2>2, <2>3, Nulls
  <2> QED
    BY <2>3, <2>4
<1>11. g \in Cells \cup {Null}
  BY <1>1, <1>2 DEF Linked, Threaded
<1>12. Linked(nx2, p2, f, k - 1, u)
  <2>1. \A c \in Cells : c # w => nx2[c] = nx[c]
    BY <1>3 DEF MoveNext, InNext, Pointers, nx
  <2> DEFINE q == [p EXCEPT ![w] = Null]
  <2>2. q \in Pointers /\ \A c \in Cells : c # w => q[c] = p[c]
    BY <1>3 DEF Pointers
  <2> HIDE DEF q
  <2>3. p2 = Pool!Link(q, g, w)
    BY DEF MovePrev, InPrev, q, p
  <2>4. SetAt(p2, q, g, w)
    BY <1>2, <1>11, <2>2, <2>3, LinkIs
  <2>5. \A c \in Cells : c # w /\ c # g => p2[c] = p[c]
    BY <2>2, <2>4 DEF SetAt
  <2> HIDE DEF nx2, p2, f
  <2>6. \A i \in 1..k - 1 : nx2[u[i]] = nx[u[i]] /\ p2[u[i]] = p[u[i]]
    BY <1>10, <2>1, <2>5
  <2> QED
    BY <1>3, <2>6, Untouched DEF f
<1>13. Apart(k - 1, u, l + 1, v)
  <2> SUFFICES ASSUME NEW i \in 1..k - 1, NEW b \in 1..l + 1 PROVE u[i] # v[b]
    BY DEF Apart
  <2>1. v[b] = IF b = 1 THEN w ELSE t[b - 1]
    BY <1>2 DEF InFront
  <2>2. PICK a \in 1..k : u[i] = s[a]
    <3>1. u[i] = IF i < j THEN s[i] ELSE s[i + 1]
      BY DEF u, Without
    <3> QED
      BY <1>2, <3>1
  <2>3. b # 1 => b - 1 \in 1..l
    BY <1>2
  <2> QED
    BY <1>1, <1>10, <2>1, <2>2, <2>3
<1> QED
  BY <1>9, <1>12, <1>13 DEF Two, w, u

-------------------------------------------------------------------------------
(* The fields of a pool, and the lists it holds: m watchpoints in use, each   *)
(* numbered by its place, and the other cells free.                           *)
PoolType(p) ==
    p \in [NO : [Cells -> Int], next : Pointers, prev : Pointers,
           expr : [Cells -> Exprs \cup {"none"}], old_val : [Cells -> Int \cup Words \cup Readings],
           head : Cells \cup {Null}, free : Cells \cup {Null}]

Chains(p, m, used, spare) ==
    /\ m \in 0..NR_WP
    /\ Two(p.next, p.prev, p.head, m, used, p.free, NR_WP - m, spare)

Numbering(p, m, used) == \A i \in 1..m : p.NO[used[i]] = i

LEMMA InUseIs ==
  ASSUME NEW p, NEW m, NEW used, NEW spare, Chains(p, m, used, spare)
  PROVE  Pool!InUse(p) = used
<1>1. used \in [1..m -> Cells] /\ Threaded(p.next, p.head, m, used) /\ m \in 0..NR_WP
  BY DEF Chains, Two, Linked
<1> QED
  BY <1>1, ChainIs DEF Pool!InUse

(* Renumbering gives every watchpoint in use its place.                       *)
Renumbered(q, p) ==
    q = [NO |-> q.NO, next |-> p.next, prev |-> p.prev, expr |-> p.expr, old_val |-> p.old_val,
         head |-> p.head, free |-> p.free]
LEMMA UpdateNOs ==
  ASSUME NEW p, PoolType(p), NEW m, NEW used, NEW spare, Chains(p, m, used, spare)
  PROVE  LET q == Pool!update_all_watchpoint_NOs(p) IN
         /\ PoolType(q) /\ Renumbered(q, p)
         /\ Chains(q, m, used, spare) /\ Numbering(q, m, used)
<1> DEFINE q == Pool!update_all_watchpoint_NOs(p)
           NO == [w \in Cells |-> IF \E i \in 1..m : used[i] = w
                                  THEN CHOOSE i \in 1..m : used[i] = w ELSE p.NO[w]]
<1>1. used \in [1..m -> Cells] /\ Distinct(m, used) /\ m \in Nat
  BY DEF Chains, Two, Linked
<1>2. DOMAIN used = 1..m
  BY <1>1
<1>3. q = [p EXCEPT !.NO = NO]
  BY <1>2, InUseIs, Nulls DEF Pool!update_all_watchpoint_NOs
<1>4. NO \in [Cells -> Int]
  <2>1. ASSUME NEW w \in Cells
        PROVE  (IF \E i \in 1..m : used[i] = w THEN CHOOSE i \in 1..m : used[i] = w ELSE p.NO[w]) \in Int
    <3>1. (p.NO)[w] \in Int
      BY DEF PoolType
    <3>2. (\E i \in 1..m : used[i] = w) => (CHOOSE i \in 1..m : used[i] = w) \in Int
      BY <1>1
    <3> QED
      BY <3>1, <3>2
  <2> QED
    BY <2>1
<1>5. \A i \in 1..m : NO[used[i]] = i
  BY <1>1 DEF Distinct
<1> HIDE DEF NO, q
<1>6. PoolType(q) /\ Renumbered(q, p) /\ q.NO = NO
  BY <1>3, <1>4 DEF PoolType, Renumbered
<1>7. Chains(q, m, used, spare)
  <2>1. q.next = p.next /\ q.prev = p.prev /\ q.head = p.head /\ q.free = p.free
    BY <1>3, <1>6 DEF PoolType
  <2> QED
    BY <2>1 DEF Chains
<1> QED
  BY <1>5, <1>6, <1>7 DEF Numbering, q

(* A pool as the debugger keeps it.                                           *)
Kept(p, m, used, spare) == PoolType(p) /\ Chains(p, m, used, spare) /\ Numbering(p, m, used)

(* A cell moves, and everything is numbered anew.                             *)
LEMMA NewWp ==
  ASSUME NEW p, NEW m, NEW used, NEW spare, Kept(p, m, used, spare), p.free # Null
  PROVE  LET w == p.free
             q == Pool!new_wp(p)
         IN /\ w \in Cells /\ m < NR_WP /\ \A i \in 1..m : used[i] # w
            /\ Kept(q, m + 1, InFront(w, m, used), Without(1, NR_WP - m, spare))
            /\ q.expr = p.expr /\ q.old_val = p.old_val
<1> DEFINE w == p.free
           l == NR_WP - m
           nx == MoveNext(p.next, p.prev, p.head, w)
           v == MovePrev(p.next, p.prev, p.head, w)
           r == [p EXCEPT !.free = p.next[w], !.next[w] = p.head,
                          !.prev = Pool!Link([Pool!Link(p.prev, p.next[w], Pool!Null) EXCEPT ![w] = Pool!Null], p.head, w),
                          !.head = w]
           used2 == InFront(w, m, used)
           spare2 == Without(1, l, spare)
<1>1. /\ PoolType(p) /\ m \in 0..NR_WP /\ l \in Nat
      /\ Two(p.next, p.prev, p.head, m, used, p.free, l, spare)
  BY DEF Kept, Chains
<1>2. Two(p.next, p.prev, p.free, l, spare, p.head, m, used)
  BY <1>1 DEF Two, Apart
<1>3. l \in 1..NR_WP /\ w = spare[1] /\ w \in Cells /\ 1 \in 1..l
  BY <1>1, Nulls DEF Two, Linked, Threaded
<1>4. p.prev[w] = Null
  BY <1>1, <1>3 DEF Two, Linked, Backed
<1>5. Two(nx, v, OutHead(p.next, p.prev, p.free, w), l - 1, spare2, w, m + 1, used2)
  BY <1>2, <1>3, Moved
<1>6. OutHead(p.next, p.prev, p.free, w) = p.next[w]
  BY <1>4 DEF OutHead
<1>7. nx = [p.next EXCEPT ![w] = p.head]
  BY <1>4, Nulls DEF MoveNext, InNext, OutNext, Pool!Link
<1>8. v = Pool!Link([Pool!Link(p.prev, p.next[w], Pool!Null) EXCEPT ![w] = Pool!Null], p.head, w)
  BY <1>4, Nulls DEF MovePrev, InPrev, OutPrev
<1>9. r = [p EXCEPT !.free = p.next[w], !.next = nx, !.prev = v, !.head = w]
  BY <1>1, <1>7, <1>8 DEF PoolType
<1> HIDE DEF nx, v, r, used2, spare2, l
<1>10. nx \in Pointers /\ v \in Pointers
  BY <1>5 DEF Two
<1>11. p.next[w] \in Cells \cup {Null}
  BY <1>1, <1>3 DEF PoolType, Pointers
<1>12. /\ PoolType(r) /\ r.next = nx /\ r.prev = v /\ r.head = w /\ r.free = p.next[w]
       /\ r.expr = p.expr /\ r.old_val = p.old_val
  BY <1>1, <1>3, <1>9, <1>10, <1>11 DEF PoolType
<1>13. Chains(r, m + 1, used2, spare2)
  <2>1. Two(nx, v, w, m + 1, used2, p.next[w], l - 1, spare2)
    BY <1>5, <1>6 DEF Two, Apart
  <2>2. m + 1 \in 0..NR_WP /\ NR_WP - (m + 1) = l - 1
    BY <1>1, <1>3 DEF l
  <2> QED
    BY <1>12, <2>1, <2>2 DEF Chains
<1>14. Pool!new_wp(p) = Pool!update_all_watchpoint_NOs(r)
  BY DEF Pool!new_wp, r
<1> DEFINE q == Pool!update_all_watchpoint_NOs(r)
<1>15. PoolType(q) /\ Renumbered(q, r) /\ Chains(q, m + 1, used2, spare2) /\ Numbering(q, m + 1, used2)
  BY <1>12, <1>13, UpdateNOs
<1>16. q.expr = r.expr /\ q.old_val = r.old_val
  <2> HIDE DEF q
  <2> QED
    BY <1>15 DEF Renumbered
<1>17. m < NR_WP /\ \A i \in 1..m : used[i] # w
  BY <1>1, <1>3 DEF Two, Apart, l
<1> QED
  BY <1>3, <1>12, <1>14, <1>15, <1>16, <1>17 DEF Kept, used2, spare2, l

LEMMA FreeWp ==
  ASSUME NEW p, NEW m, NEW used, NEW spare, PoolType(p), Chains(p, m, used, spare), NEW j \in 1..m
  PROVE  LET w == used[j]
             q == Pool!free_wp(p, w)
         IN /\ Kept(q, m - 1, Without(j, m, used), InFront(w, NR_WP - m, spare))
            /\ q.expr = p.expr /\ q.old_val = p.old_val
<1> DEFINE w == used[j]
           l == NR_WP - m
           nx == MoveNext(p.next, p.prev, p.free, w)
           v == MovePrev(p.next, p.prev, p.free, w)
           h == OutHead(p.next, p.prev, p.head, w)
           r == [p EXCEPT !.head = h, !.next = nx, !.prev = v, !.free = w]
           used2 == Without(j, m, used)
           spare2 == InFront(w, l, spare)
<1>1. /\ m \in 0..NR_WP /\ l \in Nat
      /\ Two(p.next, p.prev, p.head, m, used, p.free, l, spare)
  BY DEF Chains
<1>2. Two(nx, v, h, m - 1, used2, w, l + 1, spare2)
  BY <1>1, Moved
<1>3. w \in Cells /\ h \in Cells \cup {Null}
  <2>1. w \in Cells
    BY <1>1 DEF Two, Linked
  <2>2. p.next[w] \in Cells \cup {Null} /\ p.head \in Cells \cup {Null}
    BY <2>1 DEF PoolType, Pointers
  <2> QED
    BY <2>1, <2>2 DEF OutHead
<1>4. Pool!free_wp(p, w) = Pool!update_all_watchpoint_NOs(r)
  BY Nulls DEF Pool!free_wp, MoveNext, MovePrev, InNext, InPrev, OutNext, OutPrev, OutHead
<1> HIDE DEF w, nx, v, h, r, used2, spare2, l
<1>5. nx \in Pointers /\ v \in Pointers
  BY <1>2 DEF Two
<1>6. /\ PoolType(r) /\ r.next = nx /\ r.prev = v /\ r.head = h /\ r.free = w
      /\ r.expr = p.expr /\ r.old_val = p.old_val
  BY <1>3, <1>5 DEF PoolType, r
<1>7. Chains(r, m - 1, used2, spare2)
  <2>1. m - 1 \in 0..NR_WP /\ NR_WP - (m - 1) = l + 1
    BY <1>1 DEF l
  <2> QED
    BY <1>2, <1>6, <2>1 DEF Chains
<1> DEFINE q == Pool!update_all_watchpoint_NOs(r)
<1>8. PoolType(q) /\ Renumbered(q, r) /\ Chains(q, m - 1, used2, spare2) /\ Numbering(q, m - 1, used2)
  BY <1>6, <1>7, UpdateNOs
<1>9. q.expr = r.expr /\ q.old_val = r.old_val
  <2> HIDE DEF q
  <2> QED
    BY <1>8 DEF Renumbered
<1> QED
  BY <1>4, <1>6, <1>8, <1>9 DEF Kept, used2, spare2, l, w

Seen == Words \cup Readings

Listing(p, m, used) ==
    [i \in 1..m |-> [no |-> i, expr |-> p.expr[used[i]], old_val |-> p.old_val[used[i]]]]
Entry == [no : Int, expr : Exprs \cup {"none"}, old_val : Int \cup Seen]

LEMMA ListedIs ==
  ASSUME NEW p, NEW m, NEW used, NEW spare, Kept(p, m, used, spare)
  PROVE  Pool!Listed(p) = Listing(p, m, used)
<1>1. Pool!InUse(p) = used
  BY InUseIs DEF Kept
<1>2. used \in [1..m -> Cells] /\ \A i \in 1..m : p.NO[used[i]] = i
  BY DEF Kept, Chains, Two, Linked, Numbering
<1>3. DOMAIN used = 1..m
  BY <1>2
<1> QED
  BY <1>1, <1>2, <1>3 DEF Pool!Listed, Listing

LEMMA ListingType ==
  ASSUME NEW p, NEW m, NEW used, NEW spare, Kept(p, m, used, spare)
  PROVE  /\ m \in Nat /\ m <= NR_WP /\ used \in [1..m -> Cells]
         /\ Listing(p, m, used) \in [1..m -> Entry]
         /\ Listing(p, m, used) \in Seq(Entry) /\ Len(Listing(p, m, used)) = m
<1>1. used \in [1..m -> Cells] /\ m \in 0..NR_WP
  BY DEF Kept, Chains, Two, Linked
<1>2. p.expr \in [Cells -> Exprs \cup {"none"}] /\ p.old_val \in [Cells -> Int \cup Seen]
  BY DEF Kept, PoolType, Seen
<1>3. Listing(p, m, used) \in [1..m -> Entry]
  <2>1. ASSUME NEW i \in 1..m
        PROVE  [no |-> i, expr |-> p.expr[used[i]], old_val |-> p.old_val[used[i]]] \in Entry
    BY <1>1, <1>2 DEF Entry
  <2> QED
    BY <2>1 DEF Listing
<1>4. m \in Nat /\ m <= NR_WP
  BY <1>1 DEF Kept, Chains, Two, Linked
<1> HIDE DEF Listing
<1> QED
  BY <1>1, <1>3, <1>4, FunctionIsSeq

(* A step of the promised list, or none.                                      *)
Stepped(L, M) ==
    \/ M = L
    \/ \E e \in Exprs, v \in Seen :
          Len(L) < NR_WP /\ M = Watches!Numbered(<<[no |-> 1, expr |-> e, old_val |-> v]>> \o L)
    \/ \E i \in DOMAIN L : M = Watches!Numbered(Watches!RemoveAt(L, i))
    \/ \E i \in DOMAIN L, v \in Seen : v # L[i].old_val /\ M = [L EXCEPT ![i].old_val = v]

LEMMA Added ==
  ASSUME NEW p, NEW m, NEW used, NEW spare, Kept(p, m, used, spare), m < NR_WP,
         NEW w \in Cells, \A i \in 1..m : used[i] # w, NEW e \in Exprs, NEW v \in Seen,
         NEW q, q.expr = [p.expr EXCEPT ![w] = e], q.old_val = [p.old_val EXCEPT ![w] = v]
  PROVE  Stepped(Listing(p, m, used), Listing(q, m + 1, InFront(w, m, used)))
<1> DEFINE L == Listing(p, m, used)
           M == Listing(q, m + 1, InFront(w, m, used))
           r == [no |-> 1, expr |-> e, old_val |-> v]
           c == <<r>> \o L
<1>1. /\ m \in Nat /\ used \in [1..m -> Cells] /\ L \in Seq(Entry) /\ Len(L) = m
  BY ListingType
<1>2. \A i \in 1..m : L[i] = [no |-> i, expr |-> p.expr[used[i]], old_val |-> p.old_val[used[i]]]
  BY DEF Listing
<1>3. r \in Entry /\ <<r>> \in Seq(Entry) /\ Len(<<r>>) = 1 /\ <<r>>[1] = r
  BY DEF Entry
<1> HIDE DEF L
<1>4. /\ c \in Seq(Entry) /\ Len(c) = 1 + m
      /\ \A i \in 1..1 + m : c[i] = IF i <= 1 THEN <<r>>[i] ELSE L[i - 1]
  <2> HIDE DEF r
  <2> QED
    BY <1>1, <1>3, ConcatProperties
<1>5. DOMAIN c = 1..m + 1
  <2> HIDE DEF c
  <2> QED
    BY <1>1, <1>4, LenProperties
<1>6. \A i \in 1..m + 1 :
        M[i] = [no |-> i, expr |-> q.expr[InFront(w, m, used)[i]], old_val |-> q.old_val[InFront(w, m, used)[i]]]
  BY DEF Listing
<1>7. p.expr \in [Cells -> Exprs \cup {"none"}] /\ p.old_val \in [Cells -> Int \cup Seen]
  BY DEF Kept, PoolType, Seen
<1>8. \A i \in 1..m + 1 : M[i] = [c[i] EXCEPT !.no = i]
  <2> SUFFICES ASSUME NEW i \in 1..m + 1 PROVE M[i] = [c[i] EXCEPT !.no = i]
    OBVIOUS
  <2> HIDE DEF M
  <2>1. CASE i = 1
    <3>1. InFront(w, m, used)[i] = w
      BY <1>1, <2>1 DEF InFront
    <3>2. M[i] = [no |-> i, expr |-> e, old_val |-> v]
      BY <1>6, <1>7, <3>1
    <3>3. c[i] = r
      BY <1>1, <1>3, <1>4, <2>1
    <3> HIDE DEF c
    <3> QED
      BY <2>1, <3>2, <3>3
  <2>2. CASE i # 1
    <3>1. i - 1 \in 1..m
      BY <1>1, <2>2
    <3>2. InFront(w, m, used)[i] = used[i - 1]
      BY <2>2 DEF InFront
    <3>3. M[i] = [no |-> i, expr |-> p.expr[used[i - 1]], old_val |-> p.old_val[used[i - 1]]]
      BY <1>1, <1>6, <1>7, <3>1, <3>2
    <3>4. c[i] = [no |-> i - 1, expr |-> p.expr[used[i - 1]], old_val |-> p.old_val[used[i - 1]]]
      BY <1>1, <1>2, <1>4, <2>2, <3>1
    <3> HIDE DEF c
    <3> QED
      BY <3>3, <3>4
  <2> QED
    BY <2>1, <2>2
<1>9. M = [i \in 1..m + 1 |-> [c[i] EXCEPT !.no = i]]
  <2> HIDE DEF c
  <2>1. M = [i \in 1..m + 1 |-> M[i]]
    BY DEF Listing
  <2> HIDE DEF M
  <2> QED
    BY <1>8, <2>1
<1>10. M = Watches!Numbered(c)
  <2> HIDE DEF c, M
  <2> QED
    BY <1>5, <1>9 DEF Watches!Numbered
<1>11. Len(L) < NR_WP
  BY <1>1
<1> HIDE DEF M
<1> QED
  BY <1>10, <1>11 DEF Stepped, L, M

LEMMA Deleted ==
  ASSUME NEW p, NEW m, NEW used, NEW spare, Kept(p, m, used, spare), NEW j \in 1..m,
         NEW q, q.expr = p.expr, q.old_val = p.old_val
  PROVE  Stepped(Listing(p, m, used), Listing(q, m - 1, Without(j, m, used)))
<1> DEFINE L == Listing(p, m, used)
           M == Listing(q, m - 1, Without(j, m, used))
           a == SubSeq(L, 1, j - 1)
           b == SubSeq(L, j + 1, m)
           c == a \o b
<1>1. /\ m \in Nat /\ used \in [1..m -> Cells] /\ L \in [1..m -> Entry] /\ L \in Seq(Entry) /\ Len(L) = m
  BY ListingType
<1>2. \A i \in 1..m : L[i] = [no |-> i, expr |-> p.expr[used[i]], old_val |-> p.old_val[used[i]]]
  BY DEF Listing
<1> HIDE DEF L
<1>3. a \in Seq(Entry) /\ Len(a) = j - 1 /\ \A i \in 1..j - 1 : a[i] = L[i]
  <2>1. \A i \in 1..j - 1 : L[i] \in Entry
    BY <1>1
  <2>2. /\ a \in Seq(Entry)
        /\ Len(a) = IF 1 <= j - 1 THEN (j - 1) - 1 + 1 ELSE 0
        /\ \A i \in 1..(j - 1) - 1 + 1 : a[i] = L[1 + i - 1]
    BY <2>1, SubSeqProperties
  <2> HIDE DEF a
  <2>3. \A i \in 1..j - 1 : a[i] = L[i]
    <3> TAKE i \in 1..j - 1
    <3>1. 1 + i - 1 = i /\ i \in 1..(j - 1) - 1 + 1
      OBVIOUS
    <3> QED
      BY <2>2, <3>1
  <2> QED
    BY <2>2, <2>3
<1>4. b \in Seq(Entry) /\ Len(b) = m - j /\ \A i \in 1..m - j : b[i] = L[j + i]
  <2>1. \A i \in j + 1..m : L[i] \in Entry
    BY <1>1
  <2>2. /\ b \in Seq(Entry)
        /\ Len(b) = IF j + 1 <= m THEN m - (j + 1) + 1 ELSE 0
        /\ \A i \in 1..m - (j + 1) + 1 : b[i] = L[(j + 1) + i - 1]
    BY <1>1, <2>1, SubSeqProperties
  <2> HIDE DEF b
  <2>3. \A i \in 1..m - j : b[i] = L[j + i]
    <3> TAKE i \in 1..m - j
    <3>1. (j + 1) + i - 1 = j + i /\ i \in 1..m - (j + 1) + 1
      BY <1>1
    <3> QED
      BY <2>2, <3>1
  <2> QED
    BY <1>1, <2>2, <2>3
<1>5. c = Watches!RemoveAt(L, j)
  BY <1>1 DEF Watches!RemoveAt
<1> HIDE DEF a, b
<1>6. /\ c \in Seq(Entry) /\ Len(c) = m - 1
      /\ \A i \in 1..m - 1 : c[i] = IF i < j THEN L[i] ELSE L[i + 1]
  <2>1. /\ c \in Seq(Entry) /\ Len(c) = Len(a) + Len(b)
        /\ \A i \in 1..Len(a) + Len(b) : c[i] = IF i <= Len(a) THEN a[i] ELSE b[i - Len(a)]
    BY <1>3, <1>4, ConcatProperties
  <2> HIDE DEF c
  <2>2. Len(c) = m - 1 /\ \A i \in 1..m - 1 : c[i] = IF i <= j - 1 THEN a[i] ELSE b[i - (j - 1)]
    BY <1>1, <1>3, <1>4, <2>1
  <2>3. \A i \in 1..m - 1 : c[i] = IF i < j THEN L[i] ELSE L[i + 1]
    <3> TAKE i \in 1..m - 1
    <3>1. CASE i < j
      <4>1. i \in 1..j - 1
        BY <3>1
      <4> QED
        BY <1>3, <2>2, <4>1
    <3>2. CASE ~(i < j)
      <4>1. i - (j - 1) \in 1..m - j /\ j + (i - (j - 1)) = i + 1 /\ ~(i <= j - 1)
        BY <1>1, <3>2
      <4> QED
        BY <1>4, <2>2, <3>2, <4>1
    <3> QED
      BY <3>1, <3>2
  <2> QED
    BY <2>1, <2>2, <2>3
<1> HIDE DEF c
<1>7. DOMAIN c = 1..m - 1
  BY <1>6, LenProperties
<1>8. \A i \in 1..m - 1 : M[i] = [c[i] EXCEPT !.no = i]
  <2> SUFFICES ASSUME NEW i \in 1..m - 1 PROVE M[i] = [c[i] EXCEPT !.no = i]
    OBVIOUS
  <2> DEFINE h == IF i < j THEN i ELSE i + 1
  <2>1. h \in 1..m /\ Without(j, m, used)[i] = used[h] /\ c[i] = L[h]
    BY <1>1, <1>6 DEF Without
  <2>2. M[i] = [no |-> i, expr |-> q.expr[Without(j, m, used)[i]], old_val |-> q.old_val[Without(j, m, used)[i]]]
    BY DEF Listing
  <2> HIDE DEF h, M
  <2>3. c[i] = [no |-> h, expr |-> p.expr[used[h]], old_val |-> p.old_val[used[h]]]
    BY <1>2, <2>1
  <2> QED
    BY <2>1, <2>2, <2>3
<1>9. M = [i \in 1..m - 1 |-> M[i]]
  BY DEF Listing
<1> HIDE DEF M
<1>10. M = Watches!Numbered(c)
  BY <1>7, <1>8, <1>9 DEF Watches!Numbered
<1>11. j \in DOMAIN L
  BY <1>1
<1> QED
  BY <1>5, <1>10, <1>11 DEF Stepped, L, M

LEMMA Shown ==
  ASSUME NEW p, NEW m, NEW used, NEW spare, Kept(p, m, used, spare), NEW j \in 1..m,
         NEW v \in Seen, v # p.old_val[used[j]],
         NEW q, q.expr = p.expr, q.old_val = [p.old_val EXCEPT ![used[j]] = v]
  PROVE  Stepped(Listing(p, m, used), Listing(q, m, used))
<1> DEFINE L == Listing(p, m, used)
           M == Listing(q, m, used)
<1>1. m \in Nat /\ used \in [1..m -> Cells] /\ L \in [1..m -> Entry]
  BY ListingType
<1>2. Distinct(m, used) /\ p.old_val \in [Cells -> Int \cup Seen]
  BY DEF Kept, Chains, Two, Linked, PoolType, Seen
<1>3. \A i \in 1..m : L[i] = [no |-> i, expr |-> p.expr[used[i]], old_val |-> p.old_val[used[i]]]
  BY DEF Listing
<1>4. M = [i \in 1..m |-> M[i]] /\ L = [i \in 1..m |-> L[i]]
  BY DEF Listing
<1>5. \A i \in 1..m : M[i] = [no |-> i, expr |-> p.expr[used[i]], old_val |-> q.old_val[used[i]]]
  BY DEF Listing
<1> HIDE DEF L, M
<1>6. \A i \in 1..m : M[i] = IF i = j THEN [L[j] EXCEPT !.old_val = v] ELSE L[i]
  <2> TAKE i \in 1..m
  <2>1. q.old_val[used[i]] = IF i = j THEN v ELSE p.old_val[used[i]]
    BY <1>1, <1>2 DEF Distinct
  <2>2. CASE i = j
    <3>1. M[i] = [no |-> j, expr |-> p.expr[used[j]], old_val |-> v]
      BY <1>5, <2>1, <2>2
    <3>2. L[j] = [no |-> j, expr |-> p.expr[used[j]], old_val |-> p.old_val[used[j]]]
      BY <1>3
    <3> QED
      BY <2>2, <3>1, <3>2
  <2>3. CASE i # j
    BY <1>3, <1>5, <2>1, <2>3
  <2> QED
    BY <2>2, <2>3
<1>7. M = [L EXCEPT ![j].old_val = v]
  BY <1>1, <1>4, <1>6
<1>8. j \in DOMAIN L /\ v # L[j].old_val
  BY <1>1, <1>3
<1> QED
  BY <1>7, <1>8 DEF Stepped, L, M

KeptPool(p) == \E m \in 0..NR_WP : \E used \in [1..m -> Cells], spare \in [1..NR_WP - m -> Cells] :
                  Kept(p, m, used, spare)

LEMMA KeptPoolIs ==
  ASSUME NEW p, NEW m, NEW used, NEW spare, Kept(p, m, used, spare)
  PROVE  KeptPool(p)
BY DEF KeptPool, Kept, Chains, Two, Linked

LEMMA SameLinks ==
  ASSUME NEW p, NEW m, NEW used, NEW spare, Kept(p, m, used, spare), NEW q, PoolType(q),
         q.NO = p.NO, q.next = p.next, q.prev = p.prev, q.head = p.head, q.free = p.free
  PROVE  Kept(q, m, used, spare)
BY DEF Kept, Chains, Numbering

LEMMA InitPool ==
  KeptPool(Pool!init_wp_pool) /\ Pool!Listed(Pool!init_wp_pool) = <<>>
<1> DEFINE p == Pool!init_wp_pool
           used == [i \in 1..0 |-> 0]
           spare == [i \in 1..NR_WP |-> i - 1]
<1>1. p = [NO      |-> [w \in Cells |-> w],
           next    |-> [w \in Cells |-> IF w = NR_WP - 1 THEN Null ELSE w + 1],
           prev    |-> [w \in Cells |-> w - 1],
           expr    |-> [w \in Cells |-> "none"],
           old_val |-> [w \in Cells |-> 0],
           head    |-> Null,
           free    |-> 0]
  BY Nulls DEF Pool!init_wp_pool
<1> HIDE DEF p
<1>2. 0 \in Cells /\ \A w \in Cells : w \in Int /\ (w # NR_WP - 1 => w + 1 \in Cells) /\ w - 1 \in Cells \cup {Null}
  BY DEF Cells, Null, Pool!Cells, Pool!Null
<1>3. PoolType(p)
  <2>1. p.NO \in [Cells -> Int] /\ p.next \in Pointers /\ p.prev \in Pointers
    BY <1>1, <1>2 DEF Pointers
  <2>2. p.expr \in [Cells -> Exprs \cup {"none"}] /\ p.old_val \in [Cells -> Int \cup Words \cup Readings]
    BY <1>1
  <2> QED
    BY <1>1, <1>2, <2>1, <2>2 DEF PoolType
<1>4. Linked(p.next, p.prev, p.head, 0, used)
  BY <1>1 DEF Linked, Distinct, Threaded, Backed
<1>5. spare \in [1..NR_WP -> Cells] /\ \A i \in 1..NR_WP : spare[i] = i - 1
  BY DEF Cells, Pool!Cells
<1> HIDE DEF spare
<1>6. Linked(p.next, p.prev, p.free, NR_WP, spare)
  <2>1. \A i \in 1..NR_WP : p.next[spare[i]] = IF i = NR_WP THEN Null ELSE spare[i + 1]
    <3> TAKE i \in 1..NR_WP
    <3>1. i - 1 \in Cells /\ spare[i] = i - 1
      BY <1>5
    <3>2. p.next[i - 1] = IF i - 1 = NR_WP - 1 THEN Null ELSE (i - 1) + 1
      BY <1>1, <3>1
    <3> QED
      BY <1>5, <3>1, <3>2
  <2>2. \A i \in 1..NR_WP : p.prev[spare[i]] = IF i = 1 THEN Null ELSE spare[i - 1]
    <3> TAKE i \in 1..NR_WP
    <3>1. i - 1 \in Cells /\ spare[i] = i - 1
      BY <1>5
    <3>2. p.prev[i - 1] = (i - 1) - 1
      BY <1>1, <3>1
    <3>3. CASE i = 1
      BY <3>1, <3>2, <3>3, Nulls
    <3>4. CASE i # 1
      BY <1>5, <3>1, <3>2, <3>4
    <3> QED
      BY <3>3, <3>4
  <2>3. Distinct(NR_WP, spare)
    BY <1>5 DEF Distinct
  <2>4. p.free = spare[1]
    BY <1>1, <1>5
  <2> QED
    BY <1>5, <2>1, <2>2, <2>3, <2>4 DEF Linked, Threaded, Backed
<1>7. Kept(p, 0, used, spare)
  <2>1. Two(p.next, p.prev, p.head, 0, used, p.free, NR_WP, spare)
    BY <1>3, <1>4, <1>6 DEF Two, Apart, PoolType
  <2> HIDE DEF used
  <2>2. NR_WP - 0 = NR_WP /\ 0 \in 0..NR_WP
    OBVIOUS
  <2> QED
    BY <1>3, <2>1, <2>2 DEF Kept, Chains, Numbering
<1>8. KeptPool(p)
  <2> HIDE DEF used
  <2> QED
    BY <1>7, KeptPoolIs
<1>9. Pool!Listed(p) = Listing(p, 0, used)
  <2> HIDE DEF used
  <2> QED
    BY <1>7, ListedIs
<1>10. Listing(p, 0, used) = <<>>
  BY DEF Listing
<1> QED
  BY <1>8, <1>9, <1>10 DEF p

(* The commands of the debugger on its list.                                  *)
LEMMA Sets ==
  ASSUME NEW p, KeptPool(p), NEW e \in Exprs, NEW v1, NEW v2, v1 = -1 \/ v2 \in Seen
  PROVE  LET q == Pool!cmd_w(p, e, <<v1, v2>>) IN KeptPool(q) /\ Stepped(Pool!Listed(p), Pool!Listed(q))
<1> DEFINE w == p.free
           taken == [Pool!new_wp(p) EXCEPT !.expr[w] = e]
           q == Pool!cmd_w(p, e, <<v1, v2>>)
<1>1. PICK m, used, spare : Kept(p, m, used, spare)
  BY DEF KeptPool
<1>2. CASE p.free = Null
  <2>1. q = p
    BY <1>2, Nulls DEF Pool!cmd_w
  <2> HIDE DEF q
  <2> QED
    BY <2>1 DEF Stepped, q
<1>3. CASE p.free # Null
  <2> DEFINE nx == Pool!new_wp(p)
             used2 == InFront(w, m, used)
             spare2 == Without(1, NR_WP - m, spare)
  <2>1. /\ w \in Cells /\ m < NR_WP /\ \A i \in 1..m : used[i] # w
        /\ Kept(nx, m + 1, used2, spare2)
        /\ nx.expr = p.expr /\ nx.old_val = p.old_val
    BY <1>1, <1>3, NewWp
  <2> HIDE DEF nx
  <2>2. q = IF v1 = -1 THEN Pool!free_wp(taken, w) ELSE [taken EXCEPT !.old_val[w] = v2]
    <3>1. <<v1, v2>>[1] = v1 /\ <<v1, v2>>[2] = v2
      OBVIOUS
    <3>2. q = LET val == <<v1, v2>> IN IF val[1] = -1 THEN Pool!free_wp(taken, w) ELSE [taken EXCEPT !.old_val[w] = val[2]]
      BY <1>3, Nulls DEF Pool!cmd_w
    <3> HIDE DEF q, taken
    <3> QED
      BY <3>1, <3>2
  <2>3. PoolType(nx)
    BY <2>1 DEF Kept
  <2>4. /\ PoolType(taken) /\ taken.expr = [p.expr EXCEPT ![w] = e] /\ taken.old_val = p.old_val
        /\ taken.NO = nx.NO /\ taken.next = nx.next /\ taken.prev = nx.prev
        /\ taken.head = nx.head /\ taken.free = nx.free
    BY <2>1, <2>3 DEF PoolType, nx
  <2> HIDE DEF taken, q, used2, spare2
  <2>5. Kept(taken, m + 1, used2, spare2)
    BY <2>1, <2>4, SameLinks
  <2>6. p.expr \in [Cells -> Exprs \cup {"none"}] /\ p.old_val \in [Cells -> Int \cup Seen]
    BY <1>1 DEF Kept, PoolType, Seen
  <2>7. m \in Nat /\ used \in [1..m -> Cells]
    BY <1>1, ListingType
  <2>8. Pool!Listed(p) = Listing(p, m, used)
    BY <1>1, ListedIs
  <2>9. CASE v1 # -1
    <3>1. q = [taken EXCEPT !.old_val[w] = v2] /\ v2 \in Seen
      BY <2>2, <2>9
    <3>2. /\ PoolType(q) /\ q.expr = taken.expr /\ q.old_val = [p.old_val EXCEPT ![w] = v2]
          /\ q.NO = taken.NO /\ q.next = taken.next /\ q.prev = taken.prev
          /\ q.head = taken.head /\ q.free = taken.free
      BY <2>1, <2>4, <3>1 DEF PoolType, Seen
    <3>3. Kept(q, m + 1, used2, spare2)
      BY <2>5, <3>2, SameLinks
    <3>4. KeptPool(q) /\ Pool!Listed(q) = Listing(q, m + 1, used2)
      BY <3>3, KeptPoolIs, ListedIs
    <3>5. Stepped(Listing(p, m, used), Listing(q, m + 1, used2))
      <4>1. q.expr = [p.expr EXCEPT ![w] = e] /\ q.old_val = [p.old_val EXCEPT ![w] = v2]
        BY <2>4, <3>2
      <4> HIDE DEF w
      <4> QED
        BY <1>1, <2>1, <3>1, <4>1, Added DEF used2
    <3> QED
      BY <2>8, <3>4, <3>5 DEF q
  <2>10. CASE v1 = -1
    <3>1. q = Pool!free_wp(taken, w)
      BY <2>2, <2>10
    <3>2. 1 \in 1..m + 1 /\ used2[1] = w /\ PoolType(taken) /\ Chains(taken, m + 1, used2, spare2) /\ (m + 1) - 1 = m
      BY <2>4, <2>5, <2>7 DEF used2, InFront, Kept
    <3> DEFINE used3 == Without(1, m + 1, used2)
               spare3 == InFront(w, NR_WP - (m + 1), spare2)
    <3>3. Kept(q, (m + 1) - 1, used3, spare3) /\ q.expr = taken.expr /\ q.old_val = taken.old_val
      BY <3>1, <3>2, FreeWp
    <3>4. used3 = used
      <4>1. used3 = [i \in 1..m |-> IF i < 1 THEN used2[i] ELSE used2[i + 1]]
        BY <3>2 DEF Without
      <4>2. \A i \in 1..m : used2[i + 1] = used[i]
        BY <2>7 DEF used2, InFront
      <4> HIDE DEF used3
      <4> QED
        BY <2>7, <4>1, <4>2
    <3> HIDE DEF used3, spare3
    <3>5. Kept(q, m, used, spare3)
      BY <3>2, <3>3, <3>4
    <3>6. KeptPool(q) /\ Pool!Listed(q) = Listing(q, m, used)
      BY <3>5, KeptPoolIs, ListedIs
    <3>7. \A i \in 1..m : q.expr[used[i]] = p.expr[used[i]] /\ q.old_val[used[i]] = p.old_val[used[i]]
      BY <2>1, <2>4, <2>6, <2>7, <3>3
    <3>8. Listing(q, m, used) = Listing(p, m, used)
      BY <3>7 DEF Listing
    <3> QED
      BY <2>8, <3>6, <3>8 DEF Stepped, q
  <2> QED
    BY <2>9, <2>10
<1> QED
  BY <1>2, <1>3

LEMMA Deletes ==
  ASSUME NEW p, KeptPool(p), NEW no
  PROVE  LET q == Pool!cmd_d(p, no) IN KeptPool(q) /\ Stepped(Pool!Listed(p), Pool!Listed(q))
<1> DEFINE q == Pool!cmd_d(p, no)
           hits == {i \in DOMAIN Pool!InUse(p) : p.NO[Pool!InUse(p)[i]] = no}
<1>1. PICK m, used, spare : Kept(p, m, used, spare)
  BY DEF KeptPool
<1>2. Pool!InUse(p) = used /\ DOMAIN used = 1..m /\ \A i \in 1..m : p.NO[used[i]] = i
  BY <1>1, InUseIs DEF Kept, Numbering, Chains, Two, Linked
<1>3. hits = {i \in 1..m : i = no}
  BY <1>2
<1>4. q = IF hits = {} THEN p
          ELSE Pool!free_wp(p, used[CHOOSE i \in hits : \A j \in hits : i <= j])
  BY <1>2 DEF Pool!cmd_d
<1> HIDE DEF q, hits
<1>5. CASE no \notin 1..m
  <2>1. q = p
    BY <1>3, <1>4, <1>5
  <2> QED
    BY <2>1 DEF Stepped, q
<1>6. CASE no \in 1..m
  <2>1. hits = {no} /\ m \in Nat
    BY <1>1, <1>3, <1>6, ListingType
  <2>2. (CHOOSE i \in hits : \A j \in hits : i <= j) = no
    BY <1>6, <2>1
  <2>3. q = Pool!free_wp(p, used[no])
    BY <1>4, <2>1, <2>2
  <2>4. PoolType(p) /\ Chains(p, m, used, spare)
    BY <1>1 DEF Kept
  <2> DEFINE used2 == Without(no, m, used)
             spare2 == InFront(used[no], NR_WP - m, spare)
  <2>5. Kept(q, m - 1, used2, spare2) /\ q.expr = p.expr /\ q.old_val = p.old_val
    BY <1>6, <2>3, <2>4, FreeWp
  <2> HIDE DEF spare2
  <2>6. Stepped(Listing(p, m, used), Listing(q, m - 1, used2))
    BY <1>1, <1>6, <2>5, Deleted
  <2> HIDE DEF used2
  <2>7. KeptPool(q) /\ Pool!Listed(q) = Listing(q, m - 1, used2)
    BY <2>5, KeptPoolIs, ListedIs
  <2>8. Pool!Listed(p) = Listing(p, m, used)
    BY <1>1, ListedIs
  <2> QED
    BY <2>6, <2>7, <2>8 DEF q
<1> QED
  BY <1>5, <1>6

LEMMA Least ==
  ASSUME NEW m \in Nat, NEW S \in SUBSET (1..m), S # {}
  PROVE  (CHOOSE i \in S : \A j \in S : i <= j) \in S
<1>1. S \in SUBSET Nat
  OBVIOUS
<1>2. \E x \in S : \A y \in S : <<y, x>> \notin OpToRel(<, Nat)
  BY <1>1, NatLessThanWellFounded, WFMin
<1>3. PICK x \in S : \A y \in S : ~(y < x)
  BY <1>1, <1>2 DEF OpToRel
<1>4. \A y \in S : x <= y
  BY <1>1, <1>3
<1> QED
  BY <1>4

WatchInv == dut.x \in Words /\ KeptPool(pool)

(* What the loop over the watchpoints does: nothing, when no expression has   *)
(* changed, or show the first that has.                                       *)
LEMMA Checks ==
  ASSUME WatchInv, NEW read \in Readable, check_watchpoints(read)
  PROVE  /\ KeptPool(pool') /\ Stepped(Pool!Listed(pool), Pool!Listed(pool'))
         /\ pool' = pool => Changed(read) = {}
<1> DEFINE q == pool'
           f == First(read)
<1>1. PICK m, used, spare : Kept(pool, m, used, spare)
  BY DEF WatchInv, KeptPool
<1>2. /\ m \in Nat /\ used \in [1..m -> Cells] /\ List = used /\ DOMAIN used = 1..m
  <2>1. m \in Nat /\ used \in [1..m -> Cells]
    BY <1>1, ListingType
  <2>2. Pool!InUse(pool) = used
    BY <1>1, InUseIs DEF Kept
  <2>3. List = used
    BY <2>2, Zenon DEF List
  <2> QED
    BY <2>1, <2>3
<1>3. Changed(read) = {i \in 1..m : read[used[i]] # pool.old_val[used[i]]}
  BY <1>2 DEF Changed
<1>4. CASE Changed(read) = {}
  BY <1>4 DEF check_watchpoints, WatchInv, Stepped
<1>5. CASE Changed(read) # {}
  <2>1. f \in Changed(read)
    <3>1. f = CHOOSE i \in Changed(read) : \A j \in Changed(read) : i <= j
      BY <1>5 DEF First
    <3>2. Changed(read) \in SUBSET (1..m)
      BY <1>3
    <3> HIDE DEF f
    <3> QED
      BY <1>2, <1>5, <3>1, <3>2, Least
  <2>2. q = [pool EXCEPT !.old_val[used[f]] = read[used[f]]]
    BY <1>2, <1>5 DEF check_watchpoints
  <2> HIDE DEF f, q
  <2> DEFINE v == read[used[f]]
             w == used[f]
  <2>3. f \in 1..m /\ w \in Cells /\ v # pool.old_val[w]
    BY <1>2, <1>3, <2>1
  <2>4. v \in Seen
    BY <2>3 DEF Readable, WatchInv, Seen, Cells
  <2>5. PoolType(pool)
    BY <1>1 DEF Kept
  <2> HIDE DEF v, w
  <2>6. q = [pool EXCEPT !.old_val[w] = v]
    BY <2>2 DEF v, w
  <2>7. /\ PoolType(q) /\ q.expr = pool.expr /\ q.old_val = [pool.old_val EXCEPT ![w] = v]
        /\ q.NO = pool.NO /\ q.next = pool.next /\ q.prev = pool.prev
        /\ q.head = pool.head /\ q.free = pool.free
    BY <2>3, <2>4, <2>5, <2>6 DEF PoolType, Seen
  <2>8. Kept(q, m, used, spare)
    BY <1>1, <2>7, SameLinks
  <2>9. KeptPool(q) /\ Pool!Listed(q) = Listing(q, m, used) /\ Pool!Listed(pool) = Listing(pool, m, used)
    BY <1>1, <2>8, KeptPoolIs, ListedIs
  <2>10. Stepped(Listing(pool, m, used), Listing(q, m, used))
    BY <1>1, <2>3, <2>4, <2>7, Shown DEF w
  <2>11. q # pool
    <3>1. q.old_val[w] = v
      BY <2>3, <2>5, <2>7 DEF PoolType
    <3> QED
      BY <2>3, <3>1
  <2> QED
    BY <2>9, <2>10, <2>11 DEF q
<1> QED
  BY <1>4, <1>5

LEMMA WatchInit == Init => WatchInv /\ Watches!Init
<1> SUFFICES ASSUME Init PROVE WatchInv /\ Watches!Init
  OBVIOUS
<1>1. dut.x \in Words
  BY ProgramAssumption DEF Init, init_difftest
<1>2. pool = Pool!init_wp_pool
  BY DEF Init
<1> QED
  BY <1>1, <1>2, InitPool DEF WatchInv, Watches!Init

(* Every step leaves the list as it is or does one of the steps promised.     *)
LEMMA WatchNext ==
  ASSUME WatchInv, [Next]_vars
  PROVE  WatchInv' /\ Stepped(Pool!Listed(pool), Pool!Listed(pool'))
<1> DEFINE L == Pool!Listed(pool)
           M == Pool!Listed(pool')
<1>1. dut'.x \in Words
  <2>1. UNCHANGED diff_vars \/ DebuggerReads \/ (\E again : Compare(again)) => dut' = dut
    BY DEF diff_vars, DebuggerReads, Compare
  <2>2. CASE single_cycle
    <3>1. PICK d : Cycle(d) \/ BreakCycle(d)
      BY <2>2 DEF single_cycle
    <3>2. dut' = dut \/ \E y \in Words : dut' = [pc |-> Follow[dut.pc], x |-> y]
      BY <3>1 DEF Cycle, BreakCycle, RetiresOne, RetiresNothing, Retires
    <3> QED
      BY <3>2 DEF WatchInv
  <2>3. CASE trace_and_difftest
    <3>1. \E again : Compare(again)
      BY <2>3 DEF trace_and_difftest
    <3> QED
      BY <2>1, <3>1 DEF WatchInv
  <2>4. ASSUME NEW e, cmd_w(e) PROVE UNCHANGED diff_vars \/ DebuggerReads
    BY <2>4, Zenon DEF cmd_w
  <2>5. ASSUME NEW addr, NEW words, cmd_x(addr, words) PROVE UNCHANGED diff_vars \/ DebuggerReads
    BY <2>5, Zenon DEF cmd_x
  <2>6. ~single_cycle /\ ~trace_and_difftest => UNCHANGED diff_vars \/ DebuggerReads
    BY <2>4, <2>5, Zenon DEF Next, vars, cpu_exec, cmd_q, EndOfInput, cmd_d, Over
  <2> QED
    BY <2>1, <2>2, <2>3, <2>6 DEF WatchInv
<1>2. CASE pool' = pool
  BY <1>1, <1>2 DEF WatchInv, Stepped
<1>3. CASE trace_and_difftest
  <2>1. PICK read \in Readable : check_watchpoints(read)
    BY <1>3 DEF trace_and_difftest
  <2> QED
    BY <1>1, <2>1, Checks DEF WatchInv
<1>4. ASSUME NEW e \in Exprs, cmd_w(e) PROVE WatchInv' /\ Stepped(L, M)
  <2>1. PICK v1 \in Values(e), v2 \in Values(e) : pool' = Pool!cmd_w(pool, e, <<v1, v2>>)
    BY <1>4 DEF cmd_w
  <2>2. v1 = -1 \/ v2 \in Seen
    BY <2>1 DEF Values, Seen, WatchInv
  <2> QED
    BY <1>1, <2>1, <2>2, Sets DEF WatchInv
<1>5. ASSUME NEW no, cmd_d(no) PROVE WatchInv' /\ Stepped(L, M)
  <2>1. pool' = Pool!cmd_d(pool, no)
    BY <1>5 DEF cmd_d
  <2> QED
    BY <1>1, <2>1, Deletes DEF WatchInv
<1>6. \/ pool' = pool \/ trace_and_difftest \/ \E e \in Exprs : cmd_w(e)
      \/ \E no : cmd_d(no)
  BY Zenon DEF Next, vars, cpu_exec, cmd_q, EndOfInput, cmd_x, single_cycle, Over
<1> QED
  BY <1>2, <1>3, <1>4, <1>5, <1>6

LEMMA SteppedIsNext ==
  ASSUME Stepped(Pool!Listed(pool), Pool!Listed(pool'))
  PROVE  [Watches!Next]_(Pool!Listed(pool))
BY DEF Stepped, Watches!Next, Watches!Add, Watches!Delete, Watches!See, Seen

(* The linked cells are the promised list, for every number of cells and over *)
(* any order of setting, deleting and changing (new_wp, free_wp and           *)
(* update_all_watchpoint_NOs of watchpoint.cpp, cmd_w and cmd_d of sdb.cpp,   *)
(* the loop over the watchpoints in trace_and_difftest of cpu.cpp).           *)
THEOREM SpecPoolIsList ==
  Spec => PoolIsList
<1>1. Init => WatchInv /\ Watches!Init
  BY WatchInit
<1>2. WatchInv /\ [Next]_vars => WatchInv' /\ [Watches!Next]_(Pool!Listed(pool))
  BY WatchNext, SteppedIsNext
<1> QED
  BY <1>1, <1>2, PTL DEF Spec, PoolIsList, Watches!Spec

NoneMissed(p, x) ==
    \A i \in DOMAIN Pool!InUse(p) : p.expr[Pool!InUse(p)[i]] = "x" => p.old_val[Pool!InUse(p)[i]] = x

LEMMA MissedIs ==
  NoChangeMissed <=> (at = "cycle" /\ npc_state \in {"RUNNING", "ABORT"} => NoneMissed(pool, dut.x))
BY DEF NoChangeMissed, NoneMissed, List

(* The program never runs on over a change of a watched register: after the   *)
(* loop of trace_and_difftest it has stopped, or every watchpoint in use,     *)
(* all of them and not the head only, has the value of the register.          *)
THEOREM SpecNoChangeMissed ==
  Spec => []NoChangeMissed
<1> DEFINE None == at = "cycle" /\ npc_state \in {"RUNNING", "ABORT"} => NoneMissed(pool, dut.x)
<1>1. Init => WatchInv /\ None
  BY WatchInit DEF Init
<1>2. ASSUME WatchInv, None, [Next]_vars PROVE None'
  <2>1. CASE trace_and_difftest
    <3>1. PICK read \in Readable :
            /\ Compare(TouchesDevice(read)) /\ check_watchpoints(read)
            /\ npc_state' = IF pool' # pool THEN "STOP" ELSE IF Mismatch THEN "ABORT" ELSE npc_state
      BY <2>1 DEF trace_and_difftest
    <3>2. CASE pool' # pool
      BY <3>1, <3>2
    <3>3. CASE pool' = pool
      <4>1. Changed(read) = {}
        BY <1>2, <3>1, <3>3, Checks
      <4>2. PICK m, used, spare : Kept(pool, m, used, spare)
        BY <1>2 DEF WatchInv, KeptPool
      <4>3. m \in Nat /\ used \in [1..m -> Cells]
        BY <4>2, ListingType
      <4>4. List = used /\ Pool!InUse(pool) = used /\ DOMAIN used = 1..m
        <5>2. Pool!InUse(pool) = used
          BY <4>2, InUseIs DEF Kept
        <5>3. List = used
          BY <5>2, Zenon DEF List
        <5> QED
          BY <4>3, <5>2, <5>3
      <4>5. ASSUME NEW i \in 1..m, pool.expr[used[i]] = "x" PROVE pool.old_val[used[i]] = dut.x
        <5>1. read[used[i]] = pool.old_val[used[i]]
          BY <4>1, <4>4 DEF Changed
        <5>2. used[i] \in Pool!Cells
          BY <4>3 DEF Cells
        <5>3. read[used[i]] \in Values("x")
          BY <4>4, <4>5, <5>2 DEF Readable
        <5> QED
          BY <5>1, <5>3 DEF Values
      <4>6. NoneMissed(pool, dut.x)
        BY <4>4, <4>5 DEF NoneMissed
      <4>7. dut' = dut
        BY <3>1 DEF Compare
      <4> QED
        BY <3>3, <4>6, <4>7
    <3> QED
      BY <3>2, <3>3
  <2>2. CASE single_cycle
    <3>1. \A state, moved : Loops(state, moved) => at' # "cycle"
      BY Zenon DEF Loops
    <3> QED
      BY <2>2, <3>1 DEF single_cycle
  <2>3. CASE UNCHANGED vars
    BY <1>2, <2>3 DEF vars, diff_vars, ctl_vars
  <2>4. CASE at' # "cycle"
    BY <2>4
  <2>5. trace_and_difftest \/ single_cycle \/ UNCHANGED vars \/ at' # "cycle"
    <3>1. \A e : cmd_w(e) => at' # "cycle"
      BY DEF cmd_w, AtPrompt, ctl_vars
    <3>2. \A no : cmd_d(no) => at' # "cycle"
      BY DEF cmd_d, AtPrompt, ctl_vars
    <3>3. \A addr, words : cmd_x(addr, words) => at' # "cycle"
      BY DEF cmd_x, AtPrompt
    <3>4. cmd_q \/ EndOfInput \/ (\E count : cpu_exec(count)) => at' # "cycle"
      BY DEF cmd_q, EndOfInput, cpu_exec
    <3> QED
      BY <1>2, <3>1, <3>2, <3>3, <3>4, Zenon DEF Next, Over
  <2> QED
    BY <2>1, <2>2, <2>3, <2>4, <2>5
<1>3. WatchInv /\ [Next]_vars => WatchInv'
  BY WatchNext
<1>4. None => NoChangeMissed
  BY MissedIs
<1> HIDE DEF None
<1> QED
  BY <1>1, <1>2, <1>3, <1>4, PTL DEF Spec

-----------------------------------------------------------------------------
(* The expressions of the debugger.  EvaluatesRightly is about a parser that  *)
(* looks at a range of tokens and never at the tree that was written: what is *)
(* shown of every tree is that its characters are a Phrase, which has the     *)
(* value of the tree wherever among the tokens it is placed.                  *)
(* First: what a token does to the depth of the parentheses.                  *)

Weight(t) == IF t = "(" THEN 1 ELSE IF t = ")" THEN -1 ELSE 0

LEMMA DepthType ==
  ASSUME NEW toks, NEW p \in Int, NEW i \in Int
  PROVE  Depth(toks, p, i) \in Int
<1> DEFINE opened == {k \in p..i : toks[k].type = "("}
           closed == {k \in p..i : toks[k].type = ")"}
<1>1. IsFiniteSet(p..i) /\ opened \in SUBSET (p..i) /\ closed \in SUBSET (p..i)
  BY FS_Interval
<1> HIDE DEF opened, closed
<1>2. Cardinality(opened) \in Nat /\ Cardinality(closed) \in Nat
  BY <1>1, FS_Subset, FS_CardinalityType
<1> QED
  BY <1>2 DEF Depth, opened, closed

Count(toks, p, i, c) == Cardinality({k \in p..i : toks[k].type = c})

LEMMA DepthCounts ==
  ASSUME NEW toks, NEW p, NEW i
  PROVE  Depth(toks, p, i) = Count(toks, p, i, "(") - Count(toks, p, i, ")")
BY DEF Depth, Count

LEMMA CountStep ==
  ASSUME NEW toks, NEW p \in Int, NEW i \in Int, p <= i + 1, NEW c
  PROVE  /\ Count(toks, p, i, c) \in Nat
         /\ Count(toks, p, i + 1, c) = Count(toks, p, i, c) + (IF toks[i + 1].type = c THEN 1 ELSE 0)
<1> DEFINE few == {k \in p..i : toks[k].type = c}
           all == {k \in p .. i + 1 : toks[k].type = c}
<1>1. IsFiniteSet(p..i) /\ few \in SUBSET (p..i)
  BY FS_Interval
<1>2. i + 1 \notin few
  OBVIOUS
<1>3. all = IF toks[i + 1].type = c THEN few \cup {i + 1} ELSE few
  <2>1. p .. i + 1 = (p..i) \cup {i + 1}
    OBVIOUS
  <2> QED
    BY <2>1
<1> HIDE DEF few, all
<1>4. IsFiniteSet(few)
  BY <1>1, FS_Subset
<1>5. Cardinality(few) \in Nat
  BY <1>4, FS_CardinalityType
<1>6. Cardinality(few \cup {i + 1}) = Cardinality(few) + 1
  BY <1>2, <1>4, FS_AddElement
<1>7. Cardinality(all) = Cardinality(few) + (IF toks[i + 1].type = c THEN 1 ELSE 0)
  BY <1>3, <1>5, <1>6
<1>8. Count(toks, p, i, c) = Cardinality(few) /\ Count(toks, p, i + 1, c) = Cardinality(all)
  BY DEF few, all, Count
<1> QED
  BY <1>5, <1>7, <1>8

LEMMA DepthStep ==
  ASSUME NEW toks, NEW p \in Int, NEW i \in Int, p <= i + 1
  PROVE  Depth(toks, p, i + 1) = Depth(toks, p, i) + Weight(toks[i + 1].type)
<1> DEFINE j == i + 1
<1>1. /\ Depth(toks, p, i) = Count(toks, p, i, "(") - Count(toks, p, i, ")")
      /\ Depth(toks, p, j) = Count(toks, p, j, "(") - Count(toks, p, j, ")")
  BY DepthCounts
<1>2. \A c : /\ Count(toks, p, i, c) \in Nat
             /\ Count(toks, p, j, c) = Count(toks, p, i, c) + (IF toks[j].type = c THEN 1 ELSE 0)
  BY CountStep
<1> HIDE DEF j
<1>3. /\ Count(toks, p, i, "(") \in Nat
      /\ Count(toks, p, j, "(") = Count(toks, p, i, "(") + (IF toks[j].type = "(" THEN 1 ELSE 0)
  BY <1>2
<1>4. /\ Count(toks, p, i, ")") \in Nat
      /\ Count(toks, p, j, ")") = Count(toks, p, i, ")") + (IF toks[j].type = ")" THEN 1 ELSE 0)
  BY <1>2
<1>5. Depth(toks, p, j) = Depth(toks, p, i) + Weight(toks[j].type)
  BY <1>1, <1>3, <1>4 DEF Weight
<1> QED
  BY <1>5 DEF j

LEMMA DepthNone ==
  ASSUME NEW toks, NEW p \in Int
  PROVE  Depth(toks, p, p - 1) = 0
<1>1. ASSUME NEW c PROVE Count(toks, p, p - 1, c) = 0
  <2>1. {k \in p .. p - 1 : toks[k].type = c} = {}
    OBVIOUS
  <2> QED
    BY <2>1, FS_EmptySet DEF Count
<1>2. Count(toks, p, p - 1, "(") = 0 /\ Count(toks, p, p - 1, ")") = 0
  BY <1>1
<1> QED
  BY <1>2, DepthCounts

LEMMA DepthOne ==
  ASSUME NEW toks, NEW p \in Int
  PROVE  Depth(toks, p, p) = Weight(toks[p].type)
<1> DEFINE i == p - 1
<1>1. i \in Int /\ i + 1 = p /\ p <= i + 1
  OBVIOUS
<1>2. Depth(toks, p, i) = 0
  BY DepthNone
<1> HIDE DEF i
<1>3. Depth(toks, p, i + 1) = Depth(toks, p, i) + Weight(toks[i + 1].type)
  BY <1>1, DepthStep
<1>4. Weight(toks[p].type) \in Int
  BY DEF Weight
<1> QED
  BY <1>1, <1>2, <1>3, <1>4

(* Depth counts on where it left off.                                         *)
LEMMA DepthSplit ==
  ASSUME NEW toks, NEW p \in Int, NEW m \in Int, NEW i \in Int, p <= m + 1, m <= i
  PROVE  Depth(toks, p, i) = Depth(toks, p, m) + Depth(toks, m + 1, i)
<1> DEFINE S == {k \in Nat : Depth(toks, p, m + k) = Depth(toks, p, m) + Depth(toks, m + 1, m + k)}
<1>1. 0 \in S
  <2>1. Depth(toks, m + 1, (m + 1) - 1) = 0
    BY DepthNone
  <2>2. (m + 1) - 1 = m /\ m + 0 = m /\ Depth(toks, p, m) \in Int
    BY DepthType
  <2> QED
    BY <2>1, <2>2
<1>2. ASSUME NEW k \in S PROVE k + 1 \in S
  <2> DEFINE j == m + k
  <2>1. k \in Nat /\ j \in Int /\ p <= j + 1 /\ m + 1 <= j + 1 /\ m + (k + 1) = j + 1 /\ k + 1 \in Nat
    OBVIOUS
  <2>2. Depth(toks, p, j) = Depth(toks, p, m) + Depth(toks, m + 1, j)
    OBVIOUS
  <2> HIDE DEF j
  <2>3. /\ Depth(toks, p, j + 1) = Depth(toks, p, j) + Weight(toks[j + 1].type)
        /\ Depth(toks, m + 1, j + 1) = Depth(toks, m + 1, j) + Weight(toks[j + 1].type)
    BY <2>1, DepthStep
  <2>4. Depth(toks, p, m) \in Int /\ Depth(toks, m + 1, j) \in Int /\ Weight(toks[j + 1].type) \in Int
    BY <2>1, DepthType DEF Weight
  <2>5. Depth(toks, p, j + 1) = Depth(toks, p, m) + Depth(toks, m + 1, j + 1)
    BY <2>2, <2>3, <2>4
  <2> QED
    BY <2>1, <2>5
<1>3. S \in SUBSET Nat
  OBVIOUS
<1>4. i - m \in Nat /\ m + (i - m) = i
  OBVIOUS
<1>5. i - m \in S
  <2> HIDE DEF S
  <2> QED
    BY <1>1, <1>2, <1>3, <1>4, SetInduction
<1> QED
  BY <1>4, <1>5

(* The greatest of some places.                                              *)
LEMMA MaxIs ==
  ASSUME NEW a \in Int, NEW b \in Int, NEW S \in SUBSET (a..b), S # {}
  PROVE  Max(S) \in S /\ \A y \in S : y <= Max(S)
<1> DEFINE T == {b - y : y \in S}
<1>1. T \in SUBSET Nat /\ T # {}
  <2>1. \A y \in S : y \in Int /\ a <= y /\ y <= b
    OBVIOUS
  <2>2. \A y \in S : b - y \in Nat
    BY <2>1
  <2>3. PICK y \in S : TRUE
    OBVIOUS
  <2>4. b - y \in T
    BY <2>3
  <2> QED
    BY <2>2, <2>4
<1>2. \E x \in T : \A y \in T : <<y, x>> \notin OpToRel(<, Nat)
  BY <1>1, NatLessThanWellFounded, WFMin
<1>3. PICK x \in T : \A y \in T : ~(y < x)
  BY <1>1, <1>2 DEF OpToRel
<1>4. PICK z \in S : x = b - z
  BY <1>3
<1>5. ASSUME NEW y \in S PROVE z >= y
  <2>1. ~(b - y < b - z)
    BY <1>3, <1>4
  <2>2. y \in Int /\ z \in Int
    OBVIOUS
  <2> QED
    BY <2>1, <2>2
<1>6. Max(S) \in S /\ \A y \in S : Max(S) >= y
  BY <1>5, Zenon DEF Max
<1> QED
  BY <1>6

-----------------------------------------------------------------------------
(* What eval makes of a range depends on shorter ranges only.                 *)

Ranges(toks) == (1 .. Len(toks) + 1) \X (0 .. Len(toks))

LEMMA MainIsInside ==
  ASSUME NEW toks, NEW p \in Int, NEW q \in Int
  PROVE  find_main_operator(toks, p, q) = 0 \/ find_main_operator(toks, p, q) \in p..q
<1> DEFINE ops == outside(toks, p, q)
           level(i) == operator_level(toks[i].type)
           S == highest(toks, ops)
<1>1. CASE ops = {} \/ (\E i \in p..q : Depth(toks, p, i) < 0)
  BY <1>1 DEF find_main_operator
<1>2. CASE ~(ops = {} \/ (\E i \in p..q : Depth(toks, p, i) < 0))
  <2>1. find_main_operator(toks, p, q) = Max(S)
    BY <1>2 DEF find_main_operator
  <2>2. ops \in SUBSET (p..q) /\ ops # {}
    BY <1>2 DEF outside
  <2>3. S \in SUBSET (p..q)
    BY <2>2 DEF highest
  <2>4. S # {}
    <3> DEFINE T == {level(i) : i \in ops}
               least == -1
               most == 5
    <3>1. \A i : level(i) \in least..most
      BY DEF operator_level
    <3>2. least \in Int /\ most \in Int
      OBVIOUS
    <3> HIDE DEF level, ops, least, most
    <3>3. T \in SUBSET (least..most) /\ T # {}
      BY <2>2, <3>1
    <3> HIDE DEF T
    <3>4. Max(T) \in T /\ \A y \in T : y <= Max(T)
      BY <3>2, <3>3, MaxIs, Zenon
    <3>5. PICK i \in ops : level(i) = Max(T)
      BY <3>4 DEF T
    <3>6. \A j \in ops : level(j) <= level(i)
      BY <3>4, <3>5 DEF T
    <3> QED
      BY <3>6 DEF highest, level
  <2> HIDE DEF S
  <2> QED
    BY <2>1, <2>3, <2>4, MaxIs
<1> QED
  BY <1>1, <1>2

LEMMA EvalLocal ==
  ASSUME NEW toks, Len(toks) \in Nat, NEW p \in 1 .. Len(toks) + 1, NEW q \in 0 .. Len(toks), NEW f, NEW g,
         \A r \in Ranges(toks) : r[2] - r[1] < q - p => f[r] = g[r]
  PROVE  eval_range(toks, f, p, q) = eval_range(toks, g, p, q)
<1> DEFINE op == find_main_operator(toks, p, q)
           run == {k \in 1 .. q - op + 1 : \A j \in op .. op + k - 1 : toks[j].type = "neg"}
           negs == Max(run)
<1>1. ASSUME NEW a \in 1 .. Len(toks) + 1, NEW b \in 0 .. Len(toks), b - a < q - p
      PROVE  f[<<a, b>>] = g[<<a, b>>]
  <2>1. <<a, b>> \in Ranges(toks) /\ <<a, b>>[1] = a /\ <<a, b>>[2] = b
    BY DEF Ranges
  <2> QED
    BY <1>1, <2>1
<1>2. op = 0 \/ op \in p..q
  BY MainIsInside
<1>3. p < q => f[<<p + 1, q - 1>>] = g[<<p + 1, q - 1>>]
  BY <1>1
<1>4. ASSUME p < q, op > 0 PROVE f[<<p, op - 1>>] = g[<<p, op - 1>>] /\ f[<<op + 1, q>>] = g[<<op + 1, q>>]
  BY <1>1, <1>2, <1>4
<1>5. ASSUME p < q, op > 0, toks[op].type = "neg" PROVE f[<<op + negs, q>>] = g[<<op + negs, q>>]
  <2>1. op \in p..q
    BY <1>2, <1>5
  <2> HIDE DEF op
  <2> DEFINE len == q - op + 1
             one == 1
  <2>2. run \in SUBSET (one .. len) /\ 1 \in run /\ len \in Int /\ one \in Int
    BY <1>5, <2>1
  <2> HIDE DEF run, len, one
  <2>3. Max(run) \in run
    BY <2>2, MaxIs, Zenon
  <2> USE DEF one
  <2>4. negs \in 1 .. len
    BY <2>2, <2>3
  <2> USE DEF len
  <2> HIDE DEF negs
  <2> QED
    BY <1>1, <2>1, <2>4
<1>6. op > 0 => op \in Int
  BY <1>2
<1> DEFINE body(v) ==
      CASE p > q -> 0
        [] p = q -> IF toks[p].type = "num" THEN toks[p].val ELSE Invalid
        [] p < q /\ check_parentheses(toks, p, q) -> v[<<p + 1, q - 1>>]
        [] p < q /\ ~check_parentheses(toks, p, q) ->
             CASE op = 0 -> Invalid
               [] op > 0 /\ toks[op].type = "neg" ->
                    IF negs % 2 = 0 THEN v[<<op + negs, q>>] ELSE Word(-v[<<op + negs, q>>])
               [] op > 0 /\ toks[op].type = "deref" ->
                    CASE op < q /\ toks[op + 1].type = "num" -> pmem_read(toks[op + 1].val)
                      [] op < q /\ toks[op + 1].type = "("   -> pmem_read(v[<<op + 1, q>>])
                      [] OTHER                            -> Invalid
               [] OTHER -> Apply(toks[op].type, v[<<p, op - 1>>], v[<<op + 1, q>>])
<1>7. eval_range(toks, f, p, q) = body(f) /\ eval_range(toks, g, p, q) = body(g)
  BY DEF eval_range
<1> HIDE DEF op, negs
<1>8. body(f) = body(g)
  BY <1>2, <1>3, <1>4, <1>5
<1> QED
  BY <1>7, <1>8

(* So eval is a function of the ranges that satisfies its own equation: there *)
(* is one for the ranges shorter than k, and k grows.                         *)
Size(toks, r) == r[2] - r[1] + Len(toks) + 1
Partial(toks, f, k) ==
  f = [r \in Ranges(toks) |-> IF Size(toks, r) < k THEN eval_range(toks, f, r[1], r[2]) ELSE 0]

LEMMA SizeIs ==
  ASSUME NEW toks, Len(toks) \in Nat, NEW r \in Ranges(toks)
  PROVE  /\ r[1] \in 1 .. Len(toks) + 1 /\ r[2] \in 0 .. Len(toks)
         /\ Size(toks, r) \in 0 .. 2 * Len(toks)
BY DEF Ranges, Size

LEMMA PartialStep ==
  ASSUME NEW toks, Len(toks) \in Nat, NEW k \in Nat, NEW f, Partial(toks, f, k)
  PROVE  \E g : Partial(toks, g, k + 1)
<1> DEFINE R == Ranges(toks)
           g == [r \in R |-> IF Size(toks, r) < k + 1 THEN eval_range(toks, f, r[1], r[2]) ELSE 0]
<1>1. ASSUME NEW r \in R, Size(toks, r) < k PROVE f[r] = eval_range(toks, f, r[1], r[2])
  BY <1>1 DEF Partial
<1>2. ASSUME NEW r \in R, Size(toks, r) < k PROVE g[r] = f[r]
  <2>1. Size(toks, r) < k + 1
    BY <1>2, SizeIs
  <2> QED
    BY <1>1, <1>2, <2>1
<1>3. ASSUME NEW r \in R, Size(toks, r) < k + 1
      PROVE  eval_range(toks, f, r[1], r[2]) = eval_range(toks, g, r[1], r[2])
  <2> DEFINE p == r[1]
             q == r[2]
             len == Len(toks)
  <2>1. p \in 1 .. len + 1 /\ q \in 0 .. len /\ Size(toks, r) = q - p + len + 1
    BY SizeIs DEF Size
  <2>2. ASSUME NEW s \in R, s[2] - s[1] < q - p PROVE f[s] = g[s]
    <3>1. s[1] \in 1 .. len + 1 /\ s[2] \in 0 .. len /\ Size(toks, s) = s[2] - s[1] + len + 1
      BY SizeIs DEF Size
    <3>2. Size(toks, s) < k
      BY <1>3, <2>1, <2>2, <3>1
    <3> QED
      BY <1>2, <3>2
  <2> HIDE DEF p, q, g
  <2>3. eval_range(toks, f, p, q) = eval_range(toks, g, p, q)
    BY <2>1, <2>2, EvalLocal
  <2> QED
    BY <2>3 DEF p, q
<1> DEFINE h == [r \in R |-> IF Size(toks, r) < k + 1 THEN eval_range(toks, g, r[1], r[2]) ELSE 0]
<1>4. g = h
  <2>1. \A r \in R : g[r] = h[r]
    BY <1>3
  <2> QED
    BY <2>1
<1> HIDE DEF g
<1> QED
  BY <1>4 DEF Partial

LEMMA EvalIs ==
  ASSUME NEW toks, Len(toks) \in Nat, NEW p \in 1 .. Len(toks) + 1, NEW q \in 0 .. Len(toks)
  PROVE  eval(toks)[<<p, q>>] = eval_range(toks, eval(toks), p, q)
<1> DEFINE R == Ranges(toks)
           S == {k \in Nat : \E f : Partial(toks, f, k)}
           last == 2 * Len(toks) + 1
<1>1. 0 \in S
  <2> DEFINE f == [r \in R |-> 0]
             g == [r \in R |-> IF Size(toks, r) < 0 THEN eval_range(toks, f, r[1], r[2]) ELSE 0]
  <2>1. \A r \in R : ~(Size(toks, r) < 0)
    BY SizeIs
  <2>2. f = g
    BY <2>1
  <2> HIDE DEF f
  <2>3. Partial(toks, f, 0)
    BY <2>2 DEF Partial
  <2> QED
    BY <2>3
<1>2. \A k \in S : k + 1 \in S
  BY PartialStep
<1>3. last \in S
  <2>1. last \in Nat /\ S \in SUBSET Nat
    OBVIOUS
  <2> HIDE DEF S
  <2> QED
    BY <1>1, <1>2, <2>1, SetInduction
<1>4. PICK f : Partial(toks, f, last)
  BY <1>3
<1>5. f = [r \in R |-> eval_range(toks, f, r[1], r[2])]
  <2>1. \A r \in R : Size(toks, r) < last
    BY SizeIs
  <2> HIDE DEF last
  <2> QED
    BY <1>4, <2>1 DEF Partial
<1> DEFINE whole(v) == [r \in (1 .. Len(toks) + 1) \X (0 .. Len(toks)) |-> eval_range(toks, v, r[1], r[2])]
           e == eval(toks)
<1>6. \E v : v = whole(v)
  BY <1>5 DEF Ranges
<1>7. e = CHOOSE v : v = whole(v)
  BY DEF eval
<1>8. e = whole(e)
  BY <1>6, <1>7, Zenon
<1> HIDE DEF e
<1>9. e[<<p, q>>] = eval_range(toks, e, p, q)
  <2>1. <<p, q>> \in (1 .. Len(toks) + 1) \X (0 .. Len(toks)) /\ <<p, q>>[1] = p /\ <<p, q>>[2] = q
    OBVIOUS
  <2> QED
    BY <1>8, <2>1
<1> QED
  BY <1>9 DEF e

-----------------------------------------------------------------------------
(* The tokens, each of them by the one before it.                             *)

Before(toks, k) == IF k = 1 THEN "(" ELSE toks[k - 1].type

UpToToken(chars, f, k) ==
  f = [i \in 0 .. Len(chars) |-> IF i = 0 THEN Sym("(")
                                 ELSE IF i <= k THEN token_after(f[i - 1].type, chars[i]) ELSE Nothing]

LEMMA TokenStep ==
  ASSUME NEW chars, Len(chars) \in Nat, NEW k \in Nat, NEW f, UpToToken(chars, f, k)
  PROVE  \E g : UpToToken(chars, g, k + 1)
<1> DEFINE len == Len(chars)
           of(v, j) == [i \in 0 .. len |-> IF i = 0 THEN Sym("(")
                                         ELSE IF i <= j THEN token_after(v[i - 1].type, chars[i]) ELSE Nothing]
           g == of(f, k + 1)
<1>1. f = of(f, k)
  BY DEF UpToToken
<1>2. \A i \in 0 .. len : i <= k => f[i] = of(f, k)[i] /\ g[i] = of(f, k)[i]
  <2>1. \A i \in 0 .. len : i <= k => i <= k + 1
    OBVIOUS
  <2> QED
    BY <1>1, <2>1
<1>3. \A i \in 0 .. len : i # 0 /\ i <= k + 1 => i - 1 \in 0 .. len /\ i - 1 <= k
  OBVIOUS
<1>4. \A i \in 0 .. len : i # 0 /\ i <= k + 1 => f[i - 1] = g[i - 1]
  BY <1>2, <1>3
<1> HIDE DEF g
<1>5. g = of(f, k + 1)
  BY DEF g
<1>6. g = of(g, k + 1)
  <2>1. \A i \in 0 .. len : of(f, k + 1)[i] = of(g, k + 1)[i]
    BY <1>4
  <2> QED
    BY <1>5, <2>1
<1> QED
  BY <1>6 DEF UpToToken

LEMMA TokensAre ==
  ASSUME NEW chars, Len(chars) \in Nat
  PROVE  /\ Len(make_token(chars)) = Len(chars)
         /\ \A k \in 1 .. Len(chars) :
              make_token(chars)[k] = token_after(Before(make_token(chars), k), chars[k])
<1> DEFINE len == Len(chars)
           S == {k \in Nat : \E f : UpToToken(chars, f, k)}
           whole(v) == [i \in 0 .. len |-> IF i = 0 THEN Sym("(") ELSE token_after(v[i - 1].type, chars[i])]
           token == CHOOSE v : v = whole(v)
           toks == [k \in 1 .. len |-> token[k]]
<1>1. 0 \in S
  <2> DEFINE f == [i \in 0 .. len |-> IF i = 0 THEN Sym("(") ELSE Nothing]
             g == [i \in 0 .. len |-> IF i = 0 THEN Sym("(")
                                    ELSE IF i <= 0 THEN token_after(f[i - 1].type, chars[i]) ELSE Nothing]
  <2>1. \A i \in 0 .. len : i # 0 => ~(i <= 0)
    OBVIOUS
  <2>2. f = g
    BY <2>1
  <2> HIDE DEF f
  <2> QED
    BY <2>2 DEF UpToToken
<1>2. \A k \in S : k + 1 \in S
  BY TokenStep
<1>3. len \in S
  <2>1. S \in SUBSET Nat
    OBVIOUS
  <2> HIDE DEF S
  <2> QED
    BY <1>1, <1>2, <2>1, SetInduction
<1>4. PICK f : UpToToken(chars, f, len)
  BY <1>3
<1>5. f = whole(f)
  <2>1. \A i \in 0 .. len : i <= len
    OBVIOUS
  <2> QED
    BY <1>4, <2>1 DEF UpToToken
<1>6. token = whole(token)
  BY <1>5, Zenon
<1>7. make_token(chars) = toks
  BY DEF make_token
<1> HIDE DEF token
<1>8. /\ \A k \in 1 .. len : token[k] = token_after(token[k - 1].type, chars[k]) /\ k - 1 \in 0 .. len
      /\ token[0] = Sym("(")
  <2>1. \A k \in 1 .. len : k \in 0 .. len /\ k # 0 /\ k - 1 \in 0 .. len
    OBVIOUS
  <2> QED
    BY <1>6, <2>1
<1>9. \A k \in 1 .. len : toks[k] = token[k] /\ (k # 1 => toks[k - 1] = token[k - 1])
  OBVIOUS
<1>10. \A k \in 1 .. len : Before(toks, k) = token[k - 1].type
  <2>1. Sym("(").type = "("
    BY DEF Sym
  <2> QED
    BY <1>8, <1>9, <2>1 DEF Before
<1>11. Len(toks) = len
  OBVIOUS
<1> HIDE DEF toks
<1> QED
  BY <1>7, <1>8, <1>9, <1>10, <1>11

-----------------------------------------------------------------------------
(* The main operator of a range, and what eval does then.                     *)

Level(toks, i) == operator_level(toks[i].type)

LEMMA MainIs ==
  ASSUME NEW toks, NEW p \in Int, NEW q \in Int, NEW m \in outside(toks, p, q),
         \A i \in p..q : Depth(toks, p, i) >= 0,
         \A i \in outside(toks, p, q) : /\ Level(toks, i) <= Level(toks, m)
                                        /\ i > m => Level(toks, i) < Level(toks, m)
  PROVE  find_main_operator(toks, p, q) = m /\ m \in p..q
<1> DEFINE ops == outside(toks, p, q)
           S == highest(toks, ops)
<1>1. \A i \in p..q : ~(Depth(toks, p, i) < 0)
  BY DepthType
<1>2. find_main_operator(toks, p, q) = Max(S)
  BY <1>1 DEF find_main_operator
<1>3. m \in S
  BY DEF highest, Level
<1>4. ASSUME NEW i \in S PROVE i <= m
  <2>1. Level(toks, m) <= Level(toks, i) /\ i \in ops
    BY <1>4 DEF highest, Level
  <2>2. \A t : operator_level(t) \in Int
    BY DEF operator_level
  <2>3. Level(toks, m) \in Int /\ Level(toks, i) \in Int
    BY <2>2 DEF Level
  <2>4. i \in Int /\ m \in Int
    BY <2>1 DEF outside
  <2> HIDE DEF S
  <2> QED
    BY <2>1, <2>3, <2>4
<1>5. S \in SUBSET (p..q) /\ m \in p..q
  BY DEF highest, outside
<1> HIDE DEF S, ops
<1>6. Max(S) \in S /\ \A y \in S : y <= Max(S)
  BY <1>3, <1>5, MaxIs, Zenon
<1>7. Max(S) = m
  <2> DEFINE x == Max(S)
  <2>1. x \in S /\ m <= x
    BY <1>3, <1>6
  <2> HIDE DEF x
  <2>2. x <= m
    BY <1>4, <2>1, Zenon
  <2>3. x <= m /\ x \in Int /\ m \in Int
    BY <1>5, <2>1, <2>2
  <2>4. x = m
    BY <2>1, <2>3
  <2> QED
    BY <2>4 DEF x
<1> QED
  BY <1>2, <1>5, <1>7

(* The value of a range that is no parenthesis, by its main operator.         *)
LEMMA SplitEval ==
  ASSUME NEW toks, Len(toks) \in Nat, NEW p \in 1 .. Len(toks), NEW q \in p + 1 .. Len(toks),
         ~check_parentheses(toks, p, q), NEW m \in p..q, find_main_operator(toks, p, q) = m,
         toks[m].type \in Binary
  PROVE  eval(toks)[<<p, q>>] = Apply(toks[m].type, eval(toks)[<<p, m - 1>>], eval(toks)[<<m + 1, q>>])
<1>1. p \in 1 .. Len(toks) + 1 /\ q \in 0 .. Len(toks) /\ p < q /\ ~(p > q) /\ p # q /\ m > 0 /\ m # 0
  OBVIOUS
<1>2. toks[m].type \notin {"neg", "deref"}
  BY DEF Binary
<1>3. eval_range(toks, eval(toks), p, q)
        = Apply(toks[m].type, eval(toks)[<<p, m - 1>>], eval(toks)[<<m + 1, q>>])
  BY <1>1, <1>2, Zenon DEF eval_range
<1> QED
  BY <1>1, <1>3, EvalIs

(* And of one that is.                                                        *)
LEMMA InnerEval ==
  ASSUME NEW toks, Len(toks) \in Nat, NEW p \in 1 .. Len(toks), NEW q \in p + 1 .. Len(toks),
         check_parentheses(toks, p, q)
  PROVE  eval(toks)[<<p, q>>] = eval(toks)[<<p + 1, q - 1>>]
<1>1. p \in 1 .. Len(toks) + 1 /\ q \in 0 .. Len(toks) /\ p < q /\ ~(p > q) /\ p # q
  OBVIOUS
<1>2. eval_range(toks, eval(toks), p, q) = eval(toks)[<<p + 1, q - 1>>]
  BY <1>1, Zenon DEF eval_range
<1> QED
  BY <1>1, <1>2, EvalIs

(* A number, and a minus or a dereference in front of the rest.               *)
LEMMA NumberEval ==
  ASSUME NEW toks, Len(toks) \in Nat, NEW p \in 1 .. Len(toks), toks[p].type = "num"
  PROVE  eval(toks)[<<p, p>>] = toks[p].val
<1>1. p \in 1 .. Len(toks) + 1 /\ p \in 0 .. Len(toks) /\ ~(p > p) /\ ~(p < p)
  OBVIOUS
<1>2. eval_range(toks, eval(toks), p, p) = toks[p].val
  BY <1>1, Zenon DEF eval_range
<1> QED
  BY <1>1, <1>2, EvalIs

LEMMA MinusEval ==
  ASSUME NEW toks, Len(toks) \in Nat, NEW p \in 1 .. Len(toks), NEW q \in p + 1 .. Len(toks),
         find_main_operator(toks, p, q) = p, toks[p].type = "neg", toks[p + 1].type # "neg"
  PROVE  eval(toks)[<<p, q>>] = Word(-eval(toks)[<<p + 1, q>>])
<1> DEFINE run == {k \in 1 .. q - p + 1 : \A j \in p .. p + k - 1 : toks[j].type = "neg"}
           negs == Max(run)
<1>1. p \in 1 .. Len(toks) + 1 /\ q \in 0 .. Len(toks) /\ p < q /\ ~(p > q) /\ p # q /\ p > 0 /\ p # 0
  OBVIOUS
<1>2. ~check_parentheses(toks, p, q)
  BY DEF check_parentheses
<1>3. run = {1}
  <2>1. 1 \in run
    OBVIOUS
  <2>2. ASSUME NEW k \in run, k # 1 PROVE FALSE
    <3>1. p + 1 \in p .. p + k - 1
      BY <2>2
    <3> QED
      BY <2>2, <3>1
  <2> QED
    BY <2>1, <2>2
<1>4. negs = 1
  <2> DEFINE one == 1
  <2> HIDE DEF run
  <2>1. run \in SUBSET (one .. one) /\ run # {} /\ one \in Int
    BY <1>3
  <2> HIDE DEF one
  <2>2. Max(run) \in run
    BY <2>1, MaxIs, Zenon
  <2> QED
    BY <1>3, <2>2
<1>5. eval_range(toks, eval(toks), p, q)
        = IF negs % 2 = 0 THEN eval(toks)[<<p + negs, q>>] ELSE Word(-eval(toks)[<<p + negs, q>>])
  BY <1>1, <1>2, Zenon DEF eval_range
<1> HIDE DEF negs
<1>6. negs % 2 # 0 /\ p + negs = p + 1
  BY <1>4
<1>7. eval_range(toks, eval(toks), p, q) = Word(-eval(toks)[<<p + 1, q>>])
  BY <1>5, <1>6
<1> QED
  BY <1>1, <1>7, EvalIs

LEMMA MemoryEval ==
  ASSUME NEW toks, Len(toks) \in Nat, NEW p \in 1 .. Len(toks), NEW q \in p + 1 .. Len(toks),
         find_main_operator(toks, p, q) = p, toks[p].type = "deref",
         toks[p + 1].type \in {"num", "("}, toks[p + 1].type = "num" => q = p + 1
  PROVE  eval(toks)[<<p, q>>] = pmem_read(eval(toks)[<<p + 1, q>>])
<1>1. p \in 1 .. Len(toks) + 1 /\ q \in 0 .. Len(toks) /\ p < q /\ ~(p > q) /\ p # q /\ p > 0 /\ p # 0
  OBVIOUS
<1>2. ~check_parentheses(toks, p, q)
  BY DEF check_parentheses
<1>3. eval_range(toks, eval(toks), p, q)
        = CASE toks[p + 1].type = "num" -> pmem_read(toks[p + 1].val)
            [] toks[p + 1].type = "("   -> pmem_read(eval(toks)[<<p + 1, q>>])
            [] OTHER                    -> Invalid
  BY <1>1, <1>2, Zenon DEF eval_range
<1>4. CASE toks[p + 1].type = "num"
  <2>1. p + 1 \in 1 .. Len(toks) /\ q = p + 1
    BY <1>4
  <2>2. eval(toks)[<<p + 1, p + 1>>] = toks[p + 1].val
    BY <1>4, <2>1, NumberEval
  <2>3. eval(toks)[<<p + 1, q>>] = toks[p + 1].val
    BY <2>1, <2>2
  <2>4. eval_range(toks, eval(toks), p, q) = pmem_read(toks[p + 1].val)
    BY <1>3, <1>4
  <2> QED
    BY <1>1, <2>3, <2>4, EvalIs
<1>5. CASE toks[p + 1].type = "("
  <2>1. eval_range(toks, eval(toks), p, q) = pmem_read(eval(toks)[<<p + 1, q>>])
    BY <1>3, <1>5
  <2> QED
    BY <1>1, <2>1, EvalIs
<1> QED
  BY <1>4, <1>5

-----------------------------------------------------------------------------
(* What is written stands somewhere among the tokens.  A phrase is a number   *)
(* or begins and ends with what can stand beside an operator; its parentheses *)
(* match, "kinds" are its operators outside of them, and its value is that of *)
(* the range wherever it stands.                                              *)

(* Every number a tree may hold: 0 is what stands before anything is typed.   *)
Atoms == Numbers \cup {0}

Chars == {Num(v) : v \in Atoms} \cup {Sym(t) : t \in Binary \cup {"(", ")"}}

Placed(toks, p, c) ==
  /\ Len(toks) \in Nat /\ p \in 1 .. Len(toks) /\ p + Len(c) - 1 <= Len(toks)
  /\ \A k \in 1 .. Len(c) : toks[p + k - 1] = token_after(Before(toks, p + k - 1), c[k])

Stands(toks, p, q, kinds) ==
  /\ toks[p].type \in {"num", "("} /\ toks[q].type \in {"num", ")"}
  /\ \A i \in p..q : Depth(toks, p, i) >= 0
  /\ Depth(toks, p, q) = 0
  /\ \A i \in outside(toks, p, q) : toks[i].type \in kinds
  /\ kinds = {} /\ toks[p].type = "num" => p = q

Phrase(c, value, kinds) ==
  /\ c \in Seq(Chars) /\ c # <<>>
  /\ \A toks, p : Placed(toks, p, c) =>
       /\ Stands(toks, p, p + Len(c) - 1, kinds)
       /\ eval(toks)[<<p, p + Len(c) - 1>>] = value

(* Phrases one after the other, and what the tokens of a phrase are.          *)
LEMMA LenConcat ==
  ASSUME NEW S, NEW s \in Seq(S), NEW t \in Seq(S)
  PROVE  Len(s \o t) = Len(s) + Len(t)
OBVIOUS

LEMMA PlacedPart ==
  ASSUME NEW toks, NEW p, NEW a \in Seq(Chars), NEW b \in Seq(Chars), a # <<>>, b # <<>>, Placed(toks, p, a \o b)
  PROVE  /\ Placed(toks, p, a) /\ Placed(toks, p + Len(a), b)
         /\ Len(a \o b) = Len(a) + Len(b) /\ a \o b \in Seq(Chars) /\ a \o b # <<>>
<1> DEFINE c == a \o b
           m == Len(a)
           len == Len(b)
<1>1. /\ c \in Seq(Chars) /\ Len(c) = m + len /\ m \in Nat \ {0} /\ len \in Nat \ {0} /\ c # <<>>
      /\ \A k \in 1 .. m : c[k] = a[k]
      /\ \A k \in 1 .. len : c[m + k] = b[k]
  OBVIOUS
<1>2. /\ Len(toks) \in Nat /\ p \in 1 .. Len(toks) /\ p + Len(c) - 1 <= Len(toks)
      /\ \A k \in 1 .. Len(c) : toks[p + k - 1] = token_after(Before(toks, p + k - 1), c[k])
  BY DEF Placed
<1> HIDE DEF c, m, len
<1>3. p + m - 1 <= Len(toks) /\ p + m \in 1 .. Len(toks) /\ (p + m) + len - 1 <= Len(toks)
  BY <1>1, <1>2
<1>4. \A k \in 1 .. m : toks[p + k - 1] = token_after(Before(toks, p + k - 1), a[k])
  <2>1. \A k \in 1 .. m : k \in 1 .. Len(c)
    BY <1>1
  <2> QED
    BY <1>1, <1>2, <2>1
<1>5. ASSUME NEW k \in 1 .. len PROVE toks[(p + m) + k - 1] = token_after(Before(toks, (p + m) + k - 1), b[k])
  <2> DEFINE j == m + k
             i == (p + m) + k - 1
  <2>1. j \in 1 .. Len(c) /\ i = p + j - 1 /\ c[j] = b[k]
    BY <1>1, <1>2
  <2> HIDE DEF j, i
  <2>2. toks[i] = token_after(Before(toks, i), b[k])
    BY <1>2, <2>1
  <2> QED
    BY <2>2 DEF i
<1>6. Placed(toks, p, a)
  BY <1>2, <1>3, <1>4 DEF Placed, m
<1>7. Placed(toks, p + m, b)
  BY <1>2, <1>3, <1>5 DEF Placed, len
<1> QED
  BY <1>1, <1>6, <1>7 DEF c, m, len

LEMMA PlacedOne ==
  ASSUME NEW toks, NEW p, NEW char, Placed(toks, p, <<char>>)
  PROVE  toks[p] = token_after(Before(toks, p), char)
<1> DEFINE c == <<char>>
<1>1. Len(c) = 1 /\ c[1] = char
  OBVIOUS
<1> HIDE DEF c
<1>2. /\ p \in Int
      /\ \A k \in 1 .. Len(c) : toks[p + k - 1] = token_after(Before(toks, p + k - 1), c[k])
  BY DEF Placed, c
<1>3. p + 1 - 1 = p /\ 1 \in 1 .. Len(c)
  BY <1>1, <1>2
<1> QED
  BY <1>1, <1>2, <1>3

(* A character other than "-" and "*" is its token, and so are those where    *)
(* something to work on stands before them.                                   *)
LEMMA TokenIs ==
  ASSUME NEW before, NEW char, char.type \notin {"-", "*"} \/ before \in {"num", ")"}
  PROVE  token_after(before, char) = char
BY Zenon DEF token_after, Binary

LEMMA PhraseAt ==
  ASSUME NEW c, NEW value, NEW kinds, Phrase(c, value, kinds), NEW toks, NEW p, Placed(toks, p, c)
  PROVE  /\ c \in Seq(Chars) /\ c # <<>> /\ Len(c) \in Nat \ {0} /\ p \in 1 .. Len(toks)
         /\ p + Len(c) - 1 \in p .. Len(toks) /\ Len(toks) \in Nat
         /\ Stands(toks, p, p + Len(c) - 1, kinds)
         /\ eval(toks)[<<p, p + Len(c) - 1>>] = value
<1>1. c \in Seq(Chars) /\ c # <<>>
  BY DEF Phrase
<1>2. Len(c) \in Nat \ {0}
  BY <1>1
<1>3. Len(toks) \in Nat /\ p \in 1 .. Len(toks) /\ p + Len(c) - 1 <= Len(toks)
  BY DEF Placed
<1>4. p + Len(c) - 1 \in p .. Len(toks)
  BY <1>2, <1>3
<1>5. Stands(toks, p, p + Len(c) - 1, kinds) /\ eval(toks)[<<p, p + Len(c) - 1>>] = value
  BY DEF Phrase
<1> QED
  BY <1>1, <1>2, <1>3, <1>4, <1>5

(* A phrase in parentheses, or a unary operator with its operand in them, is  *)
(* one operand: nothing of it is outside parentheses.                         *)
LEMMA ParenStands ==
  ASSUME NEW toks, NEW p \in Int, NEW q \in Int, p + 1 <= q - 1,
         toks[p].type = "(", toks[q].type = ")",
         \A i \in p + 1 .. q - 1 : Depth(toks, p + 1, i) >= 0, Depth(toks, p + 1, q - 1) = 0
  PROVE  Stands(toks, p, q, {}) /\ check_parentheses(toks, p, q)
<1>1. Depth(toks, p, p) = 1
  BY DepthOne DEF Weight
<1>2. ASSUME NEW i \in p + 1 .. q - 1 PROVE Depth(toks, p, i) = 1 + Depth(toks, p + 1, i)
  <2>1. i \in Int /\ p <= p + 1 /\ p <= i /\ p \in Int
    OBVIOUS
  <2>2. Depth(toks, p, i) = Depth(toks, p, p) + Depth(toks, p + 1, i)
    BY <2>1, DepthSplit
  <2> QED
    BY <1>1, <2>2
<1>3. \A i \in p + 1 .. q - 1 : Depth(toks, p, i) >= 1
  BY <1>2, DepthType
<1>4. Depth(toks, p, q) = 0
  <2> DEFINE j == q - 1
  <2>1. j \in Int /\ p <= j + 1 /\ j + 1 = q /\ j \in p + 1 .. q - 1
    OBVIOUS
  <2>2. Depth(toks, p, j) = 1
    BY <1>2, <2>1
  <2> HIDE DEF j
  <2>3. Depth(toks, p, j + 1) = Depth(toks, p, j) + Weight(toks[j + 1].type)
    BY <2>1, DepthStep
  <2>4. Weight(toks[j + 1].type) = -1
    BY <2>1 DEF Weight
  <2> QED
    BY <2>1, <2>2, <2>3, <2>4
<1>5. \A i \in p..q : i = p \/ i = q \/ i \in p + 1 .. q - 1
  OBVIOUS
<1>6. \A i \in p..q : Depth(toks, p, i) >= 0 /\ (i # q => Depth(toks, p, i) # 0)
  BY <1>1, <1>3, <1>4, <1>5, DepthType
<1>7. outside(toks, p, q) = {}
  BY <1>6 DEF outside
<1>8. check_parentheses(toks, p, q)
  <2>1. \A i \in p .. q - 1 : i \in p..q /\ i # q
    OBVIOUS
  <2> QED
    BY <1>4, <1>6, <2>1 DEF check_parentheses
<1>9. Stands(toks, p, q, {})
  BY <1>4, <1>6, <1>7 DEF Stands
<1> QED
  BY <1>8, <1>9

LEMMA UnaryStands ==
  ASSUME NEW toks, NEW p \in Int, NEW q \in Int, p + 1 <= q,
         toks[p].type \in {"neg", "deref"}, Stands(toks, p + 1, q, {})
  PROVE  /\ \A i \in p..q : Depth(toks, p, i) >= 0
         /\ Depth(toks, p, q) = 0
         /\ find_main_operator(toks, p, q) = p
<1>1. Depth(toks, p, p) = 0
  BY DepthOne DEF Weight
<1>2. ASSUME NEW i \in p + 1 .. q PROVE Depth(toks, p, i) = Depth(toks, p + 1, i)
  <2>1. i \in Int /\ p <= p + 1 /\ p <= i /\ p \in Int
    OBVIOUS
  <2>2. Depth(toks, p, i) = Depth(toks, p, p) + Depth(toks, p + 1, i)
    BY <2>1, DepthSplit
  <2> QED
    BY <1>1, <2>1, <2>2, DepthType
<1>3. /\ \A i \in p + 1 .. q : Depth(toks, p + 1, i) >= 0
      /\ Depth(toks, p + 1, q) = 0 /\ outside(toks, p + 1, q) = {}
  BY DEF Stands
<1>4. \A i \in p..q : i = p \/ i \in p + 1 .. q
  OBVIOUS
<1>5. \A i \in p..q : Depth(toks, p, i) >= 0
  BY <1>1, <1>2, <1>3, <1>4
<1>6. Depth(toks, p, q) = 0
  <2>1. q \in p + 1 .. q
    OBVIOUS
  <2> QED
    BY <1>2, <1>3, <2>1
<1>7. outside(toks, p, q) = {p}
  <2>1. p \in outside(toks, p, q)
    BY <1>1 DEF outside
  <2>2. \A i \in outside(toks, p, q) : i = p
    <3>1. \A i \in p + 1 .. q : i \notin outside(toks, p, q)
      BY <1>2, <1>3 DEF outside
    <3> QED
      BY <1>4, <3>1 DEF outside
  <2> QED
    BY <2>1, <2>2
<1>8. \A t : operator_level(t) \in Int
  BY DEF operator_level
<1>9. \A i \in outside(toks, p, q) : /\ Level(toks, i) <= Level(toks, p)
                                     /\ i > p => Level(toks, i) < Level(toks, p)
  <2>1. Level(toks, p) <= Level(toks, p) /\ ~(p > p)
    BY <1>8 DEF Level
  <2> QED
    BY <1>7, <2>1
<1>10. p \in outside(toks, p, q)
  BY <1>7
<1>11. find_main_operator(toks, p, q) = p
  BY <1>5, <1>9, <1>10, MainIs
<1> QED
  BY <1>5, <1>6, <1>11

(* The phrases: a number, a phrase in parentheses, a phrase negated or        *)
(* dereferenced in parentheses, and two phrases with an operator between them *)
(* that neither outranks.                                                     *)
LEMMA CharsAre ==
  /\ \A v \in Atoms : <<Num(v)>> \in Seq(Chars)
  /\ \A t \in Binary \cup {"(", ")"} : <<Sym(t)>> \in Seq(Chars) /\ <<Sym(t)>> # <<>> /\ Len(<<Sym(t)>>) = 1
  /\ \A v : Num(v).type = "num" /\ Num(v).val = v
  /\ \A t : Sym(t).type = t
<1>1. \A v \in Atoms : <<Num(v)>> \in Seq(Chars)
  <2>1. \A v \in Atoms : Num(v) \in Chars
    BY DEF Chars
  <2> QED
    BY <2>1
<1>2. ASSUME NEW t \in Binary \cup {"(", ")"} PROVE <<Sym(t)>> \in Seq(Chars) /\ <<Sym(t)>> # <<>> /\ Len(<<Sym(t)>>) = 1
  <2>1. Sym(t) \in Chars
    BY DEF Chars
  <2> QED
    BY <2>1
<1> QED
  BY <1>1, <1>2 DEF Num, Sym

LEMMA LeafPhrase ==
  ASSUME NEW v \in Atoms
  PROVE  Phrase(<<Num(v)>>, v, {})
<1> DEFINE c == <<Num(v)>>
<1>1. c \in Seq(Chars) /\ c # <<>> /\ Len(c) = 1
  BY CharsAre
<1>2. ASSUME NEW toks, NEW p, Placed(toks, p, c)
      PROVE  Stands(toks, p, p, {}) /\ eval(toks)[<<p, p>>] = v
  <2>1. Num(v).type = "num" /\ Num(v).val = v
    BY CharsAre
  <2>2. toks[p] = token_after(Before(toks, p), Num(v))
    BY <1>2, PlacedOne
  <2>3. toks[p] = Num(v)
    BY <2>1, <2>2, TokenIs
  <2>4. Len(toks) \in Nat /\ p \in 1 .. Len(toks)
    BY <1>2 DEF Placed
  <2>5. Depth(toks, p, p) = 0
    BY <2>1, <2>3, <2>4, DepthOne DEF Weight
  <2>6. outside(toks, p, p) = {}
    BY <2>1, <2>3, <2>4 DEF outside
  <2>7. Stands(toks, p, p, {})
    BY <2>1, <2>3, <2>4, <2>5, <2>6 DEF Stands
  <2>8. eval(toks)[<<p, p>>] = v
    BY <2>1, <2>3, <2>4, NumberEval
  <2> QED
    BY <2>7, <2>8
<1> HIDE DEF c
<1>3. \A toks, p : Placed(toks, p, c) => p + Len(c) - 1 = p
  BY <1>1 DEF Placed
<1>4. Phrase(c, v, {})
  BY <1>1, <1>2, <1>3 DEF Phrase
<1> QED
  BY <1>4 DEF c

LEMMA ParenPhrase ==
  ASSUME NEW a, NEW value, NEW kinds, Phrase(a, value, kinds)
  PROVE  Phrase(<<Sym("(")>> \o a \o <<Sym(")")>>, value, {})
<1> DEFINE open == <<Sym("(")>>
           close == <<Sym(")")>>
           c == (open \o a) \o close
           len == Len(a)
<1>1. /\ open \in Seq(Chars) /\ open # <<>> /\ Len(open) = 1
      /\ close \in Seq(Chars) /\ close # <<>> /\ Len(close) = 1
  BY CharsAre
<1>2. a \in Seq(Chars) /\ a # <<>> /\ len \in Nat \ {0}
  BY DEF Phrase
<1>3. open \o a \in Seq(Chars) /\ open \o a # <<>> /\ Len(open \o a) = len + 1
  BY <1>1, <1>2
<1>4. c \in Seq(Chars) /\ c # <<>> /\ Len(c) = len + 2
  BY <1>1, <1>3
<1>5. Sym("(").type = "(" /\ Sym(")").type = ")"
  BY CharsAre
<1>6. ASSUME NEW toks, NEW p, Placed(toks, p, c)
      PROVE  Stands(toks, p, p + Len(c) - 1, {}) /\ eval(toks)[<<p, p + Len(c) - 1>>] = value
  <2> HIDE DEF len
  <2>1. Placed(toks, p, open \o a) /\ Placed(toks, p + Len(open \o a), close)
    <3> DEFINE x == open \o a
    <3> HIDE DEF x, close
    <3> QED
      BY <1>1, <1>3, <1>6, PlacedPart
  <2> HIDE DEF c
  <2>2. Placed(toks, p, open) /\ Placed(toks, p + Len(open), a)
    <3> HIDE DEF open
    <3> QED
      BY <1>1, <1>2, <2>1, PlacedPart
  <2> DEFINE q == p + Len(c) - 1
             s == p + 1
             e == q - 1
  <2>3. p \in 1 .. Len(toks) /\ Len(toks) \in Nat /\ p + Len(c) - 1 <= Len(toks)
    BY <1>6 DEF Placed
  <2>4. /\ p \in Int /\ q \in p + 1 .. Len(toks) /\ q = p + Len(open \o a) /\ s = p + Len(open) /\ s \in Int
        /\ e = s + Len(a) - 1 /\ p + 1 <= q - 1
    BY <1>1, <1>2, <1>3, <1>4, <2>3 DEF len
  <2> HIDE DEF q, s, e, open, close
  <2>5. toks[p] = Sym("(")
    <3>1. toks[p] = token_after(Before(toks, p), Sym("("))
      BY <2>2, PlacedOne DEF open
    <3> QED
      BY <1>5, <3>1, TokenIs
  <2>6. toks[q] = Sym(")")
    <3>1. toks[q] = token_after(Before(toks, q), Sym(")"))
      BY <2>1, <2>4, PlacedOne DEF close
    <3> QED
      BY <1>5, <3>1, TokenIs
  <2>7. Stands(toks, s, e, kinds) /\ eval(toks)[<<s, e>>] = value
    <3>1. Placed(toks, s, a)
      BY <2>2, <2>4
    <3> QED
      BY <2>4, <3>1, PhraseAt
  <2>8. Stands(toks, p, q, {}) /\ check_parentheses(toks, p, q)
    <3>1. (\A i \in s .. e : Depth(toks, s, i) >= 0) /\ Depth(toks, s, e) = 0
      BY <2>7 DEF Stands
    <3>2. (\A i \in p + 1 .. q - 1 : Depth(toks, p + 1, i) >= 0) /\ Depth(toks, p + 1, q - 1) = 0
      BY <3>1 DEF s, e
    <3>3. toks[p].type = "(" /\ toks[q].type = ")" /\ p \in Int /\ q \in Int
      BY <1>5, <2>4, <2>5, <2>6
    <3> QED
      BY <2>4, <3>2, <3>3, ParenStands
  <2>9. eval(toks)[<<p, q>>] = value
    <3>1. eval(toks)[<<p, q>>] = eval(toks)[<<p + 1, q - 1>>]
      BY <2>3, <2>4, <2>8, InnerEval
    <3> QED
      BY <2>7, <3>1 DEF s, e
  <2> QED
    BY <2>8, <2>9 DEF q
<1> HIDE DEF c
<1>7. Phrase(c, value, {})
  BY <1>4, <1>6 DEF Phrase
<1> QED
  BY <1>7 DEF c

Unary(sign, value) == IF sign = "-" THEN Word(-value) ELSE pmem_read(value)

LEMMA UnaryPhrase ==
  ASSUME NEW a, NEW value, Phrase(a, value, {}), NEW sign \in {"-", "*"}
  PROVE  Phrase(<<Sym("("), Sym(sign)>> \o a \o <<Sym(")")>>, Unary(sign, value), {})
<1> DEFINE open == <<Sym("(")>>
           mark == <<Sym(sign)>>
           front == <<Sym("("), Sym(sign)>>
           close == <<Sym(")")>>
           c == (front \o a) \o close
           len == Len(a)
<1>0. sign \in Binary \cup {"(", ")"}
  BY DEF Binary
<1>1. /\ open \in Seq(Chars) /\ open # <<>> /\ Len(open) = 1
      /\ mark \in Seq(Chars) /\ mark # <<>> /\ Len(mark) = 1
      /\ close \in Seq(Chars) /\ close # <<>> /\ Len(close) = 1
  BY <1>0, CharsAre
<1>2. front = open \o mark /\ front \in Seq(Chars) /\ front # <<>> /\ Len(front) = 2
  BY <1>1
<1>3. a \in Seq(Chars) /\ a # <<>> /\ len \in Nat \ {0}
  BY DEF Phrase
<1> HIDE DEF front
<1>4. front \o a \in Seq(Chars) /\ front \o a # <<>> /\ Len(front \o a) = len + 2
  BY <1>2, <1>3
<1>5. c \in Seq(Chars) /\ c # <<>> /\ Len(c) = len + 3
  BY <1>1, <1>4
<1>6. Sym("(").type = "(" /\ Sym(")").type = ")" /\ Sym("neg").type = "neg" /\ Sym("deref").type = "deref"
      /\ Sym(sign).type = sign
  BY CharsAre
<1>7. ASSUME NEW toks, NEW p, Placed(toks, p, c)
      PROVE  Stands(toks, p, p + Len(c) - 1, {}) /\ eval(toks)[<<p, p + Len(c) - 1>>] = Unary(sign, value)
  <2> HIDE DEF len
  <2>1. Placed(toks, p, front \o a) /\ Placed(toks, p + Len(front \o a), close)
    <3> DEFINE x == front \o a
    <3> HIDE DEF x, close
    <3> QED
      BY <1>1, <1>4, <1>7, PlacedPart
  <2> HIDE DEF c
  <2>2. Placed(toks, p, open \o mark) /\ Placed(toks, p + Len(front), a)
    <3> HIDE DEF open, mark
    <3>1. Placed(toks, p, front) /\ Placed(toks, p + Len(front), a)
      BY <1>2, <1>3, <2>1, PlacedPart
    <3> QED
      BY <1>2, <3>1
  <2>3. Placed(toks, p, open) /\ Placed(toks, p + Len(open), mark)
    <3> HIDE DEF open, mark
    <3> QED
      BY <1>1, <2>2, PlacedPart
  <2> DEFINE q == p + Len(c) - 1
             s == p + 1
             e == q - 1
  <2>4. p \in 1 .. Len(toks) /\ Len(toks) \in Nat /\ p + Len(c) - 1 <= Len(toks)
    BY <1>7 DEF Placed
  <2>5. /\ p \in Int /\ q \in p + 1 .. Len(toks) /\ q = p + Len(front \o a) /\ s = p + Len(open) /\ s \in Int
        /\ s + 1 = p + Len(front)
        /\ e = (s + 1) + Len(a) - 1 /\ e \in Int /\ p + 1 <= q - 1 /\ s + 1 <= e /\ s # 1 /\ s - 1 = p
        /\ s \in 1 .. Len(toks) /\ e \in s + 1 .. Len(toks)
    BY <1>1, <1>2, <1>3, <1>4, <1>5, <2>4 DEF len
  <2> HIDE DEF q, s, e, open, close, mark
  <2>6. toks[p] = Sym("(")
    <3>1. toks[p] = token_after(Before(toks, p), Sym("("))
      BY <2>3, PlacedOne DEF open
    <3> QED
      BY <1>6, <3>1, TokenIs
  <2>7. toks[q] = Sym(")")
    <3>1. toks[q] = token_after(Before(toks, q), Sym(")"))
      BY <2>1, <2>5, PlacedOne DEF close
    <3> QED
      BY <1>6, <3>1, TokenIs
  <2>8. toks[s] = Sym(IF sign = "-" THEN "neg" ELSE "deref")
    <3>1. toks[s] = token_after(Before(toks, s), Sym(sign))
      BY <2>3, <2>5, PlacedOne DEF mark
    <3>2. Before(toks, s) = "("
      BY <1>6, <2>5, <2>6 DEF Before
    <3>3. CASE sign = "-"
      BY <1>6, <3>1, <3>2, <3>3, Zenon DEF token_after, Binary
    <3>4. CASE sign = "*"
      BY <1>6, <3>1, <3>2, <3>4, Zenon DEF token_after, Binary
    <3> QED
      BY <3>3, <3>4
  <2>9. Stands(toks, s + 1, e, {}) /\ eval(toks)[<<s + 1, e>>] = value
    <3> DEFINE x == s + 1
    <3>1. Placed(toks, x, a) /\ e = x + Len(a) - 1
      BY <2>2, <2>5
    <3> HIDE DEF x
    <3>2. Stands(toks, x, e, {}) /\ eval(toks)[<<x, e>>] = value
      BY <3>1, PhraseAt
    <3> QED
      BY <3>2 DEF x
  <2>10. toks[s].type \in {"neg", "deref"}
    BY <1>6, <2>8
  <2>11. /\ \A i \in s .. e : Depth(toks, s, i) >= 0
         /\ Depth(toks, s, e) = 0
         /\ find_main_operator(toks, s, e) = s
    <3>1. Stands(toks, s + 1, e, {}) /\ s + 1 <= e /\ s \in Int /\ e \in Int
      BY <2>5, <2>9
    <3> QED
      BY <2>10, <3>1, UnaryStands, Zenon
  <2>12. eval(toks)[<<s, e>>] = Unary(sign, value)
    <3>0. /\ Len(toks) \in Nat /\ s \in 1 .. Len(toks) /\ e \in s + 1 .. Len(toks)
          /\ find_main_operator(toks, s, e) = s
      BY <2>4, <2>5, <2>11
    <3>1. CASE sign = "-"
      <4>1. toks[s].type = "neg"
        BY <1>6, <2>8, <3>1
      <4>2. toks[s + 1].type # "neg"
        BY <2>9 DEF Stands
      <4>3. eval(toks)[<<s, e>>] = Word(-eval(toks)[<<s + 1, e>>])
        BY <3>0, <4>1, <4>2, MinusEval
      <4> QED
        BY <2>9, <3>1, <4>3 DEF Unary
    <3>2. CASE sign = "*"
      <4>1. toks[s].type = "deref"
        BY <1>6, <2>8, <3>2
      <4>2. toks[s + 1].type \in {"num", "("} /\ (toks[s + 1].type = "num" => e = s + 1)
        BY <2>9 DEF Stands
      <4>3. eval(toks)[<<s, e>>] = pmem_read(eval(toks)[<<s + 1, e>>])
        BY <3>0, <4>1, <4>2, MemoryEval
      <4> QED
        BY <2>9, <3>2, <4>3 DEF Unary
    <3> QED
      BY <3>1, <3>2
  <2>13. Stands(toks, p, q, {}) /\ check_parentheses(toks, p, q)
    <3>1. (\A i \in p + 1 .. q - 1 : Depth(toks, p + 1, i) >= 0) /\ Depth(toks, p + 1, q - 1) = 0
      BY <2>11 DEF s, e
    <3>2. toks[p].type = "(" /\ toks[q].type = ")" /\ p \in Int /\ q \in Int
      BY <1>6, <2>5, <2>6, <2>7
    <3> QED
      BY <2>5, <3>1, <3>2, ParenStands
  <2>14. eval(toks)[<<p, q>>] = Unary(sign, value)
    <3>1. eval(toks)[<<p, q>>] = eval(toks)[<<p + 1, q - 1>>]
      BY <2>4, <2>5, <2>13, InnerEval
    <3> QED
      BY <2>12, <3>1 DEF s, e
  <2> QED
    BY <2>13, <2>14 DEF q
<1> HIDE DEF c
<1>8. Phrase(c, Unary(sign, value), {})
  BY <1>5, <1>7 DEF Phrase
<1> QED
  BY <1>8 DEF c, front

SplitAt(op, left, right) ==
  /\ \A t \in left : operator_level(t) <= operator_level(op)
  /\ \A t \in right : operator_level(t) < operator_level(op)

(* In "a op b" the main operator is the one between the phrases.              *)
LEMMA NodeStands ==
  ASSUME NEW toks, NEW p \in Int, NEW m \in Int, NEW q \in Int, p <= m - 1, m + 1 <= q,
         NEW left, NEW right, Stands(toks, p, m - 1, left), Stands(toks, m + 1, q, right),
         NEW op \in Binary, toks[m].type = op,
         SplitAt(op, left, right)
  PROVE  /\ Stands(toks, p, q, left \cup right \cup {op})
         /\ ~check_parentheses(toks, p, q)
         /\ find_main_operator(toks, p, q) = m
<1> DEFINE l == m - 1
           r == m + 1
<1>0. l \in Int /\ r \in Int /\ l + 1 = m /\ p <= l + 1 /\ p <= l /\ r <= q /\ m <= q /\ p <= m
  OBVIOUS
<1>1. /\ \A i \in p..l : Depth(toks, p, i) >= 0
      /\ Depth(toks, p, l) = 0 /\ \A i \in outside(toks, p, l) : toks[i].type \in left
  BY DEF Stands
<1>2. /\ \A i \in r..q : Depth(toks, r, i) >= 0
      /\ Depth(toks, r, q) = 0 /\ \A i \in outside(toks, r, q) : toks[i].type \in right
  BY DEF Stands
<1>3. op \notin {"num", "(", ")"}
  BY DEF Binary
<1>4. Depth(toks, p, m) = 0
  <2> HIDE DEF l
  <2>1. Depth(toks, p, l + 1) = Depth(toks, p, l) + Weight(toks[l + 1].type)
    BY <1>0, DepthStep
  <2>2. Weight(op) = 0
    BY <1>3 DEF Weight
  <2> QED
    BY <1>0, <1>1, <2>1, <2>2
<1>5. ASSUME NEW i \in r..q PROVE Depth(toks, p, i) = Depth(toks, r, i)
  <2>1. i \in Int /\ p <= m + 1 /\ m <= i
    OBVIOUS
  <2>2. Depth(toks, p, i) = Depth(toks, p, m) + Depth(toks, m + 1, i)
    BY <1>0, <2>1, DepthSplit
  <2>3. Depth(toks, r, i) \in Int
    BY <1>0, <2>1, DepthType
  <2> QED
    BY <1>4, <2>2, <2>3
<1>6. \A i \in p..q : i \in p..l \/ i = m \/ i \in r..q
  OBVIOUS
<1>7. \A i \in p..q : Depth(toks, p, i) >= 0
  BY <1>1, <1>2, <1>4, <1>5, <1>6
<1>8. Depth(toks, p, q) = 0
  BY <1>0, <1>2, <1>5
<1>9. ASSUME NEW i \in outside(toks, p, q)
      PROVE  \/ i < m /\ toks[i].type \in left
             \/ i = m
             \/ i > m /\ toks[i].type \in right
  <2>1. i \in p..q /\ Depth(toks, p, i) = 0 /\ toks[i].type \notin {"num", ")"}
    BY <1>9 DEF outside
  <2>2. CASE i \in p..l
    <3>1. i \in outside(toks, p, l)
      BY <2>1, <2>2 DEF outside
    <3>2. i < m
      BY <2>2
    <3> QED
      BY <1>1, <3>1, <3>2
  <2>3. CASE i \in r..q
    <3>1. i \in outside(toks, r, q)
      BY <1>5, <2>1, <2>3 DEF outside
    <3>2. i > m
      BY <2>3
    <3> QED
      BY <1>2, <3>1, <3>2
  <2> QED
    BY <1>6, <2>1, <2>2, <2>3
<1>10. m \in outside(toks, p, q)
  BY <1>0, <1>3, <1>4 DEF outside
<1>11. \A t : operator_level(t) \in Int
  BY DEF operator_level
<1>12. ASSUME NEW i \in outside(toks, p, q)
       PROVE  Level(toks, i) <= Level(toks, m) /\ (i > m => Level(toks, i) < Level(toks, m))
  <2>1. Level(toks, i) \in Int /\ Level(toks, m) \in Int /\ Level(toks, m) = operator_level(op)
        /\ Level(toks, i) = operator_level(toks[i].type)
    BY <1>11 DEF Level
  <2>2. i \in Int
    BY <1>12 DEF outside
  <2>3. CASE i < m /\ toks[i].type \in left
    BY <2>1, <2>2, <2>3 DEF SplitAt
  <2>4. CASE i = m
    BY <2>1, <2>2, <2>4
  <2>5. CASE i > m /\ toks[i].type \in right
    BY <2>1, <2>2, <2>5 DEF SplitAt
  <2> QED
    BY <1>9, <1>12, <2>3, <2>4, <2>5
<1>13. find_main_operator(toks, p, q) = m
  BY <1>7, <1>10, <1>12, MainIs
<1>14. ~check_parentheses(toks, p, q)
  <2>1. l \in p .. q - 1
    OBVIOUS
  <2> QED
    BY <1>1, <2>1 DEF check_parentheses
<1>15. Stands(toks, p, q, left \cup right \cup {op})
  <2> DEFINE kinds == left \cup right \cup {op}
  <2>1. \A i \in outside(toks, p, q) : toks[i].type \in kinds
    BY <1>9
  <2>2. toks[p].type \in {"num", "("} /\ toks[q].type \in {"num", ")"}
    BY DEF Stands
  <2>3. kinds # {}
    OBVIOUS
  <2> HIDE DEF kinds
  <2>4. Stands(toks, p, q, kinds)
    BY <1>7, <1>8, <2>1, <2>2, <2>3 DEF Stands
  <2> QED
    BY <2>4 DEF kinds
<1> QED
  BY <1>13, <1>14, <1>15

LEMMA NodePhrase ==
  ASSUME NEW a, NEW b, NEW x, NEW y, NEW left, NEW right, Phrase(a, x, left), Phrase(b, y, right), NEW op \in Binary,
         SplitAt(op, left, right)
  PROVE  Phrase(a \o <<Sym(op)>> \o b, Apply(op, x, y), left \cup right \cup {op})
<1> DEFINE mid == <<Sym(op)>>
           front == a \o mid
           c == front \o b
           kinds == left \cup right \cup {op}
<1>1. mid \in Seq(Chars) /\ mid # <<>> /\ Len(mid) = 1 /\ Sym(op).type = op
  BY CharsAre
<1>2. a \in Seq(Chars) /\ a # <<>> /\ b \in Seq(Chars) /\ b # <<>>
  BY DEF Phrase
<1>3. Len(a) \in Nat \ {0} /\ Len(b) \in Nat \ {0}
  BY <1>2
<1> HIDE DEF mid, c, kinds
<1>4. mid \in Seq(Chars) /\ Len(mid) = 1
  BY <1>1
<1>5. front \in Seq(Chars) /\ Len(front) = Len(a) + 1
  <2>1. a \in Seq(Chars) /\ mid \in Seq(Chars) /\ Len(mid) = 1
    BY <1>2, <1>4
  <2>2. front \in Seq(Chars)
    BY <2>1
  <2>3. Len(front) = Len(a) + Len(mid)
    BY <2>1, LenConcat
  <2> QED
    BY <2>1, <2>2, <2>3
<1> HIDE DEF front
<1>6. front \in Seq(Chars) /\ front # <<>> /\ Len(front) = Len(a) + 1
  BY <1>3, <1>5
<1> USE DEF c
<1>7. c \in Seq(Chars) /\ c # <<>> /\ Len(c) = Len(a) + Len(b) + 1
  BY <1>2, <1>3, <1>6
<1>8. ASSUME NEW toks, NEW p, Placed(toks, p, c)
      PROVE  Stands(toks, p, p + Len(c) - 1, kinds) /\ eval(toks)[<<p, p + Len(c) - 1>>] = Apply(op, x, y)
  <2>1. Placed(toks, p, front) /\ Placed(toks, p + Len(front), b)
    BY <1>2, <1>6, <1>8, PlacedPart
  <2>2. Placed(toks, p, a) /\ Placed(toks, p + Len(a), mid)
    BY <1>1, <1>2, <2>1, PlacedPart DEF front
  <2>3. p \in 1 .. Len(toks) /\ Len(toks) \in Nat /\ p + Len(c) - 1 <= Len(toks)
    BY <1>8 DEF Placed
  <2> HIDE DEF c
  <2> DEFINE m == p + Len(a)
             l == m - 1
             r == m + 1
             q == p + Len(c) - 1
  <2>4. /\ p \in Int /\ m \in Int /\ q \in Int /\ p <= m - 1 /\ m + 1 <= q /\ m # 1 /\ m \in p..q
        /\ l = p + Len(a) - 1 /\ r = p + Len(front) /\ q = r + Len(b) - 1
        /\ q \in p + 1 .. Len(toks)
    BY <1>3, <1>6, <1>7, <2>3
  <2> HIDE DEF m, l, r, q
  <2>5. Stands(toks, p, l, left) /\ eval(toks)[<<p, l>>] = x
    BY <2>2, <2>4, PhraseAt
  <2>6. Stands(toks, r, q, right) /\ eval(toks)[<<r, q>>] = y
    BY <2>1, <2>4, PhraseAt
  <2>7. toks[m] = Sym(op)
    <3>1. toks[m] = token_after(Before(toks, m), Sym(op))
      BY <2>2, PlacedOne DEF mid, m
    <3>2. Before(toks, m) \in {"num", ")"}
      BY <2>4, <2>5 DEF Before, Stands, l
    <3> QED
      BY <3>1, <3>2, TokenIs
  <2>8. toks[m].type = op
    BY <1>1, <2>7
  <2>9. Stands(toks, p, m - 1, left) /\ Stands(toks, m + 1, q, right)
    BY <2>5, <2>6 DEF l, r
  <2>10. /\ Stands(toks, p, q, left \cup right \cup {op})
         /\ ~check_parentheses(toks, p, q)
         /\ find_main_operator(toks, p, q) = m
    <3>1. /\ p \in Int /\ m \in Int /\ q \in Int /\ p <= m - 1 /\ m + 1 <= q
      BY <2>4
    <3>2. SplitAt(op, left, right)
      OBVIOUS
    <3> QED
      BY <2>8, <2>9, <3>1, <3>2, NodeStands
  <2>11. eval(toks)[<<p, q>>] = Apply(op, eval(toks)[<<p, m - 1>>], eval(toks)[<<m + 1, q>>])
    BY <2>3, <2>4, <2>8, <2>10, SplitEval
  <2>12. eval(toks)[<<p, q>>] = Apply(op, x, y)
    BY <2>5, <2>6, <2>11 DEF l, r
  <2> QED
    BY <2>10, <2>12 DEF q, kinds
<1> HIDE DEF c, kinds
<1>9. Phrase(c, Apply(op, x, y), kinds)
  BY <1>7, <1>8 DEF Phrase
<1> QED
  BY <1>9 DEF c, front, mid, kinds

-----------------------------------------------------------------------------
(* Every tree is written as a phrase, by what its operator is.                *)

Kinds(op) == IF op \in Sums THEN Sums \cup Products
             ELSE IF op \in Products THEN Products
             ELSE IF op \in Others THEN {op} ELSE {}

Good(t) == t.op \in Binary \cup {"leaf"} /\ Phrase(t.chars, t.val, Kinds(t.op))

(* Good trees grow into good trees.                                           *)
LEMMA PhraseMore ==
  ASSUME NEW c, NEW value, NEW few, NEW many, few \subseteq many, many # {}, Phrase(c, value, few)
  PROVE  Phrase(c, value, many)
<1>1. \A toks, p, q : Stands(toks, p, q, few) => Stands(toks, p, q, many)
  BY Zenon DEF Stands
<1> QED
  BY <1>1, Zenon DEF Phrase

LEMMA LoosePhrase ==
  ASSUME NEW t, Good(t), NEW ops
  PROVE  Phrase(Loose(t, ops), t.val, IF t.op \in ops THEN {} ELSE Kinds(t.op))
<1>1. CASE t.op \in ops
  <2>1. Loose(t, ops) = <<Sym("(")>> \o t.chars \o <<Sym(")")>>
    BY <1>1 DEF Loose
  <2>2. Phrase(t.chars, t.val, Kinds(t.op))
    BY DEF Good
  <2>3. Phrase(<<Sym("(")>> \o t.chars \o <<Sym(")")>>, t.val, {})
    <3> DEFINE a == t.chars
               v == t.val
               k == Kinds(t.op)
    <3>1. Phrase(a, v, k)
      BY <2>2
    <3> HIDE DEF a, v, k
    <3>2. Phrase(<<Sym("(")>> \o a \o <<Sym(")")>>, v, {})
      BY <3>1, ParenPhrase
    <3> QED
      BY <3>2 DEF a, v
  <2>4. Phrase(Loose(t, ops), t.val, {})
    BY <2>1, <2>3
  <2> QED
    BY <1>1, <2>4
<1>2. CASE t.op \notin ops
  <2>1. Loose(t, ops) = t.chars
    BY <1>2 DEF Loose
  <2> QED
    BY <1>2, <2>1 DEF Good
<1> QED
  BY <1>1, <1>2

LEMMA LevelsAre ==
  /\ \A t \in Sums : operator_level(t) = 4
  /\ \A t \in Products : operator_level(t) = 3
  /\ Binary = Sums \cup Products \cup Others
  /\ Sums \cap Products = {} /\ Sums \cap Others = {} /\ Products \cap Others = {}
  /\ "leaf" \notin Binary
BY DEF operator_level, Sums, Products, Others, Binary

LEMMA NodeGood ==
  ASSUME NEW op \in Binary, NEW a, NEW b, Good(a), Good(b)
  PROVE  Good(Node(op, a, b))
<1> DEFINE lower == IF op \in Sums THEN Others ELSE IF op \in Products THEN Others \cup Sums ELSE Binary
           upper == IF op \in Sums THEN Others \cup Sums
                    ELSE IF op \in Products THEN Others \cup Sums \cup Products ELSE Binary
           left == IF a.op \in lower THEN {} ELSE Kinds(a.op)
           right == IF b.op \in upper THEN {} ELSE Kinds(b.op)
           x == Loose(a, lower)
           y == Loose(b, upper)
           u == a.val
           v == b.val
           chars == x \o <<Sym(op)>> \o y
           whole == left \cup right \cup {op}
<1>1. /\ a.op \in Binary \cup {"leaf"} /\ b.op \in Binary \cup {"leaf"}
  BY DEF Good
<1>2. SplitAt(op, left, right) /\ whole \subseteq Kinds(op) /\ Kinds(op) # {}
  <2>1. CASE op \in Sums
    <3>1. left \subseteq Sums \cup Products /\ right \subseteq Products
      BY <1>1, <2>1, LevelsAre DEF Kinds
    <3> HIDE DEF left, right
    <3> QED
      BY <2>1, <3>1, LevelsAre DEF Kinds, SplitAt
  <2>2. CASE op \in Products
    <3>1. left \subseteq Products /\ right = {}
      BY <1>1, <2>2, LevelsAre DEF Kinds
    <3> HIDE DEF left, right
    <3> QED
      BY <2>2, <3>1, LevelsAre DEF Kinds, SplitAt
  <2>3. CASE op \in Others
    <3>1. left = {} /\ right = {}
      BY <1>1, <2>3, LevelsAre DEF Kinds
    <3> HIDE DEF left, right
    <3> QED
      BY <2>3, <3>1, LevelsAre DEF Kinds, SplitAt
  <2> QED
    BY <2>1, <2>2, <2>3, LevelsAre
<1>3. Phrase(x, u, left) /\ Phrase(y, v, right)
  BY LoosePhrase
<1>4. Node(op, a, b) = [op |-> op, val |-> Apply(op, u, v), chars |-> chars]
  <2>1. CASE op \in Sums
    BY <2>1, LevelsAre, Zenon DEF Node
  <2>2. CASE op \in Products
    BY <2>2, LevelsAre, Zenon DEF Node
  <2>3. CASE op \in Others
    BY <2>3, LevelsAre, Zenon DEF Node
  <2> QED
    BY <2>1, <2>2, <2>3, LevelsAre
<1> HIDE DEF lower, upper, left, right, x, y, u, v
<1>5. Phrase(chars, Apply(op, u, v), whole)
  BY <1>2, <1>3, NodePhrase
<1> DEFINE value == Apply(op, u, v)
<1> HIDE DEF chars, whole, value
<1>6. Phrase(chars, value, Kinds(op))
  BY <1>2, <1>5, PhraseMore DEF value
<1>7. Node(op, a, b) = [op |-> op, val |-> value, chars |-> chars]
  BY <1>4 DEF value
<1> QED
  BY <1>6, <1>7 DEF Good

LEMMA UnaryGood ==
  ASSUME NEW a, Good(a)
  PROVE  Good(Minus(a)) /\ Good(Memory(a))
<1> DEFINE x == Loose(a, Binary)
           u == a.val
           chars(sign) == <<Sym("("), Sym(sign)>> \o x \o <<Sym(")")>>
<1>1. Kinds("leaf") = {}
  BY LevelsAre DEF Kinds
<1>2. Phrase(x, u, {})
  <2>1. Phrase(x, u, IF a.op \in Binary THEN {} ELSE Kinds(a.op))
    BY LoosePhrase
  <2>2. a.op \notin Binary => Kinds(a.op) = {}
    BY <1>1 DEF Good
  <2> HIDE DEF x, u
  <2> QED
    BY <2>1, <2>2
<1>3. /\ Minus(a) = [op |-> "leaf", val |-> Unary("-", u), chars |-> chars("-")]
      /\ Memory(a) = [op |-> "leaf", val |-> Unary("*", u), chars |-> chars("*")]
  BY DEF Minus, Memory, Unary
<1> HIDE DEF x, u
<1>4. \A sign \in {"-", "*"} : Phrase(chars(sign), Unary(sign, u), {})
  BY <1>2, UnaryPhrase
<1> HIDE DEF chars
<1>5. ASSUME NEW sign \in {"-", "*"}, NEW t, t = [op |-> "leaf", val |-> Unary(sign, u), chars |-> chars(sign)]
      PROVE  Good(t)
  <2> DEFINE value == Unary(sign, u)
             c == chars(sign)
  <2>1. Phrase(c, value, {})
    BY <1>4
  <2> HIDE DEF value, c
  <2>2. t = [op |-> "leaf", val |-> value, chars |-> c]
    BY <1>5 DEF value, c
  <2> QED
    BY <1>1, <2>1, <2>2 DEF Good
<1> QED
  BY <1>3, <1>5

LEMMA LeafGood ==
  ASSUME NEW v \in Atoms
  PROVE  Good(Leaf(v))
<1>1. Kinds("leaf") = {}
  BY LevelsAre DEF Kinds
<1>2. Phrase(<<Num(v)>>, v, {})
  BY LeafPhrase
<1> DEFINE c == <<Num(v)>>
<1>3. Leaf(v) = [op |-> "leaf", val |-> v, chars |-> c]
  BY DEF Leaf
<1> HIDE DEF c
<1>4. Leaf(v).op = "leaf" /\ Leaf(v).val = v /\ Leaf(v).chars = c
  BY <1>3
<1> QED
  BY <1>1, <1>2, <1>4 DEF Good, c

LEMMA GrownGood ==
  ASSUME NEW trees, \A t \in trees : Good(t)
  PROVE  \A t \in Grown(trees) : Good(t)
BY NodeGood, UnaryGood DEF Grown

UpToTree(f, k) ==
  f = [i \in 0 .. Levels |-> IF i = 0 THEN {Leaf(v) : v \in Numbers}
                             ELSE IF i <= k THEN Grown(f[i - 1]) ELSE {}]

LEMMA TreeStep ==
  ASSUME NEW k \in Nat, NEW f, UpToTree(f, k)
  PROVE  \E g : UpToTree(g, k + 1)
<1> DEFINE len == Levels
           leaves == {Leaf(v) : v \in Numbers}
           of(v, j) == [i \in 0 .. len |-> IF i = 0 THEN leaves ELSE IF i <= j THEN Grown(v[i - 1]) ELSE {}]
           g == of(f, k + 1)
<1> HIDE DEF leaves
<1>0. len \in Nat
  BY ExprAssumption
<1>1. f = of(f, k)
  BY DEF UpToTree, leaves
<1>2. \A i \in 0 .. len : i <= k => f[i] = of(f, k)[i] /\ g[i] = of(f, k)[i]
  <2>1. \A i \in 0 .. len : i <= k => i <= k + 1
    BY <1>0
  <2> QED
    BY <1>1, <2>1
<1>3. \A i \in 0 .. len : i # 0 /\ i <= k + 1 => i - 1 \in 0 .. len /\ i - 1 <= k
  BY <1>0
<1>4. \A i \in 0 .. len : i # 0 /\ i <= k + 1 => f[i - 1] = g[i - 1]
  BY <1>2, <1>3
<1> HIDE DEF g
<1>5. g = of(f, k + 1)
  BY DEF g
<1>6. g = of(g, k + 1)
  <2>1. \A i \in 0 .. len : of(f, k + 1)[i] = of(g, k + 1)[i]
    BY <1>4
  <2> QED
    BY <1>5, <2>1
<1> QED
  BY <1>6 DEF UpToTree, leaves

LEMMA TreesGood == \A t \in Trees : Good(t)
<1> DEFINE len == Levels
           leaves == {Leaf(v) : v \in Numbers}
           S == {k \in Nat : \E f : UpToTree(f, k)}
           whole(v) == [i \in 0 .. len |-> IF i = 0 THEN leaves ELSE Grown(v[i - 1])]
           upto == CHOOSE v : v = whole(v)
           T == {k \in Nat : k <= len => \A t \in upto[k] : Good(t)}
<1>0. len \in Nat
  BY ExprAssumption
<1>1. 0 \in S
  <2> HIDE DEF leaves
  <2> DEFINE f == [i \in 0 .. len |-> IF i = 0 THEN leaves ELSE {}]
             g == [i \in 0 .. len |-> IF i = 0 THEN leaves ELSE IF i <= 0 THEN Grown(f[i - 1]) ELSE {}]
  <2>1. \A i \in 0 .. len : i # 0 => ~(i <= 0)
    BY <1>0
  <2>2. f = g
    BY <2>1
  <2> HIDE DEF f
  <2> QED
    BY <2>2 DEF UpToTree, leaves
<1>2. \A k \in S : k + 1 \in S
  BY TreeStep
<1>3. len \in S
  <2>1. S \in SUBSET Nat
    OBVIOUS
  <2> HIDE DEF S
  <2> QED
    BY <1>0, <1>1, <1>2, <2>1, SetInduction
<1>4. PICK f : UpToTree(f, len)
  BY <1>3
<1>5. f = whole(f)
  <2>1. \A i \in 0 .. len : i <= len
    BY <1>0
  <2> QED
    BY <1>4, <2>1 DEF UpToTree
<1>6. upto = whole(upto)
  BY <1>5, Zenon
<1>7. Trees = upto[len]
  BY DEF Trees
<1> HIDE DEF upto
<1>8. 0 \in T
  <2>1. upto[0] = leaves
    BY <1>0, <1>6
  <2> QED
    BY <2>1, LeafGood DEF Atoms
<1>9. ASSUME NEW k \in T PROVE k + 1 \in T
  <2> SUFFICES ASSUME k + 1 <= len PROVE \A t \in upto[k + 1] : Good(t)
    OBVIOUS
  <2>1. k \in Nat /\ k <= len /\ k + 1 \in 0 .. len /\ k + 1 # 0 /\ (k + 1) - 1 = k
    BY <1>0
  <2>2. \A t \in upto[k] : Good(t)
    BY <2>1
  <2>3. upto[k + 1] = Grown(upto[k])
    BY <1>6, <2>1
  <2> QED
    BY <2>2, <2>3, GrownGood
<1>10. len \in T
  <2>1. T \in SUBSET Nat
    OBVIOUS
  <2> HIDE DEF T
  <2> QED
    BY <1>0, <1>8, <1>9, <2>1, SetInduction
<1> QED
  BY <1>0, <1>7, <1>10

(* The value of a phrase is what p prints.                                    *)
LEMMA PhraseIsValue ==
  ASSUME NEW c, NEW value, NEW kinds, Phrase(c, value, kinds)
  PROVE  expr(c) = value
<1> DEFINE toks == make_token(c)
<1>1. c \in Seq(Chars) /\ c # <<>> /\ Len(c) \in Nat \ {0}
  BY DEF Phrase
<1>2. /\ Len(toks) = Len(c)
      /\ \A k \in 1 .. Len(c) : toks[k] = token_after(Before(toks, k), c[k])
  BY <1>1, TokensAre
<1> HIDE DEF toks
<1> DEFINE one == 1
<1>3. one \in 1 .. Len(toks) /\ one + Len(c) - 1 = Len(c) /\ \A k \in 1 .. Len(c) : one + k - 1 = k
  BY <1>1, <1>2
<1>4. Placed(toks, one, c)
  <2> HIDE DEF one
  <2> QED
    BY <1>1, <1>2, <1>3 DEF Placed
<1>5. eval(toks)[<<one, Len(c)>>] = value
  <2> HIDE DEF one
  <2> QED
    BY <1>3, <1>4, PhraseAt
<1> QED
  BY <1>5 DEF expr, toks, one

(* The debugger answers every expression that is written as Trees writes it   *)
(* with the value it means: whatever the numbers in it and however deep it is *)
(* (up to the 1000 tokens of the array), for every word size and memory       *)
(* (expr.cpp:89-323).                                                         *)
THEOREM SpecEvaluatesRightly == ExprSpec => []EvaluatesRightly
<1> DEFINE TypedGood == Good(typed)
<1>1. ExprInit => TypedGood
  <2>1. 0 \in Atoms
    BY DEF Atoms
  <2> QED
    BY <2>1, LeafGood DEF ExprInit, Nothing
<1>2. TypedGood /\ [cmd_p \/ Answered]_typed => TypedGood'
  <2> SUFFICES ASSUME TypedGood, [cmd_p \/ Answered]_typed PROVE TypedGood'
    OBVIOUS
  <2>1. CASE cmd_p
    <3>1. typed' \in Trees
      BY <2>1 DEF cmd_p
    <3> QED
      BY <3>1, TreesGood
  <2>2. CASE Answered
    <3>1. typed' = Leaf(0) /\ 0 \in Atoms
      BY <2>2 DEF Answered, Nothing, Atoms
    <3> QED
      BY <3>1, LeafGood
  <2>3. CASE typed' = typed
    BY <2>3
  <2> QED
    BY <2>1, <2>2, <2>3
<1>3. TypedGood => EvaluatesRightly
  BY PhraseIsValue DEF Good, EvaluatesRightly
<1> QED
  BY <1>1, <1>2, <1>3, PTL DEF ExprSpec
==============================================================================
