------------------------------ MODULE Simulator ------------------------------
(* The simulator program: the debugger's command loop (sdb.cpp), the run loop *)
(* of cpu.cpp around the core, end of program and exit status (rv32e.cpp),    *)
(* devices reached by the debugger (paddr.cpp, device/), with differential    *)
(* testing and watchpoints built in.                                          *)
(*                                                                            *)
(* One step is one command up to the call of cpu_exec, one call of            *)
(* trace_and_difftest, or one clock cycle with what the loops do after it.    *)
EXTENDS DiffTest, FiniteSets, Sequences

CONSTANTS NR_WP, Exprs, DeviceExprs, Readings, MaxSteps,
          PMem, Devs, Low, High, ScanAddrs, MaxWords

Pool == INSTANCE WatchPool
Dev  == INSTANCE Devices

ASSUME DevicesRegistered ==
    \A d \in Devs : Dev!add_mmio_map_accepts(d, Devs \ {d})

(* "x" stands for the expressions that read a register and no device.         *)
ASSUME WatchAssumption == NR_WP \in Nat \ {0} /\ "x" \notin DeviceExprs

Forever == MaxSteps + 1         \* cpu_exec(-1)

VARIABLES
    npc_state, halt_ret,
    at,             \* "prompt", "trace", "cycle", "exit" (of main) or "dead" (assert)
    n,              \* instructions cpu_exec has left
    pool,
    is_batch_mode,
    escaped         \* history: a mismatch was found and the verdict overwritten

ctl_vars == <<npc_state, halt_ret, at, n>>
vars == <<diff_vars, ctl_vars, pool, escaped, is_batch_mode>>

(* init_monitor, reset and init_difftest; batch mode starts with cpu_exec.    *)
Init ==
    /\ init_difftest
    /\ halt_ret = Zero
    /\ is_batch_mode \in BOOLEAN
    /\ IF is_batch_mode THEN npc_state = "RUNNING" /\ at = "trace" /\ n = Forever
                        ELSE npc_state = "STOP" /\ at = "prompt" /\ n = 0
    /\ pool = Pool!init_wp_pool
    /\ escaped = FALSE

-------------------------------------------------------------------------------
(* Commands.  help, info and itrace only print, an empty line and an unknown  *)
(* command do nothing, and si with no or a bad number steps once.             *)
AtPrompt == at = "prompt" /\ UNCHANGED is_batch_mode

(* c and si: after the end of the program cpu_exec refuses.                   *)
cpu_exec(count) ==
    /\ AtPrompt
    /\ npc_state \notin {"END", "ABORT"}
    /\ npc_state' = "RUNNING" /\ at' = "trace" /\ n' = count
    /\ UNCHANGED <<diff_vars, halt_ret, pool, escaped>>

cmd_q ==
    /\ AtPrompt
    /\ npc_state' = "QUIT" /\ at' = "exit"
    /\ UNCHANGED <<diff_vars, halt_ret, n, pool, escaped>>

(* rl_gets returns NULL at the end of the input.                              *)
EndOfInput ==
    /\ AtPrompt
    /\ at' = "exit"
    /\ UNCHANGED <<diff_vars, npc_state, halt_ret, n, pool, escaped>>

(* The values one evaluation of e can give: -1 is an invalid expression.      *)
Values(e) == IF e \in DeviceExprs THEN Readings
             ELSE IF e = "x" THEN {dut.x} ELSE {-1}

cmd_w(e) ==
    /\ AtPrompt
    /\ \E v1, v2 \in Values(e) : pool' = Pool!cmd_w(pool, e, <<v1, v2>>)
    /\ IF e \in DeviceExprs /\ pool.free # Pool!Null
       THEN DebuggerReads ELSE UNCHANGED diff_vars
    /\ UNCHANGED <<ctl_vars, escaped>>

cmd_d(no) ==
    /\ AtPrompt
    /\ pool' = Pool!cmd_d(pool, no)
    /\ UNCHANGED <<diff_vars, ctl_vars, escaped>>

(* x, and p with a memory operand.  A device read raises the skip flag; the   *)
(* serial port, and an address nobody answers at, end the simulator.          *)
cmd_x(addr, words) ==
    /\ AtPrompt
    /\ IF ~Dev!ScanSurvives(addr, words) THEN at' = "dead" /\ UNCHANGED diff_vars
       ELSE /\ UNCHANGED at
            /\ IF Dev!ScanRaisesSkip(addr, words) THEN DebuggerReads ELSE UNCHANGED diff_vars
    /\ UNCHANGED <<npc_state, halt_ret, n, pool, escaped>>

-------------------------------------------------------------------------------
(* The loop over the watchpoints stops at the first that has changed.  read   *)
(* is what each cell's expression gives, if it is evaluated.                  *)
List == Pool!InUse(pool)
Changed(read) == {i \in DOMAIN List : read[List[i]] # pool.old_val[List[i]]}
First(read) == IF Changed(read) = {} THEN Len(List)
               ELSE CHOOSE i \in Changed(read) : \A j \in Changed(read) : i <= j
TouchesDevice(read) == \E i \in 1 .. First(read) : pool.expr[List[i]] \in DeviceExprs

Readable == {read \in [Pool!Cells -> Readings \cup {dut.x}] :
               \A w \in Pool!Cells :
                 read[w] \in IF \E i \in DOMAIN List : List[i] = w
                             THEN Values(pool.expr[w]) ELSE {dut.x}}

check_watchpoints_head_only(read) ==
    pool' = IF List # <<>> /\ 1 \in Changed(read)
            THEN [pool EXCEPT !.old_val[List[1]] = read[List[1]]] ELSE pool
check_watchpoints(read) ==
    pool' = IF Changed(read) = {} THEN pool
            ELSE [pool EXCEPT !.old_val[List[First(read)]] = read[List[First(read)]]]

(* A watchpoint that has changed decides over a mismatch found just before.   *)
trace_and_difftest ==
    /\ at = "trace" /\ at' = "cycle"
    /\ \E read \in Readable :
         /\ Compare(TouchesDevice(read))
         /\ check_watchpoints(read)
         /\ npc_state' = IF pool' # pool THEN "STOP"
                         ELSE IF Mismatch THEN "ABORT" ELSE npc_state
         /\ escaped' = (escaped \/ (Mismatch /\ pool' # pool))
    /\ UNCHANGED <<halt_ret, n, is_batch_mode>>

(* After a cycle: the loop of execute_once goes on while the fetch address    *)
(* stands still, that of execute for n addresses, and cpu_exec returns.       *)
Loops(state, moved) ==
    IF state = "RUNNING" /\ ~moved
    THEN /\ at' = "trace" /\ npc_state' = state
         /\ UNCHANGED n
    ELSE IF state # "RUNNING" \/ n = 1
         THEN /\ at' = IF is_batch_mode THEN "exit" ELSE "prompt"
              /\ npc_state' = IF state = "RUNNING" THEN "STOP" ELSE state
              /\ n' = 0
         ELSE /\ at' = "trace" /\ npc_state' = state
              /\ n' = IF n = Forever THEN n ELSE n - 1

single_cycle ==
    /\ at = "cycle"
    /\ \E d \in 0..1, moved \in BOOLEAN :
         \/ /\ Cycle(d)
            /\ Loops(npc_state, moved)
            /\ UNCHANGED <<halt_ret, escaped>>
         \/ /\ BreakCycle(d)
            /\ halt_ret' = dut.x       \* a0 before the edge
            /\ Loops("END", moved)
            /\ escaped' = (escaped \/ npc_state = "ABORT")
    /\ UNCHANGED <<pool, is_batch_mode>>

(* main has returned, or an assertion has failed.                             *)
Over == at \in {"exit", "dead"} /\ UNCHANGED vars

Next ==
    \/ \E count \in 1 .. Forever : cpu_exec(count)
    \/ cmd_q \/ EndOfInput
    \/ \E e \in Exprs : cmd_w(e)
    \/ \E no \in 1 .. NR_WP : cmd_d(no)
    \/ \E addr \in ScanAddrs, words \in 1 .. MaxWords : cmd_x(addr, words)
    \/ trace_and_difftest
    \/ single_cycle
    \/ Over

Spec == Init /\ [][Next]_vars

is_exit_status_bad == ~((npc_state = "END" /\ halt_ret = Zero) \/ npc_state = "QUIT")

-------------------------------------------------------------------------------
(* Differential testing does not accuse a core that has computed everything   *)
(* rightly, over any delay of device loads and draining stores, any stop of   *)
(* the debugger and any read it does.                                         *)
NoFalseAlarm == honest => npc_state # "ABORT"

(* A run that ends well computed rightly everything that had retired when the *)
(* last clock cycle began, but for the two ways in which the program loses a  *)
(* mismatch: a skipped instruction copies the wrong value into the reference, *)
(* and the ABORT of a mismatch is overwritten by a watchpoint or an ebreak    *)
(* before anybody sees it.  The instruction that retires in that cycle, which *)
(* is the one right before the ebreak when they follow each other without a   *)
(* gap, is never compared: execute_once leaves its loop before it is, and     *)
(* halt_ret is read before it writes its register.                            *)
VerdictIsEarned ==
    npc_state = "END" => judged \/ absorbed \/ escaped

(* While the program runs on, every watchpoint on a register has been shown   *)
(* its value: no change goes by without a stop.                               *)
NoChangeMissed ==
    at = "cycle" /\ npc_state \in {"RUNNING", "ABORT"} =>
        \A i \in DOMAIN List : pool.expr[List[i]] = "x" => pool.old_val[List[i]] = dut.x

(* The linked cells are the list the debugger promises, over any order of     *)
(* setting, deleting and changing.                                            *)
Watches == INSTANCE WatchList WITH watches <- Pool!Listed(pool), Words <- Words \cup Readings
PoolIsList == Watches!Spec
==============================================================================
