---------------------------- MODULE MCSimulator ----------------------------
(* A program with a compressed instruction, two device stores, a device load, *)
(* a jump, a compressed instruction that forgets its operand, and ebreak.     *)
EXTENDS Simulator, SdbExpr, TLC

MCPc == {0, 2, 6, 10, 14, 20, 22}
MCKind == [pc \in {2, 6} |-> "store"] @@ (10 :> "load") @@ (22 :> "ebreak") @@ [pc \in MCPc |-> "plain"]
MCFollow == (0 :> 2) @@ (14 :> 20) @@ (20 :> 22) @@ (22 :> 22) @@ [pc \in MCPc |-> pc + 4]
MCWords == 0..1
MCResult == [pc \in MCPc |-> [x \in MCWords |-> IF pc = 20 THEN 0 ELSE 1 - x]]

(* A little memory, and the devices behind it.                                *)
MCPMem == 0..7
MCLow  == [serial |-> 8, rtc |-> 16, keyboard |-> 24]
MCHigh == [serial |-> 15, rtc |-> 23, keyboard |-> 27]

(* Expressions are typed at the first prompt.                                 *)
MCRead(addr) == (addr + 5) % 16

MCInit == Init /\ ExprInit
AtStart == at = "prompt" /\ dut.pc = Start /\ pool = Pool!init_wp_pool /\ npc_state = "STOP"
           /\ ~is_skip_ref /\ request = "none" /\ wbu = NoInst
MCNext ==
    \/ typed = Nothing /\ Next /\ UNCHANGED typed
    \/ AtStart /\ cmd_p /\ UNCHANGED vars
    \/ Answered /\ UNCHANGED vars
MCSpec == MCInit /\ [][MCNext]_<<vars, typed>>
============================================================================
