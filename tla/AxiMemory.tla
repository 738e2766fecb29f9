------------------------------ MODULE AxiMemory -----------------------------
(***************************************************************************)
(* Below the two caches: vsrc/axi_bridge.v, which lets the I-cache and the *)
(* D-cache take turns on the one AXI port, the memory simple-SoC/SRAM.v    *)
(* behind it, and the refill side of vsrc/icache.v as the other master.    *)
(* BridgeClock, SramClock and IcacheClock are one edge of each; their      *)
(* arguments are the D-cache's AXI outputs in that cycle.                  *)
(*                                                                         *)
(* Word addresses here are main memory (0x8000_0000 up): neither the CLINT *)
(* nor the UART answers. Instruction words are not represented, so a       *)
(* refill beat leaves rdata as it was.                                     *)
(***************************************************************************)
EXTENDS Naturals

CONSTANTS
  Words,  (* word addresses *)
  Lanes,  (* byte lanes of a word *)
  Data,   (* what a byte may hold; 0 is the content after init_mem *)
  ARLEN   (* beats of an I-cache refill, less one *)

ASSUME AxiMemoryAssumption == 0 \in Data /\ ARLEN \in Nat

VARIABLES
  current_master,  (* axi_bridge.v: who owns the port *)
  icache,          (* icache.v: state and read-channel registers *)
  sram,            (* SRAM.v: registers, all but the array *)
  mem              (* the memory behind the DPI calls *)

busVars == <<current_master, icache, sram, mem>>

Content == [Words -> [Lanes -> Data]]

BusInit ==
  /\ current_master = "IDLE"
  /\ icache = [state |-> "IDLE", arvalid |-> FALSE, ar_done |-> FALSE,
               rready |-> FALSE]
  /\ sram = [state |-> "IDLE", is_read_req |-> FALSE, is_write_req |-> FALSE,
             rvalid |-> FALSE, rlast |-> FALSE, rd_burst |-> FALSE, rd_cnt |-> 0,
             read_addr |-> CHOOSE w \in Words : TRUE,
             rdata |-> [l \in Lanes |-> 0],
             awready |-> FALSE, wready |-> FALSE, bvalid |-> FALSE]
  /\ mem = [w \in Words |-> [l \in Lanes |-> 0]]

-----------------------------------------------------------------------------
(* The bridge. The slave's arready is 1 from reset on. *)

ForIfu == current_master = "IFU_ACCESS"
ForLsu == current_master = "LSU_ACCESS"

BridgeClock(arvalid, awvalid, rready, bready, fence_done) ==
  current_master' =
    CASE current_master = "IDLE" ->
           IF arvalid \/ awvalid THEN "LSU_ACCESS"
           ELSE IF icache.arvalid /\ fence_done THEN "IFU_ACCESS" ELSE "IDLE"
      [] ForIfu -> IF sram.rvalid /\ icache.rready /\ sram.rlast
                     THEN "IDLE" ELSE "IFU_ACCESS"
      [] ForLsu -> IF \/ sram.rvalid /\ rready /\ sram.rlast
                      \/ sram.bvalid /\ bready
                     THEN "IDLE" ELSE "LSU_ACCESS"

(* The I-cache's bus side: a miss reads one block, then fills it. *)
IcacheClock(miss) ==
  CASE icache.state = "IDLE" ->
         icache' = [icache EXCEPT !.state = IF miss THEN "READ" ELSE "IDLE",
                                  !.rready = FALSE, !.ar_done = FALSE]
    [] icache.state = "READ" ->
         LET ask    == ~icache.arvalid /\ ~icache.ar_done
             answer == ~ask /\ ForIfu
         IN  icache' = [icache EXCEPT
               !.state   = IF ForIfu /\ sram.rvalid /\ icache.rready /\ sram.rlast
                             THEN "FILL" ELSE "READ",
               !.rready  = TRUE,
               !.arvalid = IF ask THEN TRUE ELSE IF answer THEN FALSE ELSE @,
               !.ar_done = @ \/ answer]
    [] icache.state = "FILL" ->
         icache' = [icache EXCEPT !.state = "IDLE", !.rready = FALSE]

-----------------------------------------------------------------------------
(* The memory. ar* and aw* are what the bridge lets through to the slave.  *)

SramIdle(arvalid, burst, araddr, awvalid) ==
  LET accept_write == awvalid /\ ~arvalid
  IN  /\ sram.state = "IDLE"
      /\ sram' = [sram EXCEPT
           !.state        = IF arvalid \/ awvalid THEN "BUSY" ELSE "IDLE",
           !.rvalid       = FALSE,
           !.rlast        = FALSE,
           !.bvalid       = FALSE,
           !.is_read_req  = arvalid,
           !.is_write_req = accept_write,
           !.wready       = accept_write,
           !.awready      = @ \/ accept_write,
           !.read_addr    = IF arvalid /\ ~burst THEN araddr ELSE @,
           !.rd_burst     = IF arvalid THEN burst ELSE @,
           !.rd_cnt       = IF ~arvalid THEN @ ELSE IF burst THEN ARLEN ELSE 0]
      /\ mem' = mem

(* A single read answers with one beat, a burst counts its beats down.     *)
SramRead(rready) ==
  LET taken == sram.rvalid /\ rready
  IN  /\ sram.state = "BUSY"
      /\ sram.is_read_req
      /\ sram' = [sram EXCEPT
           !.state  = IF sram.rlast /\ sram.rvalid THEN "IDLE" ELSE "BUSY",
           !.rdata  = IF sram.rd_burst THEN @ ELSE mem[sram.read_addr],
           !.rvalid = ~(taken /\ (sram.rd_burst => sram.rd_cnt = 0)),
           !.rlast  = IF sram.rd_burst THEN sram.rd_cnt = 1 ELSE ~taken,
           !.rd_cnt = IF sram.rd_burst /\ taken /\ sram.rd_cnt > 0 THEN @ - 1 ELSE @]
      /\ mem' = mem

(* The write strobe happens in this edge: pmem_write with the live W data. *)
SramTakes(wvalid) == sram.state = "BUSY" /\ sram.is_write_req /\ wvalid /\ sram.wready

SramWrite(wvalid, store, bready) ==
  LET take == SramTakes(wvalid)
      done == sram.bvalid /\ bready
  IN  /\ sram.state = "BUSY"
      /\ sram.is_write_req
      /\ sram' = [sram EXCEPT
           !.state   = IF done THEN "IDLE" ELSE "BUSY",
           !.wready  = @ /\ ~take,
           !.bvalid  = (@ \/ take) /\ ~done,
           !.awready = @ /\ ~done]
      /\ mem' = IF take
                  THEN [mem EXCEPT ![store.word] =
                          [l \in Lanes |-> IF l \in store.wstrb THEN store.data
                                                                ELSE @[l]]]
                  ELSE mem

(* What reaches the slave: the owner's channel, nothing when nobody owns.  *)
SramClock(arvalid, araddr, awvalid, store, rready, bready) ==
  \/ SramIdle(\/ ForIfu /\ icache.arvalid
              \/ ForLsu /\ arvalid, ForIfu, araddr, ForLsu /\ awvalid)
  \/ SramRead(IF ForIfu THEN icache.rready ELSE ForLsu /\ rready)
  \/ SramWrite(ForLsu /\ awvalid, store, ForLsu /\ bready)
=============================================================================
