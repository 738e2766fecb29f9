----------------------------- MODULE DeviceCache ----------------------------
(***************************************************************************)
(* vsrc/dcache.v as this core is built outside the YSYX SoC: is_mem is the *)
(* constant 0, so no access ever hits, no line is ever valid or dirty, the *)
(* write-back state is unreachable, and each access is one AXI transaction.*)
(* DcacheClock is one edge; req is the LSU's request in that cycle and the *)
(* remaining arguments are the AXI inputs the bridge passes on.            *)
(***************************************************************************)
EXTENDS Naturals

CONSTANT CACHE_BLOCKS  (* lines; fence.i visits them one by one *)

ASSUME CacheBlocksAssumption == CACHE_BLOCKS \in Nat \ {0}

VARIABLE dcache  (* the registers of dcache.v *)

(* The AXI address and data registers are not reset: aw, ar and device_rdata*)
(* start as anything and are written before they are read.                 *)
DcacheInit(anyStore, anyWord, anyData) ==
  dcache = [state |-> "IDLE", fence_done |-> TRUE, fence_ing |-> FALSE,
            fence_index |-> 0, device_done |-> FALSE, device_rdata |-> anyData,
            arvalid |-> FALSE, rready |-> FALSE, ar |-> anyWord,
            awvalid |-> FALSE, bready |-> FALSE, aw |-> anyStore]

(* lsu_ready of dcache.v *)
dcache_ready(req) == IF req.valid THEN dcache.device_done ELSE ~dcache.fence_ing

(* IDLE: a request raises its AXI valids in the same edge that leaves the  *)
(* state, towards MEM_BUSY or, if fence.i is in the EXU, towards FENCE.    *)
Idle(fence_en, req) ==
  /\ dcache.state = "IDLE"
  /\ dcache' = [dcache EXCEPT
       !.state       = IF fence_en THEN "FENCE"
                       ELSE IF req.valid THEN "MEM_BUSY" ELSE "IDLE",
       !.device_done = FALSE,
       !.fence_done  = ~fence_en,
       !.fence_ing   = fence_en,
       !.awvalid     = @ \/ (req.valid /\ req.we),
       !.aw          = IF req.valid /\ req.we THEN req.store ELSE @,
       !.arvalid     = @ \/ (req.valid /\ ~req.we),
       !.ar          = IF req.valid /\ ~req.we THEN req.word ELSE @]

(* MEM_BUSY: AW and W are taken together, then B; or AR, then R. Whether   *)
(* the write half runs is decided by the live lsu_we, not by a register.   *)
MemBusy(req, arready, rvalid, rdata, awready, wready, bvalid) ==
  LET sent     == req.we /\ dcache.awvalid /\ awready /\ wready
      answered == req.we /\ bvalid /\ dcache.bready
      read     == rvalid /\ dcache.rready
      asked    == dcache.arvalid /\ arready
  IN  /\ dcache.state = "MEM_BUSY"
      /\ dcache' = [dcache EXCEPT
           !.state        = IF dcache.device_done THEN "IDLE" ELSE "MEM_BUSY",
           !.device_done  = answered \/ read,
           !.awvalid      = @ /\ ~sent,
           !.bready       = (@ \/ sent) /\ ~answered,
           !.arvalid      = @ /\ ~asked,
           !.rready       = (@ \/ asked) /\ ~read,
           !.device_rdata = IF read THEN rdata ELSE @]

(* FENCE: one line a cycle; the last raises fence_done, one edge later the *)
(* state is left. No line is dirty here, so none is written back.          *)
Fence ==
  /\ dcache.state = "FENCE"
  /\ dcache' = [dcache EXCEPT
       !.state       = IF dcache.fence_done THEN "IDLE" ELSE "FENCE",
       !.device_done = FALSE,
       !.fence_ing   = @ /\ ~dcache.fence_done,
       !.fence_index = IF dcache.fence_done THEN @ ELSE (@ + 1) % CACHE_BLOCKS,
       !.fence_done  = @ \/ dcache.fence_index = CACHE_BLOCKS - 1]

DcacheClock(fence_en, req, arready, rvalid, rdata, awready, wready, bvalid) ==
  \/ Idle(fence_en, req)
  \/ MemBusy(req, arready, rvalid, rdata, awready, wready, bvalid)
  \/ Fence
=============================================================================
