---------------------------- MODULE MemPathProofs ---------------------------
(***************************************************************************)
(* Proofs about MemPath: the store buffer, the LSU, the D-cache, the bridge*)
(* and the memory together, for every depth of the buffer, every number of *)
(* cache lines, every length of a refill, every set of words, lanes and    *)
(* stores. What is proved of the buffer under any client is taken from     *)
(* StoreBufferProofs, with the commit port in the client's place.          *)
(***************************************************************************)
EXTENDS MemPath, TLAPS

Ring == INSTANCE StoreBufferProofs WITH waiting <- Outstanding

-----------------------------------------------------------------------------
(* The execute stage as a client of the buffer *)

(* What an instruction carries. *)
LEMMA OpFacts ==
  ASSUME NEW op \in Ops \cup {Bubble}
  PROVE  /\ op.miss \in BOOLEAN
         /\ op.kind = "store" => op.at \in Stores
         /\ op.kind = "load" => op.at \in Words
<1>1. CASE op \in [kind : Kinds \cap {"load"}, at : Words, miss : BOOLEAN]
  BY <1>1
<1>2. CASE op \in [kind : Kinds \cap {"store"}, at : Stores, miss : BOOLEAN]
  BY <1>2
<1>3. CASE op \in [kind : Kinds \cap {"fence", "other"}, miss : BOOLEAN]
  BY <1>3
<1>4. CASE op = Bubble
  BY <1>4 DEF Bubble
<1>5. QED BY <1>1, <1>2, <1>3, <1>4 DEF Ops

DcacheType ==
  [state : {"IDLE", "MEM_BUSY", "FENCE"}, fence_done : BOOLEAN,
   fence_ing : BOOLEAN, fence_index : Nat, device_done : BOOLEAN,
   device_rdata : [Lanes -> Data], arvalid : BOOLEAN, rready : BOOLEAN,
   ar : Words, awvalid : BOOLEAN, bready : BOOLEAN, aw : Stores]

SramType ==
  [state : {"IDLE", "BUSY"}, is_read_req : BOOLEAN, is_write_req : BOOLEAN,
   rvalid : BOOLEAN, rlast : BOOLEAN, rd_burst : BOOLEAN, rd_cnt : Nat,
   read_addr : Words, rdata : [Lanes -> Data],
   awready : BOOLEAN, wready : BOOLEAN, bvalid : BOOLEAN]

RequestType == [valid : BOOLEAN, we : BOOLEAN, store : Stores, word : Words]

IcacheType ==
  [state : {"IDLE", "READ", "FILL"}, arvalid : BOOLEAN, ar_done : BOOLEAN,
   rready : BOOLEAN]

(* The types of all registers outside the buffer. *)
Types ==
  /\ ex \in Ops \cup {Bubble}
  /\ idu_valid \in BOOLEAN /\ flush_en \in BOOLEAN
  /\ fencei_killed \in BOOLEAN /\ cmt \in BOOLEAN
  /\ drain_active \in BOOLEAN /\ written \in BOOLEAN
  /\ dcache \in DcacheType
  /\ sram \in SramType
  /\ icache \in IcacheType
  /\ current_master \in {"IDLE", "IFU_ACCESS", "LSU_ACCESS"}
  /\ mem \in Content
  /\ arch \in Content

(* A reset commit port names entry 0; and no store stands in the execute   *)
(* stage while a fence.i is at work, since exu_ready would not release it  *)
(* although the buffer has taken it (exu.v:357, lsu.v:131).                *)
Reporting ==
  /\ ~cmt => cmt_stb_id = 0
  /\ ~dcache.fence_done => ex.kind # "store"

(* The choices of one edge. *)
Inputs(mdu_ready, next, pc_update, miss) ==
  /\ ex.kind # "other" => mdu_ready
  /\ ~exu_ready(mdu_ready) \/ flush_en => next = Bubble
  /\ Follows(next)
  /\ Edge(mdu_ready, next, pc_update, miss)

LEMMA NextInputs ==
  ASSUME Next
  PROVE  \E mdu_ready, pc_update, miss \in BOOLEAN, next \in Ops \cup {Bubble} :
           Inputs(mdu_ready, next, pc_update, miss)
  BY DEF Next, Inputs

LEMMA AnyStore ==
  /\ (CHOOSE s \in Stores : TRUE) \in Stores
  /\ (CHOOSE w \in Words : TRUE) \in Words
<1>1. PICK s \in Stores : s.word \in Words
  BY BufferAssumption
<1>2. QED BY <1>1

-----------------------------------------------------------------------------
(* The registers of the D-cache and of the memory keep their types in each *)
(* state.                                                                  *)

LEMMA IdleType ==
  ASSUME dcache \in DcacheType, NEW fence_en \in BOOLEAN, NEW req \in RequestType,
         Idle(fence_en, req)
  PROVE  dcache' \in DcacheType
<1> DEFINE s == IF fence_en THEN "FENCE" ELSE IF req.valid THEN "MEM_BUSY" ELSE "IDLE"
           b == ~fence_en
           e == dcache.awvalid \/ (req.valid /\ req.we)
           w == IF req.valid /\ req.we THEN req.store ELSE dcache.aw
           f == dcache.arvalid \/ (req.valid /\ ~req.we)
           r == IF req.valid /\ ~req.we THEN req.word ELSE dcache.ar
           g == FALSE
<1>1. /\ s \in {"IDLE", "MEM_BUSY", "FENCE"} /\ b \in BOOLEAN /\ e \in BOOLEAN
      /\ w \in Stores /\ f \in BOOLEAN /\ r \in Words /\ g \in BOOLEAN
  BY DEF DcacheType, RequestType
<1>2. dcache' = [dcache EXCEPT !.state = s, !.device_done = g, !.fence_done = b,
                   !.fence_ing = fence_en, !.awvalid = e, !.aw = w,
                   !.arvalid = f, !.ar = r]
  BY DEF Idle
<1> HIDE DEF s, b, e, w, f, r, g
<1>3. [dcache EXCEPT !.state = s, !.device_done = g, !.fence_done = b,
         !.fence_ing = fence_en, !.awvalid = e, !.aw = w,
         !.arvalid = f, !.ar = r] \in DcacheType
  BY <1>1 DEF DcacheType
<1>4. QED BY <1>2, <1>3

LEMMA MemBusyType ==
  ASSUME dcache \in DcacheType, NEW req \in RequestType,
         NEW arready \in BOOLEAN, NEW rvalid \in BOOLEAN, NEW rdata \in [Lanes -> Data],
         NEW awready \in BOOLEAN, NEW wready \in BOOLEAN, NEW bvalid \in BOOLEAN,
         MemBusy(req, arready, rvalid, rdata, awready, wready, bvalid)
  PROVE  dcache' \in DcacheType
<1> DEFINE sent     == req.we /\ dcache.awvalid /\ awready /\ wready
           answered == req.we /\ bvalid /\ dcache.bready
           read     == rvalid /\ dcache.rready
           asked    == dcache.arvalid /\ arready
           s == IF dcache.device_done THEN "IDLE" ELSE "MEM_BUSY"
           a == answered \/ read
           b == dcache.awvalid /\ ~sent
           c == (dcache.bready \/ sent) /\ ~answered
           d == dcache.arvalid /\ ~asked
           e == (dcache.rready \/ asked) /\ ~read
           f == IF read THEN rdata ELSE dcache.device_rdata
<1>1. /\ s \in {"IDLE", "MEM_BUSY", "FENCE"} /\ a \in BOOLEAN /\ b \in BOOLEAN
      /\ c \in BOOLEAN /\ d \in BOOLEAN /\ e \in BOOLEAN /\ f \in [Lanes -> Data]
  BY DEF DcacheType, RequestType
<1>2. dcache' = [dcache EXCEPT !.state = s, !.device_done = a, !.awvalid = b,
                   !.bready = c, !.arvalid = d, !.rready = e, !.device_rdata = f]
  BY DEF MemBusy
<1> HIDE DEF s, a, b, c, d, e, f
<1>3. [dcache EXCEPT !.state = s, !.device_done = a, !.awvalid = b,
         !.bready = c, !.arvalid = d, !.rready = e, !.device_rdata = f]
        \in DcacheType
  BY <1>1 DEF DcacheType
<1>4. QED BY <1>2, <1>3

LEMMA FenceType ==
  ASSUME dcache \in DcacheType, Fence
  PROVE  dcache' \in DcacheType
<1> DEFINE s == IF dcache.fence_done THEN "IDLE" ELSE "FENCE"
           g == FALSE
           a == dcache.fence_ing /\ ~dcache.fence_done
           i == IF dcache.fence_done THEN dcache.fence_index
                ELSE (dcache.fence_index + 1) % CACHE_BLOCKS
           b == dcache.fence_done \/ dcache.fence_index = CACHE_BLOCKS - 1
<1>1. /\ s \in {"IDLE", "MEM_BUSY", "FENCE"} /\ a \in BOOLEAN /\ b \in BOOLEAN
      /\ g \in BOOLEAN
  BY DEF DcacheType
<1>2. i \in Nat
  <2>1. dcache.fence_index \in Nat /\ dcache.fence_index + 1 \in Nat
    BY DEF DcacheType
  <2>2. (dcache.fence_index + 1) % CACHE_BLOCKS \in Nat
    BY <2>1, CacheBlocksAssumption
  <2>3. QED BY <2>1, <2>2
<1>3. dcache' = [dcache EXCEPT !.state = s, !.device_done = g, !.fence_ing = a,
                   !.fence_index = i, !.fence_done = b]
  BY DEF Fence
<1> HIDE DEF s, g, a, i, b
<1>4. [dcache EXCEPT !.state = s, !.device_done = g, !.fence_ing = a,
         !.fence_index = i, !.fence_done = b] \in DcacheType
  BY <1>1, <1>2 DEF DcacheType
<1>5. QED BY <1>3, <1>4

LEMMA SramIdleType ==
  ASSUME sram \in SramType, NEW arvalid \in BOOLEAN, NEW burst \in BOOLEAN,
         NEW awvalid \in BOOLEAN, NEW ar \in Words,
         SramIdle(arvalid, burst, ar, awvalid)
  PROVE  sram' \in SramType
<1> DEFINE accept_write == awvalid /\ ~arvalid
           f == FALSE
           s == IF arvalid \/ awvalid THEN "BUSY" ELSE "IDLE"
           b == sram.awready \/ accept_write
           r == IF arvalid /\ ~burst THEN ar ELSE sram.read_addr
           d == IF arvalid THEN burst ELSE sram.rd_burst
           n == IF ~arvalid THEN sram.rd_cnt ELSE IF burst THEN ARLEN ELSE 0
<1>1. /\ s \in {"IDLE", "BUSY"} /\ accept_write \in BOOLEAN /\ b \in BOOLEAN
      /\ r \in Words /\ d \in BOOLEAN /\ n \in Nat /\ f \in BOOLEAN
  BY AxiMemoryAssumption DEF SramType
<1>2. sram' = [sram EXCEPT !.state = s, !.rvalid = f, !.rlast = f, !.bvalid = f,
                 !.is_read_req = arvalid, !.is_write_req = accept_write,
                 !.wready = accept_write, !.awready = b, !.read_addr = r,
                 !.rd_burst = d, !.rd_cnt = n]
  BY DEF SramIdle
<1> HIDE DEF accept_write, s, b, r, d, n, f
<1>3. [sram EXCEPT !.state = s, !.rvalid = f, !.rlast = f, !.bvalid = f,
         !.is_read_req = arvalid, !.is_write_req = accept_write,
         !.wready = accept_write, !.awready = b, !.read_addr = r,
         !.rd_burst = d, !.rd_cnt = n] \in SramType
  BY <1>1 DEF SramType
<1>4. QED BY <1>2, <1>3

LEMMA SramReadType ==
  ASSUME sram \in SramType, mem \in Content, NEW rready \in BOOLEAN, SramRead(rready)
  PROVE  sram' \in SramType
<1> DEFINE taken == sram.rvalid /\ rready
           s == IF sram.rlast /\ sram.rvalid THEN "IDLE" ELSE "BUSY"
           d == IF sram.rd_burst THEN sram.rdata ELSE mem[sram.read_addr]
           v == ~(taken /\ (sram.rd_burst => sram.rd_cnt = 0))
           l == IF sram.rd_burst THEN sram.rd_cnt = 1 ELSE ~taken
           n == IF sram.rd_burst /\ taken /\ sram.rd_cnt > 0 THEN sram.rd_cnt - 1
                ELSE sram.rd_cnt
<1>0. sram.rd_cnt \in Nat /\ (sram.rd_cnt > 0 => sram.rd_cnt - 1 \in Nat)
  BY DEF SramType
<1>1. /\ s \in {"IDLE", "BUSY"} /\ d \in [Lanes -> Data]
      /\ v \in BOOLEAN /\ l \in BOOLEAN /\ n \in Nat
  BY <1>0 DEF SramType, Content
<1>2. sram' = [sram EXCEPT !.state = s, !.rdata = d, !.rvalid = v, !.rlast = l,
                 !.rd_cnt = n]
  BY DEF SramRead
<1> HIDE DEF s, d, v, l, n
<1>3. QED BY <1>1, <1>2 DEF SramType

LEMMA SramWriteType ==
  ASSUME sram \in SramType, mem \in Content, NEW wvalid \in BOOLEAN,
         NEW store \in Stores, NEW bready \in BOOLEAN, SramWrite(wvalid, store, bready)
  PROVE  sram' \in SramType /\ mem' \in Content
<1> DEFINE take == SramTakes(wvalid)
           answered == sram.bvalid /\ bready
           s == IF answered THEN "IDLE" ELSE "BUSY"
           w == sram.wready /\ ~take
           b == (sram.bvalid \/ take) /\ ~answered
           a == sram.awready /\ ~answered
           content == [l \in Lanes |-> IF l \in store.wstrb THEN store.data
                                       ELSE mem[store.word][l]]
<1>1. /\ s \in {"IDLE", "BUSY"}
      /\ w \in BOOLEAN /\ b \in BOOLEAN /\ a \in BOOLEAN
  BY DEF SramType
<1>2. sram' = [sram EXCEPT !.state = s, !.wready = w, !.bvalid = b, !.awready = a]
  BY DEF SramWrite
<1>3. sram' \in SramType
  <2> HIDE DEF s, w, b, a
  <2>1. QED BY <1>1, <1>2 DEF SramType
<1>4. content \in [Lanes -> Data] /\ store.word \in Words
  BY BufferAssumption, ByteAssumption DEF Content
<1>5. mem' = IF take THEN [mem EXCEPT ![store.word] = content] ELSE mem
  BY DEF SramWrite
<1>6. mem' \in Content
  <2> HIDE DEF content
  <2>1. QED BY <1>4, <1>5 DEF Content
<1>7. QED BY <1>3, <1>6
(* The types after an edge. *)
LEMMA TypesStep ==
  ASSUME Types, Ring!Consistent,
         NEW mdu_ready \in BOOLEAN, NEW pc_update \in BOOLEAN,
         NEW miss \in BOOLEAN, NEW next \in Ops \cup {Bubble},
         Inputs(mdu_ready, next, pc_update, miss)
  PROVE  Types'
<1> USE DEF Inputs, Edge, Types
<1>1. entry \in [Stb!Slots -> Stores] /\ drain_ptr \in Stb!Slots
  BY DEF Ring!Consistent, Ring!TypeOK, Ring!Slots, Stb!Slots
<1>2. (ex \in Ops \cup {Bubble})' /\ idu_valid' \in BOOLEAN
  BY DEF DecodeClock
<1>3. flush_en' \in BOOLEAN
  BY OpFacts DEF BruClock
<1>4. fencei_killed' \in BOOLEAN /\ cmt' \in BOOLEAN
  BY DEF ExuClock
<1>5. drain_active' \in BOOLEAN
  BY DEF LsuClock
<1>6. request \in RequestType
  <2>1. request.store \in Stores /\ request.word \in Words
    BY <1>1, AnyStore, OpFacts DEF request, is_read
  <2>2. (grant_load \/ grant_drain) \in BOOLEAN /\ grant_drain \in BOOLEAN
    BY DEF grant_drain
  <2>3. QED BY <2>1, <2>2 DEF request, RequestType
<1>7. dcache' \in DcacheType
  <2>1. DcacheClock(is_fencei, request, ForLsu, ForLsu /\ sram.rvalid, sram.rdata,
                 ForLsu /\ sram.awready, ForLsu /\ sram.wready,
                 ForLsu /\ sram.bvalid)
    BY DEF MemoryClock
  <2>2. /\ sram.rdata \in [Lanes -> Data] /\ is_fencei \in BOOLEAN
        /\ ForLsu \in BOOLEAN /\ (ForLsu /\ sram.rvalid) \in BOOLEAN
        /\ (ForLsu /\ sram.awready) \in BOOLEAN
        /\ (ForLsu /\ sram.wready) \in BOOLEAN
        /\ (ForLsu /\ sram.bvalid) \in BOOLEAN
    BY DEF SramType, ForLsu, is_fencei
  <2> HIDE DEF Inputs, Edge
  <2>3. QED BY <1>6, <2>1, <2>2, IdleType, MemBusyType, FenceType DEF DcacheClock
<1>8. current_master' \in {"IDLE", "IFU_ACCESS", "LSU_ACCESS"}
  BY DEF MemoryClock, BridgeClock, ForIfu, ForLsu
<1>9. icache' \in IcacheType
  BY DEF MemoryClock, IcacheClock, IcacheType
<1>10. sram' \in SramType /\ mem' \in Content
  <2>1. SramClock(dcache.arvalid, dcache.ar, dcache.awvalid, dcache.aw,
                  dcache.rready, dcache.bready)
    BY DEF MemoryClock
  <2>2. /\ dcache.ar \in Words /\ dcache.aw \in Stores
        /\ dcache.aw.word \in Words /\ dcache.aw.data \in Data
    BY BufferAssumption, ByteAssumption DEF DcacheType
  <2>3. mem[sram.read_addr] \in [Lanes -> Data]
    BY DEF SramType, Content
  <2>4. /\ (\/ ForIfu /\ icache.arvalid
            \/ ForLsu /\ dcache.arvalid) \in BOOLEAN
        /\ ForIfu \in BOOLEAN
        /\ (ForLsu /\ dcache.awvalid) \in BOOLEAN
        /\ (IF ForIfu THEN icache.rready ELSE ForLsu /\ dcache.rready) \in BOOLEAN
        /\ (ForLsu /\ dcache.bready) \in BOOLEAN
    BY DEF ForIfu, ForLsu, IcacheType, DcacheType
  <2>5. CASE SramIdle(\/ ForIfu /\ icache.arvalid
                      \/ ForLsu /\ dcache.arvalid, ForIfu, dcache.ar,
                      ForLsu /\ dcache.awvalid)
    <3> HIDE DEF Inputs, Edge
    <3>1. sram' \in SramType
      BY <2>2, <2>4, <2>5, SramIdleType
    <3>2. mem' = mem
      BY <2>5 DEF SramIdle
    <3>3. QED BY <3>1, <3>2
  <2>6. CASE SramRead(IF ForIfu THEN icache.rready ELSE ForLsu /\ dcache.rready)
    <3> HIDE DEF Inputs, Edge
    <3> DEFINE rready == IF ForIfu THEN icache.rready ELSE ForLsu /\ dcache.rready
    <3>1. SramRead(rready) /\ rready \in BOOLEAN
      BY <2>4, <2>6
    <3> HIDE DEF rready
    <3>2. sram' \in SramType
      BY <3>1, SramReadType
    <3>3. mem' = mem
      BY <3>1 DEF SramRead
    <3>4. QED BY <3>2, <3>3
  <2>7. CASE SramWrite(ForLsu /\ dcache.awvalid, dcache.aw, ForLsu /\ dcache.bready)
    BY <2>2, <2>4, <2>7, SramWriteType
  <2>8. QED BY <2>1, <2>5, <2>6, <2>7 DEF SramClock
<1>11. written' \in BOOLEAN
  BY DEF History
<1>12. arch' \in Content
  <2>1. CASE retires(mdu_ready) /\ is_write
    <3>1. ex.at \in Stores /\ ex.at.word \in Words /\ ex.at.data \in Data
      BY <2>1, OpFacts, BufferAssumption, ByteAssumption DEF is_write
    <3>2. [l \in Lanes |-> IF l \in ex.at.wstrb THEN ex.at.data
                           ELSE arch[ex.at.word][l]] \in [Lanes -> Data]
      BY <3>1 DEF Content
    <3>3. QED BY <2>1, <3>1, <3>2 DEF History, Content
  <2>2. CASE ~(retires(mdu_ready) /\ is_write)
    BY <2>2 DEF History
  <2>3. QED BY <2>1, <2>2
<1>13. QED BY <1>2, <1>3, <1>4, <1>5, <1>7, <1>8, <1>9, <1>10, <1>11, <1>12

-----------------------------------------------------------------------------
(* The execute stage reports every store once *)

(* The buffer takes a store in the very edge in which it retires. *)
LEMMA TakenWhenRetired ==
  ASSUME Types, Reporting,
         NEW mdu_ready \in BOOLEAN, ex.kind # "other" => mdu_ready
  PROVE  retires(mdu_ready) /\ is_write <=> lsu_en /\ is_write /\ Stb!stb_ready
  BY DEF Types, Reporting, DcacheType, retires, done, lsu_ready, lsu_en, is_write,
         is_read, is_fence

(* Every edge is one of the buffer and a client that reports the oldest    *)
(* store it has not reported.                                              *)
LEMMA StbStep ==
  ASSUME Types, Reporting,
         NEW mdu_ready \in BOOLEAN, NEW pc_update \in BOOLEAN,
         NEW miss \in BOOLEAN, NEW next \in Ops \cup {Bubble},
         Inputs(mdu_ready, next, pc_update, miss)
  PROVE  Stb!Next
<1> DEFINE lsu_valid == lsu_en /\ is_write
           store == IF is_write THEN ex.at ELSE CHOOSE s \in Stores : TRUE
           drained == stb_drain_ready
<1>1. /\ lsu_valid \in BOOLEAN /\ drained \in BOOLEAN /\ cmt \in BOOLEAN
      /\ flush_en \in BOOLEAN /\ store \in Stores
  BY AnyStore, OpFacts DEF Types, stb_drain_ready, is_write
<1>2. Stb!Clock(flush_en, lsu_valid, store, cmt, cmt_stb_id, drained)
  BY DEF Inputs, Edge, StbClock
<1>3. /\ cmt => Outstanding = <<cmt_stb_id>> /\ Outstanding # << >>
      /\ cmt_stb_id = IF cmt THEN Head(Outstanding) ELSE 0
      /\ Stb!Unreported(cmt) = << >>
  BY DEF Outstanding, Reporting, Stb!Unreported
<1>4. /\ cmt' <=> lsu_valid /\ Stb!stb_ready
      /\ lsu_valid /\ Stb!stb_ready => cmt_stb_id' = alloc_ptr
  BY TakenWhenRetired DEF Inputs, Edge, ExuClock
<1>5. Outstanding' = IF lsu_valid /\ Stb!stb_ready
                       THEN Append(Stb!Unreported(cmt), alloc_ptr)
                       ELSE Stb!Unreported(cmt)
  BY <1>3, <1>4 DEF Outstanding
<1>6. lsu_valid => ~flush_en
  BY DEF lsu_en
<1> HIDE DEF lsu_valid, store, drained
<1>7. CASE ~flush_en
  <2>1. flush_en = FALSE
    BY <1>1, <1>7
  <2>2. Stb!Cycle(lsu_valid, store, cmt, drained)
    BY <1>2, <1>3, <1>5, <2>1 DEF Stb!Cycle
  <2>3. QED BY <1>1, <2>2 DEF Stb!Next
<1>8. CASE flush_en
  <2>1. flush_en = TRUE
    BY <1>1, <1>8
  <2>2. Outstanding' = << >>
    BY <1>3, <1>5, <1>6, <1>8
  <2>3. Stb!Flush(lsu_valid, store, cmt, drained)
    BY <1>2, <1>3, <2>1, <2>2 DEF Stb!Flush
  <2>4. QED BY <1>1, <2>3 DEF Stb!Next
<1>9. QED BY <1>7, <1>8

(* While a fence.i is at work the D-cache is in FENCE; it is put there by  *)
(* one in the execute stage.                                               *)
LEMMA FenceSteps ==
  ASSUME Types,
         NEW mdu_ready \in BOOLEAN, NEW pc_update \in BOOLEAN,
         NEW miss \in BOOLEAN, NEW next \in Ops \cup {Bubble},
         Inputs(mdu_ready, next, pc_update, miss)
  PROVE  /\ dcache'.state = "FENCE" =>
               \/ dcache.state = "FENCE" /\ ~dcache.fence_done
               \/ dcache.state = "IDLE" /\ is_fencei
         /\ ~dcache'.fence_done =>
               ~dcache.fence_done \/ (dcache.state = "IDLE" /\ is_fencei)
<1>1. DcacheClock(is_fencei, request, ForLsu, ForLsu /\ sram.rvalid, sram.rdata,
                 ForLsu /\ sram.awready, ForLsu /\ sram.wready,
                 ForLsu /\ sram.bvalid)
  BY DEF Inputs, Edge, MemoryClock
<1>2. dcache \in DcacheType
  BY DEF Types
<1>3. CASE Idle(is_fencei, request)
  BY <1>2, <1>3 DEF Idle, DcacheType
<1>4. CASE MemBusy(request, ForLsu, ForLsu /\ sram.rvalid, sram.rdata,
                   ForLsu /\ sram.awready, ForLsu /\ sram.wready,
                   ForLsu /\ sram.bvalid)
  BY <1>2, <1>4 DEF MemBusy, DcacheType
<1>5. CASE Fence
  BY <1>2, <1>5 DEF Fence, DcacheType
<1>6. QED BY <1>1, <1>3, <1>4, <1>5 DEF DcacheClock

(* What comes behind a fence.i, or stays while it is at work.              *)
LEMMA StageSteps ==
  ASSUME Types,
         NEW mdu_ready \in BOOLEAN, NEW pc_update \in BOOLEAN,
         NEW miss \in BOOLEAN, NEW next \in Ops \cup {Bubble},
         Inputs(mdu_ready, next, pc_update, miss)
  PROVE  /\ ~dcache.fence_done /\ ~is_fence => ex' = ex
         /\ is_fence => ex' = ex \/ Follows(ex')
         /\ ex' = ex \/ (Follows(ex') /\ exu_ready(mdu_ready))
  BY DEF Inputs, Edge, DecodeClock, exu_ready, done

LEMMA ReportingStep ==
  ASSUME NoStoreAfterFence, Types, Reporting,
         NEW mdu_ready \in BOOLEAN, NEW pc_update \in BOOLEAN,
         NEW miss \in BOOLEAN, NEW next \in Ops \cup {Bubble},
         Inputs(mdu_ready, next, pc_update, miss)
  PROVE  Reporting'
<1>1. ~cmt' => cmt_stb_id' = 0
  BY DEF Inputs, Edge, ExuClock
<1>2. ASSUME ~dcache'.fence_done
      PROVE  ex'.kind # "store"
  <2>1. CASE is_fence
    <3>1. ex.kind # "store"
      BY <2>1 DEF is_fence
    <3>2. ex' = ex \/ ex'.kind # "store"
      BY <2>1, StageSteps DEF Follows
    <3>3. QED BY <3>1, <3>2
  <2>2. CASE ~is_fence
    <3>1. ~dcache.fence_done
      BY <1>2, <2>2, FenceSteps DEF is_fencei
    <3>2. ex' = ex /\ ex.kind # "store"
      BY <2>2, <3>1, StageSteps DEF Reporting
    <3>3. QED BY <3>2
  <2>3. QED BY <2>1, <2>2
<1>3. QED BY <1>1, <1>2 DEF Reporting

LEMMA InitTypes ==
  ASSUME Init
  PROVE  Types /\ Reporting
<1>1. 0 \in Data /\ [l \in Lanes |-> 0] \in [Lanes -> Data]
  BY AxiMemoryAssumption
<1>2. dcache \in DcacheType /\ dcache.fence_done
  BY <1>1, AnyStore DEF Init, DcacheInit, DcacheType
<1>3. sram \in SramType /\ icache \in IcacheType /\ mem \in Content
  BY <1>1, AnyStore DEF Init, BusInit, SramType, IcacheType, Content
<1>4. QED BY <1>2, <1>3 DEF Init, BusInit, Types, Reporting

(* The registers keep their types and the client its word. *)
LEMMA SpecReports ==
  ASSUME NoStoreAfterFence
  PROVE  Spec => [](Types /\ Reporting /\ Ring!Consistent) /\ Stb!Spec
<1> DEFINE Inv == Types /\ Reporting /\ Ring!Consistent
<1>1. Init => Ring!Init
  BY AnyStore DEF Init, Ring!Init, Stb!ResetState, Ring!ResetState, Outstanding,
                  Ring!Slots, Stb!Slots
<1>2. Init => Inv
  BY <1>1, InitTypes, Ring!InitConsistent, BufferAssumption
<1>3. ASSUME Inv, [Next]_vars
      PROVE  Inv' /\ [Stb!Next]_Stb!vars
  <2>1. CASE UNCHANGED vars
    <3>1. UNCHANGED Ring!vars
      BY <2>1 DEF vars, stbVars, exuVars, Ring!vars, Ring!stbVars, Outstanding
    <3>2. Ring!Consistent'
      BY <1>3, <3>1, Ring!NextConsistent, BufferAssumption
    <3>3. (Types /\ Reporting)'
      BY <1>3, <2>1 DEF vars, stbVars, exuVars, busVars, Types, Reporting
    <3>4. UNCHANGED Stb!vars
      BY <2>1 DEF vars, stbVars, exuVars, Stb!vars, Stb!stbVars, Outstanding
    <3>5. QED BY <3>2, <3>3, <3>4
  <2>2. CASE Next
    <3>1. PICK mdu_ready \in BOOLEAN, pc_update \in BOOLEAN, miss \in BOOLEAN,
               next \in Ops \cup {Bubble} :
             Inputs(mdu_ready, next, pc_update, miss)
      BY <2>2, NextInputs
    <3>2. Types' /\ Reporting'
      BY <1>3, <3>1, TypesStep, ReportingStep
    <3>3. Stb!Next
      BY <1>3, <3>1, StbStep DEF Inputs
    <3>4. Ring!Next
      BY <3>3 DEF Stb!Next, Ring!Next, Stb!Cycle, Ring!Cycle, Stb!Flush, Ring!Flush,
          Stb!Clock, Ring!Clock, Stb!Unreported, Ring!Unreported, Stb!stb_ready,
          Ring!stb_ready, Stb!stb_drain_valid, Ring!stb_drain_valid, Stb!Bit, Ring!Bit,
          Stb!Wrap, Ring!Wrap, Stb!Slots, Ring!Slots
    <3>5. Ring!Consistent'
      BY <1>3, <3>4, Ring!NextConsistent, BufferAssumption
    <3>6. QED BY <3>2, <3>3, <3>5
  <2>3. QED BY <1>3, <2>1, <2>2
<1>4. Init => Stb!Init
  BY DEF Init, Stb!Init, Outstanding
<1> HIDE DEF Inv
<1>5. Spec => []Inv /\ Stb!Spec
  BY <1>2, <1>3, <1>4, PTL DEF Spec, Stb!Spec
<1>6. QED BY <1>5 DEF Inv

(* MemPath!EveryStoreReportedOnce: this core is a client as StoreBuffer    *)
(* assumes one; it reports each store it is given an entry for, once, in   *)
(* order, also around a flush (exu.v:345-347, store_buffer.v:114-168).     *)
THEOREM SpecEveryStoreReportedOnce ==
  ASSUME NoStoreAfterFence
  PROVE  Spec => EveryStoreReportedOnce
<1>1. Spec => Stb!Spec
  BY SpecReports, PTL
<1>2. QED BY <1>1 DEF EveryStoreReportedOnce

-----------------------------------------------------------------------------
(* What an edge does to the buffer *)

(* The wires of the buffer, by the names of both instances. *)
LEMMA SameWires ==
  /\ Ring!stb_drain_valid <=> stb_drain_valid
  /\ Ring!stb_ready <=> Stb!stb_ready
  /\ Ring!Slots = Stb!Slots
  /\ \A k : Ring!Slot(k) = Stb!Slot(k)
  BY DEF Ring!stb_drain_valid, stb_drain_valid, Stb!stb_drain_valid, Ring!stb_ready,
         Stb!stb_ready, Ring!Slots, Stb!Slots, Ring!Slot, Stb!Slot, Ring!Wrap, Stb!Wrap

(* The store presented in this cycle, if there is one. *)
presented == IF is_write THEN ex.at ELSE CHOOSE s \in Stores : TRUE

LEMMA RingEdge ==
  ASSUME Types, Reporting, Ring!Consistent,
         NEW mdu_ready \in BOOLEAN, NEW pc_update \in BOOLEAN,
         NEW miss \in BOOLEAN, NEW next \in Ops \cup {Bubble},
         Inputs(mdu_ready, next, pc_update, miss)
  PROVE  /\ flush_en \in BOOLEAN /\ (lsu_en /\ is_write) \in BOOLEAN
         /\ presented \in Stores /\ cmt \in BOOLEAN
         /\ cmt_stb_id \in Ring!Slots /\ stb_drain_ready \in BOOLEAN
         /\ Ring!RegistersOK /\ Ring!RingConsistent
         /\ Ring!Edge(flush_en, lsu_en /\ is_write, presented, cmt, cmt_stb_id,
                      stb_drain_ready)
<1>1. /\ flush_en \in BOOLEAN /\ (lsu_en /\ is_write) \in BOOLEAN
      /\ presented \in Stores /\ cmt \in BOOLEAN /\ stb_drain_ready \in BOOLEAN
  BY AnyStore, OpFacts DEF Types, presented, is_write, stb_drain_ready
<1>2. Ring!RegistersOK /\ Ring!RingConsistent
  BY DEF Ring!Consistent, Ring!TypeOK, Ring!RegistersOK
<1>3. /\ cmt => Outstanding # << >>
      /\ cmt_stb_id = IF cmt THEN Head(Outstanding) ELSE 0
  BY <1>1 DEF Outstanding, Reporting
<1>4. cmt_stb_id \in Ring!Slots
      /\ (cmt => commit_count < count /\ cmt_stb_id = Ring!Slot(commit_count))
  BY <1>1, <1>3, Ring!ReportIsOldest, BufferAssumption
<1>5. Stb!Clock(flush_en, lsu_en /\ is_write, presented, cmt, cmt_stb_id,
                stb_drain_ready)
  BY DEF Inputs, Edge, StbClock, presented
<1>6. Ring!Clock(flush_en, lsu_en /\ is_write, presented, cmt, cmt_stb_id,
                 stb_drain_ready)
  BY <1>5 DEF Stb!Clock, Ring!Clock, Stb!stb_ready, Ring!stb_ready,
     Stb!stb_drain_valid, Ring!stb_drain_valid, Stb!Bit, Ring!Bit,
     Stb!Wrap, Ring!Wrap, Stb!Slots, Ring!Slots
<1>7. QED BY <1>1, <1>2, <1>4, <1>6 DEF Ring!Edge

(* Nothing is committed that is not pending, and no report is outstanding  *)
(* for what is not pending either.                                         *)
LEMMA Counts ==
  ASSUME Types, Ring!Consistent
  PROVE  /\ count \in 0..DEPTH /\ commit_count \in 0..DEPTH
         /\ count = commit_count + (IF cmt THEN 1 ELSE 0)
         /\ stb_drain_valid <=> commit_count > 0
         /\ drain_ptr \in Stb!Slots /\ entry \in [Stb!Slots -> Stores]
<1>1. /\ count \in 0..DEPTH /\ commit_count \in 0..DEPTH
      /\ drain_ptr \in Stb!Slots /\ entry \in [Stb!Slots -> Stores]
  BY SameWires DEF Ring!Consistent, Ring!TypeOK
<1>2. Len(Outstanding) = count - commit_count
  BY DEF Ring!Consistent, Ring!ReportsMatchSlots
<1>3. Len(Outstanding) = IF cmt THEN 1 ELSE 0
  BY DEF Outstanding
<1>4. stb_drain_valid <=> commit_count > 0
  <2>1. /\ FALSE \in BOOLEAN /\ 0 \in Ring!Slots
        /\ FALSE => commit_count < count /\ 0 = Ring!Slot(commit_count)
    BY BufferAssumption DEF Ring!Slots
  <2>2. Ring!RegistersOK /\ Ring!RingConsistent
    BY DEF Ring!Consistent, Ring!TypeOK, Ring!RegistersOK
  <2>3. Ring!stb_drain_valid <=> commit_count > 0
    BY <2>1, <2>2, Ring!Landmarks, BufferAssumption
  <2>4. QED BY <2>3, SameWires
<1>5. count - commit_count = IF cmt THEN 1 ELSE 0
  BY <1>2, <1>3
<1>6. count = commit_count + (IF cmt THEN 1 ELSE 0)
  <2>1. CASE cmt
    BY <1>1, <1>5, <2>1
  <2>2. CASE ~cmt
    BY <1>1, <1>5, <2>2
  <2>3. QED BY <2>1, <2>2
<1>7. QED BY <1>1, <1>4, <1>6, Zenon

(* A committed store at the head that does not leave stays what it is. *)
LEMMA HeadStays ==
  ASSUME Types, Reporting, Ring!Consistent,
         NEW mdu_ready \in BOOLEAN, NEW pc_update \in BOOLEAN,
         NEW miss \in BOOLEAN, NEW next \in Ops \cup {Bubble},
         Inputs(mdu_ready, next, pc_update, miss),
         stb_drain_valid, ~stb_drain_ready
  PROVE  /\ drain_ptr' = drain_ptr
         /\ entry'[drain_ptr] = entry[drain_ptr]
         /\ stb_drain_valid'
<1>1. /\ flush_en \in BOOLEAN /\ (lsu_en /\ is_write) \in BOOLEAN
      /\ presented \in Stores /\ cmt \in BOOLEAN
      /\ cmt_stb_id \in Ring!Slots /\ stb_drain_ready \in BOOLEAN
      /\ Ring!RegistersOK /\ Ring!RingConsistent
      /\ Ring!Edge(flush_en, lsu_en /\ is_write, presented, cmt, cmt_stb_id,
                   stb_drain_ready)
  BY RingEdge
<1>2. Stb!Clock(flush_en, lsu_en /\ is_write, presented, cmt, cmt_stb_id,
                stb_drain_ready)
  BY DEF Inputs, Edge, StbClock, presented
<1>3. /\ drain_ptr \in Stb!Slots /\ entry \in [Stb!Slots -> Stores]
      /\ count \in 0..DEPTH /\ commit_count \in 0..DEPTH
      /\ commit_count > 0 /\ commit_count <= count
  BY Counts
<1>4. drain_ptr' = drain_ptr
  BY <1>2, <1>3, BufferAssumption DEF Stb!Clock, Stb!Bit, Stb!Wrap, Stb!Slots
<1>5. Stb!stb_ready => drain_ptr # alloc_ptr
  <2>1. /\ count < DEPTH => (Ring!Slot(0) = alloc_ptr <=> 0 = count)
        /\ Ring!Slot(0) = drain_ptr
    <3>1. 0 \in Ring!Slots
      BY BufferAssumption DEF Ring!Slots
    <3>2. cmt => commit_count < count /\ cmt_stb_id = Ring!Slot(commit_count)
      BY <1>1 DEF Ring!Edge
    <3>3. /\ Ring!Slot(0) = drain_ptr <=> 0 = 0
          /\ count < DEPTH => (Ring!Slot(0) = alloc_ptr <=> 0 = count)
      BY <1>1, <3>1, <3>2, Ring!Landmarks, BufferAssumption
    <3>4. QED BY <3>3
  <2>2. QED BY <1>3, <2>1 DEF Stb!stb_ready
<1>6. entry'[drain_ptr] = entry[drain_ptr]
  BY <1>2, <1>3, <1>5 DEF Stb!Clock
<1>7. entry_valid'[drain_ptr] /\ entry_commit'[drain_ptr]
  BY <1>2, <1>3, <1>5 DEF Stb!Clock, stb_drain_valid, Stb!stb_drain_valid
<1>8. QED BY <1>4, <1>6, <1>7 DEF stb_drain_valid, Stb!stb_drain_valid

(* An empty buffer stays empty as long as no store comes. *)
LEMMA EmptyStays ==
  ASSUME Types, Reporting, Ring!Consistent,
         NEW mdu_ready \in BOOLEAN, NEW pc_update \in BOOLEAN,
         NEW miss \in BOOLEAN, NEW next \in Ops \cup {Bubble},
         Inputs(mdu_ready, next, pc_update, miss),
         count = 0, ~(lsu_en /\ is_write)
  PROVE  count' = 0
<1>1. Stb!Clock(flush_en, lsu_en /\ is_write, presented, cmt, cmt_stb_id,
                stb_drain_ready)
  BY DEF Inputs, Edge, StbClock, presented
<1>2. ~stb_drain_valid /\ commit_count = 0 /\ ~cmt
  BY Counts
<1>3. QED BY <1>1, <1>2 DEF Stb!Clock, Stb!Bit, stb_drain_valid

-----------------------------------------------------------------------------
(* The way of one access, from the D-cache to the memory and back *)

(* icache.v asks for the port once per refill and waits for the last beat. *)
IcacheOK ==
  /\ icache.arvalid => /\ icache.state = "READ"
                       /\ icache.rready
                       /\ ~icache.ar_done
  /\ icache.state = "READ" /\ ~ForIfu => ~icache.ar_done
  /\ ForIfu => /\ icache.state = "READ"
               /\ icache.rready
               /\ icache.ar_done <=> ~icache.arvalid

(* The memory rests when nobody has the port, and reads while the I-cache  *)
(* has it.                                                                 *)
PortOK ==
  /\ current_master = "IDLE" => sram.state = "IDLE"
  /\ ForIfu /\ icache.arvalid => sram.state = "IDLE" /\ ~sram.rvalid
  /\ ForIfu /\ ~icache.arvalid =>
       sram.state = "BUSY" /\ sram.is_read_req /\ ~sram.is_write_req

(* No handshake of the D-cache is up. *)
Silent ==
  /\ ~dcache.awvalid /\ ~dcache.arvalid
  /\ ~dcache.bready /\ ~dcache.rready

WriteLow == ~sram.awready /\ ~sram.wready /\ ~sram.bvalid

Others == ~ForLsu /\ WriteLow

(* No access is under way. *)
Resting ==
  /\ dcache.state # "MEM_BUSY" /\ ~dcache.device_done /\ Silent
  /\ Others /\ ~written /\ ~drain_active

(* The valid of the direction is up. *)
Raised ==
  /\ dcache.state = "MEM_BUSY" /\ ~dcache.device_done /\ ~written
  /\ dcache.awvalid <=> request.we
  /\ dcache.arvalid <=> ~request.we
  /\ ~dcache.bready /\ ~dcache.rready

Asking  == Raised /\ Others
Granted == Raised /\ ForLsu /\ sram.state = "IDLE" /\ WriteLow

(* The memory has the write address, and takes the data in this edge. *)
Writing ==
  /\ Raised /\ request.we /\ ForLsu
  /\ sram.state = "BUSY" /\ sram.is_write_req /\ ~sram.is_read_req
  /\ sram.awready /\ sram.wready /\ ~sram.bvalid

Wrote ==
  /\ dcache.state = "MEM_BUSY" /\ ~dcache.device_done
  /\ request.we /\ written /\ ForLsu
  /\ ~dcache.awvalid /\ ~dcache.arvalid /\ dcache.bready /\ ~dcache.rready
  /\ sram.state = "BUSY" /\ sram.is_write_req /\ ~sram.is_read_req
  /\ sram.awready /\ ~sram.wready /\ sram.bvalid

(* The memory has the read address; at first without, then with the data.  *)
Reading ==
  /\ dcache.state = "MEM_BUSY" /\ ~dcache.device_done
  /\ ~request.we /\ ~written /\ ForLsu
  /\ ~dcache.awvalid /\ ~dcache.arvalid /\ ~dcache.bready /\ dcache.rready
  /\ sram.state = "BUSY" /\ sram.is_read_req /\ ~sram.is_write_req
  /\ ~sram.rd_burst /\ sram.read_addr = ex.at /\ WriteLow
  /\ sram.rvalid => sram.rlast /\ sram.rdata = mem[ex.at]

Finished ==
  /\ dcache.state = "MEM_BUSY" /\ dcache.device_done /\ Silent
  /\ Others
  /\ written <=> request.we
  /\ ~request.we => dcache.device_rdata = mem[ex.at]

Phase == \/ Resting \/ Asking \/ Granted \/ Writing \/ Wrote
         \/ Reading \/ Finished

(* What the D-cache is working on is still asked of it: the committed store*)
(* at the head of the buffer, or the load in the execute stage.            *)
Held ==
  dcache.state = "MEM_BUSY" =>
    /\ request.valid
    /\ request.we => /\ drain_active /\ stb_drain_valid
                     /\ dcache.aw = entry[drain_ptr]
    /\ ~request.we => /\ ~drain_active /\ exu_load_req
                      /\ dcache.ar = ex.at

(* Nothing is in the buffer while a fence.i is executed. *)
Fences ==
  /\ dcache.state = "FENCE" => count = 0 /\ ex.kind # "store"
  /\ ~dcache.fence_done => dcache.state = "FENCE"
  /\ is_fence => count = 0

Path == IcacheOK /\ PortOK /\ Phase /\ Held /\ Fences

(* The memory holds the bytes of the store it has taken. *)
Landed ==
  written => \A l \in entry[drain_ptr].wstrb :
               mem[entry[drain_ptr].word][l] = entry[drain_ptr].data

Ordered == \A w \in Words, l \in Lanes : Visible(w, l) = arch[w][l]

-----------------------------------------------------------------------------
(* What the blocks below the LSU do in one edge, register by register *)

LEMMA IdleFields ==
  ASSUME dcache \in DcacheType, NEW fence_en \in BOOLEAN, NEW req, Idle(fence_en, req)
  PROVE  /\ dcache'.state = IF fence_en THEN "FENCE"
                            ELSE IF req.valid THEN "MEM_BUSY" ELSE "IDLE"
         /\ ~dcache'.device_done
         /\ dcache'.fence_done <=> ~fence_en
         /\ dcache'.awvalid <=> dcache.awvalid \/ (req.valid /\ req.we)
         /\ dcache'.arvalid <=> dcache.arvalid \/ (req.valid /\ ~req.we)
         /\ dcache'.bready <=> dcache.bready
         /\ dcache'.rready <=> dcache.rready
         /\ req.valid /\ req.we => dcache'.aw = req.store
         /\ req.valid /\ ~req.we => dcache'.ar = req.word
  BY DEF Idle, DcacheType

LEMMA FenceFields ==
  ASSUME dcache \in DcacheType, Fence
  PROVE  /\ dcache'.state = IF dcache.fence_done THEN "IDLE" ELSE "FENCE"
         /\ ~dcache'.device_done
         /\ dcache.fence_done => dcache'.fence_done
         /\ dcache'.awvalid <=> dcache.awvalid
         /\ dcache'.arvalid <=> dcache.arvalid
         /\ dcache'.bready <=> dcache.bready
         /\ dcache'.rready <=> dcache.rready
  BY DEF Fence, DcacheType

LEMMA MemBusyFields ==
  ASSUME dcache \in DcacheType, NEW req, NEW arready, NEW rvalid, NEW rdata,
         NEW awready, NEW wready, NEW bvalid,
         MemBusy(req, arready, rvalid, rdata, awready, wready, bvalid)
  PROVE  LET sent     == req.we /\ dcache.awvalid /\ awready /\ wready
             answered == req.we /\ bvalid /\ dcache.bready
             read     == rvalid /\ dcache.rready
             asked    == dcache.arvalid /\ arready
         IN  /\ dcache'.state = IF dcache.device_done THEN "IDLE" ELSE "MEM_BUSY"
             /\ dcache'.device_done <=> answered \/ read
             /\ dcache'.fence_done <=> dcache.fence_done
             /\ dcache'.awvalid <=> dcache.awvalid /\ ~sent
             /\ dcache'.bready <=> (dcache.bready \/ sent) /\ ~answered
             /\ dcache'.arvalid <=> dcache.arvalid /\ ~asked
             /\ dcache'.rready <=> (dcache.rready \/ asked) /\ ~read
             /\ read => dcache'.device_rdata = rdata
             /\ dcache'.aw = dcache.aw /\ dcache'.ar = dcache.ar
  BY DEF MemBusy, DcacheType

LEMMA SramIdleFields ==
  ASSUME sram \in SramType, NEW arvalid \in BOOLEAN, NEW burst \in BOOLEAN,
         NEW awvalid \in BOOLEAN, NEW ar, SramIdle(arvalid, burst, ar, awvalid)
  PROVE  /\ sram'.state = IF arvalid \/ awvalid THEN "BUSY" ELSE "IDLE"
         /\ ~sram'.rvalid /\ ~sram'.rlast /\ ~sram'.bvalid
         /\ sram'.is_read_req <=> arvalid
         /\ sram'.is_write_req <=> awvalid /\ ~arvalid
         /\ sram'.wready <=> awvalid /\ ~arvalid
         /\ sram'.awready <=> sram.awready \/ (awvalid /\ ~arvalid)
         /\ arvalid /\ ~burst => sram'.read_addr = ar /\ ~sram'.rd_burst
         /\ mem' = mem
  BY DEF SramIdle, SramType

LEMMA SramReadFields ==
  ASSUME sram \in SramType, NEW rready \in BOOLEAN, SramRead(rready)
  PROVE  /\ sram'.state = IF sram.rlast /\ sram.rvalid THEN "IDLE" ELSE "BUSY"
         /\ sram'.is_read_req <=> sram.is_read_req
         /\ sram'.is_write_req <=> sram.is_write_req
         /\ sram'.rd_burst <=> sram.rd_burst
         /\ sram'.read_addr = sram.read_addr
         /\ sram'.awready <=> sram.awready
         /\ sram'.wready <=> sram.wready
         /\ sram'.bvalid <=> sram.bvalid
         /\ ~sram.rd_burst => /\ sram'.rdata = mem[sram.read_addr]
                              /\ sram'.rvalid <=> ~(sram.rvalid /\ rready)
                              /\ sram'.rlast <=> ~(sram.rvalid /\ rready)
         /\ mem' = mem
  BY DEF SramRead, SramType

LEMMA SramWriteFields ==
  ASSUME sram \in SramType, NEW wvalid \in BOOLEAN, NEW store, NEW bready \in BOOLEAN,
         SramWrite(wvalid, store, bready)
  PROVE  LET take == SramTakes(wvalid)
             answered == sram.bvalid /\ bready
         IN  /\ sram'.state = IF answered THEN "IDLE" ELSE "BUSY"
             /\ sram'.is_read_req <=> sram.is_read_req
             /\ sram'.is_write_req <=> sram.is_write_req
             /\ sram'.wready <=> sram.wready /\ ~take
             /\ sram'.bvalid <=> (sram.bvalid \/ take) /\ ~answered
             /\ sram'.awready <=> sram.awready /\ ~answered
             /\ ~take => mem' = mem
  <1>1. PICK take \in BOOLEAN : take = SramTakes(wvalid)
    BY DEF SramTakes
  <1>2. QED BY <1>1 DEF SramWrite, SramType

(* The blocks of an edge, each with its wires. *)
LEMMA Blocks ==
  ASSUME Types,
         NEW mdu_ready \in BOOLEAN, NEW pc_update \in BOOLEAN,
         NEW miss \in BOOLEAN, NEW next \in Ops \cup {Bubble},
         Inputs(mdu_ready, next, pc_update, miss)
  PROVE  /\ DcacheClock(is_fencei, request, ForLsu, ForLsu /\ sram.rvalid, sram.rdata,
                        ForLsu /\ sram.awready, ForLsu /\ sram.wready,
                        ForLsu /\ sram.bvalid)
         /\ BridgeClock(dcache.arvalid, dcache.awvalid, dcache.rready,
                        dcache.bready, dcache.fence_done)
         /\ SramClock(dcache.arvalid, dcache.ar, dcache.awvalid, dcache.aw,
                      dcache.rready, dcache.bready)
         /\ IcacheClock(miss)
         /\ drain_active' = ((grant_drain \/ drain_active) /\ ~ready)
         /\ written' = ((written \/ MemoryTakes) /\ ~HeadLeaves)
         /\ dcache \in DcacheType /\ sram \in SramType /\ icache \in IcacheType
         /\ (ForLsu <=> ~(current_master = "IDLE") /\ ~ForIfu)
         /\ is_fencei \in BOOLEAN
         /\ request.we = grant_drain /\ request.we \in BOOLEAN
         /\ request.valid = (grant_load \/ grant_drain)
         /\ request.store = entry[drain_ptr]
         /\ is_read => request.word = ex.at
         /\ ready = IF request.valid THEN dcache.device_done ELSE ~dcache.fence_ing
  BY DEF Types, Inputs, Edge, MemoryClock, LsuClock, History, ForLsu, ForIfu,
         is_fencei, request, grant_drain, ready, dcache_ready

(* The refill of the I-cache, whoever else wants the port. *)
LEMMA IcacheStep ==
  ASSUME Types, IcacheOK, NEW miss \in BOOLEAN, IcacheClock(miss),
         BridgeClock(dcache.arvalid, dcache.awvalid, dcache.rready,
                     dcache.bready, dcache.fence_done)
  PROVE  /\ IcacheOK'
         /\ ForIfu' <=> \/ ForIfu /\ ~(sram.rvalid /\ sram.rlast)
                        \/ /\ current_master = "IDLE"
                           /\ ~dcache.arvalid /\ ~dcache.awvalid
                           /\ icache.arvalid /\ dcache.fence_done
         /\ ForIfu' => (icache'.arvalid <=> icache.arvalid /\ ~ForIfu)
<1>1. icache \in IcacheType
  BY DEF Types
<1>2. current_master \in {"IDLE", "IFU_ACCESS", "LSU_ACCESS"}
  BY DEF Types
<1>3. ForIfu' <=> \/ ForIfu /\ ~(sram.rvalid /\ sram.rlast)
                  \/ /\ current_master = "IDLE"
                     /\ ~dcache.arvalid /\ ~dcache.awvalid
                     /\ icache.arvalid /\ dcache.fence_done
  BY <1>2 DEF BridgeClock, ForIfu, ForLsu, IcacheOK
<1>4. CASE icache.state = "IDLE"
  <2>1. /\ icache'.state = IF miss THEN "READ" ELSE "IDLE"
        /\ ~icache'.ar_done
        /\ icache'.arvalid <=> icache.arvalid
    BY <1>1, <1>4 DEF IcacheClock, IcacheType
  <2>2. ~ForIfu /\ ~icache.arvalid /\ ~ForIfu'
    BY <1>3, <1>4 DEF IcacheOK
  <2>3. QED BY <1>3, <2>1, <2>2 DEF IcacheOK
<1>5. CASE icache.state = "FILL"
  <2>1. /\ icache'.state = "IDLE"
        /\ icache'.arvalid <=> icache.arvalid
    BY <1>1, <1>5 DEF IcacheClock, IcacheType
  <2>2. ~ForIfu /\ ~icache.arvalid /\ ~ForIfu'
    BY <1>3, <1>5 DEF IcacheOK
  <2>3. QED BY <1>3, <2>1, <2>2 DEF IcacheOK
<1>6. CASE icache.state = "READ"
  <2>1. LET ask    == ~icache.arvalid /\ ~icache.ar_done
            answer == ~ask /\ ForIfu
        IN  /\ icache'.state = IF ForIfu /\ sram.rvalid /\ icache.rready /\ sram.rlast
                                 THEN "FILL" ELSE "READ"
            /\ icache'.rready
            /\ icache'.arvalid <=> (ask \/ (icache.arvalid /\ ~answer))
            /\ icache'.ar_done <=> icache.ar_done \/ answer
    BY <1>1, <1>6 DEF IcacheClock, IcacheType
  <2>2. ForIfu => ~(current_master = "IDLE")
    BY DEF ForIfu
  <2>3. QED BY <1>3, <1>6, <2>1, <2>2 DEF IcacheOK
<1>7. QED BY <1>1, <1>4, <1>5, <1>6 DEF IcacheType

-----------------------------------------------------------------------------
(* A request stands until it is answered *)

LEMMA RequestStays ==
  ASSUME Types, Reporting, Ring!Consistent,
         NEW mdu_ready \in BOOLEAN, NEW pc_update \in BOOLEAN,
         NEW miss \in BOOLEAN, NEW next \in Ops \cup {Bubble},
         Inputs(mdu_ready, next, pc_update, miss),
         request.valid, ~dcache.device_done, request.we => stb_drain_valid
  PROVE  /\ request'.valid
         /\ request'.we = request.we
         /\ request.we => /\ drain_active' /\ stb_drain_valid'
                          /\ drain_ptr' = drain_ptr
                          /\ entry'[drain_ptr] = entry[drain_ptr]
                          /\ request'.store = request.store
         /\ ~request.we => /\ ~drain_active' /\ exu_load_req' /\ ex' = ex
                           /\ request'.word = request.word
<1>1. ~ready
  BY Blocks
<1>2. /\ drain_active' = ((grant_drain \/ drain_active) /\ ~ready)
      /\ request.we = grant_drain /\ request.valid = (grant_load \/ grant_drain)
  BY Blocks
<1>3. CASE request.we
  <2>1. grant_drain /\ stb_drain_valid /\ ~stb_drain_ready
    BY <1>1, <1>2, <1>3 DEF stb_drain_ready
  <2>2. /\ drain_ptr' = drain_ptr /\ entry'[drain_ptr] = entry[drain_ptr]
        /\ stb_drain_valid'
    BY <2>1, HeadStays
  <2>3. drain_active'
    BY <1>1, <1>2, <2>1
  <2>4. grant_drain' = TRUE
    BY <2>3 DEF grant_drain
  <2>5. /\ request'.valid /\ request'.we = TRUE
        /\ request'.store = entry'[drain_ptr']
        /\ request.we = TRUE /\ request.store = entry[drain_ptr]
    BY <2>1, <2>4 DEF request, grant_drain
  <2>6. QED BY <1>3, <2>2, <2>3, <2>5
<1>4. CASE ~request.we
  <2>1. ~grant_drain /\ grant_load /\ ~drain_active /\ exu_load_req
    BY <1>2, <1>4, Zenon DEF grant_drain, grant_load
  <2>2. lsu_en /\ is_read /\ ~lsu_ready /\ ~flush_en /\ idu_valid
    BY <1>1, <2>1 DEF exu_load_req, lsu_ready, lsu_en
  <2>3. ~exu_ready(mdu_ready)
    BY <2>2 DEF exu_ready, done
  <2>4. ex' = ex /\ idu_valid' = idu_valid
    BY <2>2, <2>3 DEF Inputs, Edge, DecodeClock
  <2>5. flush_en' = flush_en
    BY <2>2 DEF Inputs, Edge, BruClock
  <2>6. exu_load_req'
    BY <2>2, <2>4, <2>5 DEF exu_load_req, lsu_en, is_read
  <2>7. ~drain_active'
    BY <1>2, <2>1
  <2>8. grant_drain' = FALSE /\ grant_load'
    BY <2>6, <2>7 DEF grant_drain, grant_load
  <2>9. grant_drain = FALSE
    BY <2>1 DEF grant_drain
  <2>10. /\ request'.valid /\ request'.we = FALSE /\ request.we = FALSE
         /\ request'.word = request.word
    BY <2>2, <2>4, <2>8, <2>9 DEF request, is_read
  <2>11. QED BY <1>4, <2>4, <2>6, <2>7, <2>10
<1>5. QED BY <1>3, <1>4

(* The memory while the port is not the D-cache's: nothing is written, and *)
(* when the bridge turns to the D-cache the memory rests.                  *)
LEMMA OthersStep ==
  ASSUME Types, IcacheOK, PortOK, Others,
         NEW mdu_ready \in BOOLEAN, NEW pc_update \in BOOLEAN,
         NEW miss \in BOOLEAN, NEW next \in Ops \cup {Bubble},
         Inputs(mdu_ready, next, pc_update, miss)
  PROVE  /\ PortOK' /\ WriteLow' /\ mem' = mem /\ ~MemoryTakes
         /\ ForLsu' <=> /\ current_master = "IDLE"
                        /\ dcache.arvalid \/ dcache.awvalid
         /\ ForLsu' => sram'.state = "IDLE"
<1>1. /\ SramClock(dcache.arvalid, dcache.ar, dcache.awvalid, dcache.aw,
                   dcache.rready, dcache.bready)
      /\ IcacheClock(miss)
      /\ BridgeClock(dcache.arvalid, dcache.awvalid, dcache.rready,
                     dcache.bready, dcache.fence_done)
      /\ dcache \in DcacheType /\ sram \in SramType /\ icache \in IcacheType
      /\ (ForLsu <=> ~(current_master = "IDLE") /\ ~ForIfu)
  BY Blocks
<1>2. ~ForLsu /\ WriteLow
  BY DEF Others
<1>3. ~MemoryTakes
  BY <1>2 DEF MemoryTakes, SramTakes
<1>4. /\ ForLsu' <=> current_master = "IDLE" /\ (dcache.arvalid \/ dcache.awvalid)
      /\ ForLsu' => ~ForIfu'
      /\ current_master' = "IDLE" => ~ForIfu' /\ ~ForLsu'
      /\ current_master' = "IDLE" => \/ current_master = "IDLE"
                                     \/ ForIfu /\ sram.rvalid /\ sram.rlast
      /\ ForIfu => ~(current_master = "IDLE")
      /\ ForLsu' => current_master = "IDLE"
  BY <1>1, <1>2 DEF BridgeClock, ForIfu, ForLsu
<1>5. /\ ForIfu' <=> \/ ForIfu /\ ~(sram.rvalid /\ sram.rlast)
                     \/ /\ current_master = "IDLE"
                        /\ ~dcache.arvalid /\ ~dcache.awvalid
                        /\ icache.arvalid /\ dcache.fence_done
      /\ ForIfu' => (icache'.arvalid <=> icache.arvalid /\ ~ForIfu)
  BY <1>1, IcacheStep
<1>6. CASE sram.state = "IDLE"
  <2> DEFINE arvalid == \/ ForIfu /\ icache.arvalid
                        \/ ForLsu /\ dcache.arvalid
             awvalid == ForLsu /\ dcache.awvalid
  <2>1. SramIdle(arvalid, ForIfu, dcache.ar, awvalid)
    BY <1>1, <1>6 DEF SramClock, SramRead, SramWrite
  <2>2. /\ arvalid \in BOOLEAN /\ awvalid \in BOOLEAN /\ ForIfu \in BOOLEAN
        /\ ~awvalid /\ (arvalid <=> ForIfu /\ icache.arvalid)
    BY <1>1, <1>2 DEF ForIfu, ForLsu, IcacheType, DcacheType
  <2> HIDE DEF arvalid, awvalid
  <2>3. /\ sram'.state = IF arvalid THEN "BUSY" ELSE "IDLE"
        /\ ~sram'.rvalid /\ ~sram'.bvalid /\ ~sram'.wready
        /\ sram'.is_read_req <=> arvalid
        /\ ~sram'.is_write_req
        /\ sram'.awready <=> sram.awready
        /\ mem' = mem
    BY <1>1, <2>1, <2>2, SramIdleFields
  <2>4. ForIfu => icache.arvalid /\ ~sram.rvalid
    BY <1>6 DEF PortOK
  <2>5. QED BY <1>2, <1>3, <1>4, <1>5, <2>2, <2>3, <2>4 DEF PortOK, WriteLow
<1>7. CASE sram.state # "IDLE"
  <2>1. /\ ForIfu /\ ~icache.arvalid /\ icache.rready
        /\ sram.is_read_req /\ ~sram.is_write_req
    BY <1>1, <1>2, <1>7 DEF PortOK, IcacheOK
  <2>2. SramRead(icache.rready) /\ icache.rready \in BOOLEAN
    BY <1>1, <1>7, <2>1 DEF SramClock, SramIdle, SramWrite, IcacheType
  <2>3. /\ sram'.state = IF sram.rlast /\ sram.rvalid THEN "IDLE" ELSE "BUSY"
        /\ sram'.is_read_req <=> sram.is_read_req
        /\ sram'.is_write_req <=> sram.is_write_req
        /\ sram'.awready <=> sram.awready
        /\ sram'.wready <=> sram.wready
        /\ sram'.bvalid <=> sram.bvalid
        /\ mem' = mem
    BY <1>1, <2>2, SramReadFields
  <2>4. QED BY <1>2, <1>3, <1>4, <1>5, <2>1, <2>3 DEF PortOK, WriteLow
<1>8. QED BY <1>6, <1>7

-----------------------------------------------------------------------------
(* One lemma for each phase of an access *)

(* The D-cache in MEM_BUSY. *)
LEMMA Busy ==
  ASSUME Types, dcache.state = "MEM_BUSY",
         NEW mdu_ready \in BOOLEAN, NEW pc_update \in BOOLEAN,
         NEW miss \in BOOLEAN, NEW next \in Ops \cup {Bubble},
         Inputs(mdu_ready, next, pc_update, miss)
  PROVE  LET sent     == /\ request.we /\ dcache.awvalid
                         /\ ForLsu /\ sram.awready /\ sram.wready
             answered == request.we /\ ForLsu /\ sram.bvalid /\ dcache.bready
             read     == ForLsu /\ sram.rvalid /\ dcache.rready
             asked    == dcache.arvalid /\ ForLsu
         IN  /\ dcache'.state = IF dcache.device_done THEN "IDLE" ELSE "MEM_BUSY"
             /\ dcache'.device_done <=> answered \/ read
             /\ dcache'.fence_done <=> dcache.fence_done
             /\ dcache'.awvalid <=> dcache.awvalid /\ ~sent
             /\ dcache'.bready <=> (dcache.bready \/ sent) /\ ~answered
             /\ dcache'.arvalid <=> dcache.arvalid /\ ~asked
             /\ dcache'.rready <=> (dcache.rready \/ asked) /\ ~read
             /\ read => dcache'.device_rdata = sram.rdata
             /\ dcache'.aw = dcache.aw /\ dcache'.ar = dcache.ar
<1> DEFINE rvalid  == ForLsu /\ sram.rvalid
           awready == ForLsu /\ sram.awready
           wready  == ForLsu /\ sram.wready
           bvalid  == ForLsu /\ sram.bvalid
<1>1. dcache \in DcacheType
      /\ MemBusy(request, ForLsu, rvalid, sram.rdata, awready, wready, bvalid)
  <2>1. DcacheClock(is_fencei, request, ForLsu, rvalid, sram.rdata, awready, wready,
                    bvalid)
    BY Blocks
  <2>2. dcache \in DcacheType
    BY Blocks
  <2> HIDE DEF rvalid, awready, wready, bvalid
  <2>3. QED BY <2>1, <2>2 DEF DcacheClock, Idle, Fence
<1> HIDE DEF rvalid, awready, wready, bvalid
<1>2. LET sent     == request.we /\ dcache.awvalid /\ awready /\ wready
          answered == request.we /\ bvalid /\ dcache.bready
          read     == rvalid /\ dcache.rready
          asked    == dcache.arvalid /\ ForLsu
      IN  /\ dcache'.state = IF dcache.device_done THEN "IDLE" ELSE "MEM_BUSY"
          /\ dcache'.device_done <=> answered \/ read
          /\ dcache'.fence_done <=> dcache.fence_done
          /\ dcache'.awvalid <=> dcache.awvalid /\ ~sent
          /\ dcache'.bready <=> (dcache.bready \/ sent) /\ ~answered
          /\ dcache'.arvalid <=> dcache.arvalid /\ ~asked
          /\ dcache'.rready <=> (dcache.rready \/ asked) /\ ~read
          /\ read => dcache'.device_rdata = sram.rdata
          /\ dcache'.aw = dcache.aw /\ dcache'.ar = dcache.ar
  BY <1>1, MemBusyFields
<1>3. QED BY <1>2 DEF rvalid, awready, wready, bvalid

(* While the D-cache has not answered, what it works on stands. *)
LEMMA Standing ==
  ASSUME Types, Reporting, Ring!Consistent, Held,
         dcache.state = "MEM_BUSY", ~dcache.device_done,
         NEW mdu_ready \in BOOLEAN, NEW pc_update \in BOOLEAN,
         NEW miss \in BOOLEAN, NEW next \in Ops \cup {Bubble},
         Inputs(mdu_ready, next, pc_update, miss)
  PROVE  /\ Held' /\ dcache'.state = "MEM_BUSY"
         /\ request'.we = request.we
         /\ request.we => entry'[drain_ptr'] = entry[drain_ptr]
         /\ ~request.we => ex' = ex /\ dcache.ar = ex.at
         /\ ~HeadLeaves
         /\ written' <=> written \/ MemoryTakes
<1>1. /\ request.valid
      /\ request.we => stb_drain_valid /\ dcache.aw = entry[drain_ptr]
      /\ ~request.we => dcache.ar = ex.at
  BY DEF Held
<1>2. /\ request'.valid
      /\ request'.we = request.we
      /\ request.we => /\ drain_active' /\ stb_drain_valid'
                       /\ drain_ptr' = drain_ptr
                       /\ entry'[drain_ptr] = entry[drain_ptr]
                       /\ request'.store = request.store
      /\ ~request.we => /\ ~drain_active' /\ exu_load_req' /\ ex' = ex
                        /\ request'.word = request.word
  BY <1>1, RequestStays
<1>3. /\ dcache'.state = "MEM_BUSY"
      /\ dcache'.aw = dcache.aw /\ dcache'.ar = dcache.ar
  BY Busy
<1>4. Held'
  BY <1>1, <1>2, <1>3 DEF Held
<1>5. ~HeadLeaves /\ (written' <=> written \/ MemoryTakes)
  <2>1. /\ ready = IF request.valid THEN dcache.device_done ELSE ~dcache.fence_ing
        /\ written' = ((written \/ MemoryTakes) /\ ~HeadLeaves)
    BY Blocks
  <2>2. QED BY <1>1, <2>1 DEF HeadLeaves, stb_drain_ready
<1>6. QED BY <1>1, <1>2, <1>3, <1>4, <1>5

LEMMA AskingStep ==
  ASSUME Types, Reporting, Ring!Consistent, IcacheOK, PortOK, Held, Asking,
         NEW mdu_ready \in BOOLEAN, NEW pc_update \in BOOLEAN,
         NEW miss \in BOOLEAN, NEW next \in Ops \cup {Bubble},
         Inputs(mdu_ready, next, pc_update, miss)
  PROVE  (Asking' \/ Granted') /\ PortOK' /\ mem' = mem /\ ~MemoryTakes
<1>1. Raised /\ Others /\ ~ForLsu
  BY DEF Asking, Others
<1>2. /\ PortOK' /\ WriteLow' /\ mem' = mem /\ ~MemoryTakes
      /\ ForLsu' => sram'.state = "IDLE"
  BY <1>1, OthersStep
<1>3. request'.we = request.we /\ ~written'
  BY <1>1, <1>2, Standing DEF Raised
<1>4. /\ dcache'.state = "MEM_BUSY" /\ ~dcache'.device_done
      /\ dcache'.awvalid <=> dcache.awvalid
      /\ dcache'.arvalid <=> dcache.arvalid
      /\ ~dcache'.bready /\ ~dcache'.rready
  BY <1>1, Busy DEF Raised
<1>5. Raised'
  BY <1>1, <1>3, <1>4 DEF Raised
<1>6. QED BY <1>2, <1>5 DEF Asking, Granted, Others

(* The memory under the D-cache's own transaction. *)
LEMMA Own ==
  ASSUME Types, ForLsu,
         NEW mdu_ready \in BOOLEAN, NEW pc_update \in BOOLEAN,
         NEW miss \in BOOLEAN, NEW next \in Ops \cup {Bubble},
         Inputs(mdu_ready, next, pc_update, miss)
  PROVE  /\ \/ SramIdle(dcache.arvalid, FALSE, dcache.ar, dcache.awvalid)
            \/ SramRead(dcache.rready)
            \/ SramWrite(dcache.awvalid, dcache.aw, dcache.bready)
         /\ dcache.arvalid \in BOOLEAN /\ dcache.awvalid \in BOOLEAN
         /\ dcache.rready \in BOOLEAN /\ dcache.bready \in BOOLEAN
         /\ sram \in SramType
         /\ ~ForIfu' /\ (ForLsu' <=> ~(current_master' = "IDLE"))
         /\ ForLsu' <=> ~(\/ sram.rvalid /\ dcache.rready /\ sram.rlast
                          \/ sram.bvalid /\ dcache.bready)
         /\ MemoryTakes <=> /\ sram.state = "BUSY" /\ sram.is_write_req
                            /\ dcache.awvalid /\ sram.wready
<1>1. /\ SramClock(dcache.arvalid, dcache.ar, dcache.awvalid, dcache.aw,
                   dcache.rready, dcache.bready)
      /\ BridgeClock(dcache.arvalid, dcache.awvalid, dcache.rready,
                     dcache.bready, dcache.fence_done)
      /\ dcache \in DcacheType /\ sram \in SramType
  BY Blocks
<1>2. /\ dcache.arvalid \in BOOLEAN /\ dcache.awvalid \in BOOLEAN
      /\ dcache.rready \in BOOLEAN /\ dcache.bready \in BOOLEAN
  BY <1>1 DEF DcacheType
<1>3. ForLsu = TRUE /\ ForIfu = FALSE
  BY DEF ForLsu, ForIfu
<1>4. /\ (\/ ForIfu /\ icache.arvalid
          \/ ForLsu /\ dcache.arvalid) = dcache.arvalid
      /\ (ForLsu /\ dcache.awvalid) = dcache.awvalid
      /\ (IF ForIfu THEN icache.rready ELSE ForLsu /\ dcache.rready) = dcache.rready
      /\ (ForLsu /\ dcache.bready) = dcache.bready
  BY <1>2, <1>3
<1>5. \/ SramIdle(dcache.arvalid, FALSE, dcache.ar, dcache.awvalid)
      \/ SramRead(dcache.rready)
      \/ SramWrite(dcache.awvalid, dcache.aw, dcache.bready)
  BY <1>1, <1>3, <1>4 DEF SramClock
<1>6. /\ ~ForIfu' /\ (ForLsu' <=> ~(current_master' = "IDLE"))
      /\ ForLsu' <=> ~(\/ sram.rvalid /\ dcache.rready /\ sram.rlast
                       \/ sram.bvalid /\ dcache.bready)
  BY <1>1 DEF BridgeClock, ForLsu, ForIfu
<1>7. MemoryTakes <=> /\ sram.state = "BUSY" /\ sram.is_write_req
                      /\ dcache.awvalid /\ sram.wready
  BY <1>3 DEF MemoryTakes, SramTakes
<1>8. QED BY <1>1, <1>2, <1>5, <1>6, <1>7

LEMMA GrantedStep ==
  ASSUME Types, Reporting, Ring!Consistent, Held, Granted,
         NEW mdu_ready \in BOOLEAN, NEW pc_update \in BOOLEAN,
         NEW miss \in BOOLEAN, NEW next \in Ops \cup {Bubble},
         Inputs(mdu_ready, next, pc_update, miss)
  PROVE  (Writing' \/ Reading') /\ PortOK' /\ mem' = mem /\ ~MemoryTakes
<1>1. Raised /\ ForLsu /\ sram.state = "IDLE" /\ WriteLow
  BY DEF Granted
<1>2. ~MemoryTakes
  BY <1>1, Own
<1>3. /\ request'.we = request.we /\ ~written'
      /\ ~request.we => ex' = ex /\ dcache.ar = ex.at
  BY <1>1, <1>2, Standing DEF Raised
<1>4. /\ SramIdle(dcache.arvalid, FALSE, dcache.ar, dcache.awvalid)
      /\ dcache.arvalid \in BOOLEAN /\ dcache.awvalid \in BOOLEAN
      /\ sram \in SramType
      /\ ~ForIfu' /\ ForLsu' /\ ~(current_master' = "IDLE")
  BY <1>1, Own DEF SramRead, SramWrite, Raised
<1>5. /\ sram'.state = IF dcache.arvalid \/ dcache.awvalid THEN "BUSY" ELSE "IDLE"
      /\ ~sram'.rvalid /\ ~sram'.rlast /\ ~sram'.bvalid
      /\ sram'.is_read_req <=> dcache.arvalid
      /\ sram'.is_write_req <=> dcache.awvalid /\ ~dcache.arvalid
      /\ sram'.wready <=> dcache.awvalid /\ ~dcache.arvalid
      /\ sram'.awready <=> sram.awready \/ (dcache.awvalid /\ ~dcache.arvalid)
      /\ dcache.arvalid => sram'.read_addr = dcache.ar /\ ~sram'.rd_burst
      /\ mem' = mem
  BY <1>4, SramIdleFields
<1>6. /\ dcache'.state = "MEM_BUSY" /\ ~dcache'.device_done
      /\ dcache'.awvalid <=> dcache.awvalid
      /\ ~dcache'.arvalid /\ ~dcache'.bready
      /\ dcache'.rready <=> dcache.arvalid
  BY <1>1, Busy DEF Raised, WriteLow
<1>7. PortOK'
  BY <1>4 DEF PortOK
<1>8. CASE request.we
  <2>1. dcache.awvalid /\ ~dcache.arvalid
    BY <1>1, <1>8 DEF Raised
  <2>2. Writing'
    BY <1>3, <1>4, <1>5, <1>6, <1>8, <2>1 DEF Writing, Raised
  <2>3. QED BY <1>2, <1>5, <1>7, <2>2
<1>9. CASE ~request.we
  <2>1. ~dcache.awvalid /\ dcache.arvalid
    BY <1>1, <1>9 DEF Raised
  <2>2. Reading'
    BY <1>1, <1>3, <1>4, <1>5, <1>6, <1>9, <2>1 DEF Reading, WriteLow
  <2>3. QED BY <1>2, <1>5, <1>7, <2>2
<1>10. QED BY <1>8, <1>9

LEMMA WritingStep ==
  ASSUME Types, Reporting, Ring!Consistent, Held, Writing,
         NEW mdu_ready \in BOOLEAN, NEW pc_update \in BOOLEAN,
         NEW miss \in BOOLEAN, NEW next \in Ops \cup {Bubble},
         Inputs(mdu_ready, next, pc_update, miss)
  PROVE  /\ Wrote' /\ PortOK' /\ MemoryTakes
         /\ SramWrite(dcache.awvalid, dcache.aw, dcache.bready)
<1>1. /\ Raised /\ request.we /\ ForLsu
      /\ sram.state = "BUSY" /\ sram.is_write_req /\ ~sram.is_read_req
      /\ sram.awready /\ sram.wready /\ ~sram.bvalid
      /\ dcache.awvalid /\ ~dcache.arvalid /\ ~dcache.bready /\ ~dcache.rready
  BY DEF Writing, Raised
<1>2. MemoryTakes
  BY <1>1, Own
<1>3. request'.we = request.we /\ written'
  BY <1>1, <1>2, Standing DEF Raised
<1>4. /\ SramWrite(dcache.awvalid, dcache.aw, dcache.bready)
      /\ dcache.awvalid \in BOOLEAN /\ dcache.bready \in BOOLEAN
      /\ sram \in SramType
      /\ ~ForIfu' /\ ForLsu' /\ ~(current_master' = "IDLE")
  BY <1>1, Own DEF SramRead, SramIdle
<1>5. SramTakes(dcache.awvalid)
  BY <1>1 DEF SramTakes
<1>6. /\ sram'.state = "BUSY"
      /\ sram'.is_write_req /\ ~sram'.is_read_req
      /\ ~sram'.wready /\ sram'.bvalid /\ sram'.awready
  BY <1>1, <1>4, <1>5, SramWriteFields
<1>7. /\ dcache'.state = "MEM_BUSY" /\ ~dcache'.device_done
      /\ ~dcache'.awvalid /\ ~dcache'.arvalid
      /\ dcache'.bready /\ ~dcache'.rready
  BY <1>1, Busy DEF Raised
<1>8. PortOK'
  BY <1>4 DEF PortOK
<1>9. QED BY <1>1, <1>2, <1>3, <1>4, <1>6, <1>7, <1>8 DEF Wrote

LEMMA WroteStep ==
  ASSUME Types, Reporting, Ring!Consistent, Held, Wrote,
         NEW mdu_ready \in BOOLEAN, NEW pc_update \in BOOLEAN,
         NEW miss \in BOOLEAN, NEW next \in Ops \cup {Bubble},
         Inputs(mdu_ready, next, pc_update, miss)
  PROVE  Finished' /\ PortOK' /\ mem' = mem /\ ~MemoryTakes
<1>1. /\ dcache.state = "MEM_BUSY" /\ ~dcache.device_done
      /\ request.we /\ written /\ ForLsu
      /\ ~dcache.awvalid /\ ~dcache.arvalid /\ dcache.bready /\ ~dcache.rready
      /\ sram.state = "BUSY" /\ sram.is_write_req /\ ~sram.is_read_req
      /\ sram.awready /\ ~sram.wready /\ sram.bvalid
  BY DEF Wrote
<1>2. ~MemoryTakes
  BY <1>1, Own
<1>3. request'.we = request.we /\ written'
  BY <1>1, <1>2, Standing
<1>4. /\ SramWrite(dcache.awvalid, dcache.aw, dcache.bready)
      /\ dcache.awvalid \in BOOLEAN /\ dcache.bready \in BOOLEAN
      /\ sram \in SramType
      /\ ~ForIfu' /\ ~ForLsu'
  BY <1>1, Own DEF SramRead, SramIdle
<1>5. ~SramTakes(dcache.awvalid)
  BY <1>1 DEF SramTakes
<1>6. /\ sram'.state = "IDLE" /\ ~sram'.wready /\ ~sram'.bvalid /\ ~sram'.awready
      /\ mem' = mem
  BY <1>1, <1>4, <1>5, SramWriteFields
<1>7. /\ dcache'.state = "MEM_BUSY" /\ dcache'.device_done
      /\ ~dcache'.awvalid /\ ~dcache'.arvalid
      /\ ~dcache'.bready /\ ~dcache'.rready
  BY <1>1, Busy
<1>8. PortOK'
  BY <1>4, <1>6 DEF PortOK
<1>9. QED BY <1>1, <1>2, <1>3, <1>4, <1>6, <1>7, <1>8
          DEF Finished, Silent, Others, WriteLow

LEMMA ReadingStep ==
  ASSUME Types, Reporting, Ring!Consistent, Held, Reading,
         NEW mdu_ready \in BOOLEAN, NEW pc_update \in BOOLEAN,
         NEW miss \in BOOLEAN, NEW next \in Ops \cup {Bubble},
         Inputs(mdu_ready, next, pc_update, miss)
  PROVE  (Reading' \/ Finished') /\ PortOK' /\ mem' = mem /\ ~MemoryTakes
<1>1. /\ dcache.state = "MEM_BUSY" /\ ~dcache.device_done
      /\ ~request.we /\ ~written /\ ForLsu
      /\ ~dcache.awvalid /\ ~dcache.arvalid /\ ~dcache.bready /\ dcache.rready
      /\ sram.state = "BUSY" /\ sram.is_read_req /\ ~sram.is_write_req
      /\ ~sram.rd_burst /\ sram.read_addr = ex.at
      /\ ~sram.awready /\ ~sram.wready /\ ~sram.bvalid
      /\ sram.rvalid => sram.rlast /\ sram.rdata = mem[ex.at]
  BY DEF Reading, WriteLow
<1>2. ~MemoryTakes
  BY <1>1, Own
<1>3. request'.we = request.we /\ ~written' /\ ex' = ex
  BY <1>1, <1>2, Standing
<1>4. /\ SramRead(dcache.rready) /\ dcache.rready \in BOOLEAN
      /\ sram \in SramType
      /\ ~ForIfu' /\ (ForLsu' <=> ~sram.rvalid)
      /\ (ForLsu' <=> ~(current_master' = "IDLE"))
  BY <1>1, Own DEF SramWrite, SramIdle
<1>5. /\ sram'.state = IF sram.rlast /\ sram.rvalid THEN "IDLE" ELSE "BUSY"
      /\ sram'.is_read_req /\ ~sram'.is_write_req
      /\ ~sram'.rd_burst /\ sram'.read_addr = sram.read_addr
      /\ ~sram'.awready /\ ~sram'.wready /\ ~sram'.bvalid
      /\ sram'.rdata = mem[sram.read_addr]
      /\ sram'.rvalid <=> ~sram.rvalid
      /\ sram'.rlast <=> ~sram.rvalid
      /\ mem' = mem
  BY <1>1, <1>4, SramReadFields
<1>6. /\ dcache'.state = "MEM_BUSY"
      /\ dcache'.device_done <=> sram.rvalid
      /\ ~dcache'.awvalid /\ ~dcache'.arvalid
      /\ ~dcache'.bready
      /\ dcache'.rready <=> ~sram.rvalid
      /\ sram.rvalid => dcache'.device_rdata = sram.rdata
  BY <1>1, Busy
<1>7. PortOK'
  BY <1>1, <1>4, <1>5 DEF PortOK
<1>8. CASE sram.rvalid
  <2>1. Finished'
    BY <1>1, <1>3, <1>4, <1>5, <1>6, <1>8 DEF Finished, Silent, Others, WriteLow
  <2>2. QED BY <1>2, <1>5, <1>7, <2>1
<1>9. CASE ~sram.rvalid
  <2>1. Reading'
    BY <1>1, <1>3, <1>4, <1>5, <1>6, <1>9 DEF Reading, WriteLow
  <2>2. QED BY <1>2, <1>5, <1>7, <2>1
<1>10. QED BY <1>8, <1>9

LEMMA FinishedStep ==
  ASSUME Types, Reporting, Ring!Consistent, IcacheOK, PortOK, Held, Finished,
         NEW mdu_ready \in BOOLEAN, NEW pc_update \in BOOLEAN,
         NEW miss \in BOOLEAN, NEW next \in Ops \cup {Bubble},
         Inputs(mdu_ready, next, pc_update, miss)
  PROVE  /\ Resting' /\ dcache'.state = "IDLE"
         /\ PortOK' /\ mem' = mem /\ ~MemoryTakes
         /\ HeadLeaves <=> request.we
<1>1. /\ dcache.state = "MEM_BUSY" /\ dcache.device_done /\ Silent
      /\ Others /\ ~ForLsu
      /\ written <=> request.we
  BY DEF Finished, Others
<1>2. /\ PortOK' /\ WriteLow' /\ mem' = mem /\ ~MemoryTakes
      /\ ~ForLsu'
  BY <1>1, OthersStep DEF Silent
<1>3. /\ dcache'.state = "IDLE" /\ ~dcache'.device_done /\ Silent'
  BY <1>1, Busy DEF Silent
<1>4. /\ drain_active' = ((grant_drain \/ drain_active) /\ ~ready)
      /\ written' = ((written \/ MemoryTakes) /\ ~HeadLeaves)
      /\ request.we = grant_drain /\ ready
      /\ request.we => stb_drain_valid
  BY <1>1, Blocks DEF Held
<1>5. ~drain_active' /\ (HeadLeaves <=> request.we)
  BY <1>4 DEF HeadLeaves, stb_drain_ready
<1>6. ~written'
  BY <1>1, <1>2, <1>4, <1>5
<1>7. QED BY <1>2, <1>3, <1>5, <1>6 DEF Resting, Others

(* No access is under way; one may be started. *)
LEMMA RestingStep ==
  ASSUME Types, Reporting, Ring!Consistent, IcacheOK, PortOK, Fences, Resting,
         NEW mdu_ready \in BOOLEAN, NEW pc_update \in BOOLEAN,
         NEW miss \in BOOLEAN, NEW next \in Ops \cup {Bubble},
         Inputs(mdu_ready, next, pc_update, miss)
  PROVE  /\ Resting' \/ Asking'
         /\ Held' /\ PortOK' /\ mem' = mem /\ ~MemoryTakes /\ ~HeadLeaves
<1>1. /\ dcache.state # "MEM_BUSY" /\ ~dcache.device_done /\ Silent
      /\ Others /\ ~ForLsu /\ ~written /\ ~drain_active
  BY DEF Resting, Others
<1>2. /\ PortOK' /\ WriteLow' /\ mem' = mem /\ ~MemoryTakes
      /\ ~ForLsu'
  BY <1>1, OthersStep DEF Silent
<1>3. /\ DcacheClock(is_fencei, request, ForLsu, ForLsu /\ sram.rvalid, sram.rdata,
                     ForLsu /\ sram.awready, ForLsu /\ sram.wready,
                     ForLsu /\ sram.bvalid)
      /\ drain_active' = ((grant_drain \/ drain_active) /\ ~ready)
      /\ written' = ((written \/ MemoryTakes) /\ ~HeadLeaves)
      /\ dcache \in DcacheType /\ is_fencei \in BOOLEAN
      /\ request.we = grant_drain /\ request.we \in BOOLEAN
      /\ request.valid = (grant_load \/ grant_drain)
      /\ request.store = entry[drain_ptr]
      /\ is_read => request.word = ex.at
      /\ ready = IF request.valid THEN dcache.device_done ELSE ~dcache.fence_ing
  BY Blocks
<1>4. ~written' /\ ~HeadLeaves
  <2>1. grant_drain => ~ready
    BY <1>1, <1>3
  <2>2. ~HeadLeaves
    BY <2>1 DEF HeadLeaves, stb_drain_ready
  <2>3. QED BY <1>1, <1>2, <1>3, <2>2
<1>5. CASE dcache.state = "FENCE"
  <2>1. Fence
    BY <1>3, <1>5 DEF DcacheClock, Idle, MemBusy
  <2>2. /\ dcache'.state # "MEM_BUSY" /\ ~dcache'.device_done /\ Silent'
    BY <1>1, <1>3, <2>1, FenceFields DEF Silent
  <2>3. count = 0
    BY <1>5 DEF Fences
  <2>4. ~stb_drain_valid
    BY <2>3, Counts
  <2>5. ~drain_active'
    BY <1>1, <1>3, <2>4 DEF grant_drain
  <2>6. Resting'
    BY <1>2, <1>4, <2>2, <2>5 DEF Resting, Others
  <2>7. QED BY <1>2, <1>4, <2>2, <2>6 DEF Held
<1>6. CASE dcache.state = "IDLE"
  <2>1. Idle(is_fencei, request)
    BY <1>3, <1>6 DEF DcacheClock, Fence, MemBusy
  <2>2. /\ dcache'.state = IF is_fencei THEN "FENCE"
                           ELSE IF request.valid THEN "MEM_BUSY" ELSE "IDLE"
        /\ ~dcache'.device_done
        /\ dcache'.awvalid <=> dcache.awvalid \/ (request.valid /\ request.we)
        /\ dcache'.arvalid <=> dcache.arvalid \/ (request.valid /\ ~request.we)
        /\ dcache'.bready <=> dcache.bready
        /\ dcache'.rready <=> dcache.rready
        /\ request.valid /\ request.we => dcache'.aw = request.store
        /\ request.valid /\ ~request.we => dcache'.ar = request.word
    BY <1>3, <2>1, IdleFields
  <2>3. is_fencei => ~request.valid
    <3>1. is_fencei => count = 0 /\ ~is_read
      BY DEF is_fencei, is_fence, is_read, Fences
    <3>2. count = 0 => ~stb_drain_valid
      BY Counts
    <3>3. QED BY <1>1, <1>3, <3>1, <3>2 DEF grant_drain, grant_load, exu_load_req
  <2>4. CASE request.valid
    <3>1. /\ dcache'.state = "MEM_BUSY" /\ ~dcache'.device_done
          /\ dcache'.awvalid <=> request.we
          /\ dcache'.arvalid <=> ~request.we
          /\ ~dcache'.bready /\ ~dcache'.rready
      BY <1>1, <2>2, <2>3, <2>4 DEF Silent
    <3>2. request.we => stb_drain_valid
      BY <1>1, <1>3 DEF grant_drain
    <3>3. /\ request'.valid
          /\ request'.we = request.we
          /\ request.we => /\ drain_active' /\ stb_drain_valid'
                           /\ drain_ptr' = drain_ptr
                           /\ entry'[drain_ptr] = entry[drain_ptr]
          /\ ~request.we => ~drain_active' /\ exu_load_req' /\ ex' = ex
      BY <1>1, <2>4, <3>2, RequestStays
    <3>4. ~request.we => is_read
      BY <1>3, <2>4, Zenon DEF grant_load, exu_load_req
    <3>5. Asking'
      BY <1>2, <1>4, <3>1, <3>3 DEF Asking, Raised, Others
    <3>6. Held'
      BY <1>3, <2>2, <2>4, <3>3, <3>4 DEF Held
    <3>7. QED BY <1>2, <1>4, <3>5, <3>6
  <2>5. CASE ~request.valid
    <3>1. ~grant_drain /\ ~drain_active'
      BY <1>1, <1>3, <2>5
    <3>2. dcache'.state # "MEM_BUSY" /\ Silent' /\ ~dcache'.device_done
      BY <1>1, <2>2, <2>5 DEF Silent
    <3>3. Resting'
      BY <1>2, <1>4, <3>1, <3>2 DEF Resting, Others
    <3>4. QED BY <1>2, <1>4, <3>2, <3>3 DEF Held
  <2>6. QED BY <2>4, <2>5
<1>7. QED BY <1>1, <1>3, <1>5, <1>6 DEF DcacheType

-----------------------------------------------------------------------------
(* The path as a whole *)

LEMMA FencesStep ==
  ASSUME NoStoreAfterFence, DrainedFence,
         Types, Reporting, Ring!Consistent, Fences,
         NEW mdu_ready \in BOOLEAN, NEW pc_update \in BOOLEAN,
         NEW miss \in BOOLEAN, NEW next \in Ops \cup {Bubble},
         Inputs(mdu_ready, next, pc_update, miss)
  PROVE  Fences'
<1>1. ASSUME is_fence
      PROVE  count' = 0 /\ ex'.kind # "store"
  <2>1. count = 0 /\ ~is_write
    BY <1>1 DEF Fences, is_fence, is_write
  <2>2. count' = 0
    BY <2>1, EmptyStays
  <2>3. ex' = ex \/ ex'.kind # "store"
    BY <1>1, StageSteps DEF Follows
  <2>4. QED BY <1>1, <2>2, <2>3 DEF is_fence
<1>2. ASSUME dcache'.state = "FENCE"
      PROVE  count' = 0 /\ ex'.kind # "store"
  <2>1. CASE ~is_fence
    <3>1. dcache.state = "FENCE" /\ ~dcache.fence_done
      BY <1>2, <2>1, FenceSteps DEF is_fencei
    <3>2. ex' = ex /\ ex.kind # "store" /\ count = 0
      BY <2>1, <3>1, StageSteps DEF Fences
    <3>3. count' = 0
      BY <3>2, EmptyStays DEF is_write
    <3>4. QED BY <3>2, <3>3
  <2>2. QED BY <1>1, <2>1
<1>3. ASSUME ~dcache'.fence_done
      PROVE  dcache'.state = "FENCE"
  <2>1. /\ DcacheClock(is_fencei, request, ForLsu, ForLsu /\ sram.rvalid, sram.rdata,
                       ForLsu /\ sram.awready, ForLsu /\ sram.wready,
                       ForLsu /\ sram.bvalid)
        /\ dcache \in DcacheType /\ is_fencei \in BOOLEAN
    BY Blocks
  <2>2. CASE dcache.state = "IDLE"
    <3>1. Idle(is_fencei, request)
      BY <2>1, <2>2 DEF DcacheClock, Fence, MemBusy
    <3>2. QED BY <1>3, <2>1, <3>1, IdleFields
  <2>3. CASE dcache.state = "MEM_BUSY"
    <3>1. dcache'.fence_done <=> dcache.fence_done
      BY <2>3, Busy
    <3>2. QED BY <1>3, <2>3, <3>1 DEF Fences
  <2>4. CASE dcache.state = "FENCE"
    <3>1. Fence
      BY <2>1, <2>4 DEF DcacheClock, Idle, MemBusy
    <3>2. QED BY <1>3, <2>1, <3>1, FenceFields
  <2>5. QED BY <2>1, <2>2, <2>3, <2>4 DEF DcacheType
<1>4. ASSUME is_fence'
      PROVE  count' = 0
  <2>1. CASE ex' = ex
    BY <1>1, <1>4, <2>1 DEF is_fence
  <2>2. CASE ex' # ex
    <3>1. Follows(ex')
      BY <2>2, StageSteps
    <3>2. count = 0 /\ ~(lsu_en /\ is_write)
      BY <1>4, <3>1 DEF Follows, is_fence
    <3>3. QED BY <3>2, EmptyStays
  <2>3. QED BY <2>1, <2>2
<1>5. QED BY <1>2, <1>3, <1>4 DEF Fences

(* The byte of a store the memory takes. *)
LEMMA Takes ==
  ASSUME Types, NEW wvalid, NEW store \in Stores, NEW bready,
         SramWrite(wvalid, store, bready), SramTakes(wvalid),
         NEW w \in Words, NEW l \in Lanes
  PROVE  mem'[w][l] = IF w = store.word /\ l \in store.wstrb THEN store.data
                      ELSE mem[w][l]
<1> DEFINE content == [k \in Lanes |-> IF k \in store.wstrb THEN store.data
                                       ELSE mem[store.word][k]]
<1>1. mem' = [mem EXCEPT ![store.word] = content]
  BY DEF SramWrite
<1>2. mem \in [Words -> [Lanes -> Data]] /\ store.word \in Words
  BY BufferAssumption DEF Types, Content
<1>3. content[l] = IF l \in store.wstrb THEN store.data ELSE mem[store.word][l]
  OBVIOUS
<1> HIDE DEF content
<1>4. QED BY <1>1, <1>2, <1>3

(* An edge keeps the path as it must be; the memory takes the store at the *)
(* head, once, and only then does the head leave.                          *)
LEMMA PathStep ==
  ASSUME NoStoreAfterFence, DrainedFence,
         Types, Reporting, Ring!Consistent, Path, Landed,
         NEW mdu_ready \in BOOLEAN, NEW pc_update \in BOOLEAN,
         NEW miss \in BOOLEAN, NEW next \in Ops \cup {Bubble},
         Inputs(mdu_ready, next, pc_update, miss)
  PROVE  /\ Path' /\ Landed'
         /\ MemoryTakes =>
              /\ ~written /\ ~HeadLeaves /\ stb_drain_valid
              /\ dcache.aw = entry[drain_ptr]
              /\ \A w \in Words, l \in Lanes :
                   mem'[w][l] = IF /\ w = entry[drain_ptr].word
                                   /\ l \in entry[drain_ptr].wstrb
                                  THEN entry[drain_ptr].data
                                  ELSE mem[w][l]
         /\ ~MemoryTakes => mem' = mem
         /\ HeadLeaves => written
<1>1. IcacheOK /\ PortOK /\ Phase /\ Held /\ Fences
  BY DEF Path
<1>2. IcacheOK'
  BY <1>1, Blocks, IcacheStep
<1>3. Fences'
  BY <1>1, FencesStep
<1>4. dcache.state = "MEM_BUSY" /\ ~dcache.device_done =>
        /\ Held'
        /\ request.we => entry'[drain_ptr'] = entry[drain_ptr]
        /\ ~HeadLeaves
  BY <1>1, Standing
<1>5. CASE Resting
  <2>1. /\ Resting' \/ Asking'
        /\ Held' /\ PortOK' /\ mem' = mem /\ ~MemoryTakes /\ ~HeadLeaves
    BY <1>1, <1>5, RestingStep
  <2>2. ~written'
    BY <2>1 DEF Resting, Asking, Raised
  <2>3. QED BY <1>2, <1>3, <2>1, <2>2 DEF Path, Phase, Landed
<1>6. CASE Asking
  <2>1. (Asking' \/ Granted') /\ PortOK' /\ mem' = mem /\ ~MemoryTakes
    BY <1>1, <1>6, AskingStep
  <2>2. ~written' /\ dcache.state = "MEM_BUSY" /\ ~dcache.device_done
    BY <1>6, <2>1 DEF Asking, Granted, Raised
  <2>3. QED BY <1>2, <1>3, <1>4, <2>1, <2>2 DEF Path, Phase, Landed
<1>7. CASE Granted
  <2>1. (Writing' \/ Reading') /\ PortOK' /\ mem' = mem /\ ~MemoryTakes
    BY <1>1, <1>7, GrantedStep
  <2>2. ~written' /\ dcache.state = "MEM_BUSY" /\ ~dcache.device_done
    BY <1>7, <2>1 DEF Writing, Reading, Granted, Raised
  <2>3. QED BY <1>2, <1>3, <1>4, <2>1, <2>2 DEF Path, Phase, Landed
<1>8. CASE Writing
  <2>1. /\ Wrote' /\ PortOK' /\ MemoryTakes
        /\ SramWrite(dcache.awvalid, dcache.aw, dcache.bready)
    BY <1>1, <1>8, WritingStep
  <2>2. /\ ~written /\ dcache.state = "MEM_BUSY" /\ ~dcache.device_done
        /\ request.we /\ SramTakes(dcache.awvalid)
    BY <1>8 DEF Writing, Raised, SramTakes
  <2>3. stb_drain_valid /\ dcache.aw = entry[drain_ptr]
    BY <1>1, <2>2 DEF Held
  <2>4. dcache.aw \in Stores
    BY DEF Types, DcacheType
  <2>5. \A w \in Words, l \in Lanes :
          mem'[w][l] = IF /\ w = entry[drain_ptr].word
                          /\ l \in entry[drain_ptr].wstrb
                         THEN entry[drain_ptr].data
                         ELSE mem[w][l]
    BY <2>1, <2>2, <2>3, <2>4, Takes
  <2>6. entry[drain_ptr].word \in Words /\ entry[drain_ptr].wstrb \subseteq Lanes
    BY <2>3, <2>4, BufferAssumption
  <2>7. Landed'
    BY <1>4, <2>2, <2>5, <2>6 DEF Landed
  <2>8. QED BY <1>2, <1>3, <1>4, <2>1, <2>2, <2>3, <2>5, <2>7 DEF Path, Phase
<1>9. CASE Wrote
  <2>1. Finished' /\ PortOK' /\ mem' = mem /\ ~MemoryTakes
    BY <1>1, <1>9, WroteStep
  <2>2. /\ written /\ dcache.state = "MEM_BUSY" /\ ~dcache.device_done
        /\ request.we
    BY <1>9 DEF Wrote
  <2>3. Landed'
    BY <1>4, <2>1, <2>2 DEF Landed
  <2>4. QED BY <1>2, <1>3, <1>4, <2>1, <2>2, <2>3 DEF Path, Phase
<1>10. CASE Reading
  <2>1. (Reading' \/ Finished') /\ PortOK' /\ mem' = mem /\ ~MemoryTakes
    BY <1>1, <1>10, ReadingStep
  <2>2. /\ ~request.we /\ ~written
        /\ dcache.state = "MEM_BUSY" /\ ~dcache.device_done
    BY <1>10 DEF Reading
  <2>3. ~written'
    BY <1>1, <2>1, <2>2, Standing
  <2>4. QED BY <1>2, <1>3, <1>4, <2>1, <2>2, <2>3 DEF Path, Phase, Landed
<1>11. CASE Finished
  <2>1. /\ Resting' /\ dcache'.state = "IDLE"
        /\ PortOK' /\ mem' = mem /\ ~MemoryTakes
        /\ HeadLeaves <=> request.we
    BY <1>1, <1>11, FinishedStep
  <2>2. ~written' /\ (written <=> request.we)
    BY <1>11, <2>1 DEF Finished, Resting
  <2>3. QED BY <1>2, <1>3, <2>1, <2>2 DEF Path, Phase, Landed, Held
<1>12. QED BY <1>1, <1>5, <1>6, <1>7, <1>8, <1>9, <1>10, <1>11 DEF Phase

-----------------------------------------------------------------------------
(* Memory under the pending stores *)

(* The n-th pending store, and whether a store writes a byte. *)
nth(n) == entry[Stb!Slot(n - 1)]

Writes(s, w, l) == s.word = w /\ l \in s.wstrb

(* Where a byte is seen: in memory, or in the youngest store to it. *)
SeenAt(w, l) ==
  \/ /\ \A i \in 1..count : ~Writes(nth(i), w, l)
     /\ Visible(w, l) = mem[w][l]
  \/ \E i \in 1..count :
       /\ Writes(nth(i), w, l)
       /\ \A j \in (i + 1)..count : ~Writes(nth(j), w, l)
       /\ Visible(w, l) = nth(i).data

LEMMA Seen ==
  Types /\ Ring!Consistent => \A w \in Words, l \in Lanes : SeenAt(w, l)
<1> SUFFICES ASSUME Types, Ring!Consistent, NEW w \in Words, NEW l \in Lanes
             PROVE  SeenAt(w, l)
  OBVIOUS
<1>1. /\ count \in 0..DEPTH /\ drain_ptr \in Ring!Slots
      /\ entry \in [Ring!Slots -> Stores] /\ DEPTH \in Nat
  BY Counts, SameWires, BufferAssumption
<1>2. Ring!Pending = Stb!Pending
  BY SameWires DEF Ring!Pending, Stb!Pending
<1>3. Len(Stb!Pending) = count
  BY <1>1, <1>2, Ring!PendingIsWindow, Ring!WindowType, BufferAssumption
<1>4. \A i \in 1..count : Stb!Pending[i] = nth(i)
  BY DEF Stb!Pending, nth
<1> DEFINE writers == {i \in 1..Len(Stb!Pending) :
                         /\ Stb!Pending[i].word = w
                         /\ l \in Stb!Pending[i].wstrb}
           y == IF writers = {} THEN 0
                ELSE CHOOSE i \in writers : \A j \in writers : j <= i
<1>5. Stb!Queue!Youngest(w, l) = y
  BY DEF Stb!Queue!Youngest
<1>6. Visible(w, l) = IF y = 0 THEN mem[w][l] ELSE Stb!Pending[y].data
  BY <1>5 DEF Visible
<1>7. \A i \in 1..count : i \in writers <=> Writes(nth(i), w, l)
  BY <1>3, <1>4 DEF Writes
<1>8. writers \subseteq 1..count /\ writers \subseteq 0..count
  BY <1>1, <1>3
<1>9. CASE writers = {}
  <2>1. y = 0
    BY <1>9
  <2> HIDE DEF y, writers
  <2>2. QED BY <1>6, <1>7, <1>9, <2>1 DEF SeenAt
<1>10. CASE writers # {}
  <2>1. count \in Nat
    BY <1>1
  <2>2. \E i \in writers : \A j \in writers : j <= i
    <3> HIDE DEF writers
    <3>1. QED BY <1>8, <1>10, <2>1, Ring!BoundedMaximum, BufferAssumption
  <2>3. y \in writers /\ \A j \in writers : j <= y
    BY <1>10, <2>2
  <2> HIDE DEF y, writers
  <2>4. y \in 1..count /\ y # 0 /\ y \in Nat
    BY <1>1, <1>8, <2>3
  <2>5. \A j \in (y + 1)..count : ~Writes(nth(j), w, l)
    <3>1. ASSUME NEW j \in (y + 1)..count
          PROVE  j \in 1..count /\ ~(j <= y)
      BY <1>1, <2>4
    <3>2. QED BY <1>7, <2>3, <3>1
  <2>6. Writes(nth(y), w, l) /\ Visible(w, l) = nth(y).data
    BY <1>4, <1>6, <1>7, <2>3, <2>4
  <2>7. QED BY <2>4, <2>5, <2>6 DEF SeenAt
<1>11. QED BY <1>9, <1>10

(* The youngest store to a byte is one of the pending ones, if there is one. *)
LEMMA YoungestType ==
  ASSUME Types, Ring!Consistent, NEW w \in Words, NEW l \in Lanes
  PROVE  Stb!Queue!Youngest(w, l) \in 0..count
<1>1. /\ count \in 0..DEPTH /\ drain_ptr \in Ring!Slots
      /\ entry \in [Ring!Slots -> Stores] /\ DEPTH \in Nat
  BY Counts, SameWires, BufferAssumption
<1>2. Ring!Pending = Stb!Pending
  BY SameWires DEF Ring!Pending, Stb!Pending
<1>3. Len(Stb!Pending) = count
  BY <1>1, <1>2, Ring!PendingIsWindow, Ring!WindowType, BufferAssumption
<1> DEFINE writers == {i \in 1..Len(Stb!Pending) :
                         /\ Stb!Pending[i].word = w
                         /\ l \in Stb!Pending[i].wstrb}
<1> DEFINE y == IF writers = {} THEN 0
                ELSE CHOOSE i \in writers : \A j \in writers : j <= i
<1>4. Stb!Queue!Youngest(w, l) = y
  BY DEF Stb!Queue!Youngest
<1>5. writers \subseteq 1..count /\ writers \subseteq 0..count /\ count \in Nat
  BY <1>1, <1>3
<1>6. CASE writers = {}
  <2>1. y = 0
    BY <1>6
  <2> HIDE DEF y, writers
  <2>2. QED BY <1>4, <1>5, <2>1
<1>7. CASE writers # {}
  <2>1. \E i \in writers : \A j \in writers : j <= i
    <3> HIDE DEF writers
    <3>1. QED BY <1>5, <1>7, Ring!BoundedMaximum, BufferAssumption
  <2>2. y \in writers
    BY <1>7, <2>1
  <2> HIDE DEF y, writers
  <2>3. QED BY <1>4, <1>5, <2>2
<1>8. QED BY <1>6, <1>7

(* The same after an edge. *)
LEMMA SeenNext ==
  (Types /\ Ring!Consistent => \A w \in Words, l \in Lanes : SeenAt(w, l))'
  BY Seen, PTL

(* How the pending stores move up in an edge. *)
LEMMA QueueMoves ==
  ASSUME Types, Reporting, Ring!Consistent,
         NEW mdu_ready \in BOOLEAN, NEW pc_update \in BOOLEAN,
         NEW miss \in BOOLEAN, NEW next \in Ops \cup {Bubble},
         Inputs(mdu_ready, next, pc_update, miss),
         NEW d, d = IF HeadLeaves THEN 1 ELSE 0,
         NEW a, a = IF retires(mdu_ready) /\ is_write THEN 1 ELSE 0
  PROVE  /\ d \in 0..1 /\ a \in 0..1 /\ d <= count
         /\ count' = count + a - d /\ count' \in Nat
         /\ \A i \in 1..(count - d) : nth(i)' = nth(i + d)
         /\ a = 1 => nth(count)' = ex.at
<1> DEFINE comes == lsu_en /\ is_write
<1>1. /\ flush_en \in BOOLEAN /\ comes \in BOOLEAN
      /\ presented \in Stores /\ cmt \in BOOLEAN
      /\ cmt_stb_id \in Ring!Slots /\ stb_drain_ready \in BOOLEAN
      /\ Ring!RegistersOK /\ Ring!RingConsistent
      /\ Ring!Edge(flush_en, comes, presented, cmt, cmt_stb_id, stb_drain_ready)
  BY RingEdge
<1>2. retires(mdu_ready) /\ is_write <=> comes /\ Ring!stb_ready
  BY TakenWhenRetired, SameWires DEF Inputs
<1>3. comes /\ flush_en => FALSE
  BY DEF lsu_en
<1>4. comes => presented = ex.at
  BY DEF presented
<1> HIDE DEF comes
<1>5. /\ d = Ring!Bit(Ring!stb_drain_valid /\ stb_drain_ready)
      /\ a = Ring!Bit(comes /\ Ring!stb_ready)
      /\ d \in 0..1 /\ a \in 0..1
  BY <1>2, SameWires DEF HeadLeaves, Ring!Bit
<1>6. /\ Ring!Bit(Ring!stb_drain_valid /\ stb_drain_ready) <= commit_count
      /\ count' = IF flush_en
                    THEN commit_count + Ring!Bit(cmt)
                           - Ring!Bit(Ring!stb_drain_valid /\ stb_drain_ready)
                    ELSE count + Ring!Bit(comes /\ Ring!stb_ready)
                           - Ring!Bit(Ring!stb_drain_valid /\ stb_drain_ready)
      /\ count' \in 0..DEPTH
  BY <1>1, Ring!PointersStep, BufferAssumption
<1>7. /\ d <= commit_count
      /\ count' = IF flush_en THEN commit_count + Ring!Bit(cmt) - d ELSE count + a - d
      /\ count' \in 0..DEPTH
  BY <1>5, <1>6
<1>8. /\ count \in 0..DEPTH /\ commit_count \in 0..DEPTH /\ DEPTH \in Nat
      /\ count = commit_count + (IF cmt THEN 1 ELSE 0)
  BY Counts, BufferAssumption
<1>9. flush_en => a = 0
  BY <1>3, <1>5 DEF Ring!Bit
<1>10. count' = count + a - d /\ count' \in Nat /\ d <= count
  <2>1. Ring!Bit(cmt) = IF cmt THEN 1 ELSE 0
    BY DEF Ring!Bit
  <2>2. commit_count <= count
    BY <1>8
  <2>3. CASE flush_en
    <3>1. count' = count - d
      BY <1>7, <1>8, <2>1, <2>3
    <3>2. a = 0
      BY <1>9, <2>3
    <3>3. QED BY <1>5, <1>7, <1>8, <2>2, <3>1, <3>2
  <2>4. CASE ~flush_en
    BY <1>5, <1>7, <1>8, <2>2, <2>4
  <2>5. QED BY <2>3, <2>4
<1>11. ASSUME NEW k \in Nat
       PROVE  /\ k + d < count =>
                   entry'[Ring!At(drain_ptr', k)] = entry[Ring!At(drain_ptr, k + d)]
              /\ Ring!Bit(comes /\ Ring!stb_ready /\ ~flush_en) = 1
                   /\ k + d = count => entry'[Ring!At(drain_ptr', k)] = presented
  BY <1>1, <1>5, Ring!PayloadStep, BufferAssumption
<1>12. /\ \A i : nth(i) = entry[Ring!At(drain_ptr, i - 1)]
       /\ \A i : nth(i)' = entry'[Ring!At(drain_ptr', i - 1)]
  BY DEF nth, Stb!Slot, Ring!At, Stb!Wrap, Ring!Wrap
<1>13. ASSUME NEW i \in 1..(count - d)
       PROVE  nth(i)' = nth(i + d)
  <2>1. i - 1 \in Nat /\ (i - 1) + d < count /\ (i - 1) + d = (i + d) - 1
    BY <1>5, <1>8
  <2>2. entry'[Ring!At(drain_ptr', i - 1)] = entry[Ring!At(drain_ptr, (i - 1) + d)]
    BY <1>11, <2>1
  <2>3. QED BY <1>12, <2>1, <2>2
<1>14. ASSUME a = 1
       PROVE  nth(count)' = ex.at
  <2>1. comes /\ Ring!stb_ready /\ ~flush_en
    BY <1>3, <1>5, <1>14 DEF Ring!Bit
  <2>2. Ring!Bit(comes /\ Ring!stb_ready /\ ~flush_en) = 1
    BY <2>1 DEF Ring!Bit
  <2>3. /\ count - d \in Nat /\ (count - d) + d = count
        /\ count' - 1 = count - d
    BY <1>5, <1>8, <1>10, <1>14
  <2>4. entry'[Ring!At(drain_ptr', count - d)] = presented
    BY <1>11, <2>2, <2>3
  <2>5. nth(count)' = entry'[Ring!At(drain_ptr', count' - 1)]
    BY DEF nth, Stb!Slot, Ring!At, Stb!Wrap, Ring!Wrap
  <2>6. QED BY <1>4, <2>1, <2>3, <2>4, <2>5
<1>15. QED BY <1>5, <1>10, <1>13, <1>14

(* v is seen of a byte over c stores q, of which `hits' write it, and m. *)
Newest(c, q, hits, m, v) ==
  \/ (\A i \in 1..c : i \notin hits) /\ v = m
  \/ \E i \in 1..c : /\ i \in hits /\ v = q[i].data
                     /\ \A j \in (i + 1)..c : j \notin hits

(* The stores move up by d, and a come in behind. *)
MovesUp(c, c1, d, a, q, q1, hits, hits1) ==
  /\ c \in Nat /\ c1 \in Nat /\ d \in 0..1 /\ a \in 0..1
  /\ d <= c /\ c1 = c + a - d
  /\ \A i \in 1..(c - d) : q1[i] = q[i + d] /\ (i \in hits1 <=> i + d \in hits)

(* Memory changes only to the bytes of the head, and the head leaves only  *)
(* when memory holds its bytes.                                            *)
HeadLands(c, d, q, hits, m, m1) ==
  /\ m1 = m \/ (d = 0 /\ c > 0 /\ 1 \in hits)
  /\ d = 1 => m1 = m /\ (1 \in hits => m = q[1].data)

(* What is seen of the byte then: the new store, if it writes it, else what*)
(* was seen before.                                                        *)
LEMMA SeenMoves ==
  ASSUME NEW c, NEW c1, NEW d, NEW a, NEW q, NEW q1, NEW hits, NEW hits1,
         NEW m, NEW m1, NEW v, NEW v1,
         MovesUp(c, c1, d, a, q, q1, hits, hits1),
         HeadLands(c, d, q, hits, m, m1),
         Newest(c, q, hits, m, v), Newest(c1, q1, hits1, m1, v1)
  PROVE  v1 = IF a = 1 /\ c1 \in hits1 THEN q1[c1].data ELSE v
<1> USE DEF MovesUp, HeadLands, Newest
<1>1. c1 - a = c - d /\ (a = 1 => c1 \in 1..c1)
  OBVIOUS
<1>2. CASE a = 1 /\ c1 \in hits1
  <2>1. PICK i \in 1..c1 : /\ i \in hits1 /\ v1 = q1[i].data
                           /\ \A j \in (i + 1)..c1 : j \notin hits1
    BY <1>1, <1>2
  <2>2. i = c1
    BY <1>1, <1>2, <2>1
  <2>3. QED BY <1>2, <2>1, <2>2
<1>3. CASE ~(a = 1 /\ c1 \in hits1)
  <2>1. CASE \E i \in 1..c1 : /\ i \in hits1 /\ v1 = q1[i].data
                              /\ \A j \in (i + 1)..c1 : j \notin hits1
    <3>1. PICK i \in 1..c1 : /\ i \in hits1 /\ v1 = q1[i].data
                             /\ \A j \in (i + 1)..c1 : j \notin hits1
      BY <2>1
    <3>2. i \in 1..(c - d)
      <4>1. a = 1 => i # c1
        BY <1>3, <3>1
      <4>2. QED BY <4>1
    <3>3. i + d \in 1..c /\ i + d \in hits /\ q1[i] = q[i + d]
      BY <3>1, <3>2
    <3>4. PICK k \in 1..c : /\ k \in hits /\ v = q[k].data
                            /\ \A j \in (k + 1)..c : j \notin hits
      BY <3>3
    <3>5. ~(i + d > k)
      BY <3>3, <3>4
    <3>6. ASSUME k > i + d
          PROVE  FALSE
      <4>1. /\ k - d \in 1..(c - d) /\ (k - d) + d = k
            /\ k - d \in (i + 1)..c1
        BY <3>2, <3>6
      <4>2. k - d \in hits1
        BY <3>4, <4>1
      <4>3. QED BY <3>1, <4>1, <4>2
    <3>7. k = i + d
      BY <3>2, <3>5, <3>6
    <3>8. QED BY <1>3, <3>1, <3>3, <3>4, <3>7
  <2>2. CASE (\A i \in 1..c1 : i \notin hits1) /\ v1 = m1
    <3>1. ASSUME NEW k \in 1..c, k \in hits
          PROVE  k = 1 /\ d = 1
      <4>1. ASSUME k - d > 0
            PROVE  FALSE
        <5>1. k - d \in 1..(c - d) /\ k - d \in 1..c1 /\ (k - d) + d = k
          BY <4>1
        <5>2. k - d \in hits1
          BY <3>1, <5>1
        <5>3. QED BY <2>2, <5>1, <5>2
      <4>2. QED BY <4>1
    <3>2. CASE \A i \in 1..c : i \notin hits
      <4>1. v = m
        BY <3>2
      <4>2. m1 = m
        <5>1. c > 0 => 1 \notin hits
          BY <3>2
        <5>2. QED BY <5>1
      <4>3. QED BY <1>3, <2>2, <4>1, <4>2
    <3>3. CASE ~(\A i \in 1..c : i \notin hits)
      <4>1. PICK k \in 1..c : /\ k \in hits /\ v = q[k].data
                              /\ \A j \in (k + 1)..c : j \notin hits
        BY <3>3
      <4>2. k = 1 /\ d = 1
        BY <3>1, <4>1
      <4>3. QED BY <1>3, <2>2, <4>1, <4>2
    <3>4. QED BY <3>2, <3>3
  <2>3. QED BY <2>1, <2>2
<1>4. QED BY <1>2, <1>3

(* The retired stores of an edge: at most one, that of the execute stage. *)
LEMMA ArchStep ==
  ASSUME Types, NEW mdu_ready \in BOOLEAN, History(mdu_ready),
         NEW w \in Words, NEW l \in Lanes
  PROVE  arch'[w][l] = IF retires(mdu_ready) /\ is_write /\ Writes(ex.at, w, l)
                         THEN ex.at.data ELSE arch[w][l]
<1>1. arch \in [Words -> [Lanes -> Data]]
  BY DEF Types, Content
<1>2. CASE retires(mdu_ready) /\ is_write
  <2> DEFINE content == [k \in Lanes |-> IF k \in ex.at.wstrb THEN ex.at.data
                                         ELSE arch[ex.at.word][k]]
  <2>1. ex.at.word \in Words
    BY <1>2, OpFacts, BufferAssumption DEF Types, is_write
  <2>2. arch' = [arch EXCEPT ![ex.at.word] = content]
    BY <1>2 DEF History
  <2>3. content[l] = IF l \in ex.at.wstrb THEN ex.at.data ELSE arch[ex.at.word][l]
    OBVIOUS
  <2> HIDE DEF content
  <2>4. QED BY <1>1, <1>2, <2>1, <2>2, <2>3 DEF Writes
<1>3. CASE ~(retires(mdu_ready) /\ is_write)
  BY <1>3 DEF History
<1>4. QED BY <1>2, <1>3

(* Memory under the pending stores stays program order. *)
LEMMA OrderedStep ==
  ASSUME NoStoreAfterFence, DrainedFence,
         Types, Reporting, Ring!Consistent, Path, Landed, Ordered,
         Types', Ring!Consistent',
         NEW mdu_ready \in BOOLEAN, NEW pc_update \in BOOLEAN,
         NEW miss \in BOOLEAN, NEW next \in Ops \cup {Bubble},
         Inputs(mdu_ready, next, pc_update, miss)
  PROVE  Ordered'
<1> SUFFICES ASSUME NEW w \in Words, NEW l \in Lanes
             PROVE  Visible(w, l)' = arch'[w][l]
  BY DEF Ordered
<1> DEFINE d     == IF HeadLeaves THEN 1 ELSE 0
           a     == IF retires(mdu_ready) /\ is_write THEN 1 ELSE 0
           q     == [i \in 1..count |-> nth(i)]
           q1    == [i \in 1..count' |-> nth(i)']
           hits  == {i \in 1..count : Writes(nth(i), w, l)}
           hits1 == {i \in 1..count' : Writes(nth(i)', w, l)}
           m     == mem[w][l]
           m1    == mem'[w][l]
           v     == Visible(w, l)
           v1    == Visible(w, l)'
<1>1. /\ d \in 0..1 /\ a \in 0..1 /\ d <= count
      /\ count' = count + a - d /\ count' \in Nat
      /\ \A i \in 1..(count - d) : nth(i)' = nth(i + d)
      /\ a = 1 => nth(count)' = ex.at
  BY QueueMoves
<1>2. count \in Nat /\ (stb_drain_valid => count > 0)
  BY Counts
<1>3. nth(1) = entry[drain_ptr]
  <2>1. drain_ptr \in 0..(DEPTH - 1)
    BY Counts DEF Stb!Slots
  <2>2. QED BY <2>1, BufferAssumption DEF nth, Stb!Slot, Stb!Wrap
<1>4. \A i \in 1..(count - d) :
        q1[i] = q[i + d] /\ (i \in hits1 <=> i + d \in hits)
  <2>1. ASSUME NEW i \in 1..(count - d)
        PROVE  i \in 1..count' /\ i + d \in 1..count
    <3> HIDE DEF d, a
    <3>1. QED BY <1>1, <1>2
  <2>2. QED BY <1>1, <2>1
<1>5. \/ (\A i \in 1..count : i \notin hits) /\ v = m
      \/ \E i \in 1..count : /\ i \in hits /\ v = q[i].data
                             /\ \A j \in (i + 1)..count : j \notin hits
  <2>1. SeenAt(w, l)
    BY Seen
  <2>2. QED BY <2>1 DEF SeenAt
<1>6. \/ (\A i \in 1..count' : i \notin hits1) /\ v1 = m1
      \/ \E i \in 1..count' : /\ i \in hits1 /\ v1 = q1[i].data
                              /\ \A j \in (i + 1)..count' : j \notin hits1
  <2>1. SeenAt(w, l)'
    BY SeenNext
  <2>2. \/ /\ \A i \in 1..count' : ~Writes(nth(i)', w, l)
           /\ v1 = m1
        \/ \E i \in 1..count' :
             /\ Writes(nth(i)', w, l)
             /\ \A j \in (i + 1)..count' : ~Writes(nth(j)', w, l)
             /\ v1 = nth(i)'.data
    BY <2>1 DEF SeenAt, Writes
  <2>3. QED BY <2>2
<1>7. /\ MemoryTakes =>
           /\ ~HeadLeaves /\ stb_drain_valid
           /\ mem'[w][l] = IF /\ w = entry[drain_ptr].word
                              /\ l \in entry[drain_ptr].wstrb
                             THEN entry[drain_ptr].data ELSE mem[w][l]
      /\ ~MemoryTakes => mem' = mem
      /\ HeadLeaves => written
  BY PathStep
<1>8. count > 0 => (1 \in hits <=> Writes(nth(1), w, l)) /\ q[1] = nth(1)
  BY <1>2
<1>9. m1 = m \/ (d = 0 /\ count > 0 /\ 1 \in hits)
  BY <1>2, <1>3, <1>7, <1>8 DEF Writes
<1>10. d = 1 => m1 = m /\ (1 \in hits => m = q[1].data)
  <2>1. HeadLeaves => stb_drain_valid
    BY DEF HeadLeaves
  <2>2. HeadLeaves => ~MemoryTakes /\ written
    BY <1>7
  <2>3. written /\ Writes(entry[drain_ptr], w, l) => mem[w][l] = entry[drain_ptr].data
    BY DEF Landed, Writes
  <2>4. QED BY <1>2, <1>3, <1>7, <1>8, <2>1, <2>2, <2>3
<1>11. v = arch[w][l]
  BY DEF Ordered
<1>12. arch'[w][l] = IF a = 1 /\ Writes(ex.at, w, l) THEN ex.at.data ELSE arch[w][l]
  BY ArchStep DEF Inputs, Edge
<1>13. a = 1 => /\ count' \in 1..count'
                /\ count' \in hits1 <=> Writes(ex.at, w, l)
                /\ q1[count'] = ex.at
  <2>1. a = 1 => count' \in 1..count'
    <3> HIDE DEF a, d
    <3>1. QED BY <1>1, <1>2
  <2>2. a = 1 => nth(count)' = ex.at
    BY <1>1
  <2>3. a = 1 => q1[count'] = nth(count)' /\ (count' \in hits1 <=> Writes(nth(count)', w, l))
    BY <2>1 DEF nth
  <2>4. QED BY <2>1, <2>2, <2>3
<1> HIDE DEF d, a, q, q1, hits, hits1, m, m1, v, v1
<1>14. v1 = IF a = 1 /\ count' \in hits1 THEN q1[count'].data ELSE v
  <2>1. MovesUp(count, count', d, a, q, q1, hits, hits1)
    BY <1>1, <1>2, <1>4 DEF MovesUp
  <2>2. HeadLands(count, d, q, hits, m, m1)
    BY <1>9, <1>10 DEF HeadLands
  <2>3. Newest(count, q, hits, m, v)
    BY <1>5 DEF Newest
  <2>4. Newest(count', q1, hits1, m1, v1)
    BY <1>6 DEF Newest
  <2>5. QED BY <2>1, <2>2, <2>3, <2>4, SeenMoves
<1>15. v1 = arch'[w][l]
  BY <1>11, <1>12, <1>13, <1>14
<1>16. QED BY <1>15 DEF v1

-----------------------------------------------------------------------------
(* The invariant and what follows *)

(* The inductive invariant: types and the client's word, the ring, the way *)
(* of the access under way, and the order of the bytes.                    *)
Inv == /\ Types /\ Reporting /\ Ring!Consistent
       /\ Path /\ Landed /\ Ordered

(* At reset nothing is under way, nothing is pending. *)
LEMMA InitPath ==
  ASSUME Init, Types, Ring!Consistent
  PROVE  Path /\ Landed /\ Ordered
<1>1. IcacheOK /\ PortOK
  BY DEF Init, BusInit, IcacheOK, PortOK, ForIfu
<1>2. Resting
  BY DEF Init, BusInit, DcacheInit, Resting, Silent, Others, WriteLow, ForLsu
<1>3. Held /\ Fences
  BY DEF Init, DcacheInit, Stb!ResetState, Bubble, Held, Fences, is_fence
<1>4. Landed
  BY DEF Init, Landed
<1>5. Ordered
  <2>1. count = 0 /\ arch = mem
    BY DEF Init, Stb!ResetState
  <2>2. ASSUME NEW w \in Words, NEW l \in Lanes
        PROVE  Visible(w, l) = arch[w][l]
    <3>1. SeenAt(w, l)
      BY Seen
    <3>2. QED BY <2>1, <3>1 DEF SeenAt
  <2>3. QED BY <2>2 DEF Ordered
<1>6. QED BY <1>1, <1>2, <1>3, <1>4, <1>5 DEF Path, Phase

(* What stands still keeps what is said of it. *)
LEMMA StutterPath ==
  ASSUME UNCHANGED vars, Path, Landed, Ordered
  PROVE  Path' /\ Landed' /\ Ordered'
<1> USE DEF vars, stbVars, exuVars, busVars
<1>1. request' = request /\ stb_drain_valid' = stb_drain_valid
      /\ exu_load_req' = exu_load_req
  BY DEF request, grant_load, grant_drain, exu_load_req, lsu_en, is_read, is_write,
         stb_drain_valid, Stb!stb_drain_valid
<1>2. IcacheOK' /\ PortOK'
  BY DEF Path, IcacheOK, PortOK, ForIfu
<1>3. Phase'
  BY <1>1 DEF Path, Phase, Resting, Asking, Granted, Writing, Wrote, Reading, Finished,
              Raised, Silent, Others, WriteLow, ForLsu
<1>4. Held' /\ Fences'
  BY <1>1 DEF Path, Held, Fences, is_fence
<1>5. Landed'
  BY DEF Landed
<1>6. Ordered'
  <2>1. Stb!Pending' = Stb!Pending
    BY DEF Stb!Pending, Stb!Slot, Stb!Wrap
  <2>2. ASSUME NEW w \in Words, NEW l \in Lanes
        PROVE  Stb!Queue!Youngest(w, l)' = Stb!Queue!Youngest(w, l)
    BY <2>1 DEF Stb!Queue!Youngest
  <2>3. QED BY <2>1, <2>2 DEF Ordered, Visible
<1>7. QED BY <1>2, <1>3, <1>4, <1>5, <1>6 DEF Path

(* LSU, store buffer, D-cache, bridge and memory agree at every edge on    *)
(* whose access is under way and how far it is (lsu.v:82-110,              *)
(* dcache.v:194-229, axi_bridge.v), and no byte is out of program order.   *)
THEOREM SpecInv ==
  ASSUME NoStoreAfterFence, DrainedFence
  PROVE  Spec => []Inv
<1>1. Spec => [](Types /\ Reporting /\ Ring!Consistent)
  BY SpecReports, PTL
<1> DEFINE Below == Types /\ Reporting /\ Ring!Consistent
           Above == Path /\ Landed /\ Ordered
<1>2. Init /\ Below => Above
  BY InitPath
<1>3. Below /\ Above /\ Below' /\ [Next]_vars => Above'
  <2> SUFFICES ASSUME Below, Above, Below', [Next]_vars
               PROVE  Above'
    OBVIOUS
  <2>1. CASE UNCHANGED vars
    BY <2>1, StutterPath
  <2>2. CASE Next
    <3>1. PICK mdu_ready \in BOOLEAN, pc_update \in BOOLEAN, miss \in BOOLEAN,
               next \in Ops \cup {Bubble} :
             Inputs(mdu_ready, next, pc_update, miss)
      BY <2>2, NextInputs
    <3>2. Path' /\ Landed'
      BY <3>1, PathStep
    <3>3. Ordered'
      BY <3>1, OrderedStep
    <3>4. QED BY <3>2, <3>3
  <2>3. QED BY <2>1, <2>2
<1>4. Below /\ Above => Inv
  BY DEF Inv
<1> HIDE DEF Below, Above
<1>5. Spec => []Below
  BY <1>1 DEF Below
<1>6. QED BY <1>2, <1>3, <1>4, <1>5, PTL DEF Spec

(* MemPath!MemoryIsProgramOrder: whatever is interleaved, what the memory  *)
(* holds under the stores still pending is what the retired stores leave   *)
(* in program order (lsu.v:82-110, store_buffer.v:114-175).                *)
THEOREM SpecMemoryIsProgramOrder ==
  ASSUME NoStoreAfterFence, DrainedFence
  PROVE  Spec => []MemoryIsProgramOrder
<1>1. Inv => MemoryIsProgramOrder
  BY DEF Inv, Ordered, MemoryIsProgramOrder
<1>2. QED BY <1>1, SpecInv, PTL

(* A load that is answered has been read from memory as it is now. *)
LEMMA LoadAnswered ==
  ASSUME Types, Path, exu_load_req, lsu_ready
  PROVE  ex.at \in Words /\ dcache.device_rdata = mem[ex.at]
<1>1. is_read /\ grant_load /\ ready
  BY DEF exu_load_req, lsu_ready, lsu_en, is_read
<1>2. ex.at \in Words
  BY <1>1, OpFacts DEF Types, is_read
<1>3. request.valid /\ request.we = grant_drain
  BY <1>1 DEF request
<1>4. dcache.device_done
  BY <1>1, <1>3 DEF ready, dcache_ready
<1>5. Finished
  BY <1>4 DEF Path, Phase, Resting, Asking, Granted, Raised, Writing, Wrote, Reading
<1>6. ~grant_drain
  BY <1>1 DEF grant_drain, grant_load
<1>7. QED BY <1>2, <1>3, <1>5, <1>6 DEF Finished

(* MemPath!LoadsSeeProgramOrder: a load is given the bytes of program      *)
(* order, forwarded or read (store_buffer.v:194-222, lsu.v:112-133).       *)
THEOREM SpecLoadsSeeProgramOrder ==
  ASSUME NoStoreAfterFence, DrainedFence
  PROVE  Spec => []LoadsSeeProgramOrder
<1>1. ASSUME Inv, exu_load_req, lsu_ready, NEW l \in Lanes
      PROVE  load_byte(l) = arch[ex.at][l]
  <2>1. Types /\ Ring!Consistent /\ Path /\ Ordered
    BY <1>1 DEF Inv
  <2>2. ex.at \in Words /\ dcache.device_rdata = mem[ex.at]
    BY <1>1, <2>1, LoadAnswered
  <2>3. Visible(ex.at, l) = arch[ex.at][l]
    BY <2>1, <2>2 DEF Ordered
  <2> DEFINE y == Stb!Queue!Youngest(ex.at, l)
  <2>4. Stb!ForwardSlot(ex.at, l) = IF y = 0 THEN DEPTH ELSE y - 1
    <3>1. Ring!ForwardSlot(ex.at, l) = IF Ring!Queue!Youngest(ex.at, l) = 0 THEN DEPTH
                                       ELSE Ring!Queue!Youngest(ex.at, l) - 1
      BY <2>1, <2>2, Ring!ForwardIsYoungest, BufferAssumption
    <3>2. Ring!ForwardSlot(ex.at, l) = Stb!ForwardSlot(ex.at, l)
      BY DEF Ring!ForwardSlot, Stb!ForwardSlot, Ring!Slots, Stb!Slots, Ring!Slot, Stb!Slot,
             Ring!Wrap, Stb!Wrap
    <3>3. Ring!Pending = Stb!Pending
      BY SameWires DEF Ring!Pending, Stb!Pending
    <3>4. Ring!Queue!Youngest(ex.at, l) = y
      BY <3>3 DEF Ring!Queue!Youngest, Stb!Queue!Youngest
    <3>5. QED BY <3>1, <3>2, <3>4
  <2>5. y \in 0..count
    BY <2>1, <2>2, YoungestType
  <2>6. DEPTH \in Nat /\ count \in 0..DEPTH
    BY <2>1, Counts, BufferAssumption
  <2>7. Visible(ex.at, l) = IF y = 0 THEN mem[ex.at][l] ELSE Stb!Pending[y].data
    BY DEF Visible
  <2> HIDE DEF y
  <2>8. CASE y = 0
    BY <2>2, <2>3, <2>4, <2>6, <2>7, <2>8 DEF load_byte
  <2>9. CASE y # 0
    <3>1. y - 1 < DEPTH /\ y \in 1..count
      BY <2>5, <2>6, <2>9
    <3>2. Stb!Pending[y] = entry[Stb!Slot(y - 1)]
      BY <3>1 DEF Stb!Pending
    <3>3. QED BY <2>3, <2>4, <2>7, <2>9, <3>1, <3>2 DEF load_byte
  <2>10. QED BY <2>8, <2>9
<1>2. Inv => LoadsSeeProgramOrder
  BY <1>1 DEF LoadsSeeProgramOrder
<1>3. QED BY <1>2, SpecInv, PTL

(* MemPath!RequestHeld: what the D-cache is asked stands, unchanged, until *)
(* it answers, though it latches nothing (lsu.v:82-110, dcache.v:194-229). *)
THEOREM SpecRequestHeld ==
  ASSUME NoStoreAfterFence, DrainedFence
  PROVE  Spec => RequestHeld
<1> DEFINE Stands == dcache.state = "MEM_BUSY" /\ ~dcache.device_done =>
                       /\ request'.valid
                       /\ request'.we = request.we
                       /\ IF request.we THEN request'.store = request.store
                                        ELSE request'.word = request.word
<1>1. Inv /\ Next => Stands
  <2> SUFFICES ASSUME Inv, Next, dcache.state = "MEM_BUSY", ~dcache.device_done
               PROVE  /\ request'.valid
                      /\ request'.we = request.we
                      /\ IF request.we THEN request'.store = request.store
                                       ELSE request'.word = request.word
    OBVIOUS
  <2>1. PICK mdu_ready \in BOOLEAN, pc_update \in BOOLEAN, miss \in BOOLEAN,
             next \in Ops \cup {Bubble} :
           Inputs(mdu_ready, next, pc_update, miss)
    BY NextInputs
  <2>2. request.valid /\ (request.we => stb_drain_valid)
    BY DEF Inv, Path, Held
  <2>3. QED BY <2>1, <2>2, RequestStays DEF Inv
<1> HIDE DEF Stands
<1>2. Spec => [][Stands]_vars
  BY <1>1, SpecInv, PTL DEF Spec
<1>3. QED BY <1>2 DEF Stands, RequestHeld

(* MemPath!EachStoreWrittenOnce: the memory takes each store once, while it*)
(* is at the head, and the head leaves no earlier (lsu.v:100-104).         *)
THEOREM SpecEachStoreWrittenOnce ==
  ASSUME NoStoreAfterFence, DrainedFence
  PROVE  Spec => EachStoreWrittenOnce
<1> DEFINE Once == /\ MemoryTakes => /\ ~written /\ stb_drain_valid
                                     /\ dcache.aw = entry[drain_ptr]
                   /\ HeadLeaves => written
<1>1. Inv /\ Next => Once
  <2> SUFFICES ASSUME Inv, Next
               PROVE  Once
    OBVIOUS
  <2>1. PICK mdu_ready \in BOOLEAN, pc_update \in BOOLEAN, miss \in BOOLEAN,
             next \in Ops \cup {Bubble} :
           Inputs(mdu_ready, next, pc_update, miss)
    BY NextInputs
  <2>2. Types /\ Reporting /\ Ring!Consistent /\ Path /\ Landed
    BY DEF Inv
  <2>3. QED BY <2>1, <2>2, PathStep
<1> HIDE DEF Once
<1>2. Spec => [][Once]_vars
  BY <1>1, SpecInv, PTL DEF Spec
<1>3. QED BY <1>2, PTL DEF Once, EachStoreWrittenOnce

-----------------------------------------------------------------------------
(* Type correctness *)

(* The two counters stay within their widths. *)
Ranges ==
  /\ dcache.fence_index \in 0..(CACHE_BLOCKS - 1)
  /\ sram.rd_cnt \in 0..ARLEN

LEMMA RangesStep ==
  ASSUME Types, Ranges,
         NEW mdu_ready \in BOOLEAN, NEW pc_update \in BOOLEAN,
         NEW miss \in BOOLEAN, NEW next \in Ops \cup {Bubble},
         Inputs(mdu_ready, next, pc_update, miss)
  PROVE  Ranges'
<1> USE AxiMemoryAssumption, CacheBlocksAssumption
<1>1. /\ dcache.fence_index \in 0..(CACHE_BLOCKS - 1) /\ sram.rd_cnt \in 0..ARLEN
      /\ dcache \in DcacheType /\ sram \in SramType
  BY DEF Ranges, Types
<1>2. dcache'.fence_index \in 0..(CACHE_BLOCKS - 1)
  <2>1. \/ dcache'.fence_index = dcache.fence_index
        \/ dcache'.fence_index = (dcache.fence_index + 1) % CACHE_BLOCKS
    <3>1. CASE \E fence_en, req : Idle(fence_en, req)
      BY <1>1, <3>1 DEF Idle, DcacheType
    <3>2. CASE \E req, arready, rvalid, rdata, awready, wready, bvalid :
                 MemBusy(req, arready, rvalid, rdata, awready, wready, bvalid)
      BY <1>1, <3>2 DEF MemBusy, DcacheType
    <3>3. CASE Fence
      BY <1>1, <3>3 DEF Fence, DcacheType
    <3>4. QED BY <3>1, <3>2, <3>3, Blocks DEF DcacheClock
  <2>2. (dcache.fence_index + 1) % CACHE_BLOCKS \in 0..(CACHE_BLOCKS - 1)
    BY <1>1
  <2>3. QED BY <1>1, <2>1, <2>2
<1>3. sram'.rd_cnt \in 0..ARLEN
  <2>1. \/ sram'.rd_cnt \in {sram.rd_cnt, ARLEN, 0}
        \/ sram.rd_cnt > 0 /\ sram'.rd_cnt = sram.rd_cnt - 1
    <3>1. CASE \E arvalid, burst, araddr, awvalid :
                 SramIdle(arvalid, burst, araddr, awvalid)
      BY <1>1, <3>1 DEF SramIdle, SramType
    <3>2. CASE \E rready : SramRead(rready)
      BY <1>1, <3>2 DEF SramRead, SramType
    <3>3. CASE \E wvalid, store, bready : SramWrite(wvalid, store, bready)
      BY <1>1, <3>3 DEF SramWrite, SramType
    <3>4. QED BY <3>1, <3>2, <3>3, Blocks DEF SramClock
  <2>2. QED BY <1>1, <2>1
<1>4. QED BY <1>2, <1>3 DEF Ranges

(* MemPath!TypeOK: every register keeps to its width; the two counters of  *)
(* the buffer never pass DEPTH, that of fence.i never passes the last line.*)
THEOREM SpecTypeOK ==
  ASSUME NoStoreAfterFence
  PROVE  Spec => []TypeOK
<1> DEFINE Below == Types /\ Reporting /\ Ring!Consistent
<1>1. Spec => []Below
  BY SpecReports, PTL
<1>2. Init => Ranges
  BY AxiMemoryAssumption, CacheBlocksAssumption DEF Init, DcacheInit, BusInit, Ranges
<1>3. Below /\ Ranges /\ [Next]_vars => Ranges'
  <2> SUFFICES ASSUME Below, Ranges, [Next]_vars
               PROVE  Ranges'
    OBVIOUS
  <2>1. CASE UNCHANGED vars
    BY <2>1 DEF vars, busVars, Ranges
  <2>2. CASE Next
    <3>1. PICK mdu_ready \in BOOLEAN, pc_update \in BOOLEAN, miss \in BOOLEAN,
               next \in Ops \cup {Bubble} :
             Inputs(mdu_ready, next, pc_update, miss)
      BY <2>2, NextInputs
    <3>2. QED BY <3>1, RangesStep
  <2>3. QED BY <2>1, <2>2
<1>4. ASSUME Below, Ranges
      PROVE  TypeOK
  <2>1. Stb!TypeOK /\ cmt_stb_id \in Stb!Slots
    <3>1. Ring!TypeOK /\ Outstanding \in Seq(Ring!Slots)
      BY <1>4 DEF Ring!Consistent, Ring!TypeOK
    <3>2. cmt => Outstanding[1] \in Ring!Slots /\ Outstanding[1] = cmt_stb_id
      BY <3>1 DEF Outstanding
    <3>3. ~cmt => cmt_stb_id = 0
      BY <1>4 DEF Reporting
    <3>4. 0 \in Ring!Slots
      BY BufferAssumption DEF Ring!Slots
    <3>5. QED BY <1>4, <3>1, <3>2, <3>3, <3>4, SameWires DEF Types, Ring!TypeOK, Stb!TypeOK
  <2>2. QED BY <1>4, <2>1 DEF Types, Ranges, DcacheType, TypeOK
<1> HIDE DEF Below
<1>5. QED BY <1>1, <1>2, <1>3, <1>4, PTL DEF Spec
=============================================================================
