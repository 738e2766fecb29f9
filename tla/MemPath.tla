------------------------------- MODULE MemPath ------------------------------
(***************************************************************************)
(* The data path of a load or a store, all of it: the execute stage and    *)
(* its commit port (vsrc/decode.v, exu.v, bru.v), the arbiter of vsrc/lsu.v*)
(* with its drain lock, the store buffer (StoreBuffer), the D-cache in     *)
(* front of devices (DeviceCache), and the bus with the memory and the     *)
(* I-cache competing for it (AxiMemory). One step is one clock edge: every *)
(* always block of these files fires once, from the values before it.      *)
(*                                                                         *)
(* The program is any sequence of the instructions in Ops, with a          *)
(* misprediction wherever one may happen; instructions other than loads,   *)
(* stores and fence.i are one kind, "other", which may take any number of  *)
(* cycles (mdu_ready). `arch' and `written' are history: the memory as the *)
(* retired stores, in program order, leave it, and whether the memory has  *)
(* already taken the store now at the head of the buffer.                  *)
(***************************************************************************)
EXTENDS AxiMemory, DeviceCache, Sequences

CONSTANTS
  DEPTH,              (* entries of the store buffer *)
  Stores,             (* the stores of the program *)
  Kinds,              (* the kinds of instruction in the program *)
  DrainedFence,       (* fence.i only runs with the store buffer empty ... *)
  NoStoreAfterFence   (* ... and is never directly followed by a store *)

ASSUME KindsAssumption == Kinds \subseteq {"load", "store", "fence", "other"}
ASSUME ByteAssumption == \A s \in Stores : s.data \in Data
ASSUME BufferAssumption ==
  /\ DEPTH \in Nat \ {0}
  /\ Stores # {}
  /\ \A s \in Stores : s.word \in Words /\ s.wstrb \subseteq Lanes

VARIABLES
  entry, entry_valid, entry_commit, alloc_ptr, drain_ptr, count, commit_count,
  ex,             (* du_bus: the instruction in the execute stage *)
  idu_valid,      (* ... and whether there is one *)
  flush_en,       (* bru.v: the front end is being redirected *)
  fencei_killed,  (* a wrong-path fence.i in du_bus has been disarmed *)
  cmt,            (* cmt_valid && cmt_is_store *)
  cmt_stb_id,     (* the id being reported; 0 when cmt is low *)
  drain_active,   (* lsu.v: a drain owns the D-cache port *)
  arch, written   (* history *)

stbVars == <<entry, entry_valid, entry_commit, alloc_ptr, drain_ptr, count,
             commit_count>>
exuVars == <<ex, idu_valid, flush_en, fencei_killed, cmt, cmt_stb_id>>
vars == <<stbVars, exuVars, drain_active, dcache, busVars, arch, written>>

(* The ids the EXU has been given and still has to report: the commit port *)
(* is a register, so at most one.                                          *)
Outstanding == IF cmt THEN <<cmt_stb_id>> ELSE <<>>

Stb == INSTANCE StoreBuffer WITH waiting <- Outstanding

(* An instruction, and whether the next fetch address was mispredicted.    *)
Ops == [kind : Kinds \cap {"load"}, at : Words, miss : BOOLEAN]
         \cup [kind : Kinds \cap {"store"}, at : Stores, miss : BOOLEAN]
         \cup [kind : Kinds \cap {"fence", "other"}, miss : BOOLEAN]

Bubble == [kind |-> "none", miss |-> FALSE]

-----------------------------------------------------------------------------
(* Wires of lsu.v, exu.v and the top module *)

is_read   == ex.kind = "load"
is_write  == ex.kind = "store"
is_fence  == ex.kind = "fence"
lsu_en    == idu_valid /\ (is_read \/ is_write) /\ ~flush_en
is_fencei == is_fence /\ ~flush_en /\ ~fencei_killed

stb_drain_valid == Stb!stb_drain_valid
exu_load_req    == lsu_en /\ is_read

(* Mutants: a drain does not keep the port; it waits for the store behind. *)
grant_drain_unlocked == stb_drain_valid /\ ~exu_load_req
grant_drain_polite   == drain_active \/ (stb_drain_valid /\ ~lsu_en)

grant_drain     == drain_active \/ (stb_drain_valid /\ ~exu_load_req)
grant_load      == exu_load_req /\ ~drain_active

(* The D-cache request. A drain is a write of the entry at the head.       *)
request == [valid |-> grant_load \/ grant_drain,
            we    |-> grant_drain,
            store |-> entry[drain_ptr],
            word  |-> IF is_read THEN ex.at ELSE CHOOSE w \in Words : TRUE]

ready           == dcache_ready(request)

(* Mutant: the entry is released with the grant, not with the answer. *)
stb_drain_ready_at_grant == grant_drain
stb_drain_ready          == grant_drain /\ ready

(* Mutant: a load takes any answer, also the one of a drain. *)
lsu_ready_any == /\ lsu_en /\ is_write => Stb!stb_ready
                 /\ lsu_en /\ is_read => ready

lsu_ready == /\ lsu_en /\ is_write => Stb!stb_ready
             /\ lsu_en /\ is_read => grant_load /\ ready

(* Mutant: a stalled load or store counts as done. *)
done_unstalled(mdu_ready) == mdu_ready /\ (is_fence \/ dcache.fence_done)

(* The instruction in the execute stage is done in this cycle. *)
done(mdu_ready)      == lsu_ready /\ mdu_ready /\ (is_fence \/ dcache.fence_done)
exu_ready(mdu_ready) == done(mdu_ready)
retires(mdu_ready)   == ~flush_en /\ idu_valid /\ done(mdu_ready)

(* The byte a load is given: forwarded, else what the D-cache read. *)
load_byte(lane) ==
  LET k == Stb!ForwardSlot(ex.at, lane)
  IN  IF k < DEPTH THEN entry[Stb!Slot(k)].data ELSE dcache.device_rdata[lane]

-----------------------------------------------------------------------------
(* The always blocks *)

(* decode.v: a flush invalidates du_bus and leaves its content in place.   *)
DecodeClock(mdu_ready, next) ==
  IF flush_en THEN idu_valid' = FALSE /\ ex' = ex
  ELSE IF exu_ready(mdu_ready) THEN /\ ex' = next
                                    /\ idu_valid' = (next # Bubble)
  ELSE UNCHANGED <<ex, idu_valid>>

(* bru.v: flush_en rises behind a mispredicted instruction whose operands  *)
(* are there, and falls when the fetch unit has taken the new address.     *)
BruClock(mdu_ready, pc_update) ==
  flush_en' = IF ~lsu_ready THEN flush_en
              ELSE IF ex.miss /\ ~flush_en /\ mdu_ready THEN idu_valid
              ELSE flush_en /\ ~pc_update

(* Mutant: the commit port also fires for the instruction being flushed. *)
ExuClock_unflushed(mdu_ready) ==
  /\ cmt' = (idu_valid /\ done(mdu_ready) /\ is_write)
  /\ cmt_stb_id' = IF idu_valid /\ done(mdu_ready) /\ is_write THEN alloc_ptr ELSE 0
  /\ fencei_killed' = (is_fence /\ (flush_en \/ fencei_killed))

(* exu.v: the commit port; ysyx_25010030.v: fencei_killed. *)
ExuClock(mdu_ready) ==
  /\ cmt' = (retires(mdu_ready) /\ is_write)
  /\ cmt_stb_id' = IF retires(mdu_ready) /\ is_write THEN alloc_ptr ELSE 0
  /\ fencei_killed' = (is_fence /\ (flush_en \/ fencei_killed))

(* Mutant: nothing releases the lock. *)
LsuClock_forgets == drain_active' = (grant_drain \/ drain_active)

(* lsu.v: the lock is taken with the grant, released with the answer.      *)
LsuClock == drain_active' = ((grant_drain \/ drain_active) /\ ~ready)

StbClock ==
  Stb!Clock(flush_en, lsu_en /\ is_write,
            IF is_write THEN ex.at ELSE CHOOSE s \in Stores : TRUE,
            cmt, cmt_stb_id, stb_drain_ready)

MemoryClock(miss) ==
  /\ DcacheClock(is_fencei, request, ForLsu, ForLsu /\ sram.rvalid, sram.rdata,
                 ForLsu /\ sram.awready, ForLsu /\ sram.wready,
                 ForLsu /\ sram.bvalid)
  /\ BridgeClock(dcache.arvalid, dcache.awvalid, dcache.rready, dcache.bready,
                 dcache.fence_done)
  /\ SramClock(dcache.arvalid, dcache.ar, dcache.awvalid, dcache.aw,
               dcache.rready, dcache.bready)
  /\ IcacheClock(miss)

(* The memory takes the write, the buffer lets the entry go: this edge.    *)
MemoryTakes == SramTakes(ForLsu /\ dcache.awvalid)
HeadLeaves  == stb_drain_valid /\ stb_drain_ready

History(mdu_ready) ==
  /\ arch' = IF retires(mdu_ready) /\ is_write
               THEN [arch EXCEPT ![ex.at.word] =
                       [l \in Lanes |-> IF l \in ex.at.wstrb THEN ex.at.data
                                                             ELSE @[l]]]
               ELSE arch
  /\ written' = ((written \/ MemoryTakes) /\ ~HeadLeaves)

Edge(mdu_ready, next, pc_update, miss) ==
  /\ DecodeClock(mdu_ready, next)
  /\ BruClock(mdu_ready, pc_update)
  /\ ExuClock(mdu_ready)
  /\ LsuClock
  /\ StbClock
  /\ MemoryClock(miss)
  /\ History(mdu_ready)

-----------------------------------------------------------------------------
(* What the program may put behind the instruction now in the stage. *)
Follows(next) ==
  /\ NoStoreAfterFence /\ is_fence => next.kind # "store"
  /\ DrainedFence /\ next.kind = "fence" =>
       count = 0 /\ ~(is_write /\ lsu_en)

Init ==
  /\ Stb!ResetState
  /\ entry = [i \in Stb!Slots |-> CHOOSE s \in Stores : TRUE]
  /\ ex = Bubble /\ idu_valid = FALSE /\ flush_en = FALSE /\ fencei_killed = FALSE
  /\ cmt = FALSE /\ cmt_stb_id = 0 /\ drain_active = FALSE
  /\ DcacheInit(CHOOSE s \in Stores : TRUE, CHOOSE w \in Words : TRUE,
                [l \in Lanes |-> 0])
  /\ BusInit
  /\ arch = mem /\ written = FALSE

Next ==
  \E mdu_ready, pc_update, miss \in BOOLEAN, next \in Ops \cup {Bubble} :
    /\ ex.kind # "other" => mdu_ready
    /\ ~exu_ready(mdu_ready) \/ flush_en => next = Bubble  (* not looked at *)
    /\ ~flush_en => ~pc_update                             (* nor this *)
    /\ icache.state # "IDLE" => ~miss                      (* nor this *)
    /\ Follows(next)
    /\ Edge(mdu_ready, next, pc_update, miss)

(* The clock never stops. Nothing else is assumed of the inputs.           *)
Spec == Init /\ [][Next]_vars /\ WF_vars(Next)

-----------------------------------------------------------------------------
(* Properties *)

TypeOK ==
  /\ Stb!TypeOK
  /\ ex \in Ops \cup {Bubble}
  /\ {idu_valid, flush_en, fencei_killed, cmt, drain_active, written} \subseteq BOOLEAN
  /\ cmt_stb_id \in Stb!Slots
  /\ dcache.state \in {"IDLE", "MEM_BUSY", "FENCE"}
  /\ dcache.fence_index \in 0..(CACHE_BLOCKS - 1)
  /\ current_master \in {"IDLE", "IFU_ACCESS", "LSU_ACCESS"}
  /\ sram.rd_cnt \in 0..ARLEN
  /\ mem \in Content
  /\ arch \in Content

(* This EXU is a client the store buffer can live with: it reports every   *)
(* store it was given an id for, once, in order, also around a flush.      *)
EveryStoreReportedOnce == Stb!Spec

(* What a byte is worth in program order: the youngest pending store to it,*)
(* else the memory. Draining must never be visible in it.                  *)
Visible(word, lane) ==
  LET y == Stb!Queue!Youngest(word, lane)
  IN  IF y = 0 THEN mem[word][lane] ELSE Stb!Pending[y].data

(* No interleaving of retiring, draining and flushing loses, duplicates or *)
(* reorders a store: memory under the pending stores is program order.     *)
MemoryIsProgramOrder ==
  LET reported == count = commit_count + (IF cmt THEN 1 ELSE 0)
  IN  reported => \A w \in Words, l \in Lanes : Visible(w, l) = arch[w][l]

(* A load is given the bytes program order says, part of them forwarded and*)
(* part of them read from memory several cycles earlier.                   *)
LoadsSeeProgramOrder ==
  exu_load_req /\ lsu_ready => \A l \in Lanes : load_byte(l) = arch[ex.at][l]

(* A request that has been started on the bus is kept up, unchanged, until *)
(* the D-cache answers: it latches neither address nor direction, so a     *)
(* flush, a drain or a younger load must not change what it sees.          *)
RequestHeld ==
  [][dcache.state = "MEM_BUSY" /\ ~dcache.device_done =>
       /\ request'.valid
       /\ request'.we = request.we
       /\ IF request.we THEN request'.store = request.store
                        ELSE request'.word = request.word]_vars

(* Each store reaches memory exactly once before its entry is released. An *)
(* early release would lose it; a second write would repeat an MMIO effect.*)
EachStoreWrittenOnce ==
  [][/\ MemoryTakes => ~written /\ stb_drain_valid /\ dcache.aw = entry[drain_ptr]
     /\ HeadLeaves => written]_vars

(* A load or store in the execute stage leaves it: no cycle of lock, bus   *)
(* grant, full buffer and fence keeps it there for ever.                   *)
MemoryOpsFinish == []<>(~lsu_en \/ exu_ready(TRUE))

(* Loads go first, yet a committed store reaches memory as long as the     *)
(* program does not consist of loads alone from some point on.             *)
StoresDrain ==
  []<>(~exu_load_req) => []<>(~stb_drain_valid \/ stb_drain_ready)

(* lsu.v:89-92: the lock a drain takes is released again.                  *)
DrainLockReleased == drain_active ~> ~drain_active

(* lsu.v:130: all a store needs is a free entry; one that finds it is done.*)
StoreNeedsOnlySpace == (lsu_en /\ is_write /\ Stb!stb_ready) ~> exu_ready(TRUE)
=============================================================================
