------------------------------- MODULE IFetch -------------------------------
(***************************************************************************)
(* Instruction fetch: vsrc/ifu.v with its buffer for 32-bit instructions   *)
(* that cross a word boundary, the queue vsrc/ibuffer.v, and vsrc/icache.v,*)
(* between the redirections of bru.v and the memory. One step is one clock *)
(* edge.                                                                   *)
(*                                                                         *)
(* Addresses count half-words; what a half-word holds is one of Bits, and  *)
(* those in WideBits (low bits 11) begin a 32-bit instruction. Inputs from *)
(* outside: where the instruction is thought to continue (any of Targets,  *)
(* or pc + 4) and whether that comes from the predictor or is the target   *)
(* of a jal; whether the stage behind takes an instruction, finds it       *)
(* mispredicted or finds it to be fence.i; when the bus answers; and the   *)
(* stores that reach code memory.                                          *)
(* While the I-cache owns the port no store does (AxiMemory). History:     *)
(* `maybe' has what a half-word has held since the last fence.i.           *)
(***************************************************************************)
EXTENDS Naturals, Sequences

CONSTANTS
  NUM_BLOCKS,       (* lines of the I-cache *)
  BEATS_PER_BLOCK,  (* words of a line *)
  MEM_BLOCKS,       (* lines the memory would fill *)
  BUFFER_DEPTH,     (* entries of the queue *)
  RESET_PC,
  Bits, WideBits,   (* contents of half-words *)
  Code,             (* the memory at reset *)
  Targets,          (* where jumps lead *)
  Stores,           (* [at, bits]: stores into code *)
  QuietFence        (* fence.i only comes with no fetch half done *)

HALF_WORDS == 2 * BEATS_PER_BLOCK * MEM_BLOCKS
Addresses  == 0..(HALF_WORDS - 1)
Lines      == 0..(NUM_BLOCKS - 1)
Beats      == 0..(BEATS_PER_BLOCK - 1)

ASSUME FetchAssumption ==
  /\ NUM_BLOCKS \in Nat \ {0} /\ BEATS_PER_BLOCK \in Nat \ {0}
  /\ MEM_BLOCKS \in Nat \ {0} /\ BUFFER_DEPTH \in Nat \ {0}
  /\ HALF_WORDS \in Nat \ {0}
  /\ RESET_PC \in Addresses /\ Targets \subseteq Addresses
  /\ 0 \in Bits /\ WideBits \subseteq Bits /\ Code \in [Addresses -> Bits]
  /\ Stores \subseteq [at : Addresses, bits : Bits]
  /\ QuietFence \in BOOLEAN

VARIABLES
  pc,                   (* ifu.v *)
  cross_buf,            (* ifu.v: [valid, data] *)
  flush_handled,        (* ifu.v: the redirection has been taken over *)
  buffer,               (* ibuffer.v, as the sequence between its pointers *)
  du, idu_valid,        (* decode.v: what has been delivered *)
  flush_en, flush_dnpc, (* bru.v *)
  line,                 (* icache.v: valid_ram, tag_ram, data_ram *)
  icache,               (* icache.v: state and registers of the refill *)
  mem, maybe            (* the memory; history *)

fetchVars == <<pc, cross_buf, flush_handled, buffer>>
backVars  == <<du, idu_valid, flush_en, flush_dnpc>>
cacheVars == <<line, icache>>
vars      == <<fetchVars, backVars, cacheVars, mem, maybe>>

Plus(a, n) == (a + n) % HALF_WORDS

(* Half-word a is half a % 2 of word WordOf(a) of block BlockOf(a). *)
BlockOf(a) == a \div (2 * BEATS_PER_BLOCK)
BeatOf(a)  == (a \div 2) % BEATS_PER_BLOCK
IndexOf(b) == b % NUM_BLOCKS
HalfAt(b, beat, half) == 2 * (b * BEATS_PER_BLOCK + beat) + half

-----------------------------------------------------------------------------
(* icache.v, towards the IFU. A line holds the number of its block, which  *)
(* is its tag and its index.                                               *)

icache_addr == IF cross_buf.valid THEN Plus(pc, 1) ELSE pc

hit(is_fencei) ==
  LET l == line[IndexOf(BlockOf(icache_addr))]
  IN  l.valid /\ l.block = BlockOf(icache_addr) /\ ~is_fencei

(* Lower (0) or upper (1) half of the word at icache_addr. *)
icache_half(h) ==
  line[IndexOf(BlockOf(icache_addr))].data[BeatOf(icache_addr)][h]

-----------------------------------------------------------------------------
(* ifu.v *)

current_half == icache_half(pc % 2)
is_32bit     == cross_buf.valid \/ current_half \in WideBits

(* Mutant: does not see that the first half is already there. *)
is_cross_32_first_beat_again == pc % 2 = 1 /\ current_half \in WideBits

(* The first half of an instruction whose second half is in the next word. *)
is_cross_32_first_beat == ~cross_buf.valid /\ pc % 2 = 1 /\ current_half \in WideBits

output_inst == IF cross_buf.valid THEN <<cross_buf.data, icache_half(0)>>
               ELSE IF is_32bit   THEN <<icache_half(0), icache_half(1)>>
               ELSE <<current_half>>

inst_ready(is_fencei) == hit(is_fencei) /\ ~is_cross_32_first_beat

(* The predictor does not know of compressed instructions: its pc + 4      *)
(* means the next instruction, whatever the size of this one. The target   *)
(* of a jal is taken as it is.                                             *)
seq_dnpc == Plus(pc, Len(output_inst))
pred_dnpc(bpu_dnpc) == IF bpu_dnpc = Plus(pc, 2) THEN seq_dnpc ELSE bpu_dnpc
pre_dnpc(guess) == IF guess.is_jal THEN guess.dnpc ELSE pred_dnpc(guess.dnpc)

(* Mutant: a redirection does not take precedence over the prediction. *)
dnpc_predicted(guess) == pre_dnpc(guess)

dnpc(guess) == IF flush_en THEN flush_dnpc ELSE pre_dnpc(guess)

ibu_ready            == Len(buffer) < BUFFER_DEPTH
pc_updata(is_fencei) == inst_ready(is_fencei) /\ ibu_ready
ifu_valid(is_fencei) == inst_ready(is_fencei) /\ ~flush_en

(* Mutant: the redirection is a level, taken over in each of its cycles. *)
inter_flush_pulse_level == flush_en

inter_flush_pulse == flush_en /\ ~flush_handled

(* Mutant: a redirection leaves the first half of an instruction behind. *)
IfuClock_keeps_half(is_fencei, guess) ==
  /\ flush_handled' = (flush_en /\ ~pc_updata(is_fencei))
  /\ IF inter_flush_pulse
       THEN /\ pc' = flush_dnpc
            /\ UNCHANGED cross_buf
     ELSE IF pc_updata(is_fencei)
       THEN /\ pc' = dnpc(guess)
            /\ cross_buf' = [cross_buf EXCEPT !.valid = FALSE]
     ELSE /\ pc' = pc
          /\ cross_buf' = IF hit(is_fencei) /\ is_cross_32_first_beat
                            THEN [valid |-> TRUE, data |-> current_half]
                            ELSE cross_buf

IfuClock(is_fencei, guess) ==
  /\ flush_handled' = (flush_en /\ ~pc_updata(is_fencei))
  /\ IF inter_flush_pulse
       THEN /\ pc' = flush_dnpc
            /\ cross_buf' = [valid |-> FALSE, data |-> 0]
     ELSE IF pc_updata(is_fencei)
       THEN /\ pc' = dnpc(guess)
            /\ cross_buf' = [cross_buf EXCEPT !.valid = FALSE]
     ELSE /\ pc' = pc
          /\ cross_buf' = IF hit(is_fencei) /\ is_cross_32_first_beat
                            THEN [valid |-> TRUE, data |-> current_half]
                            ELSE cross_buf

-----------------------------------------------------------------------------
(* ibuffer.v, decode.v, bru.v *)

NoInst == [pc |-> 0, dnpc |-> 0]

Fetched(guess) == [pc |-> pc, dnpc |-> pre_dnpc(guess)]

IbufferClock(is_fencei, guess, idu_ready) ==
  LET push == ifu_valid(is_fencei) /\ ibu_ready
      pop  == idu_ready /\ buffer # <<>>
      rest == IF pop THEN Tail(buffer) ELSE buffer
  IN  buffer' = IF flush_en THEN <<>>
                ELSE IF push THEN Append(rest, Fetched(guess)) ELSE rest

(* What an invalid du_bus holds is not represented here. *)
DecodeClock(idu_ready) ==
  IF flush_en \/ (idu_ready /\ buffer = <<>>)
    THEN idu_valid' = FALSE /\ du' = NoInst
  ELSE IF idu_ready THEN idu_valid' = TRUE /\ du' = Head(buffer)
  ELSE UNCHANGED <<du, idu_valid>>

(* A valid instruction turns out to continue elsewhere, once. *)
BruClock(is_fencei, miss, target) ==
  IF miss THEN flush_en' = TRUE /\ flush_dnpc' = target
  ELSE /\ flush_en' = (flush_en /\ ~pc_updata(is_fencei))
       /\ UNCHANGED flush_dnpc

-----------------------------------------------------------------------------
(* icache.v, towards the bus. A beat reads the memory as it is: no store   *)
(* gets through while the burst lasts.                                     *)

Word(b, beat) == [h \in {0, 1} |-> mem[HalfAt(b, beat, h)]]

(* fence.i clears every valid bit. *)
Kept(is_fencei) ==
  IF is_fencei THEN [i \in Lines |-> [line[i] EXCEPT !.valid = FALSE]] ELSE line

Lookup(is_fencei) ==
  /\ icache.state = "IDLE"
  /\ icache' = [icache EXCEPT !.state = IF hit(is_fencei) THEN "IDLE" ELSE "READ",
                              !.block = BlockOf(icache_addr),
                              !.beat_cnt = 0, !.ar_done = FALSE]
  /\ line' = Kept(is_fencei)

(* The first answer is the grant of the port, the others are the beats. *)
Read(is_fencei, answer) ==
  /\ icache.state = "READ"
  /\ icache' =
       IF ~answer THEN icache
       ELSE IF ~icache.ar_done THEN [icache EXCEPT !.ar_done = TRUE]
       ELSE [icache EXCEPT
               !.data[icache.beat_cnt] = Word(icache.block, icache.beat_cnt),
               !.beat_cnt = (@ + 1) % BEATS_PER_BLOCK,
               !.state = IF icache.beat_cnt = BEATS_PER_BLOCK - 1 THEN "FILL" ELSE "READ"]
  /\ line' = Kept(is_fencei)

(* A fence.i at this edge does not stop the line from becoming valid. *)
Fill(is_fencei) ==
  /\ icache.state = "FILL"
  /\ icache' = [icache EXCEPT !.state = "IDLE"]
  /\ line' = [Kept(is_fencei) EXCEPT ![IndexOf(icache.block)] =
                [valid |-> TRUE, block |-> icache.block, data |-> icache.data]]

IcacheClock(is_fencei, answer) ==
  \/ Lookup(is_fencei)
  \/ Read(is_fencei, answer)
  \/ Fill(is_fencei)

-----------------------------------------------------------------------------
(* Code memory, and what a half-word has held since the last fence.i.      *)
MemoryClock(is_fencei, written) ==
  /\ mem' = [a \in Addresses |-> IF \E s \in written : s.at = a
                                   THEN (CHOOSE s \in written : s.at = a).bits
                                   ELSE mem[a]]
  /\ maybe' = [a \in Addresses |-> (IF is_fencei THEN {} ELSE maybe[a]) \cup {mem'[a]}]

Edge(guess, idu_ready, miss, target, is_fencei, answer, written) ==
  /\ IfuClock(is_fencei, guess)
  /\ IbufferClock(is_fencei, guess, idu_ready)
  /\ DecodeClock(idu_ready)
  /\ BruClock(is_fencei, miss, target)
  /\ IcacheClock(is_fencei, answer)
  /\ MemoryClock(is_fencei, written)

Init ==
  /\ pc = RESET_PC /\ flush_handled = FALSE /\ buffer = <<>>
  /\ cross_buf = [valid |-> FALSE, data |-> 0]
  /\ du = NoInst /\ idu_valid = FALSE
  /\ flush_en = FALSE /\ flush_dnpc = 0
  /\ LET blank == [beat \in Beats |-> [h \in {0, 1} |-> 0]]
     IN  /\ line = [i \in Lines |-> [valid |-> FALSE, block |-> 0, data |-> blank]]
         /\ icache = [state |-> "IDLE", block |-> 0, beat_cnt |-> 0,
                      ar_done |-> FALSE, data |-> blank]
  /\ mem = Code /\ maybe = [a \in Addresses |-> {Code[a]}]

(* The port belongs to the I-cache from the grant to the last beat. *)
PortTaken == icache.state = "READ" /\ icache.ar_done

(* A store of what is there already makes no difference. *)
Changes == {s \in Stores : mem[s.at] # s.bits}

HalfDone == icache.state # "IDLE" \/ cross_buf.valid

(* fence.i waits for nothing in the stage (exu.v:342). *)
MayFence == idu_valid /\ ~flush_en /\ (QuietFence => ~HalfDone)

(* No instruction is being queued: the guess makes no difference. *)
NoGuess == [is_jal |-> FALSE, dnpc |-> Plus(pc, 2)]
Guesses == [is_jal : BOOLEAN, dnpc : Targets] \cup {NoGuess}

Clocked(idu_ready, answer) ==
  \E is_fencei \in IF MayFence /\ idu_ready THEN BOOLEAN ELSE {FALSE},
     miss      \in IF idu_valid /\ ~flush_en THEN BOOLEAN ELSE {FALSE},
     written   \in {{}} \cup (IF PortTaken THEN {} ELSE {{s} : s \in Changes}) :
  \E guess \in IF pc_updata(is_fencei) /\ ~flush_en THEN Guesses ELSE {NoGuess},
     target   \in IF miss THEN Targets ELSE {RESET_PC} :
    Edge(guess, idu_ready, miss, target, is_fencei, answer, written)

Next == \E idu_ready, answer \in BOOLEAN : Clocked(idu_ready, answer)

(* The clock runs; the bus goes on answering (AxiMemory) and the stage     *)
(* behind goes on taking instructions (ExuPipe).                           *)
Spec == Init /\ [][Next]_vars /\ WF_vars(Clocked(TRUE, TRUE))

-----------------------------------------------------------------------------
(* Properties *)

TypeOK ==
  /\ pc \in Addresses /\ flush_dnpc \in Addresses
  /\ cross_buf \in [valid : BOOLEAN, data : Bits]
  /\ {flush_handled, idu_valid, flush_en} \subseteq BOOLEAN
  /\ buffer \in Seq([pc : Addresses, dnpc : Addresses]) /\ Len(buffer) <= BUFFER_DEPTH
  /\ du \in [pc : Addresses, dnpc : Addresses]
  /\ line \in [Lines -> [valid : BOOLEAN, block : 0..(MEM_BLOCKS - 1),
                          data : [Beats -> [{0, 1} -> Bits]]]]
  /\ icache.state \in {"IDLE", "READ", "FILL"} /\ icache.beat_cnt \in Beats

(* What the decode stage is shown next: the oldest instruction in the      *)
(* queue, else the one being fetched; or where the core is redirected to.  *)
next == IF flush_en THEN flush_dnpc
        ELSE IF buffer # <<>> THEN Head(buffer).pc ELSE pc

Stream == INSTANCE FetchStream
            WITH Start <- RESET_PC,
                 stage <- IF idu_valid /\ ~flush_en THEN {du} ELSE {}

(* The instructions delivered make one unbroken path, each at the address  *)
(* predicted by the one before; after a redirection, whatever refill, half *)
(* instruction or full queue it falls into, the first one is its target.   *)
ImplementsStream == Stream!Spec

(* An instruction is put together from its own half-words, of the right    *)
(* size, and none of them is older than the last fence.i.                  *)
InstructionsAreWhole ==
  inst_ready(FALSE) =>
    /\ output_inst[1] \in maybe[pc]
    /\ Len(output_inst) = 2 <=> output_inst[1] \in WideBits
    /\ Len(output_inst) = 2 => output_inst[2] \in maybe[Plus(pc, 1)]

(* A redirection is taken, also to an instruction across two lines neither *)
(* of which is in the cache, and behind a refill of the wrong path.        *)
RedirectTaken == flush_en ~> ~flush_en

(* Instructions keep coming. *)
InstructionsArrive == []<>idu_valid
=============================================================================
