----------------------------- MODULE StoreBuffer ----------------------------
(***************************************************************************)
(* vsrc/store_buffer.v: the ring of DEPTH store entries between the EXU    *)
(* and the D-cache. An entry is allocated when a store executes, marked    *)
(* committed when the EXU reports the store retired, and drained to memory *)
(* once it is the committed head. A flush discards what is not committed.  *)
(*                                                                         *)
(* Clock(...) is the whole always block: every register it assigns, from   *)
(* the values of the ports in that cycle. The specification closes it with *)
(* any client that reports its stores in allocation order, each once, with *)
(* any delay; `waiting' holds the ids that client has yet to report.       *)
(* MemPath puts the EXU and the LSU of this core in the client's place.    *)
(***************************************************************************)
EXTENDS Naturals, Sequences

CONSTANTS
  DEPTH,  (* number of entries, 1 << STB_DEPTH_LOG2 *)
  Words,  (* word addresses, lsu_addr[31:2] *)
  Lanes,  (* byte lanes of a word *)
  Stores  (* the stores that occur: word, byte enables, data *)

ASSUME DepthAssumption == DEPTH \in Nat \ {0}
ASSUME StoresAssumption ==
  /\ Stores # {}
  /\ \A s \in Stores : s.word \in Words /\ s.wstrb \subseteq Lanes

Slots == 0..(DEPTH - 1)

VARIABLES
  entry,         (* entry_addr, entry_data, entry_wstrb: one record a slot *)
  entry_valid,   (* the slot holds a pending store *)
  entry_commit,  (* ... and that store is retired *)
  alloc_ptr,     (* tail: the id handed to the next store *)
  drain_ptr,     (* head: the next entry to write to memory *)
  count,         (* pending stores *)
  commit_count,  (* committed stores among them *)
  waiting        (* client: ids allocated and not yet reported, oldest first *)

stbVars == <<entry, entry_valid, entry_commit, alloc_ptr, drain_ptr, count,
             commit_count>>
vars == <<stbVars, waiting>>

(* Pointers are STB_DEPTH_LOG2 bits wide; a sum of two of them wraps once. *)
Wrap(x) == IF x >= DEPTH THEN x - DEPTH ELSE x

Bit(b) == IF b THEN 1 ELSE 0

(* The k-th slot from the head, k = 0 being the head itself. *)
Slot(k) == Wrap(drain_ptr + k)

-----------------------------------------------------------------------------
(* Outputs *)

(* Mutant: the full buffer takes one more. *)
stb_ready_off_by_one == count <= DEPTH

stb_ready == count < DEPTH

(* Mutant: drains without waiting for the commit. *)
stb_drain_valid_early == entry_valid[drain_ptr]

stb_drain_valid == entry_valid[drain_ptr] /\ entry_commit[drain_ptr]

(* Mutant: the first match from the head is kept instead of the last. *)
ForwardSlot_oldest(word, lane) ==
  LET hits == {k \in Slots : /\ entry_valid[Slot(k)]
                             /\ entry[Slot(k)].word = word
                             /\ lane \in entry[Slot(k)].wstrb}
  IN  IF hits = {} THEN DEPTH ELSE CHOOSE k \in hits : \A j \in hits : j >= k

(***************************************************************************)
(* The forwarding network walks all DEPTH slots from the head on and lets  *)
(* a later match overwrite an earlier one, byte by byte. ForwardSlot is    *)
(* the distance from the head of the entry whose byte is left standing;    *)
(* DEPTH when no valid entry writes the byte (mask bit 0).                 *)
(***************************************************************************)
ForwardSlot(word, lane) ==
  LET hits == {k \in Slots : /\ entry_valid[Slot(k)]
                             /\ entry[Slot(k)].word = word
                             /\ lane \in entry[Slot(k)].wstrb}
  IN  IF hits = {} THEN DEPTH ELSE CHOOSE k \in hits : \A j \in hits : j <= k

-----------------------------------------------------------------------------
(***************************************************************************)
(* One clock edge. Ports: flush_en; lsu_valid with the store in lsu_*; the *)
(* commit port (cmt: cmt_valid && cmt_is_store) with cmt_stb_id; and       *)
(* stb_drain_ready.                                                        *)
(***************************************************************************)
Clock(flush_en, lsu_valid, store, cmt, cmt_stb_id, stb_drain_ready) ==
  LET do_allocate == lsu_valid /\ stb_ready
      do_drain    == stb_drain_valid /\ stb_drain_ready
  IN  /\ commit_count' = commit_count + Bit(cmt) - Bit(do_drain)
      /\ drain_ptr' = Wrap(drain_ptr + Bit(do_drain))
      /\ IF flush_en
           THEN /\ count' = commit_count + Bit(cmt) - Bit(do_drain)
                /\ alloc_ptr' = Wrap(drain_ptr + Wrap(commit_count) + Bit(cmt))
           ELSE /\ count' = count + Bit(do_allocate) - Bit(do_drain)
                /\ alloc_ptr' = Wrap(alloc_ptr + Bit(do_allocate))
      /\ entry_commit' = [i \in Slots |->
           IF do_drain /\ i = drain_ptr THEN FALSE
           ELSE IF cmt /\ i = cmt_stb_id THEN TRUE
           ELSE IF do_allocate /\ ~flush_en /\ i = alloc_ptr THEN FALSE
           ELSE entry_commit[i]]
      /\ entry_valid' = [i \in Slots |->
           IF do_drain /\ i = drain_ptr THEN FALSE
           ELSE IF cmt /\ i = cmt_stb_id THEN TRUE
           ELSE IF flush_en /\ ~entry_commit[i] THEN FALSE
           ELSE IF do_allocate /\ ~flush_en /\ i = alloc_ptr THEN TRUE
           ELSE entry_valid[i]]
      /\ entry' = IF do_allocate /\ ~flush_en
                    THEN [entry EXCEPT ![alloc_ptr] = store]
                    ELSE entry

(* Reset clears everything but the payload, which stays what it was. *)
ResetState ==
  /\ entry \in [Slots -> Stores]
  /\ entry_valid = [i \in Slots |-> FALSE]
  /\ entry_commit = [i \in Slots |-> FALSE]
  /\ alloc_ptr = 0
  /\ drain_ptr = 0
  /\ count = 0
  /\ commit_count = 0

-----------------------------------------------------------------------------
(* The client. Its report (cmt) names the oldest id it holds. *)

Unreported(cmt) == IF cmt THEN Tail(waiting) ELSE waiting

(* A cycle without a flush: the EXU may present a store, may report one. *)
Cycle(lsu_valid, store, cmt, ready) ==
  /\ cmt => waiting # <<>>
  /\ Clock(FALSE, lsu_valid, store, cmt, IF cmt THEN Head(waiting) ELSE 0, ready)
  /\ waiting' = IF lsu_valid /\ stb_ready
                  THEN Append(Unreported(cmt), alloc_ptr)
                  ELSE Unreported(cmt)

(* A flush cycle: a report may still arrive in it, the rest is forgotten. *)
Flush(lsu_valid, store, cmt, ready) ==
  /\ cmt => waiting # <<>>
  /\ Clock(TRUE, lsu_valid, store, cmt, IF cmt THEN Head(waiting) ELSE 0, ready)
  /\ waiting' = <<>>

Init == ResetState /\ waiting = <<>>

Next ==
  \E lsu_valid, cmt, ready \in BOOLEAN, store \in Stores :
    \/ Cycle(lsu_valid, store, cmt, ready)
    \/ Flush(lsu_valid, store, cmt, ready)

Spec == Init /\ [][Next]_vars

-----------------------------------------------------------------------------
(* Properties *)

(* Every register keeps to its width, and the counters never pass DEPTH. *)
TypeOK ==
  /\ entry \in [Slots -> Stores]
  /\ entry_valid \in [Slots -> BOOLEAN]
  /\ entry_commit \in [Slots -> BOOLEAN]
  /\ alloc_ptr \in Slots
  /\ drain_ptr \in Slots
  /\ count \in 0..DEPTH
  /\ commit_count \in 0..DEPTH
  /\ waiting \in Seq(Slots)

(* The tail pointer is `count' slots past the head, also after the flush   *)
(* has moved it back: a wrong restore would overwrite a committed store.   *)
TailFollowsHead ==
  /\ commit_count <= count
  /\ alloc_ptr = Slot(count)

(* A slot is valid exactly when it is one of the `count' from the head on. *)
ValidIsWindow ==
  \A k \in Slots : entry_valid[Slot(k)] <=> k < count

(* The committed slots are a prefix of the valid ones, so a speculative    *)
(* store can never stand between the head and a committed store.           *)
CommittedIsPrefix ==
  \A k \in Slots : entry_commit[Slot(k)] <=> k < commit_count

(* The ids the client still has to report are those of the speculative     *)
(* slots, in order: a report always meets the slot it was meant for.       *)
ReportsMatchSlots ==
  /\ Len(waiting) = count - commit_count
  /\ \A i \in 1..Len(waiting) : waiting[i] = Slot(commit_count + (i - 1))

(* What the pointers, the two counters and the two bit vectors say about   *)
(* one another, whoever the client is.                                     *)
RingConsistent ==
  /\ TailFollowsHead
  /\ ValidIsWindow
  /\ CommittedIsPrefix

(* The inductive invariant: the ring agrees with itself and with the ids   *)
(* the client holds.                                                       *)
Consistent ==
  /\ TypeOK
  /\ RingConsistent
  /\ ReportsMatchSlots

(* The entries from head to tail, as a queue. *)
Pending == [i \in 1..count |-> entry[Slot(i - 1)]]

Queue == INSTANCE StoreQueue
           WITH Capacity <- DEPTH, pending <- Pending, safe <- commit_count

(* The ring implements the queue: stores leave in order, once each, only   *)
(* when committed, and a flush drops the speculative ones and no other.    *)
ImplementsQueue == Queue!Spec

(* The byte the forwarding walk leaves standing is that of the youngest    *)
(* pending store to it, whatever wrap-around and stale slots there are.    *)
ForwardsYoungest ==
  \A word \in Words, lane \in Lanes :
    LET y == Queue!Youngest(word, lane)
    IN  ForwardSlot(word, lane) = IF y = 0 THEN DEPTH ELSE y - 1
=============================================================================
