-------------------------- MODULE StoreBufferProofs -------------------------
(***************************************************************************)
(* Proofs about StoreBuffer, for every depth and every set of stores: its  *)
(* registers stay consistent, the ring implements the queue of StoreQueue, *)
(* and the forwarding network returns the youngest store of that queue.    *)
(***************************************************************************)
EXTENDS StoreBuffer, SequenceTheorems, TLAPS, WellFoundedInduction

(* The types of the registers of store_buffer.v alone. *)
RegistersOK ==
  /\ entry \in [Slots -> Stores]
  /\ entry_valid \in [Slots -> BOOLEAN]
  /\ entry_commit \in [Slots -> BOOLEAN]
  /\ alloc_ptr \in Slots
  /\ drain_ptr \in Slots
  /\ count \in 0..DEPTH
  /\ commit_count \in 0..DEPTH

(* The slot k places after p. *)
At(p, k) == Wrap(p + k)

-----------------------------------------------------------------------------
(* Pointer arithmetic on the ring *)

(* A pointer moved by at most DEPTH is a pointer. *)
LEMMA AtType ==
  ASSUME NEW p \in Slots, NEW k \in 0..DEPTH
  PROVE  At(p, k) \in Slots
  BY DepthAssumption DEF At, Wrap, Slots

(* Two different distances below DEPTH reach two different slots. *)
LEMMA AtInjective ==
  ASSUME NEW p \in Slots, NEW j \in Slots, NEW k \in Slots,
         At(p, j) = At(p, k)
  PROVE  j = k
  BY DepthAssumption DEF At, Wrap, Slots

(* Every slot is at some distance from the head. *)
LEMMA AtSurjective ==
  ASSUME NEW p \in Slots, NEW i \in Slots
  PROVE  \E k \in Slots : At(p, k) = i
<1>1. CASE i >= p
  <2>1. i - p \in Slots /\ At(p, i - p) = i
    BY <1>1, DepthAssumption DEF At, Wrap, Slots
  <2>2. QED BY <2>1
<1>2. CASE i < p
  <2>1. i - p + DEPTH \in Slots /\ At(p, i - p + DEPTH) = i
    BY <1>2, DepthAssumption DEF At, Wrap, Slots
  <2>2. QED BY <2>1
<1>3. QED BY <1>1, <1>2, DepthAssumption DEF Slots

(* Moving the head by one entry renumbers the slots by one; the old head   *)
(* becomes the last.                                                       *)
LEMMA AtShift ==
  ASSUME NEW p \in Slots, NEW k \in Slots
  PROVE  /\ At(At(p, 0), k) = At(p, k)
         /\ At(At(p, 1), k) = IF k + 1 < DEPTH THEN At(p, k + 1) ELSE p
  BY DepthAssumption DEF At, Wrap, Slots

(* A distance of n from the old head is one of n - d from the moved head.  *)
LEMMA AtUnshift ==
  ASSUME NEW p \in Slots, NEW n \in 0..DEPTH, NEW d \in 0..1, d <= n
  PROVE  At(At(p, d), n - d) = At(p, n)
  BY DepthAssumption DEF At, Wrap, Slots

(* Restoring the tail after a flush: from the head, over the committed     *)
(* entries, and over the one that is being committed.                      *)
LEMMA AtRestore ==
  ASSUME NEW p \in Slots, NEW n \in 0..DEPTH, NEW b \in 0..1, n + b <= DEPTH
  PROVE  Wrap(p + Wrap(n) + b) = At(p, n + b)
  BY DepthAssumption DEF At, Wrap, Slots

-----------------------------------------------------------------------------
(* One clock edge, under any client that reports the oldest speculative    *)
(* store and nothing else.                                                 *)

(* The ports of one edge, as the lemmas below assume them.                 *)
Edge(flush_en, lsu_valid, store, cmt, cmt_stb_id, ready) ==
  /\ Clock(flush_en, lsu_valid, store, cmt, cmt_stb_id, ready)
  /\ cmt => /\ commit_count < count
            /\ cmt_stb_id = Slot(commit_count)

(* Which distances from the head the three special slots of an edge are at *)
(* (drained, committed, allocated), and what the old bits there say.       *)
LEMMA Landmarks ==
  ASSUME RegistersOK, RingConsistent,
         NEW cmt \in BOOLEAN, NEW id \in Slots,
         cmt => commit_count < count /\ id = Slot(commit_count),
         NEW j \in Slots
  PROVE  /\ Slot(j) \in Slots
         /\ Slot(j) = drain_ptr <=> j = 0
         /\ cmt => (Slot(j) = id <=> j = commit_count)
         /\ count < DEPTH => (Slot(j) = alloc_ptr <=> j = count)
         /\ entry_valid[Slot(j)] <=> j < count
         /\ entry_commit[Slot(j)] <=> j < commit_count
         /\ stb_drain_valid <=> commit_count > 0
<1> USE DepthAssumption
<1>1. /\ drain_ptr \in Slots /\ 0 \in Slots
      /\ count \in 0..DEPTH /\ commit_count \in 0..DEPTH /\ commit_count <= count
  BY DEF RegistersOK, RingConsistent, TailFollowsHead, Slots
<1>2. Slot(0) = drain_ptr
  BY <1>1 DEF Slot, Wrap, Slots
<1>3. \A k \in Slots : Slot(j) = Slot(k) <=> j = k
  BY <1>1, AtInjective DEF At, Slot
<1>4. Slot(j) \in Slots
  BY <1>1, AtType DEF At, Slot, Slots
<1>5. /\ \A k \in Slots : entry_valid[Slot(k)] <=> k < count
      /\ \A k \in Slots : entry_commit[Slot(k)] <=> k < commit_count
  BY DEF RingConsistent, ValidIsWindow, CommittedIsPrefix
<1>6. stb_drain_valid <=> commit_count > 0
  <2>1. /\ entry_valid[drain_ptr] <=> 0 < count
        /\ entry_commit[drain_ptr] <=> 0 < commit_count
    BY <1>1, <1>2, <1>5, Zenon
  <2>2. 0 < commit_count => 0 < count
    BY <1>1
  <2>3. commit_count > 0 <=> 0 < commit_count
    BY <1>1
  <2>4. QED BY <2>1, <2>2, <2>3, Zenon DEF stb_drain_valid
<1>7. cmt => (Slot(j) = id <=> j = commit_count)
  <2>1. cmt => commit_count \in Slots
    BY <1>1 DEF Slots
  <2>2. QED BY <1>3, <2>1
<1>8. count < DEPTH => (Slot(j) = alloc_ptr <=> j = count)
  <2>1. count < DEPTH => count \in Slots
    BY <1>1 DEF Slots
  <2>2. alloc_ptr = Slot(count)
    BY DEF RingConsistent, TailFollowsHead
  <2>3. QED BY <1>3, <2>1, <2>2
<1>9. QED BY <1>1, <1>2, <1>3, <1>4, <1>5, <1>6, <1>7, <1>8

(* The counters and pointers after an edge. *)
LEMMA PointersStep ==
  ASSUME RegistersOK, RingConsistent,
         NEW flush \in BOOLEAN, NEW lsu_valid \in BOOLEAN, NEW store \in Stores,
         NEW cmt \in BOOLEAN, NEW id \in Slots, NEW ready \in BOOLEAN,
         Edge(flush, lsu_valid, store, cmt, id, ready)
  PROVE  LET d == Bit(stb_drain_valid /\ ready)
             a == Bit(lsu_valid /\ stb_ready)
         IN  /\ d \in 0..1 /\ a \in 0..1 /\ Bit(cmt) \in 0..1
             /\ d <= commit_count /\ count + a <= DEPTH
             /\ commit_count + Bit(cmt) <= count
             /\ drain_ptr' = At(drain_ptr, d)
             /\ commit_count' = commit_count + Bit(cmt) - d
             /\ count' = IF flush THEN commit_count + Bit(cmt) - d
                         ELSE count + a - d
             /\ commit_count' \in 0..DEPTH /\ count' \in 0..DEPTH
             /\ commit_count' <= count'
             /\ drain_ptr' \in Slots /\ alloc_ptr' \in Slots
             /\ alloc_ptr' = At(drain_ptr', count')
<1> USE DepthAssumption
<1> DEFINE d == Bit(stb_drain_valid /\ ready)
           a == Bit(lsu_valid /\ stb_ready)
<1>1. /\ drain_ptr \in Slots /\ alloc_ptr \in Slots
      /\ count \in 0..DEPTH /\ commit_count \in 0..DEPTH
      /\ commit_count <= count /\ alloc_ptr = At(drain_ptr, count)
  BY DEF RegistersOK, RingConsistent, TailFollowsHead, Slot, At
<1>2. stb_drain_valid => commit_count > 0
  <2>1. 0 \in Slots
    BY DEF Slots
  <2>2. QED BY <2>1, Landmarks DEF Edge
<1>3. d \in 0..1 /\ d <= commit_count
  BY <1>1, <1>2 DEF Bit
<1>4. a \in 0..1 /\ count + a <= DEPTH
  BY <1>1 DEF Bit, stb_ready
<1>5. Bit(cmt) \in 0..1 /\ commit_count + Bit(cmt) <= count
  BY <1>1 DEF Bit, Edge
<1>6. /\ drain_ptr' = At(drain_ptr, d)
      /\ commit_count' = commit_count + Bit(cmt) - d
      /\ count' = IF flush THEN commit_count + Bit(cmt) - d ELSE count + a - d
      /\ alloc_ptr' = IF flush THEN Wrap(drain_ptr + Wrap(commit_count) + Bit(cmt))
                      ELSE Wrap(alloc_ptr + a)
  BY DEF Edge, Clock, At
<1>7. /\ commit_count' \in 0..DEPTH /\ count' \in 0..DEPTH
      /\ commit_count' <= count'
  <2> HIDE DEF d, a
  <2>1. QED BY <1>1, <1>3, <1>4, <1>5, <1>6
<1>8. drain_ptr' \in Slots
  <2> HIDE DEF d, a
  <2>1. d \in 0..DEPTH
    BY <1>3
  <2>2. QED BY <1>1, <1>6, <2>1, AtType
<1>9. alloc_ptr' = At(drain_ptr', count')
  <2> HIDE DEF d, a
  <2>1. CASE flush
    <3>1. alloc_ptr' = At(drain_ptr, commit_count + Bit(cmt))
      BY <1>1, <1>5, <1>6, <2>1, AtRestore
    <3>2. At(drain_ptr', commit_count + Bit(cmt) - d) = At(drain_ptr, commit_count + Bit(cmt))
      <4>1. /\ commit_count + Bit(cmt) \in 0..DEPTH
            /\ d <= commit_count + Bit(cmt)
        BY <1>1, <1>3, <1>5
      <4>2. \A n \in 0..DEPTH : d <= n => At(At(drain_ptr, d), n - d) = At(drain_ptr, n)
        BY <1>1, <1>3, AtUnshift
      <4>3. drain_ptr' = At(drain_ptr, d)
        BY <1>6
      <4>4. commit_count + Bit(cmt) - d = (commit_count + Bit(cmt)) - d
        BY <1>1, <1>3, <1>5
      <4>5. QED BY <4>1, <4>2, <4>3, <4>4
    <3>3. QED BY <1>6, <2>1, <3>1, <3>2
  <2>2. CASE ~flush
    <3>1. alloc_ptr' = Wrap(At(drain_ptr, count) + a)
      BY <1>1, <1>6, <2>2
    <3>2. Wrap(At(drain_ptr, count) + a) = At(At(drain_ptr, d), count + a - d)
      BY <1>1, <1>3, <1>4 DEF At, Wrap, Slots
    <3>3. QED BY <1>6, <2>2, <3>1, <3>2
  <2>3. QED BY <2>1, <2>2
<1>10. alloc_ptr' \in Slots
  BY <1>7, <1>8, <1>9, AtType
<1>11. QED BY <1>3, <1>4, <1>5, <1>6, <1>7, <1>8, <1>9, <1>10

(* The new slot k of the ring is the old slot k + d, or the drained one.   *)
LEMMA SlotStep ==
  ASSUME RegistersOK, RingConsistent,
         NEW flush \in BOOLEAN, NEW lsu_valid \in BOOLEAN, NEW store \in Stores,
         NEW cmt \in BOOLEAN, NEW id \in Slots, NEW ready \in BOOLEAN,
         Edge(flush, lsu_valid, store, cmt, id, ready),
         NEW k \in Slots
  PROVE  LET d == Bit(stb_drain_valid /\ ready)
         IN  IF k + d < DEPTH THEN Slot(k)' = Slot(k + d)
             ELSE d = 1 /\ Slot(k)' = drain_ptr
<1> DEFINE d == Bit(stb_drain_valid /\ ready)
<1>1. /\ d \in 0..1
      /\ drain_ptr' = At(drain_ptr, d)
  BY PointersStep
<1>2. drain_ptr \in Slots
  BY DEF RegistersOK
<1>3. Slot(k)' = At(At(drain_ptr, d), k)
  BY <1>1 DEF Slot, At
<1>4. CASE d = 0
  BY <1>2, <1>3, <1>4, AtShift, DepthAssumption DEF Slot, At, Slots
<1>5. CASE d = 1
  BY <1>2, <1>3, <1>5, AtShift, DepthAssumption DEF Slot, At, Slots
<1>6. QED BY <1>1, <1>4, <1>5

(* After an edge the valid slots are again the window, the committed ones  *)
(* again its prefix.                                                       *)
LEMMA BitsStep ==
  ASSUME RegistersOK, RingConsistent,
         NEW flush \in BOOLEAN, NEW lsu_valid \in BOOLEAN, NEW store \in Stores,
         NEW cmt \in BOOLEAN, NEW id \in Slots, NEW ready \in BOOLEAN,
         Edge(flush, lsu_valid, store, cmt, id, ready)
  PROVE  (ValidIsWindow /\ CommittedIsPrefix)'
<1> USE DepthAssumption
<1> DEFINE drain == stb_drain_valid /\ ready
           alloc == lsu_valid /\ stb_ready
           d == Bit(drain)
           a == Bit(alloc)
<1>1. SUFFICES ASSUME NEW k \in Slots
               PROVE  /\ entry_valid'[Slot(k)'] <=> k < count'
                      /\ entry_commit'[Slot(k)'] <=> k < commit_count'
  BY DEF ValidIsWindow, CommittedIsPrefix, Slot
<1>2. /\ d \in 0..1 /\ a \in 0..1 /\ Bit(cmt) \in 0..1
      /\ d <= commit_count /\ count + a <= DEPTH
      /\ commit_count + Bit(cmt) <= count
      /\ commit_count' = commit_count + Bit(cmt) - d
      /\ count' = IF flush THEN commit_count + Bit(cmt) - d ELSE count + a - d
      /\ commit_count' <= count'
  BY PointersStep
<1>3. count \in 0..DEPTH /\ commit_count \in 0..DEPTH /\ drain_ptr \in Slots
  BY DEF RegistersOK
<1>4. /\ drain <=> d = 1
      /\ ~drain <=> d = 0
      /\ alloc <=> a = 1
      /\ cmt <=> Bit(cmt) = 1
  BY DEF Bit
<1>5. alloc => count < DEPTH
  BY DEF stb_ready
<1>6. \A i \in Slots :
        /\ entry_valid'[i] = IF drain /\ i = drain_ptr THEN FALSE
                             ELSE IF cmt /\ i = id THEN TRUE
                             ELSE IF flush /\ ~entry_commit[i] THEN FALSE
                             ELSE IF alloc /\ ~flush /\ i = alloc_ptr THEN TRUE
                             ELSE entry_valid[i]
        /\ entry_commit'[i] = IF drain /\ i = drain_ptr THEN FALSE
                              ELSE IF cmt /\ i = id THEN TRUE
                              ELSE IF alloc /\ ~flush /\ i = alloc_ptr THEN FALSE
                              ELSE entry_commit[i]
  BY DEF Edge, Clock
<1>7. IF k + d < DEPTH THEN Slot(k)' = Slot(k + d)
      ELSE d = 1 /\ Slot(k)' = drain_ptr
  BY SlotStep
<1> HIDE DEF drain, alloc, d, a
<1>8. CASE k + d < DEPTH
  <2> DEFINE j == k + d
             i == Slot(j)
  <2>1. j \in Slots
    BY <1>2, <1>8 DEF Slots
  <2>2. /\ i \in Slots
        /\ i = drain_ptr <=> j = 0
        /\ cmt => (i = id <=> j = commit_count)
        /\ count < DEPTH => (i = alloc_ptr <=> j = count)
        /\ entry_valid[i] <=> j < count
        /\ entry_commit[i] <=> j < commit_count
    BY <2>1, Landmarks DEF Edge
  <2>3. drain => i # drain_ptr
    BY <1>2, <1>4, <2>2 DEF Slots
  <2>4. Slot(k)' = i
    BY <1>7, <1>8
  <2>5. entry_valid'[i] <=> \/ cmt /\ i = id
                            \/ flush /\ entry_commit[i] /\ entry_valid[i]
                            \/ ~flush /\ (entry_valid[i] \/ (alloc /\ i = alloc_ptr))
    BY <1>6, <2>2, <2>3, Zenon
  <2>6. entry_commit'[i] <=> \/ cmt /\ i = id
                             \/ entry_commit[i] /\ ~(alloc /\ ~flush /\ i = alloc_ptr)
    BY <1>6, <2>2, <2>3, Zenon
  <2>7. k < count' <=> \/ cmt /\ j = commit_count
                       \/ flush /\ j < commit_count /\ j < count
                       \/ ~flush /\ (j < count \/ (alloc /\ j = count))
    BY <1>2, <1>3, <1>4, <2>1 DEF Slots
  <2>8. k < commit_count' <=> \/ cmt /\ j = commit_count
                              \/ j < commit_count /\ ~(alloc /\ ~flush /\ j = count)
    BY <1>2, <1>3, <1>4, <2>1 DEF Slots
  <2> HIDE DEF i, j
  <2>9. QED BY <1>5, <2>2, <2>4, <2>5, <2>6, <2>7, <2>8
<1>9. CASE ~(k + d < DEPTH)
  <2>1. drain /\ Slot(k)' = drain_ptr
    BY <1>4, <1>7, <1>9
  <2>2. ~entry_valid'[drain_ptr] /\ ~entry_commit'[drain_ptr]
    BY <1>3, <1>6, <2>1
  <2>3. ~(k < count') /\ ~(k < commit_count')
    BY <1>2, <1>3, <1>4, <1>9, <2>1 DEF Slots
  <2>4. QED BY <2>1, <2>2, <2>3
<1>10. QED BY <1>8, <1>9

(* The payload keeps its type: only a whole store is ever written to it.   *)
LEMMA RegistersStep ==
  ASSUME RegistersOK, RingConsistent,
         NEW flush \in BOOLEAN, NEW lsu_valid \in BOOLEAN, NEW store \in Stores,
         NEW cmt \in BOOLEAN, NEW id \in Slots, NEW ready \in BOOLEAN,
         Edge(flush, lsu_valid, store, cmt, id, ready)
  PROVE  RegistersOK'
<1>1. /\ commit_count' \in 0..DEPTH /\ count' \in 0..DEPTH
      /\ drain_ptr' \in Slots /\ alloc_ptr' \in Slots
  BY PointersStep
<1>2. entry' \in [Slots -> Stores]
  BY DEF RegistersOK, Edge, Clock
<1>3. entry_valid' \in [Slots -> BOOLEAN]
  BY DEF RegistersOK, Edge, Clock
<1>4. entry_commit' \in [Slots -> BOOLEAN]
  BY DEF RegistersOK, Edge, Clock
<1>5. QED BY <1>1, <1>2, <1>3, <1>4 DEF RegistersOK

(* An edge leaves the ring consistent, whoever drives it, as long as the   *)
(* commit port names the oldest speculative slot.                          *)
LEMMA RingStep ==
  ASSUME RegistersOK, RingConsistent,
         NEW flush \in BOOLEAN, NEW lsu_valid \in BOOLEAN, NEW store \in Stores,
         NEW cmt \in BOOLEAN, NEW id \in Slots, NEW ready \in BOOLEAN,
         Edge(flush, lsu_valid, store, cmt, id, ready)
  PROVE  RegistersOK' /\ RingConsistent'
<1>1. RegistersOK'
  BY RegistersStep
<1>2. TailFollowsHead'
  BY PointersStep DEF TailFollowsHead, Slot, At
<1>3. (ValidIsWindow /\ CommittedIsPrefix)'
  BY BitsStep
<1>4. QED BY <1>1, <1>2, <1>3 DEF RingConsistent

-----------------------------------------------------------------------------
(* The client's ids *)

(* The client's report names the oldest speculative slot.                  *)
LEMMA ReportIsOldest ==
  ASSUME Consistent, NEW cmt \in BOOLEAN, cmt => waiting # << >>
  PROVE  LET id == IF cmt THEN Head(waiting) ELSE 0
         IN  /\ id \in Slots
             /\ cmt => commit_count < count /\ id = Slot(commit_count)
<1>1. /\ waiting \in Seq(Slots)
      /\ Len(waiting) = count - commit_count
      /\ \A i \in 1..Len(waiting) : waiting[i] = Slot(commit_count + (i - 1))
      /\ count \in Nat /\ commit_count \in Nat
  BY DEF Consistent, TypeOK, ReportsMatchSlots
<1>2. 0 \in Slots
  BY DepthAssumption DEF Slots
<1>3. CASE cmt
  <2>1. Len(waiting) \in Nat /\ Len(waiting) > 0 /\ Head(waiting) = waiting[1]
    BY <1>1, <1>3
  <2>2. Head(waiting) \in Slots
    BY <1>1, <2>1
  <2>3. commit_count < count
    BY <1>1, <2>1
  <2>4. Head(waiting) = Slot(commit_count)
    BY <1>1, <2>1
  <2>5. QED BY <1>3, <2>2, <2>3, <2>4
<1>4. QED BY <1>2, <1>3

(* What is left of the ids once the oldest has been reported.              *)
LEMMA RestOfReports ==
  ASSUME Consistent, NEW cmt \in BOOLEAN, cmt => waiting # << >>,
         NEW rest, rest = Unreported(cmt)
  PROVE  /\ rest \in Seq(Slots)
         /\ Len(rest) = count - (commit_count + Bit(cmt))
         /\ \A i \in 1..Len(rest) :
              rest[i] = At(drain_ptr, (commit_count + Bit(cmt)) + (i - 1))
<1>1. /\ waiting \in Seq(Slots)
      /\ Len(waiting) = count - commit_count
      /\ \A i \in 1..Len(waiting) : waiting[i] = At(drain_ptr, commit_count + (i - 1))
      /\ count \in Int /\ commit_count \in Int
  BY DepthAssumption DEF Consistent, TypeOK, ReportsMatchSlots, Slot, At
<1>2. CASE cmt
  <2>1. Bit(cmt) = 1 /\ rest = Tail(waiting)
    BY <1>2 DEF Bit, Unreported
  <2>2. /\ rest \in Seq(Slots)
        /\ Len(rest) = Len(waiting) - 1
        /\ \A i \in 1..Len(rest) : rest[i] = waiting[i + 1]
    <3>1. waiting # << >>
      BY <1>2
    <3>2. /\ Tail(waiting) \in Seq(Slots)
          /\ Len(Tail(waiting)) = Len(waiting) - 1
          /\ \A i \in 1..Len(Tail(waiting)) : Tail(waiting)[i] = waiting[i + 1]
      BY <1>1, <3>1, HeadTailProperties
    <3>3. QED BY <2>1, <3>2
  <2>3. Len(rest) = count - (commit_count + Bit(cmt))
    BY <1>1, <2>1, <2>2
  <2>4. ASSUME NEW i \in 1..Len(rest)
        PROVE  rest[i] = At(drain_ptr, (commit_count + Bit(cmt)) + (i - 1))
    <3>1. i \in Int /\ i + 1 \in 1..Len(waiting)
      BY <1>1, <2>2
    <3>2. commit_count + ((i + 1) - 1) = (commit_count + Bit(cmt)) + (i - 1)
      BY <1>1, <2>1, <3>1
    <3>3. waiting[i + 1] = At(drain_ptr, commit_count + ((i + 1) - 1))
      BY <1>1, <3>1
    <3>4. QED BY <2>2, <3>2, <3>3
  <2>5. QED BY <2>2, <2>3, <2>4
<1>3. CASE ~cmt
  <2>1. Bit(cmt) = 0 /\ rest = waiting
    BY <1>3 DEF Bit, Unreported
  <2>2. commit_count + Bit(cmt) = commit_count
    BY <1>1, <2>1
  <2>3. QED BY <1>1, <2>1, <2>2
<1>4. QED BY <1>2, <1>3

(* After an edge the ids that are left are those of the slots still        *)
(* speculative: the reported one is gone, a new one stands last.           *)
LEMMA ReportsStep ==
  ASSUME Consistent,
         NEW lsu_valid \in BOOLEAN, NEW store \in Stores,
         NEW cmt \in BOOLEAN, NEW ready \in BOOLEAN,
         Cycle(lsu_valid, store, cmt, ready)
  PROVE  waiting' \in Seq(Slots) /\ ReportsMatchSlots'
<1> DEFINE id == IF cmt THEN Head(waiting) ELSE 0
           d == Bit(stb_drain_valid /\ ready)
           a == Bit(lsu_valid /\ stb_ready)
           c == Bit(cmt)
           rest == Unreported(cmt)
<1> USE DepthAssumption
<1>1. /\ count \in 0..DEPTH /\ commit_count \in 0..DEPTH /\ commit_count <= count
      /\ drain_ptr \in Slots /\ alloc_ptr \in Slots /\ alloc_ptr = At(drain_ptr, count)
      /\ RegistersOK /\ RingConsistent
  BY DEF Consistent, TypeOK, RegistersOK, RingConsistent, TailFollowsHead, Slot, At
<1>2. cmt => waiting # << >>
  BY DEF Cycle
<1>3. /\ id \in Slots
      /\ Edge(FALSE, lsu_valid, store, cmt, id, ready)
  BY <1>2, ReportIsOldest DEF Edge, Cycle
<1>4. /\ d \in 0..1 /\ a \in 0..1 /\ c \in 0..1
      /\ d <= commit_count /\ commit_count + c <= count
      /\ drain_ptr' = At(drain_ptr, d)
      /\ commit_count' = commit_count + c - d
      /\ count' = count + a - d
      /\ count' \in 0..DEPTH /\ commit_count' \in 0..DEPTH
  <2> DEFINE flush == FALSE
  <2>1. flush \in BOOLEAN /\ Edge(flush, lsu_valid, store, cmt, id, ready)
    BY <1>3
  <2>2. ~flush
    OBVIOUS
  <2> HIDE DEF flush, id
  <2>3. QED BY <1>1, <1>3, <2>1, <2>2, PointersStep
<1>5. /\ rest \in Seq(Slots)
      /\ Len(rest) = count - (commit_count + c)
      /\ \A i \in 1..Len(rest) : rest[i] = At(drain_ptr, (commit_count + c) + (i - 1))
  BY <1>2, RestOfReports
<1>6. waiting' = IF lsu_valid /\ stb_ready THEN Append(rest, alloc_ptr) ELSE rest
  BY DEF Cycle
<1>7. lsu_valid /\ stb_ready <=> a = 1
  BY DEF Bit
<1> HIDE DEF d, a, c, rest, id
<1>8. \A n \in 0..DEPTH : d <= n => At(drain_ptr', n - d) = At(drain_ptr, n)
  BY <1>1, <1>4, AtUnshift
<1>9. \A i \in 1..Len(rest) : rest[i] = At(drain_ptr', commit_count' + (i - 1))
  <2>1. TAKE i \in 1..Len(rest)
  <2> DEFINE n == (commit_count + c) + (i - 1)
  <2>2. Len(rest) \in Nat /\ i \in 1..Len(rest)
    BY <1>5
  <2>3. n \in 0..DEPTH /\ d <= n /\ n - d = commit_count' + (i - 1)
    BY <1>1, <1>4, <1>5, <2>2
  <2>4. rest[i] = At(drain_ptr, n)
    BY <1>5, <2>2
  <2> HIDE DEF n
  <2>5. QED BY <1>8, <2>3, <2>4
<1>10. CASE a = 1
  <2>1. waiting' = Append(rest, alloc_ptr)
    BY <1>6, <1>7, <1>10
  <2>2. /\ waiting' \in Seq(Slots)
        /\ Len(waiting') = Len(rest) + 1
        /\ \A i \in 1..Len(rest) : waiting'[i] = rest[i]
        /\ waiting'[Len(rest) + 1] = alloc_ptr
    BY <1>1, <1>5, <2>1, AppendProperties
  <2>3. Len(rest) \in Nat
    BY <1>5
  <2>4. alloc_ptr = At(drain_ptr', commit_count' + Len(rest))
    <3>1. count - d = commit_count' + Len(rest) /\ d <= count
      BY <1>1, <1>4, <1>5, <2>3
    <3>2. QED BY <1>1, <1>8, <3>1
  <2>5. Len(waiting') = count' - commit_count'
    BY <1>1, <1>4, <1>5, <1>10, <2>2, <2>3
  <2>6. ASSUME NEW i \in 1..Len(waiting')
        PROVE  waiting'[i] = At(drain_ptr', commit_count' + (i - 1))
    <3>1. CASE i \in 1..Len(rest)
      BY <1>9, <2>2, <3>1
    <3>2. CASE ~(i \in 1..Len(rest))
      <4>1. i = Len(rest) + 1 /\ i - 1 = Len(rest)
        BY <2>2, <2>3, <3>2
      <4>2. QED BY <2>2, <2>4, <4>1
    <3>3. QED BY <3>1, <3>2
  <2>7. QED BY <2>2, <2>5, <2>6 DEF ReportsMatchSlots, Slot, At
<1>11. CASE a # 1
  <2>1. waiting' = rest /\ a = 0
    BY <1>4, <1>6, <1>7, <1>11
  <2>2. Len(waiting') = count' - commit_count'
    BY <1>1, <1>4, <1>5, <2>1
  <2>3. QED BY <1>5, <1>9, <2>1, <2>2 DEF ReportsMatchSlots, Slot, At
<1>12. QED BY <1>10, <1>11

-----------------------------------------------------------------------------
(* Reset state: an empty ring at slot 0, no id outstanding.                *)
LEMMA InitConsistent ==
  ASSUME Init
  PROVE  Consistent
<1> USE DepthAssumption
<1>1. /\ count = 0 /\ commit_count = 0 /\ drain_ptr = 0 /\ alloc_ptr = 0
      /\ entry_valid = [i \in Slots |-> FALSE]
      /\ entry_commit = [i \in Slots |-> FALSE]
      /\ entry \in [Slots -> Stores] /\ waiting = << >>
  BY DEF Init, ResetState
<1>2. 0 \in Slots /\ 0 \in 0..DEPTH
  BY DEF Slots
<1>3. TypeOK
  <2>1. << >> \in Seq(Slots)
    OBVIOUS
  <2>2. QED BY <1>1, <1>2, <2>1 DEF TypeOK
<1>4. RingConsistent
  <2>1. TailFollowsHead
    BY <1>1 DEF TailFollowsHead, Slot, Wrap
  <2>2. \A k \in Slots : Slot(k) \in Slots /\ ~(k < 0)
    BY <1>1 DEF Slot, Wrap, Slots
  <2>3. QED BY <1>1, <2>1, <2>2 DEF RingConsistent, ValidIsWindow, CommittedIsPrefix
<1>5. ReportsMatchSlots
  BY <1>1 DEF ReportsMatchSlots
<1>6. QED BY <1>3, <1>4, <1>5 DEF Consistent

(* One clock edge of the closed system keeps the invariant.                *)
LEMMA NextConsistent ==
  ASSUME Consistent, [Next]_vars
  PROVE  Consistent'
<1>1. RegistersOK /\ RingConsistent
  BY DEF Consistent, TypeOK, RegistersOK
<1>2. ASSUME NEW lsu_valid \in BOOLEAN, NEW cmt \in BOOLEAN, NEW ready \in BOOLEAN,
             NEW store \in Stores, Cycle(lsu_valid, store, cmt, ready)
      PROVE  Consistent'
  <2> DEFINE id == IF cmt THEN Head(waiting) ELSE 0
  <2>1. /\ id \in Slots
        /\ Edge(FALSE, lsu_valid, store, cmt, id, ready)
    BY <1>2, ReportIsOldest DEF Edge, Cycle
  <2>2. FALSE \in BOOLEAN
    OBVIOUS
  <2>3. RegistersOK' /\ RingConsistent'
    BY <1>1, <2>1, <2>2, RingStep
  <2>4. waiting' \in Seq(Slots) /\ ReportsMatchSlots'
    BY <1>2, ReportsStep
  <2>5. QED BY <2>3, <2>4 DEF Consistent, TypeOK, RegistersOK
<1>3. ASSUME NEW lsu_valid \in BOOLEAN, NEW cmt \in BOOLEAN, NEW ready \in BOOLEAN,
             NEW store \in Stores, Flush(lsu_valid, store, cmt, ready)
      PROVE  Consistent'
  <2> DEFINE id == IF cmt THEN Head(waiting) ELSE 0
  <2>1. /\ id \in Slots
        /\ Edge(TRUE, lsu_valid, store, cmt, id, ready)
    BY <1>3, ReportIsOldest DEF Edge, Flush
  <2>2. TRUE \in BOOLEAN
    OBVIOUS
  <2>3. RegistersOK' /\ RingConsistent'
    BY <1>1, <2>1, <2>2, RingStep
  <2>4. count' = commit_count' /\ count' \in 0..DEPTH
    <3>1. count' = commit_count'
      BY <2>1 DEF Edge, Clock
    <3>2. count' \in 0..DEPTH
      BY <2>3 DEF RegistersOK
    <3>3. QED BY <3>1, <3>2
  <2>5. waiting' = << >>
    BY <1>3 DEF Flush
  <2>6. waiting' \in Seq(Slots) /\ ReportsMatchSlots'
    <3>1. waiting' \in Seq(Slots) /\ Len(waiting') = 0
      BY <2>5
    <3>2. count' - commit_count' = 0
      <4>1. count' \in Int /\ commit_count' \in Int
        BY <2>4, DepthAssumption
      <4>2. \A x \in Int : x - x = 0
        OBVIOUS
      <4>3. QED BY <2>4, <4>1, <4>2, Zenon
    <3>3. QED BY <3>1, <3>2 DEF ReportsMatchSlots
  <2>7. QED BY <2>3, <2>6 DEF Consistent, TypeOK, RegistersOK
<1>4. CASE UNCHANGED vars
  <2>1. /\ entry' = entry /\ entry_valid' = entry_valid /\ entry_commit' = entry_commit
        /\ alloc_ptr' = alloc_ptr /\ drain_ptr' = drain_ptr /\ count' = count
        /\ commit_count' = commit_count /\ waiting' = waiting
    BY <1>4 DEF vars, stbVars
  <2>2. QED BY <2>1 DEF Consistent, TypeOK, RingConsistent, TailFollowsHead, ValidIsWindow,
               CommittedIsPrefix, ReportsMatchSlots, Slot
<1>5. QED BY <1>2, <1>3, <1>4 DEF Next

(* The ring of every depth, under every client that reports its stores in  *)
(* allocation order and once: in every reachable state the registers keep  *)
(* to their widths, the two bit vectors are the window and its committed   *)
(* prefix, the tail pointer is where the counters say, and the ids the EXU *)
(* still holds name exactly the speculative slots (store_buffer.v:114-168).*)
THEOREM SpecConsistent == Spec => []Consistent
<1>1. Init => Consistent
  BY InitConsistent
<1>2. Consistent /\ [Next]_vars => Consistent'
  BY NextConsistent
<1>3. QED BY <1>1, <1>2, PTL DEF Spec

(***************************************************************************)
(* The refinement of StoreQueue and the forwarding                         *)
(***************************************************************************)

(* The queue held by the n slots of e from the head p on.                  *)
Window(e, p, n) == [i \in 1..n |-> e[At(p, i - 1)]]

LEMMA WindowType ==
  ASSUME NEW e \in [Slots -> Stores], NEW p \in Slots, NEW n \in 0..DEPTH
  PROVE  /\ Window(e, p, n) \in Seq(Stores)
         /\ Len(Window(e, p, n)) = n
         /\ \A i \in 1..n : Window(e, p, n)[i] = e[At(p, i - 1)]
<1> USE DepthAssumption
<1> DEFINE w == Window(e, p, n)
<1>1. w \in [1..n -> Stores]
  <2>1. ASSUME NEW i \in 1..n PROVE e[At(p, i - 1)] \in Stores
    <3>1. i - 1 \in 0..DEPTH
      OBVIOUS
    <3>2. QED BY <3>1, AtType
  <2>2. QED BY <2>1 DEF Window
<1>2. n \in Nat
  OBVIOUS
<1>3. w \in Seq(Stores)
  <2> HIDE DEF w
  <2>1. QED BY <1>1, <1>2, SeqDef
<1>4. Len(w) = n
  <2> HIDE DEF w
  <2>1. Len(w) \in Nat /\ DOMAIN w = 1..Len(w)
    BY <1>3, LenProperties
  <2>2. DOMAIN w = 1..n
    BY <1>1
  <2>3. ASSUME NEW x \in Nat, NEW y \in Nat, x < y, 1..x = 1..y
        PROVE  FALSE
    <3>1. y \in 1..y /\ ~(y \in 1..x)
      BY <2>3
    <3>2. QED BY <2>3, <3>1
  <2>4. Len(w) < n \/ n < Len(w) \/ Len(w) = n
    <3>1. \A x, y \in Nat : x < y \/ y < x \/ x = y
      OBVIOUS
    <3>2. QED BY <1>2, <2>1, <3>1
  <2>5. QED BY <1>2, <2>1, <2>2, <2>3, <2>4
<1>5. QED BY <1>3, <1>4 DEF Window

LEMMA PendingIsWindow == Pending = Window(entry, drain_ptr, count)
  BY DEF Pending, Window, Slot, At

-----------------------------------------------------------------------------
(* The payload after an edge, counted from the new head: what was one (or  *)
(* no) place further, and the new store past the old tail.                 *)
LEMMA PayloadStep ==
  ASSUME RegistersOK, RingConsistent,
         NEW flush \in BOOLEAN, NEW lsu_valid \in BOOLEAN, NEW store \in Stores,
         NEW cmt \in BOOLEAN, NEW id \in Slots, NEW ready \in BOOLEAN,
         Edge(flush, lsu_valid, store, cmt, id, ready),
         NEW d, d = Bit(stb_drain_valid /\ ready),
         NEW k \in Nat
  PROVE  /\ k + d < count => entry'[At(drain_ptr', k)] = entry[At(drain_ptr, k + d)]
         /\ Bit(lsu_valid /\ stb_ready /\ ~flush) = 1 /\ k + d = count
              => entry'[At(drain_ptr', k)] = store
<1> USE DepthAssumption
<1>1. /\ d \in 0..1 /\ drain_ptr' = At(drain_ptr, d)
      /\ drain_ptr \in Slots /\ count \in 0..DEPTH
      /\ alloc_ptr \in Slots /\ alloc_ptr = At(drain_ptr, count)
      /\ entry \in [Slots -> Stores]
  <2>1. d \in 0..1 /\ drain_ptr' = At(drain_ptr, d)
    BY PointersStep
  <2>2. QED BY <2>1 DEF RegistersOK, RingConsistent, TailFollowsHead, Slot, At
<1>2. \A i \in Slots : entry'[i] = IF (lsu_valid /\ stb_ready) /\ ~flush /\ i = alloc_ptr
                                     THEN store ELSE entry[i]
  BY <1>1 DEF Edge, Clock
<1>3. ASSUME k + d \in Slots
      PROVE  At(drain_ptr', k) = At(drain_ptr, k + d)
  BY <1>1, <1>3 DEF At, Wrap, Slots
<1>4. ASSUME k + d < count
      PROVE  entry'[At(drain_ptr', k)] = entry[At(drain_ptr, k + d)]
  <2>1. k + d \in Slots
    BY <1>1, <1>4 DEF Slots
  <2>2. At(drain_ptr, k + d) \in Slots
    BY <1>1, <2>1, AtType DEF Slots
  <2>3. stb_ready => At(drain_ptr, k + d) # alloc_ptr
    <3>1. ASSUME stb_ready, At(drain_ptr, k + d) = At(drain_ptr, count)
          PROVE  FALSE
      <4>1. count \in Slots
        BY <1>1, <3>1 DEF stb_ready, Slots
      <4>2. k + d = count
        BY <1>1, <2>1, <3>1, <4>1, AtInjective
      <4>3. QED BY <1>1, <1>4, <4>2
    <3>2. QED BY <1>1, <3>1
  <2>4. QED BY <1>2, <1>3, <2>1, <2>2, <2>3
<1>5. ASSUME ~flush, lsu_valid, stb_ready, k + d = count
      PROVE  entry'[At(drain_ptr', k)] = store
  <2>1. k + d \in Slots
    BY <1>1, <1>5 DEF stb_ready, Slots
  <2>2. QED BY <1>1, <1>2, <1>3, <1>5, <2>1
<1>6. Bit(lsu_valid /\ stb_ready /\ ~flush) = 1 => lsu_valid /\ stb_ready /\ ~flush
  BY DEF Bit
<1>7. QED BY <1>4, <1>5, <1>6

(* The queue after an edge, as a sub-sequence of the queue before it.      *)
LEMMA QueueStep ==
  ASSUME RegistersOK, RingConsistent,
         NEW flush \in BOOLEAN, NEW lsu_valid \in BOOLEAN, NEW store \in Stores,
         NEW cmt \in BOOLEAN, NEW id \in Slots, NEW ready \in BOOLEAN,
         Edge(flush, lsu_valid, store, cmt, id, ready),
         NEW d, d = Bit(stb_drain_valid /\ ready),
         NEW a, a = Bit(lsu_valid /\ stb_ready),
         NEW c, c = Bit(cmt)
  PROVE  /\ Pending \in Seq(Stores) /\ Len(Pending) = count
         /\ Bit(flush) = 1 => Pending' = SubSeq(Pending, d + 1, commit_count + c)
         /\ Bit(flush) = 0 /\ a = 1
              => Pending' = Append(SubSeq(Pending, d + 1, Len(Pending)), store)
         /\ Bit(flush) = 0 /\ a = 0
              => Pending' = SubSeq(Pending, d + 1, Len(Pending))
<1> USE DepthAssumption
<1>1. /\ d \in 0..1 /\ a \in 0..1 /\ c \in 0..1
      /\ d <= commit_count /\ commit_count + c <= count
      /\ count' = IF flush THEN commit_count + c - d ELSE count + a - d
      /\ count' \in 0..DEPTH /\ drain_ptr' \in Slots
  BY PointersStep
<1>2. /\ count \in 0..DEPTH /\ commit_count \in 0..DEPTH /\ drain_ptr \in Slots
      /\ entry \in [Slots -> Stores]
  BY DEF RegistersOK
<1>3. /\ Pending \in Seq(Stores) /\ Len(Pending) = count
      /\ \A i \in 1..count : Pending[i] = entry[At(drain_ptr, i - 1)]
  BY <1>2, WindowType, PendingIsWindow
<1>4. /\ Pending' \in Seq(Stores) /\ Len(Pending') = count'
      /\ \A i \in 1..count' : Pending'[i] = entry'[At(drain_ptr', i - 1)]
  <2>1. entry' \in [Slots -> Stores] /\ drain_ptr' \in Slots /\ count' \in 0..DEPTH
    <3>1. RegistersOK'
      BY RegistersStep
    <3>2. QED BY <1>1, <3>1 DEF RegistersOK
  <2>2. Pending' = Window(entry', drain_ptr', count')
    BY DEF Pending, Window, Slot, At
  <2>3. /\ Window(entry', drain_ptr', count') \in Seq(Stores)
        /\ Len(Window(entry', drain_ptr', count')) = count'
        /\ \A i \in 1..count' :
             Window(entry', drain_ptr', count')[i] = entry'[At(drain_ptr', i - 1)]
    BY <2>1, WindowType
  <2>4. QED BY <2>2, <2>3
<1>5. a = IF lsu_valid /\ stb_ready THEN 1 ELSE 0
  BY DEF Bit
<1>6. ASSUME NEW i \in 1..count', i + d <= count
      PROVE  Pending'[i] = Pending[i + d]
  <2>1. i - 1 \in Nat /\ (i - 1) + d < count /\ i + d \in 1..count
        /\ (i + d) - 1 = (i - 1) + d
    BY <1>1, <1>2, <1>6
  <2>2. Pending'[i] = entry'[At(drain_ptr', i - 1)]
    BY <1>4
  <2>3. entry'[At(drain_ptr', i - 1)] = entry[At(drain_ptr, (i - 1) + d)]
    BY <2>1, PayloadStep
  <2>4. Pending[i + d] = entry[At(drain_ptr, (i - 1) + d)]
    BY <1>3, <2>1
  <2>5. QED BY <2>2, <2>3, <2>4
<1>7. ASSUME NEW n \in Int, d <= n, n <= count
      PROVE  /\ SubSeq(Pending, d + 1, n) \in Seq(Stores)
             /\ Len(SubSeq(Pending, d + 1, n)) = n - d
             /\ \A i \in 1..(n - d) : SubSeq(Pending, d + 1, n)[i] = Pending[i + d]
  <2>1. d + 1 \in Int /\ \A i \in (d + 1)..n : Pending[i] \in Stores
    <3>1. \A i \in (d + 1)..n : i \in 1..Len(Pending)
      BY <1>1, <1>2, <1>3, <1>7
    <3>2. QED BY <1>1, <1>3, <3>1, ElementOfSeq
  <2>2. /\ SubSeq(Pending, d + 1, n) \in Seq(Stores)
        /\ Len(SubSeq(Pending, d + 1, n)) = IF d + 1 <= n THEN n - (d + 1) + 1 ELSE 0
        /\ \A i \in 1..(n - (d + 1) + 1) :
             SubSeq(Pending, d + 1, n)[i] = Pending[(d + 1) + i - 1]
    BY <2>1, SubSeqProperties
  <2>3. n - (d + 1) + 1 = n - d
    BY <1>1
  <2>4. Len(SubSeq(Pending, d + 1, n)) = n - d
    BY <1>1, <1>7, <2>2
  <2>5. \A i \in 1..(n - d) : (d + 1) + i - 1 = i + d
    BY <1>1
  <2>6. QED BY <2>2, <2>3, <2>4, <2>5
<1>8. ASSUME flush
      PROVE  Pending' = SubSeq(Pending, d + 1, commit_count + c)
  <2> DEFINE n == commit_count + c
             s == SubSeq(Pending, d + 1, n)
  <2>1. n \in Int /\ d <= n /\ n <= count /\ n - d = count'
    BY <1>1, <1>2, <1>8
  <2>2. /\ s \in Seq(Stores) /\ Len(s) = count'
        /\ \A i \in 1..count' : s[i] = Pending[i + d]
    <3> HIDE DEF n
    <3>1. QED BY <1>7, <2>1
  <2>3. \A i \in 1..count' : Pending'[i] = s[i]
    <3> HIDE DEF s
    <3>1. \A i \in 1..count' : i + d <= count
      <4> HIDE DEF n
      <4>1. QED BY <1>1, <1>2, <2>1
    <3>2. QED BY <1>6, <2>2, <3>1
  <2> HIDE DEF s
  <2>4. Pending' = s
    BY <1>4, <2>2, <2>3, SeqEqual
  <2>5. QED BY <2>4 DEF s
<1>9. /\ count \in Int /\ d <= count /\ count <= count
  BY <1>1, <1>2
<1> DEFINE s == SubSeq(Pending, d + 1, count)
<1>10. /\ s \in Seq(Stores) /\ Len(s) = count - d
       /\ \A i \in 1..(count - d) : s[i] = Pending[i + d]
  BY <1>7, <1>9
<1> HIDE DEF s
<1>11. ASSUME ~flush, ~(lsu_valid /\ stb_ready)
       PROVE  Pending' = s
  <2>1. count' = count - d
    BY <1>1, <1>2, <1>5, <1>11
  <2>2. \A i \in 1..count' : i + d <= count
    BY <1>1, <1>2, <2>1
  <2>3. \A i \in 1..count' : Pending'[i] = s[i]
    BY <1>6, <1>10, <2>1, <2>2
  <2>4. QED BY <1>4, <1>10, <2>1, <2>3, SeqEqual
<1>12. ASSUME ~flush, lsu_valid, stb_ready
       PROVE  Pending' = Append(s, store)
  <2> DEFINE t == Append(s, store)
  <2>1. count' = (count - d) + 1 /\ count - d \in Nat
    BY <1>1, <1>2, <1>5, <1>12
  <2>2. /\ t \in Seq(Stores) /\ Len(t) = count'
        /\ \A i \in 1..(count - d) : t[i] = s[i]
        /\ t[(count - d) + 1] = store
    <3>1. /\ t \in Seq(Stores) /\ Len(t) = Len(s) + 1
          /\ \A i \in 1..Len(s) : t[i] = s[i]
          /\ t[Len(s) + 1] = store
      BY <1>10, AppendProperties
    <3>2. QED BY <1>10, <2>1, <3>1
  <2> HIDE DEF t
  <2>3. ASSUME NEW i \in 1..count'
        PROVE  Pending'[i] = t[i]
    <3>1. CASE i \in 1..(count - d)
      <4>1. i + d <= count
        BY <1>1, <1>2, <3>1
      <4>2. QED BY <1>6, <1>10, <2>2, <3>1, <4>1
    <3>2. CASE ~(i \in 1..(count - d))
      <4>1. i = (count - d) + 1 /\ i - 1 \in Nat /\ (i - 1) + d = count
        BY <1>1, <1>2, <2>1, <3>2
      <4>2. entry'[At(drain_ptr', i - 1)] = store
        <5>1. \A k \in Nat : k + d = count => entry'[At(drain_ptr', k)] = store
          <6>1. Bit(lsu_valid /\ stb_ready /\ ~flush) = 1
            BY <1>12 DEF Bit
          <6>2. QED BY <6>1, PayloadStep
        <5>2. QED BY <4>1, <5>1
      <4>3. QED BY <1>4, <2>2, <4>1, <4>2
    <3>3. QED BY <3>1, <3>2
  <2>4. Pending' = t
    BY <1>4, <2>2, <2>3, SeqEqual
  <2>5. QED BY <2>4 DEF t
<1>13. /\ Bit(flush) = 1 => flush
       /\ Bit(flush) = 0 => ~flush
       /\ a = 1 => lsu_valid /\ stb_ready
       /\ a = 0 => ~(lsu_valid /\ stb_ready)
  BY DEF Bit
<1>14. QED BY <1>3, <1>8, <1>11, <1>12, <1>13 DEF s

-----------------------------------------------------------------------------
(* Every edge of the closed system is a step of the queue, or a stutter.   *)
LEMMA StepSimulates ==
  ASSUME Consistent, [Next]_vars
  PROVE  [Queue!Next]_Queue!vars
<1>1. /\ RegistersOK /\ RingConsistent
      /\ count \in 0..DEPTH /\ commit_count \in 0..DEPTH
  BY DEF Consistent, TypeOK, RegistersOK
<1>2. ASSUME NEW flush \in BOOLEAN, NEW lsu_valid \in BOOLEAN, NEW cmt \in BOOLEAN,
             NEW ready \in BOOLEAN, NEW store \in Stores, NEW id \in Slots,
             Edge(flush, lsu_valid, store, cmt, id, ready)
      PROVE  Queue!Next
  <2> DEFINE d == Bit(stb_drain_valid /\ ready)
             c == Bit(cmt)
  <2>1. /\ d \in 0..1 /\ c \in 0..1
        /\ d <= commit_count /\ commit_count + c <= count
        /\ commit_count' = commit_count + c - d
    BY <1>1, <1>2, PointersStep
  <2> DEFINE a == Bit(lsu_valid /\ stb_ready)
             f == Bit(flush)
  <2>2. /\ Len(Pending) = count
        /\ f = 1 => Pending' = SubSeq(Pending, d + 1, commit_count + c)
        /\ f = 0 /\ a = 1 => Pending' = Append(SubSeq(Pending, d + 1, Len(Pending)), store)
        /\ f = 0 /\ a = 0 => Pending' = SubSeq(Pending, d + 1, Len(Pending))
    <3>1. d = Bit(stb_drain_valid /\ ready) /\ c = Bit(cmt) /\ a = Bit(lsu_valid /\ stb_ready) /\ f = Bit(flush)
      OBVIOUS
    <3> HIDE DEF d, c, a, f
    <3> QED BY <1>1, <1>2, <3>1, QueueStep
  <2>3. /\ a \in 0..1 /\ f \in 0..1
        /\ a = 1 => stb_ready
    BY DEF Bit
  <2> HIDE DEF d, c, a, f
  <2>4. Queue!Advance(d, c)
    BY <2>1, <2>2 DEF Queue!Advance
  <2>5. CASE f = 1
    BY <2>1, <2>2, <2>4, <2>5 DEF Queue!Next, Queue!Squash
  <2>6. CASE f = 0 /\ a = 1
    <3>1. Len(Pending) < DEPTH
      BY <2>2, <2>3, <2>6 DEF stb_ready
    <3>2. QED BY <2>1, <2>2, <2>4, <2>6, <3>1 DEF Queue!Next, Queue!Accept
  <2>7. CASE f = 0 /\ a = 0
    BY <2>1, <2>2, <2>4, <2>7 DEF Queue!Next, Queue!Hold
  <2>8. QED BY <2>3, <2>5, <2>6, <2>7
<1>3. ASSUME NEW lsu_valid \in BOOLEAN, NEW cmt \in BOOLEAN, NEW ready \in BOOLEAN,
             NEW store \in Stores, Cycle(lsu_valid, store, cmt, ready)
      PROVE  Queue!Next
  <2> DEFINE id == IF cmt THEN Head(waiting) ELSE 0
             flush == FALSE
  <2>1. id \in Slots /\ flush \in BOOLEAN /\ Edge(flush, lsu_valid, store, cmt, id, ready)
    BY <1>3, ReportIsOldest DEF Edge, Cycle
  <2> HIDE DEF id, flush
  <2>2. QED BY <1>2, <2>1
<1>4. ASSUME NEW lsu_valid \in BOOLEAN, NEW cmt \in BOOLEAN, NEW ready \in BOOLEAN,
             NEW store \in Stores, Flush(lsu_valid, store, cmt, ready)
      PROVE  Queue!Next
  <2> DEFINE id == IF cmt THEN Head(waiting) ELSE 0
             flush == TRUE
  <2>1. id \in Slots /\ flush \in BOOLEAN /\ Edge(flush, lsu_valid, store, cmt, id, ready)
    BY <1>4, ReportIsOldest DEF Edge, Flush
  <2> HIDE DEF id, flush
  <2>2. QED BY <1>2, <2>1
<1>5. CASE UNCHANGED vars
  <2>1. entry' = entry /\ drain_ptr' = drain_ptr /\ count' = count /\ commit_count' = commit_count
    BY <1>5 DEF vars, stbVars
  <2>2. QED BY <2>1 DEF Queue!vars, Pending, Slot
<1>6. QED BY <1>3, <1>4, <1>5 DEF Next

(* At reset the ring is the empty queue. *)
LEMMA InitSimulates ==
  ASSUME Init
  PROVE  Queue!Init
<1>1. count = 0 /\ commit_count = 0
  BY DEF Init, ResetState
<1>2. Pending = << >>
  BY <1>1 DEF Pending
<1>3. QED BY <1>1, <1>2 DEF Queue!Init

(* The ring implements the queue: committed stores leave once each and in  *)
(* program order, none is accepted beyond the capacity, and a flush drops  *)
(* the speculative stores, all of them and nothing else, even in the cycle *)
(* in which one is being committed or drained (store_buffer.v:112-174).    *)
THEOREM SpecImplementsQueue == Spec => ImplementsQueue
<1>1. Init => Queue!Init
  BY InitSimulates
<1>2. Consistent /\ [Next]_vars => [Queue!Next]_Queue!vars
  BY StepSimulates
<1>3. QED BY <1>1, <1>2, SpecConsistent, PTL DEF Spec, ImplementsQueue, Queue!Spec

-----------------------------------------------------------------------------
(* Forwarding *)

(* A nonempty set of naturals with an upper bound has a greatest element.  *)
LEMMA BoundedMaximum ==
  ASSUME NEW n \in Nat, NEW T, T \subseteq 0..n, T # {}
  PROVE  \E x \in T : \A y \in T : y <= x
<1> DEFINE R == OpToRel(<, Nat)
           M == {n - x : x \in T}
<1>1. M \subseteq Nat /\ M # {}
  <2>1. \A x \in T : n - x \in Nat
    OBVIOUS
  <2>2. PICK x \in T : TRUE
    OBVIOUS
  <2>3. QED BY <2>1, <2>2
<1>2. PICK m \in M : \A y \in M : ~(<<y, m>> \in R)
  <2> HIDE DEF M, R
  <2>1. IsWellFoundedOn(R, Nat)
    BY NatLessThanWellFounded DEF R
  <2>2. QED BY <1>1, <2>1, WFMin
<1>3. \A y \in M : m <= y
  <2>1. TAKE y \in M
  <2>2. m \in Nat /\ y \in Nat
    BY <1>1
  <2>3. ~(y < m)
    <3> HIDE DEF M
    <3>1. <<y, m>> \in Nat \X Nat
      BY <2>2
    <3>2. y < m => <<y, m>> \in R
      BY <3>1 DEF OpToRel
    <3>3. QED BY <1>2, <3>2
  <2>4. QED BY <2>2, <2>3
<1>4. PICK x \in T : m = n - x
  OBVIOUS
<1>5. \A y \in T : y <= x
  <2>1. TAKE y \in T
  <2>2. n - y \in M
    OBVIOUS
  <2>3. m <= n - y
    BY <1>3, <2>2
  <2>4. x \in 0..n /\ y \in 0..n
    OBVIOUS
  <2> HIDE DEF M
  <2>5. QED BY <1>4, <2>3, <2>4
<1>6. QED BY <1>5

(* The byte that is left standing when the walk over the slots overwrites  *)
(* older matches is that of the youngest pending store to it.              *)
LEMMA ForwardIsYoungest ==
  ASSUME Consistent, NEW word \in Words, NEW lane \in Lanes
  PROVE  LET y == Queue!Youngest(word, lane)
         IN  ForwardSlot(word, lane) = IF y = 0 THEN DEPTH ELSE y - 1
<1> USE DepthAssumption
<1> DEFINE hits == {k \in Slots : /\ entry_valid[Slot(k)]
                                  /\ entry[Slot(k)].word = word
                                  /\ lane \in entry[Slot(k)].wstrb}
           writers == {i \in 1..Len(Pending) : /\ Pending[i].word = word
                                               /\ lane \in Pending[i].wstrb}
           newest == CHOOSE k \in hits : \A j \in hits : j <= k
           youngest == CHOOSE i \in writers : \A j \in writers : j <= i
<1>1. /\ count \in 0..DEPTH /\ drain_ptr \in Slots /\ entry \in [Slots -> Stores]
      /\ \A k \in Slots : entry_valid[Slot(k)] <=> k < count
  BY DEF Consistent, TypeOK, RingConsistent, ValidIsWindow
<1>2. /\ Len(Pending) = count
      /\ \A i \in 1..count : Pending[i] = entry[Slot(i - 1)]
  BY <1>1, WindowType, PendingIsWindow DEF Slot, At
<1>3. \A k \in Int : k \in hits <=> k + 1 \in writers
  <2>1. TAKE k \in Int
  <2>2. CASE k \in 0..(count - 1)
    <3>1. k \in Slots /\ k + 1 \in 1..count /\ (k + 1) - 1 = k /\ k < count
      BY <1>1, <2>2 DEF Slots
    <3>2. Pending[k + 1] = entry[Slot(k)]
      BY <1>2, <3>1
    <3>3. QED BY <1>1, <1>2, <3>1, <3>2
  <2>3. CASE ~(k \in 0..(count - 1))
    <3>1. k \notin hits
      <4>1. k \in Slots => ~(k < count)
        BY <1>1, <2>3 DEF Slots
      <4>2. QED BY <1>1, <4>1
    <3>2. ~(k + 1 \in 1..count)
      BY <1>1, <2>3
    <3>3. QED BY <1>2, <3>1, <3>2
  <2>4. QED BY <2>2, <2>3
<1>4. hits \subseteq 0..DEPTH /\ writers \subseteq 1..DEPTH
  BY <1>1, <1>2 DEF Slots
<1>5. /\ ForwardSlot(word, lane) = IF hits = {} THEN DEPTH ELSE newest
      /\ Queue!Youngest(word, lane) = IF writers = {} THEN 0 ELSE youngest
  BY DEF ForwardSlot, Queue!Youngest
<1> HIDE DEF hits, writers
<1>6. CASE hits = {}
  <2>1. writers = {}
    <3>1. ASSUME NEW i \in writers PROVE FALSE
      <4>1. i - 1 \in Int /\ (i - 1) + 1 = i
        BY <1>4
      <4>2. QED BY <1>3, <1>6, <4>1
    <3>2. QED BY <3>1
  <2>2. QED BY <1>5, <1>6, <2>1
<1>7. CASE hits # {}
  <2>1. PICK m \in hits : \A j \in hits : j <= m
    BY <1>4, <1>7, BoundedMaximum
  <2>2. newest \in hits /\ \A j \in hits : j <= newest
    BY <2>1
  <2>3. newest + 1 \in writers
    <3> HIDE DEF newest
    <3>1. newest \in Int
      BY <1>4, <2>2
    <3>2. QED BY <1>3, <2>2, <3>1
  <2>4. \A i \in writers : i <= newest + 1
    <3>1. TAKE i \in writers
    <3>2. i - 1 \in Int /\ (i - 1) + 1 = i
      BY <1>4
    <3>3. i - 1 <= newest
      BY <1>3, <2>2, <3>2
    <3> HIDE DEF newest
    <3>4. QED BY <1>4, <2>2, <3>3
  <2>5. youngest \in writers /\ \A j \in writers : j <= youngest
    BY <2>3, <2>4
  <2>6. /\ ForwardSlot(word, lane) = newest
        /\ writers # {} => Queue!Youngest(word, lane) = youngest
    BY <1>5, <1>7
  <2> HIDE DEF newest, youngest
  <2>7. youngest = newest + 1
    <3>1. newest \in 0..DEPTH /\ youngest \in 1..DEPTH
      BY <1>4, <2>2, <2>5
    <3>2. youngest <= newest + 1 /\ newest + 1 <= youngest
      BY <2>3, <2>4, <2>5
    <3>3. QED BY <3>1, <3>2
  <2>8. Queue!Youngest(word, lane) = youngest
    BY <2>5, <2>6
  <2>9. youngest # 0 /\ youngest - 1 = newest
    <3>1. newest \in 0..DEPTH
      BY <1>4, <2>2
    <3>2. QED BY <2>7, <3>1
  <2>10. QED BY <2>6, <2>8, <2>9
<1>8. QED BY <1>6, <1>7

(* A load is given the byte of the youngest older store that writes it and *)
(* never one of a store already drained or flushed (store_buffer.v:188-225)*)
THEOREM SpecForwardsYoungest == Spec => []ForwardsYoungest
<1>1. Consistent => ForwardsYoungest
  BY ForwardIsYoungest DEF ForwardsYoungest
<1>2. QED BY <1>1, SpecConsistent, PTL
=============================================================================
