---------------------------- MODULE IFetchProofs ----------------------------
(***************************************************************************)
(* Instruction fetch implements FetchStream, for any cache, queue, memory, *)
(* program and prediction. The invariant the refinement needs is OnPath:   *)
(* the queue is a chain that ends at pc, and from the cycle after a        *)
(* redirection has been taken over, pc is its target.                      *)
(* And every half-word delivered has been in memory at its own address     *)
(* since the last fence.i; the invariant for that is Fresh.                *)
(***************************************************************************)
EXTENDS IFetch, SequenceTheorems, TLAPS

Fetch == [pc : Addresses, dnpc : Addresses]

PathType ==
  /\ pc \in Addresses
  /\ flush_dnpc \in Addresses
  /\ buffer \in Seq(Fetch)
  /\ du \in Fetch
  /\ flush_en \in BOOLEAN
  /\ idu_valid \in BOOLEAN
  /\ flush_handled \in BOOLEAN

(* What is queued leads from one instruction to the next, and then to pc.  *)
Chained ==
  ~flush_en =>
    /\ \A i \in 1..(Len(buffer) - 1) : buffer[i].dnpc = buffer[i + 1].pc
    /\ buffer # <<>> => buffer[Len(buffer)].dnpc = pc

(* The pulse has moved pc to the target, and nothing moves it on from there*)
(* before the redirection ends.                                            *)
HandledAtTarget == flush_handled => flush_en /\ pc = flush_dnpc

OnPath == PathType /\ Chained /\ HandledAtTarget

-----------------------------------------------------------------------------
(* Addresses wrap around at the end of memory: a sum is an address again.  *)
LEMMA PlusType ==
  ASSUME NEW a \in Addresses, NEW n \in Nat
  PROVE  Plus(a, n) \in Addresses
BY FetchAssumption DEF Plus, Addresses

(* An instruction is one or two half-words long. *)
LEMMA OutputLength == Len(output_inst) \in {1, 2}
BY DEF output_inst

(* Whatever is predicted, fetch continues at an address. *)
LEMMA PredictionType ==
  ASSUME pc \in Addresses, NEW b \in Guesses
  PROVE  pre_dnpc(b) \in Addresses
<1>1. Len(output_inst) \in Nat
  BY OutputLength
<1>2. seq_dnpc \in Addresses
  BY <1>1, PlusType DEF seq_dnpc
<1>3. b.dnpc \in Addresses
  BY FetchAssumption, PlusType DEF Guesses, NoGuess
<1> QED
  BY <1>2, <1>3 DEF pred_dnpc, pre_dnpc

-----------------------------------------------------------------------------
(* One clock edge *)

(* What the inputs of an edge may be. *)
Inputs(guess, miss, target) ==
  /\ guess \in Guesses
  /\ miss \in BOOLEAN /\ (miss => idu_valid /\ ~flush_en)
  /\ target \in Addresses

(* Every step of the clock is an edge under such inputs. *)
LEMMA StepIsEdge ==
  ASSUME Next
  PROVE  \E b \in Guesses, target \in Addresses,
            r, m, f, a \in BOOLEAN, w \in SUBSET Stores :
           /\ Inputs(b, m, target) /\ (f => MayFence)
           /\ Edge(b, r, m, target, f, a, w)
<1>1. PICK r \in BOOLEAN, a \in BOOLEAN : Clocked(r, a)
  BY DEF Next
<1>2. PICK f \in IF MayFence /\ r THEN BOOLEAN ELSE {FALSE},
           m \in IF idu_valid /\ ~flush_en THEN BOOLEAN ELSE {FALSE},
           w \in {{}} \cup (IF PortTaken THEN {} ELSE {{s} : s \in Changes}) :
      \E b \in IF pc_updata(f) /\ ~flush_en THEN Guesses ELSE {NoGuess},
         target \in IF m THEN Targets ELSE {RESET_PC} :
        Edge(b, r, m, target, f, a, w)
  BY <1>1 DEF Clocked
<1>3. PICK b \in IF pc_updata(f) /\ ~flush_en THEN Guesses ELSE {NoGuess},
           target \in IF m THEN Targets ELSE {RESET_PC} :
        Edge(b, r, m, target, f, a, w)
  BY <1>2
<1>4. b \in Guesses /\ target \in Addresses
  BY FetchAssumption DEF Guesses
<1>5. /\ f \in BOOLEAN /\ m \in BOOLEAN
      /\ (m => idu_valid /\ ~flush_en) /\ (f => MayFence)
  OBVIOUS
<1>6. w \in SUBSET Stores
  BY DEF Changes
<1> QED
  BY <1>1, <1>3, <1>4, <1>5, <1>6 DEF Inputs

(* Where pc goes: to the target in every cycle of a redirection, else on   *)
(* along the prediction of the instruction being queued.                   *)
LEMMA WherePcGoes ==
  ASSUME OnPath, NEW b, NEW f \in BOOLEAN, IfuClock(f, b)
  PROVE  /\ flush_en => pc' = flush_dnpc
         /\ ~flush_en => pc' = IF pc_updata(f) THEN pre_dnpc(b) ELSE pc
         /\ flush_handled' = (flush_en /\ ~pc_updata(f))
BY DEF OnPath, PathType, HandledAtTarget, IfuClock, inter_flush_pulse, dnpc

(* What is queued is the instruction pc stands at, and pc moves on with it.*)
LEMMA WhatIsQueued ==
  ASSUME NEW b, NEW r \in BOOLEAN, NEW f \in BOOLEAN, IbufferClock(f, b, r)
  PROVE  LET rest == IF r /\ buffer # <<>> THEN Tail(buffer) ELSE buffer
         IN  buffer' = IF flush_en THEN <<>>
                       ELSE IF pc_updata(f) THEN Append(rest, Fetched(b)) ELSE rest
BY DEF IbufferClock, ifu_valid, pc_updata

(* The types the path needs are preserved. *)
LEMMA PathTypeStep ==
  ASSUME OnPath,
         NEW b, NEW target, NEW r \in BOOLEAN, NEW m, NEW f \in BOOLEAN, NEW a, NEW w,
         Inputs(b, m, target), Edge(b, r, m, target, f, a, w)
  PROVE  PathType'
<1> USE DEF OnPath, PathType
<1>0. <<>> \in Seq(Fetch)
  OBVIOUS
<1>1. pre_dnpc(b) \in Addresses
  BY PredictionType DEF Inputs
<1>2. pc' \in Addresses
  BY <1>1, WherePcGoes DEF Edge
<1>3. flush_dnpc' \in Addresses /\ flush_en' \in BOOLEAN
  BY DEF Edge, Inputs, BruClock
<1>4. flush_handled' \in BOOLEAN
  BY WherePcGoes DEF Edge
<1>5. Fetched(b) \in Fetch
  BY <1>1 DEF Fetched, Fetch
<1>6. buffer' \in Seq(Fetch)
  <2>1. CASE r /\ buffer # <<>>
    <3>1. Tail(buffer) \in Seq(Fetch)
      BY <2>1
    <3>2. buffer' \in {<<>>, Append(Tail(buffer), Fetched(b)), Tail(buffer)}
      BY <2>1, WhatIsQueued DEF Edge
    <3>3. Append(Tail(buffer), Fetched(b)) \in Seq(Fetch)
      BY <1>5, <3>1
    <3> QED
      BY <1>0, <3>1, <3>2, <3>3
  <2>2. CASE ~(r /\ buffer # <<>>)
    <3>1. buffer' \in {<<>>, Append(buffer, Fetched(b)), buffer}
      BY <2>2, WhatIsQueued DEF Edge
    <3>2. Append(buffer, Fetched(b)) \in Seq(Fetch)
      BY <1>5
    <3> QED
      BY <1>0, <3>1, <3>2
  <2> QED
    BY <2>1, <2>2
<1>7. du' \in Fetch /\ idu_valid' \in BOOLEAN
  <2>1. NoInst \in Fetch
    BY FetchAssumption DEF NoInst, Fetch, Addresses
  <2>2. buffer # <<>> => Head(buffer) \in Fetch
    OBVIOUS
  <2> QED
    BY <2>1, <2>2 DEF Edge, DecodeClock
<1> QED
  BY <1>2, <1>3, <1>4, <1>6, <1>7

(* The chain grows at pc and shrinks at its head. *)
LEMMA ChainStep ==
  ASSUME OnPath, ~flush_en,
         NEW b, NEW r \in BOOLEAN, NEW f \in BOOLEAN,
         pre_dnpc(b) \in Addresses, IfuClock(f, b), IbufferClock(f, b, r)
  PROVE  /\ \A i \in 1..(Len(buffer') - 1) : buffer'[i].dnpc = buffer'[i + 1].pc
         /\ buffer' # <<>> => buffer'[Len(buffer')].dnpc = pc'
<1> DEFINE rest == IF r /\ buffer # <<>> THEN Tail(buffer) ELSE buffer
<1>1. rest \in Seq(Fetch) /\ buffer \in Seq(Fetch)
  BY DEF OnPath, PathType
<1>2. /\ \A i \in 1..(Len(rest) - 1) : rest[i].dnpc = rest[i + 1].pc
      /\ rest # <<>> => rest[Len(rest)].dnpc = pc
  <2>1. /\ \A i \in 1..(Len(buffer) - 1) : buffer[i].dnpc = buffer[i + 1].pc
        /\ buffer # <<>> => buffer[Len(buffer)].dnpc = pc
    BY DEF OnPath, Chained
  <2>2. CASE r /\ buffer # <<>>
    <3>1. /\ rest = Tail(buffer) /\ Len(rest) = Len(buffer) - 1
          /\ \A i \in 1..Len(rest) : rest[i] = buffer[i + 1]
      BY <1>1, <2>2
    <3>2. rest # <<>> => Len(rest) \in 1..Len(rest)
      BY <1>1
    <3> QED
      BY <1>1, <2>1, <2>2, <3>1, <3>2
  <2>3. CASE ~(r /\ buffer # <<>>)
    BY <2>1, <2>3
  <2> QED
    BY <2>2, <2>3
<1>3. CASE pc_updata(f)
  <2>1. buffer' = Append(rest, Fetched(b)) /\ pc' = pre_dnpc(b)
    BY <1>3, WhatIsQueued, WherePcGoes
  <2> HIDE DEF rest
  <2>2. Fetched(b).pc = pc /\ Fetched(b).dnpc = pre_dnpc(b)
    BY DEF Fetched
  <2>3. /\ Len(buffer') = Len(rest) + 1
        /\ \A i \in 1..Len(rest) : buffer'[i] = rest[i]
        /\ buffer'[Len(rest) + 1] = Fetched(b)
    BY <1>1, <2>1
  <2>4. ASSUME NEW i \in 1..(Len(buffer') - 1)
        PROVE  buffer'[i].dnpc = buffer'[i + 1].pc
    <3>0. /\ Len(rest) \in Nat /\ i \in 1..Len(rest)
          /\ Len(rest) > 0 => rest # <<>>
      BY <1>1, <2>3
    <3>1. CASE i = Len(rest)
      <4>1. rest[i].dnpc = pc
        BY <1>2, <3>0, <3>1
      <4>2. buffer'[i] = rest[i] /\ buffer'[i + 1] = Fetched(b)
        BY <2>3, <3>0, <3>1
      <4> QED
        BY <2>2, <4>1, <4>2
    <3>2. CASE i # Len(rest)
      <4>1. i \in 1..(Len(rest) - 1) /\ i + 1 \in 1..Len(rest)
        BY <3>0, <3>2
      <4>2. buffer'[i] = rest[i] /\ buffer'[i + 1] = rest[i + 1]
        BY <2>3, <3>0, <4>1
      <4> QED
        BY <1>2, <4>1, <4>2
    <3> QED
      BY <3>1, <3>2
  <2> QED
    BY <2>1, <2>2, <2>3, <2>4
<1>4. CASE ~pc_updata(f)
  <2>1. buffer' = rest /\ pc' = pc
    BY <1>4, WhatIsQueued, WherePcGoes
  <2> QED
    BY <1>2, <2>1
<1> QED
  BY <1>3, <1>4

-----------------------------------------------------------------------------
(* The invariant *)

LEMMA PathInit == Init => OnPath
<1> SUFFICES ASSUME Init PROVE OnPath
  OBVIOUS
<1>1. PathType
  <2>1. 0 \in Addresses /\ RESET_PC \in Addresses
    BY FetchAssumption DEF Addresses
  <2>2. /\ pc = RESET_PC /\ flush_handled = FALSE /\ buffer = <<>>
        /\ du = NoInst /\ idu_valid = FALSE /\ flush_en = FALSE /\ flush_dnpc = 0
    BY DEF Init
  <2>3. <<>> \in Seq(Fetch)
    OBVIOUS
  <2>4. NoInst \in Fetch
    BY <2>1 DEF NoInst, Fetch
  <2> QED
    BY <2>1, <2>2, <2>3, <2>4 DEF PathType
<1> QED
  BY <1>1 DEF Init, OnPath, Chained, HandledAtTarget

LEMMA PathStep == OnPath /\ [Next]_vars => OnPath'
<1> SUFFICES ASSUME OnPath, [Next]_vars PROVE OnPath'
  OBVIOUS
<1>1. CASE Next
  <2>1. PICK b \in Guesses, target \in Addresses,
             r, m, f, a \in BOOLEAN, w \in SUBSET Stores :
          Inputs(b, m, target) /\ Edge(b, r, m, target, f, a, w)
    BY <1>1, StepIsEdge
  <2>2. PathType'
    BY <2>1, PathTypeStep
  <2>3. Chained'
    <3>1. CASE flush_en
      <4>1. buffer' = <<>>
        BY <2>1, <3>1 DEF Edge, IbufferClock
      <4> QED
        BY <4>1 DEF Chained
    <3>2. CASE ~flush_en
      <4>1. pre_dnpc(b) \in Addresses
        BY <2>1, PredictionType DEF Inputs, OnPath, PathType
      <4> QED
        BY <2>1, <3>2, <4>1, ChainStep DEF Edge, Chained
    <3> QED
      BY <3>1, <3>2 DEF OnPath, PathType
  <2>4. HandledAtTarget'
    <3>1. SUFFICES ASSUME flush_en, ~pc_updata(f)
                   PROVE  flush_en' /\ pc' = flush_dnpc'
      BY <2>1, WherePcGoes DEF HandledAtTarget, Edge
    <3>2. flush_en' /\ flush_dnpc' = flush_dnpc
      BY <2>1, <3>1 DEF Edge, BruClock, Inputs
    <3> QED
      BY <2>1, <3>1, <3>2, WherePcGoes DEF Edge
  <2> QED
    BY <2>2, <2>3, <2>4 DEF OnPath
<1>2. CASE UNCHANGED vars
  BY <1>2 DEF vars, fetchVars, backVars, OnPath, PathType, Chained, HandledAtTarget
<1> QED
  BY <1>1, <1>2

(* The queue is always a chain that ends where fetch stands, and fetch     *)
(* stands at the target from the cycle after a redirection until its end.  *)
THEOREM SpecOnPath == Spec => []OnPath
<1>1. Init => OnPath
  BY PathInit
<1>2. OnPath /\ [Next]_vars => OnPath'
  BY PathStep
<1> QED
  BY <1>1, <1>2, PTL DEF Spec

-----------------------------------------------------------------------------
(* The refinement *)

Stage == IF idu_valid /\ ~flush_en THEN {du} ELSE {}

(* Taking from the queue and adding to it leave the next address to deliver*)
(* at the head of what remains, or at pc.                                  *)
LEMMA NextAddress ==
  ASSUME OnPath, ~flush_en, ~flush_en',
         NEW b, NEW r \in BOOLEAN, NEW f \in BOOLEAN,
         IfuClock(f, b), IbufferClock(f, b, r),
         NEW rest, rest = IF r /\ buffer # <<>> THEN Tail(buffer) ELSE buffer
  PROVE  next' = IF rest # <<>> THEN Head(rest).pc ELSE pc
<1>1. rest \in Seq(Fetch)
  BY DEF OnPath, PathType
<1>2. CASE pc_updata(f)
  <2>1. buffer' = Append(rest, Fetched(b))
    BY <1>2, WhatIsQueued
  <2>2. Head(Append(rest, Fetched(b))) = IF rest # <<>> THEN Head(rest) ELSE Fetched(b)
    BY <1>1, HeadTailAppend
  <2>3. Fetched(b).pc = pc
    BY DEF Fetched
  <2>4. Append(rest, Fetched(b)) # <<>>
    BY <1>1
  <2> QED
    BY <2>1, <2>2, <2>3, <2>4 DEF next
<1>3. CASE ~pc_updata(f)
  <2>1. buffer' = rest /\ pc' = pc
    BY <1>3, WhatIsQueued, WherePcGoes
  <2> QED
    BY <2>1 DEF next
<1> QED
  BY <1>2, <1>3

(* The head of the queue predicts what is at its head once it is gone. *)
LEMMA HeadPredicts ==
  ASSUME OnPath, ~flush_en, buffer # <<>>
  PROVE  Head(buffer).dnpc = IF Tail(buffer) # <<>> THEN Head(Tail(buffer)).pc ELSE pc
<1>1. buffer \in Seq(Fetch) /\ Len(buffer) \in Nat \ {0} /\ Head(buffer) = buffer[1]
  BY DEF OnPath, PathType
<1>2. /\ \A i \in 1..(Len(buffer) - 1) : buffer[i].dnpc = buffer[i + 1].pc
      /\ buffer[Len(buffer)].dnpc = pc
  BY DEF OnPath, Chained
<1>3. /\ Tail(buffer) \in Seq(Fetch)
      /\ Len(Tail(buffer)) = Len(buffer) - 1
      /\ \A i \in 1..Len(Tail(buffer)) : Tail(buffer)[i] = buffer[i + 1]
  BY <1>1, HeadTailProperties
<1>4. CASE Tail(buffer) = <<>>
  <2>1. Len(Tail(buffer)) = 0
    <3>1. Len(<<>>) = 0
      BY EmptySeq
    <3> QED
      BY ONLY <1>4, <3>1
  <2>2. Len(buffer) - 1 = 0 /\ Len(buffer) \in Nat
    BY <1>1, <1>3, <2>1
  <2>3. Len(buffer) = 1
    BY <2>2
  <2> QED
    BY <1>1, <1>2, <1>4, <2>3
<1>5. CASE Tail(buffer) # <<>>
  <2>1. Len(Tail(buffer)) \in Nat \ {0}
    BY <1>3, <1>5, EmptySeq
  <2>2. Head(Tail(buffer)) = Tail(buffer)[1] /\ 1 \in 1..Len(Tail(buffer))
    BY <1>3, <1>5, <2>1
  <2>3. buffer[1].dnpc = buffer[1 + 1].pc
    BY <1>1, <1>2, <1>3, <2>1
  <2> QED
    BY <1>1, <1>3, <1>5, <2>2, <2>3
<1> QED
  BY <1>4, <1>5

LEMMA StreamInit == Init => Stream!Init
<1> SUFFICES ASSUME Init PROVE Stream!Init
  OBVIOUS
<1>1. pc = RESET_PC /\ buffer = <<>> /\ ~flush_en /\ ~idu_valid
  BY DEF Init
<1> QED
  BY <1>1 DEF Stream!Init, next

(* While the core is being redirected, the stream stands at the target.    *)
LEMMA RedirectedStep ==
  ASSUME OnPath, flush_en,
         NEW b, NEW target, NEW r \in BOOLEAN, NEW m, NEW f \in BOOLEAN, NEW a, NEW w,
         Inputs(b, m, target), Edge(b, r, m, target, f, a, w)
  PROVE  Stage' = {} /\ next' = next
<1>1. idu_valid' = FALSE /\ buffer' = <<>>
  BY DEF Edge, DecodeClock, IbufferClock
<1>2. flush_dnpc' = flush_dnpc
  BY DEF Edge, BruClock, Inputs
<1>3. pc' = flush_dnpc
  BY WherePcGoes DEF Edge
<1> QED
  BY <1>1, <1>2, <1>3 DEF Stage, next

(* Without one, the stage takes the head of the queue, starves, or waits.  *)
LEMMA FlowingStep ==
  ASSUME OnPath, OnPath', ~flush_en,
         NEW b, NEW target, NEW r \in BOOLEAN, NEW f \in BOOLEAN, NEW a, NEW w,
         Inputs(b, FALSE, target), Edge(b, r, FALSE, target, f, a, w)
  PROVE  \/ Stage' = {[pc |-> next, dnpc |-> next']}
         \/ Stage' = {} /\ next' = next
         \/ Stage' = Stage /\ next' = next
<1> DEFINE rest == IF r /\ buffer # <<>> THEN Tail(buffer) ELSE buffer
<1>1. ~flush_en'
  BY DEF Edge, BruClock
<1>2. next' = IF rest # <<>> THEN Head(rest).pc ELSE pc
  BY <1>1, NextAddress DEF Edge
<1>3. CASE r /\ buffer # <<>>
  <2>1. next = Head(buffer).pc /\ next' = Head(buffer).dnpc
    BY <1>2, <1>3, HeadPredicts DEF next
  <2>2. idu_valid' /\ du' = Head(buffer)
    BY <1>3 DEF Edge, DecodeClock
  <2>3. Head(buffer) \in Fetch
    BY <1>3 DEF OnPath, PathType
  <2>4. Head(buffer) = [pc |-> Head(buffer).pc, dnpc |-> Head(buffer).dnpc]
    BY <2>3 DEF Fetch
  <2> QED
    BY <1>1, <2>1, <2>2, <2>4 DEF Stage
<1>4. CASE r /\ buffer = <<>>
  <2>1. next' = next
    BY <1>2, <1>4 DEF next
  <2>2. ~idu_valid'
    BY <1>4 DEF Edge, DecodeClock
  <2> QED
    BY <2>1, <2>2 DEF Stage
<1>5. CASE ~r
  <2>1. next' = next
    BY <1>2, <1>5 DEF next
  <2>2. idu_valid' = idu_valid /\ du' = du
    BY <1>5 DEF Edge, DecodeClock
  <2> QED
    BY <1>1, <2>1, <2>2 DEF Stage
<1> QED
  BY <1>3, <1>4, <1>5

LEMMA StreamStep ==
  ASSUME OnPath, OnPath', Next
  PROVE  [Stream!Next]_(Stream!vars)
<1>1. PICK b \in Guesses, target \in Addresses,
           r, m, f, a \in BOOLEAN, w \in SUBSET Stores :
        Inputs(b, m, target) /\ Edge(b, r, m, target, f, a, w)
  BY StepIsEdge
<1>2. next' \in Addresses
  <2>1. /\ pc' \in Addresses /\ flush_dnpc' \in Addresses
        /\ buffer' \in Seq(Fetch)
    BY DEF OnPath, PathType
  <2>2. buffer' # <<>> => Head(buffer') \in Fetch
    BY <2>1, HeadTailProperties
  <2>3. buffer' # <<>> => Head(buffer').pc \in Addresses
    BY <2>2 DEF Fetch
  <2> QED
    BY <2>1, <2>3 DEF next
<1>3. CASE flush_en
  BY <1>1, <1>3, RedirectedStep DEF Stage, Stream!Next, Stream!Starve
<1>4. CASE ~flush_en /\ m
  <2>1. idu_valid /\ flush_en'
    BY <1>1, <1>4 DEF Edge, BruClock, Inputs
  <2> QED
    BY <1>2, <1>4, <2>1 DEF Stream!Next, Stream!Redirect
<1>5. CASE ~flush_en /\ ~m
  <2>1. \/ Stage' = {[pc |-> next, dnpc |-> next']}
        \/ Stage' = {} /\ next' = next
        \/ Stage' = Stage /\ next' = next
    BY <1>1, <1>5, FlowingStep
  <2> QED
    BY <1>2, <2>1 DEF Stage, Stream!Next, Stream!Deliver, Stream!Starve, Stream!vars
<1> QED
  BY <1>3, <1>4, <1>5

(* For every cache, queue length, memory, program and prediction, what is  *)
(* delivered to the decode stage is one unbroken path of predictions from  *)
(* the reset address or from the target of the last redirection.           *)
THEOREM SpecImplementsStream == Spec => ImplementsStream
<1>1. Init => Stream!Init
  BY StreamInit
<1>2. OnPath /\ OnPath' /\ [Next]_vars => [Stream!Next]_(Stream!vars)
  <2>1. CASE Next
    BY <2>1, StreamStep
  <2>2. CASE UNCHANGED vars
    BY <2>2 DEF vars, fetchVars, backVars, Stream!vars, next
  <2> QED
    BY <2>1, <2>2
<1> QED
  BY <1>1, <1>2, SpecOnPath, PTL DEF Spec, ImplementsStream, Stream!Spec

-----------------------------------------------------------------------------
(* What is fetched: where a half-word stands in a line                     *)

Blocks == 0..(MEM_BLOCKS - 1)

LEMMA Division ==
  ASSUME NEW n \in Nat, NEW M \in Nat \ {0}
  PROVE  n \div M \in Nat /\ n % M \in 0..(M - 1) /\ n = M * (n \div M) + (n % M)
<1>1. n \div M \in Int /\ n % M \in 0..(M - 1) /\ n = M * (n \div M) + (n % M)
  OBVIOUS
<1>2. ASSUME NEW q \in Int, NEW r \in 0..(M - 1), n = M * q + r
      PROVE  q \in Nat
  <2>1. CASE q <= -1
    <3>1. M * q <= M * (-1)
      BY <1>2, <2>1
    <3>2. M * (-1) = -M
      OBVIOUS
    <3> QED BY <1>2, <3>1, <3>2
  <2> QED BY <2>1
<1>3. n \div M \in Nat
  BY <1>1, <1>2, Zenon
<1> QED BY <1>1, <1>3, Zenon

LEMMA DivisionUnique ==
  ASSUME NEW M \in Nat \ {0}, NEW p \in Nat, NEW t \in 0..(M - 1)
  PROVE  (M * p + t) \div M = p /\ (M * p + t) % M = t
<1> DEFINE q == (M * p + t) \div M
           r == (M * p + t) % M
<1>1. M * p \in Nat
  OBVIOUS
<1>2. q \in Nat /\ r \in 0..(M - 1) /\ M * p + t = M * q + r
  <2>1. M * p + t \in Nat
    BY <1>1
  <2> QED BY <2>1, Division, Zenon
<1> HIDE DEF q, r
<1>3. CASE q >= p + 1
  <2>1. M * q >= M * (p + 1)
    BY <1>2, <1>3
  <2>2. M * (p + 1) = M * p + M
    OBVIOUS
  <2> QED BY <1>1, <1>2, <2>1, <2>2
<1>4. CASE q <= p - 1
  <2>1. M * q <= M * (p - 1)
    BY <1>2, <1>4
  <2>2. M * (p - 1) = M * p - M
    OBVIOUS
  <2> QED BY <1>1, <1>2, <2>1, <2>2
<1>5. q = p
  BY <1>2, <1>3, <1>4
<1> QED BY <1>1, <1>2, <1>5 DEF q, r

(* Every half-word has its place, and the place names the half-word.       *)
LEMMA PlaceOf ==
  ASSUME NEW a \in Addresses
  PROVE  /\ BlockOf(a) \in Blocks /\ BeatOf(a) \in Beats /\ IndexOf(BlockOf(a)) \in Lines
         /\ HalfAt(BlockOf(a), BeatOf(a), a % 2) = a
<1> DEFINE W == BEATS_PER_BLOCK
           n == a \div 2
           b == n \div W
           k == n % W
           h == a % 2
<1>1. W \in Nat \ {0} /\ MEM_BLOCKS \in Nat \ {0} /\ NUM_BLOCKS \in Nat \ {0}
  BY FetchAssumption
<1>2. a \in Nat /\ a < 2 * W * MEM_BLOCKS
  BY <1>1, FetchAssumption DEF Addresses, HALF_WORDS
<1>3. n \in Nat /\ h \in 0..1 /\ a = 2 * n + h
  BY <1>2
<1>4. b \in Nat /\ k \in 0..(W - 1) /\ n = W * b + k
  BY <1>1, <1>3, Division
<1>5. a = (2 * W) * b + (2 * k + h)
  <2> HIDE DEF b, k, h, n
  <2> QED BY <1>1, <1>3, <1>4
<1>6. 2 * W \in Nat \ {0} /\ 2 * k + h \in 0..(2 * W - 1)
  <2> HIDE DEF b, k, h, n
  <2> QED BY <1>1, <1>3, <1>4
<1>7. BlockOf(a) = b
  <2> HIDE DEF b, k, h, n
  <2>1. ((2 * W) * b + (2 * k + h)) \div (2 * W) = b
    BY <1>4, <1>6, DivisionUnique
  <2> QED BY <1>5, <2>1 DEF BlockOf
<1>8. b < MEM_BLOCKS
  <2> HIDE DEF b, k, h, n
  <2> SUFFICES ASSUME b >= MEM_BLOCKS PROVE FALSE
    BY <1>1, <1>4
  <2>1. (2 * W) * b >= (2 * W) * MEM_BLOCKS
    BY <1>1, <1>4, <1>6
  <2> QED BY <1>1, <1>2, <1>4, <1>5, <1>6, <2>1
<1>9. HalfAt(b, k, h) = a
  <2>1. HalfAt(b, k, h) = 2 * (b * W + k) + h
    BY DEF HalfAt
  <2> HIDE DEF b, k, h, n, W
  <2>2. b * W = W * b /\ W * b \in Nat
    BY <1>1, <1>4
  <2> QED BY <1>3, <1>4, <2>1, <2>2
<1>10. BeatOf(a) = k
  BY DEF BeatOf
<1>11. IndexOf(b) \in Lines
  <2> HIDE DEF b
  <2> QED BY <1>1, <1>4 DEF IndexOf, Lines
<1> HIDE DEF b, k, h, n
<1> QED BY <1>1, <1>4, <1>7, <1>8, <1>9, <1>10, <1>11 DEF Blocks, Beats, h

LEMMA HalfAtType ==
  ASSUME NEW b \in Blocks, NEW k \in Beats, NEW h \in {0, 1}
  PROVE  HalfAt(b, k, h) \in Addresses
<1> DEFINE W == BEATS_PER_BLOCK
<1>1. W \in Nat \ {0} /\ MEM_BLOCKS \in Nat \ {0} /\ b \in Nat /\ b <= MEM_BLOCKS - 1
      /\ k \in Nat /\ k <= W - 1
  BY FetchAssumption DEF Blocks, Beats
<1>2. W * b \in Nat /\ W * b <= W * (MEM_BLOCKS - 1)
  BY <1>1
<1>3. W * (MEM_BLOCKS - 1) = W * MEM_BLOCKS - W /\ W * MEM_BLOCKS \in Nat
  BY <1>1
<1>4. HalfAt(b, k, h) = 2 * (W * b) + 2 * k + h
  BY <1>1 DEF HalfAt
<1>5. HALF_WORDS = 2 * (W * MEM_BLOCKS)
  BY <1>1 DEF HALF_WORDS
<1> HIDE DEF W
<1> QED BY <1>1, <1>2, <1>3, <1>4, <1>5 DEF Addresses

(* A word holds an even half-word and the next one.                        *)
LEMMA NextHalf ==
  ASSUME NEW a \in Addresses
  PROVE  /\ a % 2 \in {0, 1}
         /\ a % 2 = 0 => HalfAt(BlockOf(a), BeatOf(a), 1) = Plus(a, 1)
         /\ a % 2 = 1 => Plus(a, 1) % 2 = 0
<1>1. BEATS_PER_BLOCK \in Nat \ {0} /\ MEM_BLOCKS \in Nat \ {0}
  BY FetchAssumption
<1>2. PICK n \in Nat : HALF_WORDS = 2 * n /\ n > 0
  <2>1. HALF_WORDS = 2 * (BEATS_PER_BLOCK * MEM_BLOCKS) /\ BEATS_PER_BLOCK * MEM_BLOCKS \in Nat
    BY <1>1 DEF HALF_WORDS
  <2> QED BY <2>1, FetchAssumption
<1>3. a \in Nat /\ a <= 2 * n - 1
  BY <1>2 DEF Addresses
<1>4. CASE a % 2 = 0
  <2>1. Plus(a, 1) = a + 1
    BY <1>2, <1>3, <1>4 DEF Plus
  <2>2. HalfAt(BlockOf(a), BeatOf(a), 0) = a
    BY <1>4, PlaceOf
  <2>3. BlockOf(a) \in Nat /\ BeatOf(a) \in Nat
    BY PlaceOf DEF Blocks, Beats
  <2>4. HalfAt(BlockOf(a), BeatOf(a), 1) = a + 1
    BY <1>1, <2>2, <2>3 DEF HalfAt
  <2> QED BY <1>4, <2>1, <2>4
<1>5. CASE a % 2 = 1
  <2>1. a + 1 = HALF_WORDS \/ a + 1 < HALF_WORDS
    BY <1>2, <1>3
  <2>2. CASE a + 1 = HALF_WORDS
    BY <1>2, <1>3, <1>5, <2>2 DEF Plus
  <2>3. CASE a + 1 < HALF_WORDS
    BY <1>2, <1>3, <1>5, <2>3 DEF Plus
  <2> QED BY <1>5, <2>1, <2>2, <2>3
<1>6. a % 2 \in {0, 1}
  BY <1>3
<1> QED BY <1>4, <1>5, <1>6

-----------------------------------------------------------------------------
(* What is fetched: nothing older than the last fence.i                    *)

(* A word as the memory has held it since then.                            *)
Held(data, b, k) == \A h \in {0, 1} : data[k][h] \in maybe[HalfAt(b, k, h)]

CacheShape ==
  /\ line = [i \in Lines |-> [valid |-> line[i].valid, block |-> line[i].block,
                              data |-> line[i].data]]
  /\ \A i \in Lines : line[i].valid \in BOOLEAN
  /\ icache = [state |-> icache.state, block |-> icache.block, beat_cnt |-> icache.beat_cnt,
               ar_done |-> icache.ar_done, data |-> icache.data]
  /\ icache.data = [k \in Beats |-> icache.data[k]]
  /\ icache.state \in {"IDLE", "READ", "FILL"} /\ icache.beat_cnt \in Beats
  /\ icache.state # "IDLE" => icache.block \in Blocks
  /\ cross_buf = [valid |-> cross_buf.valid, data |-> cross_buf.data]

LinesHeld ==
  \A i \in Lines : line[i].valid =>
    line[i].block \in Blocks /\ \A k \in Beats : Held(line[i].data, line[i].block, k)

RefillHeld ==
  /\ icache.state = "READ" =>
       \A k \in Beats : k < icache.beat_cnt => Held(icache.data, icache.block, k)
  /\ icache.state = "FILL" => \A k \in Beats : Held(icache.data, icache.block, k)

HalfHeld ==
  cross_buf.valid => pc % 2 = 1 /\ cross_buf.data \in WideBits \cap maybe[pc]

MemoryHeld == \A a \in Addresses : mem[a] \in maybe[a]

Fresh == CacheShape /\ LinesHeld /\ RefillHeld /\ HalfHeld /\ MemoryHeld

LEMMA FetchAddress ==
  ASSUME pc \in Addresses
  PROVE  icache_addr \in Addresses
BY PlusType DEF icache_addr

(* A hit shows what has been at that address.                              *)
LEMMA HitHeld ==
  ASSUME pc \in Addresses, LinesHeld, NEW f \in BOOLEAN, hit(f), NEW h \in {0, 1}
  PROVE  icache_half(h) \in maybe[HalfAt(BlockOf(icache_addr), BeatOf(icache_addr), h)]
<1> DEFINE a == icache_addr
           i == IndexOf(BlockOf(a))
<1>1. a \in Addresses
  BY FetchAddress
<1>2. i \in Lines /\ BeatOf(a) \in Beats
  BY <1>1, PlaceOf
<1>3. line[i].valid /\ line[i].block = BlockOf(a)
  BY DEF hit
<1>4. Held(line[i].data, BlockOf(a), BeatOf(a))
  BY <1>2, <1>3 DEF LinesHeld
<1> QED BY <1>4 DEF Held, icache_half

(* The invariant gives the property.                                       *)
LEMMA FreshWhole ==
  ASSUME pc \in Addresses, Fresh
  PROVE  InstructionsAreWhole
<1> SUFFICES ASSUME inst_ready(FALSE)
             PROVE  /\ output_inst[1] \in maybe[pc]
                    /\ Len(output_inst) = 2 <=> output_inst[1] \in WideBits
                    /\ Len(output_inst) = 2 => output_inst[2] \in maybe[Plus(pc, 1)]
  BY DEF InstructionsAreWhole
<1>1. /\ hit(FALSE) /\ ~is_cross_32_first_beat
      /\ \A h \in {0, 1} : icache_half(h) \in
           maybe[HalfAt(BlockOf(icache_addr), BeatOf(icache_addr), h)]
  BY HitHeld DEF inst_ready, Fresh
<1>2. CASE cross_buf.valid
  <2>1. pc % 2 = 1 /\ cross_buf.data \in WideBits /\ cross_buf.data \in maybe[pc]
    BY <1>2 DEF Fresh, HalfHeld
  <2>2. icache_addr = Plus(pc, 1) /\ Plus(pc, 1) \in Addresses /\ Plus(pc, 1) % 2 = 0
    BY <1>2, <2>1, NextHalf, PlusType DEF icache_addr
  <2>3. icache_half(0) \in maybe[Plus(pc, 1)]
    BY <1>1, <2>2, PlaceOf
  <2>4. output_inst = <<cross_buf.data, icache_half(0)>>
    BY <1>2 DEF output_inst
  <2> QED BY <2>1, <2>3, <2>4
<1>3. CASE ~cross_buf.valid
  <2>1. icache_addr = pc /\ pc % 2 \in {0, 1}
    BY <1>3, NextHalf DEF icache_addr
  <2>2. current_half \in maybe[pc]
    BY <1>1, <2>1, PlaceOf DEF current_half
  <2>3. CASE current_half \in WideBits
    <3>1. pc % 2 = 0
      BY <1>1, <1>3, <2>1, <2>3 DEF is_cross_32_first_beat
    <3>2. output_inst = <<current_half, icache_half(1)>>
      BY <1>3, <2>3, <3>1 DEF output_inst, is_32bit, current_half
    <3>3. icache_half(1) \in maybe[Plus(pc, 1)]
      BY <1>1, <2>1, <3>1, NextHalf
    <3> QED BY <2>2, <2>3, <3>2, <3>3
  <2>4. CASE current_half \notin WideBits
    <3>1. output_inst = <<current_half>>
      BY <1>3, <2>4 DEF output_inst, is_32bit
    <3> QED BY <2>2, <2>4, <3>1
  <2> QED BY <2>3, <2>4
<1> QED BY <1>2, <1>3

LEMMA FreshInit == Init => Fresh
<1> SUFFICES ASSUME Init PROVE Fresh
  OBVIOUS
<1>1. CacheShape
  <2> DEFINE blank == [beat \in Beats |-> [h \in {0, 1} |-> 0]]
  <2>1. /\ line = [i \in Lines |-> [valid |-> FALSE, block |-> 0, data |-> blank]]
        /\ icache = [state |-> "IDLE", block |-> 0, beat_cnt |-> 0, ar_done |-> FALSE,
                     data |-> blank]
        /\ cross_buf = [valid |-> FALSE, data |-> 0]
    BY DEF Init
  <2>2. blank = [k \in Beats |-> blank[k]] /\ 0 \in Beats
    BY FetchAssumption DEF Beats
  <2> HIDE DEF blank
  <2>3. \A i \in Lines : line[i] = [valid |-> FALSE, block |-> 0, data |-> blank]
    BY <2>1
  <2>4. line = [i \in Lines |-> [valid |-> line[i].valid, block |-> line[i].block,
                                data |-> line[i].data]]
    BY <2>1, <2>3
  <2> QED BY <2>1, <2>2, <2>3, <2>4 DEF CacheShape
<1>2. LinesHeld /\ RefillHeld /\ HalfHeld /\ MemoryHeld
  BY FetchAssumption DEF Init, LinesHeld, RefillHeld, HalfHeld, MemoryHeld
<1> QED BY <1>1, <1>2 DEF Fresh

(* Without a fence.i, what has been held is held.                          *)
LEMMA MemoryStep ==
  ASSUME Fresh, NEW f \in BOOLEAN, NEW w, MemoryClock(f, w)
  PROVE  MemoryHeld' /\ (~f => \A a \in Addresses : maybe[a] \subseteq maybe'[a])
<1>1. \A a \in Addresses : maybe'[a] = (IF f THEN {} ELSE maybe[a]) \cup {mem'[a]}
  BY DEF MemoryClock
<1> QED BY <1>1 DEF MemoryHeld

(* A fence.i finds no fetch half done and leaves no line valid; it is the  *)
(* only step that forgets.                                                 *)
LEMMA HeldStays ==
  ASSUME NEW data, NEW b \in Blocks, NEW k \in Beats, Held(data, b, k),
         \A a \in Addresses : maybe[a] \subseteq maybe'[a]
  PROVE  \A h \in {0, 1} : data[k][h] \in maybe'[HalfAt(b, k, h)]
BY HalfAtType DEF Held

LEMMA KeptLines ==
  ASSUME Fresh, NEW f \in BOOLEAN, ~f => \A a \in Addresses : maybe[a] \subseteq maybe'[a]
  PROVE  \A i \in Lines :
           /\ Kept(f)[i] = [valid |-> Kept(f)[i].valid, block |-> Kept(f)[i].block,
                            data |-> Kept(f)[i].data]
           /\ Kept(f)[i].valid \in BOOLEAN
           /\ Kept(f)[i].valid =>
                /\ Kept(f)[i].block \in Blocks
                /\ \A k \in Beats, h \in {0, 1} :
                     Kept(f)[i].data[k][h] \in maybe'[HalfAt(Kept(f)[i].block, k, h)]
<1> TAKE i \in Lines
<1>1. line[i] = [valid |-> line[i].valid, block |-> line[i].block, data |-> line[i].data]
  BY DEF Fresh, CacheShape
<1>2. CASE f
  <2>1. Kept(f)[i] = [line[i] EXCEPT !.valid = FALSE]
    BY <1>2 DEF Kept
  <2> QED BY <1>1, <2>1
<1>3. CASE ~f
  <2>1. Kept(f)[i] = line[i]
    BY <1>3 DEF Kept
  <2>2. CASE line[i].valid
    <3>1. line[i].block \in Blocks /\ \A k \in Beats : Held(line[i].data, line[i].block, k)
      BY <2>2 DEF Fresh, LinesHeld
    <3>2. \A k \in Beats, h \in {0, 1} : line[i].data[k][h] \in maybe'[HalfAt(line[i].block, k, h)]
      BY <1>3, <3>1, HeldStays
    <3> QED BY <1>1, <2>1, <3>1, <3>2 DEF Fresh, CacheShape
  <2>3. CASE ~line[i].valid
    BY <1>1, <2>1, <2>3 DEF Fresh, CacheShape
  <2> QED BY <2>2, <2>3
<1> QED BY <1>2, <1>3

(* The cache, through a fence.i, a lookup, a beat, a fill.                 *)
LEMMA CacheStep ==
  ASSUME Fresh, pc \in Addresses, QuietFence, NEW f \in BOOLEAN, NEW a \in BOOLEAN, NEW w,
         f => MayFence, IcacheClock(f, a), MemoryClock(f, w)
  PROVE  /\ line' = [i \in Lines |-> [valid |-> line'[i].valid, block |-> line'[i].block,
                                      data |-> line'[i].data]]
         /\ \A i \in Lines : line'[i].valid \in BOOLEAN
         /\ icache' = [state |-> icache'.state, block |-> icache'.block,
                       beat_cnt |-> icache'.beat_cnt, ar_done |-> icache'.ar_done,
                       data |-> icache'.data]
         /\ icache'.data = [k \in Beats |-> icache'.data[k]]
         /\ icache'.state \in {"IDLE", "READ", "FILL"} /\ icache'.beat_cnt \in Beats
         /\ icache'.state # "IDLE" => icache'.block \in Blocks
         /\ LinesHeld' /\ RefillHeld'
<1>1. ~f => \A x \in Addresses : maybe[x] \subseteq maybe'[x]
  BY MemoryStep
<1>2. \A i \in Lines :
        /\ Kept(f)[i] = [valid |-> Kept(f)[i].valid, block |-> Kept(f)[i].block,
                         data |-> Kept(f)[i].data]
        /\ Kept(f)[i].valid \in BOOLEAN
        /\ Kept(f)[i].valid =>
             /\ Kept(f)[i].block \in Blocks
             /\ \A k \in Beats, h \in {0, 1} :
                  Kept(f)[i].data[k][h] \in maybe'[HalfAt(Kept(f)[i].block, k, h)]
  BY <1>1, KeptLines
<1>3. Kept(f) = [i \in Lines |-> Kept(f)[i]]
  BY DEF Kept, Fresh, CacheShape
<1>4. icache = [state |-> icache.state, block |-> icache.block, beat_cnt |-> icache.beat_cnt,
                ar_done |-> icache.ar_done, data |-> icache.data]
  BY DEF Fresh, CacheShape
<1>5. /\ icache.data = [k \in Beats |-> icache.data[k]] /\ icache.beat_cnt \in Beats
      /\ icache.state # "IDLE" => icache.block \in Blocks /\ ~f
  BY DEF Fresh, CacheShape, MayFence, HalfDone
<1>6. BEATS_PER_BLOCK \in Nat \ {0} /\ 0 \in Beats
  BY FetchAssumption DEF Beats
<1>7. ASSUME line' = Kept(f)
      PROVE  /\ line' = [i \in Lines |-> [valid |-> line'[i].valid, block |-> line'[i].block,
                                          data |-> line'[i].data]]
             /\ \A i \in Lines : line'[i].valid \in BOOLEAN
             /\ LinesHeld'
  BY <1>2, <1>3, <1>7 DEF LinesHeld, Held
<1>8. CASE Lookup(f)
  <2>1. /\ icache'.state \in {"IDLE", "READ"} /\ icache'.block = BlockOf(icache_addr)
        /\ icache'.beat_cnt = 0 /\ icache'.data = icache.data
        /\ icache' = [state |-> icache'.state, block |-> icache'.block,
                      beat_cnt |-> icache'.beat_cnt, ar_done |-> icache'.ar_done,
                      data |-> icache'.data]
    BY <1>4, <1>8 DEF Lookup
  <2>2. BlockOf(icache_addr) \in Blocks
    BY FetchAddress, PlaceOf
  <2>3. RefillHeld'
    BY <2>1 DEF RefillHeld, Beats
  <2>4. line' = Kept(f)
    BY <1>8 DEF Lookup
  <2> QED BY <1>5, <1>6, <1>7, <2>1, <2>2, <2>3, <2>4
<1>9. CASE Read(f, a)
  <2>1. icache.state = "READ" /\ ~f /\ line' = Kept(f) /\ icache.block \in Blocks
    BY <1>5, <1>9 DEF Read
  <2>2. \A k \in Beats, h \in {0, 1} :
          k < icache.beat_cnt => icache.data[k][h] \in maybe'[HalfAt(icache.block, k, h)]
    <3>1. ASSUME NEW k \in Beats, NEW h \in {0, 1}, k < icache.beat_cnt
          PROVE  icache.data[k][h] \in maybe'[HalfAt(icache.block, k, h)]
      <4>1. Held(icache.data, icache.block, k)
        BY <2>1, <3>1 DEF Fresh, RefillHeld
      <4> QED BY <1>1, <2>1, <4>1, HeldStays
    <3> QED BY <3>1
  <2>3. CASE icache'.state = "READ" /\ icache'.block = icache.block
             /\ icache'.beat_cnt = icache.beat_cnt /\ icache'.data = icache.data
    <3>1. RefillHeld'
      BY <2>2, <2>3 DEF RefillHeld, Held
    <3>2. icache' = [state |-> icache'.state, block |-> icache'.block,
                     beat_cnt |-> icache'.beat_cnt, ar_done |-> icache'.ar_done,
                     data |-> icache'.data]
      BY <1>4, <1>9 DEF Read
    <3> QED BY <1>5, <1>7, <2>1, <2>3, <3>1, <3>2
  <2>4. CASE a /\ icache.ar_done
    <3> DEFINE c == icache.beat_cnt
    <3>1. /\ icache'.block = icache.block /\ icache'.beat_cnt = (c + 1) % BEATS_PER_BLOCK
          /\ icache'.data = [icache.data EXCEPT ![c] = Word(icache.block, c)]
          /\ icache'.state = IF c = BEATS_PER_BLOCK - 1 THEN "FILL" ELSE "READ"
          /\ icache' = [state |-> icache'.state, block |-> icache'.block,
                        beat_cnt |-> icache'.beat_cnt, ar_done |-> icache'.ar_done,
                        data |-> icache'.data]
      BY <1>4, <1>9, <2>4 DEF Read
    <3>2. c \in Nat /\ c < BEATS_PER_BLOCK
      BY <1>5, <1>6 DEF Beats
    <3>3. icache'.data = [k \in Beats |-> icache'.data[k]]
      BY <1>5, <3>1
    <3>4. \A h \in {0, 1} : icache'.data[c][h] \in maybe'[HalfAt(icache.block, c, h)]
      <4>1. ASSUME NEW h \in {0, 1}
            PROVE  icache'.data[c][h] \in maybe'[HalfAt(icache.block, c, h)]
        <5>1. HalfAt(icache.block, c, h) \in Addresses
          BY <1>5, <2>1, HalfAtType
        <5>2. icache'.data[c][h] = mem[HalfAt(icache.block, c, h)]
          BY <1>5, <3>1 DEF Word
        <5> QED BY <1>1, <2>1, <5>1, <5>2 DEF Fresh, MemoryHeld
      <4> QED BY <4>1
    <3>5. \A k \in Beats, h \in {0, 1} :
            k <= c => icache'.data[k][h] \in maybe'[HalfAt(icache.block, k, h)]
      <4>1. ASSUME NEW k \in Beats, NEW h \in {0, 1}, k <= c
            PROVE  icache'.data[k][h] \in maybe'[HalfAt(icache.block, k, h)]
        <5>1. k = c \/ k < c
          BY <3>2, <4>1 DEF Beats
        <5>2. k # c => icache'.data[k] = icache.data[k]
          BY <1>5, <3>1
        <5> QED BY <2>2, <3>4, <5>1, <5>2
      <4> QED BY <4>1
    <3>6. /\ c = BEATS_PER_BLOCK - 1 => icache'.beat_cnt = 0 /\ \A k \in Beats : k <= c
          /\ c # BEATS_PER_BLOCK - 1 =>
               icache'.beat_cnt = c + 1 /\ c + 1 \in Beats
               /\ \A k \in Beats : k < c + 1 => k <= c
      BY <1>6, <3>1, <3>2 DEF Beats
    <3>7. RefillHeld' /\ icache'.beat_cnt \in Beats
      BY <1>6, <3>1, <3>5, <3>6 DEF RefillHeld, Held
    <3> QED BY <1>7, <2>1, <3>1, <3>3, <3>7
  <2>5. ~(a /\ icache.ar_done) =>
          /\ icache'.state = "READ" /\ icache'.block = icache.block
          /\ icache'.beat_cnt = icache.beat_cnt /\ icache'.data = icache.data
    BY <1>4, <1>9, <2>1 DEF Read
  <2> QED BY <2>3, <2>4, <2>5
<1>10. CASE Fill(f)
  <2>1. icache.state = "FILL" /\ ~f /\ icache.block \in Blocks
    BY <1>5, <1>10 DEF Fill
  <2>2. icache' = [icache EXCEPT !.state = "IDLE"]
    BY <1>10 DEF Fill
  <2>3. /\ icache'.state = "IDLE" /\ icache'.beat_cnt = icache.beat_cnt
        /\ icache'.data = icache.data
        /\ icache' = [state |-> icache'.state, block |-> icache'.block,
                      beat_cnt |-> icache'.beat_cnt, ar_done |-> icache'.ar_done,
                      data |-> icache'.data]
    BY <1>4, <2>2
  <2>4. line' = [Kept(f) EXCEPT ![IndexOf(icache.block)] =
                   [valid |-> TRUE, block |-> icache.block, data |-> icache.data]]
    BY <1>10 DEF Fill
  <2>5. \A k \in Beats, h \in {0, 1} :
          icache.data[k][h] \in maybe'[HalfAt(icache.block, k, h)]
    <3>1. \A k \in Beats : Held(icache.data, icache.block, k)
      BY <2>1 DEF Fresh, RefillHeld
    <3> QED BY <1>1, <2>1, <3>1, HeldStays
  <2>6. /\ line' = [i \in Lines |-> [valid |-> line'[i].valid, block |-> line'[i].block,
                                     data |-> line'[i].data]]
        /\ \A i \in Lines : line'[i].valid \in BOOLEAN
    BY <1>2, <1>3, <2>4
  <2>7. LinesHeld'
    BY <1>2, <1>3, <2>1, <2>4, <2>5 DEF LinesHeld, Held
  <2>8. RefillHeld'
    BY <2>3 DEF RefillHeld
  <2> QED BY <1>5, <2>3, <2>6, <2>7, <2>8
<1> QED BY <1>8, <1>9, <1>10 DEF IcacheClock

(* The first half of an instruction is as fresh as the line it came from,  *)
(* and belongs to the address fetch still stands at.                       *)
LEMMA HalfStep ==
  ASSUME Fresh, pc \in Addresses, QuietFence, NEW f \in BOOLEAN, NEW b, NEW w,
         f => MayFence, IfuClock(f, b), MemoryClock(f, w)
  PROVE  HalfHeld' /\ cross_buf' = [valid |-> cross_buf'.valid, data |-> cross_buf'.data]
<1>1. cross_buf = [valid |-> cross_buf.valid, data |-> cross_buf.data]
  BY DEF Fresh, CacheShape
<1>2. ~f => \A x \in Addresses : maybe[x] \subseteq maybe'[x]
  BY MemoryStep
<1>3. CASE cross_buf' = [valid |-> FALSE, data |-> 0]
  BY <1>3 DEF HalfHeld
<1>4. CASE cross_buf' = [cross_buf EXCEPT !.valid = FALSE]
  BY <1>1, <1>4 DEF HalfHeld
<1>5. CASE pc' = pc /\ cross_buf' = cross_buf
  <2>1. cross_buf.valid => ~f
    BY DEF MayFence, HalfDone
  <2> QED BY <1>1, <1>2, <1>5, <2>1 DEF Fresh, HalfHeld
<1>6. CASE /\ pc' = pc /\ hit(f) /\ is_cross_32_first_beat
           /\ cross_buf' = [valid |-> TRUE, data |-> current_half]
  <2>1. pc % 2 = 1 /\ current_half \in WideBits /\ icache_addr = pc
    BY <1>6 DEF is_cross_32_first_beat, icache_addr
  <2>2. current_half \in maybe[pc]
    BY <1>6, <2>1, HitHeld, PlaceOf DEF Fresh, current_half
  <2>3. ~f
    BY <1>6 DEF hit
  <2> QED BY <1>2, <1>6, <2>1, <2>2, <2>3 DEF HalfHeld
<1> QED BY <1>3, <1>4, <1>5, <1>6 DEF IfuClock

LEMMA FreshStep ==
  ASSUME QuietFence, pc \in Addresses, Fresh, [Next]_vars
  PROVE  Fresh'
<1>1. CASE Next
  <2>1. PICK b \in Guesses, target \in Addresses,
             r, m, f, a \in BOOLEAN, w \in SUBSET Stores :
          (f => MayFence) /\ Edge(b, r, m, target, f, a, w)
    BY <1>1, StepIsEdge
  <2>2. IfuClock(f, b) /\ IcacheClock(f, a) /\ MemoryClock(f, w)
    BY <2>1 DEF Edge
  <2>3. MemoryHeld'
    BY <2>2, MemoryStep
  <2> QED
    BY <2>1, <2>2, <2>3, HalfStep, CacheStep DEF Fresh, CacheShape
<1>2. CASE UNCHANGED vars
  BY <1>2 DEF vars, fetchVars, cacheVars, Fresh, CacheShape, LinesHeld, RefillHeld, HalfHeld,
     MemoryHeld, Held
<1> QED
  BY <1>1, <1>2

(* Whatever is stored, refilled, redirected or fenced, an instruction is   *)
(* put together from its own half-words, none of them older than the last  *)
(* fence.i, if a fence.i waits for the fetch that is half done (icache.v,  *)
(* ifu.v: cross_buf).                                                      *)
THEOREM SpecInstructionsAreWhole ==
  ASSUME QuietFence
  PROVE  Spec => []InstructionsAreWhole
<1>1. Init => Fresh
  BY FreshInit
<1>2. OnPath /\ Fresh /\ [Next]_vars => Fresh'
  BY FreshStep DEF OnPath, PathType
<1>3. OnPath /\ Fresh => InstructionsAreWhole
  BY FreshWhole DEF OnPath, PathType
<1> QED
  BY <1>1, <1>2, <1>3, SpecOnPath, PTL DEF Spec
=============================================================================
