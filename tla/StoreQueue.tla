----------------------------- MODULE StoreQueue -----------------------------
(***************************************************************************)
(* What the store buffer promises to the load/store unit, without slots,   *)
(* pointers or valid bits: a bounded queue of stores in program order. The *)
(* oldest `safe' of them are committed and may be written to memory, oldest*)
(* first. The others are speculative: a flush drops all of them and        *)
(* nothing else. One step is one clock edge, and in one edge a store may   *)
(* leave, another may become safe, and the tail may grow or be squashed.   *)
(***************************************************************************)
EXTENDS Naturals, Sequences

CONSTANTS
  Stores,   (* the stores a program may issue *)
  Capacity  (* how many of them may be pending *)

VARIABLES
  pending,  (* the stores that have not reached memory, oldest first *)
  safe      (* how many of the oldest are committed *)

vars == <<pending, safe>>

(***************************************************************************)
(* What one edge may do at the old end: `left' committed stores leave and  *)
(* `settled' more become committed, at most one of each.                   *)
(***************************************************************************)
Advance(left, settled) ==
  /\ left <= safe
  /\ safe + settled <= Len(pending)
  /\ safe' = safe + settled - left

(* Nothing happens at the young end. *)
Hold ==
  \E left, settled \in 0..1 :
    /\ Advance(left, settled)
    /\ pending' = SubSeq(pending, left + 1, Len(pending))

(* A new, speculative store is accepted. *)
Accept ==
  \E left, settled \in 0..1, s \in Stores :
    /\ Len(pending) < Capacity
    /\ Advance(left, settled)
    /\ pending' = Append(SubSeq(pending, left + 1, Len(pending)), s)

(* A flush: exactly the stores that are not committed at this edge vanish. *)
Squash ==
  \E left, settled \in 0..1 :
    /\ Advance(left, settled)
    /\ pending' = SubSeq(pending, left + 1, safe + settled)

Init == pending = <<>> /\ safe = 0

Next == Hold \/ Accept \/ Squash

Spec == Init /\ [][Next]_vars

(* The youngest pending store that writes this byte, 0 when there is none. *)
Youngest(word, lane) ==
  LET writers == {i \in 1..Len(pending) : /\ pending[i].word = word
                                          /\ lane \in pending[i].wstrb}
  IN  IF writers = {} THEN 0
      ELSE CHOOSE i \in writers : \A j \in writers : j <= i
=============================================================================
