------------------------------ MODULE MCMemPath -----------------------------
(* Instances of MemPath for TLC. *)
EXTENDS MemPath

CONSTANTS w1, w2

MCLanes == {0, 1}
MCData == 0..2

(* A byte store, and a word store that covers it. *)
MCStores == {[word |-> w1, wstrb |-> {0}, data |-> 1],
             [word |-> w1, wstrb |-> {0, 1}, data |-> 2]}

(* One store: enough where only progress is asked. *)
MCOneLane == {0}
MCOneStore == {[word |-> w1, wstrb |-> {0}, data |-> 1]}
=============================================================================
