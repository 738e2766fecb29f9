--------------------------- MODULE MCStoreBuffer ----------------------------
(* Instance of StoreBuffer for TLC. *)
EXTENDS StoreBuffer

CONSTANTS w1, w2

MCWords == {w1, w2}
MCLanes == {0, 1}

(* A byte store, a word store to the same word, a byte store elsewhere. *)
MCStores == {[word |-> w1, wstrb |-> {0}, data |-> 1],
             [word |-> w1, wstrb |-> {0, 1}, data |-> 2],
             [word |-> w2, wstrb |-> {1}, data |-> 3]}
=============================================================================
