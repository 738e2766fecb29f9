------------------------------ MODULE MCIFetch ------------------------------
(* Instance of IFetch for TLC. Each half-word starts out with a content of *)
(* its own, 1 + its address; the others are what a store may leave.        *)
EXTENDS IFetch

MCBits == 0..20
MCCode == [a \in Addresses |-> 1 + a]

(* The 32-bit instructions are the one at 0, within a word, the one at 5,  *)
(* and, until a store makes it compressed, the one at 3, across two lines. *)
MCWide == {1, 4, 6}

MCStores == {[at |-> 3, bits |-> 20]}
=============================================================================
