----------------------------- MODULE FetchStream ----------------------------
(***************************************************************************)
(* What instruction fetch promises to the rest of the core, without cache, *)
(* buffers or predictor: one instruction after another along a path. Each  *)
(* carries the address the path continues at, its prediction; a redirection*)
(* starts a new path, and nothing of the old one is seen after it. One step*)
(* is one clock edge.                                                      *)
(***************************************************************************)
EXTENDS Naturals

CONSTANTS
  Addresses,  (* of instructions *)
  Start       (* where the first path begins *)

VARIABLES
  next,  (* the address the instruction after this one must have *)
  stage  (* what the decode stage shows: {} or one [pc, dnpc] *)

vars == <<next, stage>>

Init == next = Start /\ stage = {}

(* The next instruction of the path enters the decode stage. *)
Deliver ==
  /\ next' \in Addresses
  /\ stage' = {[pc |-> next, dnpc |-> next']}

(* The one there has left, none has come. *)
Starve == stage' = {} /\ next' = next

(* The instruction in the stage turns out to be mispredicted. *)
Redirect ==
  /\ stage # {}
  /\ next' \in Addresses
  /\ stage' = {}

Next == Deliver \/ Starve \/ Redirect

Spec == Init /\ [][Next]_vars
=============================================================================
