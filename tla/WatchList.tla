------------------------------ MODULE WatchList ------------------------------
(* What the debugger promises of its watchpoints: a list, newest first, of    *)
(* at most NR_WP of them, each with its expression and the value seen last.   *)
(* The number a user gives to "d" is the place in the list.                   *)
EXTENDS Integers, Sequences, SequencesExt

CONSTANTS NR_WP, Exprs, Words

VARIABLE watches

Watch == [no : 1..NR_WP, expr : Exprs, old_val : Words]

Numbered(list) == [i \in DOMAIN list |-> [list[i] EXCEPT !.no = i]]

Init == watches = <<>>

Add(e, v) ==
    /\ Len(watches) < NR_WP
    /\ watches' = Numbered(<<[no |-> 1, expr |-> e, old_val |-> v]>> \o watches)

Delete(i) == watches' = Numbered(RemoveAt(watches, i))

See(i, v) ==
    /\ v # watches[i].old_val
    /\ watches' = [watches EXCEPT ![i].old_val = v]

Next ==
    \/ \E e \in Exprs, v \in Words : Add(e, v)
    \/ \E i \in DOMAIN watches : Delete(i) \/ \E v \in Words : See(i, v)

Spec == Init /\ [][Next]_watches
==============================================================================
