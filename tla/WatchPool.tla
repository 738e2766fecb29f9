------------------------------ MODULE WatchPool ------------------------------
(* The pool of watchpoints (watchpoint.cpp): NR_WP cells in two doubly linked *)
(* lists, the watchpoints in use and the free ones, and the commands w and d  *)
(* (sdb.cpp) on it.  A pool is a record, so that other modules can keep one.  *)
EXTENDS Integers, Sequences, SequencesExt

CONSTANT NR_WP

Null == -1
Cells == 0 .. NR_WP - 1

init_wp_pool ==
    [NO      |-> [w \in Cells |-> w],
     next    |-> [w \in Cells |-> IF w = NR_WP - 1 THEN Null ELSE w + 1],
     prev    |-> [w \in Cells |-> w - 1],
     expr    |-> [w \in Cells |-> "none"],
     old_val |-> [w \in Cells |-> 0],
     head    |-> Null,
     free    |-> 0]

(* The cells reached from w over the next pointers, in that order.            *)
Chain(pool, w) ==
    LET reached[k \in 0..NR_WP] ==
          CASE k = 0 -> IF w = Null THEN <<>> ELSE <<w>>
            [] OTHER -> LET so_far == reached[k - 1] IN
                        IF so_far = <<>> \/ pool.next[Last(so_far)] = Null THEN so_far
                        ELSE Append(so_far, pool.next[Last(so_far)])
    IN reached[NR_WP]

InUse(pool) == Chain(pool, pool.head)

(* The pointer p of cell w, when there is such a cell, set to v.              *)
Link(field, w, v) == IF w = Null THEN field ELSE [field EXCEPT ![w] = v]

update_all_watchpoint_NOs(pool) ==
    LET list == InUse(pool) IN
    [pool EXCEPT !.NO = [w \in Cells |-> IF \E i \in DOMAIN list : list[i] = w
                                         THEN CHOOSE i \in DOMAIN list : list[i] = w
                                         ELSE pool.NO[w]]]

new_wp_no_back_link(pool) ==
    LET w == pool.free IN
    update_all_watchpoint_NOs(
      [pool EXCEPT !.free = pool.next[w],
                   !.next[w] = pool.head,
                   !.prev = [Link(pool.prev, pool.next[w], Null) EXCEPT ![w] = Null],
                   !.head = w])

(* A cell taken from the free list becomes the head of the other one.         *)
new_wp(pool) ==
    LET w == pool.free
        unfree == Link(pool.prev, pool.next[w], Null)
    IN update_all_watchpoint_NOs(
         [pool EXCEPT !.free = pool.next[w],
                      !.next[w] = pool.head,
                      !.prev = Link([unfree EXCEPT ![w] = Null], pool.head, w),
                      !.head = w])

free_wp(pool, w) ==
    LET before == pool.prev[w]
        after  == pool.next[w]
    IN update_all_watchpoint_NOs(
         [pool EXCEPT !.head = IF before = Null THEN after ELSE pool.head,
                      !.next = [Link(pool.next, before, after) EXCEPT ![w] = pool.free],
                      !.prev = Link([Link(pool.prev, after, before) EXCEPT ![w] = Null],
                                    pool.free, w),
                      !.free = w])

(* The command "w": evaluated once to see whether it is an expression, and    *)
(* again for the value to compare with; val[k] is what evaluation k gives.    *)
cmd_w(pool, e, val) ==
    IF pool.free = Null THEN pool
    ELSE LET w == pool.free
             taken == [new_wp(pool) EXCEPT !.expr[w] = e]
         IN IF val[1] = -1 THEN free_wp(taken, w)
            ELSE [taken EXCEPT !.old_val[w] = val[2]]

(* The command "d": the first watchpoint of that number, if there is one.     *)
cmd_d(pool, no) ==
    LET list == InUse(pool)
        hits == {i \in DOMAIN list : pool.NO[list[i]] = no}
    IN IF hits = {} THEN pool
       ELSE free_wp(pool, list[CHOOSE i \in hits : \A j \in hits : i <= j])

(* What "info w" prints.                                                      *)
Listed(pool) ==
    LET list == InUse(pool) IN
    [i \in DOMAIN list |-> [no |-> pool.NO[list[i]], expr |-> pool.expr[list[i]],
                            old_val |-> pool.old_val[list[i]]]]
==============================================================================
