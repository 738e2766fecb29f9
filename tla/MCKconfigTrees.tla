--------------------------- MODULE MCKconfigTrees ---------------------------
(* A tristate A and two booleans B and C. *)
EXTENDS KconfigTrees

MCType == [A |-> "tristate", B |-> "bool", C |-> "bool"]
MCStrings == <<"m", "n", "y">>

S(s) == expr_alloc_symbol(s)
Tests(s) == {expr_alloc_comp(o, s, t) : o \in {"eq", "ne"}, t \in {"y", "m", "n"}}
MCLeaves == {Yes, No, S("m"), S("A"), S("B"), expr_alloc_not(S("A")), expr_alloc_not(S("B"))}
              \cup Tests("A") \cup {expr_alloc_comp("eq", "B", t) : t \in {"y", "n"}}
              \cup {expr_alloc_comp("ne", "B", "n")}
MCOrder == <<"B", "A", "C">>

And(d, e) == expr_alloc_two("and", d, e)
Or(d, e)  == expr_alloc_two("or", d, e)
OnB == {NULL, S("B"), expr_alloc_not(S("B"))}
MCDepsOf ==
  [B |-> {NULL}, A |-> OnB,
   C |-> {NULL, S("A"), expr_alloc_not(S("A")), expr_alloc_comp("eq", "A", "m"), Or(S("A"), S("B")),
          And(Or(S("A"), expr_alloc_not(S("A"))), S("B")), Or(And(S("A"), S("B")), S("B")), Or(expr_alloc_not(S("B")), Yes)}]
=============================================================================
