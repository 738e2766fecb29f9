-------------------------------- MODULE KExpr --------------------------------
(***************************************************************************)
(* Dependency expressions of kconfig (tools/kconfig/expr.c): their value   *)
(* and the simplifications made on them before they are ever evaluated.    *)
(* An expression is NULL, a symbol, a comparison of two symbols, or !, &&, *)
(* || of expressions.  "y", "m", "n" are symbols too.  The code works in   *)
(* place on the nodes; here every operator returns the expression it       *)
(* leaves behind.                                                          *)
(***************************************************************************)
EXTENDS KconfigSymbol

expr_alloc_symbol(s)    == [op |-> "sym", s |-> s]
expr_alloc_not(e)       == [op |-> "not", l |-> e]
expr_alloc_two(o, d, e) == [op |-> o, l |-> d, r |-> e]
expr_alloc_comp(o, s, t) == [op |-> o, a |-> s, b |-> t]

expr_alloc_and(d, e) == IF d = NULL THEN e ELSE IF e = NULL THEN d ELSE expr_alloc_two("and", d, e)
expr_alloc_or(d, e)  == IF d = NULL THEN e ELSE IF e = NULL THEN d ELSE expr_alloc_two("or", d, e)

Yes == expr_alloc_symbol("y")
No  == expr_alloc_symbol("n")

IsComparison(e) == e.op \in {"eq", "ne", "ge", "gt", "le", "lt"}
expr_is_yes(e)  == e = NULL \/ e = Yes

-----------------------------------------------------------------------------
(* Values: 0 is n, 1 is m, 2 is y; "curr" gives the tristate and the string *)
(* of every symbol.                                                         *)

\* Two symbols with tristate types compare as numbers, everything else as
\* strings (decimal numbers of one digit compare alike either way).
compare(e, curr) ==
  LET x == sym_get_string_value(e.a, curr)
      y == sym_get_string_value(e.b, curr)
      number(str) == CASE str = "n" -> 0 [] str = "m" -> 1 [] str = "y" -> 2 [] OTHER -> -1
  IN IF TypeIs(e.a, {"bool", "tristate"}) /\ TypeIs(e.b, {"bool", "tristate"})
     THEN number(x) - number(y) ELSE Place(x) - Place(y)

Stands(o, res) == CASE o = "eq" -> res = 0 [] o = "ne" -> res # 0 [] o = "ge" -> res >= 0
                    [] o = "gt" -> res > 0 [] o = "le" -> res <= 0 [] o = "lt" -> res < 0

RECURSIVE expr_calc_value(_, _)
expr_calc_value(e, curr) ==
  CASE e.op = "null" -> 2
    [] e.op = "sym"  -> curr[e.s].tri
    [] e.op = "not"  -> EXPR_NOT(expr_calc_value(e.l, curr))
    [] e.op = "and"  -> EXPR_AND(expr_calc_value(e.l, curr), expr_calc_value(e.r, curr))
    [] e.op = "or"   -> EXPR_OR(expr_calc_value(e.l, curr), expr_calc_value(e.r, curr))
    [] OTHER -> IF Stands(e.op, compare(e, curr)) THEN 2 ELSE 0

-----------------------------------------------------------------------------
(* The operands of a chain of one operator, and the chain put back.        *)

RECURSIVE Operands(_, _)
Operands(e, type) ==
  IF e.op = type THEN Operands(e.l, type) \o Operands(e.r, type) ELSE <<e>>

RECURSIVE Refilled(_, _, _)
Refilled(e, type, leaves) ==
  IF e.op # type THEN leaves[1]
  ELSE LET n == Len(Operands(e.l, type))
       IN expr_alloc_two(type, Refilled(e.l, type, SubSeq(leaves, 1, n)),
                               Refilled(e.r, type, SubSeq(leaves, n + 1, Len(leaves))))

\* What is left of two operands when one is y or n.
without_constants(o, l, r) ==
  LET rules == IF o = "and" THEN No ELSE Yes    \* decides the chain
      drops == IF o = "and" THEN Yes ELSE No    \* falls out of it
  IN CASE l = rules -> rules
       [] l = drops -> r
       [] l \notin {Yes, No} /\ r = rules -> rules
       [] l \notin {Yes, No} /\ r = drops -> l
       [] OTHER -> expr_alloc_two(o, l, r)

\* The constants y and n taken out of && and ||, from the leaves up.
RECURSIVE expr_eliminate_yn(_)
expr_eliminate_yn(e) ==
  IF e.op \notin {"and", "or"} THEN e
  ELSE without_constants(e.op, expr_eliminate_yn(e.l), expr_eliminate_yn(e.r))

RECURSIVE expr_eq(_, _), expr_eliminate_eq(_, _), each_pair(_, _, _)

\* Every operand of one chain against every operand of the other, from the
\* k-th pair on; two equal ones both become the constant that falls out.
each_pair(type, pair, k) ==
  LET gone == IF type = "or" THEN No ELSE Yes
      i    == (k \div Len(pair[2])) + 1
      j    == (k % Len(pair[2])) + 1
      drop(x, y) == ~(x = y /\ x \in {Yes, No}) /\ expr_eq(x, y)
  IN IF k = Len(pair[1]) * Len(pair[2]) THEN pair
     ELSE each_pair(type, IF drop(pair[1][i], pair[2][j])
                          THEN <<[pair[1] EXCEPT ![i] = gone], [pair[2] EXCEPT ![j] = gone]>> ELSE pair,
                    k + 1)

eliminate_eq_leaves(type, d, e) ==
  LET both(pair) == <<Refilled(d, type, pair[1]), Refilled(e, type, pair[2])>>
  IN both(each_pair(type, <<Operands(d, type), Operands(e, type)>>, 0))

\* The operands common to both, taken out of both.
expr_eliminate_eq(d, e) ==
  LET first    == IF d.op \in {"and", "or"} THEN eliminate_eq_leaves(d.op, d, e) ELSE <<d, e>>
      second(p) == IF p[1].op # p[2].op /\ p[2].op \in {"and", "or"}
                   THEN eliminate_eq_leaves(p[2].op, p[1], p[2]) ELSE p
      tidied(p) == <<expr_eliminate_yn(p[1]), expr_eliminate_yn(p[2])>>
  IN IF d = NULL \/ e = NULL THEN <<d, e>> ELSE tidied(second(first))

one_symbol(p) == p[1].op = "sym" /\ p[1] = p[2]

\* Equal up to the order of operands: nothing is left but one same symbol.
expr_eq(d, e) ==
  CASE d = NULL \/ e = NULL -> expr_is_yes(d) /\ expr_is_yes(e)
    [] d # NULL /\ e # NULL /\ d.op # e.op -> FALSE
    [] OTHER -> CASE d.op = "not" -> expr_eq(d.l, e.l)
                  [] d.op \in {"and", "or"} -> one_symbol(expr_eliminate_eq(d, e))
                  [] OTHER -> d = e

-----------------------------------------------------------------------------
(* Two operands of a chain made one.                                       *)

\* The symbol an operand is about, if it is one that can be joined.
JoinSymbol(e, negated) ==
  CASE e.op = "sym" -> <<e.s>>
    [] e.op \in {"eq", "ne"} -> <<e.a>>
    [] e.op = "not" /\ e.l.op = "sym" -> <<e.l.s>>
    [] e.op = "not" /\ e.l.op \in {"eq", "ne"} /\ negated -> <<e.l.a>>
    [] OTHER -> <<>>

Joinable(d, e) ==
  /\ JoinSymbol(d, TRUE) # <<>> /\ JoinSymbol(d, TRUE) = JoinSymbol(e, FALSE)
  /\ TypeIs(Head(JoinSymbol(d, TRUE)), {"bool", "tristate"})

AreCompared(d, e, o, pair) == d.op = o /\ e.op = o /\ {d.b, e.b} = pair

Third(pair) == CHOOSE t \in {"y", "m", "n"} : t \notin pair

\* A version that also joins a tristate with its negation.
expr_join_or_any_type(d, e) ==
  LET s == Head(JoinSymbol(d, TRUE)) IN
  IF expr_eq(d, e) THEN d
  ELSE IF Joinable(d, e) /\ {d, e} = {expr_alloc_symbol(s), expr_alloc_not(expr_alloc_symbol(s))}
       THEN Yes ELSE NULL

\* d || e as one operand, or NULL.
expr_join_or(d, e) ==
  LET s == Head(JoinSymbol(d, TRUE))
      pairs == {p \in SUBSET {"y", "m", "n"} : AreCompared(d, e, "eq", p)}
  IN IF expr_eq(d, e) THEN d
     ELSE IF ~Joinable(d, e) THEN NULL
     ELSE   CASE Type[s] = "tristate" /\ \E p \in pairs : d.b # e.b ->
                   expr_alloc_comp("ne", s, Third({d.b, e.b}))
              [] Type[s] = "bool" /\ {d, e} = {expr_alloc_symbol(s), expr_alloc_not(expr_alloc_symbol(s))} -> Yes
              [] OTHER -> NULL

\* d && e as one operand, or NULL: a symbol with a comparison of itself, and
\* two comparisons of one tristate with constants.
expr_join_and(d, e) ==
  LET s == Head(JoinSymbol(d, TRUE))
      with(o, t) == {d, e} = {expr_alloc_symbol(s), expr_alloc_comp(o, s, t)}
      Const(t) == t \in {"y", "m", "n"}
      equal(x, z) == IF x.b # z.b THEN expr_alloc_comp("eq", s, x.b) ELSE No
  IN IF expr_eq(d, e) THEN d
     ELSE IF ~Joinable(d, e) THEN NULL
     ELSE   CASE with("eq", "y") \/ with("ne", "m") -> expr_alloc_comp("eq", s, "y")
              [] with("ne", "n") -> expr_alloc_symbol(s)
              [] Type[s] = "tristate" /\ d.op = "eq" /\ e.op = "ne" /\ Const(d.b) /\ Const(e.b) -> equal(d, e)
              [] Type[s] = "tristate" /\ d.op = "ne" /\ e.op = "eq" /\ Const(d.b) /\ Const(e.b) -> equal(e, d)
              [] Type[s] = "tristate" /\ d.op = "ne" /\ e.op = "ne" /\ Const(d.b) /\ Const(e.b) /\ d.b # e.b ->
                   expr_alloc_comp("eq", s, Third({d.b, e.b}))
              [] OTHER -> NULL

\* Every operand of a chain against every other one, in both orders.  A chain
\* of the other operator is first worked on by itself, each time it is met.
\* Returned with the number of joins made.
RECURSIVE expr_eliminate_dups1(_, _), each_join(_, _, _)

\* The pairs from the k-th on, of the operands and the count reached.
each_join(type, st, k) ==
  LET n == Len(st.leaves)
      i == (k \div n) + 1
      j == (k % n) + 1
      inner(x) == IF x.op \in {"and", "or"} THEN expr_eliminate_dups1(x.op, x) ELSE [e |-> x, count |-> 0]
      join(x, y) == IF type = "or" THEN expr_join_or(x, y) ELSE expr_join_and(x, y)
      put(in, made) ==
        IF made = NULL
        THEN [leaves |-> [st.leaves EXCEPT ![i] = in.e], count |-> st.count + in.count]
        ELSE [leaves |-> [st.leaves EXCEPT ![i] = IF type = "or" THEN No ELSE Yes, ![j] = made],
              count  |-> st.count + in.count + 1]
      joined(in) == put(in, join(in.e, st.leaves[j]))
  IN IF k = n * n THEN st
     ELSE each_join(type, IF i = j THEN st ELSE joined(inner(st.leaves[i])), k + 1)

expr_eliminate_dups1(type, e) ==
  LET refilled(st) == [e |-> Refilled(e, type, st.leaves), count |-> st.count]
  IN refilled(each_join(type, [leaves |-> Operands(e, type), count |-> 0], 0))

\* Passes over the expression until one joins nothing.
RECURSIVE expr_eliminate_dups(_)
expr_eliminate_dups(e) ==
  LET next(pass) == IF pass.count = 0 THEN pass.e ELSE expr_eliminate_dups(expr_eliminate_yn(pass.e))
  IN IF e.op \in {"and", "or"} THEN next(expr_eliminate_dups1(e.op, e)) ELSE e

-----------------------------------------------------------------------------
(* Rewriting.                                                              *)

Opposite(o) == CASE o = "eq" -> "ne" [] o = "ne" -> "eq" [] o = "le" -> "gt" [] o = "ge" -> "lt"
                 [] o = "lt" -> "ge" [] o = "gt" -> "le"

\* A comparison of a boolean with a constant: "yes" is what it comes to
\* when it holds.
BooleanTest(e) ==
  LET s == expr_alloc_symbol(e.a)
      holds == CASE e.b = "y" -> s [] e.b = "n" -> expr_alloc_not(s) [] e.b = "m" -> No
      fails == CASE e.b = "y" -> expr_alloc_not(s) [] e.b = "n" -> s [] e.b = "m" -> Yes
  IN IF e.op = "eq" THEN holds ELSE fails

RECURSIVE expr_transform(_), transform_not(_)

\* The negation of what is already transformed, pushed to the leaves.
transform_not(e) ==
  CASE e.l.op = "not" -> expr_transform(e.l.l)
    [] IsComparison(e.l) -> [e.l EXCEPT !.op = Opposite(@)]
    [] e.l.op \in {"and", "or"} ->
         expr_transform(expr_alloc_two(IF e.l.op = "or" THEN "and" ELSE "or",
                                       expr_alloc_not(e.l.l), expr_alloc_not(e.l.r)))
    [] e.l = Yes -> No
    [] e.l = No -> Yes
    [] e.l = expr_alloc_symbol("m") -> e.l
    [] OTHER -> e

expr_transform(e) ==
  CASE e.op \in {"eq", "ne"} ->
         IF TypeIs(e.a, {"bool"}) /\ e.b \in {"y", "m", "n"} THEN BooleanTest(e) ELSE e
    [] e.op = "not" -> transform_not(expr_alloc_not(expr_transform(e.l)))
    [] e.op \in {"and", "or"} -> expr_alloc_two(e.op, expr_transform(e.l), expr_transform(e.r))
    [] OTHER -> e

\* For what only asks whether a condition is n: FOO!=n is FOO.
RECURSIVE expr_trans_bool(_)
expr_trans_bool(e) ==
  CASE e.op \in {"and", "or"} -> expr_alloc_two(e.op, expr_trans_bool(e.l), expr_trans_bool(e.r))
    [] e.op = "not" -> expr_alloc_not(expr_trans_bool(e.l))
    [] e.op = "ne" /\ TypeIs(e.a, {"tristate"}) /\ e.b = "n" -> expr_alloc_symbol(e.a)
    [] OTHER -> e

RECURSIVE expr_contains_symbol(_, _)
expr_contains_symbol(e, s) ==
  CASE e.op \in {"and", "or"} -> expr_contains_symbol(e.l, s) \/ expr_contains_symbol(e.r, s)
    [] e.op = "not" -> expr_contains_symbol(e.l, s)
    [] e.op = "sym" -> e.s = s
    [] IsComparison(e) -> s \in {e.a, e.b}
    [] OTHER -> FALSE

\* Whether the expression can only hold when s is not n.
RECURSIVE expr_depends_symbol(_, _)
expr_depends_symbol(e, s) ==
  CASE e.op = "and" -> expr_depends_symbol(e.l, s) \/ expr_depends_symbol(e.r, s)
    [] e.op = "sym" -> e.s = s
    [] e.op = "eq"  -> e.a = s /\ e.b \in {"y", "m"}
    [] e.op = "ne"  -> e.a = s /\ e.b = "n"
    [] OTHER -> FALSE

\* "e = sym" or "e # sym" (o is "eq" or "ne") with the comparison at the leaves.
RECURSIVE expr_trans_compare(_, _, _)
expr_trans_compare(e, o, s) ==
  LET unless(d) == IF o = "ne" THEN expr_alloc_not(d) ELSE d
      chain(op) == unless(expr_alloc_two(IF s = "y" THEN op ELSE IF op = "and" THEN "or" ELSE "and",
                            expr_trans_compare(e.l, "eq", s), expr_trans_compare(e.r, "eq", s)))
  IN CASE e.op = "null" -> unless(expr_alloc_symbol(s))
       [] e.op \in {"and", "or"} -> chain(e.op)
       [] e.op = "not" -> expr_trans_compare(e.l, IF o = "eq" THEN "ne" ELSE "eq", s)
       [] e.op = "sym" -> expr_alloc_comp(o, e.s, s)
       [] OTHER -> CASE s = "m" -> IF o = "eq" THEN No ELSE Yes
                     [] s # "m" /\ (s = "y") = (o = "eq") -> e
                     [] OTHER -> expr_alloc_not(e)
=============================================================================
