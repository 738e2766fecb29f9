---------------------------- MODULE KconfigTrees ----------------------------
(***************************************************************************)
(* Kconfig files, written piece by piece, and what expr.c and menu.c make  *)
(* of them: a dependency grows operand by operand, a menu entry by entry.  *)
(* Every simplification made before the first value is asked for has to    *)
(* leave the meaning of the file alone.                                    *)
(***************************************************************************)
EXTENDS KconfigMenu

CONSTANTS Leaves,        \* the operands a dependency grows by
          MaxOperands,   \* how many it has at most
          Order,         \* the symbols in the order of their entries
          DepsOf         \* what the entry of each may depend on

VARIABLES expr,     \* the dependency
          operands, \* how many operands it has
          written   \* the entries

vars == <<expr, operands, written>>

Init == expr \in Leaves /\ operands = 1 /\ written = <<>>

\* The expression gets an operand, on either side, or a negation.
Grow ==
  /\ written = <<>> /\ operands < MaxOperands
  /\ \E leaf \in Leaves, op \in {"and", "or"} :
       \/ expr' = expr_alloc_two(op, expr, leaf)
       \/ expr' = expr_alloc_two(op, leaf, expr)
  /\ operands' = operands + 1
  /\ UNCHANGED written

Negate ==
  /\ written = <<>> /\ operands < MaxOperands /\ expr.op \in {"and", "or"}
  /\ expr' = expr_alloc_not(expr)
  /\ UNCHANGED <<operands, written>>

Symbols(list) == {m.sym : m \in Range(Entries(list))} \ {Empty}

\* The entry of the next symbol: it depends on "dep", and its prompt has a
\* condition of its own, or there is none.
WriteEntry ==
  /\ operands = 1 /\ expr = Yes
  /\ LET n == Cardinality(Symbols(written)) + 1 IN
     /\ n <= Len(Order)
     /\ \E dep \in DepsOf[Order[n]], prompt \in {NULL, NoPrompt} :
          written' = Append(written, Entry(Order[n], prompt, dep, <<>>, <<>>))
  /\ UNCHANGED <<expr, operands>>

\* The last two entries stand in an "if" or in a menu of their own.
WriteBlock ==
  /\ Len(written) >= 3 /\ \A m \in Range(written) : m.list = <<>>
  /\ \E dep \in DepsOf[Order[2]], prompt \in {NULL, NoPrompt} :
       written' = Append(SubSeq(written, 1, Len(written) - 2),
                         [Menu("block", SubSeq(written, Len(written) - 1, Len(written)))
                            EXCEPT !.prompt = prompt, !.dep = dep])
  /\ UNCHANGED <<expr, operands>>

Next == Grow \/ Negate \/ WriteEntry \/ WriteBlock

Spec == Init /\ [][Next]_vars

-----------------------------------------------------------------------------
Finished == menu_finalize(Menu("root", written), <<>>).menu.list

\* The values the symbols of an expression can have.
Mentioned == {s \in Range(Order) : \E leaf \in Leaves : expr_contains_symbol(leaf, s)}
Assignments(modules) ==
  {c \in [Mentioned -> 0 .. 2] :
     \A s \in Mentioned : c[s] = 1 => Type[s] = "tristate" /\ modules = 2}
Assigned(c, modules) ==
  [s \in DOMAIN NoValues(modules) \cup DOMAIN c |->
     IF s \in DOMAIN c THEN Constant(c[s]) ELSE NoValues(modules)[s]]

\* An expression and all it is made of.
RECURSIVE Parts(_)
Parts(e) ==
  CASE e.op \in {"and", "or"} -> {e} \cup Parts(e.l) \cup Parts(e.r)
    [] e.op = "not" -> {e} \cup Parts(e.l)
    [] OTHER -> {e}

TestsForM(e) == \E x \in Parts(e) : IsComparison(x) /\ x.b = "m"
Negates(e)   == \E x \in Parts(e) : x.op = "not"

\* Whatever the symbols turn out to be, a dependency means the same after
\* expr_transform, expr_eliminate_dups and expr_eliminate_yn, and
\* expr_trans_bool and expr_trans_compare keep whether it is n, the one with
\* n being y exactly when it is not (the rewriting rules of expr.c:312-985).
\* A comparison with m, written or put in by a join, counts only when there
\* are modules: without them m has the name of n, and A=y || A=n, joined to
\* A!=m, fails when A is n; so is m itself for expr_trans_compare, which makes
\* it m!=n.  expr_trans_compare turns !A != n into A = n, which fails when A
\* is m (expr.c:953): with modules it is asked for dependencies without
\* negations only.
SimplificationsKeepValue ==
  LET changed  == expr_transform(expr)
      single   == expr_eliminate_dups(changed)
      untidy   == expr_eliminate_dups(expr)
      plain    == expr_eliminate_yn(expr)
      boolean  == expr_trans_bool(single)
      isnt_n   == expr_trans_compare(expr, "ne", "n")
      tidied   == expr_eliminate_dups(expr_transform(isnt_n))
      testsM   == \E e \in {expr, single, untidy, tidied} : TestsForM(e)
  IN \A modules \in {0, 2} : (modules = 0 => ~testsM) =>
       \A c \in Assignments(modules) :
         LET curr == Assigned(c, modules)
             value(e) == expr_calc_value(e, curr)
         IN /\ value(changed) = value(expr)
            /\ value(single) = value(expr)
            /\ value(untidy) = value(expr)
            /\ value(plain) = value(expr)
            /\ value(boolean) # 0 <=> value(expr) # 0
            /\ (IF modules = 0 THEN expr_alloc_symbol("m") \notin Parts(expr) ELSE ~Negates(expr)) =>
                 \A e \in {isnt_n, tidied} : value(e) = IF value(expr) # 0 THEN 2 ELSE 0

\* The condition an entry is written under, blocks included.
RECURSIVE WrittenUnder(_, _)
WrittenUnder(list, outer) ==
  IF list = <<>> THEN <<>>
  ELSE LET m == Head(list)
           e == expr_alloc_and(outer, m.dep)
       IN <<[id |-> m.id, prompt |-> m.prompt, cond |-> expr_alloc_and(e, m.prompt)]>>
          \o WrittenUnder(m.list, e) \o WrittenUnder(Tail(list), outer)

\* The entries the menus list: the ones below an entry only if it is listed.
Listed(tree, curr) ==
  {m.id : m \in {x \in Range(tree) : /\ VisibleNow(x, curr) # 0
                                    /\ \A y \in Range(tree) : Inside(x, y) => menu_is_visible(y, tree, curr)}}

\* Menus, "if" blocks and the submenus that menu_finalize makes of entries
\* that depend on the one before hide nothing and show nothing more: what is
\* listed is what its own conditions and those it is written under let show,
\* whatever the user said (menu.c:306-583).
NothingShownIsLost ==
  LET due(curr) == {w.id : w \in {x \in Range(WrittenUnder(written, NULL)) :
                                    x.prompt # NoPrompt /\ expr_calc_value(x.cond, curr) # 0}}
      rightly(list, curr) == Listed(Placed(list, <<>>), curr) = due(curr)
      said(syms, tri) == [has |-> [s \in Range(syms) |-> TRUE], tri |-> tri, val |-> [s \in Range(syms) |-> Empty]]
      whatever(list, syms, db) ==
        \A tri \in {f \in [Range(syms) -> 0 .. 2] : \A s \in Range(syms) : f[s] = 1 => Type[s] = "tristate"} :
          rightly(list, Values(syms, db, said(syms, tri), 2))
      always(list) ==
        LET syms == SelectSeq(Order, LAMBDA s : s \in Symbols(list))
        IN whatever(list, syms, [s \in Range(syms) |-> symbol(list, s)])
  IN written # <<>> => always(Finished)
=============================================================================
