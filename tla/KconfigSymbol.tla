---------------------------- MODULE KconfigSymbol ----------------------------
(***************************************************************************)
(* The values of the configuration symbols (tools/kconfig/symbol.c), and   *)
(* which entries of the menus they let show.  "db" is what the menus say   *)
(* of each symbol, "user" what the user or a file said ("has" is           *)
(* SYMBOL_DEF_USER), and the values follow from both.  The code works a    *)
(* value out when it is first asked for and keeps it until                 *)
(* sym_clear_all_valid; no dependency is circular, so that the values are  *)
(* a function, worked out here along "order".                              *)
(***************************************************************************)
EXTENDS Integers, Sequences, SequencesExt

CONSTANTS Type,            \* the type of every symbol that has one
          Strings,         \* every string value, in the order of strcmp
          ChoiceSymbols,   \* the symbols that stand for a choice
          ExprValue(_, _)  \* the value of an expression: expr_calc_value of KExpr

\* No string, and no symbol.
Empty == ""

ASSUME TypeAssumption ==
  /\ Type \in [DOMAIN Type -> {"bool", "tristate", "int"}]
  /\ DOMAIN Type \subseteq STRING \ {Empty, "y", "m", "n", "MODULES"}
  /\ ChoiceSymbols \subseteq {s \in DOMAIN Type : Type[s] # "int"}

NULL == [op |-> "null"]

TypeIs(s, types) == s \in DOMAIN Type /\ Type[s] \in types
sym_is_choice(s) == s \in ChoiceSymbols

\* A condition that is not there holds.
cond_value(e, curr) == IF e = NULL THEN 2 ELSE ExprValue(e, curr)

EXPR_AND(x, y) == IF x < y THEN x ELSE y
EXPR_OR(x, y)  == IF x > y THEN x ELSE y
EXPR_NOT(x)    == 2 - x

TriString(t) == CASE t = 0 -> "n" [] t = 1 -> "m" [] OTHER -> "y"

Place(str) == CHOOSE i \in DOMAIN Strings : Strings[i] = str

\* The string of a symbol: the tristates have the name of their value, and m
\* is called n when there are no modules.
sym_get_string_value(s, curr) ==
  IF TypeIs(s, {"bool", "tristate"}) \/ s \in {"y", "m", "n"}
  THEN IF curr[s].tri = 1 /\ curr["MODULES"].tri = 0 THEN "n" ELSE TriString(curr[s].tri)
  ELSE curr[s].val

\* The members of a set a list goes through, in the order of the list.
Those(list, set) ==
  LET upto[i \in 0 .. Len(list)] ==
        IF i = 0 THEN <<>>
        ELSE IF list[i] \in set THEN Append(upto[i - 1], list[i]) ELSE upto[i - 1]
  IN upto[Len(list)]

Constant(t) == [tri |-> t, val |-> TriString(t), visible |-> 0, rev |-> 0, dir |-> 2, write |-> FALSE]

\* What is known before any symbol is worked out.
NoValues(modules) ==
  [s \in {"y", "m", "n", "MODULES"} |->
     Constant(CASE s = "y" -> 2 [] s = "m" -> 1 [] s = "n" -> 0 [] OTHER -> modules)]

-----------------------------------------------------------------------------
(* Values.                                                                 *)

sym_get_type(s, choice, visible, modules) ==
  IF Type[s] = "tristate" /\ ((choice # Empty /\ visible = 2) \/ modules = 0) THEN "bool" ELSE Type[s]

Asked(e, curr) == IF e = NULL THEN 0 ELSE cond_value(e, curr)
NotHalf(t, s, choice, visible, curr) ==
  IF t = 1 /\ sym_get_type(s, choice, visible, curr["MODULES"].tri) = "bool" THEN 2 ELSE t

\* The strongest of the conditions of the prompts, seen from the choice the
\* symbol may be a value of.
sym_visible(s, db, curr) ==
  LET ch == db[s].choice
      shown(t) == IF ch # Empty /\ Type[s] = "tristate" /\ t = 1 /\ curr[ch].tri = 2 THEN 0 ELSE t
      whole(t) == IF t = 1 /\ (Type[s] # "tristate" \/ curr["MODULES"].tri = 0) THEN 2 ELSE t
  IN whole(Max({0} \cup {shown(cond_value(p, curr)) : p \in Range(db[s].prompts)}))

sym_calc_visibility(s, db, curr) ==
  LET d == db[s]
      seen(v) == LET whole(t) == NotHalf(t, s, d.choice, v, curr)
                 IN [visible |-> v, dir |-> whole(cond_value(d.dir, curr)),
                     rev |-> whole(Asked(d.rev, curr)), implied |-> whole(Asked(d.implied, curr))]
  IN seen(sym_visible(s, db, curr))

\* The first default (or range) whose condition is not n.
FirstOf(props, curr) == Those(props, {p \in Range(props) : cond_value(p.cond, curr) # 0})

\* The value of a choice: the user's if it is visible, else a visible default,
\* else the first visible value.
sym_choice_default(s, db, curr) ==
  LET defaults == FirstOf(db[s].defaults, curr)
      values   == [i \in DOMAIN defaults |-> defaults[i].value] \o db[s].values
      seen     == Those(values, {x \in Range(values) : sym_visible(x, db, curr) # 0})
  IN IF seen = <<>> THEN Empty ELSE Head(seen)

sym_calc_choice(s, db, user, curr) ==
  IF user.val[s] # Empty /\ sym_visible(user.val[s], db, curr) # 0 THEN user.val[s]
  ELSE sym_choice_default(s, db, curr)

\* A number outside the range that holds is moved to the bound it is beyond.
sym_validate_range(s, db, curr, val) ==
  LET within(rs) ==
        CASE rs = <<>> -> val
          [] rs # <<>> /\ Place(val) < Place(Head(rs).value[1]) -> Head(rs).value[1]
          [] rs # <<>> /\ Place(val) > Place(Head(rs).value[2]) -> Head(rs).value[2]
          [] OTHER -> val
  IN IF Type[s] # "int" \/ val = Empty THEN val ELSE within(FirstOf(db[s].ranges, curr))

\* What the first default "ds" starts with gives a tristate.
Given(ds, curr) ==
  IF ds = <<>> THEN 0 ELSE EXPR_AND(cond_value(Head(ds).value, curr), cond_value(Head(ds).cond, curr))

\* A tristate: the user's answer within what is visible, else the default and
\* what implies it; in any case at least what selects it.
TristateValue(s, db, user, curr, see, ds) ==
  LET ch == db[s].choice
      given     == IF sym_is_choice(s) THEN 0 ELSE Given(ds, curr)
      hinted(t) == IF see.implied = 0 \/ sym_is_choice(s) THEN t
                   ELSE EXPR_AND(EXPR_OR(t, see.implied), see.dir)
      asked     == IF see.visible # 0 /\ user.has[s] THEN EXPR_AND(user.tri[s], see.visible) ELSE hinted(given)
  IN IF ch # Empty /\ see.visible = 2 THEN IF curr[ch].val = s THEN 2 ELSE 0
     ELSE NotHalf(EXPR_OR(asked, see.rev), s, ch, see.visible, curr)

\* Whether the symbol goes into the file.
Written(s, db, curr, see, ds, tri) ==
  CASE db[s].choice # Empty -> curr[db[s].choice].write /\ see.visible # 0
    [] Type[s] = "int" -> see.visible # 0 \/ ds # <<>>
    [] OTHER -> see.visible # 0 \/ see.rev # 0 \/ see.implied # 0 \/ tri # 0

\* The value of a number: the user's, else the default.
NumberValue(s, db, user, curr, see, ds) ==
  LET first == IF ds = <<>> THEN Empty ELSE Head(ds).value
  IN sym_validate_range(s, db, curr, IF see.visible # 0 /\ user.has[s] THEN user.val[s] ELSE first)

valued(curr, s, v) == [x \in DOMAIN curr \cup {s} |-> IF x = s THEN v ELSE curr[x]]

\* A choice that is made has the value it comes to, or none.
with_choice(s, db, user, curr, v) ==
  LET chosen(x) == [v EXCEPT !.val = x, !.tri = IF x = Empty THEN 0 ELSE 2]
  IN IF sym_is_choice(s) /\ v.tri = 2 THEN chosen(sym_calc_choice(s, db, user, valued(curr, s, v))) ELSE v

sym_calc_value(s, db, user, curr) ==
  LET record(see, ds, tri, val) ==
        [tri |-> tri, val |-> val, visible |-> see.visible, rev |-> see.rev, dir |-> see.dir,
         write |-> Written(s, db, curr, see, ds, tri)]
      from(see, ds) ==
        IF Type[s] = "int" THEN record(see, ds, 0, NumberValue(s, db, user, curr, see, ds))
        ELSE record(see, ds, TristateValue(s, db, user, curr, see, ds), "n")
  IN with_choice(s, db, user, curr, from(sym_calc_visibility(s, db, curr), FirstOf(db[s].defaults, curr)))

\* All values, every symbol after those it depends on.
Values(order, db, user, modules) ==
  LET next(curr, s) == valued(curr, s, sym_calc_value(s, db, user, curr))
      upto[i \in 0 .. Len(order)] == IF i = 0 THEN NoValues(modules) ELSE next(upto[i - 1], order[i])
  IN upto[Len(order)]

-----------------------------------------------------------------------------
(* What is shown (menu.c): "tree" lists the entries of the menus from the  *)
(* root on, [id, sym, prompt, above], "above" naming those an entry stands *)
(* in, from the root.                                                      *)

NoPrompt == [op |-> "none"]

VisibleNow(entry, curr) ==
  IF entry.prompt = NoPrompt THEN 0
  ELSE IF entry.sym # Empty THEN curr[entry.sym].visible
       ELSE cond_value(entry.prompt, curr)

Inside(entry, menu) == menu.id \in Range(entry.above)

\* An entry is visible by itself, or to give way to one that is: a symbol
\* with a prompt that is not n does, and all between have to.  Left out: the
\* code then counts the symbol as said (menu.c:667), which takes a symbol that
\* is not n and whose prompt has a condition of its own that does not hold; no
\* Kconfig file of the models has one.
menu_is_visible(menu, tree, curr) ==
  \E entry \in Range(tree) :
    /\ entry = menu \/ Inside(entry, menu)
    /\ VisibleNow(entry, curr) # 0
    /\ \A m \in Range(tree) :
         Inside(entry, m) /\ (m = menu \/ Inside(m, menu)) =>
           m.prompt # NoPrompt /\ m.sym # Empty /\ curr[m.sym].tri # 0

-----------------------------------------------------------------------------
(* Setting values.  Each returns whether it was accepted, what the user has *)
(* said then, and whether values have to be worked out again (which counts *)
(* as a change of the configuration).                                      *)

\* Said by the user.  Working out a choice that is made takes the flag from it
\* for good while one of its values that show is new; the value of the choices
\* here, which have to be made, does not depend on the flag.
sym_has_value(s, db, user, curr) ==
  /\ user.has[s]
  /\ s \in DOMAIN db /\ sym_is_choice(s) /\ curr[s].tri = 2 =>
       \A x \in Range(db[s].values) : curr[x].visible # 0 => user.has[x]

sym_is_changeable(s, curr) == curr[s].visible > curr[s].rev

sym_tristate_within_range(s, t, db, curr) ==
  LET type == sym_get_type(s, db[s].choice, curr[s].visible, curr["MODULES"].tri) IN
  /\ curr[s].visible # 0
  /\ ~(type = "bool" /\ t = 1)
  /\ sym_is_changeable(s, curr)
  /\ IF db[s].choice # Empty /\ curr[s].visible = 2 THEN t = 2
     ELSE t >= curr[s].rev /\ t <= curr[s].visible

\* A value of a choice is set on the choice as well, and none of the values
\* shown is new any more.
sym_set_tristate_value(s, t, db, user, curr) ==
  LET ch    == db[s].choice
      chose == ch # Empty /\ t = 2
      seen  == IF chose THEN {ch} \cup {x \in Range(db[ch].values) : curr[x].visible # 0} ELSE {}
  IN IF curr[s].tri # t /\ ~sym_tristate_within_range(s, t, db, curr)
     THEN [ok |-> FALSE, user |-> user, cleared |-> FALSE]
     ELSE [ok |-> TRUE,
           user |-> [user EXCEPT !.tri[s] = t,
                       !.has = [x \in DOMAIN user.has |-> sym_has_value(x, db, user, curr) \/ x = s \/ x \in seen],
                       !.val = IF chose THEN [user.val EXCEPT ![ch] = s] ELSE @],
           cleared |-> curr[s].tri # t]

\* n, m, y, n again, until one is accepted or the round is done.
sym_toggle_tristate_value(s, db, user, curr) ==
  LET set(steps) == sym_set_tristate_value(s, (curr[s].tri + steps) % 3, db, user, curr)
  IN CASE set(1).ok -> set(1) [] ~set(1).ok /\ set(2).ok -> set(2) [] OTHER -> set(3)

sym_string_within_range(s, str, db, curr) ==
  LET within(rs) == rs = <<>> \/ Place(str) \in Place(Head(rs).value[1]) .. Place(Head(rs).value[2])
  IN str # Empty /\ within(FirstOf(db[s].ranges, curr))

\* A number typed: refused outside the range that holds, and no change if the
\* user said it before.
sym_set_string_value(s, str, db, user, curr) ==
  IF ~sym_string_within_range(s, str, db, curr)
  THEN [ok |-> FALSE, user |-> user, cleared |-> FALSE]
  ELSE [ok |-> TRUE,
        user |-> [user EXCEPT !.has = [x \in DOMAIN user.has |-> sym_has_value(x, db, user, curr) \/ x = s],
                              !.val[s] = str],
        cleared |-> user.val[s] # str]
=============================================================================
