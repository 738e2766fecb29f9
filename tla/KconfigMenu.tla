----------------------------- MODULE KconfigMenu -----------------------------
(***************************************************************************)
(* The menu tree of kconfig (tools/kconfig/menu.c): what menu_finalize     *)
(* makes of the entries as they are written, and which entries are shown.  *)
(* An entry is                                                             *)
(*   [id, sym, prompt, dep, props, list]                                   *)
(* "sym" its symbol or Empty (menu, comment, if), "prompt" the condition   *)
(* of its prompt or NoPrompt, "dep" what it depends on, "props" the other  *)
(* properties of its symbol here ([type, value, cond]), "list" the entries *)
(* inside.  The linked lists of the code are sequences.                    *)
(***************************************************************************)
EXTENDS KExpr

\* m only means something with modules.
RECURSIVE rewrite_m(_)
rewrite_m(e) ==
  CASE e.op \in {"and", "or"} -> expr_alloc_two(e.op, rewrite_m(e.l), rewrite_m(e.r))
    [] e.op = "not" -> expr_alloc_not(rewrite_m(e.l))
    [] e = expr_alloc_symbol("m") -> expr_alloc_and(e, expr_alloc_symbol("MODULES"))
    [] OTHER -> e

\* A condition under the one it stands in.
under(outer, e) == expr_eliminate_dups(expr_alloc_and(outer, expr_transform(rewrite_m(e))))

\* The same for the condition of a property: only a tristate tells m from y.
under_property(sym, outer, cond) ==
  LET told(e) == IF sym # Empty /\ ~TypeIs(sym, {"tristate"}) THEN expr_trans_bool(e) ELSE e
  IN told(under(outer, cond))

\* A child entry with the dependencies of its parent taken over into its own
\* and into those of its properties.
propagated(parent, child) ==
  LET outer == IF sym_is_choice(parent.sym) THEN expr_alloc_symbol(parent.sym) ELSE parent.dep
      based(base) ==
        [child EXCEPT !.dep = base,
           !.prompt = IF @ = NoPrompt THEN @ ELSE under_property(child.sym, base, @),
           !.props = [i \in DOMAIN child.props |->
                       [child.props[i] EXCEPT !.cond = under_property(child.sym, base, @)]]]
  IN based(under(outer, child.dep))

\* A version that takes an entry that only mentions the symbol.
belongs_under_mentioned(entry, head) ==
  expr_contains_symbol(IF entry.prompt = NoPrompt THEN entry.dep ELSE entry.prompt, head.sym)

\* Whether an entry that follows a symbol is shown below it: it depends on the
\* symbol, or mentions it and depends on all that the symbol depends on.
belongs_under(entry, head) ==
  LET dep     == IF entry.prompt = NoPrompt THEN entry.dep ELSE entry.prompt
      shown   == IF head.prompt = NoPrompt THEN NULL ELSE head.prompt
      basedep == expr_eliminate_dups(expr_transform(expr_trans_compare(shown, "ne", "n")))
      left    == expr_eliminate_eq(
                   expr_eliminate_dups(expr_transform(expr_trans_compare(dep, "ne", "n"))), basedep)
  IN /\ expr_contains_symbol(dep, head.sym)
     /\ expr_depends_symbol(dep, head.sym) \/ expr_is_yes(left[2])

\* The entries of an "if", or below a symbol without prompt, put after it in
\* the list it is in.
RECURSIVE flattened(_)
flattened(list) ==
  IF list = <<>> THEN <<>>
  ELSE LET m == Head(list) IN
       IF m.list # <<>> /\ m.prompt = NoPrompt
       THEN <<[m EXCEPT !.list = <<>>]>> \o flattened(m.list \o Tail(list))
       ELSE <<m>> \o flattened(Tail(list))

\* One entry with the entries that follow it: the entry finished, and those
\* of the following it did not take in.
RECURSIVE menu_finalize(_, _), finalize_list(_), taken_in(_, _)
menu_finalize(parent, following) ==
  LET inner == finalize_list([i \in DOMAIN parent.list |-> propagated(parent, parent.list[i])])
      with(taken) == [menu |-> [parent EXCEPT !.list = flattened(taken.list)], rest |-> taken.rest]
  IN with(IF parent.list = <<>> /\ parent.sym # Empty THEN taken_in(parent, following)
          ELSE [list |-> inner, rest |-> following])

finalize_list(list) ==
  LET before(done) == <<done.menu>> \o finalize_list(done.rest)
  IN IF list = <<>> THEN <<>> ELSE before(menu_finalize(Head(list), Tail(list)))

taken_in(head, following) ==
  LET joined(done, more) == [list |-> <<done.menu>> \o more.list, rest |-> more.rest]
      onwards(done) == joined(done, taken_in(head, done.rest))
  IN IF following = <<>> \/ ~belongs_under(Head(following), head)
     THEN [list |-> <<>>, rest |-> following]
     ELSE onwards(menu_finalize(Head(following), Tail(following)))

\* All entries of a tree, the way the menus list them.
RECURSIVE Entries(_)
Entries(list) ==
  IF list = <<>> THEN <<>>
  ELSE <<Head(list)>> \o Entries(Head(list).list) \o Entries(Tail(list))

-----------------------------------------------------------------------------
(* The tables of a finished tree.                                          *)

Disjunction(exprs) == FoldLeft(expr_alloc_or, NULL, exprs)

\* The entries of a symbol, the properties they give it, and the select or
\* imply of others that aim at it.
EntriesOf(list, s) == SelectSeq(Entries(list), LAMBDA m : m.sym = s)
PropertiesOf(list, s, type) ==
  SelectSeq(FlattenSeq([i \in DOMAIN EntriesOf(list, s) |-> EntriesOf(list, s)[i].props]),
            LAMBDA p : p.type = type)
AimedAt(list, s, type) ==
  LET all == Entries(list)
      of(m) == SelectSeq(m.props, LAMBDA p : p.type = type /\ p.value = s)
      conds(m) == [i \in DOMAIN of(m) |-> expr_alloc_and(expr_alloc_symbol(m.sym), of(m)[i].cond)]
  IN Disjunction(FlattenSeq([i \in DOMAIN all |-> conds(all[i])]))

\* The choice a symbol is a value of, or Empty.
choice_of(list, s) ==
  LET in == SelectSeq(Entries(list), LAMBDA m : sym_is_choice(m.sym) /\ \E i \in DOMAIN m.list : m.list[i].sym = s)
  IN IF in = <<>> THEN Empty ELSE Head(in).sym

symbol(list, s) ==
  LET mine    == EntriesOf(list, s)
      prompts == SelectSeq([i \in DOMAIN mine |-> mine[i].prompt], LAMBDA p : p # NoPrompt)
      values  == IF sym_is_choice(s) THEN [i \in DOMAIN mine[1].list |-> mine[1].list[i].sym] ELSE <<>>
      must    == IF sym_is_choice(s) /\ prompts # <<>>       \* a choice that is shown is made
                 THEN expr_alloc_and(prompts[1], expr_alloc_symbol("m")) ELSE NULL
  IN [prompts  |-> prompts,
      defaults |-> PropertiesOf(list, s, "default"),
      ranges   |-> PropertiesOf(list, s, "range"),
      rev      |-> expr_alloc_or(AimedAt(list, s, "select"), must),
      implied  |-> AimedAt(list, s, "imply"),
      dir      |-> IF sym_is_choice(s) THEN NULL ELSE Disjunction([i \in DOMAIN mine |-> mine[i].dep]),
      choice   |-> choice_of(list, s),
      values   |-> values]

\* Every symbol of the menus once, in their order.
Named(list) ==
  LET all  == Entries(list)
      syms == [i \in DOMAIN all |-> all[i].sym]
  IN FoldLeft(LAMBDA done, s : IF s = Empty \/ sym_is_choice(s) \/ s \in Range(done) THEN done ELSE Append(done, s),
              <<>>, syms)

\* The entries with what they stand in.
RECURSIVE Placed(_, _)
Placed(list, above) ==
  IF list = <<>> THEN <<>>
  ELSE LET m == Head(list) IN
       <<[id |-> m.id, sym |-> m.sym, prompt |-> m.prompt, above |-> above]>>
         \o Placed(m.list, Append(above, m.id)) \o Placed(Tail(list), above)

-----------------------------------------------------------------------------
(* The entries of src/cpu/Kconfig the configuration programs are run on:   *)
(* the waveform options, with their choice, the number that follows it and *)
(* the options only a waveform has, the tracers, and a menu of devices.    *)

CpuType ==
  [WAVE |-> "bool", CHOICE |-> "bool", FULL |-> "bool", RANGE |-> "bool",
   MODE |-> "int", START |-> "int", TRACE |-> "bool", FTRACE |-> "bool", SERIAL |-> "bool"]
CpuChoices == {"CHOICE"}
CpuStrings == <<"0", "1", "77", "m", "n", "y">>

Sym(s) == expr_alloc_symbol(s)
Default(value, cond) == [type |-> "default", value |-> value, cond |-> cond]
Entry(sym, prompt, dep, props, list) ==
  [id |-> sym, sym |-> sym, prompt |-> prompt, dep |-> dep, props |-> props, list |-> list]
Menu(id, list) == [Entry(Empty, NULL, NULL, <<>>, list) EXCEPT !.id = id]

Simulation ==
  << Entry("WAVE", NULL, NULL, <<Default(No, NULL)>>, <<>>),
     Entry("CHOICE", NULL, Sym("WAVE"), <<Default("RANGE", NULL)>>,
           << Entry("FULL", NULL, NULL, <<>>, <<>>), Entry("RANGE", NULL, NULL, <<>>, <<>>) >>),
     Entry("MODE", NoPrompt, Sym("WAVE"),
           <<Default("0", Sym("FULL")), Default("1", Sym("RANGE")), Default("1", NULL)>>, <<>>),
     Entry("START", NULL, Sym("WAVE"), <<Default("0", NULL)>>, <<>>),
     Entry("TRACE", NULL, NULL, <<Default(No, NULL)>>, <<>>),
     Entry("FTRACE", NULL, Sym("TRACE"), <<Default(No, NULL)>>, <<>>) >>

DevicesMenu == << Entry("SERIAL", NULL, NULL, <<Default(Yes, NULL)>>, <<>>) >>

CpuKconfig == << Menu("sim", Simulation), Menu("devices", DevicesMenu) >>

CpuOrder == <<"WAVE", "CHOICE", "FULL", "RANGE", "MODE", "START", "TRACE", "FTRACE", "SERIAL">>

-----------------------------------------------------------------------------
\* What the programs keep of a Kconfig file once it is read: the symbols, in
\* the order of their values and in that of a file, and the entries.
conf_parse(entries, order) ==
  LET table(root) ==
        [db |-> [s \in Range(order) |-> symbol(root.list, s)], order |-> order,
         names |-> Named(root.list), tree |-> Placed(<<root>>, <<>>)]
  IN table(menu_finalize(Menu("root", entries), <<>>).menu)
=============================================================================
