------------------------------ MODULE ConfFile ------------------------------
(***************************************************************************)
(* Configuration files (tools/kconfig/confdata.c): what is written of the  *)
(* values of the symbols, what is read back, and which dependency files a  *)
(* new configuration touches.  A file is the sequence of its lines         *)
(* [sym, val]; val "unset" is the line "# CONFIG_X is not set".  Missing   *)
(* stands for a file that is not there.                                    *)
(***************************************************************************)
EXTENDS KconfigSymbol

Missing == <<[sym |-> Empty, val |-> "missing"]>>

Known(db, s) == s \in DOMAIN db
Logical(s) == TypeIs(s, {"bool", "tristate"})

\* Nothing said by anyone; a value that is not there is Empty.
NothingSaid ==
  [has |-> [s \in DOMAIN Type |-> FALSE], tri |-> [s \in DOMAIN Type |-> 0],
   val |-> [s \in DOMAIN Type |-> Empty]]

-----------------------------------------------------------------------------
(* The symbols of a Kconfig file.                                          *)

\* What a number is written as: not what is read as a tristate or as nothing.
IsNumber(text) == text \notin {"y", "m", "n", "unset", Empty}

\* What anyone can have said: a value of each kind for every symbol, and a
\* number for a symbol that is one and was given.
UserOK(u) ==
  /\ u = [has |-> u.has, tri |-> u.tri, val |-> u.val]
  /\ u.has \in [DOMAIN Type -> BOOLEAN]
  /\ u.tri = [s \in DOMAIN Type |-> u.tri[s]]
  /\ u.val = [s \in DOMAIN Type |-> u.val[s]]
  /\ \A s \in DOMAIN Type : ~Logical(s) /\ u.has[s] => IsNumber(u.val[s])

\* Properties of one kind, in the order they are written.
IsList(props) == props \in Seq(Range(props))

\* A table [db, order, names] of symbols as it comes from a Kconfig file in
\* which a number has numbers for its defaults and bounds, and a default
\* whenever it is asked for.
TableOK(table) ==
  LET db == table.db IN
  /\ table.order \in Seq(DOMAIN Type) /\ DOMAIN db = Range(table.order)
  /\ \A i, j \in DOMAIN table.order : table.order[i] = table.order[j] => i = j
  /\ table.names \in Seq(DOMAIN Type) /\ Range(table.names) = DOMAIN db \ ChoiceSymbols
  /\ \A s \in DOMAIN db :
       /\ db[s].choice = Empty \/ (Logical(s) /\ db[s].choice \in ChoiceSymbols \cap DOMAIN db)
       /\ db[s].values \in Seq({x \in DOMAIN db : Logical(x)})
       /\ IsList(db[s].prompts) /\ IsList(db[s].defaults) /\ IsList(db[s].ranges)
       /\ ~Logical(s) =>
            /\ \A p \in Range(db[s].defaults) : IsNumber(p.value)
            /\ \A p \in Range(db[s].ranges) : IsNumber(p.value[1]) /\ IsNumber(p.value[2])
            /\ \A cond \in Range(db[s].prompts) : \E p \in Range(db[s].defaults) : p.cond \in {NULL, cond}

-----------------------------------------------------------------------------
(* Reading.                                                                *)

TriOf(text) == CASE text = "y" -> 2 [] text = "m" -> 1 [] OTHER -> 0

\* Whether a text is a value the type of the symbol can have; the line that
\* says a number is not set is passed over.
Fits(s, text) ==
  CASE Type[s] = "bool"     -> text \in {"y", "n", "unset"}
    [] Type[s] = "tristate" -> text \in {"y", "m", "n", "unset"}
    [] OTHER                -> text \notin {"y", "m", "n", "unset", Empty}

conf_set_sym_val(user, s, text) ==
  [user EXCEPT !.has[s] = TRUE,
               !.tri[s] = IF Logical(s) THEN TriOf(text) ELSE 0,
               !.val[s] = IF Logical(s) THEN @ ELSE text]

\* A value of a choice sets the choice: y chooses it, m besides y is refused.
set_choice_of(r, ch, s) ==
  LET t == r.user.tri[s]
      was == r.user.tri[ch]
      clash == (t = 1 /\ was = 2) \/ (t = 2 /\ was # 0)
      told == [r.user EXCEPT !.has[ch] = IF t = 1 /\ was = 2 THEN FALSE ELSE @,
                             !.val[ch] = IF t = 2 THEN s ELSE @,
                             !.tri[ch] = EXPR_OR(was, t)]
  IN [r EXCEPT !.warnings = IF clash THEN @ + 1 ELSE @, !.user = told]

read_line(db, r, line) ==
  LET s == line.sym
      again == IF r.user.has[s] THEN 1 ELSE 0
      taken == [r EXCEPT !.user = conf_set_sym_val(@, s, line.val), !.warnings = @ + again]
  IN CASE ~Known(db, s) -> [r EXCEPT !.unknown = @ \cup {s}]
       [] Known(db, s) /\ ~Fits(s, line.val) ->
            [r EXCEPT !.warnings = IF line.val = "unset" THEN @ + again ELSE @ + again + 1]
       [] OTHER -> IF db[s].choice = Empty THEN taken
                   ELSE set_choice_of(taken, db[s].choice, s)

\* Every value is forgotten before the first line; a choice counts as said.
Forgotten == [NothingSaid EXCEPT !.has = [s \in DOMAIN Type |-> sym_is_choice(s)]]

conf_read_simple(db, file) ==
  LET upto[i \in 0 .. Len(file)] ==
        IF i = 0 THEN [user |-> Forgotten, warnings |-> 0, unknown |-> {}]
        ELSE read_line(db, upto[i - 1], file[i])
  IN upto[Len(file)]

\* The value worked out is the one the file has, or there is neither.
Agrees(s, user, curr) ==
  IF user.has[s] /\ curr[s].write
  THEN IF Logical(s) THEN user.tri[s] = curr[s].tri ELSE user.val[s] = curr[s].val
  ELSE ~user.has[s] /\ ~curr[s].write

\* What is said of symbols that do not show is forgotten when the file was
\* complete, so that they are new once they show; numbers out of range are.
forget_generated(order, db, user, curr, unsaved) ==
  LET said   == {i \in DOMAIN order : user.has[order[i]] /\ db[order[i]].choice = Empty}
      wrong  == {i \in said : /\ ~Logical(order[i])
                             /\ ~sym_string_within_range(order[i], user.val[order[i]], db, curr)}
      hidden == {i \in said : /\ curr[order[i]].visible = 0
                             /\ unsaved = 0 /\ \A j \in wrong : j >= i}
      gone   == {order[i] : i \in wrong \cup hidden}
  IN [user    |-> [user EXCEPT !.has = [s \in DOMAIN user.has |-> user.has[s] /\ s \notin gone]],
      unsaved |-> unsaved + Cardinality(wrong)]

\* A file read: what the user is taken to have said, and whether the values
\* worked out from it are something still to be saved.  Without the file only
\* the count of changes is new: 0, or 1 if it is the file named by default.
conf_read(order, db, user, file, named) ==
  LET odd(r, curr)  == {s \in Range(order) : ~sym_is_choice(s) /\ ~Agrees(s, r.user, curr)}
      told(r, done) == [ok |-> TRUE, user |-> done.user,
                        changed |-> r.warnings > 0 \/ r.unknown # {} \/ done.unsaved > 0]
      checked(r, curr) == told(r, forget_generated(order, db, r.user, curr, Cardinality(odd(r, curr))))
      read(r) == checked(r, Values(order, db, r.user, 0))
  IN IF file = Missing THEN [ok |-> FALSE, user |-> user, changed |-> ~named]
     ELSE read(conf_read_simple(db, file))

-----------------------------------------------------------------------------
(* Writing.                                                                *)

print_symbol(s, curr) ==
  LET text == sym_get_string_value(s, curr)
  IN [sym |-> s, val |-> IF Logical(s) /\ text = "n" THEN "unset" ELSE text]

\* conf_write: the text of the file.
config_text(names, curr) ==
  LET syms == Those(names, {s \in Range(names) : curr[s].write})
  IN [i \in DOMAIN syms |-> print_symbol(syms[i], curr)]

\* auto.conf and autoconf.h: the same without what is not set.
auto_text(names, curr) ==
  LET lines == config_text(names, curr) IN Those(lines, {line \in Range(lines) : line.val # "unset"})

\* The default a symbol has with the values the others have now.
sym_get_string_default(s, db, curr) ==
  LET half(t) == t = 1 /\ (Type[s] = "bool" \/ (db[s].choice = Empty /\ curr["MODULES"].tri = 0))
      full(t) == IF half(t) THEN 2 ELSE t
      default(ds) == IF Logical(s)
                     THEN TriString(EXPR_OR(full(EXPR_OR(Given(ds, curr), curr[s].rev)), Asked(db[s].implied, curr)))
                     ELSE IF ds = <<>> THEN Empty ELSE Head(ds).value
  IN default(FirstOf(db[s].defaults, curr))

\* A version that takes every chosen value for the default of its choice.
is_default_of_any_choice(s, db, curr) == db[s].choice # Empty /\ curr[s].tri = 2

is_default_of_choice(s, db, curr) ==
  /\ db[s].choice # Empty /\ curr[s].tri = 2 /\ Type[s] = "bool"
  /\ s = sym_choice_default(db[s].choice, db, curr)

\* The minimal file: what could be changed and does not have its default.
conf_write_defconfig(names, db, curr) ==
  LET syms == Those(names, {s \in Range(names) :
                /\ curr[s].write /\ sym_is_changeable(s, curr)
                /\ sym_get_string_value(s, curr) # sym_get_string_default(s, db, curr)
                /\ ~is_default_of_choice(s, db, curr)})
  IN [i \in DOMAIN syms |-> print_symbol(syms[i], curr)]

-----------------------------------------------------------------------------
(* Setting all that is new.                                                *)

\* The choices "new" are made, and their values that are new are n.
set_all_choice_values(user, new, db) ==
  [user EXCEPT !.has = [s \in DOMAIN user.has |-> user.has[s] \/ s \in new],
               !.tri = [s \in DOMAIN user.tri |->
                         IF ~user.has[s] /\ \E ch \in new : s \in Range(db[ch].values) THEN 0 ELSE user.tri[s]]]

\* The default for all that is new: what is new keeps the default it has, and
\* every choice that is new is made, by its default.  The values "curr" are
\* those worked out before.
conf_set_all_new_symbols(order, db, user, curr) ==
  LET said == [user EXCEPT !.has = [s \in DOMAIN user.has |-> sym_has_value(s, db, user, curr)]]
  IN set_all_choice_values(said, {s \in Range(order) : sym_is_choice(s) /\ ~said.has[s]}, db)

-----------------------------------------------------------------------------
(* The dependency files include/config/*.h.                                *)

\* Those of the symbols whose value is not the one auto.conf has: a value
\* changed, one that is new and not n, one that is gone.
conf_touch_deps(names, db, curr, auto) ==
  LET r == conf_read_simple(db, IF auto = Missing THEN <<>> ELSE auto)
      differs(s) == IF Logical(s) THEN curr[s].tri # r.user.tri[s]
                    ELSE sym_get_string_value(s, curr) # r.user.val[s]
      touch(s) == CASE curr[s].write /\ r.user.has[s]  -> differs(s)
                    [] curr[s].write /\ ~r.user.has[s] -> ~(Logical(s) /\ curr[s].tri = 0)
                    [] OTHER                           -> r.user.has[s]
  IN r.unknown \cup {s \in Range(names) : touch(s)}
=============================================================================
