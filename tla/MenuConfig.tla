----------------------------- MODULE MenuConfig -----------------------------
(***************************************************************************)
(* menuconfig (tools/kconfig/mconf.c): the functions conf, conf_choice,    *)
(* conf_string, conf_load, conf_save, search_conf, show_textbox and        *)
(* handle_exit call one another and wait in a dialog of lxdialog; "stack"  *)
(* is their call stack.  The frame on top has the dialog shown, those      *)
(* below open theirs again when it returns.                                *)
(***************************************************************************)
EXTENDS ConfFile, Lxdialog

CONSTANTS Parsed,       \* what conf_parse makes of the Kconfig file
          Earlier,      \* what was said when the .config that is there was written
          RowsSet,      \* the heights the screen may be given
          HotOf,        \* the letter an entry is found by
          LettersTyped, \* the letters pressed in a list
          TextLines,    \* the lines of every text shown
          Messages,     \* the texts shown in a small box
          Typed,        \* what may be typed, by the kind of input
          LengthOf,     \* the length of what is typed
          FoundBy,      \* the symbols a search finds
          LinesPerSymbol, JumpLine, \* the lines of a result, and the one with its key
          MaxEdits, MaxDepth  \* of changes, and of frames (bounds of the model)

ASSUME MenuAssumption ==
  /\ TableOK(Parsed) /\ IsList(Parsed.tree) /\ UserOK(Earlier)
  /\ RowsSet \subseteq Nat /\ MenuFrame \in 0 .. 14
  /\ ListLines \in Nat \ {0} /\ BoxWidth \in Nat \ {0} /\ MaxLength \in Nat
  /\ \A id \in {"setmod", "readme", "help", "invalid", "no_file", "saved", "no_save"} : TextLines[id] \in Nat
  /\ LengthOf \in [DOMAIN LengthOf -> Nat] /\ LinesPerSymbol \in Nat
  /\ \A query \in Typed["search"] : IsList(FoundBy[query])

VARIABLES table,    \* the menus and symbols parsed: rootmenu, symbol_hash
          rows,     \* of the screen
          user, curr, changed,   \* what the user said, the values, conf_get_changed
          files, filename,       \* the configurations on disk, and the one written
          show_all_options, save_and_exit,
          stack, over,           \* the calls, and how the program ended (Empty before)
          edits,                 \* changes of the user (no variable of the code)
          forgot                 \* unsaved changes no longer count (none either)

vars == <<table, rows, user, curr, changed, files, filename, show_all_options,
          save_and_exit, stack, over, edits, forgot>>
said     == <<user, curr, changed, edits, forgot>>
settings == <<user, curr, changed, edits, forgot, files, filename, show_all_options>>
program  == <<rows, save_and_exit, over>>

ValuesOf(told) == Values(table.order, table.db, told, 0)

\* The entry with an id, the entry it stands in, those that stand in it, and
\* whether it is visible.
EntryOf(id)  == CHOOSE m \in Range(table.tree) : m.id = id
ParentOf(id) == Last(EntryOf(id).above)
Children(id) == {m \in Range(table.tree) : m.above # <<>> /\ Last(m.above) = id}
Visible(m, values) == menu_is_visible(m, table.tree, values)

-----------------------------------------------------------------------------
(* Frames.                                                                 *)

NotShown == [kind |-> "none"]
TooSmall == [kind |-> "small"]

\* "active" is the item the dialog opens at, "scroll" where it was left.
frame(kind, id, active) == [kind |-> kind, id |-> id, active |-> active, scroll |-> 0, box |-> NotShown]
text(id) == frame("text", id, Empty)

Top(s)     == Last(s)
Below(s)   == Front(s)
Again(s)   == [s EXCEPT ![Len(s)].box = NotShown]
Call(s, f) == Append(Again(s), f)

\* The rows a dialog cannot do without.
Needs(kind) == CASE kind = "conf" -> 15 [] kind = "choice" -> 21 [] kind \in {"text", "found"} -> 8
                 [] kind \in {"string", "search"} -> 9 [] kind \in {"load", "save", "exit"} -> 10

text_height(f, r) == IF f.id \in Messages THEN 1 ELSE r - 8

\* The length of what may stand in an input box; other texts do not.
Length(t) == IF t \in DOMAIN LengthOf THEN LengthOf[t] ELSE 0

-----------------------------------------------------------------------------
(* What the dialogs show.                                                  *)

\* The value a choice has, if it is shown.
chosen(choice, values) == {m \in Children(choice.id) : Visible(m, values) /\ m.sym = values[choice.sym].val}

\* build_conf returns without an item.
passed_over(m, values, all) == IF all THEN m.prompt = NoPrompt ELSE ~Visible(m, values)

\* In the menu "menu" build_conf goes on from an entry to one that stands in
\* it: not into another menu, and not into a choice that is made, but for its
\* value where that has entries of its own.
goes_into(m, child, menu, values, all) ==
  /\ ~passed_over(m, values, all)
  /\ m.sym = Empty => m.id = menu
  /\ sym_is_choice(m.sym) /\ values[m.sym].tri = 2 => child \in chosen(m, values) /\ Children(child.id) # {}

Listed(menu, values, all) ==
  {m \in Range(table.tree) :
     /\ m.id = menu \/ menu \in Range(m.above)
     /\ ~passed_over(m, values, all) /\ ~(m.sym = Empty /\ m.id = menu)
     /\ \A y \in Range(table.tree) :
          (y = m \/ Inside(m, y)) /\ menu \in Range(y.above) =>
            goes_into(EntryOf(ParentOf(y.id)), y, menu, values, all)}

\* "m" a menu, "t" what can be set, "s" a number, ":" what only stands there.
Tag(m, menu, values) ==
  LET s == m.sym IN
  CASE s = Empty -> "m"
    [] sym_is_choice(s) -> IF sym_is_changeable(s, values) \/ chosen(m, values) # {} THEN "t" ELSE ":"
    [] s # Empty /\ ~sym_is_choice(s) /\ (m.id = menu \/ (table.db[s].choice # Empty /\ values[s].tri = 2)) -> ":"
    [] OTHER -> IF Logical(s) THEN "t" ELSE "s"

\* The items of a menu, of the entry it belongs to and of those inside it.
build_conf(menu, values, all) ==
  LET shown == Those(table.tree, Listed(menu, values, all))
  IN [i \in DOMAIN shown |-> item_make(HotOf[shown[i].id], Tag(shown[i], menu, values), shown[i].id)]

\* The radio list of a choice: "active" marked, its value tagged.
choice_items(id, active, values) ==
  LET shown == Those(table.tree, {m \in Children(id) : Visible(m, values)})
      tag(m) == IF m \in chosen(EntryOf(id), values) THEN ChosenTag ELSE Empty
  IN [i \in DOMAIN shown |-> [item_make(HotOf[shown[i].id], tag(shown[i]), shown[i].id)
                                EXCEPT !.selected = (shown[i].sym = active)]]

\* The nearest entry above that is visible, or the root.
accessible(id, values) ==
  Last(Those(EntryOf(id).above, {a \in Range(EntryOf(id).above) : a = "root" \/ Visible(EntryOf(a), values)}))

\* The targets of a search: what is found and shown, or else the nearest entry
\* above it that is; the line of each in the text.
get_relations(query, values) ==
  LET found == FoundBy[query]
      target(s) == IF Visible(EntryOf(s), values) THEN s ELSE accessible(s, values)
  IN [lines   |-> Greater(1, LinesPerSymbol * Len(found)),
      targets |-> [i \in {i \in DOMAIN found : accessible(found[i], values) # "root"} |->
                     [id |-> target(found[i]), line |-> LinesPerSymbol * (i - 1) + JumpLine]]]

\* The dialog of a frame, as it first waits for a key.
Opened(f) ==
  CASE rows < Needs(f.kind) -> TooSmall
    [] rows >= Needs(f.kind) /\ f.kind = "conf" ->
         menu_open(build_conf(f.id, curr, show_all_options), f.active, f.scroll, rows)
    [] rows >= Needs(f.kind) /\ f.kind = "choice" -> check_open(choice_items(f.id, f.active, curr))
    [] rows >= Needs(f.kind) /\ f.kind = "text" -> text_open(TextLines[f.id], 0, 0, text_height(f, rows), FALSE)
    [] rows >= Needs(f.kind) /\ f.kind = "found" ->
         text_open(get_relations(f.id, curr).lines, f.scroll, 0, text_height(f, rows), TRUE)
    [] rows >= Needs(f.kind) /\ f.kind = "exit" -> yesno_open
    [] OTHER -> input_open(CASE f.kind = "string" -> Length(sym_get_string_value(f.id, curr))
                             [] f.kind = "search" -> 0
                             [] OTHER -> Length(filename))

Init ==
  /\ table = Parsed /\ rows = 21
  /\ \E before \in {ValuesOf(Earlier)} :
       files \in {[config |-> c, alt |-> Missing] : c \in {Missing, config_text(table.names, before)}}
  /\ \E r \in {conf_read(table.order, table.db, NothingSaid, files.config, FALSE)} :
       user = r.user /\ changed = r.changed
  /\ curr = ValuesOf(user)
  /\ filename = "config"
  /\ show_all_options = FALSE /\ save_and_exit = FALSE
  /\ stack = <<frame("conf", "root", Empty)>> /\ over = Empty /\ edits = 0 /\ forgot = FALSE

-----------------------------------------------------------------------------
(* Every dialog.                                                           *)

Waiting == over = Empty /\ stack # <<>> /\ Top(stack).box \notin {NotShown, TooSmall}
Waits(kinds) == Waiting /\ Top(stack).kind \in kinds

\* The function on top calls its dialog.
Open ==
  /\ over = Empty /\ stack # <<>> /\ Top(stack).box = NotShown
  /\ stack' = [stack EXCEPT ![Len(stack)].box = Opened(Top(stack))]
  /\ UNCHANGED <<settings, program>>

\* -ERRDISPLAYTOOSMALL: the function returns, at the exit without saving; the
\* three that read a text do not look for it and call the dialog again.
GiveUp ==
  /\ over = Empty /\ stack # <<>> /\ Top(stack).box = TooSmall
  /\ over' = IF Top(stack).kind = "exit" THEN "unsaved" ELSE Empty
  /\ stack' = IF Top(stack).kind \in {"string", "load", "save"} THEN Again(stack) ELSE Below(stack)
  /\ UNCHANGED <<settings, rows, save_and_exit>>

Redrawn(f, before) ==
  LET b == f.box IN
  CASE b.kind = "menu"  -> menu_resized(b, f.active, f.scroll, rows')
    [] b.kind = "text"  -> text_resized(b, IF f.id \in Messages THEN 5 ELSE before - 4,
                                        text_height(f, rows'), f.kind = "found")
    [] b.kind = "input" -> input_drawn(b.len, b.button, b.edited)
    [] OTHER -> b

\* The screen changes size.
Resize ==
  /\ Waiting
  /\ rows' \in RowsSet \ {rows}
  /\ stack' = [stack EXCEPT ![Len(stack)].box =
                 IF rows' < Needs(Top(stack).kind) THEN TooSmall ELSE Redrawn(Top(stack), rows)]
  /\ UNCHANGED <<settings, save_and_exit, over>>

\* A key that stays in the dialog.
Pressed(f) ==
  CASE f.box.kind = "menu"  -> {menu_key(f.box, key, rows) : key \in MenuKeys \cup LettersTyped}
    [] f.box.kind = "check" -> {check_key(f.box, key) : key \in CheckKeys \cup LettersTyped}
    [] f.box.kind = "text"  -> {text_key(f.box, key, text_height(f, rows), f.kind = "found") : key \in TextKeys}
    [] f.box.kind = "input" -> {input_key(f.box, key) : key \in InputKeys}
    [] f.box.kind = "yesno" -> {yesno_key(f.box, key) : key \in {"left", "right"}}

Key ==
  /\ Waiting
  /\ \E box \in Pressed(Top(stack)) : stack' = [stack EXCEPT ![Len(stack)].box = box]
  /\ UNCHANGED <<settings, program>>

-----------------------------------------------------------------------------
(* conf: the menus.                                                        *)

\* The menu answers "res"; its caller remembers the item marked and the first line.
Answers(res) ==
  /\ Waits({"conf"}) /\ Len(stack) < MaxDepth
  /\ Top(stack).box.items # <<>>
  /\ \E key \in AnswerKeys : menu_answer(Top(stack).box, key) = res
  /\ UNCHANGED program

Marked == item_set(Top(stack).box.items, Highlighted(Top(stack).box))
Remembered ==
  Again([stack EXCEPT ![Len(stack)].active = Marked.data, ![Len(stack)].scroll = Top(stack).box.scroll])

\* Enter: into the menu, the choice, the number.
EnterItem ==
  /\ Answers(0)
  /\ \E item \in {Marked} :
       stack' = CASE item.tag = "m" -> Append(Remembered, frame("conf", item.data, Empty))
                  [] item.tag = "t" /\ sym_is_choice(item.data) /\ curr[item.data].tri = 2 ->
                       Append(Remembered, frame("choice", item.data, curr[item.data].val))
                  [] item.tag = "s" -> Append(Remembered, frame("string", item.data, Empty))
                  [] OTHER -> Remembered
  /\ UNCHANGED settings

\* A version that counts a symbol once.
sym_clear_all_valid_once(r) == changed \/ (r.cleared /\ r.user.has # user.has)

\* sym_clear_all_valid: a value is worked out again, a change is counted.
sym_clear_all_valid(r) == changed \/ r.cleared

\* What a value that was set, or not, changes.
Taken(r) ==
  /\ user' = r.user
  /\ curr' = IF r.cleared THEN ValuesOf(r.user) ELSE curr
  /\ changed' = sym_clear_all_valid(r)
  /\ edits' = IF r.cleared THEN edits + 1 ELSE edits
  /\ UNCHANGED <<files, filename, show_all_options, forgot>>

\* y, n, m and space set what can be set.  Where y is refused m is tried, with
\* a message when it is taken.
SetItem(res) ==
  LET set(id, t) == sym_set_tristate_value(id, t, table.db, user, curr)
      asked(id) == CASE res = 5 -> IF set(id, 2).ok THEN set(id, 2) ELSE set(id, 1)
                     [] res = 6 -> set(id, 0)
                     [] res = 7 -> set(id, 1)
                     [] res = 8 -> sym_toggle_tristate_value(id, table.db, user, curr)
      half(id, r) == res = 5 /\ r.ok /\ r.user.tri[id] = 1
  IN /\ edits < MaxEdits /\ Answers(res) /\ Marked.tag = "t"
     /\ \E r \in {asked(Marked.data)} :
          /\ Taken(r)
          /\ stack' = IF half(Marked.data, r) THEN Append(Remembered, text("setmod")) ELSE Remembered

\* The same keys where nothing can be set; space on a menu is Enter.
SetNothing(res) ==
  /\ Answers(res) /\ Marked.tag # "t"
  /\ stack' = IF res = 8 /\ Marked.tag = "m" THEN Append(Remembered, frame("conf", Marked.data, Empty))
              ELSE Remembered
  /\ UNCHANGED settings

\* h, ?, or Enter on Help: help for a symbol, the readme for a menu.
HelpItem ==
  /\ Answers(2)
  /\ stack' = Append(Remembered, text(IF EntryOf(Marked.data).sym = Empty THEN "readme" ELSE "help"))
  /\ UNCHANGED settings

\* Enter on Save (3) or Load (4), and / for the search.
AskFor(res, kind) == Answers(res) /\ stack' = Append(Remembered, frame(kind, Empty, Empty)) /\ UNCHANGED settings

\* z: what is not visible is listed too, or no longer.
ShowAll ==
  /\ Answers(10)
  /\ stack' = Remembered /\ show_all_options' = ~show_all_options
  /\ UNCHANGED <<said, files, filename>>

\* Escape, or Enter on Exit.
Leave ==
  /\ Waits({"conf", "choice", "string", "load", "save", "search"})
  /\ stack' = Below(stack)
  /\ UNCHANGED <<settings, program>>

-----------------------------------------------------------------------------
(* conf_choice: the radio list.                                            *)

\* Enter, space or s: the item highlighted, or its help, where the list then
\* opens again.
ChooseValue ==
  /\ Waits({"choice"}) /\ Top(stack).box.items # <<>>
  /\ \E marked \in {check_marked(Top(stack).box)} :
       \E item \in {item_set(marked, item_activate_selected(marked))} :
         \/ /\ Top(stack).box.button = 0 /\ edits < MaxEdits
            /\ \E r \in {sym_set_tristate_value(item.data, 2, table.db, user, curr)} : Taken(r)
            /\ stack' = Below(stack)
         \/ /\ Len(stack) < MaxDepth    \* the Help button, h or ?
            /\ stack' = Call([stack EXCEPT ![Len(stack)].active = item.data], text("help"))
            /\ UNCHANGED settings
  /\ UNCHANGED program

-----------------------------------------------------------------------------
(* conf_string, conf_load, conf_save, search_conf: what is typed.          *)

\* The texts that can stand in the input box.
Entered(f) ==
  LET before == IF f.kind = "string" THEN sym_get_string_value(f.id, curr) ELSE filename
  IN IF ~f.box.edited /\ f.kind # "search" THEN {before}
     ELSE {t \in Typed[f.kind] : Length(t) = f.box.len}

\* Enter on Ok or in the text: one of the texts that may stand there.
Input(kind, t) ==
  /\ Waits({kind}) /\ input_answer(Top(stack).box) = 0
  /\ t \in Entered(Top(stack))
  /\ UNCHANGED program

\* A message, after which the function asks again with what it had before.
Refused(message) == Len(stack) < MaxDepth /\ stack' = Call(stack, text(message))

StringEntered(t) ==
  /\ Input("string", t) /\ edits < MaxEdits
  /\ \E r \in {sym_set_string_value(Top(stack).id, t, table.db, user, curr)} :
       Taken(r) /\ IF r.ok THEN stack' = Below(stack) ELSE Refused("invalid")

\* An empty name is no answer.
NothingEntered ==
  /\ Input("load", Empty) \/ Input("save", Empty)
  /\ stack' = Below(stack)
  /\ UNCHANGED settings

\* conf_load; what was loaded is to be saved, for .config is not written yet
\* (sym_set_change_count(1)).  A file that is not there has set the count of
\* changes to 0 all the same, and what was not saved is not asked about again.
LoadEntered(t) ==
  LET file == IF t \in DOMAIN files THEN files[t] ELSE Missing
  IN /\ Input("load", t) /\ t # Empty
     /\ \E r \in {conf_read(table.order, table.db, user, file, TRUE)} :
          /\ user' = r.user
          /\ changed' = (r.ok \/ r.changed)
          /\ forgot' = (~r.ok /\ (changed \/ forgot))
          /\ curr' = IF r.ok THEN ValuesOf(r.user) ELSE curr
          /\ filename' = IF r.ok THEN t ELSE filename
          /\ IF r.ok THEN stack' = Below(stack) ELSE Refused("no_file")
     /\ UNCHANGED <<files, show_all_options, edits>>

\* conf_save, with the message conf_write shows while the menus are up.
SaveEntered(t) ==
  /\ Input("save", t) /\ t \in DOMAIN files
  /\ files' = [files EXCEPT ![t] = config_text(table.names, curr)]
  /\ filename' = t /\ changed' = FALSE /\ forgot' = FALSE
  /\ stack' = IF save_and_exit THEN Below(stack) ELSE Append(Below(stack), text("saved"))
  /\ UNCHANGED <<user, curr, show_all_options, edits>>

\* A file that cannot be written, a directory for one.
SaveRefused(t) == Input("save", t) /\ t \notin DOMAIN files \cup {Empty} /\ Refused("no_save") /\ UNCHANGED settings

SearchEntered(t) ==
  /\ Input("search", t)
  /\ stack' = Append(Below(stack), frame("found", t, Empty))
  /\ UNCHANGED settings

\* h, or Enter on Help.
InputHelp ==
  /\ Waits({"string", "load", "save", "search"}) /\ Len(stack) < MaxDepth
  /\ input_answer(Top(stack).box) = 1
  /\ stack' = Call(stack, text("help"))
  /\ UNCHANGED <<settings, program>>

-----------------------------------------------------------------------------
(* show_textbox and the results of a search.                               *)

LeaveText ==
  /\ Waits({"text", "found"})
  /\ stack' = Below(stack)
  /\ UNCHANGED <<settings, program>>

\* The number of a result that is shown: its menu, at the entry; the text
\* opens again where it was.
Jump ==
  /\ Waits({"found"}) /\ Len(stack) < MaxDepth
  /\ \E targets \in {get_relations(Top(stack).id, curr).targets} :
       \E i \in DOMAIN targets :
         /\ targets[i].line \in Top(stack).box.top .. (Top(stack).box.page - 1)
         /\ stack' = Call([stack EXCEPT ![Len(stack)].scroll = text_vscroll(Top(stack).box)],
                          frame("conf", ParentOf(targets[i].id), targets[i].id))
  /\ UNCHANGED <<settings, program>>

-----------------------------------------------------------------------------
(* handle_exit, and the main loop.                                         *)

\* conf(&rootmenu) has returned: whether to save is asked if there is anything.
Exit ==
  /\ over = Empty /\ stack = <<>>
  /\ save_and_exit' = TRUE
  /\ IF changed THEN stack' = <<frame("exit", Empty, Empty)>> /\ over' = Empty
     ELSE stack' = <<>> /\ over' = "unchanged"
  /\ UNCHANGED <<settings, rows>>

AnswerExit ==
  /\ Waits({"exit"})
  /\ \/ /\ over' = "saved"      \* y, or Enter on Yes
        /\ files' = [files EXCEPT ![filename] = config_text(table.names, curr)]
        /\ changed' = FALSE /\ forgot' = FALSE
        /\ stack' = <<>>
        /\ UNCHANGED <<user, curr, edits, filename, show_all_options>>
     \/ over' = "refused" /\ stack' = <<>> /\ UNCHANGED settings
     \/ over' = Empty /\ stack' = <<frame("conf", "root", Empty)>> /\ UNCHANGED settings   \* Escape
  /\ UNCHANGED <<rows, save_and_exit>>

Calls ==
  \/ Open \/ GiveUp \/ Resize \/ Key
  \/ EnterItem \/ (\E res \in 5 .. 8 : SetItem(res) \/ SetNothing(res)) \/ HelpItem
  \/ AskFor(3, "save") \/ AskFor(4, "load") \/ AskFor(9, "search") \/ ShowAll \/ Leave
  \/ ChooseValue
  \/ (\E t \in Typed["string"] : StringEntered(t)) \/ NothingEntered
  \/ (\E t \in Typed["load"] : LoadEntered(t))
  \/ (\E t \in Typed["save"] : SaveEntered(t) \/ SaveRefused(t))
  \/ (\E t \in Typed["search"] : SearchEntered(t)) \/ InputHelp
  \/ LeaveText \/ Jump \/ Exit \/ AnswerExit

\* Nothing menuconfig does changes what was parsed.
Next == Calls /\ UNCHANGED table

Spec == Init /\ [][Next]_vars

-----------------------------------------------------------------------------
\* In every dialog the keys act on what is drawn: the highlighted line is one
\* of a full window onto the items, drawn from the item the keys count from
\* (unless the menu was resized: menubox.c:180-253 forgets to take the first
\* item back), the text steps back to the line its page starts with, and the
\* cursor of an input stands on its position (textbox.c:267-323, inputbox.c:106-218).
DialogsKeepPlace ==
  Waiting => LET b == Top(stack).box IN
    CASE b.kind = "menu"  -> /\ b.items # <<>> => Shown(b, max_choice(b.items, rows))
                             /\ b.resized \/ b.drawn = b.scroll
      [] b.kind = "check" -> b.items # <<>> => Shown(b, check_lines(b.items))
      [] b.kind = "text"  -> text_vscroll(b) = b.top
      [] b.kind = "input" -> CursorOnPosition(b)
      [] b.kind = "yesno" -> b.button \in {0, 1}

\* After any order of edits, loads, saves and refusals the exit asks nothing
\* only when the file that would be written holds the configuration already, or
\* when, with changes to be saved, a file was to be loaded that is not there,
\* and nothing was loaded or saved since: conf_load resets the count of changes
\* then, and nothing else does (mconf.c:903-914, 958; confdata.c:519, 577).
NothingUnsavedIsForgotten == ~changed => forgot \/ files[filename] = config_text(table.names, curr)
=============================================================================
