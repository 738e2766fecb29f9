------------------------------ MODULE Lxdialog ------------------------------
(***************************************************************************)
(* The dialogs of kconfig's lxdialog: menubox.c, checklist.c, textbox.c,   *)
(* inputbox.c, yesno.c and the item list of util.c.  A box is a record of  *)
(* the local variables of its dialog while it waits for a key; lines are   *)
(* positions, a text or an item counts only by what the keys depend on.    *)
(***************************************************************************)
EXTENDS Integers, Sequences, FiniteSetsExt

CONSTANTS MenuFrame,   \* the lines of the screen a menu cannot use (4 + 10)
          ListLines,   \* list_height of a radio list
          BoxWidth,    \* box_width of an input box
          MaxLength,   \* MAX_LEN of an input box
          MaxScroll    \* MAX_LEN of a text box

Lesser(a, b)  == IF a < b THEN a ELSE b
Greater(a, b) == IF a > b THEN a ELSE b

\* A row of buttons, 0 .. last, as left and right walk over it.
NextButton(button, key, last) ==
  IF key = "left" THEN IF button = 0 THEN last ELSE button - 1
  ELSE IF button = last THEN 0 ELSE button + 1

-----------------------------------------------------------------------------
(* The item list, [tag, data, hot, selected]: one global list in the code, *)
(* a sequence here; positions count from 0, as item_n does.                *)

item_make(hot, tag, data) == [hot |-> hot, tag |-> tag, data |-> data, selected |-> FALSE]

item_set(list, n) == list[n + 1]

\* Where the cursor stands after the search for a marked item: -1 without one.
item_activate_selected(list) ==
  LET marked == {i \in DOMAIN list : list[i].selected} IN
  IF marked = {} THEN -1 ELSE Min(marked) - 1

\* first_alpha: the letter an item answers to, not one with a meaning of its own.
first_alpha(item, exempt) == IF item.hot \in exempt THEN "none" ELSE item.hot

\* The item highlighted, and whether the lines shown are lines of the list.
Highlighted(box) == box.scroll + box.choice
Shown(box, lines) ==
  /\ box.choice \in 0 .. (lines - 1)
  /\ box.scroll >= 0
  /\ box.scroll + lines <= Len(box.items)

-----------------------------------------------------------------------------
(* dialog_menu: a window of max_choice lines onto the items, "choice" its  *)
(* highlighted line, "scroll" the item the keys take for its first line,   *)
(* "first_item" the one do_resize draws from.  "drawn", the item on the    *)
(* first line of the screen, and "resized" are no variables of the code.   *)

MenuKeys == {"up", "down", "ppage", "npage", "left", "right"}
OwnKeys  == {"y", "n", "m", "h"}

max_choice(items, rows) == Lesser(rows - MenuFrame, Len(items))

\* A version that takes the saved first line without asking whether the lines
\* below it are there.
restore_scroll_any(items, choice, saved, most) ==
  IF saved <= choice /\ choice < saved + most THEN saved ELSE -1

\* The saved first line if the chosen item is then shown and the lines are full.
restore_scroll(items, choice, saved, most) ==
  IF saved <= choice /\ choice < saved + most /\ saved >= 0 /\ saved + most <= Len(items)
  THEN saved ELSE -1

\* The line of the window of a position in the list.
window_line(choice, scroll) == IF scroll = -1 THEN choice ELSE choice - scroll

\* From do_resize to the first key: the highlight goes to the item whose data
\* is "selected"; without one it keeps "line", taken as a position in the list.
menu_drawn(items, selected, saved, rows, line, first_item, button) ==
  LET most    == max_choice(items, rows)
      wanted  == {i \in DOMAIN items : items[i].data = selected}
      choice  == IF wanted = {} THEN line ELSE Max(wanted) - 1
      scroll  == restore_scroll(items, choice, saved, most)
      below   == window_line(choice, scroll)
      centred == IF below >= Len(items) - most \div 2 THEN Len(items) - most ELSE below - most \div 2
      box(s, f, c) == [kind |-> "menu", items |-> items, button |-> button,
                       scroll |-> s, first_item |-> f, drawn |-> f, choice |-> c, resized |-> FALSE]
  IN CASE below >= most -> box(centred, centred, below - centred)
       [] below < most /\ scroll # -1 -> box(scroll, scroll, below)
       [] OTHER -> box(0, first_item, below)

menu_open(items, selected, saved, rows) == menu_drawn(items, selected, saved, rows, 0, 0, 0)

menu_resized(box, selected, saved, rows) ==
  [menu_drawn(box.items, selected, saved, rows, box.choice, box.first_item, box.button)
     EXCEPT !.resized = TRUE]

\* The next item of the window with the letter, after the highlight or from
\* the first line.
hotkey(box, key, most) ==
  LET hit(i) == first_alpha(item_set(box.items, box.scroll + i), OwnKeys) = key
      window == {i \in 0 .. (most - 1) : hit(i)}
      below  == {i \in window : i > box.choice}
  IN CASE key \in OwnKeys -> {}
       [] key \notin OwnKeys /\ below # {} -> {Min(below)}
       [] OTHER -> IF window = {} THEN {} ELSE {Min(window)}

\* do_scroll moves the lines shown with the first line.
do_scroll(box, n) == [box EXCEPT !.scroll = @ + n, !.drawn = @ + n]

\* A version whose page down moves the window a whole page whatever is left.
menu_page_whole(box, key, most) ==
  do_scroll(box, IF key = "ppage" THEN -Lesser(most, box.scroll) ELSE most)

\* A page is that many steps: the window moves while it can, then the highlight.
menu_page(box, key, most) ==
  LET up   == Lesser(most, box.scroll)
      down == Lesser(most, Len(box.items) - (box.scroll + most))
  IN IF key = "ppage"
     THEN [do_scroll(box, -up) EXCEPT !.choice = Greater(0, @ - (most - up))]
     ELSE [do_scroll(box, down) EXCEPT !.choice = Lesser(most - 1, @ + (most - down))]

\* Near an edge of the window the window moves and not the highlight.
menu_step(box, key, most) ==
  CASE key = "up" /\ box.choice < 2 /\ box.scroll > 0 -> do_scroll(box, -1)
    [] key = "down" /\ box.choice > most - 3 /\ box.scroll + most < Len(box.items) -> do_scroll(box, 1)
    [] OTHER -> [box EXCEPT !.choice = IF key = "up" THEN Greater(@ - 1, 0) ELSE Lesser(@ + 1, most - 1)]

\* One key that stays in the menu.
menu_key(box, key, rows) ==
  LET most == max_choice(box.items, rows)
      hits == hotkey(box, key, most)
  IN CASE hits # {} -> [box EXCEPT !.choice = Min(hits)]
       [] hits = {} /\ key \in {"left", "right"} -> [box EXCEPT !.button = NextButton(@, key, 4)]
       [] hits = {} /\ box.items # <<>> /\ key \in {"up", "down"} -> menu_step(box, key, most)
       [] hits = {} /\ box.items # <<>> /\ key \in {"ppage", "npage"} -> menu_page(box, key, most)
       [] OTHER -> box

\* The keys that leave the menu, and what the caller gets: Enter gives the button.
AnswerKeys == {"h", "y", "n", "m", " ", "/", "z", "enter"}
menu_answer(box, key) ==
  CASE key = "h" -> 2 [] key = "y" -> 5 [] key = "n" -> 6 [] key = "m" -> 7
    [] key = " " -> 8 [] key = "/" -> 9 [] key = "z" -> 10 [] key = "enter" -> box.button

-----------------------------------------------------------------------------
(* dialog_checklist: the radio list of a choice, of ListLines lines.       *)

ChosenTag == "X"

CheckKeys == {"up", "down", "left", "right"}

check_lines(items) == Lesser(ListLines, Len(items))

\* The highlight starts at the first marked item, else at the last one tagged.
check_open(items) ==
  LET tagged == {i \in DOMAIN items : items[i].tag = ChosenTag}
      start  == IF item_activate_selected(items) # -1 THEN item_activate_selected(items)
                ELSE IF tagged # {} THEN Max(tagged) - 1 ELSE 0
      scroll == IF start >= ListLines THEN start - ListLines + 1 ELSE 0
  IN [kind |-> "check", items |-> items, button |-> 0, scroll |-> scroll, choice |-> start - scroll]

\* A letter goes to the first item of the window that starts with it; up and
\* down move the highlight, and the window when the highlight is at its edge.
check_key(box, key) ==
  LET most == check_lines(box.items)
      hits == {i \in 0 .. (most - 1) : item_set(box.items, box.scroll + i).hot = key}
  IN CASE key = "up" -> IF box.choice > 0 THEN [box EXCEPT !.choice = @ - 1]
                        ELSE [box EXCEPT !.scroll = Greater(0, @ - 1)]
       [] key = "down" -> IF box.choice # most - 1 THEN [box EXCEPT !.choice = @ + 1]
                          ELSE [box EXCEPT !.scroll = IF Highlighted(box) >= Len(box.items) - 1 THEN @ ELSE @ + 1]
       [] key \in {"left", "right"} -> [box EXCEPT !.button = NextButton(@, key, 1)]
       [] key \notin CheckKeys /\ hits # {} -> [box EXCEPT !.choice = Min(hits)]
       [] OTHER -> box

\* The key that leaves the list: the item highlighted is the only one marked.
check_marked(box) ==
  [i \in DOMAIN box.items |-> [box.items[i] EXCEPT !.selected = (i = Highlighted(box) + 1)]]

-----------------------------------------------------------------------------
(* dialog_textbox: a text is its number of lines, all ended by a newline.  *)
(* "page" is the start of a line, 0 the first, the number of lines the end *)
(* of the text.  After a page is printed "page" stands behind its last     *)
(* line, and every key steps back from there by lines counted while        *)
(* printing; "top" (no variable of the code) is where printing started.    *)

\* n calls of get_line: over the end, the last ones only find the end again.
get_lines(t, n) ==
  [t EXCEPT !.page = Lesser(@ + n, t.lines),
            !.end_reached = IF n = 0 THEN @ ELSE t.page + n > t.lines]

\* A version that does not count the end of the text as a line.
back_lines_no_end(t, n) ==
  [t EXCEPT !.begin_reached = n >= t.page /\ n > 0, !.page = Greater(0, @ - n)]

\* Back n lines, if n is one: the end of the text, once printed, is one of them.
back_lines(t, n) ==
  LET at_end == t.end_reached /\ t.page = t.lines /\ n > 0
      back   == Greater(0, IF at_end THEN n - 1 ELSE n)
  IN [t EXCEPT !.end_reached = IF at_end THEN FALSE ELSE @,
               !.begin_reached = back > 0 /\ back >= t.page,
               !.page = Greater(0, @ - back)]

\* Printing height lines; with update_text the lines are first looked through
\* and gone back over.
print_page(t, height, updates) ==
  LET start == IF updates THEN back_lines(get_lines(t, height), height) ELSE t
      after == get_lines(start, height)
  IN [after EXCEPT !.top = start.page,
                   !.page_length = Lesser(height, after.lines - start.page + 1)]

text_open(lines, vscroll, hscroll, height, updates) ==
  LET t == [kind |-> "text", lines |-> lines, page |-> 0, begin_reached |-> TRUE, end_reached |-> FALSE,
            page_length |-> 0, hscroll |-> hscroll, top |-> 0]
  IN print_page(IF vscroll = 0 THEN t ELSE [get_lines(t, vscroll) EXCEPT !.begin_reached = FALSE],
                height, updates)

TextKeys == {"home", "end", "up", "ppage", "down", "npage", "left", "right"}

\* Where the next page starts, for a key that prints one.
text_turned(t, key, height) ==
  CASE key = "home"  -> [t EXCEPT !.begin_reached = TRUE, !.page = 0]
    [] key = "end"   -> back_lines([t EXCEPT !.end_reached = TRUE, !.page = t.lines], height)
    [] key = "up"    -> back_lines(t, t.page_length + 1)
    [] key = "ppage" -> back_lines(t, t.page_length + height)
    [] key = "down"  -> back_lines(t, t.page_length - 1)
    [] key = "npage" -> [t EXCEPT !.begin_reached = FALSE]
    [] key = "left"  -> back_lines([t EXCEPT !.hscroll = @ - 1], t.page_length)
    [] key = "right" -> back_lines([t EXCEPT !.hscroll = @ + 1], t.page_length)

text_key(t, key, height, updates) ==
  LET ignored == \/ key \in {"home", "up", "ppage"} /\ t.begin_reached
                 \/ key \in {"down", "npage"} /\ t.end_reached
                 \/ key = "left" /\ t.hscroll = 0
                 \/ key = "right" /\ t.hscroll >= MaxScroll
  IN IF ignored THEN t ELSE print_page(text_turned(t, key, height), height, updates)

\* The page goes back by the height of the dialog it had, border and all, and
\* is printed again in the size it has now.
text_resized(t, height_before, height, updates) ==
  print_page(back_lines(t, height_before), height, updates)

\* What the caller gets to open the text again: the newlines before the page.
text_vscroll(t) == back_lines(t, t.page_length).page

-----------------------------------------------------------------------------
(* dialog_inputbox: the text typed counts by its length, and by whether it *)
(* is still the one the box was opened with.  "pos" is the position in it, *)
(* "show_x" the first character shown, "input_x" the column of the cursor. *)
(* "button" is -1 in the text, 0 on Ok, 1 on Help.                         *)

\* The text as do_resize finds it, the cursor behind its last character.
input_drawn(len, button, edited) ==
  LET hidden == IF len >= BoxWidth THEN len - BoxWidth + 1 ELSE 0
  IN [kind |-> "input", len |-> len, pos |-> len, show_x |-> hidden, input_x |-> len - hidden,
      button |-> button, edited |-> edited]

input_open(len) == input_drawn(len, -1, FALSE)

\* A version that leaves the first character shown where it is.
input_backspace_unscrolled(b) ==
  [b EXCEPT !.input_x = IF @ = 0 THEN 0 ELSE @ - 1, !.pos = @ - 1, !.len = @ - 1, !.edited = TRUE]

input_backspace(b) ==
  [b EXCEPT !.show_x = IF b.input_x = 0 THEN @ - 1 ELSE @,
            !.input_x = IF @ = 0 THEN 0 ELSE @ - 1,
            !.pos = @ - 1, !.len = @ - 1, !.edited = TRUE]

input_left(b) ==
  [b EXCEPT !.input_x = IF @ > 0 THEN @ - 1 ELSE 0,
            !.show_x = IF b.input_x > 0 THEN @ ELSE @ - 1,
            !.pos = @ - 1]

input_forward(b) ==
  [b EXCEPT !.input_x = IF @ < BoxWidth - 1 THEN @ + 1 ELSE @,
            !.show_x = IF b.input_x < BoxWidth - 1 THEN @ ELSE @ + 1,
            !.pos = @ + 1]

InputKeys == {"char", "backspace", "left", "right", "up", "down"}

\* One key that stays in the dialog.  In the text the arrows move the cursor,
\* a character goes in at it; elsewhere they walk over the fields.
input_key(b, key) ==
  LET inside == b.button = -1 IN
  CASE inside /\ key = "backspace" -> IF b.pos > 0 THEN input_backspace(b) ELSE b
    [] inside /\ key = "left"  -> IF b.pos > 0 THEN input_left(b) ELSE b
    [] inside /\ key = "right" -> IF b.pos < b.len THEN input_forward(b) ELSE b
    [] inside /\ key = "char"  ->
         IF b.len < MaxLength THEN input_forward([b EXCEPT !.len = @ + 1, !.edited = TRUE]) ELSE b
    [] key \in {"up", "down"} \/ (~inside /\ key \in {"left", "right"}) ->
         [b EXCEPT !.button = NextButton(@ + 1, IF key = "up" THEN "left" ELSE key, 2) - 1]
    [] OTHER -> b

\* Enter answers with the button, Ok when it is pressed in the text.
input_answer(b) == IF b.button = -1 THEN 0 ELSE b.button

\* The cursor stands on the character that the next key changes.
CursorOnPosition(b) ==
  /\ b.pos \in 0 .. b.len
  /\ b.show_x >= 0 /\ b.input_x \in 0 .. (BoxWidth - 1)
  /\ b.show_x + b.input_x = b.pos

-----------------------------------------------------------------------------
(* dialog_yesno: two buttons, Yes (0) and No (1).                          *)

yesno_open == [kind |-> "yesno", button |-> 0]

yesno_key(box, key) == [box EXCEPT !.button = NextButton(@, key, 1)]
=============================================================================
