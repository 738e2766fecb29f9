---------------------------- MODULE MCMenuConfig ----------------------------
(***************************************************************************)
(* menuconfig on the CpuKconfig of KconfigMenu.  Texts are as long as one      *)
(* scroll asks for, the input box is two columns wide.  A behaviour is     *)
(* followed in one of two scopes: in "dialogs" every key and every size    *)
(* of the screen while the files stay as they are, in "files" every edit,  *)
(* load and save on one screen.                                            *)
(***************************************************************************)
EXTENDS MenuConfig, KconfigMenu

MCEarlier == [NothingSaid EXCEPT !.has["WAVE"] = TRUE, !.tri["WAVE"] = 2]

CONSTANT DialogEdits   \* changes followed in the first scope

VARIABLE scope

MCInit == Init /\ scope \in {"dialogs", "files"}
MCSpec == MCInit /\ [][Next /\ UNCHANGED scope]_<<vars, scope>>

\* A dialog as a user in a hurry leaves it: the text not turned, the cursor at
\* the end of what is typed, the buttons that are needed.
Plain(box) ==
  CASE box.kind = "text"  -> box.top = 0 /\ box.hscroll = 0
    [] box.kind = "input" -> box.pos = box.len /\ box.button = -1
    [] box.kind = "menu"  -> box.button \in {0, 3, 4}
    [] OTHER -> TRUE

\* The steps followed.
InScope ==
  CASE scope = "dialogs" ->
         /\ edits' <= DialogEdits
         /\ edits' = 0 \/ (Len(stack') <= 2 /\ UNCHANGED rows)
         /\ UNCHANGED <<files, filename>>
         /\ edits' = edits => UNCHANGED <<user, changed>>
    [] scope = "files" ->
         /\ UNCHANGED <<rows, show_all_options>>
         /\ Len(stack') <= 2
         /\ stack' # <<>> => Plain(Top(stack').box)

MCParsed == conf_parse(Simulation \o << Menu("devices", DevicesMenu) >>, CpuOrder)

MCHotOf == [root |-> "none", devices |-> "d", WAVE |-> "r", CHOICE |-> "w", FULL |-> "f",
            RANGE |-> "r", MODE |-> "w", START |-> "w", TRACE |-> "r", FTRACE |-> "r", SERIAL |-> "r"]

MCMessages  == {"setmod", "invalid", "no_file", "no_save", "saved"}
MCTextLines == [t \in MCMessages \cup {"help", "readme"} |-> CASE t = "help" -> 3 [] t = "readme" -> 11 [] OTHER -> 1]

MCTyped == [string |-> {"", "0", "1", "77"}, load |-> {"", "config", "alt", "no"},
            save |-> {"", "config", "alt", "dir"}, search |-> {"race", "start", ""}]
MCLengthOf == [t \in {"", "0", "1", "77", "no", "alt", "config", "dir", "race", "start"} |->
                 CASE t = "" -> 0 [] t \in {"77", "config", "start"} -> 2 [] OTHER -> 1]
MCFoundBy == [q \in {"race", "start", ""} |->
                CASE q = "race" -> <<"TRACE", "FTRACE">> [] q = "start" -> <<"START">> [] OTHER -> <<>>]

\* The value of an expression; its evaluation is followed in one place.
MCExprValue(expr, values) == LET value == expr_calc_value(expr, values) IN value
=============================================================================
