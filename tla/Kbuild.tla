------------------------------- MODULE Kbuild -------------------------------
(***************************************************************************)
(* Configuring: "make menuconfig" runs mconf and then conf --syncconfig,   *)
(* "make defconfig" runs conf --defconfig and then the same.  The programs *)
(* (confdata.c, conf.c, the end of mconf.c) work on files in steps, and    *)
(* every one of them may be killed between two steps.  The Kconfig file    *)
(* itself changes too, with the version of the sources.  What the files    *)
(* promise is stated for a reader of the dependency files.  This           *)
(* repository has none: cpu/Makefile builds from the sources it lists and  *)
(* takes CONFIG_DIFFTEST from auto.conf, whatever the age of that file.    *)
(***************************************************************************)
EXTENDS ConfFile

CONSTANTS Tables,    \* what conf_parse makes of the versions of the Kconfig file
          Settable,  \* the symbols the user changes in a menu
          Texts,     \* the numbers the user types
          MaxStarts  \* how often the user starts a program (a bound of the model)

ASSUME BuildAssumption ==
  /\ \A table \in Tables : TableOK(table)
  /\ \A text \in Texts : IsNumber(text)

VARIABLES disk,     \* .config, .config.old, auto.conf, autoconf.h, configs/defconfig
          kconfig,  \* the version of the Kconfig file that is there, parsed
          running,  \* the program that runs, its step and what it knows
          touched,  \* dependency files written since a reader looked at them
          noted,    \* auto.conf as that reader found it, or Missing
          fresh,    \* auto.conf is newer than .config and the Kconfig file
          saved,    \* the configuration written last (no file of the code)
          starts    \* of programs by the user

build_vars == <<disk, kconfig, running, touched, noted, fresh, saved, starts>>

\* The symbols of the version that is there.
names == kconfig.names
db    == kconfig.db
order == kconfig.order
CurrentValues(user) == Values(order, db, user, 0)
Read(file) == conf_read(order, db, NothingSaid, file, FALSE)

\* "curr" are the values that follow from what the user said.
Step(program, step, user) ==
  [program |-> program, step |-> step, user |-> user, curr |-> CurrentValues(user), todo |-> {}]
Unread(program, step) == [program |-> program, step |-> step, user |-> NothingSaid, curr |-> NoValues(0), todo |-> {}]
Idle == Unread("none", "none")

BuildInit ==
  /\ disk = [config |-> Missing, old |-> Missing, auto |-> Missing, header |-> Missing, defconfig |-> Missing]
  /\ kconfig \in Tables
  /\ running = Idle
  /\ touched = {} /\ noted = Missing /\ fresh = FALSE /\ saved = Missing /\ starts = 0

-----------------------------------------------------------------------------
(* From one program and one step to the next.                              *)

\* A version that renames auto.conf before what it stands for is done.
autoconf_steps_marker_first == <<"auto", "touch", "header">>

\* conf_write_autoconf: the dependency files, the header, and auto.conf last.
autoconf_steps == <<"touch", "header", "auto">>

\* What runs after the last step: conf --syncconfig, nothing after that.
Finished(r) == IF r.program = "conf" THEN Idle ELSE Unread("conf", "read")

AutoconfAt(r, auto, i) ==
  IF i > Len(autoconf_steps) THEN Finished(r)
  ELSE [r EXCEPT !.step = autoconf_steps[i],
                 !.todo = IF autoconf_steps[i] = "touch" THEN conf_touch_deps(names, db, r.curr, auto) ELSE {}]

NextAutoconf(r, auto) ==
  AutoconfAt(r, auto, 1 + CHOOSE i \in DOMAIN autoconf_steps : autoconf_steps[i] = r.step)

\* Only conf --syncconfig writes over an auto.conf that is there.
conf_write_autoconf(r, auto) ==
  IF r.program # "conf" /\ auto # Missing THEN Finished(r) ELSE AutoconfAt(r, auto, 1)

\* conf_write: a file that would be the same is left alone.
conf_write(r) ==
  IF disk.config = config_text(names, r.curr) THEN conf_write_autoconf(r, disk.auto)
  ELSE [r EXCEPT !.step = "backup"]

-----------------------------------------------------------------------------
(* The programs.                                                           *)

StartedByUser == running = Idle /\ starts < MaxStarts /\ starts' = starts + 1

\* mconf has read what there is; the user changes one thing or nothing.
Changes(user, curr) ==
  LET seen == {s \in Settable \cap Range(order) : curr[s].visible # 0}
  IN {sym_set_tristate_value(s, t, db, user, curr) : s \in {x \in seen : Logical(x)}, t \in {0, 2}}
       \cup {sym_set_string_value(s, str, db, user, curr) : s \in {x \in seen : ~Logical(x)}, str \in Texts}
       \cup {[ok |-> TRUE, user |-> user, cleared |-> FALSE]}

Menuconfig ==
  /\ StartedByUser
  /\ \E r \in {Read(disk.config)} :
     \E set \in Changes(r.user, CurrentValues(r.user)) :
       /\ set.ok
       /\ running' = Step("mconf", IF r.changed \/ set.cleared THEN "save?" ELSE "leave", set.user)
  /\ UNCHANGED <<disk, kconfig, touched, noted, fresh, saved>>

\* handle_exit: what is to be saved is saved or not.
LeaveMenus ==
  /\ running.program = "mconf" /\ running.step \in {"save?", "leave"}
  /\ \/ running.step = "save?" /\ running' = conf_write(running)
     \/ running' = Finished(running)
  /\ UNCHANGED <<disk, kconfig, touched, noted, fresh, saved, starts>>

\* conf --defconfig, or --alldefconfig, which reads nothing, where there is no
\* such file or nothing in it.
from_defconfig(file) ==
  LET set(user, curr) == conf_set_all_new_symbols(order, db, user, curr)
      new(user) == set(user, CurrentValues(user))
  IN IF file \in {Missing, <<>>} THEN set(NothingSaid, NoValues(0))
     ELSE new(conf_read(order, db, NothingSaid, file, TRUE).user)

Defconfig ==
  /\ StartedByUser
  /\ running' = Step("defconfig", "answered", from_defconfig(disk.defconfig))
  /\ UNCHANGED <<disk, kconfig, touched, noted, fresh, saved>>

\* conf --savedefconfig, of the defaults where there is no .config.
Savedefconfig ==
  /\ StartedByUser
  /\ disk' = [disk EXCEPT !.defconfig = conf_write_defconfig(names, db, CurrentValues(Read(disk.config).user))]
  /\ UNCHANGED <<kconfig, running, touched, noted, fresh, saved>>

\* conf --syncconfig reads what there is.
ReadConfig ==
  /\ running.program = "conf" /\ running.step = "read"
  /\ running' = Step("conf", "ask", Read(disk.config).user)
  /\ UNCHANGED <<disk, kconfig, touched, noted, fresh, saved, starts>>

\* What conf has to ask: a symbol that shows, may be changed and is new, or a
\* choice that is made and is new.
Questions(user, curr) ==
  {s \in Range(order) :
     /\ ~sym_has_value(s, db, user, curr) /\ curr[s].visible # 0
     /\ sym_is_changeable(s, curr) \/ (sym_is_choice(s) /\ curr[s].tri = 2)}

\* The answers it takes: y or n, a number, one of the values of a choice.
AnswersTo(s, user, curr) ==
  {r \in CASE sym_is_choice(s) ->
                {sym_set_tristate_value(x, 2, db, user, curr) : x \in {y \in Range(db[s].values) : curr[y].visible # 0}}
           [] ~sym_is_choice(s) /\ Logical(s) -> {sym_set_tristate_value(s, t, db, user, curr) : t \in {0, 2}}
           [] OTHER -> {sym_set_string_value(s, str, db, user, curr) : str \in Texts \cup {curr[s].val}} : r.ok}

Ask ==
  /\ running.step = "ask"
  /\ \E s \in Questions(running.user, running.curr) : \E r \in AnswersTo(s, running.user, running.curr) :
       running' = Step("conf", "ask", r.user)
  /\ UNCHANGED <<disk, kconfig, touched, noted, fresh, saved, starts>>

\* Nothing is left to ask.
Answered ==
  /\ \/ running.step = "answered"
     \/ running.step = "ask" /\ Questions(running.user, running.curr) = {}
  /\ running' = conf_write(running)
  /\ UNCHANGED <<disk, kconfig, touched, noted, fresh, saved, starts>>

-----------------------------------------------------------------------------
(* The steps on the files.                                                *)

\* A version that removes the file it is about to replace.
backup_removed(fs) == [fs EXCEPT !.config = Missing]

\* rename(name, oldname), which fails where there is no such file.
backup(fs) == IF fs.config = Missing THEN fs ELSE [fs EXCEPT !.old = fs.config, !.config = Missing]

Backup ==
  /\ running.step = "backup"
  /\ disk' = backup(disk)
  /\ running' = [running EXCEPT !.step = "replace"]
  /\ fresh' = FALSE
  /\ UNCHANGED <<kconfig, touched, noted, saved, starts>>

Replace ==
  /\ running.step = "replace"
  /\ disk' = [disk EXCEPT !.config = config_text(names, running.curr)]
  /\ running' = conf_write_autoconf(running, disk.auto)
  /\ saved' = disk'.config
  /\ UNCHANGED <<kconfig, touched, noted, fresh, starts>>

Touch ==
  /\ running.step = "touch" /\ running.todo # {}
  /\ \E s \in running.todo :
       /\ touched' = touched \cup {s}
       /\ running' = [running EXCEPT !.todo = @ \ {s}]
  /\ UNCHANGED <<disk, kconfig, noted, fresh, saved, starts>>

Touched ==
  /\ running.step = "touch" /\ running.todo = {}
  /\ running' = NextAutoconf(running, disk.auto)
  /\ UNCHANGED <<disk, kconfig, touched, noted, fresh, saved, starts>>

WriteHeader ==
  /\ running.step = "header"
  /\ disk' = [disk EXCEPT !.header = auto_text(names, running.curr)]
  /\ running' = NextAutoconf(running, disk'.auto)
  /\ UNCHANGED <<kconfig, touched, noted, fresh, saved, starts>>

WriteAuto ==
  /\ running.step = "auto"
  /\ disk' = [disk EXCEPT !.auto = auto_text(names, running.curr)]
  /\ running' = NextAutoconf(running, disk'.auto)
  /\ fresh' = TRUE
  /\ UNCHANGED <<kconfig, touched, noted, saved, starts>>

\* The program is killed, and make with it.
Crash ==
  /\ running # Idle
  /\ running' = Idle
  /\ UNCHANGED <<disk, kconfig, touched, noted, fresh, saved, starts>>

-----------------------------------------------------------------------------
(* The version of the sources, and a reader of the files.                 *)

\* Another version of the Kconfig file.
Checkout ==
  /\ running = Idle
  /\ kconfig' \in Tables \ {kconfig}
  /\ fresh' = FALSE
  /\ UNCHANGED <<disk, running, touched, noted, saved, starts>>

\* Between two programs anyone may look at auto.conf, and later take what has
\* changed since from the age of the dependency files, as a build through
\* fixdep would.
Look ==
  /\ running = Idle /\ disk.auto # Missing
  /\ noted' = disk.auto
  /\ touched' = {}
  /\ UNCHANGED <<disk, kconfig, running, fresh, saved, starts>>

BuildNext ==
  \/ Menuconfig \/ LeaveMenus \/ Defconfig \/ Savedefconfig \/ ReadConfig \/ Ask \/ Answered
  \/ Backup \/ Replace \/ Touch \/ Touched \/ WriteHeader \/ WriteAuto \/ Crash
  \/ Checkout \/ Look

BuildSpec == BuildInit /\ [][BuildNext]_build_vars

-----------------------------------------------------------------------------
\* What a file says of a symbol.
Says(file, s) == {line \in Range(file) : line.sym = s}

\* Whatever was killed where, between the look and now and before: auto.conf
\* says of a symbol what it said at the look, or the dependency file of the
\* symbol was written since; and while auto.conf is newer than .config and the
\* Kconfig file, it and the header are what .config sets.  conf_write_autoconf
\* touches what changed before the header and the header before auto.conf
\* (confdata.c:969-1100, "This must be the last step").
ChangesAreMarked ==
  /\ noted # Missing => \A s \in DOMAIN Type \ touched : Says(noted, s) = Says(disk.auto, s)
  /\ running = Idle /\ fresh =>
       /\ disk.header = disk.auto
       /\ Range(disk.auto) = {line \in Range(disk.config) : line.val # "unset"}

\* No kill between the two renames of conf_write, and no run after it, loses
\* the configuration saved last: it is .config or .config.old (confdata.c:918-929).
SavedConfigSurvives == saved # Missing => saved \in {disk.config, disk.old}

\* What is written is what is read back: a .config of this version is complete
\* and gives the same values, and so does the minimal file savedefconfig makes
\* of it, read into a new configuration (confdata.c:350-580, 751-822).
FilesReadBack ==
  LET text(user)    == config_text(names, CurrentValues(user))
      minimal(user) == conf_write_defconfig(names, db, CurrentValues(user))
  IN (running = Idle /\ disk.config # Missing) =>
       \A r \in {Read(disk.config)} :
         ~r.changed => text(r.user) = disk.config /\ text(from_defconfig(minimal(r.user))) = disk.config
=============================================================================
