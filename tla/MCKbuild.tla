------------------------------ MODULE MCKbuild ------------------------------
(* Two versions of the Kconfig file: the first has no number to give.       *)
EXTENDS Kbuild, KconfigMenu

Without(entries, syms) == SelectSeq(entries, LAMBDA m : m.sym \notin syms)

\* What a version leaves out of Simulation, and the order of its symbols.
Version(gone, kept) == [gone |-> gone, kept |-> kept]
Versions == {Version({"START", "TRACE", "FTRACE"}, <<"WAVE", "CHOICE", "FULL", "RANGE", "MODE">>),
             Version({"TRACE", "FTRACE"}, <<"WAVE", "CHOICE", "FULL", "RANGE", "MODE", "START">>)}
MCTables == {conf_parse(<<Menu("sim", Without(Simulation, v.gone))>>, v.kept) : v \in Versions}
MCSettable == {"WAVE", "FULL", "RANGE", "START"}
MCTexts == {"0", "77"}
\* The value of an expression; its evaluation is followed in one place.
MCExprValue(expr, values) == LET value == expr_calc_value(expr, values) IN value
=============================================================================
