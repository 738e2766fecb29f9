----------------------------- MODULE MCExuPipe ------------------------------
(* Instances of ExuPipe for TLC. *)
EXTENDS ExuPipe

x(n) == [file |-> "x", n |-> n]
f(n) == [file |-> "f", n |-> n]

MCRegs == {x(0), x(1), f(0)}

Ins(kind, rd, src, c, flag) ==
  [kind |-> kind, rd |-> rd, src |-> src, csr |-> c, flag |-> flag]

Integer ==
  {Ins("alu", x(1), x(1), "mepc", 0), Ins("alu", x(0), x(0), "mepc", 0),
   Ins("jump", x(1), x(1), "mepc", 0),
   Ins("load", x(1), x(1), "mepc", 0), Ins("mdu", x(1), x(1), "mepc", 0),
   Ins("fence", NoReg, NoReg, "mepc", 0)}

Float ==
  {Ins("fma", f(0), f(0), "mepc", 0),
   Ins("fdiv", f(0), f(0), "mepc", 1), Ins("fquick", x(1), f(0), "mepc", 0)}

System ==
  {Ins("csr", x(1), x(1), "mepc", 0), Ins("csr", x(1), x(1), "fflags", 0)}

MCProgram == Integer \cup Float \cup System
=============================================================================
