------------------------------- MODULE SdbExpr -------------------------------
(* The expressions of the debugger's p, x and w (expr.cpp): characters become *)
(* tokens, and the token range is split at its main operator.  A token is a   *)
(* number or a symbol; registers and hexadecimal numbers have become numbers, *)
(* "neg" and "deref" are the unary uses of "-" and "*".                       *)
EXTENDS Integers, Sequences, SequencesExt, FiniteSetsExt

CONSTANTS WordBits,
          pmem_read(_),         \* the word at an address
          Numbers,              \* the user writes (what atoi takes)
          Levels                \* of operators in an expression (a bound of the model)

ASSUME ExprAssumption == WordBits \in Nat \ {0} /\ Levels \in Nat

NR_TOKENS == 1000               \* the array tokens; nobody looks for its end

Modulus == 2 ^ WordBits
Word(v) == v % Modulus
Invalid == Modulus - 1          \* -1 as a word_t

Num(v) == [type |-> "num", val |-> v]
Sym(c) == [type |-> c, val |-> 0]
Binary == {"+", "-", "*", "/", "==", "!=", "&&"}

(* "-" and "*" are unary at the beginning and behind an opening parenthesis   *)
(* or an operator; "-" also behind another unary "-".                         *)
token_after(before, char) ==
    CASE char.type = "-" /\ before \in Binary \cup {"(", "neg"} -> Sym("neg")
      [] char.type = "*" /\ before \in Binary \cup {"("}        -> Sym("deref")
      [] OTHER -> char

make_token(chars) ==
    LET token[k \in 0 .. Len(chars)] ==
          IF k = 0 THEN Sym("(") ELSE token_after(token[k - 1].type, chars[k])
    IN [k \in 1 .. Len(chars) |-> token[k]]

(* Opening less closing parentheses among the tokens p..i.                    *)
Depth(toks, p, i) ==
    Cardinality({k \in p..i : toks[k].type = "("}) - Cardinality({k \in p..i : toks[k].type = ")"})

check_parentheses(toks, p, q) ==
    /\ toks[p].type = "(" /\ toks[q].type = ")"
    /\ \A i \in p .. q - 1 : Depth(toks, p, i) # 0
    /\ Depth(toks, p, q) = 0

operator_level(t) ==
    CASE t = "neg"            -> 5
      [] t \in {"+", "-"}     -> 4
      [] t \in {"*", "/"}     -> 3
      [] t \in {"==", "!="}   -> 2
      [] t = "&&"             -> 1
      [] OTHER                -> -1

(* The operators among the tokens p..q outside parentheses.                  *)
outside(toks, p, q) == {i \in p..q : Depth(toks, p, i) = 0 /\ toks[i].type \notin {"num", ")"}}

highest(toks, ops) == {i \in ops : \A j \in ops : operator_level(toks[j].type) <= operator_level(toks[i].type)}

(* Of the operators outside parentheses the last of the highest level; 0 when *)
(* a parenthesis closes too early or there is nothing but numbers.            *)
(* Mutant: the first of the highest level.                                    *)
find_main_operator_first(toks, p, q) ==
    IF outside(toks, p, q) = {} \/ (\E i \in p..q : Depth(toks, p, i) < 0) THEN 0
    ELSE Min(highest(toks, outside(toks, p, q)))
find_main_operator(toks, p, q) ==
    IF outside(toks, p, q) = {} \/ (\E i \in p..q : Depth(toks, p, i) < 0) THEN 0
    ELSE Max(highest(toks, outside(toks, p, q)))

Truth(b) == IF b THEN 1 ELSE 0

Apply(op, a, b) ==
    CASE op = "+"  -> Word(a + b)
      [] op = "-"  -> Word(a - b)
      [] op = "*"  -> Word(a * b)
      [] op = "/"  -> IF b = 0 THEN 0 ELSE a \div b
      [] op = "!=" -> Truth(a # b)
      [] op = "==" -> Truth(a = b)
      [] op = "&&" -> Truth(a # 0 /\ b # 0)
      [] OTHER     -> 0

(* eval of the tokens p..q, where "value" has the ranges inside.              *)
eval_range(toks, value, p, q) ==
    LET op == find_main_operator(toks, p, q)
        negs == Max({k \in 1 .. q - op + 1 : \A j \in op .. op + k - 1 : toks[j].type = "neg"})
        operand == value[<<op + negs, q>>]
    IN CASE p > q -> 0
         [] p = q -> IF toks[p].type = "num" THEN toks[p].val ELSE Invalid
         [] p < q /\ check_parentheses(toks, p, q) -> value[<<p + 1, q - 1>>]
         [] p < q /\ ~check_parentheses(toks, p, q) ->
              CASE op = 0 -> Invalid
                [] op > 0 /\ toks[op].type = "neg" ->
                     IF negs % 2 = 0 THEN operand ELSE Word(-operand)
                [] op > 0 /\ toks[op].type = "deref" ->
                     CASE op < q /\ toks[op + 1].type = "num" -> pmem_read(toks[op + 1].val)
                       [] op < q /\ toks[op + 1].type = "("   -> pmem_read(value[<<op + 1, q>>])
                       [] OTHER                            -> Invalid
                [] OTHER -> Apply(toks[op].type, value[<<p, op - 1>>], value[<<op + 1, q>>])

eval(toks) ==
    LET value[range \in (1 .. Len(toks) + 1) \X (0 .. Len(toks))] == eval_range(toks, value, range[1], range[2])
    IN value

expr(chars) == eval(make_token(chars))[<<1, Len(chars)>>]

-------------------------------------------------------------------------------
(* What is meant: trees with their value, and how a user writes them.  Sums   *)
(* and products take parentheses where precedence and left association ask    *)
(* for them.  The operands of the others are always in parentheses, and so is *)
(* a negation or a dereference: the splitting above gives those operators the *)
(* levels of the table, upside down, and leaves out what stands before them.  *)
Leaf(v)       == [op |-> "leaf", val |-> v, chars |-> <<Num(v)>>]
Loose(t, ops) == IF t.op \in ops THEN <<Sym("(")>> \o t.chars \o <<Sym(")")>> ELSE t.chars
Sums     == {"+", "-"}
Products == {"*", "/"}
Others   == {"==", "!=", "&&"}

Node(op, a, b) ==
    [op |-> op, val |-> Apply(op, a.val, b.val),
     chars |-> CASE op \in Sums     -> Loose(a, Others) \o <<Sym(op)>> \o Loose(b, Others \cup Sums)
                 [] op \in Products -> Loose(a, Others \cup Sums) \o <<Sym(op)>>
                                       \o Loose(b, Others \cup Sums \cup Products)
                 [] op \in Others   -> Loose(a, Binary) \o <<Sym(op)>> \o Loose(b, Binary)]

Minus(a) == [op |-> "leaf", val |-> Word(-a.val),
             chars |-> <<Sym("("), Sym("-")>> \o Loose(a, Binary) \o <<Sym(")")>>]
Memory(a) == [op |-> "leaf", val |-> pmem_read(a.val),
              chars |-> <<Sym("("), Sym("*")>> \o Loose(a, Binary) \o <<Sym(")")>>]

(* Trees of one level more.                                                   *)
Grown(trees) == trees \cup {Node(op, a, b) : op \in Binary, a \in trees, b \in trees}
                      \cup {Minus(a) : a \in trees} \cup {Memory(a) : a \in trees}

Trees ==
    LET upto[k \in 0 .. Levels] == IF k = 0 THEN {Leaf(v) : v \in Numbers} ELSE Grown(upto[k - 1])
    IN upto[Levels]

-------------------------------------------------------------------------------
(* p, x and w: an expression is typed, and evaluated.                         *)
VARIABLE typed
Nothing == Leaf(0)

ExprInit == typed = Nothing
cmd_p    == typed = Nothing /\ \E t \in Trees : Len(t.chars) <= NR_TOKENS /\ typed' = t
Answered == typed # Nothing /\ typed' = Nothing
ExprSpec == ExprInit /\ [][cmd_p \/ Answered]_typed

(* What p prints is the value of the expression as it is meant, for sums and  *)
(* products of any shape and for the other operators with their operands in   *)
(* parentheses (expr.cpp:89-323).                                             *)
EvaluatesRightly == expr(typed.chars) = typed.val
===============================================================================
