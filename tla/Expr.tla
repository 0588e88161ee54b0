-------------------------------- MODULE Expr --------------------------------
(***************************************************************************)
(* The expressions of a theme's attributes (expr.rs): what parse makes of  *)
(* a text and eval of the result.  A text is a sequence of tokens, which   *)
(* grows for as long as the parser finds no fault in it.                   *)
(*                                                                         *)
(* A tree is a tuple of what it is and its parts; a leaf is its token.     *)
(* Numbers are whole, with Nan for the one that is none.                   *)
(***************************************************************************)
EXTENDS Integers, Sequences, FiniteSets, TLC

CONSTANTS Alphabets,    \* records: tokens a text is made of, and how many at most
          Vars,         \* what $v may be bound to
          MaxSyntax     \* MAX_SYNTAX_BYTES

VARIABLES text, alphabet

exprVars == <<text, alphabet>>

Nan == 1000
Endless == 999          \* f64::INFINITY, a bound of clamp
Leaves == {"0", "1", "nan", "s", "clamp", "lerp", "other", "$v"}
Names == {"nan", "s", "clamp", "lerp", "other"}
Compares == {"==", "!=", "<", "<=", ">", ">="}
Adds == {"+", "-"}
Muls == {"*", "/", "%"}

-----------------------------------------------------------------------------
(* The parser.                                                             *)

\* The bytes of a token that check_complexity counts.
Bytes(token) == IF token \in Leaves THEN 0
                ELSE IF token \in {"??", "==", "!=", "<=", ">="} THEN 2 ELSE 1
Syntax[s \in Seq(STRING)] == IF s = <<>> THEN 0 ELSE Bytes(Head(s)) + Syntax[Tail(s)]

Token(s, i) == IF i \in DOMAIN s THEN s[i] ELSE "end"
Read(tree, i) == [ok |-> TRUE, tree |-> tree, at |-> i]
Fault(i) == [ok |-> FALSE, tree |-> <<>>, at |-> i]

\* p[<<rule, i>>] is what the parser's function for that rule reads from i on.

RECURSIVE Arguments(_, _, _, _)
\* A call's arguments, from the one at i on.
Arguments(p, s, i, call) ==
  LET e == p[<<"expr", i>>]
      with == Append(call, e.tree)
  IN IF ~e.ok THEN e
     ELSE CASE Token(s, e.at) = ")" -> Read(with, e.at + 1)
            [] Token(s, e.at) = "," -> Arguments(p, s, e.at + 1, with)
            [] OTHER -> Fault(e.at)

Primary(p, s, i) ==
  LET inner == p[<<"expr", i + 1>>]
      isCall == Token(s, i) \in Names /\ Token(s, i + 1) = "("
  IN CASE Token(s, i) = "(" -> IF inner.ok /\ Token(s, inner.at) # ")" THEN Fault(inner.at)
                               ELSE [inner EXCEPT !.at = IF inner.ok THEN @ + 1 ELSE @]
       [] isCall /\ Token(s, i + 2) = ")" -> Read(<<"call", <<s[i]>>>>, i + 3)
       [] isCall /\ Token(s, i + 2) # ")" -> Arguments(p, s, i + 2, <<"call", <<s[i]>>>>)
       [] ~isCall /\ Token(s, i) \in Leaves -> Read(<<s[i]>>, i + 1)
       [] OTHER -> Fault(i)

Unary(p, s, i) ==
  IF Token(s, i) \notin {"-", "!"} THEN Primary(p, s, i)
  ELSE [p[<<"unary", i + 1>>] EXCEPT !.tree = <<"unary" \o s[i], @>>]

RECURSIVE Chain(_, _, _, _, _)
\* A left-associative chain: what has been read so far, and the operands' rule.
Chain(p, s, operators, operand, left) ==
  LET right == p[<<operand, left.at + 1>>]
  IN IF ~left.ok \/ Token(s, left.at) \notin operators THEN left
     ELSE IF ~right.ok THEN right
     ELSE Chain(p, s, operators, operand, Read(<<s[left.at], left.tree, right.tree>>, right.at))

Compare(p, s, i) ==
  LET l == p[<<"add", i>>]
      r == p[<<"add", l.at + 1>>]
  IN IF ~l.ok \/ Token(s, l.at) \notin Compares THEN l
     ELSE IF ~r.ok THEN r ELSE Read(<<s[l.at], l.tree, r.tree>>, r.at)

Ternary(p, s, i) ==
  LET c == p[<<"coalesce", i>>]
      t == p[<<"expr", c.at + 1>>]
      f == p[<<"expr", t.at + 1>>]
  IN IF ~c.ok \/ Token(s, c.at) # "?" THEN c
     ELSE IF ~t.ok THEN t
     ELSE IF Token(s, t.at) # ":" THEN Fault(t.at)
     ELSE IF ~f.ok THEN f ELSE Read(<<"?", c.tree, t.tree, f.tree>>, f.at)

Rules == {"expr", "coalesce", "compare", "add", "mul", "unary"}
Parser(s) ==
  LET p[at \in Rules \X (1..(Len(s) + 1))] ==
        LET i == at[2]
        IN CASE at[1] = "expr" -> Ternary(p, s, i)
             [] at[1] = "coalesce" -> Chain(p, s, {"??"}, "compare", p[<<"compare", i>>])
             [] at[1] = "compare" -> Compare(p, s, i)
             [] at[1] = "add" -> Chain(p, s, Adds, "mul", p[<<"mul", i>>])
             [] at[1] = "mul" -> Chain(p, s, Muls, "unary", p[<<"unary", i>>])
             [] at[1] = "unary" -> Unary(p, s, i)
  IN p

CheckComplexity(s) == Syntax[s] <= MaxSyntax

Parse(s) == LET e == Parser(s)[<<"expr", 1>>]
            IN IF ~CheckComplexity(s) THEN Fault(0)
               ELSE IF e.ok /\ e.at <= Len(s) THEN Fault(e.at) ELSE e

-----------------------------------------------------------------------------
(* Evaluation.                                                             *)

Null == [is |-> "null"]
Error == [is |-> "error"]
Panic == [is |-> "panic"]
Number(n) == [is |-> "number", n |-> n]
String(s) == [is |-> "string", s |-> s]
Bool(b) == [is |-> "bool", b |-> b]

\* Value::as_number, as the set of what it gives.
AsNumber(v) == CASE v.is = "number" -> {v.n}
                 [] v.is = "bool" -> {IF v.b THEN 1 ELSE 0}
                 [] v.is = "string" -> IF v.s = "nan" THEN {Nan} ELSE IF v.s = "1" THEN {1} ELSE {}
                 [] v.is = "null" -> {}
AsString(v) == CASE v.is = "number" -> IF v.n = Nan THEN "NaN" ELSE ToString(v.n)
                 [] v.is = "bool" -> IF v.b THEN "true" ELSE "false"
                 [] v.is = "string" -> v.s
                 [] v.is = "null" -> ""
Truthy(v) == CASE v.is = "number" -> v.n # 0
               [] v.is = "bool" -> v.b
               [] v.is = "string" -> v.s # ""
               [] v.is = "null" -> FALSE

\* A divisor is 0, 1 or -1 here, so that a quotient is whole.
Arithmetic(op, a, b) ==
  CASE op \in {"/", "%"} /\ b = 0 -> Number(0)
    [] Nan \in {a, b} /\ ~(op \in {"/", "%"} /\ b = 0) -> IF op \in Compares THEN Bool(FALSE) ELSE Number(Nan)
    [] op = "+" -> Number(a + b)
    [] op = "-" -> Number(a - b)
    [] op = "*" -> Number(a * b)
    [] op = "/" -> Number(a * b)
    [] op = "%" -> Number(0)
    [] op = "<" -> Bool(a < b)
    [] op = "<=" -> Bool(a <= b)
    [] op = ">" -> Bool(a > b)
    [] op = ">=" -> Bool(a >= b)

ApplyBinop(op, l, r) ==
  IF op = "==" THEN Bool(AsString(l) = AsString(r))
  ELSE IF op = "!=" THEN Bool(AsString(l) # AsString(r))
  ELSE IF op = "+" /\ "string" \in {l.is, r.is} THEN String(AsString(l) \o AsString(r))
  ELSE IF AsNumber(l) = {} \/ AsNumber(r) = {} THEN Error
  ELSE Arithmetic(op, CHOOSE a \in AsNumber(l) : TRUE, CHOOSE b \in AsNumber(r) : TRUE)

\* f64::clamp panics unless its bounds are ordered.
Ordered(lo, hi) == Nan \notin {lo, hi} /\ lo <= hi
Clamped(v, lo, hi) == IF ~Ordered(lo, hi) THEN Panic
                      ELSE Number(IF v = Nan THEN v ELSE IF v < lo THEN lo ELSE IF v > hi THEN hi ELSE v)
Clamp_Unchecked(v, lo, hi) == Clamped(v, lo, hi)    \* mutant: whatever the theme says
Clamp(v, lo, hi) == IF Ordered(lo, hi) THEN Clamped(v, lo, hi) ELSE Error

\* Arguments that are missing, or no numbers, have a default.
CallBuiltin(name, vs) ==
  LET Given(i, default) == IF i \in DOMAIN vs /\ AsNumber(vs[i]) # {}
                           THEN CHOOSE n \in AsNumber(vs[i]) : TRUE ELSE default
      Value(op, l, r) == Arithmetic(op, l, r).n
  IN CASE name = "clamp" -> Clamp(Given(1, 0), Given(2, 0 - Endless), Given(3, Endless))
       [] name = "lerp" -> Number(Value("+", Given(1, 0), Value("*", Value("-", Given(2, 0), Given(1, 0)), Given(3, 0))))
       [] OTHER -> Error

RECURSIVE Eval(_, _)
Eval(e, v) ==
  LET part == [i \in 2..Len(e) |-> Eval(e[i], v)]
      Bad(x) == x.is \in {"error", "panic"}
      bad == {i \in DOMAIN part : Bad(part[i])}
      first == CHOOSE i \in bad : \A j \in bad : i <= j
      args == [i \in 1..(Len(e) - 2) |-> part[i + 2]]
  IN CASE Len(e) = 1 -> IF e[1] = "$v" THEN v
                        ELSE IF e[1] \in {"0", "1"} THEN Number(IF e[1] = "1" THEN 1 ELSE 0) ELSE String(e[1])
       [] e[1] = "?" -> IF Bad(part[2]) THEN part[2] ELSE IF Truthy(part[2]) THEN part[3] ELSE part[4]
       [] e[1] = "??" -> IF part[2] = Null THEN part[3] ELSE part[2]
       [] e[1] \notin {"?", "??"} /\ bad # {} -> part[first]
       [] e[1] = "unary-" /\ bad = {} -> IF part[2].is # "number" THEN Error
                              ELSE Number(IF part[2].n = Nan THEN Nan ELSE 0 - part[2].n)
       [] e[1] = "unary!" /\ bad = {} -> Bool(~Truthy(part[2]))
       [] e[1] = "call" /\ bad = {} -> CallBuiltin(e[2][1], args)
       [] OTHER -> ApplyBinop(e[1], part[2], part[3])

-----------------------------------------------------------------------------
ExprInit == text = <<>> /\ alphabet \in Alphabets

\* The parser wants more, or can take more.
Open(s) == Parse(s).at = Len(s) + 1

Write(token) == /\ Len(text) < alphabet.max /\ Open(text)
                /\ text' = Append(text, token)
                /\ UNCHANGED alphabet

ExprNext == \E token \in alphabet.tokens : Write(token)

-----------------------------------------------------------------------------
(* The grammar at the head of expr.rs, as the trees it has for a text; a   *)
(* sign may stand before another one, as the code has it.                  *)

RECURSIVE Trees(_, _)
Trees(rule, s) ==
  LET Before(i) == SubSeq(s, 1, i - 1)
      After(i) == SubSeq(s, i + 1, Len(s))
      Between(i, j) == SubSeq(s, i + 1, j - 1)
      At(ops) == {i \in DOMAIN s : s[i] \in ops}
      Binary(ops, left, right) ==
        UNION {{<<s[i], l, r>> : l \in Trees(left, Before(i)), r \in Trees(right, After(i))} : i \in At(ops)}
  IN CASE rule = "expr" ->
            Trees("coalesce", s) \cup
            UNION {{<<"?", c, t, f>> : c \in Trees("coalesce", Before(i)), t \in Trees("expr", Between(i, j)),
                                       f \in Trees("expr", After(j))} : i \in At({"?"}), j \in At({":"})}
       [] rule = "coalesce" -> Trees("compare", s) \cup Binary({"??"}, "coalesce", "compare")
       [] rule = "compare" -> Trees("add", s) \cup Binary(Compares, "add", "add")
       [] rule = "add" -> Trees("mul", s) \cup Binary(Adds, "add", "mul")
       [] rule = "mul" -> Trees("unary", s) \cup Binary(Muls, "mul", "unary")
       [] rule = "unary" ->
            IF s # <<>> /\ s[1] \in {"-", "!"} THEN {<<"unary" \o s[1], t>> : t \in Trees("unary", Tail(s))}
            ELSE Trees("primary", s)
       [] rule = "primary" ->
            LET closed == s # <<>> /\ s[Len(s)] = ")"
            IN CASE Len(s) = 1 -> IF s[1] \in Leaves THEN {<<s[1]>>} ELSE {}
                 [] closed /\ s[1] = "(" -> Trees("expr", Between(1, Len(s)))
                 [] closed /\ s[1] \in Names /\ s[2] = "(" ->
                      {<<"call", <<s[1]>>>> \o args : args \in IF Len(s) = 3 THEN {<<>>} ELSE Trees("args", Between(2, Len(s)))}
                 [] OTHER -> {}
       [] rule = "args" ->
            {<<e>> : e \in Trees("expr", s)} \cup
            UNION {{<<e>> \o rest : e \in Trees("expr", Before(i)), rest \in Trees("args", After(i))} : i \in At({","})}

RECURSIVE Height(_)
Height(e) == IF Len(e) = 1 THEN 1
             ELSE 1 + CHOOSE h \in 0..Len(text) : /\ \A i \in 2..Len(e) : Height(e[i]) <= h
                                                  /\ \E i \in 2..Len(e) : Height(e[i]) = h

\* An expression is accepted exactly if the grammar has a tree for all of it,
\* one tree, and the parser finds that one; the limit on its syntax limits the
\* depth of that tree, on which eval and drop recurse; and no binding makes its
\* evaluation panic.
ExpressionsAgree ==
  LET e == Parse(text)
  IN /\ CheckComplexity(text) => Trees("expr", text) = IF e.ok THEN {e.tree} ELSE {}
     /\ e.ok => /\ Height(e.tree) <= Syntax[text] + 1
                /\ \A v \in Vars : Eval(e.tree, v) # Panic
=============================================================================
