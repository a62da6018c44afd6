------------------------------ MODULE Calculator ------------------------------
(***************************************************************************)
(* app/calculator/Calculator.cpp: the keys, and the evaluation of the      *)
(* formula by way of reverse Polish notation, against the usual grammar of *)
(* expressions.  Numbers are exact fractions here, and doubles in the app; *)
(* how a result is written is left out.                                    *)
(***************************************************************************)
EXTENDS Integers, Sequences, FiniteSets

CONSTANTS
    Keys,       \* The keys that are pressed, apart from "=" and "C".
    MaxKeys,    \* Bound on the length of a formula.
    NoResult    \* No result, or one that is left open.

Numerals == <<"0", "1", "2", "3", "4", "5", "6", "7", "8", "9">>
Operators == {"+", "-", "*", "/"}
IsDigit(key) == \E i \in 1 .. 10 : Numerals[i] = key
DigitOf(key) == (CHOOSE i \in 1 .. 10 : Numerals[i] = key) - 1

CalculatorParameters ==
    /\ \A key \in Keys : IsDigit(key) \/ key \in Operators \cup {"(", ")"}
    /\ MaxKeys \in Nat \ {0}

VARIABLES
    formula,     \* The keys in formulaBuffer.
    newInput,    \* CalculatorApp::newInput
    result,      \* What evaluateExpression() made of the formula.
    crashed      \* opStack.pop() was called with an empty stack.

vars == <<formula, newInput, result, crashed>>

-----------------------------------------------------------------------------
(* Fractions <<n, d>> *)
Sum(a, b) == <<a[1] * b[2] + b[1] * a[2], a[2] * b[2]>>
Difference(a, b) == <<a[1] * b[2] - b[1] * a[2], a[2] * b[2]>>
Product(a, b) == <<a[1] * b[1], a[2] * b[2]>>
Quotient(a, b) == <<a[1] * b[2], a[2] * b[1]>>
SameNumber(a, b) == a[1] * b[2] = b[1] * a[2]
Zero == <<0, 1>>

Apply(op, a, b) == CASE op = "+" -> Sum(a, b)
                     [] op = "-" -> Difference(a, b)
                     [] op = "*" -> Product(a, b)
                     [] op = "/" -> Quotient(a, b)

Precedence(op) == CASE op \in {"+", "-"} -> 1
                    [] op \in {"*", "/"} -> 2
                    [] OTHER -> 0

(* What infixToRPN() keeps while it goes through the formula: the operators on
   its stack, the tokens of its output, and whether it is inside of a number.  *)
Number(n) == [isNumber |-> TRUE, value |-> n]
Operator(op) == [isNumber |-> FALSE, value |-> op]

(* Operators are moved from the stack to the output down to place `keep`. *)
Unstack(s, keep) ==
    [s EXCEPT !.ops = SubSeq(@, 1, keep),
              !.out = @ \o [i \in 1 .. Len(s.ops) - keep |-> Operator(s.ops[Len(s.ops) + 1 - i])]]

AfterNumber(s) == [s EXCEPT !.inNumber = FALSE]

ScanDigit(s, key) ==
    IF s.inNumber
    THEN [s EXCEPT !.out[Len(s.out)] = Number(10 * @.value + DigitOf(key))]
    ELSE [s EXCEPT !.out = Append(@, Number(DigitOf(key))), !.inNumber = TRUE]

(* How many of the operators stay on the stack when those above the last one of
   `stops` are moved.                                                          *)
Stay(ops, stops) ==
    CHOOSE k \in 0 .. Len(ops) :
        /\ k # 0 => ops[k] \in stops
        /\ \A j \in k + 1 .. Len(ops) : ops[j] \notin stops

Weaker(op) == {o \in Operators \cup {"("} : Precedence(o) < Precedence(op)}

(* Mutation of ScanClose: an opening parenthesis does not stop the loop. *)
ScanCloseAll(s) ==
    LET all == Unstack(s, 0)
    IN  IF all.ops = <<>> THEN [all EXCEPT !.popsEmpty = TRUE] ELSE all

ScanClose(s) ==
    LET open == Stay(s.ops, {"("})
        above == Unstack(s, open)
    IN  IF open = 0 THEN [above EXCEPT !.popsEmpty = TRUE]
                    ELSE [above EXCEPT !.ops = SubSeq(@, 1, open - 1)]

(* Mutation of ScanOperator: operators of the same precedence wait. *)
ScanLazily(s, op) ==
    LET equal == {o \in Operators : Precedence(o) = Precedence(op)}
        rest == Unstack(s, Stay(s.ops, Weaker(op) \cup equal))
    IN  [rest EXCEPT !.ops = Append(@, op)]

ScanOperator(s, op) ==
    LET rest == Unstack(s, Stay(s.ops, Weaker(op)))
    IN  [rest EXCEPT !.ops = Append(@, op)]

Scan(s, key) ==
    CASE s.popsEmpty -> s
      [] ~s.popsEmpty /\ IsDigit(key) -> ScanDigit(s, key)
      [] ~s.popsEmpty /\ key = "(" -> [AfterNumber(s) EXCEPT !.ops = Append(@, "(")]
      [] ~s.popsEmpty /\ key = ")" -> ScanClose(AfterNumber(s))
      [] ~s.popsEmpty /\ key \in Operators -> ScanOperator(AfterNumber(s), key)

Unscanned == [ops |-> <<>>, out |-> <<>>, inNumber |-> FALSE, popsEmpty |-> FALSE]

Scanned(f) ==
    LET scan[n \in 0 .. Len(f)] == IF n = 0 THEN Unscanned ELSE Scan(scan[n - 1], f[n])
    IN  scan[Len(f)]

InfixToRPN(f) == Unstack(Scanned(f), 0)

(* A step of evaluateRPN(): an operator without two values ends it with 0, a
   division by zero loses both, and a parenthesis that was never closed is skipped. *)
EvaluateToken(s, token) ==
    LET n == Len(s.values)
        rest == SubSeq(s.values, 1, n - 2)
    IN  CASE s.gaveUp -> s
          [] ~s.gaveUp /\ token.isNumber -> [s EXCEPT !.values = Append(@, <<token.value, 1>>)]
          [] ~s.gaveUp /\ ~token.isNumber /\ token.value \notin Operators -> s
          [] ~s.gaveUp /\ ~token.isNumber /\ token.value \in Operators ->
               IF n < 2 THEN [s EXCEPT !.gaveUp = TRUE]
               ELSE IF token.value = "/" /\ s.values[n][1] = 0 THEN [s EXCEPT !.values = rest]
               ELSE [s EXCEPT !.values =
                         Append(rest, Apply(token.value, s.values[n - 1], s.values[n]))]

Unevaluated == [values |-> <<>>, gaveUp |-> FALSE]

Evaluated(rpn) ==
    LET step[n \in 0 .. Len(rpn)] ==
            IF n = 0 THEN Unevaluated ELSE EvaluateToken(step[n - 1], rpn[n])
    IN  step[Len(rpn)]

EvaluateRPN(rpn) ==
    LET end == Evaluated(rpn)
    IN  IF end.gaveUp \/ end.values = <<>> THEN Zero ELSE end.values[Len(end.values)]

-----------------------------------------------------------------------------
Init == /\ formula = <<>>
        /\ newInput = TRUE
        /\ result = NoResult
        /\ crashed = FALSE

(* handleInput() of a key of the formula *)
PressKey(key) == /\ ~crashed
                 /\ newInput \/ Len(formula) < MaxKeys
                 /\ formula' = IF newInput THEN <<key>> ELSE Append(formula, key)
                 /\ newInput' = FALSE
                 /\ result' = NoResult
                 /\ UNCHANGED crashed

(* evaluateExpression() writes the result behind the formula.  If "=" is pressed
   again, both are read as one formula: that result is left open.              *)
PressEquals ==
    LET rpn == InfixToRPN(formula)
    IN  /\ ~crashed
        /\ crashed' = rpn.popsEmpty
        /\ result' = IF rpn.popsEmpty \/ (newInput /\ formula # <<>>) THEN NoResult
                     ELSE EvaluateRPN(rpn.out)
        /\ newInput' = TRUE
        /\ UNCHANGED formula

(* resetCalculator() *)
PressClear == /\ ~crashed
              /\ formula' = <<>>
              /\ newInput' = TRUE
              /\ result' = NoResult
              /\ UNCHANGED crashed

Next == (\E key \in Keys : PressKey(key)) \/ PressEquals \/ PressClear

Spec == Init /\ [][Next]_vars

-----------------------------------------------------------------------------
CalculatorTypeOK ==
    /\ formula \in Seq(Keys) /\ Len(formula) <= MaxKeys
    /\ newInput \in BOOLEAN /\ crashed \in BOOLEAN
    /\ result = NoResult \/ DOMAIN result = {1, 2}

(* The values of f by the grammar: a sum is made of products, a product of
   factors, a factor is a number or a sum in parentheses; what is of the same
   precedence belongs to the left.  There is at most one value, and none if the
   formula is not well-formed or divides by zero.                              *)
Numeral(f, i, j) ==
    LET number[n \in i - 1 .. j] ==
            IF n = i - 1 THEN 0 ELSE 10 * number[n - 1] + DigitOf(f[n])
    IN  number[j]

(* The values of the keys from i to j, given those of their parts. *)
Joined(f, value, ops, left, right, i, j) ==
    UNION {{Apply(f[m], x, y) : x \in value[<<left, i, m - 1>>],
                                y \in {z \in value[<<right, m + 1, j>>] :
                                         f[m] # "/" \/ z[1] # 0}} :
           m \in {k \in i + 1 .. j - 1 : f[k] \in ops}}

ValuesOf(f, value, kind, i, j) ==
    CASE kind = "sum" ->
           value[<<"product", i, j>>] \cup Joined(f, value, {"+", "-"}, "sum", "product", i, j)
      [] kind = "product" ->
           value[<<"factor", i, j>>] \cup Joined(f, value, {"*", "/"}, "product", "factor", i, j)
      [] kind = "factor" ->
           IF i <= j /\ \A k \in i .. j : IsDigit(f[k]) THEN {<<Numeral(f, i, j), 1>>}
           ELSE IF i < j /\ f[i] = "(" /\ f[j] = ")" THEN value[<<"sum", i + 1, j - 1>>]
           ELSE {}

Values(f) ==
    LET value[p \in {"sum", "product", "factor"} \X (1 .. Len(f) + 1) \X (0 .. Len(f))] ==
            ValuesOf(f, value, p[1], p[2], p[3])
    IN  value[<<"sum", 1, Len(f)>>]

(* The result of a formula that is well-formed, and does not divide by zero, is
   its value (infixToRPN(), evaluateRPN()): the detour over two stacks computes
   what the grammar says.                                                      *)
ResultIsTheValue ==
    result # NoResult => \A v \in Values(formula) : SameNumber(result, v)

Count(f, n, key) == Cardinality({i \in 1 .. n : f[i] = key})

(* Only a formula with a closing parenthesis too many takes from an empty stack
   (line 120), which is undefined behaviour.                                   *)
CrashesOnlyUnbalanced ==
    crashed =>
        \E n \in 1 .. Len(formula) : Count(formula, n, ")") > Count(formula, n, "(")
=============================================================================
