----------------------------- MODULE MCEvaluator -----------------------------
(***************************************************************************)
(* Small instances of Evaluator with two lambdas.                          *)
(***************************************************************************)
EXTENDS Evaluator

CONSTANTS x, y, f, g

(* f has one parameter and one body expression, g none and two.            *)
MCParams == [l \in Lambdas |-> IF l = f THEN <<x>> ELSE <<>>]

MCBodyLen == [l \in Lambdas |-> IF l = g THEN 2 ELSE 1]

(* f has two parameters, like fib-tail of the tests.                       *)
MCTwoParams == [l \in Lambdas |-> IF l = f THEN <<x, y>> ELSE <<>>]

=============================================================================
