------------------------------ MODULE Decisions ------------------------------
(***************************************************************************)
(* What the modules of pure functions share: the question a function is    *)
(* asked, one at a time, and JavaScript's rounding on exact fractions.     *)
(***************************************************************************)
EXTENDS Integers

VARIABLE question

Least(m, n)    == IF m <= n THEN m ELSE n
Greatest(m, n) == IF m >= n THEN m ELSE n
Magnitude(n)   == IF n < 0 THEN -n ELSE n

\* Math.round(n / d), which takes a half upwards, and Math.ceil(n / d), d > 0.
RoundDiv(n, d) == (2 * n + d) \div (2 * d)
CeilDiv(n, d)  == -((-n) \div d)
=============================================================================
