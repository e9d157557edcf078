------------------------------ MODULE Numbers ------------------------------
(***************************************************************************)
(* Integer helpers: Python's max and min of two, and math.ceil(a / b).     *)
(***************************************************************************)
EXTENDS Integers

Larger(a, b) == IF a >= b THEN a ELSE b
Smaller(a, b) == IF a <= b THEN a ELSE b
CeilDiv(a, b) == -((-a) \div b)
============================================================================
