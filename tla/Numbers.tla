------------------------------- MODULE Numbers ------------------------------
(* core::cmp::min and max.                                                 *)
EXTENDS Integers

Least(a, b) == IF a <= b THEN a ELSE b

Greatest(a, b) == IF a >= b THEN a ELSE b

=============================================================================
