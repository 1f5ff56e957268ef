-------------------------- MODULE MCWorkReporting --------------------------
(* TLC instance of WorkReporting: a product of two steps and one of one.   *)
EXTENDS WorkReporting

CONSTANTS p1, p2

MCTotals == [product \in Products |-> IF product = p1 THEN 2 ELSE 1]

=============================================================================
