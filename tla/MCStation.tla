------------------------------ MODULE MCStation ------------------------------
(* TLC instance of Station: a product the LEDs can show, one they cannot.  *)
EXTENDS Station

CONSTANTS short, long

MCTotals == [product \in Products |-> IF product = short THEN 1 ELSE 3]

=============================================================================
