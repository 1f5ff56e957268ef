-------------------------- MODULE MCStateRecorder --------------------------
(* TLC instance of StateRecorder.  The reports are the combinations of     *)
(* state, result and event that WorkStateController publishes, for every   *)
(* product, number of steps and step; the recorder tells two event names   *)
(* apart from the rest, "other".                                           *)
EXTENDS StateRecorder, TLC

Kinds ==
  {<<"idle", "waiting", "other">>, <<"complete", "pass", "other">>,
   <<"running", "waiting", "step_pass">>, <<"running", "defect", "manual_defect">>}
  \cup ({"running", "paused"} \X {"waiting", "pass", "fail"} \X {"other"})

MCReports ==
  {p \in {[product |-> product, total |-> total, step |-> step,
           state |-> kind[1], result |-> kind[2], event |-> kind[3]] :
             product \in Products, total \in 1..MaxTotal, step \in 0..MaxTotal, kind \in Kinds} :
     WellFormed([q \in Products |-> p.total], p)}

Symmetry == Permutations(Products) \cup Permutations(EventIds)

=============================================================================
