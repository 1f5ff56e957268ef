---------------------------- MODULE MCStepGuides ----------------------------
(* TLC instance of StepGuides: room for a fetch the window has forgotten    *)
(* beside one it knows of.                                                  *)
EXTENDS StepGuidesProofs

=============================================================================
