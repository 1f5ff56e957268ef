--------------------------- MODULE MCStmFirmware ---------------------------
(* TLC instance of StmFirmware: melodies of one note, and of two.          *)
EXTENDS StmFirmwareProofs

MCNotes == [m \in Melodies |-> IF m \in {"pass", "resume"} THEN 2 ELSE 1]

=============================================================================
