------------------------- MODULE MCDsdaArbitration ---------------------------
(* The instance of DsdaArbitration that TLC checks; DsdaArbitration.cfg has the *)
(* values of the constants.                                                     *)
EXTENDS DsdaArbitration
=============================================================================
