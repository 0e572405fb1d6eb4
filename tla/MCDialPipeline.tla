--------------------------- MODULE MCDialPipeline ----------------------------
(* Small instances of DialPipeline for TLC. *)
EXTENDS DialPipeline

\* Requests by the slot they dial on.
MCSlotOf == [r \in Requests |-> IF r \in {"b1", "b2"} THEN "sim2" ELSE "sim1"]
Nothing == {}
Answers == {TRUE}
AnswersAndFailures == BOOLEAN
=============================================================================
