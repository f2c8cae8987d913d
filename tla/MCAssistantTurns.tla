--------------------------- MODULE MCAssistantTurns ---------------------------
(* An instance of AssistantTurns with the store in one file, which the API *)
(* and two workers have open.                                              *)
EXTENDS AssistantTurns
=============================================================================
