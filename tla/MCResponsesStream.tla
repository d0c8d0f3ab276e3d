-------------------------- MODULE MCResponsesStream --------------------------
(* ResponsesStream for TLC: the configurations give every constant. *)
EXTENDS ResponsesStream

=============================================================================
