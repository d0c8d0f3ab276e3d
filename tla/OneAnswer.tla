------------------------------ MODULE OneAnswer ------------------------------
(***************************************************************************)
(* What a client is promised by the chat endpoints, however often the      *)
(* gateway calls upstream on its behalf: text and tool calls of one        *)
(* attempt only, and one end.                                              *)
(*                                                                         *)
(* docs/operations/runbook.md, "delivered content is not replayed", and    *)
(* docs/architecture/overview.md state it; UpstreamStream implements it.   *)
(***************************************************************************)
EXTENDS Naturals

VARIABLES
    attempt, \* which call of upstream is under way
    source,  \* the attempt whose content the client holds, 0 if it has none
    end      \* how the answer ended

answerVars == <<attempt, source, end>>

Ends == {"completed", "failed", "left"}

Init == attempt = 1 /\ source = 0 /\ end = "none"

\* Upstream is called once more: only while the client has seen nothing.
Retry ==
    /\ end = "none" /\ source = 0
    /\ attempt' = attempt + 1
    /\ UNCHANGED <<source, end>>

\* Content of the attempt under way reaches the client.
Show ==
    /\ end = "none" /\ source \in {0, attempt}
    /\ source' = attempt
    /\ UNCHANGED <<attempt, end>>

\* The answer is complete; what was held back comes with its end.
Complete ==
    /\ end = "none" /\ source \in {0, attempt}
    /\ end' = "completed"
    /\ source' \in {source, attempt}
    /\ UNCHANGED attempt

\* The request fails, or the client hangs up.
Abandon ==
    /\ end = "none"
    /\ end' \in {"failed", "left"}
    /\ UNCHANGED <<attempt, source>>

Next == Retry \/ Show \/ Complete \/ Abandon

Spec == Init /\ [][Next]_answerVars

=============================================================================
