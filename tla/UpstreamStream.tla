---------------------------- MODULE UpstreamStream ----------------------------
(***************************************************************************)
(* How one chat request reads the streams of upstream: readSSE, Complete   *)
(* and its stall guard (internal/provider), the decision of the gateway to *)
(* call upstream again, and what reaches the client meanwhile.             *)
(*                                                                         *)
(* Upstream sends events, each a data line that a blank line or the end of *)
(* the stream dispatches; it may stop at any point, close the connection   *)
(* in an orderly way without having finished, reset it, or fall silent.    *)
(***************************************************************************)
EXTENDS Naturals

CONSTANTS
    Sinks,    \* who asks, of "json", "chat", "responses" and "search"
    NumCalls, \* bound: tool calls per turn
    MaxLines, \* bound: events per stream
    MaxTries  \* bound: calls of upstream per request

ASSUME StreamBounds ==
    /\ Sinks \subseteq {"json", "chat", "responses", "search"}
    /\ NumCalls \in Nat /\ MaxLines \in Nat /\ MaxTries \in Nat

Calls == 1..NumCalls

VARIABLES
    sink,    \* who asks
    try,     \* the calls of upstream so far
    pc,      \* "sending", "reading", "judging", "done"
    lines,   \* data lines of this stream
    held,    \* dataBuf: the event of the last data line
    fired,   \* stallGuard.fired
    read,    \* what readSSE knows of this stream, and its accumulator
    error,   \* how this call of upstream failed
    source,  \* the attempt whose content the client was last given
    outcome  \* how the request ended

streamVars == <<sink, try, pc, lines, held, fired, read, error, source, outcome>>

NoError == "none"

\* What can go wrong, as the texts of the errors tell it apart.  "reset", "cut"
\* and "stalled" say that it was before the first content.
Errors == {"transport", "status", "reset", "cut", "stalled", "reset_later",
           "cut_later", "stalled_later", "upstream", "half_call", "empty"}

\* The arguments of a call as far as they have come: not begun, nothing yet, an
\* unfinished JSON text, a finished one.
Progress == <<"none", "open", "half", "whole">>
Reached(p) == CHOOSE n \in 1..4 : Progress[n] = p

\* Events (provider.Event).
Text == [type |-> "text_delta"]
Thinking == [type |-> "thinking_delta"]
UpstreamError == [type |-> "upstream_error"]
\* A finish_reason; "quiet" is one that excuses a turn without content (length,
\* max_tokens, content_filter, refusal).
TurnEnded(quiet) == [type |-> "turn_ended", quiet |-> quiet]
Done == [type |-> "[DONE]"]

Nothing == [type |-> "nothing"]

Ending == {"turn_ended", "[DONE]"}

\* A whole call, with or without an input, or a fragment of one: the first has its
\* name, and its arguments are complete up to here.
Events ==
    {Text, Thinking, UpstreamError, Done, TurnEnded(TRUE), TurnEnded(FALSE)}
        \cup [type : {"tool_use"}, call : Calls, input : BOOLEAN]
        \cup [type : {"tool_call_delta"}, call : Calls, first : BOOLEAN,
              upto : {"open", "half", "whole"}]

NewRead ==
    [saw |-> FALSE, delivered |-> FALSE, terminal |-> FALSE, text |-> FALSE,
     thinking |-> FALSE, uses |-> {}, args |-> [c \in Calls |-> "none"],
     failed |-> FALSE, quiet |-> FALSE]

-----------------------------------------------------------------------------
(* Reading *)

\* The handlers that hand callbacks to the provider.
Live == sink \in {"chat", "responses"}

\* Mutant: fragments of calls are not counted.
CountsTextOnly(e) == e.type \in {"text_delta", "tool_use"} /\ Live

\* The provider's idea of what its callbacks pass on.
CountsAsDelivered(e) ==
    \/ e.type \in {"text_delta", "tool_use"} /\ Live
    \/ e.type = "tool_call_delta" /\ sink = "responses"

\* What the callbacks of streamChat and streamResponses write.
ReachesClient(e) ==
    \/ sink = "chat" /\ e.type \in {"text_delta", "tool_use"}
    \/ sink = "responses" /\ e.type \in {"text_delta", "tool_use", "tool_call_delta"}

IsContent(e) == e.type \in {"text_delta", "tool_use", "tool_call_delta"}

\* The flush closure of readSSE and accumulator.push.
Taken(e) ==
    [read EXCEPT
        !.saw = @ \/ IsContent(e),
        !.delivered = @ \/ CountsAsDelivered(e),
        !.terminal = @ \/ e.type \in Ending,
        !.text = @ \/ e.type = "text_delta",
        !.thinking = @ \/ e.type = "thinking_delta",
        !.uses = @ \cup (IF e.type = "tool_use" THEN {e.call} ELSE {}),
        !.args = [c \in Calls |-> IF e.type = "tool_call_delta" /\ e.call = c
                                  THEN e.upto ELSE @[c]],
        !.failed = @ \/ e.type = "upstream_error",
        !.quiet = IF e.type = "turn_ended" THEN e.quiet ELSE @]

\* snapshot: calls of the turn, and those it drops because they are unfinished.
Fragments(r, progress) == {c \in Calls : r.args[c] \in progress}
HalfCalls(r) == Fragments(r, {"half"})
HasCalls(r) == r.uses # {} \/ Fragments(r, {"open", "whole"}) # {}

\* isEmptyCompletedTurn
IsEmptyTurn(r) == ~r.delivered /\ ~r.text /\ ~HasCalls(r) /\ ~r.quiet

\* Mutant: dropped calls are not looked for.
VerdictWithoutHalfCalls(r) ==
    CASE ~r.terminal /\ r.saw -> IF r.delivered THEN "cut_later" ELSE "cut"
      [] r.failed -> "upstream"
      [] IsEmptyTurn(r) -> "empty"
      [] OTHER -> NoError

\* What readSSE and Complete make of a stream that has come to its end.
Verdict(r) ==
    CASE ~r.terminal /\ r.saw -> IF r.delivered THEN "cut_later" ELSE "cut"
      [] r.failed -> "upstream"
      [] r.delivered /\ HalfCalls(r) # {} -> "half_call"
      [] IsEmptyTurn(r) -> "empty"
      [] OTHER -> NoError

\* An attempt is over with this error, or well.
Judge(e) == pc' = "judging" /\ error' = e

\* Content that the callbacks write.
Show(e) == source' = IF ReachesClient(e) THEN try ELSE source

-----------------------------------------------------------------------------
(* Calling upstream *)

\* Do: the request is answered with a stream,
OpenStream ==
    /\ pc = "sending"
    /\ pc' = "reading"
    /\ lines' = 0 /\ held' = Nothing /\ fired' = FALSE /\ read' = NewRead
    /\ UNCHANGED <<sink, try, error, source, outcome>>

\* or not at all, or with a status.
Refused ==
    /\ pc = "sending"
    /\ \E e \in {"transport", "status"} : Judge(e)
    /\ read' = NewRead
    /\ UNCHANGED <<sink, try, lines, held, fired, source, outcome>>

\* The call has begun.
Begun(c) == c \in read.uses \/ read.args[c] # "none"

\* What upstream may send next.  Calls begin in their order; one comes as a whole,
\* or in fragments that carry its arguments further, those of several calls in
\* any order.  Nothing but the end follows the end.
Sendable(e) ==
    /\ read.terminal => e.type \in Ending
    /\ e.type \in {"tool_use", "tool_call_delta"} => \A c \in 1..(e.call - 1) : Begun(c)
    /\ e.type = "tool_use" => ~Begun(e.call)
    /\ e.type = "tool_call_delta" =>
         /\ e.call \notin read.uses
         /\ Reached(e.upto) > Reached(read.args[e.call])
         /\ e.first <=> read.args[e.call] = "none"

\* A data line.
DataLine(e) ==
    /\ pc = "reading" /\ held = Nothing /\ lines < MaxLines
    /\ Sendable(e)
    /\ held' = e /\ lines' = lines + 1
    /\ UNCHANGED <<sink, try, pc, fired, read, error, source, outcome>>

\* The blank line after it.
Dispatch ==
    /\ pc = "reading" /\ held # Nothing
    /\ read' = Taken(held) /\ held' = Nothing
    /\ Show(held)
    /\ UNCHANGED <<sink, try, pc, lines, fired, error, outcome>>

\* io.EOF: what is held is dispatched first, and a stall no longer matters.
EndOfStream ==
    /\ pc = "reading"
    /\ LET r == Taken(held) IN read' = r /\ Judge(Verdict(r))
    /\ held' = Nothing
    /\ Show(held)
    /\ UNCHANGED <<sink, try, lines, fired, outcome>>

\* Mutant: the guard watches for the first content only.
StallFiresEarly ==
    /\ pc = "reading" /\ ~fired /\ ~read.saw
    /\ fired' = TRUE
    /\ UNCHANGED <<sink, try, pc, lines, held, read, error, source, outcome>>

\* No bytes for the stall timeout: the guard closes the body.
StallFires ==
    /\ pc = "reading" /\ ~fired
    /\ fired' = TRUE
    /\ UNCHANGED <<sink, try, pc, lines, held, read, error, source, outcome>>

\* Read fails because of the guard.  What is held is lost.
Stalled ==
    /\ pc = "reading" /\ fired
    /\ Judge(IF read.delivered THEN "stalled_later" ELSE "stalled")
    /\ UNCHANGED <<sink, try, lines, held, fired, read, source, outcome>>

\* Read fails by itself.
Reset ==
    /\ pc = "reading" /\ ~fired
    /\ Judge(IF read.saw THEN "reset_later" ELSE "reset")
    /\ UNCHANGED <<sink, try, lines, held, fired, read, source, outcome>>

-----------------------------------------------------------------------------
(* The gateway and the end of the request *)

\* CompleteFromPool moves on after these (what else it asks: PoolRequest).
Replayable ==
    {"transport", "status", "reset", "cut", "stalled", "upstream", "empty"}

\* Another call of CompleteFromPool.
Replay ==
    /\ pc = "judging" /\ error \in Replayable /\ ~read.delivered
    /\ try < MaxTries
    /\ try' = try + 1 /\ pc' = "sending" /\ error' = NoError
    /\ UNCHANGED <<sink, lines, held, fired, read, source, outcome>>

\* The error goes to the client.
Fail ==
    /\ pc = "judging" /\ error # NoError
    /\ pc' = "done" /\ outcome' = "failed"
    /\ UNCHANGED <<sink, try, lines, held, fired, read, error, source>>

\* The turn is complete; what has not been streamed comes now.
Answer ==
    /\ pc = "judging" /\ error = NoError
    /\ pc' = "done" /\ outcome' = "completed"
    /\ source' = IF read.text \/ HasCalls(read) THEN try ELSE source
    /\ UNCHANGED <<sink, try, lines, held, fired, read, error>>

\* The client hangs up; nothing more is written.
Leave ==
    /\ pc # "done"
    /\ pc' = "done" /\ outcome' = "left"
    /\ UNCHANGED <<sink, try, lines, held, fired, read, error, source>>

-----------------------------------------------------------------------------
(* Specification *)

StreamInit ==
    /\ sink \in Sinks
    /\ try = 1 /\ pc = "sending" /\ lines = 0 /\ held = Nothing /\ fired = FALSE
    /\ read = NewRead /\ error = NoError /\ source = 0 /\ outcome = "none"

StreamNext ==
    \/ OpenStream \/ Refused
    \/ \E e \in Events : DataLine(e)
    \/ Dispatch \/ EndOfStream \/ StallFires \/ Stalled \/ Reset
    \/ Replay \/ Fail \/ Answer \/ Leave

StreamSpec == StreamInit /\ [][StreamNext]_streamVars

-----------------------------------------------------------------------------
(* Properties *)

ReadType ==
    [saw : BOOLEAN, delivered : BOOLEAN, terminal : BOOLEAN, text : BOOLEAN,
     thinking : BOOLEAN, uses : SUBSET Calls, args : [Calls -> {"none", "open", "half", "whole"}],
     failed : BOOLEAN, quiet : BOOLEAN]

\* Type invariant of the reader and of the request.
StreamTypeOK ==
    /\ sink \in Sinks /\ try \in Nat \ {0}
    /\ pc \in {"sending", "reading", "judging", "done"}
    /\ lines \in 0..MaxLines /\ held \in Events \cup {Nothing} /\ fired \in BOOLEAN
    /\ read \in ReadType /\ error \in Errors \cup {NoError}
    /\ source \in 0..try
    /\ outcome \in {"none", "completed", "failed", "left"}

\* A request that is answered as complete was told so by upstream: readSSE
\* does not take the end of the connection for the end of the answer
\* (client.go:1219, TestUpstreamFINWithoutTerminalFrame).
CompleteIsTerminal == outcome = "completed" => read.terminal /\ ~read.failed

\* A client that was streamed a part of a call whose arguments stop half way is
\* never told that the answer is complete (client.go:913,
\* TestResponsesTruncatedDeliveredToolFailsWithoutReplay).
StreamedHalfCallFails ==
    outcome = "completed" /\ sink = "responses" => HalfCalls(read) = {}

\* The client is given content of one attempt at most, and one end: the gateway
\* calls upstream again only when nothing has been delivered (service.go:480).
Promise == INSTANCE OneAnswer
             WITH attempt <- try, end <- outcome
AnswersOnce == Promise!Spec

=============================================================================
