--------------------------- MODULE ResponsesStream ---------------------------
(***************************************************************************)
(* The stream of the Responses API: ResponseStreamBuilder                  *)
(* (internal/openai/responses_stream.go) driven by the callbacks of        *)
(* streamResponses (internal/server/responses.go), on top of the streams   *)
(* that UpstreamStream reads.                                              *)
(*                                                                         *)
(* The answer is a list of items, each added, filled by deltas and done.   *)
(* The model keeps the items as the client has them and the few fields the *)
(* builder keeps about them.                                               *)
(***************************************************************************)
EXTENDS UpstreamStream, Sequences, SequencesExt

\* An item that stands for no particular call.
NoCall == 0

VARIABLES
    items,   \* the items; the last one has output_index outputIndex
    builder, \* open items and buffers of the builder
    ordered  \* history: upstream sent thinking, text and calls one after another

vars == <<streamVars, items, builder, ordered>>

\* Content of a delta: a piece of text or thinking, or of the arguments of a call.
\* An item collects the pieces that its deltas bring, and those its "done" names.
Piece(call, upto) == [call |-> call, upto |-> upto]
SomeText == Piece(NoCall, "text")
SomeThought == Piece(NoCall, "thought")

NewItem(kind, call) ==
    [kind |-> kind, call |-> call, given |-> <<>>, final |-> <<>>,
     dones |-> 0, late |-> FALSE, astray |-> FALSE]

\* The open message and reasoning item (0 if none), the open calls by their
\* output index, and what has been collected of text and thinking.
NewBuilder == [message |-> 0, reasoning |-> 0, tools |-> {}, text |-> <<>>, thinking |-> <<>>]

-----------------------------------------------------------------------------
(* The builder.  Its operations take and return both parts of the state. *)

Now == [items |-> items, b |-> builder]

OutputIndex(s) == Len(s.items)

\* The open items, the calls' under their output index.
Message(s) == {s.b.message} \ {0}
Reasoning(s) == {s.b.reasoning} \ {0}
ToolOpen(s) == OutputIndex(s) \in s.b.tools

\* MessageDone, ReasoningDone, ToolCallDone of the items that are closed: their
\* events carry the current output index, and those of a call its own.  A message
\* is done with all the text collected so far, reasoning with all the thinking.
Close(s, closed) ==
    LET content(item) == CASE item.kind = "message" -> s.b.text
                           [] item.kind = "reasoning" -> s.b.thinking
                           [] OTHER -> item.given
        idx(k) == IF s.items[k].kind = "function_call" THEN k ELSE OutputIndex(s)
        done(k) == [s.items[k] EXCEPT !.final = content(s.items[k]), !.dones = @ + 1,
                                      !.astray = @ \/ k # idx(k)]
    IN  [items |-> [k \in DOMAIN s.items |-> IF k \in closed THEN done(k) ELSE s.items[k]],
         b |-> [s.b EXCEPT !.message = IF @ \in closed THEN 0 ELSE @,
                           !.reasoning = IF @ \in closed THEN 0 ELSE @,
                           !.tools = @ \ closed]]

\* output_item.added
Added(s, kind, call) == [s EXCEPT !.items = Append(@, NewItem(kind, call))]

\* A delta of item k, under the current output index.
Delta(s, k, piece) ==
    LET item == [s.items[k] EXCEPT !.given = Append(@, piece), !.late = @ \/ s.items[k].dones > 0,
                                   !.astray = @ \/ k # OutputIndex(s)]
    IN  [s EXCEPT !.items = [@ EXCEPT ![k] = item]]

ReasoningStart(s) == [Added(s, "reasoning", NoCall) EXCEPT !.b.reasoning = Len(s.items) + 1]

ReasoningDelta(s) ==
    [Delta(s, s.b.reasoning, SomeThought) EXCEPT !.b.thinking = Append(@, SomeThought)]

\* Mutant: the reasoning item stays open.
MessageStartOnly(s) == [Added(s, "message", NoCall) EXCEPT !.b.message = Len(s.items) + 1]

MessageStart(s) ==
    [Added(Close(s, Reasoning(s)), "message", NoCall) EXCEPT !.b.message = Len(s.items) + 1]

MessageDelta(s) == [Delta(s, s.b.message, SomeText) EXCEPT !.b.text = Append(@, SomeText)]

ToolCallStart(s, call) ==
    LET openTool == {OutputIndex(s)} \cap s.b.tools
    IN  [Added(Close(s, openTool \cup Message(s) \cup Reasoning(s)), "function_call", call)
            EXCEPT !.b.tools = @ \cup {Len(s.items) + 1}]

ToolCallDelta(s, piece) == Delta(s, OutputIndex(s), piece)

ToolCallDone(s) == Close(s, {OutputIndex(s)})

\* Mutant: of the open calls only the last is closed.
CompletedLast(s) ==
    Close(s, ({OutputIndex(s)} \cap s.b.tools) \cup Message(s) \cup Reasoning(s))

Completed(s) == Close(s, s.b.tools \cup Message(s) \cup Reasoning(s))

-----------------------------------------------------------------------------
(* The callbacks of streamResponses *)

\* OnEvent, a fragment of a call's arguments: without an open item it gets one.
OnFragment(s, e) ==
    LET started == IF e.first THEN ToolCallStart(s, e.call) ELSE s
        open == IF ToolOpen(started) THEN started ELSE ToolCallStart(started, NoCall)
    IN  IF e.upto = "open" THEN started ELSE ToolCallDelta(open, Piece(e.call, e.upto))

\* OnEvent, a whole call, with or without an input.
OnUse(s, e) ==
    LET started == ToolCallStart(s, e.call)
    IN  IF e.input THEN ToolCallDone(ToolCallDelta(started, Piece(e.call, "whole"))) ELSE started

\* OnEvent, OnDelta and OnThinkingDelta
OnEvent(s, e) ==
    CASE e.type = "text_delta" -> MessageDelta(IF Message(s) = {} THEN MessageStart(s) ELSE s)
      [] e.type = "thinking_delta" ->
            ReasoningDelta(IF Reasoning(s) = {} THEN ReasoningStart(s) ELSE s)
      [] e.type = "tool_use" -> OnUse(s, e)
      [] e.type = "tool_call_delta" -> OnFragment(s, e)
      [] OTHER -> s

\* What is written when the turn is complete and there were no callbacks: items
\* added, filled and done one after another.
FilledIn(calls) ==
    LET done(kind, call, piece) ==
            [NewItem(kind, call) EXCEPT !.given = <<piece>>, !.final = <<piece>>, !.dones = 1]
    IN  (IF read.thinking THEN <<done("reasoning", NoCall, SomeThought)>> ELSE <<>>)
        \o (IF read.text THEN <<done("message", NoCall, SomeText)>> ELSE <<>>)
        \o [n \in DOMAIN calls |-> done("function_call", calls[n], Piece(calls[n], "whole"))]

TurnCalls(r) == r.uses \cup Fragments(r, {"open", "whole"})

Becomes(s) == items' = s.items /\ builder' = s.b

\* Upstream keeps to the order thinking, text, calls, and finishes a call before
\* it begins the next.
KeepsOrder(e) ==
    CASE e.type = "thinking_delta" -> \A k \in DOMAIN items : items[k].kind = "reasoning"
      [] e.type = "text_delta" -> \A k \in DOMAIN items : items[k].kind # "function_call"
      [] e.type = "tool_call_delta" ->
            e.first \/ (items # <<>> /\ items[Len(items)].call = e.call)
      [] OTHER -> TRUE

\* An event reaches the builder, if there are callbacks for it.
Pass(e) ==
    \/ /\ sink = "responses"
       /\ Becomes(OnEvent(Now, e))
       /\ ordered' = (ordered /\ KeepsOrder(e))
    \/ sink # "responses" /\ UNCHANGED <<items, builder, ordered>>

-----------------------------------------------------------------------------
(* Specification *)

Init ==
    /\ StreamInit
    /\ items = <<>> /\ builder = NewBuilder /\ ordered = TRUE

Deliver == Dispatch /\ Pass(held)

DeliverLast == EndOfStream /\ Pass(held)

\* Completed, and [DONE].  A client of the built-in search gets all of it now, the
\* calls in any order: they come out of a map.
Complete ==
    /\ Answer
    /\ \/ sink = "responses" /\ Becomes(Completed(Now))
       \/ /\ sink = "search"
          /\ \E calls \in SetToSeqs(TurnCalls(read)) : items' = items \o FilledIn(calls)
          /\ UNCHANGED builder
       \/ sink \notin {"responses", "search"} /\ UNCHANGED <<items, builder>>
    /\ UNCHANGED ordered

\* Steps in which no event is written; response.failed closes no item.
Other ==
    /\ \/ OpenStream \/ Refused
       \/ \E e \in Events : DataLine(e)
       \/ StallFires \/ Stalled \/ Reset \/ Replay \/ Fail \/ Leave
    /\ UNCHANGED <<items, builder, ordered>>

Next == Deliver \/ DeliverLast \/ Complete \/ Other

Spec == Init /\ [][Next]_vars

\* The code runs on; a response header and a silent stream have their time-outs.
\* Nothing is asked of upstream.
FairSpec ==
    /\ Spec
    /\ WF_vars((OpenStream \/ Refused) /\ UNCHANGED <<items, builder, ordered>>)
    /\ WF_vars(StallFires /\ UNCHANGED <<items, builder, ordered>>)
    /\ WF_vars(Stalled /\ UNCHANGED <<items, builder, ordered>>)
    /\ WF_vars((Replay \/ Fail) /\ UNCHANGED <<items, builder, ordered>>)
    /\ WF_vars(Complete)

-----------------------------------------------------------------------------
(* Properties *)

IsComplete == outcome = "completed" /\ sink \in {"responses", "search"}

Pieces == {SomeText, SomeThought} \cup [call : Calls, upto : {"half", "whole"}]

\* Type invariant.
TypeOK ==
    /\ StreamTypeOK
    /\ \A k \in DOMAIN items :
         /\ items[k].kind \in {"reasoning", "message", "function_call"}
         /\ items[k].call \in Calls \cup {NoCall}
         /\ items[k].given \in Seq(Pieces) /\ items[k].final \in Seq(Pieces)
         /\ items[k].dones \in Nat
         /\ items[k].late \in BOOLEAN /\ items[k].astray \in BOOLEAN
    /\ builder.message \in 0..Len(items) /\ builder.reasoning \in 0..Len(items)
    /\ builder.tools \subseteq DOMAIN items
    /\ builder.text \in Seq(Pieces) /\ builder.thinking \in Seq(Pieces)
    /\ ordered \in BOOLEAN

\* No item is done twice and no delta names one that is done, on any way through
\* the stream; when the response is complete every item that was added is done, in
\* whatever order upstream mixed thinking, text and calls (docs/api/http.md:161,
\* ToolCallStart, Completed).
ItemsDoneOnce ==
    \A k \in DOMAIN items :
        /\ ~items[k].late
        /\ items[k].dones \in (IF IsComplete THEN {1} ELSE {0, 1})

\* All events of one item carry its output index and, for a call, its own
\* arguments.
Consistent(item) ==
    /\ ~item.astray
    /\ item.final = item.given
    /\ item.kind = "function_call" =>
         \A n \in DOMAIN item.given : item.given[n].call = item.call

\* What the client has put together from the deltas is what the "done" events
\* say and what the turn says, which the journal records: one message if there
\* is text, one item for each call, as long as upstream keeps its order
\* (responses_stream.go:13).
StreamedIsTheTurn ==
    IsComplete /\ ordered =>
        /\ \A k \in DOMAIN items : Consistent(items[k])
        /\ Cardinality({k \in DOMAIN items : items[k].kind = "message"}) = IF read.text THEN 1 ELSE 0
        /\ {items[k].call : k \in DOMAIN items} \ {NoCall} = TurnCalls(read)

\* The deltas of a call carry the item_id of that call, also when upstream sends
\* several in parallel and tells their fragments apart by index
\* (responses_stream.go:56).
CallsKeepTheirArguments ==
    IsComplete =>
        \A k \in DOMAIN items : items[k].call # NoCall =>
            \A n \in DOMAIN items[k].given : items[k].given[n].call = items[k].call

\* Every request comes to an end, though upstream may fall silent at any point:
\* the stall guard sees to it (client.go:2030).
RequestEnds == <>(pc = "done")

=============================================================================
