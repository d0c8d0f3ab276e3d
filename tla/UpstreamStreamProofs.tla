------------------------- MODULE UpstreamStreamProofs -------------------------
(***************************************************************************)
(* Proofs about UpstreamStream, for every kind of client, any number of    *)
(* calls, events and attempts: the reader never takes a stream that broke  *)
(* off for an answer, and the client gets one answer from one attempt.     *)
(***************************************************************************)
EXTENDS UpstreamStream, TLAPS

-----------------------------------------------------------------------------
(* The inductive invariant *)

\* What the flags of the reader say about the turn it has accumulated.
ReaderOK(r) ==
    /\ r.delivered => r.saw
    /\ r.text => r.saw
    /\ r.uses # {} => r.saw
    /\ \A c \in Calls : r.args[c] # "none" => r.saw
    /\ \A c \in Calls : r.args[c] # "none" /\ sink = "responses" => r.delivered
    /\ r.quiet => r.terminal

\* A turn that passes for complete is one.
VerdictInv ==
    (pc = "judging" /\ error = NoError) \/ outcome = "completed" =>
        /\ read.terminal /\ ~read.failed
        /\ sink = "responses" => HalfCalls(read) = {}

\* What the client has is of this attempt, and the reader knows of it.
SourceInv ==
    /\ source \in {0, try}
    /\ pc = "sending" => source = 0
    /\ pc \in {"reading", "judging"} /\ source = try => read.delivered

OutcomeInv == outcome = "none" <=> pc # "done"

StreamInv == StreamTypeOK /\ ReaderOK(read) /\ VerdictInv /\ SourceInv /\ OutcomeInv

-----------------------------------------------------------------------------
(* The reader *)

USE DEF NoError

\* An event has the fields its type calls for.
LEMMA EventShape ==
    ASSUME NEW e \in Events \cup {Nothing}
    PROVE  /\ e.type \in {"text_delta", "thinking_delta", "upstream_error", "[DONE]",
                           "turn_ended", "tool_use", "tool_call_delta", "nothing"}
           /\ e.type = "turn_ended" => e.quiet \in BOOLEAN
           /\ e.type \in {"tool_use", "tool_call_delta"} => e.call \in Calls
           /\ e.type = "tool_call_delta" => e.upto \in {"open", "half", "whole"}
<1>1. CASE e \in {Text, Thinking, UpstreamError, Done, TurnEnded(TRUE), TurnEnded(FALSE), Nothing}
  <2>1. CASE e = Text BY <2>1 DEF Text
  <2>2. CASE e = Thinking BY <2>2 DEF Thinking
  <2>3. CASE e = UpstreamError BY <2>3 DEF UpstreamError
  <2>4. CASE e = Done BY <2>4 DEF Done
  <2>5. CASE e = TurnEnded(TRUE) BY <2>5 DEF TurnEnded
  <2>6. CASE e = TurnEnded(FALSE) BY <2>6 DEF TurnEnded
  <2>7. CASE e = Nothing BY <2>7 DEF Nothing
  <2>8. QED BY <1>1, <2>1, <2>2, <2>3, <2>4, <2>5, <2>6, <2>7
<1>2. CASE e \in [type : {"tool_use"}, call : Calls, input : BOOLEAN]
  BY <1>2
<1>3. CASE e \in [type : {"tool_call_delta"}, call : Calls, first : BOOLEAN,
                  upto : {"open", "half", "whole"}]
  BY <1>3
<1>4. QED BY <1>1, <1>2, <1>3 DEF Events

LEMMA NewReadOK == NewRead \in ReadType /\ ReaderOK(NewRead) /\ ~NewRead.delivered
BY DEF NewRead, ReadType, ReaderOK

\* Taking an event keeps the reader consistent, and content that reaches the
\* client counts as delivered.
LEMMA TakenKeeps ==
    ASSUME read \in ReadType, ReaderOK(read), NEW e \in Events \cup {Nothing}
    PROVE  /\ Taken(e) \in ReadType
           /\ ReaderOK(Taken(e))
           /\ read.delivered \/ ReachesClient(e) => Taken(e).delivered
<1> DEFINE r == Taken(e)
           args == [c \in Calls |-> IF e.type = "tool_call_delta" /\ e.call = c
                                    THEN e.upto ELSE read.args[c]]
<1>1. /\ r.saw = (read.saw \/ IsContent(e))
      /\ r.delivered = (read.delivered \/ CountsAsDelivered(e))
      /\ r.terminal = (read.terminal \/ e.type \in Ending)
      /\ r.text = (read.text \/ e.type = "text_delta")
      /\ r.uses = read.uses \cup (IF e.type = "tool_use" THEN {e.call} ELSE {})
      /\ r.args = args
      /\ r.failed = (read.failed \/ e.type = "upstream_error")
      /\ r.quiet = IF e.type = "turn_ended" THEN e.quiet ELSE read.quiet
  BY DEF Taken, ReadType
<1>2. args \in [Calls -> {"none", "open", "half", "whole"}]
  BY EventShape DEF ReadType
<1>3. r \in ReadType
  <2>1. e.type = "tool_use" => e.call \in Calls BY EventShape
  <2>2. e.type = "turn_ended" => e.quiet \in BOOLEAN BY EventShape
  <2>3. r = [read EXCEPT !.saw = r.saw, !.delivered = r.delivered, !.terminal = r.terminal,
                         !.text = r.text, !.thinking = r.thinking, !.uses = r.uses,
                         !.args = r.args, !.failed = r.failed, !.quiet = r.quiet]
    BY DEF Taken, ReadType
  <2>4. r.thinking \in BOOLEAN BY DEF Taken, ReadType
  <2>5. r.saw \in BOOLEAN /\ r.delivered \in BOOLEAN /\ r.terminal \in BOOLEAN
        /\ r.text \in BOOLEAN /\ r.failed \in BOOLEAN
    BY <1>1 DEF ReadType
  <2>6. r.uses \in SUBSET Calls BY <1>1, <2>1 DEF ReadType
  <2>7. r.quiet \in BOOLEAN BY <1>1, <2>2 DEF ReadType
  <2>8. r.args \in [Calls -> {"none", "open", "half", "whole"}] BY <1>1, <1>2
  <2>9. QED BY <2>3, <2>4, <2>5, <2>6, <2>7, <2>8 DEF ReadType
<1>4. ReaderOK(r)
  <2>1. r.delivered => r.saw
    BY <1>1 DEF ReaderOK, CountsAsDelivered, IsContent
  <2>2. (r.text => r.saw) /\ (r.uses # {} => r.saw)
    BY <1>1 DEF ReaderOK, IsContent
  <2>3. ASSUME NEW c \in Calls, r.args[c] # "none"
        PROVE  r.saw /\ (sink = "responses" => r.delivered)
    BY <1>1, <2>3 DEF ReaderOK, IsContent, CountsAsDelivered, Live
  <2>4. r.quiet => r.terminal
    BY <1>1 DEF ReaderOK, Ending
  <2>5. QED BY <2>1, <2>2, <2>3, <2>4 DEF ReaderOK
<1>5. read.delivered \/ ReachesClient(e) => r.delivered
  BY <1>1 DEF ReachesClient, CountsAsDelivered, Live
<1>6. QED BY <1>3, <1>4, <1>5

\* A turn is only found complete if upstream has ended it, without an error and
\* without dropping a call that was streamed.
LEMMA VerdictIsRight ==
    ASSUME NEW r \in ReadType, ReaderOK(r)
    PROVE  /\ Verdict(r) \in Errors \cup {NoError}
           /\ Verdict(r) = NoError =>
                r.terminal /\ ~r.failed /\ (sink = "responses" => HalfCalls(r) = {})
<1>1. Verdict(r) \in Errors \cup {NoError}
  BY DEF Verdict, Errors
<1>2. ASSUME Verdict(r) = NoError
      PROVE  r.terminal /\ ~r.failed /\ (sink = "responses" => HalfCalls(r) = {})
  <2>1. /\ r.terminal \/ ~r.saw
        /\ ~r.failed
        /\ ~(r.delivered /\ HalfCalls(r) # {})
        /\ ~IsEmptyTurn(r)
    BY <1>2 DEF Verdict
  <2>2. HasCalls(r) => r.saw
    BY DEF HasCalls, Fragments, ReaderOK
  <2>3. r.terminal
    BY <2>1, <2>2 DEF IsEmptyTurn, ReaderOK
  <2>4. sink = "responses" /\ HalfCalls(r) # {} => r.delivered
    BY DEF HalfCalls, Fragments, ReaderOK
  <2>5. QED BY <2>1, <2>3, <2>4
<1>3. QED BY <1>1, <1>2

-----------------------------------------------------------------------------
(* The invariant is inductive *)

LEMMA InitEstablishes == StreamInit => StreamInv
<1> SUFFICES ASSUME StreamInit PROVE StreamInv
  OBVIOUS
<1>1. StreamTypeOK
  <2>1. 0 \in 0..MaxLines /\ 0 \in 0..1 BY StreamBounds DEF StreamBounds
  <2>2. read \in ReadType BY NewReadOK DEF StreamInit
  <2>3. source \in 0..try /\ lines \in 0..MaxLines BY <2>1 DEF StreamInit
  <2>4. fired \in BOOLEAN BY Zenon DEF StreamInit
  <2>5. QED BY <2>2, <2>3, <2>4 DEF StreamInit, StreamTypeOK
<1>2. ReaderOK(read) /\ VerdictInv /\ SourceInv /\ OutcomeInv
  BY NewReadOK DEF StreamInit, VerdictInv, SourceInv, OutcomeInv
<1>3. QED BY <1>1, <1>2 DEF StreamInv

\* What a step says of the parts of the invariant.
USE DEF Judge, Show

LEMMA OpenStreamKeeps == StreamInv /\ OpenStream => StreamInv'
<1> SUFFICES ASSUME StreamInv, OpenStream PROVE StreamInv'
  OBVIOUS
<1> USE DEF StreamInv, OpenStream
<1>1. StreamTypeOK'
  <2>1. 0 \in 0..MaxLines BY StreamBounds DEF StreamBounds
  <2>2. QED BY NewReadOK, <2>1 DEF StreamTypeOK
<1>2. ReaderOK(read)'
  BY NewReadOK DEF ReaderOK
<1>3. VerdictInv' /\ SourceInv' /\ OutcomeInv'
  BY DEF VerdictInv, SourceInv, OutcomeInv, StreamTypeOK
<1>4. QED BY <1>1, <1>2, <1>3

LEMMA RefusedKeeps == StreamInv /\ Refused => StreamInv'
<1> SUFFICES ASSUME StreamInv, Refused PROVE StreamInv'
  OBVIOUS
<1> USE DEF StreamInv, Refused
<1>1. StreamTypeOK'
  BY NewReadOK DEF StreamTypeOK, Errors
<1>2. ReaderOK(read)'
  BY NewReadOK DEF ReaderOK
<1>3. VerdictInv' /\ SourceInv' /\ OutcomeInv'
  BY DEF VerdictInv, SourceInv, OutcomeInv, StreamTypeOK
<1>4. QED BY <1>1, <1>2, <1>3

LEMMA DispatchKeeps == StreamInv /\ Dispatch => StreamInv'
<1> SUFFICES ASSUME StreamInv, Dispatch PROVE StreamInv'
  OBVIOUS
<1> USE DEF StreamInv, Dispatch
<1>1. /\ Taken(held) \in ReadType /\ ReaderOK(Taken(held))
      /\ read.delivered \/ ReachesClient(held) => Taken(held).delivered
  BY TakenKeeps DEF StreamTypeOK
<1>2. StreamTypeOK'
  BY <1>1 DEF StreamTypeOK
<1>3. ReaderOK(read)'
  BY <1>1 DEF ReaderOK
<1>4. VerdictInv' /\ OutcomeInv'
  BY DEF VerdictInv, OutcomeInv, StreamTypeOK
<1>5. SourceInv'
  BY <1>1 DEF SourceInv, StreamTypeOK
<1>6. QED BY <1>2, <1>3, <1>4, <1>5

LEMMA EndOfStreamKeeps == StreamInv /\ EndOfStream => StreamInv'
<1> SUFFICES ASSUME StreamInv, EndOfStream PROVE StreamInv'
  OBVIOUS
<1> USE DEF StreamInv
<1> DEFINE r == Taken(held)
<1>1. /\ r \in ReadType /\ ReaderOK(r)
      /\ read.delivered \/ ReachesClient(held) => r.delivered
  BY TakenKeeps DEF StreamTypeOK
<1>2. /\ pc = "reading" /\ read' = r /\ pc' = "judging" /\ error' = Verdict(r)
      /\ held' = Nothing /\ source' = IF ReachesClient(held) THEN try ELSE source
      /\ UNCHANGED <<sink, try, lines, fired, outcome>>
  BY DEF EndOfStream
<1> HIDE DEF r
<1>3. /\ Verdict(r) \in Errors \cup {NoError}
      /\ Verdict(r) = NoError =>
           r.terminal /\ ~r.failed /\ (sink = "responses" => HalfCalls(r) = {})
  BY <1>1, VerdictIsRight
<1>4. StreamTypeOK'
  BY <1>1, <1>2, <1>3 DEF StreamTypeOK
<1>5. ReaderOK(read)'
  BY <1>1, <1>2 DEF ReaderOK
<1>6. VerdictInv'
  BY <1>2, <1>3 DEF VerdictInv, OutcomeInv, HalfCalls, Fragments
<1>7. SourceInv' /\ OutcomeInv'
  BY <1>1, <1>2 DEF SourceInv, OutcomeInv, StreamTypeOK
<1>8. QED BY <1>4, <1>5, <1>6, <1>7

\* Steps that leave the reader alone.
LEMMA OthersKeep ==
    ASSUME StreamInv,
           \/ \E e \in Events : DataLine(e)
           \/ StallFires \/ Stalled \/ Reset \/ Replay \/ Fail \/ Answer \/ Leave
    PROVE  StreamInv'
<1> USE DEF StreamInv
<1>1. CASE \E e \in Events : DataLine(e)
  <2>1. PICK e \in Events : DataLine(e) BY <1>1
  <2> USE <2>1 DEF DataLine
  <2>2. StreamTypeOK' BY StreamBounds DEF StreamBounds, StreamTypeOK
  <2>3. ReaderOK(read)' BY DEF ReaderOK
  <2>4. VerdictInv' /\ SourceInv' /\ OutcomeInv'
    BY DEF VerdictInv, SourceInv, OutcomeInv, HalfCalls, Fragments
  <2>5. QED BY <2>2, <2>3, <2>4
<1>2. CASE StallFires \/ Stalled \/ Reset
  <2> USE <1>2 DEF StallFires, Stalled, Reset
  <2>1. StreamTypeOK' BY DEF StreamTypeOK, Errors
  <2>2. ReaderOK(read)' BY DEF ReaderOK
  <2>3. VerdictInv' /\ SourceInv' /\ OutcomeInv'
    BY DEF VerdictInv, SourceInv, OutcomeInv
  <2>4. QED BY <2>1, <2>2, <2>3
<1>3. CASE Replay
  <2> USE <1>3 DEF Replay
  <2>1. source = 0 BY DEF SourceInv, StreamTypeOK
  <2>2. StreamTypeOK' BY <2>1 DEF StreamTypeOK
  <2>3. ReaderOK(read)' BY DEF ReaderOK
  <2>4. VerdictInv' /\ SourceInv' /\ OutcomeInv'
    BY <2>1 DEF VerdictInv, SourceInv, OutcomeInv, StreamTypeOK
  <2>5. QED BY <2>2, <2>3, <2>4
<1>4. CASE Fail \/ Leave
  <2> USE <1>4 DEF Fail, Leave
  <2>1. StreamTypeOK' BY DEF StreamTypeOK
  <2>2. ReaderOK(read)' BY DEF ReaderOK
  <2>3. VerdictInv' /\ SourceInv' /\ OutcomeInv'
    BY DEF VerdictInv, SourceInv, OutcomeInv
  <2>4. QED BY <2>1, <2>2, <2>3
<1>5. CASE Answer
  <2> USE <1>5 DEF Answer
  <2>1. StreamTypeOK' BY DEF StreamTypeOK
  <2>2. ReaderOK(read)' BY DEF ReaderOK
  <2>3. VerdictInv' BY DEF VerdictInv, HalfCalls, Fragments
  <2>4. SourceInv' /\ OutcomeInv' BY DEF SourceInv, OutcomeInv
  <2>5. QED BY <2>1, <2>2, <2>3, <2>4
<1>6. QED BY <1>1, <1>2, <1>3, <1>4, <1>5

LEMMA StutterKeeps == StreamInv /\ UNCHANGED streamVars => StreamInv'
BY DEF StreamInv, StreamTypeOK, ReaderOK, VerdictInv, SourceInv, OutcomeInv, streamVars,
       HalfCalls, Fragments

LEMMA StreamInvariance == StreamSpec => []StreamInv
<1>1. StreamInv /\ [StreamNext]_streamVars => StreamInv'
  BY OpenStreamKeeps, RefusedKeeps, DispatchKeeps, EndOfStreamKeeps, OthersKeep, StutterKeeps
     DEF StreamNext
<1>2. QED BY InitEstablishes, <1>1, PTL DEF StreamSpec

-----------------------------------------------------------------------------
(* Theorems *)

\* The reader and the request stay within their types (readSSE, Complete,
\* CompleteFromPool).
THEOREM StreamTypeCorrect == StreamSpec => []StreamTypeOK
<1>1. StreamInv => StreamTypeOK BY DEF StreamInv
<1>2. QED BY StreamInvariance, <1>1, PTL

\* No stream that broke off, and none that reported an error, is answered as
\* complete (readSSE, Complete).
THEOREM StreamCompleteIsTerminal == StreamSpec => []CompleteIsTerminal
<1>1. StreamInv => CompleteIsTerminal BY DEF StreamInv, VerdictInv, CompleteIsTerminal
<1>2. QED BY StreamInvariance, <1>1, PTL

\* A streamed part of an unfinished call never ends in a complete answer
\* (Complete, accumulator.snapshot).
THEOREM StreamHalfCallFails == StreamSpec => []StreamedHalfCallFails
<1>1. StreamInv => StreamedHalfCallFails
  BY DEF StreamInv, VerdictInv, StreamedHalfCallFails
<1>2. QED BY StreamInvariance, <1>1, PTL

\* The request implements OneAnswer: one attempt's content, one end
\* (readSSE's delivered, CompleteFromPool, streamChat, streamResponses).
THEOREM StreamAnswersOnce == StreamSpec => AnswersOnce
<1> USE DEF Promise!Next, Promise!answerVars, Promise!Retry, Promise!Show, Promise!Complete,
            Promise!Abandon
<1>1. StreamInit => Promise!Init
  BY DEF StreamInit, Promise!Init
<1>2. ASSUME StreamInv, [StreamNext]_streamVars
      PROVE  [Promise!Next]_(Promise!answerVars)
  <2> USE DEF StreamInv, OutcomeInv, SourceInv
  <2>1. CASE Dispatch
    BY <1>2, <2>1 DEF Dispatch
  <2>2. CASE EndOfStream
    BY <1>2, <2>2 DEF EndOfStream
  <2>3. CASE Replay
    BY <1>2, <2>3 DEF Replay, StreamTypeOK
  <2>4. CASE Answer
    BY <1>2, <2>4 DEF Answer
  <2>5. CASE Fail \/ Leave
    BY <1>2, <2>5 DEF Fail, Leave
  <2>6. CASE OpenStream \/ Refused \/ StallFires \/ Stalled \/ Reset
    BY <1>2, <2>6 DEF OpenStream, Refused, StallFires, Stalled, Reset
  <2>7. CASE \E e \in Events : DataLine(e)
    BY <1>2, <2>7 DEF DataLine
  <2>8. CASE UNCHANGED streamVars
    BY <1>2, <2>8 DEF streamVars
  <2>9. QED
    BY <1>2, <2>1, <2>2, <2>3, <2>4, <2>5, <2>6, <2>7, <2>8 DEF StreamNext
<1>3. QED BY StreamInvariance, <1>1, <1>2, PTL DEF StreamSpec, AnswersOnce, Promise!Spec

=============================================================================
