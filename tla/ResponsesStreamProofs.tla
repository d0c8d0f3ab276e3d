------------------------- MODULE ResponsesStreamProofs -------------------------
(***************************************************************************)
(* Proofs about ResponsesStream: however upstream mixes thinking, text and *)
(* calls, every item of a response is added once, open until it is done,   *)
(* and done once; and while upstream keeps its order, the items of a       *)
(* complete response are the turn.                                         *)
(***************************************************************************)
EXTENDS ResponsesStream, UpstreamStreamProofs, FiniteSetTheorems, SequenceTheorems

-----------------------------------------------------------------------------
(* The inductive invariant *)

Item == [kind : {"reasoning", "message", "function_call"}, call : Calls \cup {NoCall},
         given : Seq(Pieces), final : Seq(Pieces), dones : Nat,
         late : BOOLEAN, astray : BOOLEAN]

Builder == [message : Nat, reasoning : Nat, tools : SUBSET Nat,
            text : Seq(Pieces), thinking : Seq(Pieces)]

\* What the builder holds to be open, by number.
OpenItems(s) == Message(s) \cup Reasoning(s) \cup s.b.tools

\* An item is done, once, when the builder no longer holds it to be open.
Good(s) ==
    /\ s \in [items : Seq(Item), b : Builder]
    /\ OpenItems(s) \subseteq DOMAIN s.items
    /\ \A k \in DOMAIN s.items :
         ~s.items[k].late /\ s.items[k].dones = IF k \in OpenItems(s) THEN 0 ELSE 1

\* A complete response has nothing open; nothing is added before the end if
\* there are no callbacks.
ItemsInv ==
    /\ Good(Now)
    /\ IsComplete => OpenItems(Now) = {}
    /\ sink # "responses" => builder = NewBuilder
    /\ ordered \in BOOLEAN

-----------------------------------------------------------------------------
(* The operations of the builder *)

LEMMA PieceTypes ==
    /\ SomeText \in Pieces /\ SomeThought \in Pieces
    /\ \A c \in Calls : \A p \in {"half", "whole"} : Piece(c, p) \in Pieces
BY DEF Pieces, Piece

LEMMA NewItemType ==
    ASSUME NEW kind \in {"reasoning", "message", "function_call"},
           NEW call \in Calls \cup {NoCall}
    PROVE  NewItem(kind, call) \in Item /\ NewItem(kind, call).dones = 0
           /\ ~NewItem(kind, call).late
BY DEF NewItem, Item

\* Closing open items.
LEMMA CloseGood ==
    ASSUME NEW s, Good(s), NEW closed \in SUBSET OpenItems(s)
    PROVE  /\ Good(Close(s, closed))
           /\ Len(Close(s, closed).items) = Len(s.items)
           /\ OpenItems(Close(s, closed)) = OpenItems(s) \ closed
           /\ Message(Close(s, closed)) = Message(s) \ closed
           /\ Reasoning(Close(s, closed)) = Reasoning(s) \ closed
<1> DEFINE t == Close(s, closed)
<1>1. /\ DOMAIN s.items = 1..Len(s.items) /\ Len(s.items) \in Nat
      /\ \A k \in DOMAIN s.items : s.items[k] \in Item
  BY DEF Good
<1>2. /\ DOMAIN t.items = DOMAIN s.items
      /\ \A k \in DOMAIN s.items : k \notin closed => t.items[k] = s.items[k]
  BY DEF Close
<1>3. ASSUME NEW k \in DOMAIN s.items, k \in closed
      PROVE  /\ t.items[k] \in Item
             /\ t.items[k].late = s.items[k].late
             /\ t.items[k].dones = s.items[k].dones + 1
  <2> DEFINE i == s.items[k]
             content == CASE i.kind = "message" -> s.b.text
                          [] i.kind = "reasoning" -> s.b.thinking
                          [] OTHER -> i.given
             astray == i.astray \/ k # IF i.kind = "function_call" THEN k ELSE OutputIndex(s)
  <2>1. t.items[k] = [i EXCEPT !.final = content, !.dones = i.dones + 1, !.astray = astray]
    BY <1>3 DEF Close
  <2>2. i \in Item BY <1>1
  <2>3. content \in Seq(Pieces) BY <2>2 DEF Good, Builder, Item
  <2>4. astray \in BOOLEAN OBVIOUS
  <2> HIDE DEF content, astray, i, t
  <2>5. PICK f : f = [i EXCEPT !.final = content] OBVIOUS
  <2>6. PICK g : g = [f EXCEPT !.dones = f.dones + 1] OBVIOUS
  <2>7. f \in Item /\ f.late = i.late /\ f.dones = i.dones
    BY <2>2, <2>3, <2>5 DEF Item
  <2>8. g \in Item /\ g.late = i.late /\ g.dones = i.dones + 1
    BY <2>6, <2>7 DEF Item
  <2>9. t.items[k] = [g EXCEPT !.astray = astray]
    BY <2>1, <2>5, <2>6, <2>7
  <2>10. t.items[k] \in Item /\ t.items[k].late = i.late /\ t.items[k].dones = i.dones + 1
    BY <2>4, <2>8, <2>9 DEF Item
  <2>11. QED BY <2>10 DEF i
<1>4. t.items \in Seq(Item) /\ Len(t.items) = Len(s.items)
  <2>1. t.items = [k \in 1..Len(s.items) |-> t.items[k]] BY <1>1 DEF Close
  <2>2. \A k \in 1..Len(s.items) : t.items[k] \in Item BY <1>1, <1>2, <1>3
  <2> HIDE DEF t
  <2>3. t.items \in [1..Len(s.items) -> Item] BY <2>1, <2>2
  <2>4. QED BY <2>3, <1>1
<1>5. /\ t.b.message = IF s.b.message \in closed THEN 0 ELSE s.b.message
      /\ t.b.reasoning = IF s.b.reasoning \in closed THEN 0 ELSE s.b.reasoning
      /\ t.b.tools = s.b.tools \ closed
      /\ t.b \in Builder
  BY DEF Close, Good, Builder
<1>6. 0 \notin closed
  BY <1>1 DEF Good
<1> HIDE DEF t
<1>7. Message(t) = Message(s) \ closed /\ Reasoning(t) = Reasoning(s) \ closed
  BY <1>5, <1>6 DEF Message, Reasoning
<1>8. OpenItems(t) = OpenItems(s) \ closed
  BY <1>5, <1>7 DEF OpenItems
<1>9. ASSUME NEW k \in DOMAIN t.items
      PROVE  ~t.items[k].late /\ t.items[k].dones = IF k \in OpenItems(t) THEN 0 ELSE 1
  BY <1>2, <1>3, <1>8 DEF Good
<1>10. t = [items |-> t.items, b |-> t.b]
  BY DEF t, Close
<1>11. Good(t)
  BY <1>2, <1>4, <1>5, <1>8, <1>9, <1>10 DEF Good
<1>12. QED BY <1>4, <1>7, <1>8, <1>11 DEF t

\* Adding an item, which is then open.
LEMMA AddedGood ==
    ASSUME NEW s, Good(s), NEW new \in Item, new.dones = 0, ~new.late, NEW b \in Builder,
           NEW t, t = [items |-> Append(s.items, new), b |-> b],
           OpenItems(t) = OpenItems(s) \cup {Len(s.items) + 1}
    PROVE  Good(t) /\ Len(t.items) = Len(s.items) + 1
<1>1. s.items \in Seq(Item)
  BY DEF Good
<1>2. /\ t.items \in Seq(Item) /\ Len(t.items) = Len(s.items) + 1
      /\ \A k \in DOMAIN s.items : t.items[k] = s.items[k]
      /\ t.items[Len(s.items) + 1] = new
  BY <1>1
<1>3. DOMAIN t.items = DOMAIN s.items \cup {Len(s.items) + 1}
  BY <1>1, <1>2
<1>4. Len(s.items) + 1 \notin DOMAIN s.items
  BY <1>1
<1>5. ASSUME NEW k \in DOMAIN t.items
      PROVE  ~t.items[k].late /\ t.items[k].dones = IF k \in OpenItems(t) THEN 0 ELSE 1
  <2>1. CASE k = Len(s.items) + 1
    BY <2>1, <1>2
  <2>2. CASE k \in DOMAIN s.items
    BY <2>2, <1>2, <1>4 DEF Good
  <2>3. QED BY <2>1, <2>2, <1>3
<1>6. QED BY <1>2, <1>3, <1>5 DEF Good

\* A delta of an open item.
LEMMA DeltaGood ==
    ASSUME NEW s, Good(s), NEW k \in OpenItems(s), NEW piece \in Pieces
    PROVE  /\ Good(Delta(s, k, piece))
           /\ Delta(s, k, piece).b = s.b
           /\ Len(Delta(s, k, piece).items) = Len(s.items)
<1> DEFINE t == Delta(s, k, piece)
           i == s.items[k]
           given == Append(i.given, piece)
           late == i.late \/ i.dones > 0
           astray == i.astray \/ k # OutputIndex(s)
<1>1. /\ s \in [items : Seq(Item), b : Builder] /\ k \in DOMAIN s.items
      /\ i \in Item /\ i.dones = 0 /\ ~i.late
  BY DEF Good
<1>2. PICK h : h = [i EXCEPT !.given = given, !.late = late, !.astray = astray]
  OBVIOUS
<1>3. t = [s EXCEPT !.items = [s.items EXCEPT ![k] = h]]
  BY <1>1, <1>2 DEF Delta
<1>4. t.items = [s.items EXCEPT ![k] = h] /\ t.b = s.b /\ t = [items |-> t.items, b |-> t.b]
  BY <1>1, <1>3
<1> HIDE DEF t
<1>5. given \in Seq(Pieces)
  BY <1>1 DEF Item
<1>6. late = FALSE
  BY <1>1
<1>7. astray \in BOOLEAN OBVIOUS
<1> HIDE DEF given, late, astray
<1>8. h \in Item /\ ~h.late /\ h.dones = 0
  <2>1. PICK f : f = [i EXCEPT !.given = given] OBVIOUS
  <2>2. PICK g : g = [f EXCEPT !.late = late] OBVIOUS
  <2>3. f \in Item /\ f.dones = 0
    BY <1>1, <1>5, <2>1 DEF Item
  <2>4. g \in Item /\ ~g.late /\ g.dones = 0
    BY <1>6, <2>2, <2>3 DEF Item
  <2>5. h = [g EXCEPT !.astray = astray]
    BY <1>2, <2>1, <2>2
  <2>6. QED BY <1>7, <2>4, <2>5 DEF Item
<1>9. /\ t.items \in Seq(Item) /\ Len(t.items) = Len(s.items)
      /\ DOMAIN t.items = DOMAIN s.items
      /\ t.items[k] = h /\ \A n \in DOMAIN s.items : n # k => t.items[n] = s.items[n]
  BY <1>1, <1>8, <1>4
<1>10. t \in [items : Seq(Item), b : Builder] /\ t.b = s.b
  BY <1>1, <1>4, <1>9
<1>11. OpenItems(t) = OpenItems(s)
  BY <1>10 DEF OpenItems, Message, Reasoning
<1>12. Good(t)
  BY <1>8, <1>9, <1>10, <1>11 DEF Good
<1>13. QED BY <1>9, <1>10, <1>12 DEF t

\* The open items are those of the builder; its buffers may grow.
LEMMA BufferGood ==
    ASSUME NEW s, Good(s), NEW b \in Builder,
           b.message = s.b.message, b.reasoning = s.b.reasoning, b.tools = s.b.tools
    PROVE  Good([items |-> s.items, b |-> b])
<1> DEFINE t == [items |-> s.items, b |-> b]
<1>1. t \in [items : Seq(Item), b : Builder] /\ t.items = s.items /\ t.b = b
  BY DEF Good
<1> HIDE DEF t
<1>2. OpenItems(t) = OpenItems(s)
  BY <1>1 DEF OpenItems, Message, Reasoning
<1>3. Good(t)
  BY <1>1, <1>2 DEF Good
<1>4. QED BY <1>3 DEF t

LEMMA ReasoningStartGood ==
    ASSUME NEW s, Good(s), Reasoning(s) = {}
    PROVE  Good(ReasoningStart(s)) /\ Reasoning(ReasoningStart(s)) # {}
<1> DEFINE t == ReasoningStart(s)
           n == Len(s.items) + 1
           b == [s.b EXCEPT !.reasoning = n]
<1>1. s \in [items : Seq(Item), b : Builder] /\ n \in Nat \ {0}
  BY DEF Good
<1> HIDE DEF t
<1>2. t = [items |-> Append(s.items, NewItem("reasoning", NoCall)), b |-> b]
  <2>1. t = [Added(s, "reasoning", NoCall) EXCEPT !.b.reasoning = n]
    BY DEF ReasoningStart, t
  <2>2. QED BY <2>1, <1>1 DEF Added
<1>3. /\ b \in Builder /\ b.reasoning = n /\ b.message = s.b.message
      /\ b.tools = s.b.tools
  BY <1>1 DEF Builder
<1> HIDE DEF b, n
<1>4. Reasoning(t) = {n} /\ OpenItems(t) = OpenItems(s) \cup {n}
  BY <1>1, <1>2, <1>3 DEF OpenItems, Message, Reasoning
<1>5. Good(t)
  BY <1>2, <1>3, <1>4, NewItemType, AddedGood DEF n
<1>6. QED BY <1>4, <1>5 DEF t

LEMMA MessageStartGood ==
    ASSUME NEW s, Good(s), Message(s) = {}
    PROVE  Good(MessageStart(s)) /\ Message(MessageStart(s)) # {}
<1> DEFINE c == Close(s, Reasoning(s))
           t == MessageStart(s)
           n == Len(s.items) + 1
           b == [c.b EXCEPT !.message = n]
<1>1. Reasoning(s) \in SUBSET OpenItems(s)
  BY DEF OpenItems
<1>2. Good(c) /\ Len(c.items) = Len(s.items) /\ Message(c) = {}
  BY <1>1, CloseGood
<1>3. t = [Added(c, "message", NoCall) EXCEPT !.b.message = n]
  BY DEF MessageStart
<1> HIDE DEF c, t
<1>4. c \in [items : Seq(Item), b : Builder] /\ n = Len(c.items) + 1 /\ n \in Nat \ {0}
  BY <1>2 DEF Good
<1>5. t = [items |-> Append(c.items, NewItem("message", NoCall)), b |-> b]
  BY <1>3, <1>4 DEF Added
<1>6. /\ b \in Builder /\ b.message = n /\ b.reasoning = c.b.reasoning
      /\ b.tools = c.b.tools
  BY <1>4 DEF Builder
<1> HIDE DEF b, n
<1>7. Message(t) = {n} /\ OpenItems(t) = OpenItems(c) \cup {n}
  BY <1>2, <1>4, <1>5, <1>6 DEF OpenItems, Message, Reasoning
<1>8. Good(t)
  <2>1. NewItem("message", NoCall) \in Item /\ NewItem("message", NoCall).dones = 0
        /\ ~NewItem("message", NoCall).late
    BY NewItemType
  <2>2. QED BY <2>1, <1>2, <1>4, <1>5, <1>6, <1>7, AddedGood
<1>9. QED BY <1>7, <1>8 DEF t

LEMMA ToolCallStartGood ==
    ASSUME NEW s, Good(s), NEW call \in Calls \cup {NoCall}
    PROVE  Good(ToolCallStart(s, call)) /\ ToolOpen(ToolCallStart(s, call))
<1> DEFINE closed == ({OutputIndex(s)} \cap s.b.tools) \cup Message(s) \cup Reasoning(s)
           c == Close(s, closed)
           t == ToolCallStart(s, call)
           n == Len(s.items) + 1
           b == [c.b EXCEPT !.tools = c.b.tools \cup {n}]
<1>1. closed \in SUBSET OpenItems(s)
  BY DEF OpenItems
<1>2. t = [Added(c, "function_call", call) EXCEPT !.b.tools = @ \cup {n}]
  BY DEF ToolCallStart
<1> HIDE DEF closed
<1>3. Good(c) /\ Len(c.items) = Len(s.items)
  BY <1>1, CloseGood
<1> HIDE DEF c, t
<1>4. c \in [items : Seq(Item), b : Builder] /\ n = Len(c.items) + 1 /\ n \in Nat \ {0}
  BY <1>3 DEF Good
<1>5. t = [items |-> Append(c.items, NewItem("function_call", call)), b |-> b]
  BY <1>2, <1>4 DEF Added
<1>6. /\ b \in Builder /\ b.message = c.b.message /\ b.reasoning = c.b.reasoning
      /\ b.tools = c.b.tools \cup {n}
  BY <1>4 DEF Builder
<1> HIDE DEF b, n
<1>7. n \in t.b.tools /\ OpenItems(t) = OpenItems(c) \cup {n}
  BY <1>5, <1>6 DEF OpenItems, Message, Reasoning
<1>8. Good(t) /\ Len(t.items) = n
  <2>1. b \in Builder /\ Good(c) /\ OpenItems(t) = OpenItems(c) \cup {Len(c.items) + 1}
    BY <1>3, <1>4, <1>6, <1>7
  <2> DEFINE new == NewItem("function_call", call)
  <2>2. new \in Item /\ new.dones = 0 /\ ~new.late
    BY NewItemType
  <2>3. t = [items |-> Append(c.items, new), b |-> b]
    BY <1>5
  <2> HIDE DEF new
  <2>4. Good(t) /\ Len(t.items) = Len(c.items) + 1
    BY <2>1, <2>2, <2>3, AddedGood
  <2>5. QED BY <2>4, <1>4
<1>9. QED BY <1>7, <1>8 DEF t, ToolOpen, OutputIndex

LEMMA ReasoningDeltaGood ==
    ASSUME NEW s, Good(s), Reasoning(s) # {}
    PROVE  Good(ReasoningDelta(s))
<1> DEFINE c == Delta(s, s.b.reasoning, SomeThought)
           b == [c.b EXCEPT !.thinking = Append(c.b.thinking, SomeThought)]
<1>1. s.b.reasoning \in OpenItems(s) /\ SomeThought \in Pieces
  BY PieceTypes DEF OpenItems, Reasoning
<1>2. Good(c)
  BY <1>1, DeltaGood
<1>3. ReasoningDelta(s) = [c EXCEPT !.b.thinking = Append(@, SomeThought)]
  BY DEF ReasoningDelta
<1> HIDE DEF c
<1>4. c \in [items : Seq(Item), b : Builder]
  BY <1>2 DEF Good
<1>5. ReasoningDelta(s) = [items |-> c.items, b |-> b]
  BY <1>3, <1>4
<1>6. /\ b \in Builder /\ b.message = c.b.message /\ b.reasoning = c.b.reasoning
      /\ b.tools = c.b.tools
  <2> DEFINE more == Append(c.b.thinking, SomeThought)
  <2>1. more \in Seq(Pieces)
    BY <1>1, <1>4 DEF Builder
  <2>2. b = [c.b EXCEPT !.thinking = more] OBVIOUS
  <2> HIDE DEF more, b
  <2>3. QED BY <1>4, <2>1, <2>2 DEF Builder
<1> HIDE DEF b
<1>7. QED BY <1>2, <1>5, <1>6, BufferGood

LEMMA MessageDeltaGood ==
    ASSUME NEW s, Good(s), Message(s) # {}
    PROVE  Good(MessageDelta(s))
<1> DEFINE c == Delta(s, s.b.message, SomeText)
           b == [c.b EXCEPT !.text = Append(c.b.text, SomeText)]
<1>1. s.b.message \in OpenItems(s) /\ SomeText \in Pieces
  BY PieceTypes DEF OpenItems, Message
<1>2. Good(c)
  BY <1>1, DeltaGood
<1>3. MessageDelta(s) = [c EXCEPT !.b.text = Append(@, SomeText)]
  BY DEF MessageDelta
<1> HIDE DEF c
<1>4. c \in [items : Seq(Item), b : Builder]
  BY <1>2 DEF Good
<1>5. MessageDelta(s) = [items |-> c.items, b |-> b]
  BY <1>3, <1>4
<1>6. /\ b \in Builder /\ b.message = c.b.message /\ b.reasoning = c.b.reasoning
      /\ b.tools = c.b.tools
  <2> DEFINE more == Append(c.b.text, SomeText)
  <2>1. more \in Seq(Pieces)
    BY <1>1, <1>4 DEF Builder
  <2>2. b = [c.b EXCEPT !.text = more] OBVIOUS
  <2> HIDE DEF more, b
  <2>3. QED BY <1>4, <2>1, <2>2 DEF Builder
<1> HIDE DEF b
<1>7. QED BY <1>2, <1>5, <1>6, BufferGood

LEMMA ToolCallDeltaGood ==
    ASSUME NEW s, Good(s), ToolOpen(s), NEW piece \in Pieces
    PROVE  Good(ToolCallDelta(s, piece)) /\ ToolOpen(ToolCallDelta(s, piece))
<1>1. OutputIndex(s) \in OpenItems(s)
  BY DEF ToolOpen, OpenItems
<1>2. QED BY <1>1, DeltaGood DEF ToolCallDelta, ToolOpen, OutputIndex

LEMMA ToolCallDoneGood ==
    ASSUME NEW s, Good(s), ToolOpen(s)
    PROVE  Good(ToolCallDone(s))
<1>1. {OutputIndex(s)} \in SUBSET OpenItems(s)
  BY DEF ToolOpen, OpenItems
<1>2. QED BY <1>1, CloseGood DEF ToolCallDone

\* Completed closes whatever is open.
LEMMA CompletedGood ==
    ASSUME NEW s, Good(s)
    PROVE  Good(Completed(s)) /\ OpenItems(Completed(s)) = {}
<1>1. Completed(s) = Close(s, OpenItems(s))
  BY DEF Completed, OpenItems
<1>2. OpenItems(s) \in SUBSET OpenItems(s) OBVIOUS
<1>3. QED BY <1>1, <1>2, CloseGood

\* One event of upstream, of any kind and at any point.
LEMMA OnEventGood ==
    ASSUME NEW s, Good(s), NEW e \in Events \cup {Nothing}
    PROVE  Good(OnEvent(s, e))
<1>1. CASE e.type = "text_delta"
  <2> DEFINE started == IF Message(s) = {} THEN MessageStart(s) ELSE s
  <2>1. Good(started) /\ Message(started) # {}
    BY MessageStartGood
  <2>2. OnEvent(s, e) = MessageDelta(started)
    BY <1>1 DEF OnEvent
  <2> HIDE DEF started
  <2>3. QED BY <2>1, <2>2, MessageDeltaGood
<1>2. CASE e.type = "thinking_delta"
  <2> DEFINE started == IF Reasoning(s) = {} THEN ReasoningStart(s) ELSE s
  <2>1. Good(started) /\ Reasoning(started) # {}
    BY ReasoningStartGood
  <2>2. OnEvent(s, e) = ReasoningDelta(started)
    BY <1>2 DEF OnEvent
  <2> HIDE DEF started
  <2>3. QED BY <2>1, <2>2, ReasoningDeltaGood
<1>3. CASE e.type = "tool_use"
  <2> DEFINE started == ToolCallStart(s, e.call)
             filled == ToolCallDelta(started, Piece(e.call, "whole"))
  <2>1. e.call \in Calls
    BY <1>3 DEF Events, Text, Thinking, UpstreamError, Done, TurnEnded, Nothing
  <2>2. Good(started) /\ ToolOpen(started)
    BY <2>1, ToolCallStartGood
  <2>3. Piece(e.call, "whole") \in Pieces
    BY <2>1, PieceTypes
  <2>4. OnEvent(s, e) = IF e.input THEN ToolCallDone(filled) ELSE started
    BY <1>3 DEF OnEvent, OnUse
  <2> HIDE DEF started
  <2>5. Good(filled) /\ ToolOpen(filled)
    BY <2>2, <2>3, ToolCallDeltaGood
  <2> HIDE DEF filled
  <2>6. Good(ToolCallDone(filled))
    BY <2>5, ToolCallDoneGood
  <2>7. QED BY <2>2, <2>4, <2>6
<1>4. CASE e.type = "tool_call_delta"
  <2> DEFINE started == IF e.first THEN ToolCallStart(s, e.call) ELSE s
             open == IF ToolOpen(started) THEN started ELSE ToolCallStart(started, NoCall)
             filled == ToolCallDelta(open, Piece(e.call, e.upto))
  <2>1. e.call \in Calls /\ e.upto \in {"open", "half", "whole"}
    BY <1>4 DEF Events, Text, Thinking, UpstreamError, Done, TurnEnded, Nothing
  <2>2. Good(started)
    BY <2>1, ToolCallStartGood
  <2>3. OnEvent(s, e) = IF e.upto = "open" THEN started ELSE filled
    BY <1>4 DEF OnEvent, OnFragment
  <2> HIDE DEF started
  <2>4. Good(open) /\ ToolOpen(open)
    BY <2>2, ToolCallStartGood
  <2> HIDE DEF open
  <2>5. CASE e.upto = "open"
    BY <2>2, <2>3, <2>5
  <2>6. CASE e.upto \in {"half", "whole"}
    <3>1. Piece(e.call, e.upto) \in Pieces
      BY <2>1, <2>6, PieceTypes
    <3>2. Good(filled)
      BY <2>4, <3>1, ToolCallDeltaGood
    <3>3. QED BY <2>3, <2>6, <3>2
  <2>7. QED BY <2>1, <2>5, <2>6
<1>5. CASE e.type \notin {"text_delta", "thinking_delta", "tool_use", "tool_call_delta"}
  BY <1>5 DEF OnEvent
<1>6. QED BY <1>1, <1>2, <1>3, <1>4, <1>5

-----------------------------------------------------------------------------
(* What is filled in at the end *)

DoneItem == {i \in Item : i.dones = 1 /\ ~i.late}

LEMMA NothingOpen ==
    ASSUME NEW s, s \in [items : Seq(Item), b : Builder], OpenItems(s) = {}
    PROVE  Good(s) <=> s.items \in Seq(DoneItem)
<1>1. ASSUME Good(s) PROVE s.items \in Seq(DoneItem)
  <2>1. \A k \in 1..Len(s.items) : s.items[k] \in DoneItem
    BY <1>1 DEF Good, DoneItem
  <2>2. s.items \in [1..Len(s.items) -> DoneItem] /\ Len(s.items) \in Nat
    BY <2>1
  <2>3. QED BY <2>2
<1>2. ASSUME s.items \in Seq(DoneItem) PROVE Good(s)
  <2>1. \A k \in DOMAIN s.items : s.items[k] \in DoneItem
    BY <1>2
  <2>2. QED BY <2>1 DEF Good, DoneItem
<1>3. QED BY <1>1, <1>2

LEMMA FilledInDone ==
    ASSUME NEW calls \in Seq(Calls)
    PROVE  FilledIn(calls) \in Seq(DoneItem)
<1> DEFINE done(kind, call, piece) ==
               [NewItem(kind, call) EXCEPT !.given = <<piece>>, !.final = <<piece>>, !.dones = 1]
           thought == done("reasoning", NoCall, SomeThought)
           text == done("message", NoCall, SomeText)
           called == [n \in DOMAIN calls |->
                        done("function_call", calls[n], Piece(calls[n], "whole"))]
<1>1. ASSUME NEW kind \in {"reasoning", "message", "function_call"},
             NEW call \in Calls \cup {NoCall}, NEW piece \in Pieces
      PROVE  done(kind, call, piece) \in DoneItem
  <2> DEFINE new == NewItem(kind, call)
             only == <<piece>>
  <2>1. new \in Item /\ ~new.late
    BY NewItemType
  <2>2. only \in Seq(Pieces) OBVIOUS
  <2>3. done(kind, call, piece) = [new EXCEPT !.given = only, !.final = only, !.dones = 1]
    OBVIOUS
  <2> HIDE DEF done, only, new
  <2>4. PICK f : f = [new EXCEPT !.given = only] OBVIOUS
  <2>5. PICK g : g = [f EXCEPT !.final = only] OBVIOUS
  <2>6. f \in Item /\ ~f.late
    BY <2>1, <2>2, <2>4 DEF Item
  <2>7. g \in Item /\ ~g.late
    BY <2>2, <2>5, <2>6 DEF Item
  <2>8. PICK h : h = [g EXCEPT !.dones = 1] OBVIOUS
  <2>9. h \in Item /\ ~h.late /\ h.dones = 1
    BY <2>7, <2>8 DEF Item
  <2>10. done(kind, call, piece) = h
    BY <2>3, <2>4, <2>5, <2>8
  <2>11. QED BY <2>9, <2>10 DEF DoneItem
<1>2. FilledIn(calls) = (IF read.thinking THEN <<thought>> ELSE <<>>)
                        \o (IF read.text THEN <<text>> ELSE <<>>) \o called
  BY DEF FilledIn
<1> HIDE DEF done
<1>3. thought \in DoneItem /\ text \in DoneItem
  BY <1>1, PieceTypes
<1>4. called \in Seq(DoneItem)
  <2>1. \A n \in DOMAIN calls : calls[n] \in Calls /\ Piece(calls[n], "whole") \in Pieces
    BY PieceTypes
  <2>2. called \in [1..Len(calls) -> DoneItem]
    BY <2>1, <1>1
  <2>3. QED BY <2>2
<1> HIDE DEF thought, text, called
<1> DEFINE one == IF read.thinking THEN <<thought>> ELSE <<>>
           two == IF read.text THEN <<text>> ELSE <<>>
<1>5. one \in Seq(DoneItem) /\ two \in Seq(DoneItem)
  BY <1>3
<1>6. FilledIn(calls) = (one \o two) \o called
  BY <1>2
<1> HIDE DEF one, two
<1>7. one \o two \in Seq(DoneItem)
  BY <1>5, ConcatProperties
<1>8. QED BY <1>4, <1>6, <1>7, ConcatProperties

LEMMA TurnCallsSeq ==
    ASSUME StreamTypeOK, NEW calls \in SetToSeqs(TurnCalls(read))
    PROVE  calls \in Seq(Calls)
<1>1. TurnCalls(read) \in SUBSET Calls
  BY DEF TurnCalls, Fragments, StreamTypeOK, ReadType
<1>2. IsFiniteSet(Calls)
  BY FS_Interval, StreamBounds DEF Calls
<1>3. Cardinality(TurnCalls(read)) \in Nat
  BY <1>1, <1>2, FS_Subset, FS_CardinalityType
<1>4. calls \in [1..Cardinality(TurnCalls(read)) -> TurnCalls(read)]
  BY DEF SetToSeqs
<1>5. calls \in [1..Cardinality(TurnCalls(read)) -> Calls]
  BY <1>1, <1>4
<1>6. QED BY <1>3, <1>5

\* Building the events of the Responses API does not interfere with reading: all
\* that UpstreamStreamProofs proves holds of it (streamResponses).
THEOREM ResponsesReadStreams == Spec => StreamSpec
<1>1. Init => StreamInit
  BY DEF Init
<1>2. [Next]_vars => [StreamNext]_streamVars
  BY DEF Next, vars, Deliver, DeliverLast, Complete, Other, StreamNext
<1>3. QED BY <1>1, <1>2, PTL DEF Spec, StreamSpec

-----------------------------------------------------------------------------
(* The invariant *)

LEMMA InitItems == Init => ItemsInv
<1> SUFFICES ASSUME Init PROVE ItemsInv
  OBVIOUS
<1>1. items = <<>> /\ builder = NewBuilder /\ ordered = TRUE /\ outcome = "none"
  BY DEF Init, StreamInit
<1>2. builder \in Builder /\ Now = [items |-> <<>>, b |-> builder]
  BY <1>1 DEF NewBuilder, Builder, Now
<1>3. OpenItems(Now) = {}
  BY <1>1, <1>2 DEF OpenItems, Message, Reasoning, NewBuilder
<1>4. <<>> \in Seq(Item) /\ <<>> \in Seq(DoneItem) OBVIOUS
<1>5. Now \in [items : Seq(Item), b : Builder] /\ Now.items = <<>>
  BY <1>2, <1>4
<1>6. Good(Now)
  BY <1>3, <1>4, <1>5, NothingOpen
<1>7. QED BY <1>1, <1>3, <1>6 DEF ItemsInv

LEMMA PassKeeps ==
    ASSUME StreamInv, ItemsInv, Pass(held), sink' = sink, outcome' = outcome, pc # "done"
    PROVE  ItemsInv'
<1>1. held \in Events \cup {Nothing} /\ outcome = "none"
  BY DEF StreamInv, StreamTypeOK, OutcomeInv
<1>2. ~IsComplete'
  BY <1>1 DEF IsComplete
<1>3. ordered' \in BOOLEAN
  BY DEF Pass, ItemsInv
<1>4. CASE sink = "responses"
  <2>1. items' = OnEvent(Now, held).items /\ builder' = OnEvent(Now, held).b
    BY <1>4 DEF Pass, Becomes
  <2>2. Good(OnEvent(Now, held))
    BY <1>1, OnEventGood DEF ItemsInv
  <2>3. OnEvent(Now, held) = [items |-> OnEvent(Now, held).items, b |-> OnEvent(Now, held).b]
    BY <2>2 DEF Good
  <2>4. Now' = OnEvent(Now, held)
    BY <2>1, <2>3 DEF Now
  <2>5. Good(Now')
    BY <2>2, <2>4
  <2>6. QED BY <1>2, <1>3, <1>4, <2>5 DEF ItemsInv
<1>5. CASE sink # "responses"
  <2>1. UNCHANGED <<items, builder>>
    BY <1>5 DEF Pass
  <2>2. Now' = Now
    BY <2>1 DEF Now
  <2>3. QED BY <1>2, <1>3, <1>5, <2>1, <2>2 DEF ItemsInv
<1>6. QED BY <1>4, <1>5

LEMMA CompleteKeeps == StreamInv /\ ItemsInv /\ Complete => ItemsInv'
<1> SUFFICES ASSUME StreamInv, ItemsInv, Complete PROVE ItemsInv'
  OBVIOUS
<1>1. /\ sink' = sink /\ outcome' = "completed" /\ ordered' \in BOOLEAN
      /\ outcome # "completed"
  BY DEF Complete, Answer, ItemsInv, StreamInv, OutcomeInv
<1>2. CASE sink = "responses" /\ Becomes(Completed(Now))
  <2>1. Good(Completed(Now)) /\ OpenItems(Completed(Now)) = {}
    BY CompletedGood DEF ItemsInv
  <2>2. Completed(Now) = [items |-> Completed(Now).items, b |-> Completed(Now).b]
    BY <2>1 DEF Good
  <2>3. Now' = Completed(Now)
    BY <1>2, <2>2 DEF Now, Becomes
  <2>4. Good(Now') /\ OpenItems(Now') = {}
    BY <2>1, <2>3
  <2>5. QED BY <1>1, <1>2, <2>4 DEF ItemsInv
<1>3. ASSUME NEW calls \in SetToSeqs(TurnCalls(read)), sink = "search",
             items' = items \o FilledIn(calls), builder' = builder
      PROVE  ItemsInv'
  <2>1. Good(Now) /\ OpenItems(Now) = {} /\ OpenItems(Now') = {}
    BY <1>3 DEF ItemsInv, Now, OpenItems, Message, Reasoning, NewBuilder
  <2>2. items \in Seq(Item) /\ builder \in Builder
    BY <2>1 DEF Good, Now
  <2>3. Now \in [items : Seq(Item), b : Builder]
    BY <2>1 DEF Good
  <2>4. items \in Seq(DoneItem)
    BY <2>1, <2>3, NothingOpen DEF Now
  <2>5. FilledIn(calls) \in Seq(DoneItem)
    BY TurnCallsSeq, FilledInDone DEF StreamInv
  <2>6. items' \in Seq(DoneItem)
    BY <1>3, <2>4, <2>5, ConcatProperties
  <2>7. items' \in Seq(Item)
    BY <2>6 DEF DoneItem
  <2>8. Now' \in [items : Seq(Item), b : Builder] /\ Now'.items = items'
    BY <1>3, <2>2, <2>7 DEF Now
  <2>9. Good(Now')
    BY <2>1, <2>6, <2>8, NothingOpen
  <2>10. QED BY <1>1, <1>3, <2>1, <2>9 DEF ItemsInv
<1>4. CASE sink \notin {"responses", "search"} /\ UNCHANGED <<items, builder>>
  <2>1. ~IsComplete'
    BY <1>1, <1>4 DEF IsComplete
  <2>2. Now' = Now
    BY <1>4 DEF Now
  <2>3. QED BY <1>1, <1>4, <2>1, <2>2 DEF ItemsInv
<1>5. QED BY <1>2, <1>3, <1>4 DEF Complete

LEMMA OtherKeepsItems == StreamInv /\ ItemsInv /\ Other => ItemsInv'
<1> SUFFICES ASSUME StreamInv, ItemsInv, Other PROVE ItemsInv'
  OBVIOUS
<1>1. Now' = Now /\ builder' = builder /\ ordered' = ordered
  BY DEF Other, Now
<1>2. sink' = sink /\ outcome' # "completed"
  BY DEF Other, OpenStream, Refused, DataLine, StallFires, Stalled, Reset, Replay, Fail,
         Leave, StreamInv, OutcomeInv
<1>3. QED BY <1>1, <1>2 DEF ItemsInv, IsComplete

LEMMA ItemsInvariance == Spec => [](StreamInv /\ ItemsInv)
<1>1. Spec => []StreamInv
  BY ResponsesReadStreams, StreamInvariance, PTL
<1>2. StreamInv /\ ItemsInv /\ [Next]_vars => ItemsInv'
  <2> SUFFICES ASSUME StreamInv, ItemsInv, [Next]_vars PROVE ItemsInv'
    OBVIOUS
  <2>1. CASE Deliver
    <3>1. pc # "done" /\ sink' = sink /\ outcome' = outcome
      BY <2>1 DEF Deliver, Dispatch
    <3>2. QED BY <2>1, <3>1, PassKeeps DEF Deliver
  <2>2. CASE DeliverLast
    <3>1. pc # "done" /\ sink' = sink /\ outcome' = outcome
      BY <2>2 DEF DeliverLast, EndOfStream
    <3>2. QED BY <2>2, <3>1, PassKeeps DEF DeliverLast
  <2>3. CASE Complete
    BY <2>3, CompleteKeeps
  <2>4. CASE Other
    BY <2>4, OtherKeepsItems
  <2>5. CASE UNCHANGED vars
    <3>1. Now' = Now
      BY <2>5 DEF vars, Now
    <3>2. UNCHANGED <<builder, ordered, sink, outcome>>
      BY <2>5 DEF vars, streamVars
    <3>3. QED BY <3>1, <3>2 DEF ItemsInv, IsComplete
  <2>6. QED BY <2>1, <2>2, <2>3, <2>4, <2>5 DEF Next
<1>3. Spec => Init /\ [][Next]_vars
  BY DEF Spec
<1>4. QED BY <1>1, <1>2, <1>3, InitItems, PTL

-----------------------------------------------------------------------------
(* A turn in order *)

\* The calls that the turn r has begun.
BegunCalls(r) == r.uses \cup Fragments(r, {"open", "half", "whole"})

HasKind(s, kind) == \E k \in DOMAIN s.items : s.items[k].kind = kind

CallsOf(s) == {s.items[k].call : k \in DOMAIN s.items} \ {NoCall}

\* Item k is where its kind belongs and has nothing but its own content.
InPlace(s, k) ==
    /\ ~s.items[k].astray
    /\ s.items[k].kind = "reasoning" => k = 1 /\ s.items[k].given = s.b.thinking
    /\ s.items[k].kind = "message" =>
         /\ s.items[k].given = s.b.text
         /\ \A j \in DOMAIN s.items : j < k => s.items[j].kind = "reasoning"
    /\ s.items[k].kind = "function_call" =>
         \A n \in DOMAIN s.items[k].given : s.items[k].given[n].call = s.items[k].call
    /\ s.items[k].kind = "function_call" <=> s.items[k].call # NoCall

\* While upstream keeps its order, one item is open at most, the last.
Orderly(s) ==
    /\ \A k \in DOMAIN s.items : InPlace(s, k)
    /\ \A k \in DOMAIN s.items : k \notin OpenItems(s) => s.items[k].final = s.items[k].given
    /\ OpenItems(s) \subseteq {Len(s.items)}
    /\ \A k \in Message(s) : s.items[k].kind = "message"
    /\ \A k \in Reasoning(s) : s.items[k].kind = "reasoning"
    /\ \A k \in s.b.tools : s.items[k].kind = "function_call"
    /\ ~HasKind(s, "message") => s.b.text = <<>>
    /\ ~HasKind(s, "reasoning") => s.b.thinking = <<>>

\* The last item is open, unless it is a call that came as a whole.
LastOpen(s, uses) ==
    s.items # <<>> => \/ Len(s.items) \in OpenItems(s)
                      \/ s.items[Len(s.items)].call \in uses

\* The items are those of the turn r.
Matches(s, r) ==
    /\ HasKind(s, "message") <=> r.text
    /\ CallsOf(s) = BegunCalls(r)

\* What StreamedIsTheTurn says, of a list of items and a turn r.
IsTheTurn(list, r) ==
    /\ \A k \in DOMAIN list : Consistent(list[k])
    /\ Cardinality({k \in DOMAIN list : list[k].kind = "message"}) = IF r.text THEN 1 ELSE 0
    /\ {list[k].call : k \in DOMAIN list} \ {NoCall} = TurnCalls(r)

OrderInv ==
    /\ sink # "responses" /\ outcome # "completed" => items = <<>>
    /\ pc = "reading" /\ held # Nothing => Sendable(held)
    /\ sink = "responses" /\ (read.text \/ read.uses # {}) => read.delivered
    /\ pc = "sending" => ~read.delivered
    /\ sink = "responses" /\ ordered /\ pc # "done" =>
         Orderly(Now) /\ LastOpen(Now, read.uses) /\ Matches(Now, read)
    /\ StreamedIsTheTurn

\* Closing what is open: every item is done with what its deltas brought.
LEMMA CloseOrderly ==
    ASSUME NEW s, Good(s), Orderly(s)
    PROVE  LET t == Close(s, OpenItems(s))
           IN  /\ Orderly(t) /\ Good(t) /\ OpenItems(t) = {}
               /\ Len(t.items) = Len(s.items)
               /\ t.b.text = s.b.text /\ t.b.thinking = s.b.thinking
               /\ \A k \in DOMAIN t.items : /\ t.items[k].kind = s.items[k].kind
                                            /\ t.items[k].call = s.items[k].call
<1> DEFINE open == OpenItems(s)
           t == Close(s, open)
<1>1. /\ s \in [items : Seq(Item), b : Builder]
      /\ \A k \in DOMAIN s.items : s.items[k] \in Item
      /\ open \subseteq DOMAIN s.items
  BY DEF Good
<1>2. /\ Good(t) /\ Len(t.items) = Len(s.items)
      /\ OpenItems(t) = {} /\ Message(t) = {} /\ Reasoning(t) = {}
  <2>1. open \in SUBSET OpenItems(s) OBVIOUS
  <2>2. QED BY <2>1, CloseGood DEF OpenItems
<1>3. /\ t.b.text = s.b.text /\ t.b.thinking = s.b.thinking
      /\ DOMAIN t.items = DOMAIN s.items
      /\ \A k \in DOMAIN s.items : k \notin open => t.items[k] = s.items[k]
  BY <1>1 DEF Close, Builder
<1>4. ASSUME NEW k \in DOMAIN s.items, k \in open
      PROVE  /\ t.items[k].kind = s.items[k].kind /\ t.items[k].call = s.items[k].call
             /\ t.items[k].given = s.items[k].given
             /\ t.items[k].final = s.items[k].given
             /\ ~t.items[k].astray
  <2> DEFINE i == s.items[k]
             content == CASE i.kind = "message" -> s.b.text
                          [] i.kind = "reasoning" -> s.b.thinking
                          [] OTHER -> i.given
             astray == i.astray \/ k # IF i.kind = "function_call" THEN k ELSE OutputIndex(s)
  <2>1. t.items[k] = [i EXCEPT !.final = content, !.dones = i.dones + 1, !.astray = astray]
    BY <1>4, <1>3 DEF Close
  <2>2. i \in Item /\ InPlace(s, k) /\ k = OutputIndex(s)
    BY <1>1, <1>4 DEF Orderly, OutputIndex
  <2>3. content = i.given
    BY <2>2 DEF InPlace, Item
  <2>4. ~astray
    BY <2>2 DEF InPlace
  <2> HIDE DEF content, astray, t
  <2>5. QED BY <2>1, <2>2, <2>3, <2>4 DEF Item
<1> HIDE DEF t
<1>5. \A k \in DOMAIN t.items :
         /\ t.items[k].kind = s.items[k].kind /\ t.items[k].call = s.items[k].call
         /\ t.items[k].given = s.items[k].given
         /\ t.items[k].final = t.items[k].given
         /\ ~t.items[k].astray
  <2> SUFFICES ASSUME NEW k \in DOMAIN t.items
               PROVE  /\ t.items[k].kind = s.items[k].kind /\ t.items[k].call = s.items[k].call
                      /\ t.items[k].given = s.items[k].given
                      /\ t.items[k].final = t.items[k].given
                      /\ ~t.items[k].astray
    OBVIOUS
  <2>1. CASE k \in open
    BY <2>1, <1>3, <1>4
  <2>2. CASE k \notin open
    BY <2>2, <1>3 DEF Orderly, InPlace
  <2>3. QED BY <2>1, <2>2
<1>6. ASSUME NEW k \in DOMAIN t.items PROVE InPlace(t, k)
  <2>1. InPlace(s, k)
    BY <1>3 DEF Orderly
  <2>2. QED BY <2>1, <1>3, <1>5 DEF InPlace
<1>7. HasKind(t, "message") = HasKind(s, "message")
      /\ HasKind(t, "reasoning") = HasKind(s, "reasoning")
  BY <1>3, <1>5 DEF HasKind
<1>8. Orderly(t)
  BY <1>2, <1>3, <1>5, <1>6, <1>7 DEF Orderly, OpenItems
<1>9. QED BY <1>2, <1>3, <1>5, <1>8 DEF t

\* An item that is next in order.
IsNext(s, kind, call) ==
    /\ kind \in {"reasoning", "message", "function_call"}
    /\ call \in Calls \cup {NoCall}
    /\ call # NoCall <=> kind = "function_call"
    /\ kind = "reasoning" => s.items = <<>>
    /\ kind = "message" => \A k \in DOMAIN s.items : s.items[k].kind = "reasoning"

\* In t there is one item more than in c, and only that one is open.
AddsOne(c, kind, call, t) ==
    LET n == Len(c.items) + 1
    IN  /\ t.items = Append(c.items, NewItem(kind, call))
        /\ t.b.text = c.b.text /\ t.b.thinking = c.b.thinking
        /\ Message(t) = IF kind = "message" THEN {n} ELSE {}
        /\ Reasoning(t) = IF kind = "reasoning" THEN {n} ELSE {}
        /\ t.b.tools = IF kind = "function_call" THEN {n} ELSE {}

\* Adding an item while nothing is open.
LEMMA AddedOrderly ==
    ASSUME NEW c, Good(c), Orderly(c), OpenItems(c) = {},
           NEW kind, NEW call, IsNext(c, kind, call), NEW t, AddsOne(c, kind, call, t)
    PROVE  /\ Orderly(t) /\ Len(t.items) = Len(c.items) + 1 /\ OpenItems(t) = {Len(t.items)}
           /\ t.items[Len(t.items)].kind = kind /\ t.items[Len(t.items)].call = call
           /\ \A k \in DOMAIN c.items : t.items[k] = c.items[k]
           /\ \A other : HasKind(t, other) <=> HasKind(c, other) \/ other = kind
           /\ CallsOf(t) = CallsOf(c) \cup ({call} \ {NoCall})
<1> DEFINE n == Len(c.items) + 1
           new == NewItem(kind, call)
<1> USE DEF IsNext, AddsOne
<1>1. c.items \in Seq(Item) /\ n \in Nat \ {0}
  BY DEF Good
<1>2. /\ Len(t.items) = n /\ DOMAIN t.items = DOMAIN c.items \cup {n}
      /\ t.items[n] = new /\ n \notin DOMAIN c.items
      /\ \A k \in DOMAIN c.items : t.items[k] = c.items[k] /\ k < n /\ k \in Nat
  BY <1>1
<1>3. /\ new.kind = kind /\ new.call = call /\ new.given = <<>> /\ new.final = <<>>
      /\ ~new.astray
  BY DEF NewItem
<1>4. OpenItems(t) = {n}
  BY DEF OpenItems
<1> HIDE DEF n, new
<1>5. \A other : HasKind(t, other) <=> HasKind(c, other) \/ other = kind
  BY <1>2, <1>3 DEF HasKind
<1>6. CallsOf(t) = CallsOf(c) \cup ({call} \ {NoCall})
  <2>1. {t.items[k].call : k \in DOMAIN t.items}
          = {c.items[k].call : k \in DOMAIN c.items} \cup {call}
    BY <1>2, <1>3
  <2>2. QED BY <2>1 DEF CallsOf
<1>7. ASSUME NEW k \in DOMAIN c.items PROVE InPlace(t, k)
  <2>1. InPlace(c, k)
    BY DEF Orderly
  <2>2. \A j \in DOMAIN t.items : j < k => j \in DOMAIN c.items
    BY <1>2, <1>1
  <2>3. QED BY <1>2, <2>1, <2>2 DEF InPlace
<1>8. InPlace(t, n)
  <2>1. kind = "reasoning" => n = 1 /\ t.b.thinking = <<>>
    <3>1. ASSUME kind = "reasoning" PROVE c.items = <<>> /\ ~HasKind(c, "reasoning")
      BY <3>1 DEF HasKind
    <3>2. QED BY <3>1 DEF Orderly, n
  <2>2. kind = "message" => t.b.text = <<>>
    <3>1. ASSUME kind = "message" PROVE ~HasKind(c, "message")
      BY <3>1 DEF HasKind
    <3>2. QED BY <3>1 DEF Orderly
  <2>3. kind = "message" => \A j \in DOMAIN t.items : j < n => t.items[j].kind = "reasoning"
    BY <1>2, <1>1
  <2>4. QED BY <1>2, <1>3, <2>1, <2>2, <2>3 DEF InPlace
<1>9. \A k \in DOMAIN t.items : k \notin OpenItems(t) => t.items[k].final = t.items[k].given
  <2>1. \A k \in DOMAIN c.items : c.items[k].final = c.items[k].given
    BY DEF Orderly
  <2>2. QED BY <1>2, <1>4, <2>1
<1>10. Orderly(t)
  <2>1. \A k \in DOMAIN t.items : InPlace(t, k)
    BY <1>2, <1>7, <1>8
  <2>2. OpenItems(t) \subseteq {Len(t.items)}
    BY <1>2, <1>4
  <2>3. /\ \A k \in Message(t) : t.items[k].kind = "message"
        /\ \A k \in Reasoning(t) : t.items[k].kind = "reasoning"
        /\ \A k \in t.b.tools : t.items[k].kind = "function_call"
    BY <1>2, <1>3 DEF n
  <2>4. /\ ~HasKind(t, "message") => t.b.text = <<>>
        /\ ~HasKind(t, "reasoning") => t.b.thinking = <<>>
    BY <1>2, <1>5 DEF Orderly
  <2>5. QED BY <1>9, <2>1, <2>2, <2>3, <2>4 DEF Orderly
<1>11. QED BY <1>2, <1>3, <1>4, <1>5, <1>6, <1>10 DEF n

\* In t the last item has one piece more than in s, and so has the buffer of its kind.
Takes(s, piece, t) ==
    LET kind == s.items[Len(s.items)].kind
    IN  /\ t.items = Delta(s, Len(s.items), piece).items
        /\ t.b.message = s.b.message /\ t.b.reasoning = s.b.reasoning
        /\ t.b.tools = s.b.tools
        /\ t.b.text = IF kind = "message" THEN Append(s.b.text, piece) ELSE s.b.text
        /\ t.b.thinking = IF kind = "reasoning" THEN Append(s.b.thinking, piece)
                                                ELSE s.b.thinking

\* A delta of the open item.
LEMMA DeltaOrderly ==
    ASSUME NEW s, Good(s), Orderly(s), Len(s.items) \in OpenItems(s), NEW piece \in Pieces,
           s.items[Len(s.items)].kind = "function_call"
             => piece.call = s.items[Len(s.items)].call,
           NEW t, Takes(s, piece, t)
    PROVE  /\ Orderly(t) /\ Len(t.items) = Len(s.items) /\ OpenItems(t) = OpenItems(s)
           /\ \A k \in DOMAIN t.items : /\ t.items[k].kind = s.items[k].kind
                                        /\ t.items[k].call = s.items[k].call
<1> USE DEF Takes
<1> DEFINE n == Len(s.items)
           i == s.items[n]
           given == Append(i.given, piece)
           late == i.late \/ i.dones > 0
           astray == i.astray \/ n # OutputIndex(s)
<1>1. /\ s \in [items : Seq(Item), b : Builder] /\ n \in DOMAIN s.items
      /\ i \in Item /\ InPlace(s, n)
  BY DEF Good, Orderly
<1>2. PICK h : h = [i EXCEPT !.given = given, !.late = late, !.astray = astray]
  OBVIOUS
<1>3. Delta(s, n, piece) = [s EXCEPT !.items = [s.items EXCEPT ![n] = h]]
  BY <1>1, <1>2 DEF Delta
<1>4. t.items = [s.items EXCEPT ![n] = h]
  BY <1>1, <1>3
<1>5. given \in Seq(Pieces) /\ Len(given) = Len(i.given) + 1
      /\ (\A m \in DOMAIN given : \/ given[m] = piece
                                  \/ m \in DOMAIN i.given /\ given[m] = i.given[m])
  BY <1>1 DEF Item
<1>6. ~astray
  BY <1>1 DEF InPlace, OutputIndex
<1> HIDE DEF given, late, astray
<1>7. h.kind = i.kind /\ h.call = i.call /\ h.given = given /\ ~h.astray
  BY <1>1, <1>2, <1>6 DEF Item
<1>8. /\ Len(t.items) = Len(s.items) /\ DOMAIN t.items = DOMAIN s.items
      /\ t.items[n] = h /\ \A k \in DOMAIN s.items : k # n => t.items[k] = s.items[k]
  BY <1>1, <1>4
<1>9. OpenItems(t) = OpenItems(s) /\ Message(t) = Message(s) /\ Reasoning(t) = Reasoning(s)
      /\ t.b.tools = s.b.tools
  BY <1>4 DEF OpenItems, Message, Reasoning
<1>10. \A k \in DOMAIN t.items : /\ t.items[k].kind = s.items[k].kind
                                 /\ t.items[k].call = s.items[k].call
  BY <1>7, <1>8
<1>11. HasKind(t, "message") = HasKind(s, "message")
       /\ HasKind(t, "reasoning") = HasKind(s, "reasoning")
  BY <1>8, <1>10 DEF HasKind
<1>12. InPlace(t, n)
  <2>1. i.kind = "reasoning" => n = 1 /\ given = t.b.thinking
    BY <1>1, <1>4 DEF InPlace, given
  <2>2. i.kind = "message" => given = t.b.text
    BY <1>1, <1>4 DEF InPlace, given
  <2>3. i.kind = "message" => \A j \in DOMAIN t.items : j < n => t.items[j].kind = "reasoning"
    BY <1>1, <1>8, <1>10 DEF InPlace
  <2>4. i.kind = "function_call" => \A m \in DOMAIN given : given[m].call = i.call
    BY <1>1, <1>5 DEF InPlace
  <2>5. i.kind = "function_call" <=> i.call # NoCall
    BY <1>1 DEF InPlace
  <2>6. QED BY <1>7, <1>8, <2>1, <2>2, <2>3, <2>4, <2>5 DEF InPlace
<1>13. ASSUME NEW k \in DOMAIN t.items, k # n PROVE InPlace(t, k)
  <2>1. InPlace(s, k) /\ t.items[k] = s.items[k] /\ k < n /\ k \in Nat \ {0} /\ n \in Nat
    BY <1>8, <1>1, <1>13 DEF Orderly
  <2>2. s.items[k].kind = "reasoning" => i.kind # "reasoning"
    BY <1>1, <2>1 DEF InPlace
  <2>3. s.items[k].kind = "message" => i.kind # "message"
    <3>1. i.kind = "message" => s.items[k].kind = "reasoning"
      BY <1>1, <1>8, <2>1 DEF InPlace
    <3>2. QED BY <3>1
  <2>4. QED BY <1>4, <1>8, <1>10, <2>1, <2>2, <2>3 DEF InPlace
<1>14. /\ ~HasKind(t, "message") => t.b.text = <<>>
       /\ ~HasKind(t, "reasoning") => t.b.thinking = <<>>
  BY <1>1, <1>4, <1>11 DEF Orderly, HasKind
<1>15. \A k \in DOMAIN t.items : k \notin OpenItems(t) => t.items[k].final = t.items[k].given
  BY <1>8, <1>9 DEF Orderly
<1>16. Orderly(t)
  <2>1. \A k \in DOMAIN t.items : InPlace(t, k)
    BY <1>12, <1>13
  <2>2. OpenItems(t) \subseteq {Len(t.items)}
    BY <1>8, <1>9 DEF Orderly
  <2>3. OpenItems(t) \subseteq DOMAIN t.items
    BY <1>8, <1>9 DEF Good
  <2>4. /\ \A k \in Message(t) : t.items[k].kind = "message"
        /\ \A k \in Reasoning(t) : t.items[k].kind = "reasoning"
        /\ \A k \in t.b.tools : t.items[k].kind = "function_call"
    BY <1>9, <1>10, <2>3 DEF Orderly, OpenItems
  <2>5. QED BY <1>14, <1>15, <2>1, <2>2, <2>4 DEF Orderly
<1>17. QED BY <1>8, <1>9, <1>10, <1>16

\* The events that begin an item.
LEMMA ReasoningStartOrderly ==
    ASSUME NEW s, Good(s), Orderly(s), s.items = <<>>
    PROVE  LET t == ReasoningStart(s)
           IN  /\ Good(t) /\ Orderly(t) /\ t.items # <<>> /\ Len(t.items) \in OpenItems(t)
               /\ t.items[Len(t.items)].kind = "reasoning"
               /\ CallsOf(t) = CallsOf(s) /\ HasKind(t, "message") = HasKind(s, "message")
<1> DEFINE t == ReasoningStart(s)
           n == Len(s.items) + 1
           b == [s.b EXCEPT !.reasoning = n]
<1>1. /\ Good(s) /\ Orderly(s)
      /\ s \in [items : Seq(Item), b : Builder] /\ n \in Nat \ {0}
      /\ OpenItems(s) = {} /\ Message(s) = {} /\ Reasoning(s) = {} /\ s.b.tools = {}
  BY DEF Good, OpenItems
<1>2. Good(t)
  BY <1>1, ReasoningStartGood
<1>3. t = [items |-> Append(s.items, NewItem("reasoning", NoCall)), b |-> b]
  <2> HIDE DEF t
  <2>1. t = [Added(s, "reasoning", NoCall) EXCEPT !.b.reasoning = n]
    BY DEF ReasoningStart, t
  <2>2. QED BY <2>1, <1>1 DEF Added
<1>4. /\ b \in Builder /\ b.reasoning = n /\ b.message = s.b.message
      /\ b.tools = s.b.tools /\ b.text = s.b.text /\ b.thinking = s.b.thinking
  BY <1>1 DEF Builder
<1> HIDE DEF t, b
<1>5. Reasoning(t) = {n} /\ Message(t) = {} /\ t.b.tools = {}
  BY <1>1, <1>3, <1>4 DEF Message, Reasoning
<1>6. /\ Orderly(t) /\ Len(t.items) = Len(s.items) + 1 /\ OpenItems(t) = {Len(t.items)}
      /\ t.items[Len(t.items)].kind = "reasoning"
      /\ \A other : HasKind(t, other) <=> HasKind(s, other) \/ other = "reasoning"
      /\ CallsOf(t) = CallsOf(s) \cup ({NoCall} \ {NoCall})
  <2>1. PICK kind, call : kind = "reasoning" /\ call = NoCall
    OBVIOUS
  <2>2. IsNext(s, kind, call) /\ AddsOne(s, kind, call, t)
    BY <1>3, <1>4, <1>5, <2>1 DEF IsNext, AddsOne
  <2>3. /\ Orderly(t) /\ Len(t.items) = Len(s.items) + 1 /\ OpenItems(t) = {Len(t.items)}
        /\ t.items[Len(t.items)].kind = kind
        /\ \A other : HasKind(t, other) <=> HasKind(s, other) \/ other = kind
        /\ CallsOf(t) = CallsOf(s) \cup ({call} \ {NoCall})
    BY ONLY <1>1, <2>2, AddedOrderly
  <2>4. QED BY <2>1, <2>3
<1>7. t.items # <<>>
  BY <1>1, <1>6
<1>8. HasKind(t, "message") = HasKind(s, "message")
  BY <1>6 DEF HasKind
<1>9. QED BY <1>2, <1>6, <1>7, <1>8 DEF t

\* What the operations that close first and then add have in common.
LEMMA NextItemOrderly ==
    ASSUME NEW s, Good(s), Orderly(s), NEW kind, NEW call, IsNext(s, kind, call),
           kind # "reasoning", NEW t, AddsOne(Close(s, OpenItems(s)), kind, call, t)
    PROVE  /\ Orderly(t) /\ t.items # <<>> /\ Len(t.items) \in OpenItems(t)
           /\ t.items[Len(t.items)].kind = kind /\ t.items[Len(t.items)].call = call
           /\ HasKind(t, "message") <=> HasKind(s, "message") \/ kind = "message"
           /\ CallsOf(t) = CallsOf(s) \cup ({call} \ {NoCall})
<1> DEFINE c == Close(s, OpenItems(s))
<1>1. /\ Orderly(c) /\ Good(c) /\ OpenItems(c) = {} /\ Len(c.items) = Len(s.items)
      /\ c.b.text = s.b.text /\ c.b.thinking = s.b.thinking
      /\ \A k \in DOMAIN c.items : /\ c.items[k].kind = s.items[k].kind
                                   /\ c.items[k].call = s.items[k].call
  BY CloseOrderly
<1>2. AddsOne(c, kind, call, t)
  OBVIOUS
<1> HIDE DEF c
<1>3. DOMAIN c.items = DOMAIN s.items /\ Len(c.items) \in Nat
  <2>1. s.items \in Seq(Item) /\ c.items \in Seq(Item)
    BY <1>1 DEF Good
  <2>2. QED BY <2>1, <1>1
<1>4. IsNext(c, kind, call)
  BY <1>1, <1>3 DEF IsNext
<1>5. /\ Orderly(t) /\ Len(t.items) = Len(c.items) + 1 /\ OpenItems(t) = {Len(t.items)}
      /\ t.items[Len(t.items)].kind = kind /\ t.items[Len(t.items)].call = call
      /\ \A other : HasKind(t, other) <=> HasKind(c, other) \/ other = kind
      /\ CallsOf(t) = CallsOf(c) \cup ({call} \ {NoCall})
  BY <1>1, <1>2, <1>4, AddedOrderly
<1>6. CallsOf(c) = CallsOf(s)
  <2>1. {c.items[k].call : k \in DOMAIN c.items} = {s.items[k].call : k \in DOMAIN s.items}
    BY <1>1, <1>3
  <2>2. QED BY <2>1 DEF CallsOf
<1>7. HasKind(c, "message") <=> HasKind(s, "message")
  BY <1>1, <1>3 DEF HasKind
<1>8. t.items # <<>>
  BY <1>3, <1>5
<1>9. QED BY <1>5, <1>6, <1>7, <1>8

\* The first text closes the thinking.
LEMMA MessageStartOrderly ==
    ASSUME NEW s, Good(s), Orderly(s), Message(s) = {},
           \A k \in DOMAIN s.items : s.items[k].kind = "reasoning"
    PROVE  LET t == MessageStart(s)
           IN  /\ Good(t) /\ Orderly(t) /\ t.items # <<>> /\ Len(t.items) \in OpenItems(t)
               /\ t.items[Len(t.items)].kind = "message"
               /\ CallsOf(t) = CallsOf(s) /\ HasKind(t, "message")
<1> DEFINE t == MessageStart(s)
           c == Close(s, Reasoning(s))
           n == Len(s.items) + 1
           b == [c.b EXCEPT !.message = n]
<1>1. s.b.tools = {} /\ OpenItems(s) = Reasoning(s)
  <2>1. s.b.tools = {}
    BY DEF Orderly, Good, OpenItems
  <2>2. QED BY <2>1 DEF OpenItems
<1>2. Good(t)
  BY MessageStartGood
<1>3. t = [Added(c, "message", NoCall) EXCEPT !.b.message = n]
  BY DEF MessageStart
<1>4. c = Close(s, OpenItems(s)) /\ Good(c)
  BY <1>1, CloseOrderly
<1> HIDE DEF c, t
<1>5. c \in [items : Seq(Item), b : Builder]
  BY <1>4 DEF Good
<1>6. t = [items |-> Append(c.items, NewItem("message", NoCall)), b |-> b]
  BY <1>3, <1>5 DEF Added
<1>7. /\ Message(t) = {n} /\ Reasoning(t) = {} /\ t.b.tools = {} /\ n = Len(c.items) + 1
      /\ t.b.text = c.b.text /\ t.b.thinking = c.b.thinking
      /\ t.items = Append(c.items, NewItem("message", NoCall))
  <2>1. Reasoning(c) = {} /\ c.b.tools = {} /\ Len(c.items) = Len(s.items)
    BY <1>4, CloseOrderly DEF OpenItems
  <2>2. n # 0
    BY DEF Good
  <2>3. /\ b.message = n /\ b.reasoning = c.b.reasoning /\ b.tools = c.b.tools
        /\ b.text = c.b.text /\ b.thinking = c.b.thinking
    BY <1>5 DEF Builder
  <2>4. n = Len(c.items) + 1
    BY <2>1
  <2> HIDE DEF n, b
  <2>5. QED BY <1>6, <2>1, <2>2, <2>3, <2>4 DEF Message, Reasoning
<1> HIDE DEF b
<1>8. /\ Orderly(t) /\ t.items # <<>> /\ Len(t.items) \in OpenItems(t)
      /\ t.items[Len(t.items)].kind = "message"
      /\ HasKind(t, "message") <=> HasKind(s, "message") \/ "message" = "message"
      /\ CallsOf(t) = CallsOf(s) \cup ({NoCall} \ {NoCall})
  <2>1. PICK kind, call : kind = "message" /\ call = NoCall
    OBVIOUS
  <2>2. IsNext(s, kind, call)
    BY <2>1 DEF IsNext
  <2>3. AddsOne(Close(s, OpenItems(s)), kind, call, t)
    BY <1>4, <1>7, <2>1 DEF AddsOne
  <2>4. /\ Orderly(t) /\ t.items # <<>> /\ Len(t.items) \in OpenItems(t)
        /\ t.items[Len(t.items)].kind = kind
        /\ HasKind(t, "message") <=> HasKind(s, "message") \/ kind = "message"
        /\ CallsOf(t) = CallsOf(s) \cup ({call} \ {NoCall})
    BY <2>1, <2>2, <2>3, NextItemOrderly
  <2>5. QED BY <2>1, <2>4
<1>9. QED BY <1>2, <1>8 DEF t

\* A call closes whatever is open, which is one item at most.
LEMMA ToolCallStartOrderly ==
    ASSUME NEW s, Good(s), Orderly(s), NEW call \in Calls
    PROVE  LET t == ToolCallStart(s, call)
           IN  /\ Good(t) /\ Orderly(t) /\ t.items # <<>> /\ Len(t.items) \in OpenItems(t)
               /\ ToolOpen(t)
               /\ t.items[Len(t.items)].kind = "function_call"
               /\ t.items[Len(t.items)].call = call
               /\ CallsOf(t) = CallsOf(s) \cup {call}
               /\ HasKind(t, "message") = HasKind(s, "message")
<1> DEFINE t == ToolCallStart(s, call)
           closed == ({OutputIndex(s)} \cap s.b.tools) \cup Message(s) \cup Reasoning(s)
           c == Close(s, closed)
           n == Len(s.items) + 1
           b == [c.b EXCEPT !.tools = c.b.tools \cup {n}]
<1>1. closed = OpenItems(s)
  BY DEF Orderly, OpenItems, OutputIndex
<1>2. Good(t) /\ ToolOpen(t)
  BY ToolCallStartGood
<1>3. t = [Added(c, "function_call", call) EXCEPT !.b.tools = @ \cup {n}]
  BY DEF ToolCallStart
<1> HIDE DEF closed
<1>4. c = Close(s, OpenItems(s)) /\ Good(c)
  BY <1>1, CloseOrderly
<1> HIDE DEF c, t
<1>5. c \in [items : Seq(Item), b : Builder]
  BY <1>4 DEF Good
<1>6. t = [items |-> Append(c.items, NewItem("function_call", call)), b |-> b]
  BY <1>3, <1>5 DEF Added
<1>7. /\ Message(t) = {} /\ Reasoning(t) = {} /\ t.b.tools = {n} /\ n = Len(c.items) + 1
      /\ t.b.text = c.b.text /\ t.b.thinking = c.b.thinking
      /\ t.items = Append(c.items, NewItem("function_call", call))
  <2>1. /\ Message(c) = {} /\ Reasoning(c) = {} /\ c.b.tools = {}
        /\ Len(c.items) = Len(s.items)
    BY <1>4, CloseOrderly DEF OpenItems
  <2>2. /\ b.message = c.b.message /\ b.reasoning = c.b.reasoning
        /\ b.tools = c.b.tools \cup {n}
        /\ b.text = c.b.text /\ b.thinking = c.b.thinking
    BY <1>5 DEF Builder
  <2>3. n = Len(c.items) + 1
    BY <2>1
  <2> HIDE DEF n, b
  <2>4. QED BY <1>6, <2>1, <2>2, <2>3 DEF Message, Reasoning
<1> HIDE DEF b
<1>8. call # NoCall /\ call \in Calls \cup {NoCall}
  BY DEF Calls, NoCall
<1>9. /\ Orderly(t) /\ t.items # <<>> /\ Len(t.items) \in OpenItems(t)
      /\ t.items[Len(t.items)].kind = "function_call"
      /\ t.items[Len(t.items)].call = call
      /\ HasKind(t, "message") <=> HasKind(s, "message") \/ "function_call" = "message"
      /\ CallsOf(t) = CallsOf(s) \cup ({call} \ {NoCall})
  <2>1. PICK kind : kind = "function_call"
    OBVIOUS
  <2>2. IsNext(s, kind, call)
    BY <1>8, <2>1 DEF IsNext
  <2>3. AddsOne(Close(s, OpenItems(s)), kind, call, t)
    BY <1>4, <1>7, <2>1 DEF AddsOne
  <2>4. /\ Orderly(t) /\ t.items # <<>> /\ Len(t.items) \in OpenItems(t)
        /\ t.items[Len(t.items)].kind = kind /\ t.items[Len(t.items)].call = call
        /\ HasKind(t, "message") <=> HasKind(s, "message") \/ kind = "message"
        /\ CallsOf(t) = CallsOf(s) \cup ({call} \ {NoCall})
    BY <2>1, <2>2, <2>3, NextItemOrderly
  <2>5. QED BY <2>1, <2>4
<1>10. HasKind(t, "message") = HasKind(s, "message")
  BY <1>9 DEF HasKind
<1>11. CallsOf(t) = CallsOf(s) \cup {call}
  BY <1>8, <1>9
<1>12. QED BY <1>2, <1>9, <1>10, <1>11 DEF t

\* Text and thinking that go to the open item of their kind.
LEMMA MessageDeltaOrderly ==
    ASSUME NEW s, Good(s), Orderly(s), s.items # <<>>, Len(s.items) \in OpenItems(s),
           s.items[Len(s.items)].kind = "message"
    PROVE  LET t == MessageDelta(s)
           IN  /\ Good(t) /\ Orderly(t) /\ t.items # <<>> /\ Len(t.items) \in OpenItems(t)
               /\ CallsOf(t) = CallsOf(s) /\ HasKind(t, "message")
<1> DEFINE n == Len(s.items)
           c == Delta(s, n, SomeText)
           b == [c.b EXCEPT !.text = Append(c.b.text, SomeText)]
           t == MessageDelta(s)
<1>1. /\ s \in [items : Seq(Item), b : Builder] /\ n \in DOMAIN s.items
      /\ Message(s) = {n} /\ SomeText \in Pieces /\ s.b.message = n
  <2>1. n \in Message(s) \cup Reasoning(s) \cup s.b.tools /\ n \in DOMAIN s.items
    BY DEF Good, OpenItems
  <2>2. n \notin Reasoning(s) /\ n \notin s.b.tools
    BY DEF Orderly
  <2>3. n \in Message(s)
    BY <2>1, <2>2
  <2>4. QED BY <2>1, <2>3, PieceTypes DEF Message, Good
<1>2. Good(t)
  BY <1>1, MessageDeltaGood
<1>3. t = [c EXCEPT !.b.text = Append(@, SomeText)] /\ Good(c) /\ c.b = s.b
  BY <1>1, DeltaGood DEF MessageDelta
<1> HIDE DEF t
<1>4. t = [items |-> c.items, b |-> b]
  <2> HIDE DEF c
  <2>1. c \in [items : Seq(Item), b : Builder]
    BY <1>3 DEF Good
  <2>2. QED BY <1>3, <2>1
<1>5. /\ b \in Builder /\ b.message = s.b.message /\ b.reasoning = s.b.reasoning
      /\ b.tools = s.b.tools /\ b.text = Append(s.b.text, SomeText)
      /\ b.thinking = s.b.thinking
  <2> DEFINE more == Append(s.b.text, SomeText)
  <2>1. more \in Seq(Pieces)
    BY <1>1 DEF Builder
  <2>2. b = [s.b EXCEPT !.text = more]
    BY <1>3
  <2> HIDE DEF more, b
  <2>3. more = Append(s.b.text, SomeText)
    BY DEF more
  <2>4. QED BY <1>1, <2>1, <2>2, <2>3 DEF Builder
<1> HIDE DEF b
<1>6. /\ Orderly(t) /\ Len(t.items) = Len(s.items) /\ OpenItems(t) = OpenItems(s)
      /\ \A k \in DOMAIN t.items : /\ t.items[k].kind = s.items[k].kind
                                   /\ t.items[k].call = s.items[k].call
  <2>1. Takes(s, SomeText, t)
    BY <1>1, <1>4, <1>5 DEF Takes
  <2>2. n \in OpenItems(s)
    BY <1>1 DEF OpenItems
  <2>3. QED BY <1>1, <2>1, <2>2, DeltaOrderly
<1>7. DOMAIN t.items = DOMAIN s.items
  BY <1>1, <1>2, <1>6 DEF Good
<1>8. t.items # <<>> /\ Len(t.items) \in OpenItems(t)
  BY <1>1, <1>6, <1>7
<1>9. CallsOf(t) = CallsOf(s)
  <2>1. {t.items[k].call : k \in DOMAIN t.items} = {s.items[k].call : k \in DOMAIN s.items}
    BY <1>6, <1>7
  <2>2. QED BY <2>1 DEF CallsOf
<1>10. HasKind(t, "message")
  BY <1>1, <1>6, <1>7 DEF HasKind
<1>11. QED BY <1>2, <1>6, <1>8, <1>9, <1>10 DEF t

LEMMA ReasoningDeltaOrderly ==
    ASSUME NEW s, Good(s), Orderly(s), s.items # <<>>, Len(s.items) \in OpenItems(s),
           s.items[Len(s.items)].kind = "reasoning"
    PROVE  LET t == ReasoningDelta(s)
           IN  /\ Good(t) /\ Orderly(t) /\ t.items # <<>> /\ Len(t.items) \in OpenItems(t)
               /\ CallsOf(t) = CallsOf(s) /\ HasKind(t, "message") = HasKind(s, "message")
<1> DEFINE n == Len(s.items)
           c == Delta(s, n, SomeThought)
           b == [c.b EXCEPT !.thinking = Append(c.b.thinking, SomeThought)]
           t == ReasoningDelta(s)
<1>1. /\ s \in [items : Seq(Item), b : Builder] /\ n \in DOMAIN s.items
      /\ Reasoning(s) = {n} /\ SomeThought \in Pieces /\ s.b.reasoning = n
  <2>1. n \in Message(s) \cup Reasoning(s) \cup s.b.tools /\ n \in DOMAIN s.items
    BY DEF Good, OpenItems
  <2>2. n \notin Message(s) /\ n \notin s.b.tools
    BY DEF Orderly
  <2>3. n \in Reasoning(s)
    BY <2>1, <2>2
  <2>4. QED BY <2>1, <2>3, PieceTypes DEF Reasoning, Good
<1>2. Good(t)
  BY <1>1, ReasoningDeltaGood
<1>3. t = [c EXCEPT !.b.thinking = Append(@, SomeThought)] /\ Good(c) /\ c.b = s.b
  BY <1>1, DeltaGood DEF ReasoningDelta
<1> HIDE DEF t
<1>4. t = [items |-> c.items, b |-> b]
  <2> HIDE DEF c
  <2>1. c \in [items : Seq(Item), b : Builder]
    BY <1>3 DEF Good
  <2>2. QED BY <1>3, <2>1
<1>5. /\ b \in Builder /\ b.message = s.b.message /\ b.reasoning = s.b.reasoning
      /\ b.tools = s.b.tools /\ b.text = s.b.text
      /\ b.thinking = Append(s.b.thinking, SomeThought)
  <2> DEFINE more == Append(s.b.thinking, SomeThought)
  <2>1. more \in Seq(Pieces)
    BY <1>1 DEF Builder
  <2>2. b = [s.b EXCEPT !.thinking = more]
    BY <1>3
  <2> HIDE DEF more, b
  <2>3. more = Append(s.b.thinking, SomeThought)
    BY DEF more
  <2>4. QED BY <1>1, <2>1, <2>2, <2>3 DEF Builder
<1> HIDE DEF b
<1>6. /\ Orderly(t) /\ Len(t.items) = Len(s.items) /\ OpenItems(t) = OpenItems(s)
      /\ \A k \in DOMAIN t.items : /\ t.items[k].kind = s.items[k].kind
                                   /\ t.items[k].call = s.items[k].call
  <2>1. Takes(s, SomeThought, t)
    BY <1>1, <1>4, <1>5 DEF Takes
  <2>2. n \in OpenItems(s)
    BY <1>1 DEF OpenItems
  <2>3. QED BY <1>1, <2>1, <2>2, DeltaOrderly
<1>7. DOMAIN t.items = DOMAIN s.items
  BY <1>1, <1>2, <1>6 DEF Good
<1>8. t.items # <<>> /\ Len(t.items) \in OpenItems(t)
  BY <1>1, <1>6, <1>7
<1>9. CallsOf(t) = CallsOf(s)
  <2>1. {t.items[k].call : k \in DOMAIN t.items} = {s.items[k].call : k \in DOMAIN s.items}
    BY <1>6, <1>7
  <2>2. QED BY <2>1 DEF CallsOf
<1>10. HasKind(t, "message") = HasKind(s, "message")
  BY <1>6, <1>7 DEF HasKind
<1>11. QED BY <1>2, <1>6, <1>8, <1>9, <1>10 DEF t

\* Arguments that go to the open call they belong to.
LEMMA ToolCallDeltaOrderly ==
    ASSUME NEW s, Good(s), Orderly(s), ToolOpen(s), NEW piece \in Pieces,
           piece.call = s.items[Len(s.items)].call
    PROVE  LET t == ToolCallDelta(s, piece)
           IN  /\ Good(t) /\ Orderly(t) /\ t.items # <<>> /\ ToolOpen(t)
               /\ Len(t.items) = Len(s.items) /\ OpenItems(t) = OpenItems(s)
               /\ t.items[Len(t.items)].call = s.items[Len(s.items)].call
               /\ CallsOf(t) = CallsOf(s) /\ HasKind(t, "message") = HasKind(s, "message")
<1> DEFINE n == Len(s.items)
           t == ToolCallDelta(s, piece)
<1>1. /\ s \in [items : Seq(Item), b : Builder] /\ n \in DOMAIN s.items
      /\ n \in OpenItems(s) /\ n \in s.b.tools
      /\ s.items[n].kind = "function_call"
  <2>1. n \in s.b.tools /\ n \in OpenItems(s)
    BY DEF ToolOpen, OutputIndex, OpenItems
  <2>2. QED BY <2>1 DEF Good, Orderly
<1>2. Good(t) /\ ToolOpen(t)
  BY ToolCallDeltaGood
<1>3. t = Delta(s, n, piece) /\ t.b = s.b
  BY <1>1, DeltaGood DEF ToolCallDelta, OutputIndex
<1> HIDE DEF t
<1>4. t = [items |-> Delta(s, n, piece).items, b |-> s.b]
  BY <1>2, <1>3 DEF Good
<1>5. /\ s.b \in Builder
      /\ s.b.text = IF s.items[n].kind = "message" THEN Append(s.b.text, piece) ELSE s.b.text
      /\ s.b.thinking = IF s.items[n].kind = "reasoning" THEN Append(s.b.thinking, piece)
                                                         ELSE s.b.thinking
  BY <1>1
<1>6. /\ Orderly(t) /\ Len(t.items) = Len(s.items) /\ OpenItems(t) = OpenItems(s)
      /\ \A k \in DOMAIN t.items : /\ t.items[k].kind = s.items[k].kind
                                   /\ t.items[k].call = s.items[k].call
  <2>1. Takes(s, piece, t)
    BY <1>1, <1>4, <1>5 DEF Takes
  <2>2. n \in OpenItems(s)
    BY <1>1 DEF OpenItems
  <2>3. QED BY <1>1, <2>1, <2>2, DeltaOrderly
<1>7. DOMAIN t.items = DOMAIN s.items
  BY <1>1, <1>2, <1>6 DEF Good
<1>8. t.items # <<>>
  BY <1>1, <1>7
<1>9. CallsOf(t) = CallsOf(s)
  <2>1. {t.items[k].call : k \in DOMAIN t.items} = {s.items[k].call : k \in DOMAIN s.items}
    BY <1>6, <1>7
  <2>2. QED BY <2>1 DEF CallsOf
<1>10. HasKind(t, "message") = HasKind(s, "message")
  BY <1>6, <1>7 DEF HasKind
<1>11. t.items[Len(t.items)].call = s.items[n].call
  BY <1>1, <1>6, <1>7
<1>12. QED BY <1>2, <1>6, <1>8, <1>9, <1>10, <1>11 DEF t

LEMMA ToolCallDoneOrderly ==
    ASSUME NEW s, Good(s), Orderly(s), ToolOpen(s)
    PROVE  LET t == ToolCallDone(s)
           IN  /\ Good(t) /\ Orderly(t) /\ t.items # <<>>
               /\ t.items[Len(t.items)].call = s.items[Len(s.items)].call
               /\ CallsOf(t) = CallsOf(s) /\ HasKind(t, "message") = HasKind(s, "message")
<1> DEFINE t == ToolCallDone(s)
<1>1. OpenItems(s) = {Len(s.items)}
  BY DEF ToolOpen, OutputIndex, OpenItems, Orderly
<1>2. t = Close(s, OpenItems(s))
  BY <1>1 DEF ToolCallDone, OutputIndex
<1> HIDE DEF t
<1>3. /\ Orderly(t) /\ Good(t) /\ Len(t.items) = Len(s.items)
      /\ \A k \in DOMAIN t.items : /\ t.items[k].kind = s.items[k].kind
                                   /\ t.items[k].call = s.items[k].call
  BY <1>2, CloseOrderly
<1>4. DOMAIN t.items = DOMAIN s.items /\ Len(s.items) \in DOMAIN s.items
  BY <1>1, <1>3 DEF Good
<1>5. t.items # <<>>
  BY <1>4
<1>6. CallsOf(t) = CallsOf(s)
  <2>1. {t.items[k].call : k \in DOMAIN t.items} = {s.items[k].call : k \in DOMAIN s.items}
    BY <1>3, <1>4
  <2>2. QED BY <2>1 DEF CallsOf
<1>7. HasKind(t, "message") = HasKind(s, "message")
  BY <1>3, <1>4 DEF HasKind
<1>8. QED BY <1>3, <1>4, <1>5, <1>6, <1>7 DEF t

-----------------------------------------------------------------------------
(* Events in order *)

LEMMA TakenTurn ==
    ASSUME read \in ReadType, NEW e \in Events \cup {Nothing}
    PROVE  /\ Taken(e).text = (read.text \/ e.type = "text_delta")
           /\ Taken(e).uses = read.uses \cup (IF e.type = "tool_use" THEN {e.call} ELSE {})
           /\ BegunCalls(Taken(e)) =
                BegunCalls(read) \cup (IF e.type \in {"tool_use", "tool_call_delta"}
                                         THEN {e.call} ELSE {})
<1> DEFINE r == Taken(e)
           args == [c \in Calls |-> IF e.type = "tool_call_delta" /\ e.call = c
                                    THEN e.upto ELSE read.args[c]]
<1>1. /\ r.text = (read.text \/ e.type = "text_delta")
      /\ r.uses = read.uses \cup (IF e.type = "tool_use" THEN {e.call} ELSE {})
      /\ r.args = args
  BY DEF Taken, ReadType
<1> HIDE DEF r
<1>2. ASSUME NEW c
      PROVE  c \in Fragments(r, {"open", "half", "whole"}) <=>
               \/ c \in Fragments(read, {"open", "half", "whole"})
               \/ e.type = "tool_call_delta" /\ c = e.call
  <2>1. e.type = "tool_call_delta" => e.call \in Calls /\ e.upto \in {"open", "half", "whole"}
    BY EventShape
  <2>2. c \in Calls => r.args[c] = IF e.type = "tool_call_delta" /\ e.call = c
                                     THEN e.upto ELSE read.args[c]
    BY <1>1
  <2>3. QED BY <2>1, <2>2 DEF Fragments
<1>3. BegunCalls(r) =
        BegunCalls(read) \cup (IF e.type \in {"tool_use", "tool_call_delta"}
                                 THEN {e.call} ELSE {})
  BY <1>1, <1>2 DEF BegunCalls
<1>4. QED BY <1>1, <1>3 DEF r

\* The last item of an orderly response without calls is open.
LEMMA LastIsOpen ==
    ASSUME NEW s, Good(s), Orderly(s), NEW uses \in SUBSET Calls, LastOpen(s, uses),
           s.items # <<>>, s.items[Len(s.items)].kind # "function_call"
    PROVE  /\ Len(s.items) \in DOMAIN s.items
           /\ Message(s) = IF s.items[Len(s.items)].kind = "message" THEN {Len(s.items)} ELSE {}
           /\ Reasoning(s) = IF s.items[Len(s.items)].kind = "reasoning"
                               THEN {Len(s.items)} ELSE {}
<1> DEFINE n == Len(s.items)
<1>1. s.items \in Seq(Item) /\ n \in DOMAIN s.items
  BY DEF Good
<1>2. InPlace(s, n) /\ s.items[n] \in Item
  BY <1>1 DEF Orderly
<1>3. s.items[n].call \notin uses
  BY <1>2 DEF InPlace, Calls, NoCall
<1>4. n \in Message(s) \cup Reasoning(s) \cup s.b.tools
  BY <1>3 DEF LastOpen, OpenItems
<1>5. /\ Message(s) \subseteq {n} /\ Reasoning(s) \subseteq {n}
      /\ \A k \in Message(s) : s.items[k].kind = "message"
      /\ \A k \in Reasoning(s) : s.items[k].kind = "reasoning"
      /\ n \notin s.b.tools
  BY DEF Orderly, OpenItems
<1> HIDE DEF n
<1>6. /\ Message(s) = IF s.items[n].kind = "message" THEN {n} ELSE {}
      /\ Reasoning(s) = IF s.items[n].kind = "reasoning" THEN {n} ELSE {}
  <2>1. CASE n \in Message(s)
    <3>1. s.items[n].kind = "message"
      BY <2>1, <1>5
    <3>2. Reasoning(s) = {}
      BY <3>1, <1>5
    <3>3. QED BY <2>1, <3>1, <3>2, <1>5
  <2>2. CASE n \in Reasoning(s)
    <3>1. s.items[n].kind = "reasoning"
      BY <2>2, <1>5
    <3>2. Message(s) = {}
      BY <3>1, <1>5
    <3>3. QED BY <2>2, <3>1, <3>2, <1>5
  <2>3. QED BY <2>1, <2>2, <1>4, <1>5
<1>7. QED BY <1>1, <1>6 DEF n

LEMMA NothingYet ==
    ASSUME NEW s, Good(s), s.items = <<>>
    PROVE  Message(s) = {} /\ Reasoning(s) = {} /\ OpenItems(s) = {}
BY DEF Good, OpenItems

\* A text event.
LEMMA TextOrderly ==
    ASSUME NEW s, Good(s), Orderly(s), NEW uses \in SUBSET Calls, LastOpen(s, uses),
           \A k \in DOMAIN s.items : s.items[k].kind # "function_call",
           NEW t, t = MessageDelta(IF Message(s) = {} THEN MessageStart(s) ELSE s)
    PROVE  /\ Orderly(t) /\ t.items # <<>> /\ Len(t.items) \in OpenItems(t)
           /\ CallsOf(t) = CallsOf(s) /\ HasKind(t, "message")
<1> DEFINE started == IF Message(s) = {} THEN MessageStart(s) ELSE s
<1>1. /\ Good(started) /\ Orderly(started) /\ started.items # <<>>
      /\ Len(started.items) \in OpenItems(started)
      /\ started.items[Len(started.items)].kind = "message"
      /\ CallsOf(started) = CallsOf(s)
  <2>1. CASE s.items = <<>>
    <3>1. Message(s) = {} /\ DOMAIN s.items = {}
      BY <2>1, NothingYet
    <3>2. \A k \in DOMAIN s.items : s.items[k].kind = "reasoning"
      BY <3>1
    <3>3. QED BY <3>1, <3>2, MessageStartOrderly
  <2>2. CASE s.items # <<>> /\ Message(s) # {}
    <3>1. Len(s.items) \in DOMAIN s.items
      BY <2>2 DEF Good
    <3>2. Message(s) = {Len(s.items)} /\ s.items[Len(s.items)].kind = "message"
      BY <2>2, <3>1, LastIsOpen
    <3>3. Len(s.items) \in OpenItems(s)
      BY <3>2 DEF OpenItems
    <3>4. QED BY <2>2, <3>2, <3>3
  <2>3. CASE s.items # <<>> /\ Message(s) = {}
    <3>1. Len(s.items) \in DOMAIN s.items /\ s.items[Len(s.items)] \in Item
          /\ DOMAIN s.items = 1..Len(s.items)
      BY <2>3 DEF Good
    <3>2. s.items[Len(s.items)].kind # "message"
      BY <2>3, <3>1, LastIsOpen
    <3>3. s.items[Len(s.items)].kind = "reasoning"
      BY <3>1, <3>2 DEF Item
    <3>4. Len(s.items) = 1
      BY <3>1, <3>3 DEF Orderly, InPlace
    <3>5. \A k \in DOMAIN s.items : s.items[k].kind = "reasoning"
      BY <3>1, <3>3, <3>4
    <3>6. QED BY <2>3, <3>5, MessageStartOrderly
  <2>4. QED BY <2>1, <2>2, <2>3
<1>2. t = MessageDelta(started)
  OBVIOUS
<1> HIDE DEF started
<1>3. QED BY <1>1, <1>2, MessageDeltaOrderly

\* A thinking event.
LEMMA ThinkingOrderly ==
    ASSUME NEW s, Good(s), Orderly(s), NEW uses \in SUBSET Calls, LastOpen(s, uses),
           \A k \in DOMAIN s.items : s.items[k].kind = "reasoning",
           NEW t, t = ReasoningDelta(IF Reasoning(s) = {} THEN ReasoningStart(s) ELSE s)
    PROVE  /\ Orderly(t) /\ t.items # <<>> /\ Len(t.items) \in OpenItems(t)
           /\ CallsOf(t) = CallsOf(s) /\ HasKind(t, "message") = HasKind(s, "message")
<1> DEFINE started == IF Reasoning(s) = {} THEN ReasoningStart(s) ELSE s
<1>1. /\ Good(started) /\ Orderly(started) /\ started.items # <<>>
      /\ Len(started.items) \in OpenItems(started)
      /\ started.items[Len(started.items)].kind = "reasoning"
      /\ CallsOf(started) = CallsOf(s) /\ HasKind(started, "message") = HasKind(s, "message")
  <2>1. CASE s.items = <<>>
    <3>1. Reasoning(s) = {}
      BY <2>1, NothingYet
    <3>2. QED BY <2>1, <3>1, ReasoningStartOrderly
  <2>2. CASE s.items # <<>>
    <3>1. Len(s.items) \in DOMAIN s.items
      BY <2>2 DEF Good
    <3>2. Reasoning(s) = {Len(s.items)} /\ s.items[Len(s.items)].kind = "reasoning"
      BY <2>2, <3>1, LastIsOpen
    <3>3. Len(s.items) \in OpenItems(s) /\ Reasoning(s) # {}
      BY <3>2 DEF OpenItems
    <3>4. QED BY <2>2, <3>2, <3>3
  <2>3. QED BY <2>1, <2>2
<1>2. t = ReasoningDelta(started)
  OBVIOUS
<1> HIDE DEF started
<1>3. QED BY <1>1, <1>2, ReasoningDeltaOrderly

\* A whole call.
LEMMA UseOrderly ==
    ASSUME NEW s, Good(s), Orderly(s), NEW e, e.call \in Calls,
           NEW uses, e.call \in uses
    PROVE  LET t == OnUse(s, e)
           IN  /\ Orderly(t) /\ LastOpen(t, uses)
               /\ CallsOf(t) = CallsOf(s) \cup {e.call}
               /\ HasKind(t, "message") = HasKind(s, "message")
<1> DEFINE started == ToolCallStart(s, e.call)
           piece == Piece(e.call, "whole")
           filled == ToolCallDelta(started, piece)
           ended == ToolCallDone(filled)
<1>1. /\ Good(started) /\ Orderly(started) /\ started.items # <<>>
      /\ Len(started.items) \in OpenItems(started) /\ ToolOpen(started)
      /\ started.items[Len(started.items)].call = e.call
      /\ CallsOf(started) = CallsOf(s) \cup {e.call}
      /\ HasKind(started, "message") = HasKind(s, "message")
  BY ToolCallStartOrderly
<1>2. piece \in Pieces /\ piece.call = e.call
  BY PieceTypes DEF Piece
<1>3. OnUse(s, e) = IF e.input THEN ended ELSE started
  BY DEF OnUse
<1> HIDE DEF started, piece
<1>4. /\ Good(filled) /\ Orderly(filled) /\ ToolOpen(filled)
      /\ filled.items[Len(filled.items)].call = e.call
      /\ CallsOf(filled) = CallsOf(started)
      /\ HasKind(filled, "message") = HasKind(started, "message")
  BY <1>1, <1>2, ToolCallDeltaOrderly
<1> HIDE DEF filled
<1>5. /\ Orderly(ended) /\ ended.items[Len(ended.items)].call = e.call
      /\ CallsOf(ended) = CallsOf(filled)
      /\ HasKind(ended, "message") = HasKind(filled, "message")
  BY <1>4, ToolCallDoneOrderly
<1> HIDE DEF ended
<1>6. LastOpen(ended, uses) /\ LastOpen(started, uses)
  BY <1>1, <1>5 DEF LastOpen
<1>7. QED BY <1>1, <1>3, <1>4, <1>5, <1>6

\* A fragment of a call: its first begins an item, and the others find it open.
LEMMA FragmentOrderly ==
    ASSUME NEW s, Good(s), Orderly(s), NEW uses, LastOpen(s, uses), NEW e, e.call \in Calls,
           e.upto \in {"open", "half", "whole"}, e.call \notin uses,
           ~e.first => s.items # <<>> /\ s.items[Len(s.items)].call = e.call
    PROVE  LET t == OnFragment(s, e)
           IN  /\ Orderly(t) /\ LastOpen(t, uses)
               /\ CallsOf(t) = CallsOf(s) \cup {e.call}
               /\ HasKind(t, "message") = HasKind(s, "message")
<1> DEFINE started == IF e.first THEN ToolCallStart(s, e.call) ELSE s
           open == IF ToolOpen(started) THEN started ELSE ToolCallStart(started, NoCall)
           piece == Piece(e.call, e.upto)
           filled == ToolCallDelta(started, piece)
<1>1. /\ Good(started) /\ Orderly(started) /\ started.items # <<>> /\ ToolOpen(started)
      /\ started.items[Len(started.items)].call = e.call
      /\ CallsOf(started) = CallsOf(s) \cup {e.call}
      /\ HasKind(started, "message") = HasKind(s, "message")
  <2>1. CASE e.first
    BY <2>1, ToolCallStartOrderly
  <2>2. CASE ~e.first
    <3> DEFINE n == Len(s.items)
    <3>1. n \in DOMAIN s.items /\ s.items[n].call = e.call /\ s.items # <<>>
      BY <2>2 DEF Good
    <3>2. e.call # NoCall
      BY DEF Calls, NoCall
    <3>3. s.items[n].kind = "function_call"
      BY <3>1, <3>2 DEF Orderly, InPlace
    <3>4. n \in OpenItems(s)
      BY <3>1 DEF LastOpen
    <3>5. n \in s.b.tools
      BY <3>3, <3>4 DEF OpenItems, Orderly
    <3>6. e.call \in CallsOf(s)
      BY <3>1, <3>2 DEF CallsOf
    <3>7. QED BY <2>2, <3>1, <3>5, <3>6 DEF ToolOpen, OutputIndex
  <2>3. QED BY <2>1, <2>2
<1>2. OnFragment(s, e) = IF e.upto = "open" THEN started ELSE filled
  <2>1. OnFragment(s, e) = IF e.upto = "open" THEN started ELSE ToolCallDelta(open, piece)
    BY DEF OnFragment
  <2>2. open = started
    BY <1>1
  <2>3. QED BY <2>1, <2>2
<1> HIDE DEF started
<1>3. Len(started.items) \in OpenItems(started)
  BY <1>1 DEF ToolOpen, OutputIndex, OpenItems
<1>4. CASE e.upto = "open"
  BY <1>1, <1>2, <1>3, <1>4 DEF LastOpen
<1>5. CASE e.upto \in {"half", "whole"}
  <2>1. piece \in Pieces /\ piece.call = e.call
    BY <1>5, PieceTypes DEF Piece
  <2> HIDE DEF piece
  <2>2. /\ Orderly(filled) /\ Len(filled.items) = Len(started.items)
        /\ OpenItems(filled) = OpenItems(started)
        /\ CallsOf(filled) = CallsOf(started)
        /\ HasKind(filled, "message") = HasKind(started, "message")
    BY <1>1, <2>1, ToolCallDeltaOrderly
  <2>3. OnFragment(s, e) = filled
    BY <1>2, <1>5
  <2> HIDE DEF filled
  <2>4. QED BY <1>1, <1>3, <2>2, <2>3 DEF LastOpen
<1>6. QED BY <1>4, <1>5

\* One event of an orderly stream.
LEMMA OnEventOrderly ==
    ASSUME read \in ReadType, Good(Now), Orderly(Now), LastOpen(Now, read.uses),
           Matches(Now, read), NEW e \in Events \cup {Nothing},
           e # Nothing => Sendable(e), KeepsOrder(e)
    PROVE  /\ Orderly(OnEvent(Now, e))
           /\ LastOpen(OnEvent(Now, e), Taken(e).uses)
           /\ Matches(OnEvent(Now, e), Taken(e))
<1> DEFINE t == OnEvent(Now, e)
           r == Taken(e)
<1>1. /\ r.text = (read.text \/ e.type = "text_delta")
      /\ r.uses = read.uses \cup (IF e.type = "tool_use" THEN {e.call} ELSE {})
      /\ BegunCalls(r) = BegunCalls(read) \cup (IF e.type \in {"tool_use", "tool_call_delta"}
                                                  THEN {e.call} ELSE {})
  BY TakenTurn
<1>2. read.uses \in SUBSET Calls /\ read.text \in BOOLEAN
  BY DEF ReadType
<1>3. /\ HasKind(Now, "message") <=> read.text
      /\ CallsOf(Now) = BegunCalls(read)
  BY DEF Matches
<1>4. Now.items = items
  BY DEF Now
<1> HIDE DEF r
<1>5. CASE e.type = "text_delta"
  <2>1. t = MessageDelta(IF Message(Now) = {} THEN MessageStart(Now) ELSE Now)
    BY <1>5 DEF OnEvent
  <2> HIDE DEF t
  <2>2. \A k \in DOMAIN Now.items : Now.items[k].kind # "function_call"
    BY <1>4, <1>5 DEF KeepsOrder
  <2>3. /\ Orderly(t) /\ t.items # <<>> /\ Len(t.items) \in OpenItems(t)
        /\ CallsOf(t) = CallsOf(Now) /\ HasKind(t, "message")
    BY <1>2, <2>1, <2>2, TextOrderly
  <2>4. r.text /\ BegunCalls(r) = BegunCalls(read)
    BY <1>1, <1>5
  <2>5. QED BY <1>3, <2>3, <2>4 DEF LastOpen, Matches, t, r
<1>6. CASE e.type = "thinking_delta"
  <2>1. t = ReasoningDelta(IF Reasoning(Now) = {} THEN ReasoningStart(Now) ELSE Now)
    BY <1>6 DEF OnEvent
  <2> HIDE DEF t
  <2>2. \A k \in DOMAIN Now.items : Now.items[k].kind = "reasoning"
    BY <1>4, <1>6 DEF KeepsOrder
  <2>3. /\ Orderly(t) /\ t.items # <<>> /\ Len(t.items) \in OpenItems(t)
        /\ CallsOf(t) = CallsOf(Now)
        /\ HasKind(t, "message") = HasKind(Now, "message")
    BY <1>2, <2>1, <2>2, ThinkingOrderly
  <2>4. r.text = read.text /\ BegunCalls(r) = BegunCalls(read)
    BY <1>1, <1>2, <1>6
  <2>5. QED BY <1>3, <2>3, <2>4 DEF LastOpen, Matches, t, r
<1>7. CASE e.type = "tool_use"
  <2>1. t = OnUse(Now, e) /\ e.call \in Calls /\ e.call \in r.uses
    BY <1>1, <1>7, EventShape DEF OnEvent
  <2> HIDE DEF t
  <2>2. /\ Orderly(t) /\ LastOpen(t, r.uses)
        /\ CallsOf(t) = CallsOf(Now) \cup {e.call}
        /\ HasKind(t, "message") = HasKind(Now, "message")
    BY <2>1, UseOrderly
  <2>3. r.text = read.text /\ BegunCalls(r) = BegunCalls(read) \cup {e.call}
    BY <1>1, <1>2, <1>7
  <2>4. QED BY <1>3, <2>2, <2>3 DEF Matches, t, r
<1>8. CASE e.type = "tool_call_delta"
  <2>1. /\ t = OnFragment(Now, e) /\ e.call \in Calls /\ e.upto \in {"open", "half", "whole"}
    BY <1>8, EventShape DEF OnEvent
  <2>2. e # Nothing
    BY <1>8 DEF Nothing
  <2>3. e.call \notin read.uses
    BY <1>8, <2>2 DEF Sendable
  <2>4. ~e.first => Now.items # <<>> /\ Now.items[Len(Now.items)].call = e.call
    BY <1>4, <1>8 DEF KeepsOrder
  <2> HIDE DEF t
  <2>5. /\ Orderly(t) /\ LastOpen(t, read.uses)
        /\ CallsOf(t) = CallsOf(Now) \cup {e.call}
        /\ HasKind(t, "message") = HasKind(Now, "message")
    BY <2>1, <2>3, <2>4, FragmentOrderly
  <2>6. /\ r.text = read.text /\ r.uses = read.uses
        /\ BegunCalls(r) = BegunCalls(read) \cup {e.call}
    BY <1>1, <1>2, <1>8
  <2>7. QED BY <1>3, <2>5, <2>6 DEF Matches, t, r
<1>9. CASE e.type \notin {"text_delta", "thinking_delta", "tool_use", "tool_call_delta"}
  <2>1. t = Now
    BY <1>9 DEF OnEvent
  <2>2. r.text = read.text /\ r.uses = read.uses /\ BegunCalls(r) = BegunCalls(read)
    BY <1>1, <1>2, <1>9
  <2>3. QED BY <1>3, <2>1, <2>2 DEF Matches, r
<1>10. QED BY <1>5, <1>6, <1>7, <1>8, <1>9

-----------------------------------------------------------------------------
(* A complete turn *)

\* Items in order of which none is open are those of the turn.
LEMMA ClosedIsTheTurn ==
    ASSUME NEW s, Good(s), Orderly(s), OpenItems(s) = {},
           NEW r \in ReadType, Matches(s, r), HalfCalls(r) = {}
    PROVE  IsTheTurn(s.items, r)
<1>1. \A k \in DOMAIN s.items : Consistent(s.items[k])
  <2> SUFFICES ASSUME NEW k \in DOMAIN s.items PROVE Consistent(s.items[k])
    OBVIOUS
  <2>1. InPlace(s, k) /\ s.items[k].final = s.items[k].given
    BY DEF Orderly
  <2>2. QED BY <2>1 DEF InPlace, Consistent
<1>2. Cardinality({k \in DOMAIN s.items : s.items[k].kind = "message"}) = IF r.text THEN 1 ELSE 0
  <2> DEFINE messages == {k \in DOMAIN s.items : s.items[k].kind = "message"}
  <2>1. CASE ~r.text
    <3>1. messages = {}
      BY <2>1 DEF Matches, HasKind
    <3>2. QED BY <2>1, <3>1, FS_EmptySet
  <2>2. CASE r.text
    <3>1. PICK k \in DOMAIN s.items : s.items[k].kind = "message"
      BY <2>2 DEF Matches, HasKind
    <3>2. ASSUME NEW j \in DOMAIN s.items, s.items[j].kind = "message" PROVE j = k
      <4>1. InPlace(s, j) /\ InPlace(s, k)
        BY DEF Orderly
      <4>2. ~(j < k) /\ ~(k < j)
        BY <3>1, <3>2, <4>1 DEF InPlace
      <4>3. j \in Nat /\ k \in Nat
        BY DEF Good
      <4>4. QED BY <4>2, <4>3
    <3>3. messages = {k}
      BY <3>1, <3>2
    <3>4. QED BY <2>2, <3>3, FS_Singleton
  <2>3. QED BY <2>1, <2>2
<1>3. {s.items[k].call : k \in DOMAIN s.items} \ {NoCall} = TurnCalls(r)
  <2>1. BegunCalls(r) = TurnCalls(r)
    BY DEF BegunCalls, TurnCalls, HalfCalls, Fragments
  <2>2. QED BY <2>1 DEF Matches, CallsOf
<1>4. QED BY <1>1, <1>2, <1>3 DEF IsTheTurn

\* A sequence without repetitions that lists a set has all of it.
LEMMA ListsAll ==
    ASSUME NEW S, IsFiniteSet(S), NEW f \in SetToSeqs(S)
    PROVE  {f[n] : n \in DOMAIN f} = S
<1> DEFINE D == 1..Cardinality(S)
<1>1. Cardinality(S) \in Nat
  BY FS_CardinalityType
<1>2. f \in [D -> S] /\ \A i, j \in D : i # j => f[i] # f[j]
  BY DEF SetToSeqs
<1>3. f \in Injection(D, S)
  BY <1>2 DEF Injection, IsInjective
<1>4. Cardinality(D) = Cardinality(S)
  BY <1>1, FS_Interval
<1>5. f \in Surjection(D, S)
  BY <1>3, <1>4, FS_Injection
<1>6. QED BY <1>2, <1>5 DEF Surjection

LEMMA OneOrNone ==
    ASSUME NEW S, NEW v \in S, NEW there, NEW s, s = IF there THEN <<v>> ELSE <<>>
    PROVE  /\ s \in Seq(S) /\ Len(s) = IF there THEN 1 ELSE 0
           /\ \A k \in 1..Len(s) : s[k] = v
<1>1. CASE there
  <2>1. s = <<v>> BY <1>1
  <2>2. s \in Seq(S) /\ Len(s) = 1 /\ s[1] = v
    BY <2>1
  <2>3. QED BY <1>1, <2>2
<1>2. CASE ~there
  <2>1. s = <<>> BY <1>2
  <2>2. s \in Seq(S) /\ Len(s) = 0
    BY <2>1
  <2>3. QED BY <1>2, <2>2
<1>3. QED BY <1>1, <1>2

\* What is filled in at the end of a search are the items of the turn.
LEMMA FilledInIsTheTurn ==
    ASSUME StreamTypeOK, NEW calls \in SetToSeqs(TurnCalls(read)), NEW t, t = FilledIn(calls)
    PROVE  IsTheTurn(t, read)
<1> DEFINE done(kind, call, piece) ==
               [NewItem(kind, call) EXCEPT !.given = <<piece>>, !.final = <<piece>>, !.dones = 1]
           thought == done("reasoning", NoCall, SomeThought)
           text == done("message", NoCall, SomeText)
           called == [n \in DOMAIN calls |->
                        done("function_call", calls[n], Piece(calls[n], "whole"))]
           one == IF read.thinking THEN <<thought>> ELSE <<>>
           two == IF read.text THEN <<text>> ELSE <<>>
<1> calls \in Seq(Calls) /\ read \in ReadType
  BY TurnCallsSeq DEF StreamTypeOK
<1>1. t = (one \o two) \o called
  BY DEF FilledIn
<1>2. ASSUME NEW kind, NEW call, NEW piece,
             kind = "function_call" => piece.call = call
      PROVE  /\ Consistent(done(kind, call, piece))
             /\ done(kind, call, piece).kind = kind /\ done(kind, call, piece).call = call
  <2> DEFINE only == <<piece>>
             item == done(kind, call, piece)
  <2>1. /\ item.kind = kind /\ item.call = call /\ ~item.astray
        /\ item.given = only /\ item.final = only
    BY DEF NewItem
  <2>2. only = [n \in {1} |-> piece] OBVIOUS
  <2>3. DOMAIN only = {1} /\ only[1] = piece
    BY <2>2
  <2> HIDE DEF only, item
  <2>4. kind = "function_call" => \A n \in DOMAIN only : only[n].call = call
    BY <1>2, <2>3
  <2>5. Consistent(item)
    BY <2>1, <2>4 DEF Consistent
  <2>6. QED BY <2>1, <2>5 DEF item
<1> HIDE DEF done
<1>3. \A c \in Calls : Piece(c, "whole").call = c
  BY DEF Piece
<1>4. /\ Consistent(thought) /\ thought.kind = "reasoning" /\ thought.call = NoCall
      /\ Consistent(text) /\ text.kind = "message" /\ text.call = NoCall
  BY <1>2
<1>5. /\ DOMAIN called = DOMAIN calls /\ called \in Seq(Range(called))
      /\ \A n \in DOMAIN calls : /\ Consistent(called[n]) /\ called[n].kind = "function_call"
                                 /\ called[n].call = calls[n] /\ calls[n] # NoCall
  <2>1. ASSUME NEW n \in DOMAIN calls
        PROVE  /\ Consistent(called[n]) /\ called[n].kind = "function_call"
               /\ called[n].call = calls[n] /\ calls[n] # NoCall
    <3>1. calls[n] \in Calls OBVIOUS
    <3>2. Piece(calls[n], "whole").call = calls[n]
      BY <1>3, <3>1
    <3>3. called[n] = done("function_call", calls[n], Piece(calls[n], "whole"))
      OBVIOUS
    <3>4. calls[n] # NoCall
      BY <3>1 DEF Calls, NoCall
    <3>5. QED BY <1>2, <3>2, <3>3, <3>4
  <2>2. DOMAIN called = 1..Len(calls) /\ Len(calls) \in Nat
    OBVIOUS
  <2>3. called \in Seq(Range(called))
    BY <2>2 DEF Range
  <2>4. QED BY <2>1, <2>3
<1> HIDE DEF called, thought, text
<1> DEFINE x == Len(one)
           y == Len(two)
           z == Len(calls)
<1>6. /\ x = IF read.thinking THEN 1 ELSE 0
      /\ y = IF read.text THEN 1 ELSE 0
      /\ z \in Nat /\ DOMAIN calls = 1..z
  OBVIOUS
<1>7. /\ DOMAIN t = 1..(x + y + z)
      /\ \A k \in 1..x : t[k] = thought
      /\ \A k \in (x + 1)..(x + y) : t[k] = text
      /\ \A k \in (x + y + 1)..(x + y + z) : t[k] = called[k - (x + y)]
  <2> DEFINE All == {thought, text} \cup Range(called)
  <2>1. /\ one \in Seq(All) /\ two \in Seq(All)
        /\ \A k \in 1..x : one[k] = thought
        /\ \A k \in 1..y : two[k] = text
    BY OneOrNone
  <2>2. called \in Seq(All) /\ Len(called) = z
    BY <1>5, <1>6
  <2>3. x \in Nat /\ y \in Nat
    BY <2>1
  <2> HIDE DEF one, two, All
  <2>4. /\ one \o two \in Seq(All) /\ Len(one \o two) = x + y
        /\ \A k \in 1..x : (one \o two)[k] = one[k]
        /\ \A k \in (x + 1)..(x + y) : (one \o two)[k] = two[k - x]
    BY <2>1, <2>3
  <2>5. PICK front : front = one \o two
    OBVIOUS
  <2>6. /\ t \in Seq(All) /\ Len(t) = x + y + z
        /\ \A k \in 1..(x + y) : t[k] = front[k]
        /\ \A k \in (x + y + 1)..(x + y + z) : t[k] = called[k - (x + y)]
    BY ONLY <1>1, <1>6, <2>2, <2>3, <2>4, <2>5
  <2>7. \A k \in (x + 1)..(x + y) : k - x \in 1..y
    BY <2>3
  <2> HIDE DEF x, y, z
  <2>8. ASSUME NEW k \in 1..x PROVE t[k] = thought
    <3>1. k \in 1..(x + y)
      BY <2>3
    <3>2. t[k] = one[k]
      BY <2>4, <2>5, <2>6, <3>1
    <3>3. QED BY <2>1, <3>2
  <2>9. ASSUME NEW k \in (x + 1)..(x + y) PROVE t[k] = text
    <3>1. k \in 1..(x + y) /\ k - x \in 1..y
      BY <2>3, <2>7
    <3>2. t[k] = two[k - x]
      BY <2>4, <2>5, <2>6, <3>1
    <3>3. QED BY <2>1, <3>1, <3>2
  <2>10. DOMAIN t = 1..(x + y + z)
    BY <2>6
  <2>11. QED BY <2>6, <2>8, <2>9, <2>10
<1> HIDE DEF x, y, z, one, two
<1>8. ASSUME NEW k \in DOMAIN t
      PROVE  \/ k \in 1..x /\ t[k] = thought
             \/ k \in (x + 1)..(x + y) /\ t[k] = text
             \/ k - (x + y) \in 1..z /\ t[k] = called[k - (x + y)]
  BY <1>6, <1>7
<1>9. \A k \in DOMAIN t : Consistent(t[k])
  BY <1>4, <1>5, <1>6, <1>8
<1>10. {k \in DOMAIN t : t[k].kind = "message"} = IF read.text THEN {x + 1} ELSE {}
  BY <1>4, <1>5, <1>6, <1>7, <1>8
<1>11. Cardinality({k \in DOMAIN t : t[k].kind = "message"}) = IF read.text THEN 1 ELSE 0
  BY <1>10, FS_EmptySet, FS_Singleton
<1>12. {t[k].call : k \in DOMAIN t} \ {NoCall} = {calls[n] : n \in DOMAIN calls}
  <2>1. ASSUME NEW k \in DOMAIN t, t[k].call # NoCall
        PROVE  t[k].call \in {calls[n] : n \in DOMAIN calls}
    BY <1>4, <1>5, <1>6, <1>8, <2>1
  <2>2. ASSUME NEW n \in DOMAIN calls
        PROVE  calls[n] \in {t[k].call : k \in DOMAIN t} \ {NoCall}
    <3>1. PICK k : k = x + y + n
      OBVIOUS
    <3>2. /\ k \in (x + y + 1)..(x + y + z) /\ k \in 1..(x + y + z)
          /\ k - (x + y) = n
      BY <1>6, <3>1
    <3>3. t[k] = called[n] /\ k \in DOMAIN t
      BY <1>7, <3>2
    <3>4. QED BY <1>5, <3>3
  <2>3. QED BY <2>1, <2>2
<1>13. {calls[n] : n \in DOMAIN calls} = TurnCalls(read)
  <2>1. TurnCalls(read) \in SUBSET Calls
    BY DEF TurnCalls, Fragments, ReadType
  <2>2. IsFiniteSet(Calls)
    BY FS_Interval, StreamBounds DEF Calls
  <2>3. IsFiniteSet(TurnCalls(read))
    BY <2>1, <2>2, FS_Subset
  <2>4. QED BY <2>3, ListsAll
<1>14. QED BY <1>9, <1>11, <1>12, <1>13 DEF IsTheTurn

-----------------------------------------------------------------------------
(* Order is kept *)

LEMMA InitInOrder == Init => OrderInv
<1> SUFFICES ASSUME Init PROVE OrderInv
  OBVIOUS
<1>1. /\ items = <<>> /\ builder = NewBuilder /\ pc = "sending" /\ outcome = "none"
      /\ read = NewRead
  BY DEF Init, StreamInit
<1>2. /\ Now.items = <<>> /\ DOMAIN Now.items = {}
      /\ Now.b.text = <<>> /\ Now.b.thinking = <<>>
  BY <1>1 DEF Now, NewBuilder
<1>3. Message(Now) = {} /\ Reasoning(Now) = {} /\ Now.b.tools = {}
  BY <1>1 DEF Now, NewBuilder, Message, Reasoning
<1>4. Orderly(Now)
  BY <1>2, <1>3 DEF Orderly, OpenItems
<1>5. /\ ~read.text /\ ~read.delivered /\ read.uses = {}
      /\ \A c \in Calls : read.args[c] = "none"
  BY <1>1 DEF NewRead
<1>6. BegunCalls(read) = {}
  BY <1>5 DEF BegunCalls, Fragments
<1>7. CallsOf(Now) = {} /\ ~HasKind(Now, "message")
  BY <1>2 DEF CallsOf, HasKind
<1>8. Matches(Now, read) /\ LastOpen(Now, read.uses)
  BY <1>2, <1>5, <1>6, <1>7 DEF Matches, LastOpen
<1>9. QED BY <1>1, <1>4, <1>5, <1>8 DEF OrderInv, StreamedIsTheTurn, IsComplete

\* An event that reaches the builder.
LEMMA PassInOrder ==
    ASSUME StreamInv, ItemsInv, OrderInv, pc = "reading", Pass(held), read' = Taken(held),
           held' = Nothing, pc' # "sending", sink' = sink, outcome' = outcome
    PROVE  OrderInv'
<1>1. outcome = "none" /\ held \in Events \cup {Nothing} /\ read \in ReadType
  BY DEF StreamInv, StreamTypeOK, OutcomeInv
<1>2. sink # "responses" => items' = items
  BY DEF Pass
<1>3. sink = "responses" /\ (read'.text \/ read'.uses # {}) => read'.delivered
  BY <1>1 DEF OrderInv, Taken, ReadType, CountsAsDelivered, Live
<1>4. ASSUME sink = "responses", ordered'
      PROVE  Orderly(Now') /\ LastOpen(Now', read'.uses) /\ Matches(Now', read')
  <2>1. /\ items' = OnEvent(Now, held).items /\ builder' = OnEvent(Now, held).b
        /\ ordered /\ KeepsOrder(held)
    BY <1>4 DEF Pass, Becomes
  <2>2. Good(Now) /\ Good(OnEvent(Now, held))
    BY <1>1, OnEventGood DEF ItemsInv
  <2>3. OnEvent(Now, held) = [items |-> OnEvent(Now, held).items, b |-> OnEvent(Now, held).b]
    BY <2>2 DEF Good
  <2>4. Now' = OnEvent(Now, held)
    BY <2>1, <2>3 DEF Now
  <2>5. /\ Orderly(Now) /\ LastOpen(Now, read.uses) /\ Matches(Now, read)
        /\ held # Nothing => Sendable(held)
    BY <1>4, <2>1 DEF OrderInv
  <2>6. QED BY <1>1, <2>1, <2>2, <2>4, <2>5, OnEventOrderly
<1>5. ~IsComplete'
  BY <1>1 DEF IsComplete
<1>6. sink' # "responses" /\ outcome' # "completed" => items' = <<>>
  BY <1>1, <1>2 DEF OrderInv
<1>7. QED BY <1>3, <1>4, <1>5, <1>6 DEF OrderInv, StreamedIsTheTurn

\* A stream that is opened, or refused, finds no part of a turn but thinking.
LEMMA NewReadInOrder ==
    ASSUME StreamInv, ItemsInv, OrderInv, pc = "sending", read' = NewRead,
           pc' \in {"reading", "judging"}, held' = Nothing \/ pc' = "judging",
           UNCHANGED <<items, builder, ordered, sink, outcome>>
    PROVE  OrderInv'
<1>1. outcome = "none" /\ ~read.delivered
  BY DEF StreamInv, OutcomeInv, OrderInv
<1>2. /\ read' = NewRead /\ read'.uses = {} /\ ~read'.text /\ ~read'.delivered
      /\ \A c \in Calls : read'.args[c] = "none"
  BY DEF NewRead
<1>3. BegunCalls(read') = {}
  BY <1>2 DEF BegunCalls, Fragments
<1>4. Now' = Now
  BY DEF Now
<1>5. ASSUME sink = "responses", ordered
      PROVE  Orderly(Now) /\ LastOpen(Now, read'.uses) /\ Matches(Now, read')
  <2>1. /\ Orderly(Now) /\ LastOpen(Now, read.uses) /\ Matches(Now, read)
        /\ read.uses = {} /\ ~read.text
    BY <1>1, <1>5 DEF OrderInv
  <2>2. \A c \in Calls : read.args[c] = "none"
    BY <1>1, <1>5 DEF StreamInv, ReaderOK
  <2>3. BegunCalls(read) = {}
    BY <2>1, <2>2 DEF BegunCalls, Fragments
  <2>4. QED BY <1>2, <1>3, <2>1, <2>3 DEF Matches
<1>6. ~IsComplete'
  BY <1>1 DEF IsComplete
<1>7. QED BY <1>1, <1>2, <1>4, <1>5, <1>6 DEF OrderInv, StreamedIsTheTurn

\* Nothing of what the order is about has changed.
LEMMA FrameInOrder ==
    ASSUME OrderInv, UNCHANGED <<items, builder, ordered, sink, read>>,
           outcome' = outcome \/ (outcome' # "completed" /\ outcome = "none"),
           pc' = "sending" => ~read.delivered,
           pc' = "reading" /\ held' # Nothing => Sendable(held'),
           pc = "done" => pc' = "done"
    PROVE  OrderInv'
<1>1. Now' = Now
  BY DEF Now
<1>2. Sendable(held') => (Sendable(held))'
  BY DEF Sendable, Begun
<1>3. IsComplete' => IsComplete
  BY DEF IsComplete
<1>4. StreamedIsTheTurn'
  BY <1>3 DEF OrderInv, StreamedIsTheTurn
<1>5. QED BY <1>1, <1>2, <1>4 DEF OrderInv

LEMMA OtherInOrder == StreamInv /\ ItemsInv /\ OrderInv /\ Other => OrderInv'
<1> SUFFICES ASSUME StreamInv, ItemsInv, OrderInv, Other PROVE OrderInv'
  OBVIOUS
<1>1. UNCHANGED <<items, builder, ordered>> /\ (outcome = "none" <=> pc # "done")
  BY DEF Other, StreamInv, OutcomeInv
<1>2. CASE OpenStream
  BY <1>1, <1>2, NewReadInOrder DEF OpenStream
<1>3. CASE Refused
  BY <1>1, <1>3, NewReadInOrder DEF Refused, Judge
<1>4. ASSUME NEW e \in Events, DataLine(e) PROVE OrderInv'
  BY <1>1, <1>4, FrameInOrder DEF DataLine
<1>5. CASE StallFires
  <2>1. /\ UNCHANGED <<sink, read, outcome, held, pc>> /\ pc = "reading"
        /\ held # Nothing => Sendable(held)
    BY <1>5 DEF StallFires, OrderInv
  <2>2. QED BY <1>1, <2>1, FrameInOrder
<1>6. CASE Stalled \/ Reset
  BY <1>1, <1>6, FrameInOrder DEF Stalled, Reset, Judge
<1>7. CASE Replay
  BY <1>1, <1>7, FrameInOrder DEF Replay
<1>8. CASE Fail \/ Leave
  BY <1>1, <1>8, FrameInOrder DEF Fail, Leave
<1>9. QED BY <1>2, <1>3, <1>4, <1>5, <1>6, <1>7, <1>8 DEF Other

LEMMA CompleteInOrder == StreamInv /\ ItemsInv /\ OrderInv /\ Complete => OrderInv'
<1> SUFFICES ASSUME StreamInv, ItemsInv, OrderInv, Complete PROVE OrderInv'
  OBVIOUS
<1>1. /\ pc = "judging" /\ error = NoError /\ pc' = "done" /\ outcome' = "completed"
      /\ UNCHANGED <<sink, read, ordered, held>> /\ outcome = "none"
  BY DEF Complete, Answer, StreamInv, OutcomeInv
<1>2. read \in ReadType /\ (sink = "responses" => HalfCalls(read) = {})
  BY <1>1 DEF StreamInv, StreamTypeOK, VerdictInv
<1>3. StreamedIsTheTurn' => OrderInv'
  BY <1>1 DEF OrderInv
<1>4. CASE sink = "responses" /\ Becomes(Completed(Now))
  <2> SUFFICES ASSUME ordered PROVE StreamedIsTheTurn'
    BY <1>1, <1>3 DEF StreamedIsTheTurn
  <2> DEFINE t == Close(Now, OpenItems(Now))
  <2>1. items' = t.items
    <3>1. OpenItems(Now) = Now.b.tools \cup Message(Now) \cup Reasoning(Now)
      BY DEF OpenItems
    <3>2. Completed(Now) = t
      BY <3>1 DEF Completed
    <3>3. QED BY <1>4, <3>2 DEF Becomes
  <2>2. Good(Now) /\ Orderly(Now) /\ Matches(Now, read)
    BY <1>1, <1>4 DEF ItemsInv, OrderInv
  <2>3. /\ Orderly(t) /\ Good(t) /\ OpenItems(t) = {} /\ Len(t.items) = Len(Now.items)
        /\ \A k \in DOMAIN t.items : /\ t.items[k].kind = Now.items[k].kind
                                     /\ t.items[k].call = Now.items[k].call
    BY <2>2, CloseOrderly
  <2> HIDE DEF t
  <2>4. DOMAIN t.items = DOMAIN Now.items
    BY <2>2, <2>3 DEF Good
  <2>5. Matches(t, read)
    BY <2>2, <2>3, <2>4 DEF Matches, HasKind, CallsOf
  <2>6. IsTheTurn(t.items, read)
    BY <1>2, <1>4, <2>3, <2>5, ClosedIsTheTurn
  <2>7. QED BY <1>1, <2>1, <2>6 DEF IsTheTurn, StreamedIsTheTurn
<1>5. ASSUME NEW calls \in SetToSeqs(TurnCalls(read)), sink = "search",
             items' = items \o FilledIn(calls)
      PROVE  OrderInv'
  <2>1. items = <<>>
    BY <1>1, <1>5 DEF OrderInv
  <2>2. calls \in Seq(Calls)
    BY TurnCallsSeq DEF StreamInv
  <2>3. items' = FilledIn(calls)
    <3>1. FilledIn(calls) \in Seq(DoneItem)
      BY <2>2, FilledInDone
    <3>2. QED BY <1>5, <2>1, <3>1
  <2>4. IsTheTurn(items', read)
    BY <1>5, <2>3, FilledInIsTheTurn DEF StreamInv
  <2>5. StreamedIsTheTurn'
    BY <1>1, <2>4 DEF IsTheTurn, StreamedIsTheTurn
  <2>6. QED BY <1>3, <2>5
<1>6. CASE sink \notin {"responses", "search"}
  <2>1. ~IsComplete'
    BY <1>1, <1>6 DEF IsComplete
  <2>2. QED BY <1>3, <2>1 DEF StreamedIsTheTurn
<1>7. QED BY <1>4, <1>5, <1>6 DEF Complete

LEMMA OrderInvariance == Spec => []OrderInv
<1>1. StreamInv /\ ItemsInv /\ OrderInv /\ [Next]_vars => OrderInv'
  <2> SUFFICES ASSUME StreamInv, ItemsInv, OrderInv, [Next]_vars PROVE OrderInv'
    OBVIOUS
  <2>1. CASE Deliver
    <3>1. /\ pc = "reading" /\ read' = Taken(held) /\ held' = Nothing /\ pc' = pc
          /\ sink' = sink /\ outcome' = outcome
      BY <2>1 DEF Deliver, Dispatch
    <3>2. QED BY <2>1, <3>1, PassInOrder DEF Deliver
  <2>2. CASE DeliverLast
    <3>1. /\ pc = "reading" /\ read' = Taken(held) /\ held' = Nothing /\ pc' = "judging"
          /\ sink' = sink /\ outcome' = outcome
      BY <2>2 DEF DeliverLast, EndOfStream, Judge
    <3>2. QED BY <2>2, <3>1, PassInOrder DEF DeliverLast
  <2>3. CASE Complete
    BY <2>3, CompleteInOrder
  <2>4. CASE Other
    BY <2>4, OtherInOrder
  <2>5. CASE UNCHANGED vars
    <3>1. /\ UNCHANGED <<items, builder, ordered, sink, read>>
          /\ UNCHANGED <<outcome, pc, held>>
      BY <2>5 DEF vars, streamVars
    <3>2. /\ pc' = "sending" => ~read.delivered
          /\ pc' = "reading" /\ held' # Nothing => Sendable(held')
          /\ outcome' = outcome /\ (pc = "done" => pc' = "done")
      BY <3>1 DEF OrderInv
    <3>3. QED BY <3>1, <3>2, FrameInOrder
  <2>6. QED BY <2>1, <2>2, <2>3, <2>4, <2>5 DEF Next
<1>2. Spec => Init /\ [][Next]_vars
  BY DEF Spec
<1>3. QED BY <1>1, <1>2, InitInOrder, ItemsInvariance, PTL

-----------------------------------------------------------------------------
(* The theorems *)

\* The variables keep their types: every item that a delta or a "done" names is
\* in the list of items.
THEOREM TypeCorrect == Spec => []TypeOK
<1>1. StreamInv /\ ItemsInv => TypeOK
  <2> SUFFICES ASSUME StreamInv, ItemsInv PROVE TypeOK
    OBVIOUS
  <2>1. /\ items \in Seq(Item) /\ builder \in Builder
        /\ Message(Now) \cup Reasoning(Now) \cup builder.tools \subseteq DOMAIN items
    BY DEF ItemsInv, Good, Now, OpenItems
  <2>2. \A k \in DOMAIN items : items[k] \in Item
    BY <2>1
  <2>3. builder.message \in 0..Len(items) /\ builder.reasoning \in 0..Len(items)
    <3>1. {builder.message, builder.reasoning} \ {0} \subseteq DOMAIN items
      BY <2>1 DEF Message, Reasoning, Now
    <3>2. DOMAIN items = 1..Len(items) /\ Len(items) \in Nat
      BY <2>1
    <3>3. builder.message \in Nat /\ builder.reasoning \in Nat
      BY <2>1 DEF Builder
    <3>4. QED BY <3>1, <3>2, <3>3
  <2>4. builder.tools \subseteq DOMAIN items
    BY <2>1
  <2>5. builder.text \in Seq(Pieces) /\ builder.thinking \in Seq(Pieces)
    BY <2>1 DEF Builder
  <2>6. ASSUME NEW i \in Item
        PROVE  /\ i.kind \in {"reasoning", "message", "function_call"}
               /\ i.call \in Calls \cup {NoCall}
               /\ i.given \in Seq(Pieces) /\ i.final \in Seq(Pieces)
               /\ i.dones \in Nat
               /\ i.late \in BOOLEAN /\ i.astray \in BOOLEAN
    BY DEF Item
  <2>7. QED BY <2>2, <2>3, <2>4, <2>5, <2>6 DEF TypeOK, StreamInv, ItemsInv
<1>2. QED BY <1>1, ItemsInvariance, PTL

\* On any way through the stream deltas go to open items and no item is done
\* twice, and a complete response has nothing open (MessageDelta, ToolCallDelta,
\* ToolCallStart, Completed).
THEOREM ItemsAreDoneOnce == Spec => []ItemsDoneOnce
<1>1. ItemsInv => ItemsDoneOnce
  BY DEF ItemsInv, ItemsDoneOnce, Good, Now
<1>2. QED BY <1>1, ItemsInvariance, PTL

\* While upstream keeps its order, a complete response is the turn: its items carry
\* their own indices and arguments, there is one message if there is text and an
\* item for each call, for any number of calls, events and attempts
\* (streamResponses, ResponseStreamBuilder).
THEOREM TheStreamIsTheTurn == Spec => []StreamedIsTheTurn
<1>1. OrderInv => StreamedIsTheTurn
  BY DEF OrderInv
<1>2. QED BY <1>1, OrderInvariance, PTL

=============================================================================
