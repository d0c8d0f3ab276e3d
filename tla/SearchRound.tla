----------------------------- MODULE SearchRound -----------------------------
(***************************************************************************)
(* Hosted web search inside one request (server/responses_search.go).      *)
(* Upstream knows no search tool, so a client that asks for one is given   *)
(* an internal function.  A model that calls it is answered by the proxy:  *)
(* a search for every call, then a second completion without the function. *)
(* The client must see only the answer, and be told what both used.        *)
(***************************************************************************)
EXTENDS Integers, SequencesExt

CONSTANTS
    SearchAccounts,  \* accounts of the pool
    BoundTo,         \* accounts a key may be bound to, and Unbound
    Unbound,         \* a key that is not bound
    Amounts,         \* tokens, and credits, that a completion may cost
    MaxCalls         \* calls of one completion

ASSUME SearchAssumption == Amounts \subseteq Nat /\ MaxCalls \in Nat

\* "search" is the internal function, "own" a tool of the client's.
ToolNames == {"search", "own"}

\* What upstream says a completion used; it may leave the credit out.
Untold == -1
UpstreamUsages == [tokens : Amounts, credit : Amounts \cup {Untold}]

VARIABLES
    ask,        \* what the client declared, and the account its key is bound to
    round,      \* "first" | "search" | "second" | "answered" | "failed"
    opts,       \* tools and choice of the next completion
    calls,      \* ids of the search calls of the first turn
    messages,   \* what the proxy appended: the calls, then a result for each
    turn,       \* the last turn; at the end, what the client gets
    asked       \* ghost: the completions made, what they cost, and who was asked

searchVars == <<ask, round, opts, calls, messages, turn, asked>>

\* A choice of "none" declines the search as well.
SearchDisabled(choice) == choice = "none"

\* ChatSearchTools, and ToMessages with HasBuiltinWebSearch for Responses.
ChatSearchTools(tools, choice) ==
    IF SearchDisabled(choice) THEN tools \ {"search"} ELSE tools

SearchInit ==
    /\ ask \in [tools : SUBSET ToolNames, choice : {"auto", "required", "none"}, bound : BoundTo]
    /\ round = "first"
    /\ opts = [tools |-> ChatSearchTools(ask.tools, ask.choice), choice |-> ask.choice]
    /\ calls = {}
    /\ messages = <<>>
    /\ turn = [text |-> FALSE, uses |-> <<>>, tokens |-> 0, credit |-> Untold]
    /\ asked = [opts |-> <<>>, tokens |-> 0, credit |-> 0, untold |-> FALSE, accounts |-> {}]

\* The calls of a turn are a function from their ids to the tools they name; ids
\* count up, so that the calls are in the order of their ids.
OnlyWebSearchCalls(uses) == {id \in DOMAIN uses : uses[id] = "search"}

\* Mutant: the second turn is passed on as it is.
AllCalls(uses) == uses

FilterBuiltinSearchCalls(uses) ==
    [id \in DOMAIN uses \ OnlyWebSearchCalls(uses) |-> uses[id]]

\* Turns of a model: it calls what it is offered, and what it has called before.
Uses ==
    LET known == opts.tools \cup (IF calls = {} THEN {} ELSE {"search"})
    IN UNION {[1 .. n -> known] : n \in 0 .. MaxCalls}

\* A fixed account is the only one that may be asked, in every round.
MayServe(account) == ask.bound \in {Unbound, account}

\* CompleteFromPool, for this request: the turn and what upstream noted of it.
Completes(account, usage) ==
    /\ MayServe(account)
    /\ asked' = [opts     |-> Append(asked.opts, opts),
                 tokens   |-> asked.tokens + usage.tokens,
                 credit   |-> asked.credit + (IF usage.credit = Untold THEN 0 ELSE usage.credit),
                 untold   |-> asked.untold \/ usage.credit = Untold,
                 accounts |-> asked.accounts \cup {account}]

\* The first turn is the answer unless it calls the function, which makes it a
\* search; calls of the client's own tools beside it are dropped, since the model
\* is asked again with the results.
FirstTurn ==
    /\ round = "first"
    /\ \E account \in SearchAccounts, uses \in Uses, text \in BOOLEAN, usage \in UpstreamUsages :
        /\ Completes(account, usage)
        /\ turn' = [text |-> text, uses |-> uses, tokens |-> usage.tokens, credit |-> usage.credit]
        /\ calls' = IF "search" \in opts.tools THEN OnlyWebSearchCalls(uses) ELSE {}
    /\ round' = IF calls' = {} THEN "answered" ELSE "search"
    /\ messages' = IF calls' = {} THEN <<>> ELSE <<[role |-> "assistant", ids |-> calls']>>
    /\ UNCHANGED <<ask, opts>>

\* The results there are for a call.
Results(id) == {i \in DOMAIN messages : messages[i].role = "tool" /\ id \in messages[i].ids}
Unanswered == {id \in calls : Results(id) = {}}

\* runBuiltinWebSearch answers the next call with what an account found; a search
\* that fails, or a call without a query, with the error.
AnswerCall ==
    /\ round = "search"
    /\ Unanswered # {}
    /\ messages' = Append(messages, [role |-> "tool", ids |-> {Min(Unanswered)}])
    /\ \/ asked' = asked
       \/ \E account \in SearchAccounts :
              /\ MayServe(account)
              /\ asked' = [asked EXCEPT !.accounts = @ \cup {account}]
    /\ UNCHANGED <<ask, round, opts, calls, turn>>

\* The function is taken back, and a demand that it has met.
AskAgain ==
    /\ round = "search"
    /\ Unanswered = {}
    /\ round' = "second"
    /\ opts' = LET left == opts.tools \ {"search"}
               IN [tools |-> left,
                   choice |-> CASE left = {} -> "absent"
                                [] left # {} /\ opts.choice = "required" -> "auto"
                                [] OTHER -> opts.choice]
    /\ UNCHANGED <<ask, calls, messages, turn, asked>>

\* sumSearchUsage: a credit that one round did not tell is not made up.
SumSearchUsage(first, final) ==
    [tokens |-> first.tokens + final.tokens,
     credit |-> IF Untold \in {first.credit, final.credit} THEN Untold
                ELSE first.credit + final.credit]

\* The second turn, with the usage of both: a search the model makes up is taken
\* out, and a turn that is left with nothing says so in words.
SecondTurn ==
    /\ round = "second"
    /\ \E account \in SearchAccounts, uses \in Uses, text \in BOOLEAN, usage \in UpstreamUsages :
        LET left == FilterBuiltinSearchCalls(uses)
            sum == SumSearchUsage(turn, usage)
        IN /\ Completes(account, usage)
           /\ turn' = [text |-> text \/ DOMAIN left = {}, uses |-> left,
                       tokens |-> sum.tokens, credit |-> sum.credit]
    /\ round' = "answered"
    /\ UNCHANGED <<ask, opts, calls, messages>>

\* Neither completion is tried again here: its error is the client's answer, and
\* what the first one used is not in the journal.
CompletionFails ==
    /\ round \in {"first", "second"}
    /\ round' = "failed"
    /\ UNCHANGED <<ask, opts, calls, messages, turn, asked>>

SearchNext == FirstTurn \/ AnswerCall \/ AskAgain \/ SecondTurn \/ CompletionFails

SearchSpec == SearchInit /\ [][SearchNext]_searchVars

-----------------------------------------------------------------------------
\* The search shows nowhere: the client never gets a call of the function, which
\* it could not answer, nor an empty answer where the model only searched.
NothingShows ==
    round = "answered" /\ "search" \in ask.tools =>
        /\ \A id \in DOMAIN turn.uses : turn.uses[id] # "search"
        /\ messages # <<>> => turn.text \/ DOMAIN turn.uses # {}

\* The model is asked again only once, and only with one result for each of its
\* calls.
AskedWithAnswers ==
    /\ Len(asked.opts) <= 2
    /\ round = "second" \/ Len(asked.opts) = 2 =>
          \A id \in calls : \E i \in DOMAIN messages : Results(id) = {i}

\* No completion is made to call what it is not offered: the second one would
\* search for ever, or upstream would turn down its choice.
ChoiceFits ==
    \A i \in DOMAIN asked.opts :
        asked.opts[i].choice = "required" /\ ask.tools # {} =>
            asked.opts[i].tools # {} /\ (i = 1 \/ "search" \notin ask.tools)

\* The answer tells every token the request used, and a credit only if all of it
\* is known.
UsageOfBoth ==
    round = "answered" =>
        /\ turn.tokens = asked.tokens
        /\ turn.credit = IF asked.untold THEN Untold ELSE asked.credit

\* A key's account does all the work of its request, the searches too.
StaysOnItsAccount == ask.bound # Unbound => asked.accounts \subseteq {ask.bound}

\* The built-in search is the gateway's own affair: what the two completions and
\* the calls between them do does not show in the answer, and does not get lost in
\* its usage (chat_search.go, responses_search.go, openai/search.go).
SearchStaysInside ==
    /\ NothingShows
    /\ AskedWithAnswers
    /\ ChoiceFits
    /\ UsageOfBoth
    /\ StaysOnItsAccount
==============================================================================
