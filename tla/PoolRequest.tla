------------------------------ MODULE PoolRequest ------------------------------
(***************************************************************************)
(* One request served from the account pool: CompleteFromPool, and its     *)
(* variants ImageFromPool and withSearchAccount (internal/gateway).        *)
(*                                                                         *)
(* The handlers call themselves with changed options until they have an    *)
(* answer.  A request is the record of those options and of where it is;   *)
(* a recursive call puts it back to "enter".  Requests run concurrently    *)
(* and meet in the pool and in the table of session pins, each call of     *)
(* which is one critical section; everything in between interleaves.       *)
(***************************************************************************)
EXTENDS AccountSelection

CONSTANTS
    Requests,     \* requests
    Kinds,        \* which handlers they run, of "chat", "image", "search"
    Sessions,     \* conversations that can be pinned to an account
    NoSession,    \* a request without a session key
    Bindings,     \* what API keys are bound to: accounts, or None
    Refreshable,  \* accounts with a refresh token
    Failures,     \* bound: the errors upstream may answer, of those below
    MaxRetries,   \* defaultMaxAccountRetries
    MaxResets,    \* maxResetReplays
    MaxAdmin      \* bound: accounts switched on or off

ASSUME RequestShape ==
    /\ Kinds \subseteq {"chat", "image", "search"}
    /\ NoSession \notin Sessions
    /\ Refreshable \subseteq Accounts /\ Bindings \subseteq Accounts \cup {None}
    /\ MaxRetries \in Nat \ {0} /\ MaxResets \in Nat /\ MaxAdmin \in Nat

VARIABLES
    req,    \* the requests
    pins,   \* Service.Pins: the account a session is pinned to
    convs,  \* Service.Conversations: the account its upstream ID belongs to
    admin   \* account switches so far

vars == <<rows, next, req, pins, convs, admin>>

\* What upstream, or the way to it, answers, as the handlers tell errors apart:
\*   transport: not reached, reset, cut or stalled before the first content
\*   empty:     a completed turn with nothing in it
\*   busy:      429, 502, 503, 504, a rate limit, "invoke model error"
\*   model:     6004, a rate limit of this model alone
\*   quota:     the account's credits are used up
\*   auth:      401 and the like
\*   policy:    11101, 11102, 11128, 11140
\*   other:     anything else
Errors == {"transport", "empty", "busy", "model", "quota", "auth", "policy", "other"}

\* Errors of the pool itself, which isRetryExhausted recognises.
Exhausted == {"depth", "none", "cooling"}

Outcomes == Errors \cup Exhausted \cup {"ok", "canceled", "unusable", "relogin"}

NoError == "no error"

ASSUME FailuresAreErrors == Failures \subseteq Errors

-----------------------------------------------------------------------------
(* Helpers *)

Chat(r) == req[r].kind = "chat"
Keyed(r) == Chat(r) /\ req[r].session # NoSession

At(r, pc) == req[r].pc = pc
Goto(r, pc) == req' = [req EXCEPT ![r].pc = pc]

NewRequest ==
    [pc |-> "idle", kind |-> "chat", model |-> NoModel, session |-> NoSession,
     account |-> None, fixed |-> FALSE, excluded |-> {}, probing |-> {},
     depth |-> 0, resets |-> 0, empties |-> 0, refreshed |-> FALSE,
     chosen |-> None, bypass |-> FALSE, error |-> NoError, outcome |-> NoError,
     sent |-> 0, cuts |-> 0, hollow |-> 0, delivered |-> FALSE]

\* On to the selection; a new request looks at quotas first.
GotoSelect(r) ==
    Goto(r, IF req[r].account = None /\ req[r].depth = 0 THEN "look" ELSE "select")

\* Mutant: what the last frame met is what the client is told.
AnsweredPlainly(request, outcome) ==
    [NewRequest EXCEPT !.pc = "done", !.kind = request.kind,
                       !.sent = request.sent, !.cuts = request.cuts, !.hollow = request.hollow,
                       !.delivered = request.delivered, !.outcome = outcome]

\* The request is answered, and its options are garbage; what it cost and
\* delivered is kept for the properties.  An error of the pool does not hide the
\* error that made the last frame move to another account.
Answered(request, outcome) ==
    LET hidden == outcome \in Exhausted /\ request.outcome # NoError
    IN  [NewRequest EXCEPT !.pc = "done", !.kind = request.kind,
                           !.sent = request.sent, !.cuts = request.cuts, !.hollow = request.hollow,
                           !.delivered = request.delivered,
                           !.outcome = IF hidden THEN request.outcome ELSE outcome]

Answer(r, outcome) == req' = [req EXCEPT ![r] = Answered(req[r], outcome)]

\* Its session is pinned, and no account is named yet.
Pinned(r) == req[r].account = None /\ Keyed(r) /\ pins[req[r].session] # None

SetPin(r, a) == pins' = [pins EXCEPT ![req[r].session] = a]

\* s.Pins.Forget, if the request has a session.
ForgetPin(r) == IF Keyed(r) THEN SetPin(r, None) ELSE UNCHANGED pins

\* listSelectableAccounts: what is worth a look at its quota.
Selectable(exclude) ==
    {a \in Eligible(exclude) :
        rows[a].cool = 0 /\ ~(rows[a].quota = 0 /\ rows[a].reset > 0)}

\* hasAlternativeAccount
HasAlternative(r) == Selectable(req[r].excluded \cup {req[r].chosen}) # {}

\* shouldRefreshAfterFailure
RefreshableError(r, e) == e = "auth" /\ req[r].chosen \in Refreshable

\* Mutant: a bound request may move on like any other.
MayMoveOnUnbound(r, e) ==
    /\ req[r].chosen \notin req[r].excluded
    /\ e \in {"transport", "empty", "busy", "model", "quota"}
    /\ e = "empty" => req[r].empties = 0
    /\ e = "transport" => req[r].resets < MaxResets

\* shouldRetryNextAccount.  Images and searches do not carry the two counters:
\* for them both stay 0.
MayMoveOn(r, e) ==
    /\ ~req[r].fixed
    /\ req[r].chosen \notin req[r].excluded
    /\ e \in {"transport", "empty", "busy", "model", "quota"}
    /\ e = "empty" => req[r].empties = 0
    /\ e = "transport" => req[r].resets < MaxResets

\* MarkResult(failed) as resolveFailureCooldown has it, for every cooldown it
\* can come to.  A quota error looks at the account's quota first, which may
\* fail, and takes the reset as the cooldown when there is nothing left.
Punish(r, e) ==
    LET a == req[r].chosen
        Cool(row, ticks) == Cooled(row, req[r].model, ticks, e = "model")
        Put(row) == rows' = [rows EXCEPT ![a] = row]
    IN  CASE e \in {"busy", "model", "policy"} -> Put(Cool(rows[a], ShortCool))
          [] e = "quota" ->
               \E base \in {0, ShortCool} :
                  \/ Put(Cool(rows[a], base))
                  \/ \E q \in 0..MaxQuota :
                        Put(Cool(WithQuota(rows[a], q), IF q = 0 THEN Max({base, LongCool}) ELSE base))
          [] OTHER -> UNCHANGED rows

-----------------------------------------------------------------------------
(* Choosing an account *)

\* The call: a handler, a model, a session, perhaps a bound account.
Begin(r, kind, model, session, account) ==
    /\ At(r, "idle")
    /\ kind # "chat" => session = NoSession
    /\ model = NoModel <=> kind = "search"
    /\ req' = [req EXCEPT ![r].pc = "enter", ![r].kind = kind, ![r].model = model,
                          ![r].session = session, ![r].account = account,
                          ![r].fixed = (account # None)]
    /\ UNCHANGED <<rows, next, pins, convs, admin>>

TooDeep(r) ==
    /\ At(r, "enter")
    /\ req[r].depth >= MaxRetries
    /\ Answer(r, "depth")
    /\ UNCHANGED <<rows, next, pins, convs, admin>>

\* Mutant: the pin is followed even to an account this request has given up.
LookupPinExcluded(r) ==
    /\ At(r, "enter")
    /\ req[r].depth < MaxRetries
    /\ Pinned(r)
    /\ req' = [req EXCEPT ![r].account = pins[req[r].session], ![r].pc = "select"]
    /\ UNCHANGED <<rows, next, pins, convs, admin>>

\* The session is pinned to an account: use it, unless this request already
\* gave it up.
LookupPin(r) ==
    /\ At(r, "enter")
    /\ req[r].depth < MaxRetries
    /\ Pinned(r)
    /\ IF pins[req[r].session] \notin req[r].excluded
         THEN req' = [req EXCEPT ![r].account = pins[req[r].session], ![r].pc = "select"]
         ELSE Goto(r, "unpin")
    /\ UNCHANGED <<rows, next, pins, convs, admin>>

Unpin(r) ==
    /\ At(r, "unpin")
    /\ ForgetPin(r)
    /\ GotoSelect(r)
    /\ UNCHANGED <<rows, next, convs, admin>>

\* No pin to follow.
SkipPin(r) ==
    /\ At(r, "enter")
    /\ req[r].depth < MaxRetries
    /\ ~Pinned(r)
    /\ GotoSelect(r)
    /\ UNCHANGED <<rows, next, pins, convs, admin>>

\* A new request asks for the quotas it does not know, or that may be too old
\* (which ones, the clock says).
LookAtQuotas(r) ==
    /\ At(r, "look")
    /\ LET open == Selectable(req[r].excluded)
           unknown == {a \in open : rows[a].quota = Unknown}
       IN  \E old \in SUBSET (open \ unknown) :
             req' = [req EXCEPT ![r].pc = "probe", ![r].probing = unknown \cup old]
    /\ UNCHANGED <<rows, next, pins, convs, admin>>

\* Billing answers for one account, or fails to in time.
ProbeAnswer(r, a) ==
    /\ a \in req[r].probing
    /\ req' = [req EXCEPT ![r].probing = @ \ {a}]
    /\ \/ \E q \in 0..MaxQuota : rows' = [rows EXCEPT ![a] = WithQuota(@, q)]
       \/ UNCHANGED rows
    /\ UNCHANGED <<next, pins, convs, admin>>

\* All answers are in: select, or after a failure start over.
ProbeDone(r) ==
    /\ req[r].probing = {}
    /\ \/ At(r, "probe") /\ Goto(r, "select")
       \/ At(r, "reprobe") /\ Goto(r, "enter")
    /\ UNCHANGED <<rows, next, pins, convs, admin>>

\* Select with an AccountID: bound, pinned, or the same account again.  Only
\* chat, and only when not bound, looks at cooldowns.
SelectNamed(r) ==
    /\ At(r, "select")
    /\ req[r].account # None
    /\ LET a == req[r].account
           cooling == Chat(r) /\ ~req[r].fixed /\ Until(a, req[r].model) > 0
           soft == Chat(r) /\ ~req[r].fixed
       IN  \/ /\ rows[a].usable /\ ~cooling
              /\ req' = [req EXCEPT ![r].pc = "token", ![r].chosen = a, ![r].bypass = FALSE]
           \/ ~rows[a].usable /\ soft /\ Goto(r, "drop")
           \/ ~rows[a].usable /\ ~soft /\ Answer(r, "unusable")
           \/ rows[a].usable /\ cooling /\ Goto(r, "release")
    /\ UNCHANGED <<rows, next, pins, convs, admin>>

\* Mutant: an account that is only cooling down keeps its pin, and trying it
\* again is not counted.
DropNamedForFree(r) ==
    /\ At(r, "drop") \/ At(r, "release")
    /\ IF At(r, "drop") THEN ForgetPin(r) ELSE UNCHANGED pins
    /\ req' = [req EXCEPT ![r].pc = "enter", ![r].account = None,
                          ![r].excluded = IF At(r, "drop") THEN @ \cup {req[r].account} ELSE @]
    /\ UNCHANGED <<rows, next, convs, admin>>

\* The named account cannot be used: forget the pin and start over with the
\* whole pool, without that account unless it is only cooling down.
DropNamed(r) ==
    /\ At(r, "drop") \/ At(r, "release")
    /\ ForgetPin(r)
    /\ req' = [req EXCEPT ![r].pc = "enter", ![r].account = None, ![r].depth = @ + 1,
                          ![r].excluded = IF At(r, "drop") THEN @ \cup {req[r].account} ELSE @]
    /\ UNCHANGED <<rows, next, convs, admin>>

SelectAny(r) ==
    /\ At(r, "select")
    /\ req[r].account = None
    /\ LET c == Choose(req[r].excluded, req[r].model)
           limited == {a \in Eligible(req[r].excluded) : ModelLimited(a, req[r].model)}
       IN  IF c.account # None
             THEN /\ MoveOn(c.account)
                  /\ req' = [req EXCEPT ![r].pc = "token", ![r].chosen = c.account,
                                        ![r].bypass = c.bypass]
             ELSE /\ Answer(r, IF limited # {} THEN "cooling" ELSE "none")
                  /\ UNCHANGED next
    /\ UNCHANGED <<rows, pins, convs, admin>>

\* refreshSelected could not renew an expired token: the request ends here.
TokenExpired(r) ==
    /\ At(r, "token")
    /\ req[r].chosen \in Refreshable
    /\ Answer(r, "relogin")
    /\ UNCHANGED <<rows, next, pins, convs, admin>>

-----------------------------------------------------------------------------
(* Upstream and its answer *)

\* The token is good or was renewed; the upstream conversation belongs to the
\* session and the account.
Send(r) ==
    /\ At(r, "token")
    /\ req' = [req EXCEPT ![r].pc = "upstream", ![r].sent = @ + 1]
    /\ convs' = IF Keyed(r) THEN [convs EXCEPT ![req[r].session] = req[r].chosen] ELSE convs
    /\ UNCHANGED <<rows, next, pins, admin>>

Succeeds(r) ==
    /\ At(r, "upstream")
    /\ MarkOk(req[r].chosen, req[r].model, req[r].bypass)
    /\ IF Keyed(r) THEN Goto(r, "remember") ELSE Answer(r, "ok")
    /\ UNCHANGED <<next, pins, convs, admin>>

Remember(r) ==
    /\ At(r, "remember")
    /\ SetPin(r, req[r].chosen)
    /\ Answer(r, "ok")
    /\ UNCHANGED <<rows, next, convs, admin>>

\* The client went away: nobody is to blame.
Canceled(r) ==
    /\ At(r, "upstream")
    /\ Answer(r, "canceled")
    /\ UNCHANGED <<rows, next, pins, convs, admin>>

\* Upstream fails with e, after content reached the client iff `sent`: images
\* deliver nothing before they are done, and neither do the first two errors.
MayFail(r, e, sent) ==
    /\ At(r, "upstream")
    /\ e = "empty" => Chat(r)
    /\ sent => req[r].kind # "image" /\ e \notin {"transport", "empty"}

\* The request, having seen that answer.
Seen(r, e, sent) ==
    [req[r] EXCEPT !.error = e,
                   !.cuts = IF e = "transport" THEN @ + 1 ELSE @,
                   !.hollow = IF e = "empty" THEN @ + 1 ELSE @,
                   !.delivered = @ \/ sent]

\* Mutant: delivered content is no reason to stop.
MustStopNever(r, sent) == FALSE

\* Delivered content rules out a second try.  Only chat looks at it: a search
\* that streams its events does not.
MustStop(r, sent) == Chat(r) /\ sent

StopDelivered(r, e, sent) ==
    /\ MayFail(r, e, sent) /\ MustStop(r, sent)
    /\ req' = [req EXCEPT ![r] = Answered(Seen(r, e, sent), e)]
    /\ UNCHANGED <<rows, next, pins, convs, admin>>

MaySameAgain(r, e) ==
    /\ Chat(r)
    /\ e = "transport"
    /\ req[r].resets < MaxResets
    /\ ~HasAlternative(r)

\* Mutant: the replay is free.
SameAgainFree(r, e, sent) ==
    /\ MayFail(r, e, sent) /\ ~MustStop(r, sent) /\ MaySameAgain(r, e)
    /\ req' = [req EXCEPT ![r] =
                  [Seen(r, e, sent) EXCEPT !.pc = "enter", !.account = req[r].chosen]]
    /\ UNCHANGED <<rows, next, pins, convs, admin>>

\* Nobody else to turn to: the same account once more, out of the same budget.
SameAgain(r, e, sent) ==
    /\ MayFail(r, e, sent) /\ ~MustStop(r, sent) /\ MaySameAgain(r, e)
    /\ req' = [req EXCEPT ![r] =
                  [Seen(r, e, sent) EXCEPT !.pc = "enter", !.account = req[r].chosen,
                                           !.resets = @ + 1, !.depth = @ + 1]]
    /\ UNCHANGED <<rows, next, pins, convs, admin>>

\* Another account may do better: release the session, ...
MoveAway(r, e, sent) ==
    /\ MayFail(r, e, sent) /\ ~MustStop(r, sent) /\ ~MaySameAgain(r, e)
    /\ MayMoveOn(r, e)
    /\ ForgetPin(r)
    /\ req' = [req EXCEPT ![r] = [Seen(r, e, sent) EXCEPT !.pc = "punish"]]
    /\ UNCHANGED <<rows, next, convs, admin>>

\* ... cool the account down, and look at the quotas of the others.
PunishAndLook(r) ==
    /\ At(r, "punish")
    /\ Punish(r, req[r].error)
    /\ LET e == req[r].error
           given == req[r].excluded \cup {req[r].chosen}
       IN  req' = [req EXCEPT ![r].pc = "reprobe", ![r].probing = Selectable(given),
                              ![r].excluded = given, ![r].account = None,
                              ![r].depth = @ + 1, ![r].outcome = e,
                              ![r].resets = IF Chat(r) /\ e = "transport" THEN @ + 1 ELSE @,
                              ![r].empties = IF Chat(r) /\ e = "empty" THEN @ + 1 ELSE @]
    /\ UNCHANGED <<next, pins, convs, admin>>

\* A bad token is renewed, once per request: the same account again.
Renewed(r, e, sent) ==
    /\ MayFail(r, e, sent) /\ ~MustStop(r, sent)
    /\ RefreshableError(r, e)
    /\ ~req[r].refreshed
    /\ req' = [req EXCEPT ![r] =
                  [Seen(r, e, sent) EXCEPT !.pc = "enter", !.account = req[r].chosen,
                                           !.refreshed = TRUE, !.depth = @ + 1]]
    /\ UNCHANGED <<rows, next, pins, convs, admin>>

\* Nothing left to try, or the token could not be renewed.
Reject(r, e, sent) ==
    /\ MayFail(r, e, sent) /\ ~MustStop(r, sent) /\ ~MaySameAgain(r, e)
    /\ ~MayMoveOn(r, e)
    /\ Punish(r, e)
    /\ req' = [req EXCEPT ![r] = Answered(Seen(r, e, sent), e)]
    /\ UNCHANGED <<next, pins, convs, admin>>

Fails(r, e, sent) ==
    \/ StopDelivered(r, e, sent) \/ SameAgain(r, e, sent) \/ MoveAway(r, e, sent)
    \/ Renewed(r, e, sent) \/ Reject(r, e, sent)

-----------------------------------------------------------------------------
(* The environment *)

\* An administrator disables, deletes or moves an account, or brings it back.
Switch(a) ==
    /\ admin < MaxAdmin
    /\ admin' = admin + 1
    /\ rows' = [rows EXCEPT ![a].usable = ~@]
    /\ UNCHANGED <<next, req, pins, convs>>

\* A pin has been idle for 45 minutes, or was evicted.
PinExpires(s) ==
    /\ pins[s] # None
    /\ pins' = [pins EXCEPT ![s] = None]
    /\ UNCHANGED <<rows, next, req, convs, admin>>

Clock == Tick /\ UNCHANGED <<req, pins, convs, admin>>

-----------------------------------------------------------------------------

\* What an earlier request, or an earlier run, left behind.
StartRow ==
    {FreshRow, WithQuota(FreshRow, 0)}
        \cup {[FreshRow EXCEPT !.models[m] = ShortCool] : m \in Models}

Init ==
    /\ rows \in [Accounts -> StartRow]
    /\ next = 1
    /\ req = [r \in Requests |-> NewRequest]
    /\ pins \in [Sessions -> Accounts \cup {None}]
    /\ convs = [s \in Sessions |-> None]
    /\ admin = 0

Choosing(r) ==
    \/ TooDeep(r) \/ LookupPin(r) \/ Unpin(r) \/ SkipPin(r)
    \/ LookAtQuotas(r) \/ ProbeDone(r)
    \/ \E a \in Accounts : ProbeAnswer(r, a)
    \/ SelectNamed(r) \/ DropNamed(r) \/ SelectAny(r)
    \/ TokenExpired(r) \/ Send(r)

Answering(r) ==
    \/ Succeeds(r) \/ Remember(r) \/ Canceled(r)
    \/ \E e \in Failures, sent \in BOOLEAN : Fails(r, e, sent)
    \/ PunishAndLook(r)

Arrive(r) ==
    \E kind \in Kinds, model \in Models \cup {NoModel},
       session \in Sessions \cup {NoSession}, account \in Bindings :
        Begin(r, kind, model, session, account)

Next ==
    \/ \E r \in Requests : Arrive(r) \/ Choosing(r) \/ Answering(r)
    \/ \E a \in Accounts : Switch(a)
    \/ \E s \in Sessions : PinExpires(s)
    \/ Clock

Spec == Init /\ [][Next]_vars

-----------------------------------------------------------------------------
(* Properties *)

\* Upstream answers or times out, and a handler goes on running; arrivals, the
\* administrator and the clock are under no duty.
FairSpec ==
    /\ Spec
    /\ \A r \in Requests : WF_vars(Choosing(r) \/ Answering(r))

PCs == {"idle", "enter", "unpin", "look", "probe", "select", "drop", "release", "token",
        "upstream", "remember", "punish", "reprobe", "done"}

RequestType ==
    [pc : PCs, kind : {"chat", "image", "search"}, model : Models \cup {NoModel},
     session : Sessions \cup {NoSession}, account : Accounts \cup {None}, fixed : BOOLEAN,
     excluded : SUBSET Accounts, probing : SUBSET Accounts,
     depth : 0..MaxRetries, resets : 0..MaxResets, empties : 0..1, refreshed : BOOLEAN,
     chosen : Accounts \cup {None}, bypass : BOOLEAN, error : Errors \cup {NoError},
     outcome : Outcomes \cup {NoError},
     sent : Nat, cuts : Nat, hollow : Nat, delivered : BOOLEAN]

TypeOK ==
    /\ rows \in [Accounts -> RowType]
    /\ next \in Accounts
    /\ req \in [Requests -> RequestType]
    /\ pins \in [Sessions -> Accounts \cup {None}]
    /\ convs \in [Sessions -> Accounts \cup {None}]
    /\ admin \in Nat

\* One chat request costs at most 16 calls upstream, of which at most 3 fail on
\* the way there and 2 come back empty, whatever it does in between: pins,
\* renewed tokens, the same account again.  (overview.md, failure handling.)
BudgetsHold ==
    \A r \in Requests : Chat(r) =>
        /\ req[r].sent <= MaxRetries
        /\ req[r].cuts <= MaxResets + 1
        /\ req[r].hollow <= 2

\* A request never goes back to an account it gave up, even when another
\* request of the session has pinned the session to it meanwhile.
GivenUpForGood ==
    \A r \in Requests :
        req[r].pc \in {"token", "upstream"} /\ ~req[r].fixed => req[r].chosen \notin req[r].excluded

\* A request bound to an account by its API key is served by it or not at all,
\* whatever fails.  (configuration.md: no silent fallback.)
BoundStays ==
    [][\A r \in Requests : req[r].fixed =>
          \/ req'[r].pc = "done"
          \/ req'[r].account = req[r].account /\ req'[r].chosen \in {None, req[r].account}]_vars

Selects(r) == At(r, "select") /\ req'[r].pc = "token"

\* A chat request that is not bound never takes an account that upstream limited
\* for its model, and takes one that is cooling down or exhausted only when it
\* has no other: pins, retries and the fallback included.
SelectionRespectsCooldowns ==
    [][\A r \in Requests :
          (Selects(r) /\ Chat(r) /\ ~req[r].fixed) =>
             LET m == req[r].model
                 a == req'[r].chosen
             IN  /\ ~ModelLimited(a, m)
                 /\ Until(a, m) > 0 =>
                       \A b \in Eligible(req[r].excluded) : Until(b, m) > 0]_vars

\* After these errors the same account may be tried again.
SameAccountNext(q) == q.error = "auth" \/ (q.kind = "chat" /\ q.error = "transport")

\* An error of the pool is all the client gets only for a reason.  When no
\* account is left, all that the request has not tried are limited for the model:
\* cooldowns alone never make the service unavailable.  And a request that was
\* upstream is answered with upstream's error, however many accounts, renewed
\* tokens and dropped pins later, unless the last thing it did was to try the
\* same account again.  (service.go:519, "do not mask the real upstream error")
TurnedAwayForCause ==
    [][\A r \in Requests : ~At(r, "done") /\ req'[r].pc = "done" =>
          /\ At(r, "select") /\ req[r].account = None =>
                \A a \in Eligible(req[r].excluded) : ModelLimited(a, req[r].model)
          /\ req'[r].outcome \in Exhausted => req[r].sent = 0 \/ SameAccountNext(req[r])]_vars

\* Once content has reached the client, the request is not sent again: what was
\* delivered cannot be taken back.  (overview.md:75)
DeliveredNotReplayed ==
    [][\A r \in Requests : req[r].delivered => req'[r].sent = req[r].sent]_vars

\* Every request is answered.
RequestsReturn == \A r \in Requests : At(r, "enter") ~> At(r, "done")

=============================================================================
