-------------------------- MODULE PoolRequestProofs --------------------------
(* Theorems about PoolRequest and the selection it is built on, for any number *)
(* of accounts and requests, any models, sessions, bindings and bounds.        *)
EXTENDS PoolRequest, WellFoundedInduction, TLAPS

-----------------------------------------------------------------------------
(* Greatest and smallest elements *)

\* Every set of numbers has a smallest one.
LEMMA SmallestOf ==
  ASSUME NEW S \in SUBSET Nat, S # {}
  PROVE  \E m \in S : \A n \in S : m <= n
<1> DEFINE R == {p \in Nat \X Nat : p[1] < p[2]}
<1>1. IsWellFoundedOn(R, Nat)
  <2>1. R = OpToRel(<, Nat) BY DEF OpToRel
  <2> QED BY <2>1, NatLessThanWellFounded
<1> HIDE DEF R
<1>2. PICK m \in S : \A n \in S : ~(<<n, m>> \in R)
  BY <1>1, WFMin
<1>3. \A n \in S : ~(n < m) BY <1>2 DEF R
<1> QED BY <1>3

\* The greater of two numbers, and of three.
LEMMA GreaterOf ==
  ASSUME NEW a \in Nat, NEW b \in Nat
  PROVE  Max({a, b}) \in {a, b} /\ Max({a, b}) >= a /\ Max({a, b}) >= b
<1>1. \E x \in {a, b} : \A y \in {a, b} : x >= y OBVIOUS
<1>2. Max({a, b}) \in {a, b} /\ \A y \in {a, b} : Max({a, b}) >= y BY <1>1 DEF Max
<1> QED BY <1>2

LEMMA GreatestOf ==
  ASSUME NEW a \in Nat, NEW b \in Nat, NEW c \in Nat
  PROVE  LET m == Max({a, b, c})
         IN  m \in {a, b, c} /\ m >= a /\ m >= b /\ m >= c
<1> DEFINE m == Max({a, b, c})
<1>1. \E x \in {a, b, c} : \A y \in {a, b, c} : x >= y OBVIOUS
<1>2. m \in {a, b, c} /\ \A y \in {a, b, c} : m >= y BY <1>1 DEF Max
<1> QED BY <1>2

-----------------------------------------------------------------------------
(* What Select returns *)

\* The deadline of an account for a model: no sooner than that of the model.
LEMMA UntilIsLast ==
  ASSUME rows \in [Accounts -> RowType], NEW a \in Accounts, NEW m \in Models \cup {NoModel}
  PROVE  /\ Until(a, m) \in Nat
         /\ ModelLimited(a, m) => Until(a, m) > 0
<1> DEFINE model == IF m = NoModel THEN 0 ELSE rows[a].models[m]
           quota == IF rows[a].quota = 0 THEN rows[a].reset ELSE 0
<1>1. rows[a].cool \in Nat /\ model \in Nat /\ quota \in Nat
  BY DEF RowType
<1> HIDE DEF model, quota
<1>2. LET u == Max({rows[a].cool, model, quota})
      IN  u \in {rows[a].cool, model, quota} /\ u >= model
  BY <1>1, GreatestOf
<1>3. Until(a, m) = Max({rows[a].cool, model, quota}) BY DEF Until, model, quota
<1>4. ModelLimited(a, m) => model > 0 BY DEF ModelLimited, model
<1> QED BY <1>1, <1>2, <1>3, <1>4

\* The rotation reaches one of the accounts first.
LEMMA FirstInTurn ==
  ASSUME NEW S \in SUBSET Accounts, S # {}, next \in Accounts
  PROVE  EarliestTurn(S) \in S
<1> DEFINE Turns == {Turn(a) : a \in S}
<1>1. \A a \in S : Turn(a) \in Nat
  BY PoolShape DEF Turn, Accounts
<1>2. Turns \in SUBSET Nat /\ Turns # {} BY <1>1
<1>3. PICK t \in Turns : \A u \in Turns : t <= u BY <1>2, SmallestOf
<1>4. PICK a \in S : Turn(a) = t BY <1>3
<1>5. \A b \in S : Turn(a) <= Turn(b) BY <1>3, <1>4
<1> QED BY <1>4, <1>5 DEF EarliestTurn

\* The richest account, if there is one, is a single one, and available.
LEMMA RichestIsFree ==
  ASSUME rows \in [Accounts -> RowType], NEW exclude, NEW m,
         Richest(exclude, m) # {}
  PROVE  LET a == Min(Richest(exclude, m))
         IN  a \in Eligible(exclude) /\ Until(a, m) = 0
<1> DEFINE known == {a \in Eligible(exclude) : Until(a, m) = 0 /\ rows[a].quota # Unknown}
           top == {a \in known : \A b \in known : rows[a].quota >= rows[b].quota}
           quotas == {rows[a].quota : a \in known}
<1>1. known # {} /\ Richest(exclude, m) = {Min(top)} BY DEF Richest
<1>2. known \subseteq Accounts BY DEF Eligible
<1>3. \A a \in known : rows[a].quota \in 0..MaxQuota BY <1>2 DEF RowType
<1>4. top # {}
  <2> DEFINE left == {MaxQuota - q : q \in quotas}
  <2>1. left \in SUBSET Nat /\ left # {} BY <1>1, <1>3, PoolShape
  <2>2. PICK least \in left : \A n \in left : least <= n BY <2>1, SmallestOf
  <2>3. PICK a \in known : least = MaxQuota - rows[a].quota BY <2>2
  <2>4. \A b \in known : MaxQuota - rows[a].quota <= MaxQuota - rows[b].quota BY <2>2, <2>3
  <2>5. \A b \in known : rows[a].quota >= rows[b].quota BY <2>3, <2>4, <1>3, PoolShape
  <2> QED BY <2>3, <2>5
<1>5. top \in SUBSET Nat BY <1>2 DEF Accounts
<1>6. \E x \in top : \A y \in top : x <= y BY <1>4, <1>5, SmallestOf
<1>7. Min(top) \in top BY <1>6 DEF Min
<1>8. Min({Min(top)}) = Min(top)
  <2>1. \E x \in {Min(top)} : \A y \in {Min(top)} : x <= y BY <1>5, <1>7
  <2> QED BY <2>1 DEF Min
<1> QED BY <1>1, <1>7, <1>8

\* An account that is chosen was eligible; it is free, or not limited for the
\* model when nobody is free.  Nobody is chosen only if all are limited.
LEMMA ChoiceIsSound ==
  ASSUME rows \in [Accounts -> RowType], next \in Accounts,
         NEW exclude, NEW m \in Models \cup {NoModel}
  PROVE  LET c == Choose(exclude, m) IN
         /\ c.account = None => \A a \in Eligible(exclude) : ModelLimited(a, m)
         /\ c.account # None =>
               /\ c.account \in Eligible(exclude)
               /\ ~ModelLimited(c.account, m)
               /\ Until(c.account, m) > 0 => \A a \in Eligible(exclude) : Until(a, m) > 0
         /\ c.bypass \in BOOLEAN
<1> DEFINE free == {a \in Eligible(exclude) : Until(a, m) = 0}
           blocked == Blocked(exclude, m)
           soonest == {a \in blocked : \A b \in blocked : Until(a, m) <= Until(b, m)}
           c == Choose(exclude, m)
<1>1. Eligible(exclude) \subseteq Accounts /\ blocked \subseteq Eligible(exclude)
  BY DEF Eligible, Blocked
<1>2. \A a \in Eligible(exclude) :
         Until(a, m) \in Nat /\ (ModelLimited(a, m) => Until(a, m) > 0)
  BY <1>1, UntilIsLast
<1>3. None \notin Accounts BY DEF None, Accounts
<1>4. CASE Richest(exclude, m) # {}
  <2>1. c = [account |-> Min(Richest(exclude, m)), bypass |-> FALSE] BY <1>4 DEF Choose
  <2>2. c.account \in Eligible(exclude) /\ Until(c.account, m) = 0
    BY <1>4, <2>1, RichestIsFree
  <2> QED BY <1>1, <1>2, <1>3, <2>1, <2>2
<1>5. CASE Richest(exclude, m) = {} /\ free # {}
  <2>1. c = [account |-> EarliestTurn(free), bypass |-> FALSE] BY <1>5 DEF Choose
  <2>2. EarliestTurn(free) \in free BY <1>1, <1>5, FirstInTurn
  <2> QED BY <1>1, <1>2, <1>3, <2>1, <2>2
<1>6. CASE Richest(exclude, m) = {} /\ free = {} /\ blocked # {}
  <2>1. c = [account |-> EarliestTurn(soonest), bypass |-> TRUE] BY <1>6 DEF Choose
  <2>2. soonest # {}
    <3> DEFINE ends == {Until(a, m) : a \in blocked}
    <3>1. ends \in SUBSET Nat /\ ends # {} BY <1>1, <1>2, <1>6
    <3>2. PICK e \in ends : \A f \in ends : e <= f BY <3>1, SmallestOf
    <3> QED BY <3>2
  <2>3. EarliestTurn(soonest) \in soonest
    <3>1. soonest \in SUBSET Accounts BY <1>1
    <3> QED BY <2>2, <3>1, FirstInTurn
  <2>4. ~ModelLimited(EarliestTurn(soonest), m) BY <2>3 DEF Blocked
  <2>5. \A a \in Eligible(exclude) : Until(a, m) > 0 BY <1>2, <1>6
  <2> QED BY <1>1, <1>3, <2>1, <2>3, <2>4, <2>5
<1>7. CASE Richest(exclude, m) = {} /\ free = {} /\ blocked = {}
  <2>1. c = [account |-> None, bypass |-> FALSE] BY <1>7 DEF Choose
  <2>2. \A a \in Eligible(exclude) : Until(a, m) > 0 BY <1>2, <1>7
  <2>3. \A a \in Eligible(exclude) : ModelLimited(a, m) BY <1>7, <2>2 DEF Blocked
  <2> QED BY <2>1, <2>3
<1> QED BY <1>4, <1>5, <1>6, <1>7

-----------------------------------------------------------------------------
(* The rows of accounts *)

LEMMA WithQuotaType ==
  ASSUME NEW row \in RowType, NEW q \in 0..MaxQuota
  PROVE  WithQuota(row, q) \in RowType
<1> DEFINE reset == IF q = 0 THEN LongCool ELSE 0
<1>1. reset \in Nat /\ row.cool \in Nat BY PoolShape DEF RowType
<1>2. Max({row.cool, reset}) \in Nat BY <1>1, GreaterOf
<1>3. WithQuota(row, q) = [row EXCEPT !.quota = q, !.reset = reset, !.cool = Max({row.cool, reset})]
  BY DEF WithQuota
<1> QED BY <1>1, <1>2, <1>3 DEF RowType

LEMMA CooledType ==
  ASSUME NEW row \in RowType, NEW m \in Models \cup {NoModel}, NEW ticks \in Nat,
         NEW modelOnly \in BOOLEAN
  PROVE  Cooled(row, m, ticks, modelOnly) \in RowType
  BY DEF Cooled, RowType

LEMMA MarkOkType ==
  ASSUME rows \in [Accounts -> RowType], NEW a \in Accounts, NEW m, NEW bypass \in BOOLEAN,
         MarkOk(a, m, bypass)
  PROVE  rows' \in [Accounts -> RowType]
<1> DEFINE models == [n \in Models |-> IF n = m THEN 0 ELSE rows[a].models[n]]
           row == [rows[a] EXCEPT !.cool = 0, !.models = models,
                                  !.quota = IF bypass THEN Unknown ELSE rows[a].quota,
                                  !.reset = IF bypass THEN 0 ELSE rows[a].reset]
<1>1. rows[a] \in RowType OBVIOUS
<1>2. models \in [Models -> Nat] BY <1>1 DEF RowType
<1> HIDE DEF models
<1>3. row \in RowType BY <1>1, <1>2 DEF RowType
<1>4. rows' = [rows EXCEPT ![a] = row] BY DEF MarkOk, models
<1> HIDE DEF row
<1> QED BY <1>3, <1>4

LEMMA PunishType ==
  ASSUME rows \in [Accounts -> RowType], NEW r \in Requests, NEW e,
         req[r].chosen \in Accounts, req[r].model \in Models \cup {NoModel},
         Punish(r, e)
  PROVE  rows' \in [Accounts -> RowType]
<1> DEFINE a == req[r].chosen
           row == rows[a]
<1>1. row \in RowType OBVIOUS
<1>2. ShortCool \in Nat /\ LongCool \in Nat BY PoolShape
<1>3. CASE e \in {"busy", "model", "policy"}
  <2>1. rows' = [rows EXCEPT ![a] = Cooled(row, req[r].model, ShortCool, e = "model")]
    BY <1>3 DEF Punish
  <2>2. Cooled(row, req[r].model, ShortCool, e = "model") \in RowType
    BY <1>1, <1>2, CooledType
  <2> QED BY <2>1, <2>2
<1>4. CASE e = "quota"
  <2>1. PICK base \in {0, ShortCool} :
          \/ rows' = [rows EXCEPT ![a] = Cooled(row, req[r].model, base, FALSE)]
          \/ \E q \in 0..MaxQuota :
                rows' = [rows EXCEPT ![a] =
                   Cooled(WithQuota(row, q), req[r].model,
                          IF q = 0 THEN Max({base, LongCool}) ELSE base, FALSE)]
    BY <1>4 DEF Punish
  <2>2. base \in Nat BY <1>2
  <2>3. Cooled(row, req[r].model, base, FALSE) \in RowType BY <1>1, <2>2, CooledType
  <2>4. ASSUME NEW q \in 0..MaxQuota
        PROVE  Cooled(WithQuota(row, q), req[r].model,
                      IF q = 0 THEN Max({base, LongCool}) ELSE base, FALSE) \in RowType
    <3>1. WithQuota(row, q) \in RowType BY <1>1, WithQuotaType
    <3>2. (IF q = 0 THEN Max({base, LongCool}) ELSE base) \in Nat BY <1>2, <2>2, GreaterOf
    <3> QED BY <3>1, <3>2, CooledType
  <2> QED BY <2>1, <2>3, <2>4
<1>5. CASE e \notin {"busy", "model", "policy", "quota"}
  BY <1>5 DEF Punish
<1> QED BY <1>3, <1>4, <1>5

LEMMA TickType ==
  ASSUME rows \in [Accounts -> RowType], Tick
  PROVE  rows' \in [Accounts -> RowType]
<1> DEFINE Less(n) == IF n = 0 THEN 0 ELSE n - 1
<1>1. \A n \in Nat : Less(n) \in Nat OBVIOUS
<1>2. \A a \in Accounts :
        [rows[a] EXCEPT !.cool = Less(@), !.reset = Less(@),
                        !.models = [m \in Models |-> Less(@[m])]] \in RowType
  BY <1>1 DEF RowType
<1>3. rows' = [a \in Accounts |->
        [rows[a] EXCEPT !.cool = Less(@), !.reset = Less(@),
                        !.models = [m \in Models |-> Less(@[m])]]]
  BY DEF Tick
<1> QED BY <1>2, <1>3

-----------------------------------------------------------------------------
(* The invariant, of each request by itself *)

\* Past the check of the depth and before the next retry is counted.
Inside == {"unpin", "look", "probe", "select", "drop", "release", "token", "upstream",
           "remember", "punish"}
Holding == {"token", "upstream", "remember", "punish"}

FreshOK(q) == q.pc = "idle" => q = NewRequest
DepthOK(q) == q.pc \in Inside => q.depth < MaxRetries

\* What a request costs is covered by the retries it has counted, but for the
\* call that is under way or has just failed.
SentOK(q) ==
    IF q.pc = "done" THEN q.sent <= MaxRetries
    ELSE q.sent <= q.depth + IF q.pc \in {"upstream", "remember", "punish"} THEN 1 ELSE 0

FailedNow(q, e) == q.pc = "punish" /\ q.error = e

CutsOK(q) ==
    q.kind = "chat" =>
        IF q.pc = "done" THEN q.cuts <= MaxResets + 1
        ELSE q.cuts <= q.resets + IF FailedNow(q, "transport") THEN 1 ELSE 0

HollowOK(q) ==
    q.kind = "chat" =>
        IF q.pc = "done" THEN q.hollow <= 2
        ELSE q.hollow <= q.empties + IF FailedNow(q, "empty") THEN 1 ELSE 0

\* A request that gives its account up may: it is not bound, and its budget
\* allows it.
PunishOK(q) ==
    /\ FailedNow(q, "transport") => q.resets < MaxResets
    /\ FailedNow(q, "empty") => q.empties = 0
    /\ q.pc = "punish" => q.error \in Errors

BoundOK(q) ==
    q.fixed => /\ q.pc \in {"enter", "select", "token", "upstream", "remember"}
               /\ q.account # None
               /\ q.chosen \in {None, q.account}

\* The account it is on, or is about to take, is one it has not given up.
GivenUpOK(q) ==
    /\ q.pc \in Holding => q.chosen \in Accounts
    /\ ~q.fixed => /\ q.pc \in {"enter", "select", "drop", "release"} /\ q.account # None
                         => q.account \notin q.excluded
                   /\ q.pc \in Holding => q.chosen \notin q.excluded

\* Whether an account is named, by where the request is.
NamedOK(q) == /\ q.pc \in {"drop", "release"} => q.account # None
              /\ q.pc \in {"unpin", "look", "probe", "reprobe"} => q.account = None

\* Only searches, where there are any, go on after they have delivered content.
DeliveredOK(q) == /\ q.kind \in Kinds \cup {"chat"}
                  /\ q.delivered => q.kind = "search" \/ q.pc = "done"

RequestInv(q) ==
    /\ q \in RequestType
    /\ FreshOK(q) /\ DepthOK(q) /\ SentOK(q) /\ CutsOK(q) /\ HollowOK(q) /\ PunishOK(q)
    /\ BoundOK(q) /\ GivenUpOK(q) /\ NamedOK(q) /\ DeliveredOK(q)

PoolInv == /\ rows \in [Accounts -> RowType]
           /\ next \in Accounts
           /\ pins \in [Sessions -> Accounts \cup {None}]
           /\ convs \in [Sessions -> Accounts \cup {None}]
           /\ admin \in Nat

RequestsInv == /\ PoolInv
               /\ req = [r \in Requests |-> req[r]]
               /\ \A r \in Requests : RequestInv(req[r])

-----------------------------------------------------------------------------
(* Where a step leaves its request *)

LEMMA OneMoves ==
  ASSUME RequestsInv, NEW r \in Requests, NEW q, RequestInv(q),
         req' = [req EXCEPT ![r] = q], PoolInv'
  PROVE  RequestsInv'
<1>1. req' = [s \in Requests |-> req'[s]] BY DEF RequestsInv
<1>2. \A s \in Requests : req'[s] = IF s = r THEN q ELSE req[s] BY DEF RequestsInv
<1>3. \A s \in Requests : RequestInv(req'[s]) BY <1>2 DEF RequestsInv
<1> QED BY <1>1, <1>3 DEF RequestsInv

\* An answer keeps nothing but what the request has cost.
LEMMA AnsweredInv ==
  ASSUME NEW q \in RequestType, NEW outcome \in Outcomes, q.sent <= MaxRetries,
         q.kind \in Kinds \cup {"chat"},
         q.kind = "chat" => q.cuts <= MaxResets + 1 /\ q.hollow <= 2
  PROVE  RequestInv(Answered(q, outcome))
<1> DEFINE p == Answered(q, outcome)
<1>1. p \in RequestType
  <2> DEFINE o == IF outcome \in Exhausted /\ q.outcome # NoError THEN q.outcome ELSE outcome
  <2>1. o \in Outcomes \cup {NoError} BY DEF RequestType
  <2>2. NewRequest \in RequestType
    BY RequestShape, PoolShape DEF NewRequest, RequestType, PCs
  <2>3. p = [NewRequest EXCEPT !.pc = "done", !.kind = q.kind, !.sent = q.sent, !.cuts = q.cuts,
                               !.hollow = q.hollow, !.delivered = q.delivered, !.outcome = o]
    BY DEF Answered
  <2>4. "done" \in PCs BY DEF PCs
  <2> HIDE DEF o, p
  <2> QED BY <2>1, <2>2, <2>3, <2>4 DEF RequestType
<1>2. /\ p.pc = "done" /\ ~p.fixed /\ p.account = None
      /\ p.kind = q.kind /\ p.sent = q.sent /\ p.cuts = q.cuts /\ p.hollow = q.hollow
  BY DEF Answered, NewRequest
<1> HIDE DEF p
<1>3. SentOK(p) /\ CutsOK(p) /\ HollowOK(p) BY <1>2 DEF SentOK, CutsOK, HollowOK
<1>4. FreshOK(p) /\ DepthOK(p) /\ PunishOK(p) /\ NamedOK(p) BY <1>2
  DEF FreshOK, DepthOK, PunishOK, NamedOK, FailedNow, Inside
<1>5. BoundOK(p) /\ GivenUpOK(p) /\ DeliveredOK(p) BY <1>2
  DEF BoundOK, GivenUpOK, DeliveredOK, Holding
<1>6. RequestInv(p) BY <1>1, <1>3, <1>4, <1>5 DEF RequestInv
<1> QED BY <1>6 DEF p

\* A request that is under way can be answered at any point.
LEMMA AnsweringInv ==
  ASSUME NEW q, RequestInv(q), q.pc \notin {"idle", "done"}, NEW outcome \in Outcomes
  PROVE  RequestInv(Answered(q, outcome))
<1>1. q \in RequestType BY DEF RequestInv
<1>2. q.sent <= MaxRetries
  BY <1>1, RequestShape DEF RequestInv, SentOK, DepthOK, Inside, RequestType, PCs
<1>3. q.kind = "chat" => q.cuts <= MaxResets + 1
  BY <1>1, RequestShape DEF RequestInv, CutsOK, RequestType
<1>4. q.kind = "chat" => q.hollow <= 2
  BY <1>1, RequestShape DEF RequestInv, HollowOK, RequestType
<1>5. q.kind \in Kinds \cup {"chat"} BY DEF RequestInv, DeliveredOK
<1> QED BY <1>1, <1>2, <1>3, <1>4, <1>5, AnsweredInv

\* A step that is neither to nor from a call upstream leaves the costs alone.
Aside == PCs \ {"idle", "done", "upstream", "remember", "punish"}

LEMMA AsideInv ==
  ASSUME NEW q, RequestInv(q), q.pc \in Aside,
         NEW p, p \in RequestType, p.pc \in Aside, p.depth >= q.depth,
         p.pc \in Inside => p.depth < MaxRetries,
         p.kind = q.kind, p.fixed = q.fixed, p.delivered = q.delivered,
         p.resets = q.resets, p.empties = q.empties,
         p.sent = q.sent, p.cuts = q.cuts, p.hollow = q.hollow,
         BoundOK(p), GivenUpOK(p), NamedOK(p)
  PROVE  RequestInv(p)
<1>1. q \in RequestType BY DEF RequestInv
<1>2. SentOK(p) BY <1>1, RequestShape DEF RequestInv, SentOK, Aside, RequestType
<1>3. CutsOK(p) BY <1>1 DEF RequestInv, CutsOK, FailedNow, Aside, RequestType
<1>4. HollowOK(p) BY <1>1 DEF RequestInv, HollowOK, FailedNow, Aside, RequestType
<1>5. FreshOK(p) /\ DepthOK(p) /\ PunishOK(p)
  BY DEF FreshOK, DepthOK, PunishOK, FailedNow, Aside
<1>6. DeliveredOK(p) BY DEF RequestInv, DeliveredOK, Aside
<1> QED BY <1>2, <1>3, <1>4, <1>5, <1>6 DEF RequestInv

\* Only the place changes.
LEMMA GotoInv ==
  ASSUME RequestsInv, NEW r \in Requests, NEW pc \in Aside \ Holding, Goto(r, pc), PoolInv',
         req[r].pc \in Aside, pc \in Inside => req[r].depth < MaxRetries,
         req[r].fixed => pc \in {"enter", "select"},
         pc \in {"drop", "release"} => req[r].account # None,
         pc \in {"unpin", "look", "probe", "reprobe"} => req[r].account = None,
         ~req[r].fixed /\ pc \in {"enter", "select", "drop", "release"} /\ req[r].account # None
             => req[r].account \notin req[r].excluded
  PROVE  RequestsInv'
<1> DEFINE q == req[r]
           p == [q EXCEPT !.pc = pc]
<1>1. RequestInv(q) /\ q \in RequestType BY DEF RequestsInv, RequestInv
<1>2. req' = [req EXCEPT ![r] = p] BY DEF Goto
<1>3. p \in RequestType
  <2>1. pc \in PCs BY DEF Aside
  <2> QED BY <1>1, <2>1 DEF RequestType
<1>4. /\ p.pc = pc /\ p.account = q.account /\ p.kind = q.kind /\ p.fixed = q.fixed
      /\ p.delivered = q.delivered /\ p.resets = q.resets /\ p.empties = q.empties
      /\ p.sent = q.sent /\ p.cuts = q.cuts /\ p.hollow = q.hollow
      /\ p.depth = q.depth /\ p.excluded = q.excluded /\ p.chosen = q.chosen
  BY <1>1 DEF RequestType
<1> HIDE DEF p
<1>5. BoundOK(p) BY <1>1, <1>4 DEF RequestInv, BoundOK
<1>6. GivenUpOK(p) /\ NamedOK(p) BY <1>4 DEF GivenUpOK, NamedOK
<1>7. q.depth \in Int BY <1>1 DEF RequestType
<1>8. RequestInv(p) BY <1>1, <1>3, <1>4, <1>5, <1>6, <1>7, AsideInv
<1> QED BY <1>2, <1>8, OneMoves

\* To the selection, by way of the quotas for a new request.
LEMMA GotoSelectInv ==
  ASSUME RequestsInv, NEW r \in Requests, GotoSelect(r), PoolInv',
         req[r].pc \in Aside, req[r].depth < MaxRetries,
         ~req[r].fixed /\ req[r].account # None => req[r].account \notin req[r].excluded
  PROVE  RequestsInv'
<1>1. RequestInv(req[r]) BY DEF RequestsInv
<1>2. {"look", "select"} \subseteq Aside \ Holding BY DEF Aside, PCs, Holding
<1>3. CASE req[r].account = None /\ req[r].depth = 0
  <2>1. ~req[r].fixed BY <1>1, <1>3 DEF RequestInv, BoundOK
  <2>2. Goto(r, "look") BY <1>3 DEF GotoSelect
  <2> QED BY <1>2, <1>3, <2>1, <2>2, GotoInv
<1>4. CASE ~(req[r].account = None /\ req[r].depth = 0)
  <2>1. Goto(r, "select") BY <1>4 DEF GotoSelect
  <2> QED BY <1>2, <2>1, GotoInv
<1> QED BY <1>3, <1>4

-----------------------------------------------------------------------------
(* Choosing an account, step by step *)

LEMMA TooDeepInv ==
  ASSUME RequestsInv, NEW r \in Requests, TooDeep(r)
  PROVE  RequestsInv'
<1>1. RequestInv(req[r]) BY DEF RequestsInv
<1>2. RequestInv(Answered(req[r], "depth"))
  BY <1>1, AnsweringInv DEF TooDeep, At, Outcomes, Exhausted
<1>3. PoolInv' BY DEF TooDeep, PoolInv, RequestsInv
<1> QED BY <1>2, <1>3, OneMoves DEF TooDeep, Answer

LEMMA LookupPinInv ==
  ASSUME RequestsInv, NEW r \in Requests, LookupPin(r)
  PROVE  RequestsInv'
<1> DEFINE q == req[r]
<1>0. RequestInv(q) /\ q \in RequestType BY DEF RequestsInv, RequestInv
<1>1. PoolInv' BY DEF LookupPin, PoolInv, RequestsInv
<1>2. /\ q.pc = "enter" /\ q.depth < MaxRetries /\ q.account = None
      /\ pins[q.session] # None /\ q.session \in Sessions
  BY <1>0 DEF LookupPin, Pinned, Keyed, Chat, At, RequestType
<1>3. pins[q.session] \in Accounts BY <1>2 DEF RequestsInv, PoolInv
<1>4. ~q.fixed BY <1>0, <1>2 DEF RequestInv, BoundOK
<1>5. {"enter", "select", "unpin"} \subseteq Aside /\ {"select", "unpin"} \subseteq PCs BY DEF Aside, PCs
<1>6. CASE pins[q.session] \notin q.excluded
  <2> DEFINE a == pins[q.session]
             p == [q EXCEPT !.account = a, !.pc = "select"]
  <2>1. req' = [req EXCEPT ![r] = p] BY <1>6 DEF LookupPin
  <2>2. a \in Accounts /\ a # None /\ a \notin q.excluded BY <1>2, <1>3, <1>6
  <2> HIDE DEF a
  <2>3. p \in RequestType BY <1>0, <2>2, <1>5 DEF RequestType
  <2>4. /\ p.pc = "select" /\ p.account = a /\ p.kind = q.kind /\ p.fixed = q.fixed
        /\ p.delivered = q.delivered /\ p.resets = q.resets /\ p.empties = q.empties
        /\ p.sent = q.sent /\ p.cuts = q.cuts /\ p.hollow = q.hollow
        /\ p.depth = q.depth /\ p.excluded = q.excluded
    BY <1>0 DEF RequestType
  <2> HIDE DEF p
  <2>5. BoundOK(p) /\ GivenUpOK(p) /\ NamedOK(p)
    BY <1>4, <2>2, <2>4 DEF BoundOK, GivenUpOK, NamedOK, Holding
  <2>6. q.depth \in Int BY <1>0 DEF RequestType
  <2>7. RequestInv(p) BY <1>0, <1>2, <1>5, <2>3, <2>4, <2>5, <2>6, AsideInv
  <2> QED BY <1>1, <2>1, <2>7, OneMoves
<1>7. CASE pins[q.session] \in q.excluded
  <2>1. Goto(r, "unpin") BY <1>7 DEF LookupPin
  <2> QED BY <1>0, <1>1, <1>2, <1>4, <1>5, <2>1, GotoInv DEF Holding
<1> QED BY <1>6, <1>7

LEMMA UnpinInv ==
  ASSUME RequestsInv, NEW r \in Requests, Unpin(r)
  PROVE  RequestsInv'
<1>1. RequestInv(req[r]) /\ req[r] \in RequestType BY DEF RequestsInv, RequestInv
<1>2. req[r].pc = "unpin" BY DEF Unpin, At
<1>3. req[r].pc \in Aside /\ req[r].pc \in Inside BY <1>2 DEF Aside, PCs, Inside
<1>4. req[r].depth < MaxRetries BY <1>1, <1>3 DEF RequestInv, DepthOK
<1>5. req[r].account = None BY <1>1, <1>2 DEF RequestInv, NamedOK
<1>6. PoolInv' BY DEF Unpin, ForgetPin, SetPin, PoolInv, RequestsInv
<1> QED BY <1>3, <1>4, <1>5, <1>6, GotoSelectInv DEF Unpin

LEMMA SkipPinInv ==
  ASSUME RequestsInv, NEW r \in Requests, SkipPin(r)
  PROVE  RequestsInv'
<1>1. RequestInv(req[r]) BY DEF RequestsInv
<1>2. req[r].pc = "enter" /\ req[r].depth < MaxRetries BY DEF SkipPin, At
<1>3. req[r].pc \in Aside BY <1>2 DEF Aside, PCs
<1>4. ~req[r].fixed /\ req[r].account # None => req[r].account \notin req[r].excluded
  BY <1>1, <1>2 DEF RequestInv, GivenUpOK
<1>5. PoolInv' BY DEF SkipPin, PoolInv, RequestsInv
<1> QED BY <1>2, <1>3, <1>4, <1>5, GotoSelectInv DEF SkipPin

LEMMA LookAtQuotasInv ==
  ASSUME RequestsInv, NEW r \in Requests, LookAtQuotas(r)
  PROVE  RequestsInv'
<1> DEFINE q == req[r]
<1>1. RequestInv(q) /\ q \in RequestType BY DEF RequestsInv, RequestInv
<1>2. PICK probing \in SUBSET Accounts :
        req' = [req EXCEPT ![r].pc = "probe", ![r].probing = probing]
  <2>1. Selectable(q.excluded) \subseteq Accounts BY DEF Selectable, Eligible
  <2> QED BY <2>1 DEF LookAtQuotas
<1> DEFINE p == [q EXCEPT !.pc = "probe", !.probing = probing]
<1>3. q.pc = "look" BY DEF LookAtQuotas, At
<1>4. q.depth < MaxRetries /\ ~q.fixed /\ q.account = None
  BY <1>1, <1>3 DEF RequestInv, DepthOK, BoundOK, NamedOK, Inside
<1>5. {"look", "probe"} \subseteq Aside /\ "probe" \in PCs BY DEF Aside, PCs
<1>6. p \in RequestType BY <1>1, <1>5 DEF RequestType
<1>7. /\ p.pc = "probe" /\ p.account = q.account /\ p.kind = q.kind /\ p.fixed = q.fixed
      /\ p.delivered = q.delivered /\ p.resets = q.resets /\ p.empties = q.empties
      /\ p.sent = q.sent /\ p.cuts = q.cuts /\ p.hollow = q.hollow /\ p.depth = q.depth
  BY <1>1 DEF RequestType
<1>8. req' = [req EXCEPT ![r] = p] BY <1>2
<1> HIDE DEF p
<1>9. BoundOK(p) /\ GivenUpOK(p) /\ NamedOK(p)
  BY <1>4, <1>7 DEF BoundOK, GivenUpOK, NamedOK, Holding
<1>10. q.depth \in Int BY <1>1 DEF RequestType
<1>11. RequestInv(p) BY <1>1, <1>3, <1>4, <1>5, <1>6, <1>7, <1>9, <1>10, AsideInv
<1>12. PoolInv' BY DEF LookAtQuotas, PoolInv, RequestsInv
<1> QED BY <1>8, <1>11, <1>12, OneMoves

LEMMA ProbeAnswerInv ==
  ASSUME RequestsInv, NEW r \in Requests, NEW a \in Accounts, ProbeAnswer(r, a)
  PROVE  RequestsInv'
<1> DEFINE q == req[r]
           p == [q EXCEPT !.probing = @ \ {a}]
<1>1. RequestInv(q) /\ q \in RequestType BY DEF RequestsInv, RequestInv
<1>2. p \in RequestType BY <1>1 DEF RequestType
<1>3. /\ p.pc = q.pc /\ p.account = q.account /\ p.kind = q.kind /\ p.fixed = q.fixed
      /\ p.delivered = q.delivered /\ p.resets = q.resets /\ p.empties = q.empties
      /\ p.sent = q.sent /\ p.cuts = q.cuts /\ p.hollow = q.hollow /\ p.depth = q.depth
      /\ p.chosen = q.chosen /\ p.excluded = q.excluded /\ p.error = q.error
  BY <1>1 DEF RequestType
<1>4. req' = [req EXCEPT ![r] = p] BY DEF ProbeAnswer
<1> HIDE DEF p
<1>5. q.pc # "idle" BY <1>1 DEF RequestInv, FreshOK, NewRequest, ProbeAnswer
<1>6. FreshOK(p) /\ DepthOK(p) /\ SentOK(p) /\ CutsOK(p) /\ HollowOK(p) /\ PunishOK(p)
  BY <1>1, <1>3, <1>5 DEF RequestInv, FreshOK, DepthOK, SentOK, CutsOK, HollowOK, PunishOK, FailedNow
<1>7. BoundOK(p) /\ GivenUpOK(p) /\ NamedOK(p) /\ DeliveredOK(p)
  BY <1>1, <1>3 DEF RequestInv, BoundOK, GivenUpOK, NamedOK, DeliveredOK
<1>8. RequestInv(p) BY <1>2, <1>6, <1>7 DEF RequestInv
<1>9. PoolInv'
  <2>1. rows' \in [Accounts -> RowType]
    <3>1. CASE UNCHANGED rows BY <3>1 DEF RequestsInv, PoolInv
    <3>2. CASE \E quota \in 0..MaxQuota : rows' = [rows EXCEPT ![a] = WithQuota(@, quota)]
      <4>1. PICK quota \in 0..MaxQuota : rows' = [rows EXCEPT ![a] = WithQuota(rows[a], quota)]
        BY <3>2
      <4>2. rows \in [Accounts -> RowType] BY DEF RequestsInv, PoolInv
      <4>3. WithQuota(rows[a], quota) \in RowType BY <4>2, WithQuotaType
      <4> QED BY <4>1, <4>2, <4>3
    <3> QED BY <3>1, <3>2 DEF ProbeAnswer
  <2> QED BY <2>1 DEF ProbeAnswer, PoolInv, RequestsInv
<1> QED BY <1>4, <1>8, <1>9, OneMoves

LEMMA ProbeDoneInv ==
  ASSUME RequestsInv, NEW r \in Requests, ProbeDone(r)
  PROVE  RequestsInv'
<1> DEFINE q == req[r]
<1>1. RequestInv(q) BY DEF RequestsInv
<1>2. PoolInv' BY DEF ProbeDone, PoolInv, RequestsInv
<1>3. {"probe", "reprobe"} \subseteq Aside /\ {"enter", "select"} \subseteq Aside \ Holding
  BY DEF Aside, PCs, Holding
<1>4. CASE q.pc = "probe" /\ Goto(r, "select")
  <2>1. q.depth < MaxRetries /\ q.account = None
    BY <1>1, <1>4 DEF RequestInv, DepthOK, Inside, NamedOK
  <2> QED BY <1>2, <1>3, <1>4, <2>1, GotoInv
<1>5. CASE q.pc = "reprobe" /\ Goto(r, "enter")
  <2>1. q.account = None BY <1>1, <1>5 DEF RequestInv, NamedOK
  <2> QED BY <1>2, <1>3, <1>5, <2>1, GotoInv DEF Inside
<1> QED BY <1>4, <1>5 DEF ProbeDone, At

LEMMA SelectNamedInv ==
  ASSUME RequestsInv, NEW r \in Requests, SelectNamed(r)
  PROVE  RequestsInv'
<1> DEFINE q == req[r]
           a == q.account
           soft == Chat(r) /\ ~q.fixed
           cooling == soft /\ Until(a, q.model) > 0
<1>1. RequestInv(q) /\ q \in RequestType BY DEF RequestsInv, RequestInv
<1>2. PoolInv' BY DEF SelectNamed, PoolInv, RequestsInv
<1>3. q.pc = "select" /\ a # None BY DEF SelectNamed, At
<1>4. a \in Accounts BY <1>1, <1>3 DEF RequestType
<1>5. q.depth < MaxRetries BY <1>1, <1>3 DEF RequestInv, DepthOK, Inside
<1>6. ~q.fixed => a \notin q.excluded BY <1>1, <1>3 DEF RequestInv, GivenUpOK
<1>7. {"select", "token"} \subseteq Aside /\ {"drop", "release"} \subseteq Aside \ Holding
      /\ "token" \in PCs
  BY DEF Aside, PCs, Holding
<1>8. CASE req' = [req EXCEPT ![r].pc = "token", ![r].chosen = a, ![r].bypass = FALSE]
  <2> DEFINE p == [q EXCEPT !.pc = "token", !.chosen = a, !.bypass = FALSE]
  <2>1. req' = [req EXCEPT ![r] = p] BY <1>8
  <2> HIDE DEF a
  <2>2. p \in RequestType BY <1>1, <1>4, <1>7 DEF RequestType
  <2>3. /\ p.pc = "token" /\ p.account = q.account /\ p.kind = q.kind /\ p.fixed = q.fixed
        /\ p.delivered = q.delivered /\ p.resets = q.resets /\ p.empties = q.empties
        /\ p.sent = q.sent /\ p.cuts = q.cuts /\ p.hollow = q.hollow /\ p.depth = q.depth
        /\ p.chosen = a /\ p.excluded = q.excluded
    BY <1>1 DEF RequestType
  <2> HIDE DEF p
  <2>4. BoundOK(p) /\ GivenUpOK(p) /\ NamedOK(p)
    BY <1>3, <1>4, <1>6, <2>3 DEF BoundOK, GivenUpOK, NamedOK, a
  <2>5. q.depth \in Int BY <1>1 DEF RequestType
  <2>6. RequestInv(p) BY <1>1, <1>3, <1>5, <1>7, <2>2, <2>3, <2>4, <2>5, AsideInv
  <2> QED BY <1>2, <2>1, <2>6, OneMoves
<1>9. CASE ~q.fixed /\ (Goto(r, "drop") \/ Goto(r, "release"))
  BY <1>2, <1>3, <1>5, <1>6, <1>7, <1>9, GotoInv
<1>10. CASE Answer(r, "unusable")
  <2>1. RequestInv(Answered(q, "unusable")) BY <1>1, <1>3, AnsweringInv DEF Outcomes
  <2> QED BY <1>2, <1>10, <2>1, OneMoves DEF Answer
<1> QED BY <1>8, <1>9, <1>10 DEF SelectNamed

LEMMA DropNamedInv ==
  ASSUME RequestsInv, NEW r \in Requests, DropNamed(r)
  PROVE  RequestsInv'
<1> DEFINE q == req[r]
           given == IF q.pc = "drop" THEN q.excluded \cup {q.account} ELSE q.excluded
           d == q.depth + 1
           p == [q EXCEPT !.pc = "enter", !.account = None, !.depth = d, !.excluded = given]
<1>1. RequestInv(q) /\ q \in RequestType BY DEF RequestsInv, RequestInv
<1>2. PoolInv' BY DEF DropNamed, ForgetPin, SetPin, PoolInv, RequestsInv
<1>3. q.pc \in {"drop", "release"} BY DEF DropNamed, At
<1>4. q.account \in Accounts BY <1>1, <1>3 DEF RequestInv, NamedOK, RequestType
<1>5. q.depth \in Nat /\ q.depth < MaxRetries /\ ~q.fixed
  BY <1>1, <1>3 DEF RequestInv, DepthOK, Inside, BoundOK, RequestType
<1>6. d \in 0..MaxRetries BY <1>5, RequestShape
<1>7. given \in SUBSET Accounts BY <1>1, <1>4 DEF RequestType
<1>8. {"drop", "release", "enter"} \subseteq Aside /\ "enter" \in PCs BY DEF Aside, PCs
<1>9. req' = [req EXCEPT ![r] = p] BY DEF DropNamed, At
<1> HIDE DEF given
<1>10. p \in RequestType
  <2> HIDE DEF d
  <2> QED BY <1>1, <1>6, <1>7, <1>8 DEF RequestType
<1>11. /\ p.pc = "enter" /\ p.account = None /\ p.kind = q.kind /\ p.fixed = q.fixed
      /\ p.delivered = q.delivered /\ p.resets = q.resets /\ p.empties = q.empties
      /\ p.sent = q.sent /\ p.cuts = q.cuts /\ p.hollow = q.hollow /\ p.depth = d
  BY <1>1 DEF RequestType
<1> HIDE DEF p
<1>12. BoundOK(p) /\ GivenUpOK(p) /\ NamedOK(p)
  BY <1>5, <1>11 DEF BoundOK, GivenUpOK, NamedOK, Holding
<1>13. RequestInv(p)
  BY <1>1, <1>3, <1>5, <1>8, <1>10, <1>11, <1>12, AsideInv DEF Inside
<1> QED BY <1>2, <1>9, <1>13, OneMoves

LEMMA SelectAnyInv ==
  ASSUME RequestsInv, NEW r \in Requests, SelectAny(r)
  PROVE  RequestsInv'
<1> DEFINE q == req[r]
           c == Choose(q.excluded, q.model)
           a == c.account
           bypass == c.bypass
<1>1. RequestInv(q) /\ q \in RequestType BY DEF RequestsInv, RequestInv
<1>2. q.pc = "select" /\ q.account = None BY DEF SelectAny, At
<1>3. q.depth < MaxRetries /\ ~q.fixed
  BY <1>1, <1>2 DEF RequestInv, DepthOK, Inside, BoundOK
<1>4. rows \in [Accounts -> RowType] /\ next \in Accounts /\ q.model \in Models \cup {NoModel}
  BY <1>1 DEF RequestsInv, PoolInv, RequestType
<1>5. a # None => a \in Accounts /\ a \notin q.excluded
  BY <1>4, ChoiceIsSound DEF Eligible
<1>6. bypass \in BOOLEAN BY <1>4, ChoiceIsSound
<1>7. CASE a # None
  <2> DEFINE p == [q EXCEPT !.pc = "token", !.chosen = a, !.bypass = bypass]
  <2>1. req' = [req EXCEPT ![r] = p] /\ MoveOn(a) BY <1>7 DEF SelectAny
  <2>2. a \in Accounts /\ a \notin q.excluded BY <1>5, <1>7
  <2>3. next' \in Accounts BY <2>1, <2>2, PoolShape DEF MoveOn, Accounts
  <2>4. PoolInv' BY <2>3 DEF SelectAny, PoolInv, RequestsInv
  <2> HIDE DEF a, bypass
  <2>5. {"select", "token"} \subseteq Aside /\ "token" \in PCs BY DEF Aside, PCs
  <2>6. p \in RequestType BY <1>1, <1>6, <2>2, <2>5 DEF RequestType
  <2>7. /\ p.pc = "token" /\ p.account = q.account /\ p.kind = q.kind /\ p.fixed = q.fixed
        /\ p.delivered = q.delivered /\ p.resets = q.resets /\ p.empties = q.empties
        /\ p.sent = q.sent /\ p.cuts = q.cuts /\ p.hollow = q.hollow /\ p.depth = q.depth
        /\ p.chosen = a /\ p.excluded = q.excluded
    BY <1>1 DEF RequestType
  <2> HIDE DEF p
  <2>8. BoundOK(p) /\ GivenUpOK(p) /\ NamedOK(p)
    BY <1>3, <2>2, <2>7 DEF BoundOK, GivenUpOK, NamedOK
  <2>9. q.depth \in Int BY <1>1 DEF RequestType
  <2>10. RequestInv(p) BY <1>1, <1>2, <1>3, <2>5, <2>6, <2>7, <2>8, <2>9, AsideInv
  <2> QED BY <2>1, <2>4, <2>10, OneMoves
<1>8. CASE a = None
  <2>1. PICK outcome \in {"cooling", "none"} : Answer(r, outcome) BY <1>8 DEF SelectAny
  <2>2. PoolInv' BY <1>8 DEF SelectAny, PoolInv, RequestsInv
  <2>3. outcome \in Outcomes BY DEF Outcomes, Exhausted
  <2>4. RequestInv(Answered(q, outcome)) BY <1>1, <1>2, <2>3, AnsweringInv
  <2> QED BY <2>1, <2>2, <2>4, OneMoves DEF Answer
<1> QED BY <1>7, <1>8

LEMMA TokenExpiredInv ==
  ASSUME RequestsInv, NEW r \in Requests, TokenExpired(r)
  PROVE  RequestsInv'
<1>1. RequestInv(req[r]) BY DEF RequestsInv
<1>2. RequestInv(Answered(req[r], "relogin"))
  BY <1>1, AnsweringInv DEF TokenExpired, At, Outcomes
<1>3. PoolInv' BY DEF TokenExpired, PoolInv, RequestsInv
<1> QED BY <1>2, <1>3, OneMoves DEF TokenExpired, Answer

-----------------------------------------------------------------------------
(* A call upstream and its answer, step by step *)

LEMMA SendInv ==
  ASSUME RequestsInv, NEW r \in Requests, Send(r)
  PROVE  RequestsInv'
<1> DEFINE q == req[r]
           n == q.sent + 1
           p == [q EXCEPT !.pc = "upstream", !.sent = n]
<1>1. RequestInv(q) /\ q \in RequestType BY DEF RequestsInv, RequestInv
<1>2. q.pc = "token" BY DEF Send, At
<1>3. q.sent \in Nat /\ q.depth \in Nat /\ q.sent <= q.depth
  BY <1>1, <1>2 DEF RequestInv, SentOK, RequestType
<1>4. q.chosen \in Accounts /\ q.depth < MaxRetries
  BY <1>1, <1>2 DEF RequestInv, GivenUpOK, DepthOK, Inside, Holding
<1>5. req' = [req EXCEPT ![r] = p] BY DEF Send
<1>6. n \in Nat /\ n <= q.depth + 1 BY <1>3
<1>7. p \in RequestType
  <2>1. "upstream" \in PCs BY DEF PCs
  <2> HIDE DEF n
  <2> QED BY <1>1, <1>6, <2>1 DEF RequestType
<1>8. /\ p.pc = "upstream" /\ p.account = q.account /\ p.kind = q.kind /\ p.fixed = q.fixed
      /\ p.delivered = q.delivered /\ p.resets = q.resets /\ p.empties = q.empties
      /\ p.sent = n /\ p.cuts = q.cuts /\ p.hollow = q.hollow /\ p.depth = q.depth
      /\ p.chosen = q.chosen /\ p.excluded = q.excluded
  BY <1>1 DEF RequestType
<1> HIDE DEF p, n
<1>9. SentOK(p) /\ DepthOK(p) BY <1>4, <1>6, <1>8 DEF SentOK, DepthOK
<1>10. FreshOK(p) /\ CutsOK(p) /\ HollowOK(p) /\ PunishOK(p)
  BY <1>1, <1>2, <1>8 DEF RequestInv, FreshOK, CutsOK, HollowOK, PunishOK, FailedNow
<1>11. BoundOK(p) /\ GivenUpOK(p) /\ NamedOK(p) /\ DeliveredOK(p)
  BY <1>1, <1>2, <1>8 DEF RequestInv, BoundOK, GivenUpOK, NamedOK, DeliveredOK, Holding
<1>12. RequestInv(p) BY <1>7, <1>9, <1>10, <1>11 DEF RequestInv
<1>13. PoolInv'
  <2>1. convs' \in [Sessions -> Accounts \cup {None}]
    BY <1>4 DEF Send, PoolInv, RequestsInv
  <2> QED BY <2>1 DEF Send, PoolInv, RequestsInv
<1> QED BY <1>5, <1>12, <1>13, OneMoves

LEMMA SucceedsInv ==
  ASSUME RequestsInv, NEW r \in Requests, Succeeds(r)
  PROVE  RequestsInv'
<1> DEFINE q == req[r]
<1>1. RequestInv(q) /\ q \in RequestType BY DEF RequestsInv, RequestInv
<1>2. q.pc = "upstream" BY DEF Succeeds, At
<1>3. q.chosen \in Accounts BY <1>1, <1>2 DEF RequestInv, GivenUpOK, Holding
<1>4. PoolInv'
  <2>1. rows \in [Accounts -> RowType] /\ q.bypass \in BOOLEAN
    BY <1>1 DEF RequestsInv, PoolInv, RequestType
  <2>2. rows' \in [Accounts -> RowType] BY <1>3, <2>1, MarkOkType DEF Succeeds
  <2> QED BY <2>2 DEF Succeeds, PoolInv, RequestsInv
<1>5. CASE Answer(r, "ok")
  <2>1. RequestInv(Answered(q, "ok")) BY <1>1, <1>2, AnsweringInv DEF Outcomes
  <2> QED BY <1>4, <1>5, <2>1, OneMoves DEF Answer
<1>6. CASE Goto(r, "remember")
  <2> DEFINE p == [q EXCEPT !.pc = "remember"]
  <2>1. req' = [req EXCEPT ![r] = p] BY <1>6 DEF Goto
  <2>2. p \in RequestType
    <3>1. "remember" \in PCs BY DEF PCs
    <3> QED BY <1>1, <3>1 DEF RequestType
  <2>3. /\ p.pc = "remember" /\ p.account = q.account /\ p.kind = q.kind /\ p.fixed = q.fixed
        /\ p.delivered = q.delivered /\ p.resets = q.resets /\ p.empties = q.empties
        /\ p.sent = q.sent /\ p.cuts = q.cuts /\ p.hollow = q.hollow /\ p.depth = q.depth
        /\ p.chosen = q.chosen /\ p.excluded = q.excluded
    BY <1>1 DEF RequestType
  <2> HIDE DEF p
  <2>4. FreshOK(p) /\ DepthOK(p) /\ SentOK(p) /\ CutsOK(p) /\ HollowOK(p) /\ PunishOK(p)
    BY <1>1, <1>2, <2>3
    DEF RequestInv, FreshOK, DepthOK, SentOK, CutsOK, HollowOK, PunishOK, FailedNow, Inside
  <2>5. BoundOK(p) /\ GivenUpOK(p) /\ NamedOK(p) /\ DeliveredOK(p)
    BY <1>1, <1>2, <2>3 DEF RequestInv, BoundOK, GivenUpOK, NamedOK, DeliveredOK, Holding
  <2>6. RequestInv(p) BY <2>2, <2>4, <2>5 DEF RequestInv
  <2> QED BY <1>4, <2>1, <2>6, OneMoves
<1> QED BY <1>5, <1>6 DEF Succeeds

LEMMA RememberInv ==
  ASSUME RequestsInv, NEW r \in Requests, Remember(r)
  PROVE  RequestsInv'
<1>1. RequestInv(req[r]) BY DEF RequestsInv
<1>2. req[r].pc = "remember" BY DEF Remember, At
<1>3. RequestInv(Answered(req[r], "ok")) BY <1>1, <1>2, AnsweringInv DEF Outcomes
<1>4. req[r].chosen \in Accounts BY <1>1, <1>2 DEF RequestInv, GivenUpOK, Holding
<1>5. PoolInv' BY <1>4 DEF Remember, SetPin, PoolInv, RequestsInv
<1> QED BY <1>3, <1>5, OneMoves DEF Remember, Answer

LEMMA CanceledInv ==
  ASSUME RequestsInv, NEW r \in Requests, Canceled(r)
  PROVE  RequestsInv'
<1>1. RequestInv(req[r]) BY DEF RequestsInv
<1>2. RequestInv(Answered(req[r], "canceled"))
  BY <1>1, AnsweringInv DEF Canceled, At, Outcomes
<1>3. PoolInv' BY DEF Canceled, PoolInv, RequestsInv
<1> QED BY <1>2, <1>3, OneMoves DEF Canceled, Answer

\* What a request has seen of a failed call.
LEMMA SeenType ==
  ASSUME RequestsInv, NEW r \in Requests, NEW e \in Failures, NEW sent \in BOOLEAN,
         MayFail(r, e, sent)
  PROVE  LET q == req[r]
             seen == Seen(r, e, sent) IN
         /\ seen \in RequestType
         /\ seen.error = e
         /\ seen.pc = q.pc /\ seen.account = q.account /\ seen.kind = q.kind
         /\ seen.fixed = q.fixed /\ seen.resets = q.resets /\ seen.empties = q.empties
         /\ seen.sent = q.sent /\ seen.depth = q.depth
         /\ seen.chosen = q.chosen /\ seen.excluded = q.excluded
         /\ seen.cuts = q.cuts + IF e = "transport" THEN 1 ELSE 0
         /\ seen.hollow = q.hollow + IF e = "empty" THEN 1 ELSE 0
         /\ seen.kind \in Kinds \cup {"chat"}
         /\ ~MustStop(r, sent) => DeliveredOK(seen)
<1> DEFINE q == req[r]
           cuts == q.cuts + IF e = "transport" THEN 1 ELSE 0
           hollow == q.hollow + IF e = "empty" THEN 1 ELSE 0
           delivered == q.delivered \/ sent
           seen == [q EXCEPT !.error = e, !.cuts = cuts, !.hollow = hollow,
                             !.delivered = delivered]
<1>1. RequestInv(q) /\ q \in RequestType BY DEF RequestsInv, RequestInv
<1>2. q.cuts \in Nat /\ q.hollow \in Nat /\ q.delivered \in BOOLEAN BY <1>1 DEF RequestType
<1>3. Seen(r, e, sent) = seen
  <2>1. /\ cuts = IF e = "transport" THEN q.cuts + 1 ELSE q.cuts
        /\ hollow = IF e = "empty" THEN q.hollow + 1 ELSE q.hollow
    BY <1>2
  <2>2. Seen(r, e, sent) =
          [q EXCEPT !.error = e,
                    !.cuts = IF e = "transport" THEN q.cuts + 1 ELSE q.cuts,
                    !.hollow = IF e = "empty" THEN q.hollow + 1 ELSE q.hollow,
                    !.delivered = q.delivered \/ sent]
    BY DEF Seen
  <2> HIDE DEF cuts, hollow
  <2> QED BY <2>1, <2>2
<1>4. cuts \in Nat /\ hollow \in Nat /\ delivered \in BOOLEAN BY <1>2
<1>5. e \in Errors \cup {NoError} BY FailuresAreErrors
<1>6. /\ ~MustStop(r, sent) /\ delivered => q.kind = "search"
      /\ q.kind \in Kinds \cup {"chat"}
  BY <1>1 DEF RequestInv, DeliveredOK, MayFail, At, MustStop, Chat, RequestType
<1> HIDE DEF cuts, hollow, delivered
<1>7. seen \in RequestType BY <1>1, <1>4, <1>5 DEF RequestType
<1>8. /\ seen.error = e
      /\ seen.pc = q.pc /\ seen.account = q.account /\ seen.kind = q.kind
      /\ seen.fixed = q.fixed /\ seen.resets = q.resets /\ seen.empties = q.empties
      /\ seen.sent = q.sent /\ seen.depth = q.depth
      /\ seen.chosen = q.chosen /\ seen.excluded = q.excluded
      /\ seen.cuts = cuts /\ seen.hollow = hollow /\ seen.delivered = delivered
  BY <1>1 DEF RequestType
<1>9. seen.kind \in Kinds \cup {"chat"} /\ (~MustStop(r, sent) => DeliveredOK(seen))
  <2> HIDE DEF seen
  <2> QED BY <1>6, <1>8 DEF DeliveredOK
<1> QED BY <1>3, <1>7, <1>8, <1>9 DEF cuts, hollow

\* What a failed call leaves to whoever handles it.
LEMMA FailedBudget ==
  ASSUME NEW q, RequestInv(q), q.pc = "upstream"
  PROVE  /\ q.depth < MaxRetries /\ q.sent <= q.depth + 1
         /\ q.kind = "chat" => q.cuts <= q.resets /\ q.hollow <= q.empties
         /\ q.depth \in Nat /\ q.resets \in 0..MaxResets /\ q.empties \in 0..1
         /\ q.sent \in Nat /\ q.cuts \in Nat /\ q.hollow \in Nat
<1>1. q \in RequestType BY DEF RequestInv
<1>2. /\ q.depth \in Nat /\ q.resets \in 0..MaxResets /\ q.empties \in 0..1
      /\ q.sent \in Nat /\ q.cuts \in Nat /\ q.hollow \in Nat
  BY <1>1 DEF RequestType
<1>3. q.depth < MaxRetries /\ q.sent <= q.depth + 1
  BY DEF RequestInv, DepthOK, SentOK, Inside
<1>4. q.kind = "chat" => q.cuts <= q.resets /\ q.hollow <= q.empties
  BY <1>2, RequestShape DEF RequestInv, CutsOK, HollowOK, FailedNow
<1> QED BY <1>2, <1>3, <1>4

\* The same account once more: the failed call is paid for by a retry.
LEMMA AgainInv ==
  ASSUME NEW q, RequestInv(q), q.pc = "upstream",
         NEW p, p \in RequestType, p.pc = "enter", p.account = q.chosen, p.chosen = q.chosen,
         p.kind = q.kind, p.fixed = q.fixed, p.excluded = q.excluded,
         p.sent = q.sent, p.depth = q.depth + 1,
         p.resets - q.resets = p.cuts - q.cuts, p.empties = q.empties, p.hollow = q.hollow,
         DeliveredOK(p)
  PROVE  RequestInv(p)
<1>1. /\ q.depth < MaxRetries /\ q.sent <= q.depth + 1
      /\ q.kind = "chat" => q.cuts <= q.resets /\ q.hollow <= q.empties
      /\ q.depth \in Nat /\ q.resets \in 0..MaxResets /\ q.empties \in 0..1
      /\ q.sent \in Nat /\ q.cuts \in Nat /\ q.hollow \in Nat
  BY FailedBudget
<1>2. /\ q.chosen \in Accounts
      /\ ~q.fixed => q.chosen \notin q.excluded
      /\ q.fixed => q.account # None /\ q.chosen \in {None, q.account}
  BY DEF RequestInv, GivenUpOK, BoundOK, Holding
<1>3. None \notin Accounts BY DEF None, Accounts
<1>4. p.resets \in Nat /\ p.cuts \in Nat BY RequestShape DEF RequestType
<1>5. SentOK(p) BY <1>1 DEF SentOK
<1>6. CutsOK(p)
  <2>1. p.kind = "chat" => p.cuts <= p.resets BY <1>1, <1>4, RequestShape
  <2> QED BY <1>4, <2>1 DEF CutsOK, FailedNow
<1>7. HollowOK(p) BY <1>1 DEF HollowOK, FailedNow
<1>8. FreshOK(p) /\ DepthOK(p) /\ PunishOK(p) /\ NamedOK(p)
  BY DEF FreshOK, DepthOK, PunishOK, NamedOK, FailedNow, Inside
<1>9. BoundOK(p) /\ GivenUpOK(p)
  BY <1>2, <1>3 DEF BoundOK, GivenUpOK, Holding
<1> QED BY <1>5, <1>6, <1>7, <1>8, <1>9 DEF RequestInv

LEMMA SameAgainInv ==
  ASSUME RequestsInv, NEW r \in Requests, NEW e \in Failures, NEW sent \in BOOLEAN,
         SameAgain(r, e, sent)
  PROVE  RequestsInv'
<1> DEFINE q == req[r]
           seen == Seen(r, e, sent)
           d == q.depth + 1
           n == q.resets + 1
           p == [seen EXCEPT !.pc = "enter", !.account = q.chosen, !.resets = n, !.depth = d]
<1>1. RequestInv(q) /\ q \in RequestType BY DEF RequestsInv, RequestInv
<1>2. e = "transport" /\ q.resets < MaxResets /\ MayFail(r, e, sent) /\ ~MustStop(r, sent)
  BY DEF SameAgain, MaySameAgain
<1>3. q.pc = "upstream" BY <1>2 DEF MayFail, At
<1>4. /\ seen \in RequestType /\ seen.pc = q.pc /\ seen.kind = q.kind /\ seen.fixed = q.fixed
      /\ seen.empties = q.empties /\ seen.sent = q.sent /\ seen.chosen = q.chosen
      /\ seen.excluded = q.excluded /\ seen.cuts = q.cuts + 1 /\ seen.hollow = q.hollow + 0
      /\ DeliveredOK(seen)
  BY <1>2, SeenType
<1>5. seen.resets = q.resets /\ seen.depth = q.depth BY <1>2, SeenType
<1>6. /\ q.depth \in Nat /\ q.depth < MaxRetries /\ q.resets \in Nat
      /\ q.cuts \in Nat /\ q.hollow \in Nat
  BY <1>1, <1>3, FailedBudget
<1>7. d \in 0..MaxRetries /\ n \in 0..MaxResets /\ q.chosen \in Accounts \cup {None}
  BY <1>1, <1>2, <1>6, RequestShape DEF RequestType
<1>8. req' = [req EXCEPT ![r] = p] BY <1>5 DEF SameAgain
<1> HIDE DEF seen, d, n
<1>9. p \in RequestType
  <2>1. "enter" \in PCs BY DEF PCs
  <2> QED BY ONLY <1>4, <1>7, <2>1 DEF RequestType
<1>10. /\ p.pc = "enter" /\ p.account = q.chosen /\ p.chosen = q.chosen
       /\ p.kind = q.kind /\ p.fixed = q.fixed /\ p.excluded = q.excluded
       /\ p.sent = q.sent /\ p.depth = d /\ p.resets = n /\ p.cuts = q.cuts + 1
       /\ p.empties = q.empties /\ p.hollow = q.hollow + 0 /\ p.delivered = seen.delivered
  BY <1>4 DEF RequestType
<1> HIDE DEF p
<1>11. p.resets - q.resets = p.cuts - q.cuts /\ p.hollow = q.hollow /\ p.depth = q.depth + 1
  BY <1>6, <1>10 DEF n, d
<1>12. DeliveredOK(p) BY <1>3, <1>4, <1>10 DEF DeliveredOK
<1>13. RequestInv(p) BY <1>1, <1>3, <1>9, <1>10, <1>11, <1>12, AgainInv
<1>14. PoolInv' BY DEF SameAgain, PoolInv, RequestsInv
<1> QED BY <1>8, <1>13, <1>14, OneMoves

LEMMA RenewedInv ==
  ASSUME RequestsInv, NEW r \in Requests, NEW e \in Failures, NEW sent \in BOOLEAN,
         Renewed(r, e, sent)
  PROVE  RequestsInv'
<1> DEFINE q == req[r]
           seen == Seen(r, e, sent)
           d == q.depth + 1
           p == [seen EXCEPT !.pc = "enter", !.account = q.chosen, !.refreshed = TRUE, !.depth = d]
<1>1. RequestInv(q) /\ q \in RequestType BY DEF RequestsInv, RequestInv
<1>2. e = "auth" /\ MayFail(r, e, sent) /\ ~MustStop(r, sent)
  BY DEF Renewed, RefreshableError
<1>3. q.pc = "upstream" BY <1>2 DEF MayFail, At
<1>4. /\ seen \in RequestType /\ seen.pc = q.pc /\ seen.kind = q.kind /\ seen.fixed = q.fixed
      /\ seen.empties = q.empties /\ seen.sent = q.sent /\ seen.chosen = q.chosen
      /\ seen.excluded = q.excluded /\ seen.cuts = q.cuts + 0 /\ seen.hollow = q.hollow + 0
      /\ seen.resets = q.resets /\ DeliveredOK(seen)
  BY <1>2, SeenType
<1>5. seen.depth = q.depth BY <1>2, SeenType
<1>6. /\ q.depth \in Nat /\ q.depth < MaxRetries /\ q.resets \in Nat
      /\ q.cuts \in Nat /\ q.hollow \in Nat
  BY <1>1, <1>3, FailedBudget
<1>7. d \in 0..MaxRetries /\ q.chosen \in Accounts \cup {None}
  BY <1>1, <1>6, RequestShape DEF RequestType
<1>8. req' = [req EXCEPT ![r] = p] BY <1>5 DEF Renewed
<1> HIDE DEF seen, d
<1>9. p \in RequestType
  <2>1. "enter" \in PCs BY DEF PCs
  <2> QED BY ONLY <1>4, <1>7, <2>1 DEF RequestType
<1>10. /\ p.pc = "enter" /\ p.account = q.chosen /\ p.chosen = q.chosen
       /\ p.kind = q.kind /\ p.fixed = q.fixed /\ p.excluded = q.excluded
       /\ p.sent = q.sent /\ p.depth = d /\ p.resets = q.resets /\ p.cuts = q.cuts + 0
       /\ p.empties = q.empties /\ p.hollow = q.hollow + 0 /\ p.delivered = seen.delivered
  BY <1>4 DEF RequestType
<1> HIDE DEF p
<1>11. p.resets - q.resets = p.cuts - q.cuts /\ p.hollow = q.hollow /\ p.depth = q.depth + 1
  BY <1>6, <1>10 DEF d
<1>12. DeliveredOK(p) BY <1>3, <1>4, <1>10 DEF DeliveredOK
<1>13. RequestInv(p) BY <1>1, <1>3, <1>9, <1>10, <1>11, <1>12, AgainInv
<1>14. PoolInv' BY DEF Renewed, PoolInv, RequestsInv
<1> QED BY <1>8, <1>13, <1>14, OneMoves

LEMMA MoveAwayInv ==
  ASSUME RequestsInv, NEW r \in Requests, NEW e \in Failures, NEW sent \in BOOLEAN,
         MoveAway(r, e, sent)
  PROVE  RequestsInv'
<1> DEFINE q == req[r]
           seen == Seen(r, e, sent)
           p == [seen EXCEPT !.pc = "punish"]
<1>1. RequestInv(q) BY DEF RequestsInv
<1>2. /\ MayFail(r, e, sent) /\ ~MustStop(r, sent) /\ MayMoveOn(r, e)
      /\ req' = [req EXCEPT ![r] = p]
  BY DEF MoveAway
<1>3. q.pc = "upstream" BY <1>2 DEF MayFail, At
<1>4. /\ q.depth < MaxRetries /\ q.sent <= q.depth + 1
      /\ q.kind = "chat" => q.cuts <= q.resets /\ q.hollow <= q.empties
      /\ q.depth \in Nat /\ q.resets \in 0..MaxResets /\ q.empties \in 0..1
      /\ q.sent \in Nat /\ q.cuts \in Nat /\ q.hollow \in Nat
  BY <1>1, <1>3, FailedBudget
<1>5. /\ ~q.fixed /\ e = "empty" => q.empties = 0
      /\ e = "transport" => q.resets < MaxResets
  BY <1>2 DEF MayMoveOn
<1>6. q.chosen \in Accounts /\ q.chosen \notin q.excluded /\ ~q.fixed
  BY <1>1, <1>2, <1>3 DEF RequestInv, GivenUpOK, Holding, MayMoveOn
<1>7. /\ seen \in RequestType /\ seen.error = e /\ seen.pc = q.pc
      /\ seen.kind = q.kind /\ seen.fixed = q.fixed /\ seen.resets = q.resets
      /\ seen.empties = q.empties /\ seen.sent = q.sent /\ seen.depth = q.depth
      /\ seen.chosen = q.chosen /\ seen.excluded = q.excluded
      /\ seen.cuts = q.cuts + IF e = "transport" THEN 1 ELSE 0
      /\ seen.hollow = q.hollow + IF e = "empty" THEN 1 ELSE 0
      /\ DeliveredOK(seen)
  BY <1>2, SeenType
<1> HIDE DEF seen
<1>8. p \in RequestType
  <2>1. "punish" \in PCs BY DEF PCs
  <2> QED BY ONLY <1>7, <2>1 DEF RequestType
<1>9. /\ p.pc = "punish" /\ p.error = e /\ p.kind = q.kind /\ p.fixed = q.fixed
      /\ p.resets = q.resets /\ p.empties = q.empties /\ p.sent = q.sent /\ p.depth = q.depth
      /\ p.chosen = q.chosen /\ p.excluded = q.excluded
      /\ p.cuts = q.cuts + IF e = "transport" THEN 1 ELSE 0
      /\ p.hollow = q.hollow + IF e = "empty" THEN 1 ELSE 0
      /\ p.delivered = seen.delivered
  BY <1>7 DEF RequestType
<1> HIDE DEF p
<1>10. SentOK(p) /\ DepthOK(p) BY <1>4, <1>9 DEF SentOK, DepthOK
<1>11. CutsOK(p) BY <1>4, <1>9 DEF CutsOK, FailedNow
<1>12. HollowOK(p) BY <1>4, <1>9 DEF HollowOK, FailedNow
<1>13. PunishOK(p)
  <2>1. e \in Errors BY FailuresAreErrors
  <2> QED BY <1>5, <1>9, <2>1, <1>2 DEF PunishOK, FailedNow, MayMoveOn
<1>14. FreshOK(p) /\ NamedOK(p) /\ BoundOK(p) /\ GivenUpOK(p)
  BY <1>6, <1>9 DEF FreshOK, NamedOK, BoundOK, GivenUpOK
<1>15. DeliveredOK(p) BY <1>3, <1>7, <1>9 DEF DeliveredOK
<1>16. RequestInv(p)
  BY <1>8, <1>10, <1>11, <1>12, <1>13, <1>14, <1>15 DEF RequestInv
<1>17. PoolInv' BY DEF MoveAway, ForgetPin, SetPin, PoolInv, RequestsInv
<1> QED BY <1>2, <1>16, <1>17, OneMoves

LEMMA StopDeliveredInv ==
  ASSUME RequestsInv, NEW r \in Requests, NEW e \in Failures, NEW sent \in BOOLEAN,
         StopDelivered(r, e, sent)
  PROVE  RequestsInv'
<1> DEFINE q == req[r]
           seen == Seen(r, e, sent)
<1>1. RequestInv(q) /\ q \in RequestType BY DEF RequestsInv, RequestInv
<1>2. /\ MayFail(r, e, sent)
      /\ req' = [req EXCEPT ![r] = Answered(seen, e)]
  BY DEF StopDelivered
<1>3. q.pc = "upstream" BY <1>2 DEF MayFail, At
<1>4. /\ q.depth < MaxRetries /\ q.sent <= q.depth + 1
      /\ q.kind = "chat" => q.cuts <= q.resets /\ q.hollow <= q.empties
      /\ q.depth \in Nat /\ q.resets \in 0..MaxResets /\ q.empties \in 0..1
      /\ q.sent \in Nat /\ q.cuts \in Nat /\ q.hollow \in Nat
  BY <1>1, <1>3, FailedBudget
<1>5. /\ seen \in RequestType /\ seen.kind = q.kind /\ seen.sent = q.sent
      /\ seen.cuts = q.cuts + IF e = "transport" THEN 1 ELSE 0
      /\ seen.hollow = q.hollow + IF e = "empty" THEN 1 ELSE 0
      /\ seen.kind \in Kinds \cup {"chat"}
  BY <1>2, SeenType
<1> HIDE DEF seen
<1>6. seen.sent <= MaxRetries BY <1>4, <1>5, RequestShape
<1>7. seen.kind = "chat" => seen.cuts <= MaxResets + 1 /\ seen.hollow <= 2
  BY <1>4, <1>5, RequestShape
<1>8. e \in Outcomes BY FailuresAreErrors DEF Outcomes
<1>9. RequestInv(Answered(seen, e)) BY <1>5, <1>6, <1>7, <1>8, AnsweredInv
<1>10. PoolInv' BY DEF StopDelivered, PoolInv, RequestsInv
<1> QED BY <1>2, <1>9, <1>10, OneMoves

LEMMA RejectInv ==
  ASSUME RequestsInv, NEW r \in Requests, NEW e \in Failures, NEW sent \in BOOLEAN,
         Reject(r, e, sent)
  PROVE  RequestsInv'
<1> DEFINE q == req[r]
           seen == Seen(r, e, sent)
<1>1. RequestInv(q) /\ q \in RequestType BY DEF RequestsInv, RequestInv
<1>2. /\ MayFail(r, e, sent) /\ ~MustStop(r, sent) /\ Punish(r, e)
      /\ req' = [req EXCEPT ![r] = Answered(seen, e)]
  BY DEF Reject
<1>3. q.pc = "upstream" BY <1>2 DEF MayFail, At
<1>4. /\ q.depth < MaxRetries /\ q.sent <= q.depth + 1
      /\ q.kind = "chat" => q.cuts <= q.resets /\ q.hollow <= q.empties
      /\ q.depth \in Nat /\ q.resets \in 0..MaxResets /\ q.empties \in 0..1
      /\ q.sent \in Nat /\ q.cuts \in Nat /\ q.hollow \in Nat
  BY <1>1, <1>3, FailedBudget
<1>5. /\ seen \in RequestType /\ seen.kind = q.kind /\ seen.sent = q.sent
      /\ seen.cuts = q.cuts + IF e = "transport" THEN 1 ELSE 0
      /\ seen.hollow = q.hollow + IF e = "empty" THEN 1 ELSE 0
      /\ seen.kind \in Kinds \cup {"chat"}
  BY <1>2, SeenType
<1> HIDE DEF seen
<1>6. seen.sent <= MaxRetries BY <1>4, <1>5, RequestShape
<1>7. seen.kind = "chat" => seen.cuts <= MaxResets + 1 /\ seen.hollow <= 2
  BY <1>4, <1>5, RequestShape
<1>8. e \in Outcomes BY FailuresAreErrors DEF Outcomes
<1>9. RequestInv(Answered(seen, e)) BY <1>5, <1>6, <1>7, <1>8, AnsweredInv
<1>10. PoolInv'
  <2>1. q.chosen \in Accounts /\ q.model \in Models \cup {NoModel}
    BY <1>1, <1>3 DEF RequestInv, GivenUpOK, Holding, RequestType
  <2>2. rows' \in [Accounts -> RowType] BY <1>2, <2>1, PunishType DEF RequestsInv, PoolInv
  <2> QED BY <2>2 DEF Reject, PoolInv, RequestsInv
<1> QED BY <1>2, <1>9, <1>10, OneMoves

LEMMA PunishAndLookInv ==
  ASSUME RequestsInv, NEW r \in Requests, PunishAndLook(r)
  PROVE  RequestsInv'
<1> DEFINE q == req[r]
           e == q.error
           given == q.excluded \cup {q.chosen}
           probing == Selectable(given)
           d == q.depth + 1
           resets == IF Chat(r) /\ e = "transport" THEN q.resets + 1 ELSE q.resets
           empties == IF Chat(r) /\ e = "empty" THEN q.empties + 1 ELSE q.empties
           p == [q EXCEPT !.pc = "reprobe", !.probing = probing, !.excluded = given,
                          !.account = None, !.depth = d, !.outcome = e,
                          !.resets = resets, !.empties = empties]
<1>1. RequestInv(q) /\ q \in RequestType BY DEF RequestsInv, RequestInv
<1>2. q.pc = "punish" BY DEF PunishAndLook, At
<1>3. q.chosen \in Accounts /\ ~q.fixed
  BY <1>1, <1>2 DEF RequestInv, GivenUpOK, BoundOK, Holding
<1>4. given \subseteq Accounts /\ probing \subseteq Accounts
  BY <1>1, <1>3 DEF RequestType, Selectable, Eligible
<1>5. /\ q.depth \in Nat /\ q.resets \in 0..MaxResets /\ q.empties \in 0..1
      /\ q.sent \in Nat /\ q.cuts \in Nat /\ q.hollow \in Nat
      /\ q.model \in Models \cup {NoModel} /\ q.delivered \in BOOLEAN
  BY <1>1 DEF RequestType
<1>6. q.depth < MaxRetries /\ q.sent <= q.depth + 1
  BY <1>1, <1>2 DEF RequestInv, DepthOK, SentOK, Inside
<1>7. /\ e \in Errors
      /\ e = "transport" => q.resets < MaxResets
      /\ e = "empty" => q.empties = 0
  BY <1>1, <1>2 DEF RequestInv, PunishOK, FailedNow
<1>8. q.kind = "chat" => q.cuts <= resets /\ q.hollow <= empties
  <2>1. q.kind = "chat" => q.cuts <= q.resets + IF e = "transport" THEN 1 ELSE 0
    BY <1>1, <1>2 DEF RequestInv, CutsOK, FailedNow
  <2>2. q.kind = "chat" => q.hollow <= q.empties + IF e = "empty" THEN 1 ELSE 0
    BY <1>1, <1>2 DEF RequestInv, HollowOK, FailedNow
  <2> QED BY <1>5, <2>1, <2>2 DEF Chat
<1>9. d \in 0..MaxRetries BY <1>5, <1>6, RequestShape
<1>10. resets \in 0..MaxResets /\ empties \in 0..1 BY <1>5, <1>7, RequestShape
<1>11. e \in Outcomes \cup {NoError} BY <1>7 DEF Outcomes
<1>12. req' = [req EXCEPT ![r] = p]
  BY DEF PunishAndLook
<1> HIDE DEF e, given, probing, d, resets, empties
<1>13. p \in RequestType
  <2>1. "reprobe" \in PCs /\ None \in Accounts \cup {None} BY DEF PCs
  <2> QED BY <1>1, <1>4, <1>9, <1>10, <1>11, <2>1 DEF RequestType
<1>14. /\ p.pc = "reprobe" /\ p.account = None /\ p.kind = q.kind /\ p.fixed = q.fixed
       /\ p.delivered = q.delivered /\ p.resets = resets /\ p.empties = empties
       /\ p.sent = q.sent /\ p.cuts = q.cuts /\ p.hollow = q.hollow /\ p.depth = d
  BY <1>1 DEF RequestType
<1> HIDE DEF p
<1>15. SentOK(p) BY <1>5, <1>6, <1>14 DEF SentOK, d
<1>16. CutsOK(p) BY <1>5, <1>8, <1>10, <1>14 DEF CutsOK, FailedNow
<1>17. HollowOK(p) BY <1>5, <1>8, <1>10, <1>14 DEF HollowOK, FailedNow
<1>18. FreshOK(p) /\ DepthOK(p) /\ PunishOK(p) /\ NamedOK(p) /\ BoundOK(p) /\ GivenUpOK(p)
  BY <1>3, <1>14
  DEF FreshOK, DepthOK, PunishOK, NamedOK, BoundOK, GivenUpOK, FailedNow, Inside, Holding
<1>19. DeliveredOK(p) BY <1>1, <1>2, <1>14 DEF RequestInv, DeliveredOK
<1>20. RequestInv(p)
  BY <1>13, <1>15, <1>16, <1>17, <1>18, <1>19 DEF RequestInv
<1>21. PoolInv'
  <2>1. Punish(r, q.error) BY DEF PunishAndLook
  <2>2. rows' \in [Accounts -> RowType]
    BY <1>3, <1>5, <2>1, PunishType DEF RequestsInv, PoolInv
  <2> QED BY <2>2 DEF PunishAndLook, PoolInv, RequestsInv
<1> QED BY <1>12, <1>20, <1>21, OneMoves

-----------------------------------------------------------------------------
(* The call, and the environment *)

LEMMA ArriveInv ==
  ASSUME RequestsInv, NEW r \in Requests, Arrive(r)
  PROVE  RequestsInv'
<1> DEFINE q == req[r]
<1>1. PICK kind \in Kinds, model \in Models \cup {NoModel},
           session \in Sessions \cup {NoSession}, account \in Bindings :
        Begin(r, kind, model, session, account)
  BY DEF Arrive
<1> DEFINE fixed == account # None
           p == [q EXCEPT !.pc = "enter", !.kind = kind, !.model = model, !.session = session,
                          !.account = account, !.fixed = fixed]
<1>2. RequestInv(q) /\ q \in RequestType BY DEF RequestsInv, RequestInv
<1>3. q = NewRequest BY <1>1, <1>2 DEF Begin, At, RequestInv, FreshOK
<1>4. req' = [req EXCEPT ![r] = p] BY <1>1 DEF Begin
<1>5. /\ kind \in {"chat", "image", "search"} /\ account \in Accounts \cup {None}
      /\ fixed \in BOOLEAN
  BY RequestShape
<1>6. fixed => account # None OBVIOUS
<1>7. q.sent = 0 /\ q.cuts = 0 /\ q.hollow = 0 /\ q.depth = 0 /\ q.resets = 0
      /\ q.empties = 0 /\ ~q.delivered /\ q.excluded = {} /\ q.chosen = None
  BY <1>3 DEF NewRequest
<1> HIDE DEF fixed
<1>8. p \in RequestType
  <2>1. "enter" \in PCs BY DEF PCs
  <2> DEFINE named == [q EXCEPT !.kind = kind, !.model = model, !.session = session]
  <2>2. named \in RequestType BY <1>2, <1>5 DEF RequestType
  <2>3. p = [named EXCEPT !.pc = "enter", !.account = account, !.fixed = fixed]
    BY <1>2 DEF RequestType
  <2> HIDE DEF named, p
  <2> QED BY <1>5, <2>1, <2>2, <2>3 DEF RequestType
<1>9. /\ p.pc = "enter" /\ p.account = account /\ p.fixed = fixed /\ p.kind = kind
      /\ p.delivered = q.delivered /\ p.resets = q.resets /\ p.empties = q.empties
      /\ p.sent = q.sent /\ p.cuts = q.cuts /\ p.hollow = q.hollow /\ p.depth = q.depth
      /\ p.chosen = q.chosen /\ p.excluded = q.excluded
  BY <1>2 DEF RequestType
<1> HIDE DEF p
<1>10. SentOK(p) /\ CutsOK(p) /\ HollowOK(p)
  BY <1>7, <1>9 DEF SentOK, CutsOK, HollowOK, FailedNow
<1>11. FreshOK(p) /\ DepthOK(p) /\ PunishOK(p) /\ NamedOK(p) /\ DeliveredOK(p)
  BY <1>7, <1>9 DEF FreshOK, DepthOK, PunishOK, NamedOK, DeliveredOK, FailedNow, Inside
<1>12. BoundOK(p) /\ GivenUpOK(p)
  BY <1>6, <1>7, <1>9 DEF BoundOK, GivenUpOK, Holding
<1>13. RequestInv(p) BY <1>8, <1>10, <1>11, <1>12 DEF RequestInv
<1>14. PoolInv' BY <1>1 DEF Begin, PoolInv, RequestsInv
<1> QED BY <1>4, <1>13, <1>14, OneMoves

LEMMA EnvironmentInv ==
  ASSUME RequestsInv, UNCHANGED req,
         \/ \E a \in Accounts : Switch(a)
         \/ \E s \in Sessions : PinExpires(s)
         \/ Clock
         \/ UNCHANGED vars
  PROVE  RequestsInv'
<1>1. PoolInv BY DEF RequestsInv
<1>2. ASSUME NEW a \in Accounts, Switch(a) PROVE PoolInv'
  <2> DEFINE usable == ~rows[a].usable
             row == [rows[a] EXCEPT !.usable = usable]
  <2>1. rows' = [rows EXCEPT ![a] = row] BY <1>2 DEF Switch
  <2>2. row \in RowType
    <3>1. rows[a] \in RowType BY <1>1 DEF PoolInv
    <3>2. usable \in BOOLEAN OBVIOUS
    <3> HIDE DEF usable
    <3> QED BY <3>1, <3>2 DEF RowType
  <2> HIDE DEF row
  <2>3. rows' \in [Accounts -> RowType] BY <1>1, <2>1, <2>2 DEF PoolInv
  <2> QED BY <1>1, <1>2, <2>3 DEF Switch, PoolInv
<1>3. ASSUME NEW s \in Sessions, PinExpires(s) PROVE PoolInv'
  BY <1>1, <1>3 DEF PinExpires, PoolInv
<1>4. ASSUME Clock PROVE PoolInv'
  <2>1. rows' \in [Accounts -> RowType] /\ next' = next
    BY <1>1, <1>4, TickType DEF Clock, PoolInv, Tick
  <2> QED BY <1>1, <1>4, <2>1 DEF Clock, PoolInv
<1>5. ASSUME UNCHANGED vars PROVE PoolInv'
  BY <1>1, <1>5 DEF vars, PoolInv
<1>6. PoolInv' BY <1>2, <1>3, <1>4, <1>5
<1> QED BY <1>6 DEF RequestsInv

-----------------------------------------------------------------------------
(* The theorems *)

LEMMA InitInv == Init => RequestsInv
<1> SUFFICES ASSUME Init PROVE RequestsInv
  OBVIOUS
<1>1. FreshRow \in RowType BY DEF FreshRow, RowType, Unknown
<1>2. StartRow \subseteq RowType
  <2>1. WithQuota(FreshRow, 0) \in RowType BY <1>1, PoolShape, WithQuotaType
  <2>2. ASSUME NEW m \in Models
        PROVE  [FreshRow EXCEPT !.models[m] = ShortCool] \in RowType
    BY <1>1, PoolShape DEF RowType
  <2> QED BY <1>1, <2>1, <2>2 DEF StartRow
<1>3. PoolInv BY <1>2, PoolShape DEF Init, PoolInv, Accounts
<1>4. RequestInv(NewRequest)
  <2>1. NewRequest \in RequestType
    BY RequestShape, PoolShape DEF NewRequest, RequestType, PCs
  <2>2. FreshOK(NewRequest) /\ DepthOK(NewRequest) /\ SentOK(NewRequest)
    BY DEF FreshOK, DepthOK, SentOK, NewRequest, Inside
  <2>3. CutsOK(NewRequest) /\ HollowOK(NewRequest) /\ PunishOK(NewRequest)
    BY DEF CutsOK, HollowOK, PunishOK, FailedNow, NewRequest
  <2>4. BoundOK(NewRequest) /\ GivenUpOK(NewRequest) /\ NamedOK(NewRequest)
    BY DEF BoundOK, GivenUpOK, NamedOK, NewRequest, Holding
  <2>5. DeliveredOK(NewRequest) BY DEF DeliveredOK, NewRequest
  <2> QED BY <2>1, <2>2, <2>3, <2>4, <2>5 DEF RequestInv
<1> QED BY <1>3, <1>4 DEF Init, RequestsInv

LEMMA NextInv == RequestsInv /\ [Next]_vars => RequestsInv'
<1> SUFFICES ASSUME RequestsInv, [Next]_vars PROVE RequestsInv'
  OBVIOUS
<1>1. ASSUME NEW r \in Requests, Arrive(r) PROVE RequestsInv'
  BY <1>1, ArriveInv
<1>2. ASSUME NEW r \in Requests, Choosing(r) PROVE RequestsInv'
  BY <1>2, TooDeepInv, LookupPinInv, UnpinInv, SkipPinInv, LookAtQuotasInv, ProbeDoneInv,
     ProbeAnswerInv, SelectNamedInv, DropNamedInv, SelectAnyInv, TokenExpiredInv, SendInv
     DEF Choosing
<1>3. ASSUME NEW r \in Requests, Answering(r) PROVE RequestsInv'
  <2>1. ASSUME NEW e \in Failures, NEW sent \in BOOLEAN, Fails(r, e, sent)
        PROVE  RequestsInv'
    BY <2>1, StopDeliveredInv, SameAgainInv, MoveAwayInv, RenewedInv, RejectInv DEF Fails
  <2> QED BY <1>3, <2>1, SucceedsInv, RememberInv, CanceledInv, PunishAndLookInv DEF Answering
<1>4. ASSUME \/ \E a \in Accounts : Switch(a)
             \/ \E s \in Sessions : PinExpires(s)
             \/ Clock
             \/ UNCHANGED vars
      PROVE  RequestsInv'
  <2>1. UNCHANGED req BY <1>4 DEF Switch, PinExpires, Clock, vars
  <2> QED BY <1>4, <2>1, EnvironmentInv
<1> QED BY <1>1, <1>2, <1>3, <1>4 DEF Next

\* Every reachable state satisfies the invariant.
LEMMA RequestsInvariant == Spec => []RequestsInv
BY InitInv, NextInv, PTL DEF Spec

\* Every state of every request is one of its type: no handler calls itself
\* deeper than the limit, and no budget is overdrawn or wrongly taken.
THEOREM RequestTypeCorrect == Spec => []TypeOK
<1>1. RequestsInv => TypeOK
  <2> SUFFICES ASSUME RequestsInv PROVE TypeOK
    OBVIOUS
  <2>1. \A r \in Requests : req[r] \in RequestType BY DEF RequestsInv, RequestInv
  <2>2. req \in [Requests -> RequestType] BY <2>1 DEF RequestsInv
  <2> QED BY <2>2 DEF TypeOK, RequestsInv, PoolInv
<1> QED BY <1>1, RequestsInvariant, PTL

\* One chat request costs no more calls upstream than the code allows, however
\* its retries interleave with other requests, pins, cooldowns and switches.
THEOREM RequestBudgets == Spec => []BudgetsHold
<1>1. RequestsInv => BudgetsHold
  <2> SUFFICES ASSUME RequestsInv, NEW r \in Requests, Chat(r)
               PROVE  /\ req[r].sent <= MaxRetries
                      /\ req[r].cuts <= MaxResets + 1
                      /\ req[r].hollow <= 2
    BY DEF BudgetsHold
  <2> DEFINE q == req[r]
  <2>1. RequestInv(q) /\ q \in RequestType BY DEF RequestsInv, RequestInv
  <2>2. /\ q.depth \in 0..MaxRetries /\ q.resets \in 0..MaxResets /\ q.empties \in 0..1
        /\ q.sent \in Nat /\ q.cuts \in Nat /\ q.hollow \in Nat
    BY <2>1 DEF RequestType
  <2>3. q.sent <= MaxRetries
    BY <2>1, <2>2, RequestShape DEF RequestInv, SentOK, DepthOK, Inside
  <2>4. q.cuts <= MaxResets + 1 BY <2>1, <2>2, RequestShape DEF RequestInv, CutsOK, Chat
  <2>5. q.hollow <= 2 BY <2>1, <2>2, RequestShape DEF RequestInv, HollowOK, Chat
  <2> QED BY <2>3, <2>4, <2>5
<1> QED BY <1>1, RequestsInvariant, PTL

\* A request never goes back to an account it gave up.
THEOREM RequestGivesUpForGood == Spec => []GivenUpForGood
<1>1. RequestsInv => GivenUpForGood
  BY DEF RequestsInv, RequestInv, GivenUpOK, GivenUpForGood, Holding
<1> QED BY <1>1, RequestsInvariant, PTL

-----------------------------------------------------------------------------
(* What a step may do to a request *)

\* A step of one request leaves the others alone.
LEMMA OthersStay ==
  ASSUME RequestsInv, NEW s \in Requests, Arrive(s) \/ Choosing(s) \/ Answering(s),
         NEW r \in Requests, r # s
  PROVE  req'[r] = req[r]
<1>1. ASSUME NEW q, req' = [req EXCEPT ![s] = q] PROVE req'[r] = req[r]
  BY <1>1 DEF RequestsInv
<1>2. ASSUME NEW pc, Goto(s, pc) PROVE req'[r] = req[r] BY <1>1, <1>2 DEF Goto
<1>3. ASSUME NEW outcome, Answer(s, outcome) PROVE req'[r] = req[r] BY <1>1, <1>3 DEF Answer
<1>4. CASE Arrive(s)
  <2>1. PICK kind, model, session, account : Begin(s, kind, model, session, account)
    BY <1>4 DEF Arrive
  <2> QED BY <1>1, <2>1 DEF Begin
<1>5. CASE Choosing(s)
  <2>1. CASE TooDeep(s) BY <1>3, <2>1 DEF TooDeep
  <2>2. CASE LookupPin(s) BY <1>1, <1>2, <2>2 DEF LookupPin
  <2>3. CASE Unpin(s) BY <1>2, <2>3 DEF Unpin, GotoSelect
  <2>4. CASE SkipPin(s) BY <1>2, <2>4 DEF SkipPin, GotoSelect
  <2>5. CASE LookAtQuotas(s) BY <1>1, <2>5 DEF LookAtQuotas
  <2>6. CASE ProbeDone(s) BY <1>2, <2>6 DEF ProbeDone
  <2>7. CASE \E a \in Accounts : ProbeAnswer(s, a) BY <1>1, <2>7 DEF ProbeAnswer
  <2>8. CASE SelectNamed(s) BY <1>1, <1>2, <1>3, <2>8 DEF SelectNamed
  <2>9. CASE DropNamed(s) BY <1>1, <2>9 DEF DropNamed
  <2>10. CASE SelectAny(s) BY <1>1, <1>3, <2>10 DEF SelectAny
  <2>11. CASE TokenExpired(s) BY <1>3, <2>11 DEF TokenExpired
  <2>12. CASE Send(s) BY <1>1, <2>12 DEF Send
  <2> QED BY <1>5, <2>1, <2>2, <2>3, <2>4, <2>5, <2>6, <2>7, <2>8, <2>9, <2>10, <2>11, <2>12
          DEF Choosing
<1>6. CASE Answering(s)
  <2>1. CASE Succeeds(s) BY <1>2, <1>3, <2>1 DEF Succeeds
  <2>2. CASE Remember(s) BY <1>3, <2>2 DEF Remember
  <2>3. CASE Canceled(s) BY <1>3, <2>3 DEF Canceled
  <2>4. ASSUME NEW e \in Failures, NEW sent \in BOOLEAN, Fails(s, e, sent)
        PROVE  req'[r] = req[r]
    BY <1>1, <1>3, <2>4 DEF Fails, StopDelivered, SameAgain, MoveAway, Renewed, Reject
  <2>5. CASE PunishAndLook(s) BY <2>5 DEF PunishAndLook, RequestsInv
  <2> QED BY <1>6, <2>1, <2>2, <2>3, <2>4, <2>5 DEF Answering
<1> QED BY <1>4, <1>5, <1>6

\* So a request changes only by its own steps.
LEMMA OwnSteps ==
  ASSUME RequestsInv, Next, NEW r \in Requests
  PROVE  Arrive(r) \/ Choosing(r) \/ Answering(r) \/ req'[r] = req[r]
<1>1. ASSUME NEW s \in Requests, Arrive(s) \/ Choosing(s) \/ Answering(s), s # r
      PROVE  req'[r] = req[r]
  BY <1>1, OthersStay
<1>2. ASSUME NEW a \in Accounts, Switch(a) PROVE req'[r] = req[r] BY <1>2 DEF Switch
<1>3. ASSUME NEW s \in Sessions, PinExpires(s) PROVE req'[r] = req[r] BY <1>3 DEF PinExpires
<1>4. ASSUME Clock PROVE req'[r] = req[r] BY <1>4 DEF Clock
<1> QED BY <1>1, <1>2, <1>3, <1>4 DEF Next

\* The selections are the only steps from "select" to "token", and they and the
\* refusals the only ones out of it.
LEMMA SelectionSteps ==
  ASSUME RequestsInv, Next, NEW r \in Requests, At(r, "select"), req'[r] # req[r]
  PROVE  \/ SelectNamed(r) \/ SelectAny(r)
         \/ req'[r].pc = "select"
<1>1. req[r] \in RequestType BY DEF RequestsInv, RequestInv
<1>2. Choosing(r) \/ Arrive(r) \/ Answering(r) BY OwnSteps
<1>3. ~Arrive(r) BY DEF Arrive, Begin, At
<1>4. ~Answering(r)
  BY DEF Answering, Succeeds, Remember, Canceled, Fails, StopDelivered, SameAgain, MoveAway,
         Renewed, Reject, MayFail, PunishAndLook, At
<1>5. ASSUME NEW a \in Accounts, ProbeAnswer(r, a) PROVE req'[r].pc = "select"
  <2>1. req' = [req EXCEPT ![r] = [req[r] EXCEPT !.probing = @ \ {a}]]
    BY <1>5 DEF ProbeAnswer
  <2>2. [req[r] EXCEPT !.probing = @ \ {a}].pc = "select" BY <1>1 DEF At, RequestType
  <2> QED BY <2>1, <2>2 DEF RequestsInv
<1> QED BY <1>2, <1>3, <1>4, <1>5 DEF Choosing, TooDeep, LookupPin, Unpin, SkipPin, LookAtQuotas,
     ProbeDone, DropNamed, TokenExpired, Send, At

-----------------------------------------------------------------------------
(* Action properties *)

\* A chat request that is not bound takes no account that is limited for its
\* model, and one that cools down only when it has no other.
THEOREM SelectionIsSound == Spec => SelectionRespectsCooldowns
<1>1. RequestsInv /\ [Next]_vars =>
        \A r \in Requests :
          (Selects(r) /\ Chat(r) /\ ~req[r].fixed) =>
             LET m == req[r].model
                 a == req'[r].chosen
             IN  /\ ~ModelLimited(a, m)
                 /\ Until(a, m) > 0 =>
                       \A b \in Eligible(req[r].excluded) : Until(b, m) > 0
  <2> SUFFICES ASSUME RequestsInv, [Next]_vars, NEW r \in Requests,
                      Selects(r), Chat(r), ~req[r].fixed
               PROVE  LET m == req[r].model
                          a == req'[r].chosen
                      IN  /\ ~ModelLimited(a, m)
                          /\ Until(a, m) > 0 =>
                                \A b \in Eligible(req[r].excluded) : Until(b, m) > 0
    OBVIOUS
  <2> DEFINE q == req[r]
             m == q.model
  <2>1. /\ q \in RequestType /\ rows \in [Accounts -> RowType] /\ next \in Accounts
        /\ m \in Models \cup {NoModel}
    BY DEF RequestsInv, RequestInv, PoolInv, RequestType
  <2>2. At(r, "select") /\ req'[r].pc = "token" BY DEF Selects
  <2>3. Next /\ req'[r] # req[r] BY <2>2 DEF At, vars
  <2>4. SelectNamed(r) \/ SelectAny(r) BY <2>2, <2>3, SelectionSteps
  <2>5. CASE SelectNamed(r)
    <3> DEFINE a == q.account
    <3>1. a \in Accounts BY <2>1, <2>5 DEF SelectNamed, RequestType
    <3>2. \/ /\ ~(Until(a, m) > 0)
             /\ req' = [req EXCEPT ![r].pc = "token", ![r].chosen = a, ![r].bypass = FALSE]
          \/ Goto(r, "drop") \/ Goto(r, "release") \/ Answer(r, "unusable")
      BY <2>5 DEF SelectNamed
    <3>3. ~Goto(r, "drop") /\ ~Goto(r, "release")
      BY <2>1, <2>2 DEF Goto, RequestsInv, RequestType
    <3>4. ~Answer(r, "unusable")
      BY <2>2 DEF Answer, Answered, NewRequest, RequestsInv
    <3> DEFINE p == [q EXCEPT !.pc = "token", !.chosen = a, !.bypass = FALSE]
    <3>5. req' = [req EXCEPT ![r] = p] /\ ~(Until(a, m) > 0)
      BY <3>2, <3>3, <3>4
    <3>6. p.chosen = a BY <2>1 DEF RequestType
    <3> HIDE DEF p
    <3>7. req'[r].chosen = a BY <3>5, <3>6 DEF RequestsInv
    <3> QED BY <2>1, <3>1, <3>5, <3>7, UntilIsLast
  <2>6. CASE SelectAny(r)
    <3> DEFINE c == Choose(q.excluded, m)
    <3>1. ASSUME NEW outcome, Answer(r, outcome) PROVE FALSE
      BY <2>2, <3>1 DEF Answer, Answered, NewRequest, RequestsInv
    <3>2. c.account # None
          /\ req' = [req EXCEPT ![r].pc = "token", ![r].chosen = c.account, ![r].bypass = c.bypass]
      BY <2>6, <3>1 DEF SelectAny
    <3>3. req'[r].chosen = c.account BY <2>1, <3>2 DEF RequestsInv, RequestType
    <3> QED BY <2>1, <3>2, <3>3, ChoiceIsSound
  <2> QED BY <2>4, <2>5, <2>6
<1> QED BY <1>1, RequestsInvariant, PTL DEF Spec, SelectionRespectsCooldowns

\* Where a request has nothing under way or to answer for: what it was told upstream
\* it keeps for its client, unless the same account comes next.
ShownOK(q) ==
    /\ q.pc \notin {"upstream", "remember", "punish", "done"} /\ q.sent > 0
         => SameAccountNext(q) \/ q.outcome # NoError
    /\ q.pc # "done" => q.outcome \notin Exhausted

Shown == \A r \in Requests : ShownOK(req[r])

LEMMA ShownStep ==
  ASSUME RequestsInv, NEW r \in Requests, ShownOK(req[r]), Choosing(r) \/ Answering(r)
  PROVE  ShownOK(req'[r])
<1> DEFINE q == req[r]
           shown == ShownOK(req'[r])
<1> SUFFICES shown
  OBVIOUS
<1>1. RequestInv(q) /\ q \in RequestType BY DEF RequestsInv, RequestInv
<1>2. ASSUME NEW p, req' = [req EXCEPT ![r] = p],
             q.pc \notin {"upstream", "remember", "punish", "done"},
             p.sent = q.sent, p.error = q.error, p.kind = q.kind, p.outcome = q.outcome
      PROVE  shown
  <2>1. req'[r] = p BY <1>2 DEF RequestsInv
  <2> QED BY <1>2, <2>1 DEF ShownOK, SameAccountNext
<1>3. ASSUME NEW p, req' = [req EXCEPT ![r] = p], q.pc # "done",
             p.pc \in {"upstream", "remember", "punish"} \/ SameAccountNext(p),
             p.outcome = q.outcome
      PROVE  shown
  <2>1. req'[r] = p BY <1>3 DEF RequestsInv
  <2> QED BY <1>3, <2>1 DEF ShownOK
<1>4. ASSUME NEW request, NEW outcome, req' = [req EXCEPT ![r] = Answered(request, outcome)]
      PROVE  shown
  <2>1. req'[r] = Answered(request, outcome) BY <1>4 DEF RequestsInv
  <2> QED BY <2>1 DEF Answered, NewRequest, ShownOK
<1>5. ASSUME NEW pc \in PCs, Goto(r, pc), q.pc \notin {"upstream", "remember", "punish", "done"}
      PROVE  shown
  <2> DEFINE p == [q EXCEPT !.pc = pc]
  <2>1. req' = [req EXCEPT ![r] = p] BY <1>5 DEF Goto
  <2>2. p.sent = q.sent /\ p.error = q.error /\ p.kind = q.kind /\ p.outcome = q.outcome
    BY <1>1 DEF RequestType
  <2> HIDE DEF p, shown
  <2> QED BY <1>2, <1>5, <2>1, <2>2
<1>6. {"unpin", "look", "select", "drop", "release", "enter", "probe", "remember"} \subseteq PCs
  BY DEF PCs
<1>7. CASE Choosing(r)
  <2>1. CASE TooDeep(r) \/ TokenExpired(r) BY <1>4, <2>1 DEF TooDeep, TokenExpired, Answer
  <2>2. CASE LookupPin(r)
    <3> DEFINE p == [q EXCEPT !.pc = "select", !.account = pins[q.session]]
    <3>0. q.pc = "enter" BY <2>2 DEF LookupPin, At
    <3>1. req' = [req EXCEPT ![r] = p] \/ Goto(r, "unpin") BY <2>2 DEF LookupPin
    <3>2. p.sent = q.sent /\ p.error = q.error /\ p.kind = q.kind /\ p.outcome = q.outcome
      BY <1>1 DEF RequestType
    <3> HIDE DEF p, shown
    <3> QED BY <1>2, <1>5, <1>6, <3>0, <3>1, <3>2
  <2>3. CASE Unpin(r) \/ SkipPin(r)
    <3>1. q.pc \in {"unpin", "enter"} /\ (Goto(r, "look") \/ Goto(r, "select"))
      BY <2>3 DEF Unpin, SkipPin, GotoSelect, At
    <3> HIDE DEF shown
    <3> QED BY <1>5, <1>6, <3>1
  <2>4. CASE LookAtQuotas(r)
    <3>1. q.pc = "look" BY <2>4 DEF LookAtQuotas, At
    <3>2. PICK set : req' = [req EXCEPT ![r].pc = "probe", ![r].probing = set]
      BY <2>4 DEF LookAtQuotas
    <3> DEFINE p == [q EXCEPT !.pc = "probe", !.probing = set]
    <3>3. req' = [req EXCEPT ![r] = p] BY <3>2
    <3>4. p.sent = q.sent /\ p.error = q.error /\ p.kind = q.kind /\ p.outcome = q.outcome
      BY <1>1 DEF RequestType
    <3> HIDE DEF p, shown
    <3> QED BY <1>2, <3>1, <3>3, <3>4
  <2>5. ASSUME NEW a \in Accounts, ProbeAnswer(r, a) PROVE shown
    <3> DEFINE p == [q EXCEPT !.probing = @ \ {a}]
    <3>1. req' = [req EXCEPT ![r] = p] BY <2>5 DEF ProbeAnswer
    <3>2. /\ p.pc = q.pc /\ p.sent = q.sent /\ p.error = q.error /\ p.kind = q.kind
          /\ p.outcome = q.outcome
      BY <1>1 DEF RequestType
    <3> HIDE DEF p
    <3>3. req'[r] = p BY <3>1 DEF RequestsInv
    <3> QED BY <3>2, <3>3 DEF ShownOK, SameAccountNext
  <2>6. CASE ProbeDone(r)
    <3>1. q.pc \in {"probe", "reprobe"} /\ (Goto(r, "enter") \/ Goto(r, "select"))
      BY <2>6 DEF ProbeDone, At
    <3> HIDE DEF shown
    <3> QED BY <1>5, <1>6, <3>1
  <2>7. CASE SelectNamed(r)
    <3> DEFINE p == [q EXCEPT !.pc = "token", !.chosen = q.account, !.bypass = FALSE]
    <3>0. q.pc = "select" BY <2>7 DEF SelectNamed, At
    <3>1. \/ req' = [req EXCEPT ![r] = p]
          \/ Goto(r, "drop") \/ Goto(r, "release") \/ Answer(r, "unusable")
      BY <2>7 DEF SelectNamed
    <3>2. p.sent = q.sent /\ p.error = q.error /\ p.kind = q.kind /\ p.outcome = q.outcome
      BY <1>1 DEF RequestType
    <3> HIDE DEF p, shown
    <3> QED BY <1>2, <1>4, <1>5, <1>6, <3>0, <3>1, <3>2 DEF Answer
  <2>8. CASE DropNamed(r)
    <3>1. q.pc \in {"drop", "release"} BY <2>8 DEF DropNamed, At
    <3>2. PICK set : req' = [req EXCEPT ![r].pc = "enter", ![r].account = None, ![r].depth = @ + 1,
                                        ![r].excluded = set]
      BY <2>8 DEF DropNamed
    <3> DEFINE p == [q EXCEPT !.pc = "enter", !.account = None, !.depth = @ + 1, !.excluded = set]
    <3>3. req' = [req EXCEPT ![r] = p] BY <3>2
    <3>4. p.sent = q.sent /\ p.error = q.error /\ p.kind = q.kind /\ p.outcome = q.outcome
      BY <1>1 DEF RequestType
    <3> HIDE DEF p, shown
    <3> QED BY <1>2, <3>1, <3>3, <3>4
  <2>9. CASE SelectAny(r)
    <3> DEFINE c == Choose(q.excluded, q.model)
               p == [q EXCEPT !.pc = "token", !.chosen = c.account, !.bypass = c.bypass]
    <3>0. q.pc = "select" BY <2>9 DEF SelectAny, At
    <3>1. req' = [req EXCEPT ![r] = p] \/ \E outcome : Answer(r, outcome)
      BY <2>9 DEF SelectAny
    <3>2. p.sent = q.sent /\ p.error = q.error /\ p.kind = q.kind /\ p.outcome = q.outcome
      BY <1>1 DEF RequestType
    <3> HIDE DEF c, p, shown
    <3> QED BY <1>2, <1>4, <3>0, <3>1, <3>2 DEF Answer
  <2>10. CASE Send(r)
    <3> DEFINE p == [q EXCEPT !.pc = "upstream", !.sent = @ + 1]
    <3>1. q.pc = "token" /\ req' = [req EXCEPT ![r] = p] BY <2>10 DEF Send, At
    <3>2. p.pc = "upstream" /\ p.outcome = q.outcome BY <1>1 DEF RequestType
    <3> HIDE DEF p, shown
    <3> QED BY <1>3, <3>1, <3>2
  <2> HIDE DEF shown
  <2> QED BY <1>7, <2>1, <2>2, <2>3, <2>4, <2>5, <2>6, <2>7, <2>8, <2>9, <2>10 DEF Choosing
<1>8. CASE Answering(r)
  <2>1. CASE Succeeds(r)
    <3> DEFINE p == [q EXCEPT !.pc = "remember"]
    <3>1. q.pc = "upstream" /\ (req' = [req EXCEPT ![r] = p] \/ Answer(r, "ok"))
      BY <2>1 DEF Succeeds, Goto, At
    <3>2. p.pc = "remember" /\ p.outcome = q.outcome BY <1>1 DEF RequestType
    <3> HIDE DEF p, shown
    <3> QED BY <1>3, <1>4, <3>1, <3>2 DEF Answer
  <2>2. CASE Remember(r) \/ Canceled(r) BY <1>4, <2>2 DEF Remember, Canceled, Answer
  <2>3. ASSUME NEW e \in Failures, NEW sent \in BOOLEAN, Fails(r, e, sent) PROVE shown
    <3> DEFINE seen == Seen(r, e, sent)
    <3>1. CASE StopDelivered(r, e, sent) \/ Reject(r, e, sent)
      BY <1>4, <3>1 DEF StopDelivered, Reject
    <3>2. q.pc = "upstream" BY <2>3 DEF Fails, StopDelivered, SameAgain, MoveAway, Renewed, Reject,
                                        MayFail, At
    <3> DEFINE same == [seen EXCEPT !.pc = "enter", !.account = q.chosen,
                                    !.resets = @ + 1, !.depth = @ + 1]
               renewed == [seen EXCEPT !.pc = "enter", !.account = q.chosen,
                                       !.refreshed = TRUE, !.depth = @ + 1]
               away == [seen EXCEPT !.pc = "punish"]
    <3>4. CASE SameAgain(r, e, sent)
      <4>1. req' = [req EXCEPT ![r] = same] /\ q.kind = "chat" /\ e = "transport"
        BY <3>4 DEF SameAgain, MaySameAgain, Chat
      <4>2. same.error = e /\ same.kind = q.kind /\ same.outcome = q.outcome
        BY <1>1 DEF Seen, RequestType
      <4> HIDE DEF same, shown
      <4> QED BY <1>3, <3>2, <4>1, <4>2 DEF SameAccountNext
    <3>5. CASE Renewed(r, e, sent)
      <4>1. req' = [req EXCEPT ![r] = renewed] /\ e = "auth"
        BY <3>5 DEF Renewed, RefreshableError
      <4>2. renewed.error = e /\ renewed.outcome = q.outcome
        BY <1>1 DEF Seen, RequestType
      <4> HIDE DEF renewed, shown
      <4> QED BY <1>3, <3>2, <4>1, <4>2 DEF SameAccountNext
    <3>6. CASE MoveAway(r, e, sent)
      <4>1. req' = [req EXCEPT ![r] = away]
        BY <3>6 DEF MoveAway
      <4>2. away.pc = "punish" /\ away.outcome = q.outcome
        BY <1>1 DEF Seen, RequestType
      <4> HIDE DEF away, shown
      <4> QED BY <1>3, <3>2, <4>1, <4>2
    <3> HIDE DEF shown
    <3> QED BY <2>3, <3>1, <3>4, <3>5, <3>6 DEF Fails
  <2>4. CASE PunishAndLook(r)
    <3>1. q.pc = "punish" /\ q.error \in Errors
      BY <1>1, <2>4 DEF PunishAndLook, At, RequestInv, PunishOK
    <3>2. req'[r].outcome = q.error
      BY <1>1, <2>4 DEF PunishAndLook, RequestsInv, RequestType
    <3> QED BY <3>1, <3>2 DEF ShownOK, Errors, Exhausted, NoError
  <2> HIDE DEF shown
  <2> QED BY <1>8, <2>1, <2>2, <2>3, <2>4 DEF Answering
<1> QED BY <1>7, <1>8

LEMMA ShownKept == RequestsInv /\ Shown /\ [Next]_vars => Shown'
<1> SUFFICES ASSUME RequestsInv, Shown, [Next]_vars, NEW r \in Requests
             PROVE  ShownOK(req'[r])
  BY DEF Shown
<1>1. ShownOK(req[r]) /\ req[r] \in RequestType BY DEF Shown, RequestsInv, RequestInv
<1>2. CASE req'[r] = req[r] BY <1>1, <1>2
<1>3. CASE Choosing(r) \/ Answering(r) BY <1>1, <1>3, ShownStep
<1>4. CASE Arrive(r)
  <2>1. PICK kind, model, session, account : Begin(r, kind, model, session, account)
    BY <1>4 DEF Arrive
  <2>2. req[r] = NewRequest BY <2>1 DEF Begin, At, RequestsInv, RequestInv, FreshOK
  <2>3. ~(req'[r].sent > 0) /\ req'[r].outcome = NoError
    BY <1>1, <2>1, <2>2 DEF Begin, RequestsInv, RequestType, NewRequest
  <2>4. NoError \notin Exhausted BY DEF NoError, Exhausted
  <2> QED BY <2>3, <2>4 DEF ShownOK
<1>5. CASE UNCHANGED vars BY <1>2, <1>5 DEF vars
<1>6. CASE Next BY <1>2, <1>3, <1>4, <1>6, OwnSteps
<1> QED BY <1>5, <1>6

LEMMA ShownInit == Init => Shown
<1>1. NoError \notin Exhausted BY DEF NoError, Exhausted
<1>2. ~(NewRequest.sent > 0) /\ NewRequest.outcome = NoError BY DEF NewRequest
<1> QED BY <1>1, <1>2 DEF Init, Shown, ShownOK

\* Only two steps answer with an error of the pool.
LEMMA PoolsOwnErrors ==
  ASSUME RequestsInv, Shown, Next, NEW r \in Requests, ~At(r, "done"), req'[r].pc = "done",
         req'[r] # req[r], req'[r].outcome \in Exhausted
  PROVE  (TooDeep(r) \/ SelectAny(r)) /\ req[r].pc \in {"enter", "select"}
<1> DEFINE q == req[r]
<1>1. RequestInv(q) /\ q \in RequestType /\ ShownOK(q)
  BY DEF RequestsInv, RequestInv, Shown
<1>2. q.outcome \notin Exhausted BY <1>1 DEF ShownOK, At
<1>3. ASSUME NEW request, NEW outcome, req' = [req EXCEPT ![r] = Answered(request, outcome)],
             request.outcome = q.outcome, outcome \notin Exhausted
      PROVE  FALSE
  <2>1. req'[r].outcome \in {request.outcome, outcome}
    BY <1>3 DEF Answered, NewRequest, RequestsInv
  <2> QED BY <1>2, <1>3, <2>1
<1>4. ASSUME NEW outcome, Answer(r, outcome), outcome \notin Exhausted PROVE FALSE
  BY <1>3, <1>4 DEF Answer
<1>5. ASSUME NEW p, req' = [req EXCEPT ![r] = p], p.pc # "done" \/ p.outcome = q.outcome PROVE FALSE
  <2>1. req'[r] = p BY <1>5 DEF RequestsInv
  <2> QED BY <1>2, <1>5, <2>1
<1>6. ASSUME NEW pc, Goto(r, pc) PROVE FALSE
  <2> DEFINE p == [q EXCEPT !.pc = pc]
  <2>1. req' = [req EXCEPT ![r] = p] BY <1>6 DEF Goto
  <2>2. p.outcome = q.outcome BY <1>1 DEF RequestType
  <2> HIDE DEF p
  <2> QED BY <1>5, <2>1, <2>2
<1>7. {"ok", "canceled", "unusable", "relogin"} \cap Exhausted = {} /\ Errors \cap Exhausted = {}
  BY DEF Errors, Exhausted
<1>8. ~Arrive(r)
  <2>1. \A kind, model, session, account :
          Begin(r, kind, model, session, account) => req'[r].outcome = q.outcome
    BY <1>1 DEF Begin, RequestsInv, RequestType
  <2> QED BY <1>2, <2>1 DEF Arrive
<1>9. ASSUME Choosing(r) PROVE TooDeep(r) \/ SelectAny(r)
  <2>1. ~TokenExpired(r) BY <1>4, <1>7 DEF TokenExpired
  <2>2. ~LookupPin(r) /\ ~LookAtQuotas(r) /\ ~Send(r) /\ ~DropNamed(r)
        /\ \A a \in Accounts : ~ProbeAnswer(r, a)
    <3>1. ASSUME NEW account, req' = [req EXCEPT ![r].account = account, ![r].pc = "select"]
          PROVE  FALSE
      <4>1. req'[r].outcome = q.outcome BY <1>1, <3>1 DEF RequestsInv, RequestType
      <4> QED BY <1>2, <4>1
    <3>2. ~LookupPin(r) BY <1>6, <3>1 DEF LookupPin
    <3>3. LookAtQuotas(r) => req'[r].outcome = q.outcome
      BY <1>1 DEF LookAtQuotas, RequestsInv, RequestType
    <3>4. Send(r) => req'[r].outcome = q.outcome BY <1>1 DEF Send, RequestsInv, RequestType
    <3>5. DropNamed(r) => req'[r].outcome = q.outcome
      BY <1>1 DEF DropNamed, RequestsInv, RequestType
    <3>6. \A a \in Accounts : ProbeAnswer(r, a) => req'[r].outcome = q.outcome
      BY <1>1 DEF ProbeAnswer, RequestsInv, RequestType
    <3> QED BY <1>2, <3>2, <3>3, <3>4, <3>5, <3>6
  <2>3. ~Unpin(r) /\ ~SkipPin(r) /\ ~ProbeDone(r)
    BY <1>6 DEF Unpin, SkipPin, ProbeDone, GotoSelect
  <2>4. ~SelectNamed(r)
    <3> DEFINE p == [q EXCEPT !.pc = "token", !.chosen = q.account, !.bypass = FALSE]
    <3>1. SelectNamed(r) => \/ req' = [req EXCEPT ![r] = p]
                            \/ Goto(r, "drop") \/ Goto(r, "release") \/ Answer(r, "unusable")
      BY DEF SelectNamed
    <3>2. p.outcome = q.outcome BY <1>1 DEF RequestType
    <3> HIDE DEF p
    <3> QED BY <1>4, <1>5, <1>6, <1>7, <3>1, <3>2
  <2> QED BY <1>9, <2>1, <2>2, <2>3, <2>4 DEF Choosing
<1>10. ~Answering(r)
  <2>1. ~Succeeds(r) BY <1>4, <1>6, <1>7 DEF Succeeds
  <2>2. ~Remember(r) /\ ~Canceled(r) BY <1>4, <1>7 DEF Remember, Canceled
  <2>3. ASSUME NEW e \in Failures, NEW sent \in BOOLEAN, Fails(r, e, sent) PROVE FALSE
    <3>0. e \notin Exhausted BY <1>7, FailuresAreErrors
    <3>1. ~StopDelivered(r, e, sent) /\ ~Reject(r, e, sent)
      <4>1. Seen(r, e, sent).outcome = q.outcome BY <1>1 DEF Seen, RequestType
      <4> QED BY <1>3, <3>0, <4>1 DEF StopDelivered, Reject
    <3>2. ~SameAgain(r, e, sent)
      <4> DEFINE p == [Seen(r, e, sent) EXCEPT !.pc = "enter", !.account = q.chosen,
                                               !.resets = @ + 1, !.depth = @ + 1]
      <4>1. p.outcome = q.outcome BY <1>1 DEF Seen, RequestType
      <4>2. SameAgain(r, e, sent) => req' = [req EXCEPT ![r] = p] BY DEF SameAgain
      <4> HIDE DEF p
      <4> QED BY <1>5, <4>1, <4>2
    <3>3. ~Renewed(r, e, sent)
      <4> DEFINE p == [Seen(r, e, sent) EXCEPT !.pc = "enter", !.account = q.chosen,
                                               !.refreshed = TRUE, !.depth = @ + 1]
      <4>1. p.outcome = q.outcome BY <1>1 DEF Seen, RequestType
      <4>2. Renewed(r, e, sent) => req' = [req EXCEPT ![r] = p] BY DEF Renewed
      <4> HIDE DEF p
      <4> QED BY <1>5, <4>1, <4>2
    <3>4. ~MoveAway(r, e, sent)
      <4> DEFINE p == [Seen(r, e, sent) EXCEPT !.pc = "punish"]
      <4>1. p.outcome = q.outcome BY <1>1 DEF Seen, RequestType
      <4>2. MoveAway(r, e, sent) => req' = [req EXCEPT ![r] = p] BY DEF MoveAway
      <4> HIDE DEF p
      <4> QED BY <1>5, <4>1, <4>2
    <3> QED BY <2>3, <3>1, <3>2, <3>3, <3>4 DEF Fails
  <2>4. ~PunishAndLook(r)
    <3> SUFFICES ASSUME PunishAndLook(r) PROVE FALSE
      OBVIOUS
    <3>1. q.pc = "punish" /\ q.error \in Errors
      BY <1>1 DEF PunishAndLook, At, RequestInv, PunishOK
    <3>2. req'[r].outcome = q.error
      BY <1>1 DEF PunishAndLook, RequestsInv, RequestType
    <3> QED BY <1>7, <3>1, <3>2
  <2> QED BY <2>1, <2>2, <2>3, <2>4 DEF Answering
<1>11. TooDeep(r) \/ SelectAny(r) BY <1>8, <1>9, <1>10, OwnSteps
<1> QED BY <1>11 DEF TooDeep, SelectAny, At

\* A request turned away without an account has tried, or may not try, every
\* one; and the error of the pool is all its client is told only if upstream has
\* told nothing, or the same account was to be tried again.
THEOREM RefusalIsSound == Spec => TurnedAwayForCause
<1>1. RequestsInv /\ Shown /\ [Next]_vars =>
        \A r \in Requests : ~At(r, "done") /\ req'[r].pc = "done" =>
          /\ At(r, "select") /\ req[r].account = None =>
                \A a \in Eligible(req[r].excluded) : ModelLimited(a, req[r].model)
          /\ req'[r].outcome \in Exhausted => req[r].sent = 0 \/ SameAccountNext(req[r])
  <2> SUFFICES ASSUME RequestsInv, Shown, [Next]_vars, NEW r \in Requests,
                      ~At(r, "done"), req'[r].pc = "done"
               PROVE  /\ At(r, "select") /\ req[r].account = None =>
                            \A a \in Eligible(req[r].excluded) : ModelLimited(a, req[r].model)
                      /\ req'[r].outcome \in Exhausted =>
                            req[r].sent = 0 \/ SameAccountNext(req[r])
    OBVIOUS
  <2> DEFINE q == req[r]
  <2>1. /\ q \in RequestType /\ rows \in [Accounts -> RowType] /\ next \in Accounts
        /\ q.model \in Models \cup {NoModel}
    BY DEF RequestsInv, RequestInv, PoolInv, RequestType
  <2>2. Next /\ req'[r] # req[r] BY DEF At, vars
  <2>3. ASSUME At(r, "select"), q.account = None
        PROVE  \A a \in Eligible(q.excluded) : ModelLimited(a, q.model)
    <3> DEFINE c == Choose(q.excluded, q.model)
    <3>1. SelectAny(r) BY <2>2, <2>3, SelectionSteps DEF SelectNamed
    <3>2. ~(req' = [req EXCEPT ![r].pc = "token", ![r].chosen = c.account, ![r].bypass = c.bypass])
      BY <2>1 DEF RequestsInv, RequestType
    <3>3. c.account = None BY <3>1, <3>2 DEF SelectAny
    <3> QED BY <2>1, <3>3, ChoiceIsSound
  <2>4. ASSUME req'[r].outcome \in Exhausted PROVE q.sent = 0 \/ SameAccountNext(q)
    <3>1. (TooDeep(r) \/ SelectAny(r)) /\ q.pc \in {"enter", "select"}
      BY <2>2, <2>4, PoolsOwnErrors
    <3>2. q.outcome \notin Exhausted /\ (q.sent > 0 => SameAccountNext(q) \/ q.outcome # NoError)
      BY <3>1 DEF Shown, ShownOK
    <3>3. \E outcome \in Exhausted : Answer(r, outcome)
      <4> DEFINE c == Choose(q.excluded, q.model)
      <4>1. ~(req' = [req EXCEPT ![r].pc = "token", ![r].chosen = c.account,
                                 ![r].bypass = c.bypass])
        BY <2>1 DEF RequestsInv, RequestType
      <4> QED BY <3>1, <4>1 DEF TooDeep, SelectAny, Exhausted
    <3>4. q.outcome = NoError
      <4>1. PICK outcome \in Exhausted : req' = [req EXCEPT ![r] = Answered(q, outcome)]
        BY <3>3 DEF Answer
      <4>2. req'[r].outcome = IF q.outcome # NoError THEN q.outcome ELSE outcome
        BY <4>1 DEF Answered, NewRequest, RequestsInv
      <4> QED BY <2>4, <3>2, <4>2
    <3>5. q.sent \in Nat BY <2>1 DEF RequestType
    <3> QED BY <3>2, <3>4, <3>5
  <2> QED BY <2>3, <2>4
<1> QED BY <1>1, RequestsInvariant, ShownInit, ShownKept, PTL DEF Spec, TurnedAwayForCause

\* Where no search runs, what has been delivered is never sent for again.
THEOREM DeliveredIsFinal ==
  ASSUME "search" \notin Kinds
  PROVE  Spec => DeliveredNotReplayed
<1>1. RequestsInv /\ [Next]_vars =>
        \A r \in Requests : req[r].delivered => req'[r].sent = req[r].sent
  <2> SUFFICES ASSUME RequestsInv, [Next]_vars, NEW r \in Requests, req[r].delivered
               PROVE  req'[r].sent = req[r].sent
    OBVIOUS
  <2>1. req[r] \in RequestType /\ req[r].pc = "done"
    BY DEF RequestsInv, RequestInv, DeliveredOK
  <2>2. ASSUME NEW a \in Accounts, ProbeAnswer(r, a) PROVE req'[r].sent = req[r].sent
    <3>1. req' = [req EXCEPT ![r] = [req[r] EXCEPT !.probing = @ \ {a}]]
      BY <2>2 DEF ProbeAnswer
    <3>2. [req[r] EXCEPT !.probing = @ \ {a}].sent = req[r].sent BY <2>1 DEF RequestType
    <3> QED BY <3>1, <3>2 DEF RequestsInv
  <2>3. CASE Choosing(r)
    BY <2>1, <2>2, <2>3
    DEF Choosing, TooDeep, LookupPin, Unpin, SkipPin, LookAtQuotas, ProbeDone, SelectNamed,
        DropNamed, SelectAny, TokenExpired, Send, At
  <2>4. ~Answering(r)
    BY <2>1 DEF Answering, Succeeds, Remember, Canceled, Fails, StopDelivered, SameAgain,
       MoveAway, Renewed, Reject, MayFail, PunishAndLook, At
  <2>5. ~Arrive(r) BY <2>1 DEF Arrive, Begin, At
  <2>6. CASE UNCHANGED vars BY <2>6 DEF vars
  <2>7. CASE Next BY <2>3, <2>4, <2>5, <2>7, OwnSteps
  <2> QED BY <2>6, <2>7
<1> QED BY <1>1, RequestsInvariant, PTL DEF Spec, DeliveredNotReplayed

\* A bound request is answered, or keeps the account it is bound to.
LEMMA BoundStep ==
  ASSUME RequestsInv, NEW r \in Requests, Choosing(r) \/ Answering(r), req[r].fixed
  PROVE  \/ req'[r].pc = "done"
         \/ req'[r].account = req[r].account /\ req'[r].fixed
<1> DEFINE q == req[r]
           stays == \/ req'[r].pc = "done"
                    \/ req'[r].account = q.account /\ req'[r].fixed
<1> SUFFICES stays
  OBVIOUS
<1>1. RequestInv(q) /\ q \in RequestType BY DEF RequestsInv, RequestInv
<1>2. /\ q.pc \in {"enter", "select", "token", "upstream", "remember"}
      /\ q.account # None /\ q.chosen \in {None, q.account} /\ q.fixed
  BY <1>1 DEF RequestInv, BoundOK
<1>3. ASSUME NEW p, req' = [req EXCEPT ![r] = p], p.account = q.account, p.fixed = q.fixed
      PROVE  stays
  <2>1. req'[r] = p BY <1>3 DEF RequestsInv
  <2> QED BY <1>2, <1>3, <2>1
<1>4. ASSUME NEW pc \in PCs, Goto(r, pc) PROVE stays
  <2> DEFINE p == [q EXCEPT !.pc = pc]
  <2>1. req' = [req EXCEPT ![r] = p] BY <1>4 DEF Goto
  <2>2. p.account = q.account /\ p.fixed = q.fixed BY <1>1 DEF RequestType
  <2> HIDE DEF p, stays
  <2> QED BY <1>3, <2>1, <2>2
<1>5. ASSUME NEW request, NEW outcome, req' = [req EXCEPT ![r] = Answered(request, outcome)]
      PROVE  stays
  <2>1. req'[r] = Answered(request, outcome) BY <1>5 DEF RequestsInv
  <2> QED BY <2>1 DEF Answered, NewRequest
<1>6. CASE Choosing(r)
  <2>1. CASE TooDeep(r) \/ TokenExpired(r) BY <1>5, <2>1 DEF TooDeep, TokenExpired, Answer
  <2>2. CASE SkipPin(r)
    <3>1. "look" \in PCs /\ "select" \in PCs BY DEF PCs
    <3> HIDE DEF stays
    <3> QED BY <1>4, <2>2, <3>1 DEF SkipPin, GotoSelect
  <2>3. ASSUME NEW a \in Accounts, ProbeAnswer(r, a) PROVE stays
    <3> DEFINE p == [q EXCEPT !.probing = @ \ {a}]
    <3>1. req' = [req EXCEPT ![r] = p] BY <2>3 DEF ProbeAnswer
    <3>2. p.account = q.account /\ p.fixed = q.fixed BY <1>1 DEF RequestType
    <3> HIDE DEF p, stays
    <3> QED BY <1>3, <3>1, <3>2
  <2>4. CASE SelectNamed(r)
    <3> DEFINE p == [q EXCEPT !.pc = "token", !.chosen = q.account, !.bypass = FALSE]
    <3>1. \/ req' = [req EXCEPT ![r] = p]
          \/ Goto(r, "drop") \/ Goto(r, "release") \/ Answer(r, "unusable")
      BY <2>4 DEF SelectNamed
    <3>2. p.account = q.account /\ p.fixed = q.fixed BY <1>1 DEF RequestType
    <3>3. "drop" \in PCs /\ "release" \in PCs BY DEF PCs
    <3> HIDE DEF p, stays
    <3> QED BY <1>3, <1>4, <1>5, <3>1, <3>2, <3>3 DEF Answer
  <2>5. CASE Send(r)
    <3> DEFINE p == [q EXCEPT !.pc = "upstream", !.sent = @ + 1]
    <3>1. req' = [req EXCEPT ![r] = p] BY <2>5 DEF Send
    <3>2. p.account = q.account /\ p.fixed = q.fixed BY <1>1 DEF RequestType
    <3> HIDE DEF p, stays
    <3> QED BY <1>3, <3>1, <3>2
  <2>6. ~LookupPin(r) /\ ~Unpin(r) /\ ~LookAtQuotas(r) /\ ~ProbeDone(r) /\ ~DropNamed(r)
        /\ ~SelectAny(r)
    BY <1>2 DEF LookupPin, Pinned, Unpin, LookAtQuotas, ProbeDone, DropNamed, SelectAny, At
  <2> QED BY <1>6, <2>1, <2>2, <2>3, <2>4, <2>5, <2>6 DEF Choosing
<1>7. CASE Answering(r)
  <2>1. CASE Succeeds(r)
    <3>1. "remember" \in PCs BY DEF PCs
    <3> HIDE DEF stays
    <3> QED BY <1>4, <1>5, <2>1, <3>1 DEF Succeeds, Answer
  <2>2. CASE Remember(r) \/ Canceled(r) BY <1>5, <2>2 DEF Remember, Canceled, Answer
  <2>3. ASSUME NEW e \in Failures, NEW sent \in BOOLEAN, Fails(r, e, sent) PROVE stays
    <3> DEFINE seen == Seen(r, e, sent)
    <3>1. CASE StopDelivered(r, e, sent) \/ Reject(r, e, sent)
      BY <1>5, <3>1 DEF StopDelivered, Reject, Answer
    <3>2. ~MoveAway(r, e, sent) BY <1>2 DEF MoveAway, MayMoveOn
    <3>3. CASE SameAgain(r, e, sent) \/ Renewed(r, e, sent)
      <4>1. q.pc = "upstream" /\ MayFail(r, e, sent) /\ ~MustStop(r, sent)
        BY <3>3 DEF SameAgain, Renewed, MayFail, At
      <4>2. q.chosen = q.account
        <5>1. q.chosen \in Accounts BY <1>1, <4>1 DEF RequestInv, GivenUpOK, Holding
        <5> QED BY <1>2, <5>1 DEF None, Accounts
      <4>3. seen \in RequestType /\ seen.fixed = q.fixed
        BY ONLY RequestsInv, r \in Requests, e \in Failures, sent \in BOOLEAN, <4>1, SeenType
      <4> DEFINE same == [seen EXCEPT !.pc = "enter", !.account = q.chosen,
                                      !.resets = @ + 1, !.depth = @ + 1]
                 renewed == [seen EXCEPT !.pc = "enter", !.account = q.chosen,
                                         !.refreshed = TRUE, !.depth = @ + 1]
      <4>4. req' = [req EXCEPT ![r] = same] \/ req' = [req EXCEPT ![r] = renewed]
        BY <3>3 DEF SameAgain, Renewed
      <4> HIDE DEF seen
      <4>5. /\ same.account = q.chosen /\ same.fixed = q.fixed
            /\ renewed.account = q.chosen /\ renewed.fixed = q.fixed
        BY <4>3 DEF RequestType
      <4> HIDE DEF same, renewed, stays
      <4> QED BY <1>3, <4>2, <4>4, <4>5
    <3> QED BY <2>3, <3>1, <3>2, <3>3 DEF Fails
  <2>4. ~PunishAndLook(r) BY <1>2 DEF PunishAndLook, At
  <2> QED BY <1>7, <2>1, <2>2, <2>3, <2>4 DEF Answering
<1> QED BY <1>6, <1>7

\* A bound request is served by its account or not at all.
THEOREM BoundRequestsStay == Spec => BoundStays
<1>1. RequestsInv /\ RequestsInv' /\ [Next]_vars =>
        \A r \in Requests : req[r].fixed =>
          \/ req'[r].pc = "done"
          \/ req'[r].account = req[r].account /\ req'[r].chosen \in {None, req[r].account}
  <2> SUFFICES ASSUME RequestsInv, RequestsInv', [Next]_vars, NEW r \in Requests, req[r].fixed
               PROVE  \/ req'[r].pc = "done"
                      \/ /\ req'[r].account = req[r].account
                         /\ req'[r].chosen \in {None, req[r].account}
    OBVIOUS
  <2>1. BoundOK(req[r]) /\ BoundOK(req'[r]) BY DEF RequestsInv, RequestInv
  <2>2. CASE req'[r] = req[r] BY <2>1, <2>2 DEF BoundOK
  <2>3. CASE Choosing(r) \/ Answering(r)
    <3>1. \/ req'[r].pc = "done"
          \/ req'[r].account = req[r].account /\ req'[r].fixed
      BY <2>3, BoundStep
    <3> QED BY <2>1, <3>1 DEF BoundOK
  <2>4. ~Arrive(r)
    <3>1. req[r].pc # "idle" BY <2>1 DEF BoundOK
    <3>2. \A kind, model, session, account : ~Begin(r, kind, model, session, account)
      BY <3>1 DEF Begin, At
    <3> QED BY <3>2 DEF Arrive
  <2>5. CASE UNCHANGED vars BY <2>2, <2>5 DEF vars
  <2>6. CASE Next BY <2>2, <2>3, <2>4, <2>6, OwnSteps
  <2> QED BY <2>5, <2>6
<1> QED BY <1>1, RequestsInvariant, PTL DEF Spec, BoundStays

=============================================================================
