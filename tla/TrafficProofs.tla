---------------------------- MODULE TrafficProofs -----------------------------
(***************************************************************************)
(* Theorems about the way of a request in and out: Admission, SearchRound  *)
(* and Egress, and about those who look on: Tracker and Watch.             *)
(***************************************************************************)
EXTENDS Admission, SearchRound, Egress, Tracker, Watch,
        FiniteSetTheorems, SequenceTheorems, WellFoundedInduction, TLAPS

-----------------------------------------------------------------------------
(* Numbers *)

\* A set of numbers has a smallest one.
LEMMA SmallestOf ==
  ASSUME NEW S \in SUBSET Nat, S # {}
  PROVE  \E m \in S : \A n \in S : m <= n
  <1> DEFINE R == {p \in Nat \X Nat : p[1] < p[2]}
  <1>1. R = OpToRel(<, Nat)
    BY DEF OpToRel
  <1>2. IsWellFoundedOn(R, Nat)
    BY <1>1, NatLessThanWellFounded
  <1> HIDE DEF R
  <1>3. PICK m \in S : \A n \in S : ~(<<n, m>> \in R)
    BY <1>2, WFMin
  <1>4. \A n \in S : ~(n < m)
    BY <1>3 DEF R
  <1>5. QED
    BY <1>4

\* A set of numbers with a bound has a greatest one.
LEMMA GreatestOf ==
  ASSUME NEW S \in SUBSET Nat, S # {}, NEW n \in Nat, \A x \in S : x <= n
  PROVE  Max(S) \in S
  <1> DEFINE left == {n - x : x \in S}
  <1>1. \A x \in S : n - x \in Nat
    OBVIOUS
  <1>2. left \in SUBSET Nat /\ left # {}
    BY <1>1
  <1>3. PICK least \in left : \A y \in left : least <= y
    BY <1>2, SmallestOf
  <1>4. PICK x \in S : least = n - x
    BY <1>3
  <1>5. \A y \in S : n - x <= n - y
    BY <1>3, <1>4
  <1>6. \A y \in S : x >= y
    BY <1>5
  <1>7. QED
    BY <1>6 DEF Max

LEMMA GreaterOfTwo ==
  ASSUME NEW x \in Nat, NEW y \in Nat
  PROVE  LET m == Max({x, y}) IN m \in Nat /\ (m = x \/ m = y)
  <1> DEFINE n == IF x <= y THEN y ELSE x
  <1>1. n \in Nat /\ \A z \in {x, y} : z <= n
    OBVIOUS
  <1>2. Max({x, y}) \in {x, y}
    BY <1>1, GreatestOf
  <1>3. QED
    BY <1>2

-----------------------------------------------------------------------------
(* Admission *)

AdmissionTypeOK ==
    /\ gate \in [required : BOOLEAN, active : RequestSites, list : Seq(Entries)]
    /\ pooled \in [PoolAccounts -> [site : RequestSites, usable : BOOLEAN]]
    /\ request \in [step : {"arrived", "admitted", "refused", "routed", "sent"},
                    key : ApiKeys \cup {Unnamed},
                    prefix : RequestSites \cup {Unnamed}, header : RequestSites \cup {Unnamed},
                    binding : [site : RequestSites \cup {Unnamed},
                               account : PoolAccounts \cup {Unnamed}],
                    site : RequestSites \cup {Unnamed},
                    account : PoolAccounts \cup {Unnamed},
                    reached : RequestSites \cup {Unnamed}]

\* What the key stands for is fixed at the gate, and the site the request asks
\* for when it is routed; what happens to keys and accounts later is no matter.
RoutedOK ==
    request.step = "routed" =>
        /\ request.site = ResolveRequestSite
        /\ Bound => request.site = request.binding.site

AdmissionInv == AdmissionTypeOK /\ RoutedOK /\ KeyDecides

LEMMA AdmissionInvInit == AdmissionInit => AdmissionInv
  <1> SUFFICES ASSUME AdmissionInit PROVE AdmissionInv
    OBVIOUS
  <1>1. AdmissionTypeOK
    <2>1. UNION {[1 .. n -> Entries] : n \in 0 .. 1} \subseteq Seq(Entries)
      <3>1. ASSUME NEW n \in 0 .. 1, NEW f \in [1 .. n -> Entries] PROVE f \in Seq(Entries)
        <4>1. n \in Nat
          OBVIOUS
        <4>2. QED
          BY <4>1, SeqDef
      <3>2. QED
        BY <3>1
    <2>2. gate \in [required : BOOLEAN, active : RequestSites, list : Seq(Entries)]
      BY <2>1 DEF AdmissionInit
    <2>3. pooled \in [PoolAccounts -> [site : RequestSites, usable : BOOLEAN]]
      BY DEF AdmissionInit
    <2>4. QED
      BY <2>2, <2>3 DEF AdmissionInit, AdmissionTypeOK, Arrivals
  <1>2. request.step = "arrived"
    BY DEF AdmissionInit, Arrivals
  <1>3. QED
    BY <1>1, <1>2 DEF AdmissionInv, RoutedOK, KeyDecides

LEMMA AdmissionInvNext == AdmissionInv /\ [AdmissionNext]_admissionVars => AdmissionInv'
  <1> SUFFICES ASSUME AdmissionInv, [AdmissionNext]_admissionVars PROVE AdmissionInv'
    OBVIOUS
  <1> USE DEF AdmissionInv
  <1>1. CASE Authorize
    <2>1. AdmissionTypeOK' BY <1>1 DEF Authorize, AdmissionTypeOK
    <2>2. request'.step = "admitted" BY <1>1 DEF Authorize, AdmissionTypeOK
    <2>3. QED BY <2>1, <2>2 DEF RoutedOK, KeyDecides
  <1>2. CASE Refused
    <2>1. AdmissionTypeOK' BY <1>2 DEF Refused, AdmissionTypeOK
    <2>2. request'.step = "refused" BY <1>2 DEF Refused, AdmissionTypeOK
    <2>3. QED BY <2>1, <2>2 DEF RoutedOK, KeyDecides
  <1>3. CASE Route
    <2>1. AdmissionTypeOK' BY <1>3 DEF Route, AdmissionTypeOK, ResolveRequestSite
    <2>2. RoutedOK'
      BY <1>3 DEF Route, AdmissionTypeOK, RoutedOK, Bound, ResolveRequestSite
    <2>3. request'.step = "routed" BY <1>3 DEF Route, AdmissionTypeOK
    <2>4. QED BY <2>1, <2>2, <2>3 DEF KeyDecides
  <1>4. CASE Choose
    <2> PICK a \in Eligible :
          request' = [request EXCEPT !.step = "sent", !.account = a, !.site = RequestSite,
                                     !.reached = pooled[a].site]
      BY <1>4 DEF Choose
    <2>1. AdmissionTypeOK' BY <1>4 DEF Choose, AdmissionTypeOK, RequestSite, Eligible
    <2>2. request'.step = "sent" BY DEF AdmissionTypeOK
    <2>3. /\ request'.account = a /\ request'.reached = RequestSite
          /\ request'.binding = request.binding
          /\ request'.prefix = request.prefix /\ request'.header = request.header
      BY DEF AdmissionTypeOK, Eligible
    <2>4. /\ request.step = "routed"
          /\ Bound => a = request.binding.account
      BY <1>4 DEF Choose, Eligible
    <2>5. request.site = ResolveRequestSite /\ (Bound => request.site = request.binding.site)
      BY <2>4 DEF RoutedOK
    <2>6. request.site # Unnamed => request'.reached = request.site
      BY <2>3 DEF RequestSite
    <2>7. Bound' = Bound
      BY <2>3 DEF Bound
    <2>8. request.binding.site # Unnamed
              /\ (Bound \/ (request.prefix = Unnamed /\ request.header = Unnamed))
            => request'.reached = request.binding.site
      BY <2>5, <2>6 DEF ResolveRequestSite
    <2>9. /\ request.prefix # Unnamed => request'.reached = request.prefix
          /\ request.prefix = Unnamed /\ request.header # Unnamed
               => request'.reached = request.header
      BY <2>5, <2>6 DEF ResolveRequestSite
    <2>10. KeyDecides'
      BY <2>3, <2>4, <2>7, <2>8, <2>9 DEF KeyDecides, Bound
    <2>11. QED BY <2>1, <2>2, <2>10 DEF RoutedOK
  <1>5. CASE OperatorChanges
    <2>1. request' = request BY <1>5 DEF OperatorChanges
    <2>2. AdmissionTypeOK'
      <3>1. CASE /\ pooled' = pooled
                 /\ \/ \E e \in Entries : gate' = [gate EXCEPT !.list = Append(@, e)]
                    \/ gate.list # <<>> /\ gate' = [gate EXCEPT !.list = Tail(@)]
                    \/ \E s \in RequestSites : gate' = [gate EXCEPT !.active = s]
        <4>1. gate' \in [required : BOOLEAN, active : RequestSites, list : Seq(Entries)]
          <5> DEFINE list == gate.list
          <5>0. /\ list \in Seq(Entries)
                /\ gate \in [required : BOOLEAN, active : RequestSites, list : Seq(Entries)]
            BY DEF AdmissionTypeOK
          <5>1. CASE \E e \in Entries : gate' = [gate EXCEPT !.list = Append(@, e)]
            <6> PICK e \in Entries : gate' = [gate EXCEPT !.list = Append(list, e)]
              BY <5>1
            <6> DEFINE longer == Append(list, e)
            <6>1. longer \in Seq(Entries)
              BY ONLY <5>0, e \in Entries, AppendProperties DEF longer
            <6>2. gate' = [gate EXCEPT !.list = longer]
              OBVIOUS
            <6> HIDE DEF longer, list
            <6>3. QED
              BY <5>0, <6>1, <6>2
          <5>2. CASE gate.list # <<>> /\ gate' = [gate EXCEPT !.list = Tail(@)]
            <6> DEFINE shorter == Tail(list)
            <6>1. shorter \in Seq(Entries)
              BY ONLY <5>0, <5>2, HeadTailProperties DEF shorter, list
            <6>2. gate' = [gate EXCEPT !.list = shorter]
              BY <5>2
            <6> HIDE DEF shorter, list
            <6>3. QED
              BY <5>0, <6>1, <6>2
          <5>3. CASE \E s \in RequestSites : gate' = [gate EXCEPT !.active = s]
            BY <5>3 DEF AdmissionTypeOK
          <5>4. QED
            BY <3>1, <5>1, <5>2, <5>3
        <4>2. QED
          BY <2>1, <3>1, <4>1 DEF AdmissionTypeOK
      <3>2. CASE gate' = gate /\ \E a \in PoolAccounts, s \in RequestSites, usable \in BOOLEAN :
                      pooled' = [pooled EXCEPT ![a] = [site |-> s, usable |-> usable]]
        BY <2>1, <3>2 DEF AdmissionTypeOK
      <3>3. QED BY <1>5, <3>1, <3>2 DEF OperatorChanges, AdmissionTypeOK
    <2>3. QED BY <2>1, <2>2 DEF RoutedOK, KeyDecides, Bound, ResolveRequestSite
  <1>6. CASE UNCHANGED admissionVars
    BY <1>6 DEF admissionVars, AdmissionTypeOK, RoutedOK, KeyDecides, Bound, ResolveRequestSite
  <1>7. QED
    BY <1>1, <1>2, <1>3, <1>4, <1>5, <1>6
       DEF AdmissionNext, TurnAway, SiteNotAllowed, NoAccountLeft

\* For any keys, sites and accounts: a request that is sent goes where its key said
\* when it was let in, whatever becomes of keys and accounts while it is read
\* (authorizeAPI, boundSiteAllowed, Select).
THEOREM KeyDecidesTheRoute == AdmissionSpec => []KeyDecides
  BY AdmissionInvInit, AdmissionInvNext, PTL DEF AdmissionSpec, AdmissionInv

-----------------------------------------------------------------------------
(* Search *)

ToolChoices == {"auto", "required", "none", "absent"}
Offer == [tools : SUBSET ToolNames, choice : ToolChoices]
Appended == [role : {"assistant", "tool"}, ids : SUBSET Nat]

SearchTypeOK ==
    /\ ask \in [tools : SUBSET ToolNames, choice : {"auto", "required", "none"}, bound : BoundTo]
    /\ round \in {"first", "search", "second", "answered", "failed"}
    /\ opts \in Offer
    /\ calls \in SUBSET Nat
    /\ messages \in Seq(Appended)
    /\ turn.text \in BOOLEAN /\ turn.tokens \in Nat /\ turn.credit \in Nat \cup {Untold}
    /\ asked \in [opts : Seq(Offer), tokens : Nat, credit : Nat, untold : BOOLEAN,
                  accounts : SUBSET SearchAccounts]

\* Before the second completion the model is offered what the client asked for,
\* and then no search.
OffersOK ==
    /\ round \in {"first", "search"} =>
          opts.tools = ChatSearchTools(ask.tools, ask.choice) /\ opts.choice = ask.choice
    /\ round = "second" => "search" \notin opts.tools /\ opts.choice # "required"

\* How far the request is shows in what was asked and what was called.
ProgressOK ==
    /\ round = "first" => /\ asked.opts = <<>> /\ asked.tokens = 0
                          /\ asked.credit = 0 /\ ~asked.untold
                          /\ calls = {} /\ messages = <<>>
    /\ round \in {"search", "second"} =>
          Len(asked.opts) = 1 /\ calls # {} /\ "search" \in ask.tools
    /\ Len(asked.opts) <= 2
    /\ round = "second" \/ Len(asked.opts) = 2 => Unanswered = {}

\* A result is of one call, and no call has two.
ResultsOK ==
    /\ \A i \in DOMAIN messages : messages[i].role = "tool" => \E id \in calls : messages[i].ids = {id}
    /\ \A id \in calls : \A i, j \in Results(id) : i = j

\* What the last turn tells is what everything cost.
CostsOK ==
    round \in {"search", "second", "answered"} =>
        /\ turn.tokens = asked.tokens
        /\ turn.credit = IF asked.untold THEN Untold ELSE asked.credit

SearchInv ==
    /\ SearchTypeOK /\ OffersOK /\ ProgressOK /\ ResultsOK /\ CostsOK
    /\ NothingShows /\ ChoiceFits /\ StaysOnItsAccount

LEMMA SearchInvInit == SearchInit => SearchInv
  <1> SUFFICES ASSUME SearchInit PROVE SearchInv
    OBVIOUS
  <1> USE DEF SearchInit
  <1>1. ChatSearchTools(ask.tools, ask.choice) \in SUBSET ToolNames
    BY DEF ChatSearchTools
  <1>2. SearchTypeOK
    BY <1>1 DEF SearchTypeOK, Offer, ToolChoices, Untold
  <1>3. OffersOK /\ ProgressOK /\ ResultsOK /\ CostsOK
    BY DEF OffersOK, ProgressOK, ResultsOK, CostsOK
  <1>4. NothingShows /\ ChoiceFits /\ StaysOnItsAccount
    BY DEF NothingShows, ChoiceFits, StaysOnItsAccount
  <1>5. QED
    BY <1>2, <1>3, <1>4 DEF SearchInv

\* A completion is counted once, and asks an account the request may have.
LEMMA Completed ==
  ASSUME SearchInv, NEW account \in SearchAccounts, NEW usage \in UpstreamUsages,
         Completes(account, usage), round' # "second"
  PROVE  /\ asked' \in [opts : Seq(Offer), tokens : Nat, credit : Nat, untold : BOOLEAN,
                        accounts : SUBSET SearchAccounts]
         /\ Len(asked'.opts) = Len(asked.opts) + 1
         /\ \A i \in DOMAIN asked'.opts :
               asked'.opts[i] = IF i = Len(asked.opts) + 1 THEN opts ELSE asked.opts[i]
         /\ asked'.tokens = asked.tokens + usage.tokens
         /\ asked'.credit = asked.credit + IF usage.credit = Untold THEN 0 ELSE usage.credit
         /\ asked'.untold <=> asked.untold \/ usage.credit = Untold
         /\ ask' = ask => StaysOnItsAccount'
  <1> DEFINE tokens == asked.tokens + usage.tokens
             credit == asked.credit + (IF usage.credit = Untold THEN 0 ELSE usage.credit)
             untold == asked.untold \/ usage.credit = Untold
             accounts == asked.accounts \cup {account}
             made == Append(asked.opts, opts)
  <1>1. /\ MayServe(account)
        /\ asked' = [opts |-> made, tokens |-> tokens, credit |-> credit,
                     untold |-> untold, accounts |-> accounts]
    BY DEF Completes
  <1>2. usage.tokens \in Nat /\ usage.credit \in Nat \cup {Untold}
    BY SearchAssumption DEF UpstreamUsages
  <1>3. /\ asked.opts \in Seq(Offer) /\ asked.tokens \in Nat /\ asked.credit \in Nat
        /\ asked.untold \in BOOLEAN /\ asked.accounts \subseteq SearchAccounts /\ opts \in Offer
    BY DEF SearchInv, SearchTypeOK
  <1>4. tokens \in Nat /\ credit \in Nat /\ untold \in BOOLEAN /\ accounts \subseteq SearchAccounts
    BY <1>2, <1>3 DEF Untold
  <1>5. made \in Seq(Offer) /\ Len(made) = Len(asked.opts) + 1
        /\ \A i \in DOMAIN made : made[i] = IF i = Len(asked.opts) + 1 THEN opts ELSE asked.opts[i]
    BY <1>3
  <1>6. ask' = ask => StaysOnItsAccount'
    <2>1. asked'.accounts = accounts
      BY <1>1
    <2>2. StaysOnItsAccount
      BY DEF SearchInv
    <2>3. QED
      BY <1>1, <2>1, <2>2 DEF StaysOnItsAccount, MayServe
  <1> HIDE DEF made, tokens, credit, accounts, Offer
  <1>7. asked' \in [opts : Seq(Offer), tokens : Nat, credit : Nat, untold : BOOLEAN,
                    accounts : SUBSET SearchAccounts]
    BY <1>1, <1>4, <1>5
  <1> HIDE DEF untold
  <1>8. /\ asked'.opts = made /\ asked'.tokens = tokens /\ asked'.credit = credit
        /\ asked'.untold = untold
    BY <1>1
  <1>9. QED
    BY <1>5, <1>6, <1>7, <1>8 DEF tokens, credit, untold

\* What a model may call.
LEMMA CallsOf ==
  ASSUME SearchInv, NEW uses \in Uses
  PROVE  /\ DOMAIN uses \in SUBSET Nat
         /\ OnlyWebSearchCalls(uses) \in SUBSET Nat
         /\ \A id \in DOMAIN uses : uses[id] = "search" => "search" \in opts.tools \/ calls # {}
  <1> DEFINE known == opts.tools \cup (IF calls = {} THEN {} ELSE {"search"})
  <1>1. PICK n \in 0 .. MaxCalls : uses \in [1 .. n -> known]
    BY DEF Uses
  <1>2. DOMAIN uses = 1 .. n /\ n \in Nat
    BY <1>1, SearchAssumption
  <1>3. \A id \in DOMAIN uses : uses[id] \in known
    BY <1>1
  <1>4. QED
    BY <1>2, <1>3 DEF OnlyWebSearchCalls

LEMMA FirstTurnInv ==
  ASSUME SearchInv, FirstTurn
  PROVE  SearchInv'
  <1>1. PICK account \in SearchAccounts, uses \in Uses, text \in BOOLEAN, usage \in UpstreamUsages :
          /\ Completes(account, usage)
          /\ turn' = [text |-> text, uses |-> uses, tokens |-> usage.tokens, credit |-> usage.credit]
          /\ calls' = IF "search" \in opts.tools THEN OnlyWebSearchCalls(uses) ELSE {}
    BY DEF FirstTurn
  <1>2. /\ round = "first" /\ ask' = ask /\ opts' = opts
        /\ round' = (IF calls' = {} THEN "answered" ELSE "search")
        /\ messages' = (IF calls' = {} THEN <<>> ELSE <<[role |-> "assistant", ids |-> calls']>>)
    BY DEF FirstTurn
  <1>3. /\ opts.tools = ChatSearchTools(ask.tools, ask.choice) /\ opts.choice = ask.choice
        /\ asked.opts = <<>> /\ asked.tokens = 0 /\ asked.credit = 0 /\ ~asked.untold /\ calls = {}
        /\ opts \in Offer
        /\ ask \in [tools : SUBSET ToolNames, choice : {"auto", "required", "none"}, bound : BoundTo]
    BY <1>2 DEF SearchInv, SearchTypeOK, OffersOK, ProgressOK
  <1>4. /\ asked' \in [opts : Seq(Offer), tokens : Nat, credit : Nat, untold : BOOLEAN,
                       accounts : SUBSET SearchAccounts]
        /\ Len(asked'.opts) = Len(asked.opts) + 1
        /\ \A i \in DOMAIN asked'.opts :
              asked'.opts[i] = IF i = Len(asked.opts) + 1 THEN opts ELSE asked.opts[i]
        /\ asked'.tokens = asked.tokens + usage.tokens
        /\ asked'.credit = asked.credit + IF usage.credit = Untold THEN 0 ELSE usage.credit
        /\ asked'.untold <=> asked.untold \/ usage.credit = Untold
        /\ StaysOnItsAccount'
    <2>1. round' # "second"
      BY <1>2
    <2>2. QED
      BY <1>1, <1>2, <2>1, Completed
  <1>5. usage.tokens \in Nat /\ usage.credit \in Nat \cup {Untold}
    BY SearchAssumption DEF UpstreamUsages
  <1>6. /\ DOMAIN uses \in SUBSET Nat
        /\ OnlyWebSearchCalls(uses) \in SUBSET Nat
        /\ \A id \in DOMAIN uses : uses[id] = "search" => "search" \in opts.tools
    BY <1>1, <1>3, CallsOf
  <1>7. /\ turn'.text = text /\ turn'.uses = uses /\ turn'.tokens = usage.tokens
        /\ turn'.credit = usage.credit
    BY <1>1
  <1>8. calls' \in SUBSET Nat
    BY <1>1, <1>6
  <1>9. messages' \in Seq(Appended) /\ \A i \in DOMAIN messages' : messages'[i].role = "assistant"
    <2>1. [role |-> "assistant", ids |-> calls'] \in Appended
      BY <1>8 DEF Appended
    <2>2. QED
      BY <1>2, <2>1
  <1>10. Len(asked'.opts) = 1 /\ DOMAIN asked'.opts = {1} /\ asked'.opts[1] = opts
    <2>1. Len(asked'.opts) = 1
      BY <1>3, <1>4
    <2>2. asked'.opts \in Seq(Offer)
      BY <1>4
    <2>3. DOMAIN asked'.opts = {1}
      BY <2>1, <2>2
    <2>4. QED
      BY <1>3, <1>4, <2>1, <2>3
  <1>11. SearchTypeOK'
    <2>1. turn'.text \in BOOLEAN /\ turn'.tokens \in Nat /\ turn'.credit \in Nat \cup {Untold}
      BY <1>5, <1>7
    <2>2. round' \in {"first", "search", "second", "answered", "failed"}
      BY <1>2
    <2>3. ask' = ask /\ opts' = opts
      BY <1>2
    <2>4. QED
      BY <1>3, <1>4, <1>8, <1>9, <2>1, <2>2, <2>3 DEF SearchTypeOK
  <1>12. OffersOK'
    BY <1>2, <1>3 DEF OffersOK
  <1>13. "search" \in opts.tools => "search" \in ask.tools
    BY <1>3 DEF ChatSearchTools
  <1>14. ProgressOK'
    <2>1. calls' # {} => "search" \in ask.tools
      BY <1>1, <1>13
    <2>2. round' \in {"answered", "search"} /\ (round' = "search" => calls' # {})
      BY <1>2
    <2>3. QED
      BY <1>2, <1>10, <2>1, <2>2 DEF ProgressOK
  <1>15. ResultsOK'
    BY <1>9 DEF ResultsOK, Results
  <1>16. CostsOK'
    <2>1. asked'.tokens = usage.tokens
      BY <1>3, <1>4, <1>5
    <2>2. asked'.untold <=> usage.credit = Untold
      BY <1>3, <1>4
    <2>3. asked'.credit = IF usage.credit = Untold THEN 0 ELSE usage.credit
      BY <1>3, <1>4, <1>5
    <2>4. QED
      BY <1>7, <2>1, <2>2, <2>3 DEF CostsOK
  <1>17. NothingShows'
    <2> SUFFICES ASSUME round' = "answered", "search" \in ask'.tools
                 PROVE  /\ \A id \in DOMAIN turn'.uses : turn'.uses[id] # "search"
                        /\ messages' # <<>> => turn'.text \/ DOMAIN turn'.uses # {}
      BY DEF NothingShows
    <2>1. calls' = {} /\ messages' = <<>>
      BY <1>2
    <2>2. \A id \in DOMAIN uses : uses[id] # "search"
      BY <1>1, <1>6, <2>1 DEF OnlyWebSearchCalls
    <2>3. QED
      BY <1>7, <2>1, <2>2
  <1>18. ChoiceFits'
    <2>1. opts.choice = "required" /\ ask.tools # {} => opts.tools # {}
      BY <1>3 DEF ChatSearchTools, SearchDisabled
    <2>2. QED
      BY <1>2, <1>10, <2>1 DEF ChoiceFits
  <1>19. QED
    BY <1>4, <1>11, <1>12, <1>14, <1>15, <1>16, <1>17, <1>18 DEF SearchInv

LEMMA AnswerCallInv ==
  ASSUME SearchInv, AnswerCall
  PROVE  SearchInv'
  <1> DEFINE nearest == Min(Unanswered)
             result == [role |-> "tool", ids |-> {nearest}]
  <1>1. /\ round = "search" /\ Unanswered # {} /\ messages' = Append(messages, result)
        /\ UNCHANGED <<ask, round, opts, calls, turn>>
    BY DEF AnswerCall
  <1>2. /\ asked' \in [opts : Seq(Offer), tokens : Nat, credit : Nat, untold : BOOLEAN,
                       accounts : SUBSET SearchAccounts]
        /\ asked'.opts = asked.opts /\ asked'.tokens = asked.tokens
        /\ asked'.credit = asked.credit /\ asked'.untold = asked.untold
        /\ StaysOnItsAccount'
    <2>1. asked \in [opts : Seq(Offer), tokens : Nat, credit : Nat, untold : BOOLEAN,
                     accounts : SUBSET SearchAccounts]
      BY DEF SearchInv, SearchTypeOK
    <2> HIDE DEF Offer
    <2>2. CASE asked' = asked
      BY <1>1, <2>1, <2>2 DEF SearchInv, StaysOnItsAccount
    <2>3. CASE \E account \in SearchAccounts :
                  /\ MayServe(account)
                  /\ asked' = [asked EXCEPT !.accounts = @ \cup {account}]
      <3>1. PICK account \in SearchAccounts :
              /\ MayServe(account)
              /\ asked' = [asked EXCEPT !.accounts = @ \cup {account}]
        BY <2>3
      <3> DEFINE accounts == asked.accounts \cup {account}
      <3>2. accounts \in SUBSET SearchAccounts
        BY <2>1
      <3>3. ask.bound # Unbound => accounts \subseteq {ask.bound}
        BY <3>1 DEF SearchInv, StaysOnItsAccount, MayServe
      <3> HIDE DEF accounts
      <3>4. asked' = [asked EXCEPT !.accounts = accounts]
        BY <3>1 DEF accounts
      <3>5. /\ asked' \in [opts : Seq(Offer), tokens : Nat, credit : Nat, untold : BOOLEAN,
                           accounts : SUBSET SearchAccounts]
            /\ asked'.opts = asked.opts /\ asked'.tokens = asked.tokens
            /\ asked'.credit = asked.credit /\ asked'.untold = asked.untold
            /\ asked'.accounts = accounts
        BY ONLY <2>1, <3>2, <3>4
      <3>6. QED
        BY <1>1, <3>3, <3>5 DEF StaysOnItsAccount
    <2>4. QED
      BY <2>2, <2>3 DEF AnswerCall
  <1>3. nearest \in Unanswered /\ nearest \in Nat /\ nearest \in calls
    <2>1. calls \in SUBSET Nat
      BY DEF SearchInv, SearchTypeOK
    <2>2. Unanswered \in SUBSET calls
      BY DEF Unanswered
    <2>3. \E m \in Unanswered : \A n \in Unanswered : m <= n
      BY <1>1, <2>1, <2>2, SmallestOf
    <2>4. Min(Unanswered) \in Unanswered
      BY <2>3 DEF Min
    <2>5. QED
      BY <2>1, <2>2, <2>4
  <1>4. Results(nearest) = {}
    BY <1>3 DEF Unanswered
  <1> HIDE DEF nearest
  <1>5. result \in Appended /\ result.role = "tool" /\ result.ids = {nearest}
    BY <1>3 DEF Appended
  <1> HIDE DEF result
  <1>6. messages \in Seq(Appended)
    BY DEF SearchInv, SearchTypeOK
  <1> DEFINE n == Len(messages)
  <1>7. /\ messages' \in Seq(Appended)
        /\ n \in Nat /\ DOMAIN messages = 1 .. n /\ DOMAIN messages' = 1 .. n + 1
        /\ \A i \in 1 .. n : messages'[i] = messages[i]
        /\ messages'[n + 1] = result
    BY <1>1, <1>5, <1>6
  <1> HIDE DEF n
  <1>8. \A id \in calls : Results(id)' = IF id = nearest THEN {n + 1} ELSE Results(id)
    <2> SUFFICES ASSUME NEW id \in calls
                 PROVE  {i \in DOMAIN messages' : messages'[i].role = "tool" /\ id \in messages'[i].ids}
                          = IF id = nearest THEN {n + 1} ELSE Results(id)
      BY DEF Results
    <2>1. CASE id = nearest
      <3>1. \A i \in 1 .. n : ~(messages[i].role = "tool" /\ id \in messages[i].ids)
        BY <1>4, <1>7, <2>1 DEF Results
      <3>2. QED
        BY <1>5, <1>7, <2>1, <3>1
    <2>2. CASE id # nearest
      <3>1. n + 1 \notin 1 .. n /\ 1 .. n + 1 = (1 .. n) \cup {n + 1}
        BY <1>7
      <3>2. QED
        BY <1>5, <1>7, <2>2, <3>1 DEF Results
    <2>3. QED
      BY <2>1, <2>2
  <1>9. SearchTypeOK'
    BY <1>1, <1>2, <1>7 DEF SearchInv, SearchTypeOK
  <1>10. ResultsOK'
    <2>1. \A i \in DOMAIN messages' : messages'[i].role = "tool" =>
            \E id \in calls : messages'[i].ids = {id}
      <3>1. \A i \in 1 .. n : messages[i].role = "tool" => \E id \in calls : messages[i].ids = {id}
        BY <1>7 DEF SearchInv, ResultsOK
      <3>2. \A i \in 1 .. n + 1 : i \in 1 .. n \/ i = n + 1
        BY <1>7
      <3>3. QED
        BY <1>3, <1>5, <1>7, <3>1, <3>2
    <2>2. \A id \in calls : \A i, j \in Results(id)' : i = j
      BY <1>8 DEF SearchInv, ResultsOK
    <2>3. QED
      BY <1>1, <2>1, <2>2 DEF ResultsOK
  <1>11. OffersOK' /\ ProgressOK' /\ CostsOK' /\ NothingShows' /\ ChoiceFits'
    <2>1. OffersOK' /\ CostsOK' /\ NothingShows'
      BY <1>1, <1>2 DEF SearchInv, OffersOK, CostsOK, NothingShows
    <2>2. ProgressOK'
      <3>1. Len(asked.opts) = 1 /\ calls # {} /\ "search" \in ask.tools
        BY <1>1 DEF SearchInv, ProgressOK
      <3>2. QED
        BY <1>1, <1>2, <3>1 DEF ProgressOK
    <2>3. ChoiceFits'
      BY <1>1, <1>2 DEF SearchInv, ChoiceFits
    <2>4. QED
      BY <2>1, <2>2, <2>3
  <1>12. QED
    BY <1>2, <1>9, <1>10, <1>11 DEF SearchInv

LEMMA AskAgainInv ==
  ASSUME SearchInv, AskAgain
  PROVE  SearchInv'
  <1> DEFINE left == opts.tools \ {"search"}
             choice == CASE left = {} -> "absent"
                         [] left # {} /\ opts.choice = "required" -> "auto"
                         [] OTHER -> opts.choice
  <1>1. /\ round = "search" /\ Unanswered = {} /\ round' = "second"
        /\ opts' = [tools |-> left, choice |-> choice]
        /\ UNCHANGED <<ask, calls, messages, turn, asked>>
    BY DEF AskAgain
  <1>2. left \in SUBSET ToolNames /\ choice \in ToolChoices /\ choice # "required" /\ "search" \notin left
    BY DEF SearchInv, SearchTypeOK, Offer, ToolChoices
  <1> HIDE DEF choice, left
  <1>3. SearchTypeOK'
    BY <1>1, <1>2 DEF SearchInv, SearchTypeOK, Offer
  <1>4. OffersOK'
    BY <1>1, <1>2 DEF OffersOK
  <1>5. Unanswered' = Unanswered /\ \A id \in calls : Results(id)' = Results(id)
    BY <1>1 DEF Unanswered, Results
  <1>6. ProgressOK' /\ ResultsOK'
    BY <1>1, <1>5 DEF SearchInv, ProgressOK, ResultsOK
  <1>7. CostsOK' /\ NothingShows' /\ ChoiceFits' /\ StaysOnItsAccount'
    BY <1>1 DEF SearchInv, CostsOK, NothingShows, ChoiceFits, StaysOnItsAccount
  <1>8. QED
    BY <1>3, <1>4, <1>6, <1>7 DEF SearchInv

LEMMA SecondTurnInv ==
  ASSUME SearchInv, SecondTurn
  PROVE  SearchInv'
  <1>1. PICK account \in SearchAccounts, uses \in Uses, text \in BOOLEAN, usage \in UpstreamUsages :
          LET left == FilterBuiltinSearchCalls(uses)
              sum == SumSearchUsage(turn, usage)
          IN /\ Completes(account, usage)
             /\ turn' = [text |-> text \/ DOMAIN left = {}, uses |-> left,
                         tokens |-> sum.tokens, credit |-> sum.credit]
    BY DEF SecondTurn
  <1> DEFINE left == FilterBuiltinSearchCalls(uses)
             said == text \/ DOMAIN left = {}
             tokens == turn.tokens + usage.tokens
             credit == IF Untold \in {turn.credit, usage.credit} THEN Untold
                       ELSE turn.credit + usage.credit
  <1>2. /\ round = "second" /\ round' = "answered" /\ UNCHANGED <<ask, opts, calls, messages>>
    BY DEF SecondTurn
  <1>3. turn' = [text |-> said, uses |-> left, tokens |-> tokens, credit |-> credit]
    BY <1>1 DEF SumSearchUsage
  <1>4. /\ asked' \in [opts : Seq(Offer), tokens : Nat, credit : Nat, untold : BOOLEAN,
                       accounts : SUBSET SearchAccounts]
        /\ Len(asked'.opts) = Len(asked.opts) + 1
        /\ \A i \in DOMAIN asked'.opts :
              asked'.opts[i] = IF i = Len(asked.opts) + 1 THEN opts ELSE asked.opts[i]
        /\ asked'.tokens = asked.tokens + usage.tokens
        /\ asked'.credit = asked.credit + IF usage.credit = Untold THEN 0 ELSE usage.credit
        /\ asked'.untold <=> asked.untold \/ usage.credit = Untold
        /\ StaysOnItsAccount'
    <2>1. round' # "second"
      BY <1>2
    <2>2. QED
      BY <1>1, <1>2, <2>1, Completed
  <1>5. usage.tokens \in Nat /\ usage.credit \in Nat \cup {Untold}
    BY SearchAssumption DEF UpstreamUsages
  <1>6. /\ turn.tokens = asked.tokens /\ turn.credit = IF asked.untold THEN Untold ELSE asked.credit
        /\ asked.tokens \in Nat /\ asked.credit \in Nat /\ asked.untold \in BOOLEAN
        /\ Len(asked.opts) = 1 /\ "search" \in ask.tools /\ Unanswered = {}
        /\ "search" \notin opts.tools /\ opts.choice # "required"
    BY <1>2 DEF SearchInv, SearchTypeOK, CostsOK, ProgressOK, OffersOK
  <1>7. said \in BOOLEAN /\ tokens \in Nat /\ credit \in Nat \cup {Untold}
    BY <1>5, <1>6 DEF Untold
  <1>8. tokens = asked'.tokens /\ credit = IF asked'.untold THEN Untold ELSE asked'.credit
    <2>1. \A c \in Nat : c # Untold
      BY DEF Untold
    <2>2. tokens = asked'.tokens
      BY <1>4, <1>6
    <2>3. CASE asked.untold \/ usage.credit = Untold
      <3>1. credit = Untold /\ asked'.untold
        BY <1>4, <1>6, <2>3
      <3>2. QED
        BY <2>2, <3>1
    <2>4. CASE ~asked.untold /\ usage.credit # Untold
      <3>1. turn.credit = asked.credit /\ ~asked'.untold /\ asked'.credit = asked.credit + usage.credit
        BY <1>4, <1>6, <2>4
      <3>2. credit = turn.credit + usage.credit
        BY <1>6, <2>1, <2>4, <3>1
      <3>3. QED
        BY <2>2, <3>1, <3>2
    <2>5. QED
      BY <2>3, <2>4
  <1>9. \A id \in DOMAIN left : left[id] # "search"
    BY DEF FilterBuiltinSearchCalls, OnlyWebSearchCalls
  <1>10. said \/ DOMAIN left # {}
    OBVIOUS
  <1> HIDE DEF left, said, tokens, credit
  <1>11. turn'.text = said /\ turn'.uses = left /\ turn'.tokens = tokens /\ turn'.credit = credit
    BY <1>3
  <1>12. SearchTypeOK'
    BY <1>2, <1>4, <1>7, <1>11 DEF SearchInv, SearchTypeOK
  <1>13. OffersOK' /\ CostsOK' /\ NothingShows'
    BY <1>2, <1>8, <1>9, <1>10, <1>11 DEF OffersOK, CostsOK, NothingShows
  <1>14. Unanswered' = Unanswered /\ \A id \in calls : Results(id)' = Results(id)
    BY <1>2 DEF Unanswered, Results
  <1>15. ResultsOK'
    BY <1>2, <1>14 DEF SearchInv, ResultsOK
  <1>16. Len(asked'.opts) = 2
    BY <1>4, <1>6
  <1>17. ProgressOK'
    BY <1>2, <1>6, <1>14, <1>16 DEF ProgressOK
  <1>18. ChoiceFits'
    <2>1. asked.opts \in Seq(Offer) /\ asked'.opts \in Seq(Offer)
      BY <1>4 DEF SearchInv, SearchTypeOK
    <2>2. DOMAIN asked.opts = 1 .. 1 /\ DOMAIN asked'.opts = 1 .. 2
      BY <1>6, <1>16, <2>1
    <2>3. asked'.opts[1] = asked.opts[1] /\ asked'.opts[2] = opts
      BY <1>4, <1>6, <2>2
    <2>4. asked.opts[1].choice = "required" /\ ask.tools # {} => asked.opts[1].tools # {}
      BY <2>2 DEF SearchInv, ChoiceFits
    <2>5. \A i \in DOMAIN asked'.opts : i = 1 \/ i = 2
      BY <2>2
    <2>6. QED
      BY <1>2, <1>6, <2>3, <2>4, <2>5 DEF ChoiceFits
  <1>19. QED
    BY <1>4, <1>12, <1>13, <1>15, <1>17, <1>18 DEF SearchInv

LEMMA SearchInvNext == SearchInv /\ [SearchNext]_searchVars => SearchInv'
  <1> SUFFICES ASSUME SearchInv, [SearchNext]_searchVars PROVE SearchInv'
    OBVIOUS
  <1>1. CASE CompletionFails
    <2>1. /\ round \in {"first", "second"} /\ round' = "failed"
          /\ UNCHANGED <<ask, opts, calls, messages, turn, asked>>
      BY <1>1 DEF CompletionFails
    <2>2. Unanswered' = Unanswered /\ \A id \in calls : Results(id)' = Results(id)
      BY <2>1 DEF Unanswered, Results
    <2>3. SearchTypeOK' /\ OffersOK' /\ CostsOK' /\ NothingShows' /\ ChoiceFits' /\ StaysOnItsAccount'
      BY <2>1 DEF SearchInv, SearchTypeOK, OffersOK, CostsOK, NothingShows, ChoiceFits, StaysOnItsAccount
    <2>4. ProgressOK' /\ ResultsOK'
      BY <2>1, <2>2 DEF SearchInv, ProgressOK, ResultsOK
    <2>5. QED
      BY <2>3, <2>4 DEF SearchInv
  <1>2. CASE UNCHANGED searchVars
    <2>1. UNCHANGED <<ask, round, opts, calls, messages, turn, asked>>
      BY <1>2 DEF searchVars
    <2>2. Unanswered' = Unanswered /\ \A id \in calls : Results(id)' = Results(id)
      BY <2>1 DEF Unanswered, Results
    <2>3. SearchTypeOK' /\ OffersOK' /\ CostsOK' /\ NothingShows' /\ ChoiceFits' /\ StaysOnItsAccount'
      BY <2>1 DEF SearchInv, SearchTypeOK, OffersOK, CostsOK, NothingShows, ChoiceFits, StaysOnItsAccount
    <2>4. ProgressOK' /\ ResultsOK'
      BY <2>1, <2>2 DEF SearchInv, ProgressOK, ResultsOK
    <2>5. QED
      BY <2>3, <2>4 DEF SearchInv
  <1>3. QED
    BY <1>1, <1>2, FirstTurnInv, AnswerCallInv, AskAgainInv, SecondTurnInv DEF SearchNext

\* The parts of the property follow from what was asked and what it cost.
LEMMA SearchInvInside == SearchInv => SearchStaysInside
  <1> SUFFICES ASSUME SearchInv PROVE SearchStaysInside
    OBVIOUS
  <1>1. UsageOfBoth
    BY DEF SearchInv, CostsOK, UsageOfBoth
  <1>2. AskedWithAnswers
    <2> SUFFICES ASSUME round = "second" \/ Len(asked.opts) = 2, NEW id \in calls
                 PROVE  \E i \in DOMAIN messages : Results(id) = {i}
      BY DEF SearchInv, ProgressOK, AskedWithAnswers
    <2>1. Results(id) # {} /\ Results(id) \subseteq DOMAIN messages
      BY DEF SearchInv, ProgressOK, Unanswered, Results
    <2>2. PICK i \in DOMAIN messages : i \in Results(id)
      BY <2>1
    <2>3. \A j \in Results(id) : j = i
      BY <2>2 DEF SearchInv, ResultsOK
    <2>4. Results(id) = {i}
      BY <2>2, <2>3
    <2>5. QED
      BY <2>4
  <1>3. QED
    BY <1>1, <1>2 DEF SearchInv, SearchStaysInside

\* For any accounts, costs and number of calls: of a request with a search in it the
\* client sees the answer only, with the cost of both completions, every call has one
\* result, and the account of a bound key does all of it (prepareBuiltinSearch).
THEOREM TheSearchStaysInside == SearchSpec => []SearchStaysInside
  BY SearchInvInit, SearchInvNext, SearchInvInside, PTL DEF SearchSpec

-----------------------------------------------------------------------------
(* Egress *)

Handshake == {"method", "login", "request", "head", "length", "bound"}
Finishing == {"clear", "stop", "connected"}

ConnType == [state : {"none", "open", "closed"}, deadline : BOOLEAN,
             watcher : {"none", "set", "called"}]

EgressTypeOK ==
    /\ exit \in [user : BOOLEAN, remoteDNS : BOOLEAN]
    /\ dial \in {"dial", "failed"} \cup Handshake \cup Finishing
    /\ conn \in ConnType
    /\ context \in {"live", "cancelled"}
    /\ answer \in Answers
    /\ inbox \in [bytes : Nat, payload : Nat]
    /\ loggedIn \in BOOLEAN

\* The bytes of the handshake that are sent and not read.
Unread ==
    CASE dial = "method" -> 2
      [] dial = "login" -> IF loggedIn THEN 2 ELSE 0
      [] dial = "head" -> ReplyLength(answer.address)
      [] dial = "length" -> 1 + Skipped
      [] dial = "bound" -> Skipped
      [] OTHER -> 0

\* What is received and not read is the rest of the handshake, and behind it
\* what the far end has said.
InboxOK ==
    /\ dial # "failed" => inbox.bytes = Unread + inbox.payload
    /\ dial = "failed" => inbox.bytes >= inbox.payload

\* Whoever may still close the connection, or has, and why.
ConnOK ==
    /\ dial = "dial" => conn.state = "none" /\ conn.watcher = "none"
    /\ dial = "failed" => conn.state # "open" /\ conn.watcher = "none"
    /\ dial \in {"stop", "connected"} => ~conn.deadline
    /\ dial = "connected" => conn.watcher # "set"
    /\ context = "live" => conn.watcher # "called"
    /\ context = "live" /\ dial \notin {"dial", "failed"} => conn.state = "open"

LoginOK ==
    /\ loggedIn \/ dial = "login" => exit.user /\ answer.method = "password"
    /\ dial \in {"dial", "method"} => ~loggedIn

EgressInv == EgressTypeOK /\ InboxOK /\ ConnOK /\ LoginOK

LEMMA LengthsAreNat ==
    ASSUME EgressTypeOK
    PROVE  /\ ReplyLength(answer.address) \in Nat /\ Skipped \in Nat
           /\ ReplyLength(answer.address) =
                4 + (IF answer.address.type = "name" THEN 1 ELSE 0) + Skipped
  <1>1. answer.address \in Addresses
    BY DEF EgressTypeOK, Answers
  <1>2. answer.address.length \in Nat
    <2>1. CASE answer.address \in [type : {"name"}, length : NameLengths]
      BY <2>1, EgressAssumption
    <2>2. CASE answer.address \in {[type |-> "ip4", length |-> 4], [type |-> "ip6", length |-> 16]}
      BY <2>2
    <2>3. QED
      BY <1>1, <2>1, <2>2 DEF Addresses
  <1>3. QED
    BY <1>2 DEF ReplyLength, Skipped

LEMMA EgressInvInit == EgressInit => EgressInv
  <1> SUFFICES ASSUME EgressInit PROVE EgressInv
    OBVIOUS
  <1>1. EgressTypeOK
    BY DEF EgressInit, EgressTypeOK, ConnType
  <1>2. InboxOK
    BY DEF EgressInit, InboxOK, Unread
  <1>3. ConnOK
    BY DEF EgressInit, ConnOK
  <1>4. LoginOK
    BY DEF EgressInit, LoginOK
  <1>5. QED
    BY <1>1, <1>2, <1>3, <1>4 DEF EgressInv

LEMMA HandshakeFailsInv == EgressInv /\ dial # "dial" /\ HandshakeFails => EgressInv'
  <1> SUFFICES ASSUME EgressInv, dial # "dial", HandshakeFails PROVE EgressInv'
    OBVIOUS
  <1> USE DEF EgressInv
  <1>1. EgressTypeOK'
    BY DEF HandshakeFails, EgressTypeOK, ConnType
  <1>2. InboxOK'
    BY LengthsAreNat DEF HandshakeFails, InboxOK, Unread, EgressTypeOK
  <1>3. ConnOK'
    BY DEF HandshakeFails, ConnOK, EgressTypeOK, ConnType
  <1>4. LoginOK'
    BY DEF HandshakeFails, LoginOK
  <1>5. QED
    BY <1>1, <1>2, <1>3, <1>4

LEMMA EgressInvNext == EgressInv /\ [EgressNext]_egressVars => EgressInv'
  <1> SUFFICES ASSUME EgressInv, [EgressNext]_egressVars PROVE EgressInv'
    OBVIOUS
  <1> USE DEF EgressInv
  <1>a. /\ ReplyLength(answer.address) \in Nat /\ Skipped \in Nat
        /\ ReplyLength(answer.address) =
                4 + (IF answer.address.type = "name" THEN 1 ELSE 0) + Skipped
    BY LengthsAreNat
  <1>b. UNCHANGED answer => UNCHANGED Skipped /\ ReplyLength(answer.address)' = ReplyLength(answer.address)
    BY DEF Skipped, ReplyLength
  <1> HIDE DEF Skipped, ReplyLength
  <1>1. CASE Dial
    BY <1>1, <1>a, <1>b DEF Dial, Receives, EgressTypeOK, InboxOK, ConnOK, LoginOK, Unread,
         Handshake, Finishing, ConnType
  <1>2. CASE DialFails
    BY <1>2, <1>a, <1>b DEF DialFails, EgressTypeOK, InboxOK, ConnOK, LoginOK, Unread,
         Handshake, Finishing, ConnType
  <1>3. CASE ReadMethod
    <2>1. /\ dial = "method" /\ dial' = IF answer.method = "password" THEN "login" ELSE "request"
          /\ UNCHANGED <<exit, conn, context, answer, loggedIn>>
          /\ answer.method = "password" => exit.user
          /\ inbox' = [inbox EXCEPT !.bytes = @ - 2]
      BY <1>3 DEF ReadMethod, ReadFull
    <2>2. ~loggedIn
      BY <2>1 DEF LoginOK
    <2>3. QED
      BY <2>1, <2>2, <1>a, <1>b DEF EgressTypeOK, InboxOK, ConnOK, LoginOK, Unread,
         Handshake, Finishing, ConnType
  <1>4. CASE SendLogin
    BY <1>4, <1>a, <1>b DEF SendLogin, Receives, EgressTypeOK, InboxOK, ConnOK, LoginOK, Unread,
         Handshake, Finishing, ConnType
  <1>5. CASE ReadLogin
    BY <1>5, <1>a, <1>b DEF ReadLogin, ReadFull, EgressTypeOK, InboxOK, ConnOK, LoginOK, Unread,
         Handshake, Finishing, ConnType
  <1>6. CASE SendConnect
    BY <1>6, <1>a, <1>b, EgressAssumption
       DEF SendConnect, Receives, EgressTypeOK, InboxOK, ConnOK, LoginOK, Unread,
         Handshake, Finishing, ConnType
  <1>7. CASE ReadHead
    BY <1>7, <1>a, <1>b DEF ReadHead, ReadFull, EgressTypeOK, InboxOK, ConnOK, LoginOK, Unread,
         Handshake, Finishing, ConnType
  <1>8. CASE ReadLength
    BY <1>8, <1>a, <1>b DEF ReadLength, ReadFull, EgressTypeOK, InboxOK, ConnOK, LoginOK, Unread,
         Handshake, Finishing, ConnType
  <1>9. CASE ReadBound
    BY <1>9, <1>a, <1>b DEF ReadBound, ReadFull, EgressTypeOK, InboxOK, ConnOK, LoginOK, Unread,
         Handshake, Finishing, ConnType
  <1>10. CASE ClearDeadline
    BY <1>10, <1>a, <1>b DEF ClearDeadline, EgressTypeOK, InboxOK, ConnOK, LoginOK, Unread,
         Handshake, Finishing, ConnType
  <1>11. CASE StopWatcher
    BY <1>11, <1>a, <1>b DEF StopWatcher, EgressTypeOK, InboxOK, ConnOK, LoginOK, Unread,
         Handshake, Finishing, ConnType
  <1>12. CASE Cancelled
    BY <1>12, <1>a, <1>b DEF Cancelled, EgressTypeOK, InboxOK, ConnOK, LoginOK, Unread,
         Handshake, Finishing, ConnType
  <1>13. CASE WatcherCloses
    BY <1>13, <1>a, <1>b DEF WatcherCloses, EgressTypeOK, InboxOK, ConnOK, LoginOK, Unread,
         Handshake, Finishing, ConnType
  <1>14. CASE MethodRefused \/ LoginRefused \/ NameUnknown \/ ConnectRefused \/ HandshakeBreaks
    <2>1. dial # "dial" /\ HandshakeFails
      BY <1>14 DEF MethodRefused, LoginRefused, NameUnknown, ConnectRefused, HandshakeBreaks
    <2>2. QED
      BY <2>1, HandshakeFailsInv
  <1>15. CASE UNCHANGED egressVars
    BY <1>15, <1>a, <1>b DEF egressVars, EgressTypeOK, InboxOK, ConnOK, LoginOK, Unread
  <1>16. QED
    BY <1>1, <1>2, <1>3, <1>4, <1>5, <1>6, <1>7, <1>8, <1>9, <1>10, <1>11, <1>12, <1>13,
       <1>14, <1>15 DEF EgressNext

\* For any answers of the proxy and any lengths in them: a connection that is handed
\* out has had its whole handshake read and no more, and has no deadline left, and a
\* dial that failed leaves none open (DialContext, handshake).
THEOREM DialsAreClean == EgressSpec => []DialIsClean
  <1>1. EgressInv => DialIsClean
    BY LengthsAreNat DEF EgressInv, EgressTypeOK, InboxOK, ConnOK, LoginOK, DialIsClean, Unread
  <1>2. QED
    BY <1>1, EgressInvInit, EgressInvNext, PTL DEF EgressSpec

-----------------------------------------------------------------------------
(* Tracker *)

Aloft == {f \in Flights : Airborne(f)}

CountsOK ==
    /\ \A a \in Tracked : inFlight[a] = Cardinality(Flying(a)) + leaked[a]
    /\ global = Cardinality(Aloft) + met.panics
    /\ \A a \in Tracked : leaked[a] <= met.panics

\* Within the hour nothing is forgotten.
BucketsOK ==
    \A a \in Tracked, k \in Keys :
        /\ k >= second - Hour => buckets[a][k].requests = began[a][k]
        /\ buckets[a][k].peak <= Cardinality(Flights) + leaked[a]

EventsOK == \A i \in DOMAIN events : events[i].own >= 1 /\ events[i].all >= events[i].own

TrackerInv == TrackerTypeOK /\ CountsOK /\ BucketsOK /\ EventsOK

Bucket == [requests : Nat, failures : Nat, rateLimited : Nat, peak : Nat]
Event == [at : Keys, account : Tracked, own : Nat, all : Nat]
Flight == [at : Keys, account : Tracked, limited : BOOLEAN]

\* The sets that are counted are finite, and some contain others.
LEMMA FlyingCount ==
  /\ IsFiniteSet(Aloft) /\ Cardinality(Aloft) \in Nat /\ Cardinality(Aloft) <= Cardinality(Flights)
  /\ \A a \in Tracked : /\ IsFiniteSet(Flying(a)) /\ Cardinality(Flying(a)) \in Nat
                        /\ Cardinality(Flying(a)) <= Cardinality(Aloft)
                        /\ Flying(a) # {} => Cardinality(Flying(a)) >= 1
  /\ Cardinality(Flights) \in Nat
  <1>1. IsFiniteSet(Flights) /\ Cardinality(Flights) \in Nat
    BY TrackerAssumption, FS_CardinalityType
  <1>2. Aloft \in SUBSET Flights
    BY DEF Aloft
  <1>3. IsFiniteSet(Aloft) /\ Cardinality(Aloft) \in Nat /\ Cardinality(Aloft) <= Cardinality(Flights)
    BY <1>1, <1>2, FS_Subset, FS_CardinalityType
  <1>4. ASSUME NEW a \in Tracked
        PROVE  /\ IsFiniteSet(Flying(a)) /\ Cardinality(Flying(a)) \in Nat
               /\ Cardinality(Flying(a)) <= Cardinality(Aloft)
               /\ Flying(a) # {} => Cardinality(Flying(a)) >= 1
    <2>1. Flying(a) \in SUBSET Aloft
      BY DEF Flying, Aloft
    <2>2. IsFiniteSet(Flying(a)) /\ Cardinality(Flying(a)) <= Cardinality(Aloft)
      BY <1>3, <2>1, FS_Subset
    <2>3. Cardinality(Flying(a)) \in Nat
      BY <2>2, FS_CardinalityType
    <2>4. Flying(a) # {} => Cardinality(Flying(a)) # 0
      BY <2>2, FS_EmptySet
    <2>5. QED
      BY <2>2, <2>3, <2>4
  <1>5. QED
    BY <1>1, <1>3, <1>4

\* A call that begins, and one that is over.
LEMMA OneMore ==
  ASSUME NEW f \in Flights, NEW a \in Tracked, ~Airborne(f), flight \in [Flights -> {Grounded} \cup Flight],
         NEW new \in Flight, new.account = a, flight' = [flight EXCEPT ![f] = new]
  PROVE  /\ Cardinality(Aloft') = Cardinality(Aloft) + 1
         /\ \A b \in Tracked : Cardinality(Flying(b)') = Cardinality(Flying(b)) + IF b = a THEN 1 ELSE 0
  <1>0. new # Grounded
    BY DEF Grounded, Flight, Keys
  <1>1. Aloft' = Aloft \cup {f} /\ f \notin Aloft
    BY <1>0 DEF Aloft, Airborne
  <1>2. Flying(a)' = Flying(a) \cup {f} /\ f \notin Flying(a)
    BY <1>0 DEF Flying, Airborne
  <1>3. \A b \in Tracked \ {a} : Flying(b)' = Flying(b)
    BY <1>0 DEF Flying, Airborne
  <1>4. Cardinality(Aloft') = Cardinality(Aloft) + 1
    BY <1>1, FlyingCount, FS_AddElement
  <1>5. Cardinality(Flying(a)') = Cardinality(Flying(a)) + 1
    BY <1>2, FlyingCount, FS_AddElement
  <1>6. \A b \in Tracked : Cardinality(Flying(b)) \in Nat
    BY FlyingCount
  <1>7. QED
    BY <1>3, <1>4, <1>5, <1>6

LEMMA OneLess ==
  ASSUME NEW f \in Flights, NEW a \in Tracked, Airborne(f), flight \in [Flights -> {Grounded} \cup Flight],
         flight[f].account = a, flight' = [flight EXCEPT ![f] = Grounded]
  PROVE  /\ Cardinality(Aloft') = Cardinality(Aloft) - 1
         /\ Cardinality(Aloft) >= 1 /\ Cardinality(Flying(a)) >= 1
         /\ \A b \in Tracked : Cardinality(Flying(b)') = Cardinality(Flying(b)) - IF b = a THEN 1 ELSE 0
  <1>1. Aloft' = Aloft \ {f} /\ f \in Aloft
    BY DEF Aloft, Airborne
  <1>2. Flying(a)' = Flying(a) \ {f} /\ f \in Flying(a)
    BY DEF Flying, Airborne
  <1>3. \A b \in Tracked \ {a} : Flying(b)' = Flying(b)
    BY DEF Flying, Airborne
  <1>4. Cardinality(Flying(a)) >= 1
    BY <1>2, FlyingCount
  <1>5. Cardinality(Aloft') = Cardinality(Aloft) - 1 /\ Cardinality(Aloft) >= 1
    <2>1. Cardinality(Aloft) >= Cardinality(Flying(a)) /\ Cardinality(Aloft) \in Nat
      BY FlyingCount
    <2>2. Cardinality(Aloft') = Cardinality(Aloft) - 1
      BY <1>1, FlyingCount, FS_RemoveElement
    <2>3. Cardinality(Flying(a)) \in Nat
      BY FlyingCount
    <2>4. QED
      BY <1>4, <2>1, <2>2, <2>3
  <1>6. Cardinality(Flying(a)') = Cardinality(Flying(a)) - 1
    BY <1>2, FlyingCount, FS_RemoveElement
  <1>7. \A b \in Tracked : Cardinality(Flying(b)) \in Nat
    BY FlyingCount
  <1>8. QED
    BY <1>3, <1>4, <1>5, <1>6, <1>7

LEMMA TrackerInvInit == TrackerInit => TrackerInv
  <1> SUFFICES ASSUME TrackerInit PROVE TrackerInv
    OBVIOUS
  <1> USE DEF TrackerInit
  <1>1. TrackerTypeOK
    BY TrackerAssumption DEF TrackerTypeOK, Keys, NoBucket
  <1>2. Aloft = {} /\ \A a \in Tracked : Flying(a) = {}
    BY DEF Aloft, Flying, Airborne
  <1>3. CountsOK
    <2>1. Cardinality({}) = 0
      BY FS_EmptySet
    <2>2. \A a \in Tracked : inFlight[a] = 0 /\ leaked[a] = 0 /\ Cardinality(Flying(a)) = 0
      BY <1>2, <2>1
    <2>3. global = 0 /\ met.panics = 0 /\ Cardinality(Aloft) = 0
      BY <1>2, <2>1
    <2>4. QED
      BY ONLY <2>2, <2>3 DEF CountsOK
  <1>4. BucketsOK
    BY FlyingCount DEF BucketsOK, NoBucket
  <1>5. EventsOK
    BY DEF EventsOK
  <1>6. QED
    BY <1>1, <1>3, <1>4, <1>5 DEF TrackerInv

LEMMA BeginInv ==
  ASSUME TrackerInv, NEW f \in Flights, NEW a \in Tracked, Begin(f, a)
  PROVE  TrackerInv'
  <1> DEFINE k == BucketOf(second)
             new == [at |-> second, account |-> a, limited |-> FALSE]
             more == Max({buckets[a][k].peak, inFlight[a] + 1})
  <1> USE DEF TrackerInv
  <1>1. /\ ~Airborne(f)
        /\ inFlight' = [inFlight EXCEPT ![a] = @ + 1]
        /\ global' = global + 1
        /\ buckets' = [buckets EXCEPT ![a][k].requests = @ + 1,
                                      ![a][k].peak = Max({@, inFlight[a] + 1})]
        /\ flight' = [flight EXCEPT ![f] = new]
        /\ began' = [began EXCEPT ![a][k] = @ + 1]
        /\ UNCHANGED <<second, events, met, leaked>>
    BY DEF Begin
  <1>2. new \in Flight /\ new.account = a /\ flight \in [Flights -> {Grounded} \cup Flight]
    BY DEF Flight, TrackerTypeOK
  <1> HIDE DEF new
  <1>3. /\ Cardinality(Aloft') = Cardinality(Aloft) + 1
        /\ \A b \in Tracked : Cardinality(Flying(b)') = Cardinality(Flying(b)) + IF b = a THEN 1 ELSE 0
    BY <1>1, <1>2, OneMore
  <1>4. CountsOK'
    <2>1. Cardinality(Aloft) \in Nat /\ \A b \in Tracked : Cardinality(Flying(b)) \in Nat
      BY FlyingCount
    <2>2. \A b \in Tracked : inFlight'[b] = Cardinality(Flying(b)') + leaked'[b]
      <3>1. /\ inFlight \in [Tracked -> Nat] /\ leaked \in [Tracked -> Nat]
            /\ \A b \in Tracked : inFlight[b] = Cardinality(Flying(b)) + leaked[b]
        BY DEF CountsOK, TrackerTypeOK
      <3>2. QED
        BY ONLY <1>1, <1>3, <2>1, <3>1, a \in Tracked
    <2>3. global' = Cardinality(Aloft') + met'.panics
      <3>1. global = Cardinality(Aloft) + met.panics /\ met.panics \in Nat /\ met' = met
        BY <1>1 DEF CountsOK, TrackerTypeOK
      <3>2. QED
        BY ONLY <1>1, <1>3, <2>1, <3>1
    <2>4. QED
      BY <1>1, <2>2, <2>3 DEF CountsOK
  <1>5. inFlight[a] + 1 <= Cardinality(Flights) + leaked[a] /\ inFlight[a] \in Nat
    <2>1. Cardinality(Flying(a)) + 1 <= Cardinality(Flights)
      <3>1. IsFiniteSet(Flights) /\ Flying(a) \in SUBSET Flights /\ f \notin Flying(a)
        BY <1>1, TrackerAssumption DEF Flying
      <3>2. Cardinality(Flying(a) \cup {f}) = Cardinality(Flying(a)) + 1
        BY <3>1, FlyingCount, FS_AddElement
      <3>3. Cardinality(Flying(a) \cup {f}) <= Cardinality(Flights)
        BY <3>1, FS_Subset
      <3>4. QED
        BY <3>2, <3>3
    <2>2. QED
      BY <2>1, FlyingCount DEF CountsOK, TrackerTypeOK
  <1> HIDE DEF k
  <1>6. k \in Keys => /\ more \in Nat
                      /\ more <= Cardinality(Flights) + leaked[a]
    <2> SUFFICES ASSUME k \in Keys PROVE more \in Nat /\ more <= Cardinality(Flights) + leaked[a]
      OBVIOUS
    <2>1. buckets[a][k].peak \in Nat /\ buckets[a][k].peak <= Cardinality(Flights) + leaked[a]
      BY DEF TrackerTypeOK, BucketsOK
    <2>2. more \in Nat /\ (more = buckets[a][k].peak \/ more = inFlight[a] + 1)
      BY <1>5, <2>1, GreaterOfTwo
    <2>3. QED
      BY <1>5, <2>1, <2>2
  <1> DEFINE bucket == buckets[a][k]
             n == bucket.requests + 1
             fuller == [bucket EXCEPT !.requests = n, !.peak = more]
             once == began[a][k] + 1
  <1>7. /\ buckets' \in [Tracked -> [Keys -> Bucket]]
        /\ \A b \in Tracked, j \in Keys :
              buckets'[b][j] = IF b = a /\ j = k THEN fuller ELSE buckets[b][j]
        /\ k \in Keys => fuller.requests = bucket.requests + 1 /\ fuller.peak = more
    <2>1. buckets \in [Tracked -> [Keys -> Bucket]]
      BY DEF TrackerTypeOK, Bucket
    <2>2. ASSUME k \in Keys PROVE fuller \in Bucket /\ fuller.requests = n /\ fuller.peak = more
      <3>1. bucket \in Bucket
        BY <2>1, <2>2
      <3> HIDE DEF bucket
      <3>2. n \in Nat
        BY <3>1 DEF Bucket
      <3> HIDE DEF n, more
      <3>3. QED
        BY <1>6, <2>2, <3>1, <3>2 DEF Bucket
    <2>3. buckets' = [buckets EXCEPT ![a][k] = fuller]
      BY <1>1
    <2>4. k \in Keys => fuller \in Bucket
      BY <2>2
    <2> HIDE DEF fuller, Bucket
    <2>5. /\ buckets' \in [Tracked -> [Keys -> Bucket]]
          /\ \A b \in Tracked, j \in Keys :
                buckets'[b][j] = IF b = a /\ j = k THEN fuller ELSE buckets[b][j]
      <3> DEFINE row == [buckets[a] EXCEPT ![k] = fuller]
      <3>1. row \in [Keys -> Bucket] /\ \A j \in Keys : row[j] = IF j = k THEN fuller ELSE buckets[a][j]
        BY <2>1, <2>4
      <3>2. buckets' = [buckets EXCEPT ![a] = row]
        BY <2>3
      <3> HIDE DEF row
      <3>3. QED
        BY ONLY <2>1, <3>1, <3>2, a \in Tracked
    <2>6. QED
      BY <2>2, <2>5
  <1>8. /\ began' \in [Tracked -> [Keys -> Nat]]
        /\ \A b \in Tracked, j \in Keys :
              began'[b][j] = IF b = a /\ j = k THEN once ELSE began[b][j]
    <2>1. began \in [Tracked -> [Keys -> Nat]]
      BY DEF TrackerTypeOK
    <2>2. k \in Keys => once \in Nat
      BY <2>1
    <2>3. began' = [began EXCEPT ![a][k] = once]
      BY <1>1
    <2> HIDE DEF once
    <2>4. QED
      <3> DEFINE row == [began[a] EXCEPT ![k] = once]
      <3>1. row \in [Keys -> Nat] /\ \A j \in Keys : row[j] = IF j = k THEN once ELSE began[a][j]
        BY <2>1, <2>2
      <3>2. began' = [began EXCEPT ![a] = row]
        BY <2>3
      <3> HIDE DEF row
      <3>3. QED
        BY ONLY <2>1, <3>1, <3>2, a \in Tracked
  <1> HIDE DEF more, fuller
  <1>9. TrackerTypeOK'
    <2>1. flight' \in [Flights -> {Grounded} \cup Flight]
      BY <1>1, <1>2
    <2>2. inFlight' \in [Tracked -> Nat] /\ global' \in Nat
      BY <1>1 DEF TrackerTypeOK
    <2>3. QED
      BY <1>1, <1>7, <1>8, <2>1, <2>2 DEF TrackerTypeOK, Flight, Bucket
  <1>10. BucketsOK'
    <2> SUFFICES ASSUME NEW b \in Tracked, NEW j \in Keys
                 PROVE  /\ second - Hour <= j => buckets'[b][j].requests = began'[b][j]
                        /\ buckets'[b][j].peak <= Cardinality(Flights) + leaked[b]
      BY <1>1 DEF BucketsOK
    <2>1. /\ second - Hour <= j => buckets[b][j].requests = began[b][j]
          /\ buckets[b][j].peak <= Cardinality(Flights) + leaked[b]
      BY DEF BucketsOK
    <2>2. CASE b = a /\ j = k
      <3>1. bucket.requests \in Nat /\ more <= Cardinality(Flights) + leaked[a]
        BY <1>6, <2>2 DEF TrackerTypeOK
      <3>2. buckets'[b][j].requests = bucket.requests + 1 /\ buckets'[b][j].peak = more
        BY <1>7, <2>2
      <3>3. began'[b][j] = began[b][j] + 1
        BY <1>8, <2>2
      <3>4. QED
        BY <2>1, <2>2, <3>1, <3>2, <3>3
    <2>3. CASE ~(b = a /\ j = k)
      <3>1. buckets'[b][j] = buckets[b][j] /\ began'[b][j] = began[b][j]
        BY <1>7, <1>8, <2>3
      <3>2. QED
        BY <2>1, <3>1
    <2>4. QED
      BY <2>2, <2>3
  <1>11. QED
    BY <1>1, <1>4, <1>9, <1>10 DEF EventsOK

\* A failure or a rate limit is noted beside the requests and the peak.
LEMMA Noted ==
  ASSUME TrackerTypeOK, NEW a \in Tracked, NEW k,
         \/ buckets' = [buckets EXCEPT ![a][k].failures = @ + 1]
         \/ buckets' = [buckets EXCEPT ![a][k].rateLimited = @ + 1]
  PROVE  /\ buckets' \in [Tracked -> [Keys -> Bucket]]
         /\ \A b \in Tracked, j \in Keys : /\ buckets'[b][j].requests = buckets[b][j].requests
                                           /\ buckets'[b][j].peak = buckets[b][j].peak
  <1> DEFINE bucket == buckets[a][k]
             failed == bucket.failures + 1
             limited == bucket.rateLimited + 1
  <1>1. buckets \in [Tracked -> [Keys -> Bucket]]
    BY DEF TrackerTypeOK, Bucket
  <1>2. PICK noted : /\ buckets' = [buckets EXCEPT ![a][k] = noted]
                     /\ \/ noted = [bucket EXCEPT !.failures = failed]
                        \/ noted = [bucket EXCEPT !.rateLimited = limited]
    <2>1. CASE buckets' = [buckets EXCEPT ![a][k].failures = @ + 1]
      <3>1. buckets' = [buckets EXCEPT ![a][k] = [bucket EXCEPT !.failures = failed]]
        BY <2>1
      <3>2. QED
        BY <3>1
    <2>2. CASE buckets' = [buckets EXCEPT ![a][k].rateLimited = @ + 1]
      <3>1. buckets' = [buckets EXCEPT ![a][k] = [bucket EXCEPT !.rateLimited = limited]]
        BY <2>2
      <3>2. QED
        BY <3>1
    <2>3. QED
      BY <2>1, <2>2
  <1>3. k \in Keys => noted \in Bucket /\ noted.requests = bucket.requests /\ noted.peak = bucket.peak
    <2> SUFFICES ASSUME k \in Keys
                 PROVE  noted \in Bucket /\ noted.requests = bucket.requests /\ noted.peak = bucket.peak
      OBVIOUS
    <2>1. bucket \in Bucket
      BY <1>1
    <2> HIDE DEF bucket
    <2>2. failed \in Nat /\ limited \in Nat
      BY <2>1 DEF Bucket
    <2> HIDE DEF failed, limited
    <2>3. QED
      BY <1>2, <2>1, <2>2 DEF Bucket
  <1> DEFINE row == [buckets[a] EXCEPT ![k] = noted]
  <1>4. row \in [Keys -> Bucket] /\ \A j \in Keys : row[j] = IF j = k THEN noted ELSE buckets[a][j]
    BY <1>1, <1>3
  <1>5. buckets' = [buckets EXCEPT ![a] = row]
    BY <1>2
  <1> HIDE DEF row
  <1>6. QED
    BY <1>1, <1>3, <1>4, <1>5

LEMMA EndInv ==
  ASSUME TrackerInv, NEW f \in Flights, NEW ok \in BOOLEAN, End(f, ok)
  PROVE  TrackerInv'
  <1> DEFINE a == flight[f].account
             k == BucketOf(flight[f].at)
  <1> USE DEF TrackerInv
  <1>1. /\ Airborne(f)
        /\ inFlight' = [inFlight EXCEPT ![a] = Less(@)]
        /\ global' = Less(global)
        /\ flight' = [flight EXCEPT ![f] = Grounded]
        /\ UNCHANGED <<second, events, met, began, leaked>>
        /\ buckets' = buckets \/ buckets' = [buckets EXCEPT ![a][k].failures = @ + 1]
    BY DEF End
  <1>2. flight \in [Flights -> {Grounded} \cup Flight] /\ a \in Tracked
    BY <1>1 DEF TrackerTypeOK, Flight, Airborne
  <1> HIDE DEF k
  <1>3. /\ Cardinality(Aloft') = Cardinality(Aloft) - 1
        /\ Cardinality(Aloft) >= 1 /\ Cardinality(Flying(a)) >= 1
        /\ \A b \in Tracked : Cardinality(Flying(b)') = Cardinality(Flying(b)) - IF b = a THEN 1 ELSE 0
    BY <1>1, <1>2, OneLess
  <1>4. /\ inFlight \in [Tracked -> Nat] /\ leaked \in [Tracked -> Nat] /\ global \in Nat
        /\ met.panics \in Nat
        /\ \A b \in Tracked : inFlight[b] = Cardinality(Flying(b)) + leaked[b]
        /\ global = Cardinality(Aloft) + met.panics
        /\ \A b \in Tracked : leaked[b] <= met.panics
    BY DEF CountsOK, TrackerTypeOK
  <1>5. Cardinality(Aloft) \in Nat /\ \A b \in Tracked : Cardinality(Flying(b)) \in Nat
    BY FlyingCount
  <1> HIDE DEF a
  <1>6. global' = global - 1 /\ inFlight' = [inFlight EXCEPT ![a] = @ - 1]
    <2>1. inFlight[a] = Cardinality(Flying(a)) + leaked[a] /\ leaked[a] \in Nat
      BY <1>2, <1>4
    <2>2. Cardinality(Flying(a)) \in Nat
      BY <1>2, <1>5
    <2>3. inFlight[a] > 0 /\ global > 0
      BY <1>3, <1>4, <1>5, <2>1, <2>2
    <2>4. Less(inFlight[a]) = inFlight[a] - 1 /\ Less(global) = global - 1
      BY <2>3 DEF Less
    <2>5. QED
      BY <1>1, <2>4
  <1>7. CountsOK'
    <2>1. \A b \in Tracked : inFlight'[b] = Cardinality(Flying(b)') + leaked'[b]
      BY ONLY <1>1, <1>2, <1>3, <1>4, <1>5, <1>6
    <2>2. global' = Cardinality(Aloft') + met'.panics
      BY ONLY <1>1, <1>3, <1>4, <1>5, <1>6
    <2>3. QED
      BY <1>1, <1>4, <2>1, <2>2 DEF CountsOK
  <1>8. /\ buckets' \in [Tracked -> [Keys -> Bucket]]
        /\ \A b \in Tracked, j \in Keys : /\ buckets'[b][j].requests = buckets[b][j].requests
                                          /\ buckets'[b][j].peak = buckets[b][j].peak
    <2>1. CASE buckets' = buckets
      BY <2>1 DEF TrackerTypeOK, Bucket
    <2>2. CASE buckets' = [buckets EXCEPT ![a][k].failures = @ + 1]
      BY <1>2, <2>2, Noted
    <2>3. QED
      BY <1>1, <2>1, <2>2
  <1>9. TrackerTypeOK'
    <2>1. inFlight' \in [Tracked -> Nat] /\ global' \in Nat
      BY <1>2, <1>3, <1>4, <1>5, <1>6
    <2>2. flight' \in [Flights -> {Grounded} \cup Flight]
      BY <1>1, <1>2
    <2>3. QED
      BY <1>1, <1>8, <2>1, <2>2 DEF TrackerTypeOK, Bucket, Flight
  <1>10. BucketsOK'
    BY <1>1, <1>8 DEF BucketsOK
  <1>11. QED
    BY <1>1, <1>7, <1>9, <1>10 DEF EventsOK

LEMMA PanicInv ==
  ASSUME TrackerInv, NEW f \in Flights, Panic(f)
  PROVE  TrackerInv'
  <1> DEFINE a == flight[f].account
  <1> USE DEF TrackerInv
  <1>1. /\ Airborne(f)
        /\ met' = [met EXCEPT !.panics = @ + 1]
        /\ leaked' = [leaked EXCEPT ![a] = @ + 1]
        /\ flight' = [flight EXCEPT ![f] = Grounded]
        /\ UNCHANGED <<second, inFlight, global, buckets, events, began>>
    BY DEF Panic
  <1>2. flight \in [Flights -> {Grounded} \cup Flight] /\ a \in Tracked
    BY <1>1 DEF TrackerTypeOK, Flight, Airborne
  <1>3. /\ Cardinality(Aloft') = Cardinality(Aloft) - 1
        /\ Cardinality(Aloft) >= 1 /\ Cardinality(Flying(a)) >= 1
        /\ \A b \in Tracked : Cardinality(Flying(b)') = Cardinality(Flying(b)) - IF b = a THEN 1 ELSE 0
    BY <1>1, <1>2, OneLess
  <1>4. /\ inFlight \in [Tracked -> Nat] /\ leaked \in [Tracked -> Nat] /\ global \in Nat
        /\ met \in [limits : Nat, panics : Nat]
        /\ \A b \in Tracked : inFlight[b] = Cardinality(Flying(b)) + leaked[b]
        /\ global = Cardinality(Aloft) + met.panics
        /\ \A b \in Tracked : leaked[b] <= met.panics
    BY DEF CountsOK, TrackerTypeOK
  <1>5. Cardinality(Aloft) \in Nat /\ \A b \in Tracked : Cardinality(Flying(b)) \in Nat
    BY FlyingCount
  <1> HIDE DEF a
  <1>6. /\ met' \in [limits : Nat, panics : Nat] /\ met'.panics = met.panics + 1
        /\ met.panics \in Nat
    BY ONLY <1>1, <1>4
  <1>7. CountsOK'
    <2>1. \A b \in Tracked : inFlight'[b] = Cardinality(Flying(b)') + leaked'[b]
      BY ONLY <1>1, <1>2, <1>3, <1>4, <1>5
    <2>2. global' = Cardinality(Aloft') + met'.panics
      BY ONLY <1>1, <1>3, <1>4, <1>5, <1>6
    <2>3. \A b \in Tracked : leaked'[b] <= met'.panics
      BY ONLY <1>1, <1>2, <1>4, <1>6
    <2>4. QED
      BY <2>1, <2>2, <2>3 DEF CountsOK
  <1>8. TrackerTypeOK'
    <2>1. leaked' \in [Tracked -> Nat]
      BY <1>1, <1>2, <1>4
    <2>2. flight' \in [Flights -> {Grounded} \cup Flight]
      BY <1>1, <1>2
    <2>3. QED
      BY <1>1, <1>6, <2>1, <2>2 DEF TrackerTypeOK, Flight
  <1>9. BucketsOK'
    <2>1. \A b \in Tracked : leaked[b] <= leaked'[b] /\ leaked[b] \in Nat /\ leaked'[b] \in Nat
      BY <1>1, <1>2, <1>4
    <2>2. \A b \in Tracked, j \in Keys : buckets[b][j].peak \in Nat
      BY DEF TrackerTypeOK
    <2>3. QED
      BY <1>1, <2>1, <2>2, FlyingCount DEF BucketsOK
  <1>10. QED
    BY <1>1, <1>7, <1>8, <1>9 DEF EventsOK

LEMMA RateLimitedInv ==
  ASSUME TrackerInv, NEW f \in Flights, RateLimited(f)
  PROVE  TrackerInv'
  <1> DEFINE a == flight[f].account
             ev == [at |-> second, account |-> a, own |-> inFlight[a], all |-> global]
             longer == Append(events, ev)
             k == BucketOf(second)
  <1> USE DEF TrackerInv
  <1>1. /\ Airborne(f)
        /\ met' = [met EXCEPT !.limits = @ + 1]
        /\ events' = IF Len(longer) > MaxEvents THEN Tail(longer) ELSE longer
        /\ buckets' = [buckets EXCEPT ![a][k].rateLimited = @ + 1]
        /\ flight' = [flight EXCEPT ![f].limited = TRUE]
        /\ UNCHANGED <<second, inFlight, global, began, leaked>>
    BY DEF RateLimited
  <1>2. flight \in [Flights -> {Grounded} \cup Flight] /\ flight[f] \in Flight /\ a \in Tracked
    BY <1>1 DEF TrackerTypeOK, Flight, Airborne
  <1>3. Aloft' = Aloft /\ \A b \in Tracked : Flying(b)' = Flying(b)
    <2>1. flight'[f] \in Flight /\ flight'[f].account = a
      BY <1>1, <1>2 DEF Flight
    <2>2. \A g \in Flights : g # f => flight'[g] = flight[g]
      BY <1>1, <1>2
    <2>3. \A x \in Flight : x # Grounded
      BY DEF Flight, Grounded, Keys
    <2>4. \A g \in Flights : Airborne(g)' = Airborne(g) /\ flight'[g].account = flight[g].account
      BY <1>2, <2>1, <2>2, <2>3 DEF Airborne
    <2>5. QED
      BY <2>4 DEF Aloft, Flying
  <1>4. CountsOK'
    <2>1. met'.panics = met.panics
      BY <1>1 DEF TrackerTypeOK
    <2>2. QED
      BY <1>1, <1>3, <2>1 DEF CountsOK
  <1> HIDE DEF k
  <1>5. /\ buckets' \in [Tracked -> [Keys -> Bucket]]
        /\ \A b \in Tracked, j \in Keys : /\ buckets'[b][j].requests = buckets[b][j].requests
                                          /\ buckets'[b][j].peak = buckets[b][j].peak
    BY <1>1, <1>2, Noted
  <1>6. ev \in Event /\ ev.own >= 1 /\ ev.all >= ev.own
    <2>1. ev \in Event
      BY <1>2 DEF Event, TrackerTypeOK
    <2>2. f \in Flying(a)
      BY <1>1 DEF Flying
    <2>3. /\ Cardinality(Flying(a)) >= 1 /\ Cardinality(Flying(a)) <= Cardinality(Aloft)
          /\ Cardinality(Flying(a)) \in Nat /\ Cardinality(Aloft) \in Nat
      BY <1>2, <2>2, FlyingCount
    <2>4. inFlight[a] = Cardinality(Flying(a)) + leaked[a] /\ leaked[a] <= met.panics
          /\ global = Cardinality(Aloft) + met.panics /\ leaked[a] \in Nat /\ met.panics \in Nat
      BY <1>2 DEF CountsOK, TrackerTypeOK
    <2>5. QED
      BY <2>1, <2>3, <2>4
  <1> HIDE DEF ev
  <1>7. events \in Seq(Event) /\ EventsOK
    BY DEF TrackerTypeOK, Event
  <1>8. /\ longer \in Seq(Event) /\ Len(longer) = Len(events) + 1
        /\ \A i \in DOMAIN longer : longer[i].own >= 1 /\ longer[i].all >= longer[i].own
    BY <1>6, <1>7 DEF EventsOK
  <1> HIDE DEF longer
  <1>9. events' \in Seq(Event) /\ EventsOK'
    <2>1. CASE events' = longer
      BY <1>8, <2>1 DEF EventsOK
    <2>2. CASE events' = Tail(longer)
      <3>1. longer # <<>>
        BY <1>7, <1>8
      <3>2. /\ events' \in Seq(Event) /\ DOMAIN events' = 1 .. Len(longer) - 1
            /\ \A i \in DOMAIN events' : events'[i] = longer[i + 1] /\ i + 1 \in DOMAIN longer
        BY <1>8, <2>2, <3>1
      <3>3. QED
        BY <1>8, <3>2 DEF EventsOK
    <2>3. QED
      BY <1>1, <2>1, <2>2
  <1>10. TrackerTypeOK'
    <2>1. flight' \in [Flights -> {Grounded} \cup Flight]
      BY <1>1, <1>2 DEF Flight
    <2>2. met' \in [limits : Nat, panics : Nat]
      <3>1. met \in [limits : Nat, panics : Nat]
        BY DEF TrackerTypeOK
      <3>2. QED
        BY ONLY <1>1, <3>1
    <2>3. QED
      BY <1>1, <1>5, <1>9, <2>1, <2>2 DEF TrackerTypeOK, Bucket, Event, Flight
  <1>11. BucketsOK'
    BY <1>1, <1>5 DEF BucketsOK
  <1>12. QED
    BY <1>4, <1>9, <1>10, <1>11

LEMMA SnapshotInv ==
  ASSUME TrackerInv, TrackerSnapshot
  PROVE  TrackerInv'
  <1> USE DEF TrackerInv
  <1>1. buckets' = Kept(second) /\ UNCHANGED <<second, inFlight, global, events, flight, met, began, leaked>>
    BY DEF TrackerSnapshot
  <1>2. \A b \in Tracked, j \in Keys :
          buckets'[b][j] = IF j < second - Hour THEN NoBucket ELSE buckets[b][j]
    BY <1>1 DEF Kept
  <1>3. buckets' \in [Tracked -> [Keys -> Bucket]]
    <2>1. NoBucket \in Bucket
      BY DEF NoBucket, Bucket
    <2>2. buckets \in [Tracked -> [Keys -> Bucket]]
      BY DEF TrackerTypeOK, Bucket
    <2> HIDE DEF Bucket
    <2>3. QED
      BY <1>1, <2>1, <2>2 DEF Kept
  <1>4. TrackerTypeOK'
    BY <1>1, <1>3 DEF TrackerTypeOK, Bucket
  <1>5. CountsOK'
    BY <1>1 DEF CountsOK, Flying, Aloft, Airborne
  <1>6. BucketsOK'
    <2> SUFFICES ASSUME NEW b \in Tracked, NEW j \in Keys
                 PROVE  /\ j >= second - Hour => buckets'[b][j].requests = began[b][j]
                        /\ buckets'[b][j].peak <= Cardinality(Flights) + leaked[b]
      BY <1>1 DEF BucketsOK
    <2>1. /\ j >= second - Hour => buckets[b][j].requests = began[b][j]
          /\ buckets[b][j].peak <= Cardinality(Flights) + leaked[b]
      BY DEF BucketsOK
    <2>2. leaked[b] \in Nat /\ second \in Int /\ Hour \in Int /\ j \in Int
      BY TrackerAssumption DEF TrackerTypeOK, Keys
    <2>3. CASE j < second - Hour
      <3>1. buckets'[b][j].peak = 0
        BY <1>2, <2>3 DEF NoBucket
      <3>2. QED
        BY <2>2, <2>3, <3>1, FlyingCount
    <2>4. CASE ~(j < second - Hour)
      BY <1>2, <2>1, <2>4
    <2>5. QED
      BY <2>3, <2>4
  <1>7. QED
    BY <1>1, <1>4, <1>5, <1>6 DEF EventsOK

LEMMA TrackerInvNext == TrackerInv /\ [TrackerNext]_trackerVars => TrackerInv'
  <1> SUFFICES ASSUME TrackerInv, [TrackerNext]_trackerVars PROVE TrackerInv'
    OBVIOUS
  <1>1. CASE SecondPasses
    <2>1. second' = second + 1 /\ second' \in Keys
      BY <1>1, TrackerAssumption DEF SecondPasses, TrackerInv, TrackerTypeOK, Keys
    <2>2. TrackerTypeOK' /\ CountsOK' /\ EventsOK'
      BY <1>1, <2>1 DEF SecondPasses, TrackerInv, TrackerTypeOK, CountsOK, EventsOK, Flying, Aloft, Airborne
    <2>3. BucketsOK'
      BY <1>1, <2>1, TrackerAssumption DEF SecondPasses, TrackerInv, TrackerTypeOK, BucketsOK, Keys
    <2>4. QED
      BY <2>2, <2>3 DEF TrackerInv
  <1>2. CASE UNCHANGED trackerVars
    BY <1>2 DEF trackerVars, TrackerInv, TrackerTypeOK, CountsOK, EventsOK, BucketsOK, Flying, Aloft, Airborne
  <1>3. QED
    BY <1>1, <1>2, BeginInv, EndInv, PanicInv, RateLimitedInv, SnapshotInv DEF TrackerNext

\* Every variable of the tracker has its type.
THEOREM TrackerTypeCorrect == TrackerSpec => []TrackerTypeOK
  BY TrackerInvInit, TrackerInvNext, PTL DEF TrackerSpec, TrackerInv

\* A span of the buckets has the calls that began in it.
LEMMA TrackerInvAddsUp == TrackerInv => TrackerAddsUp
  <1> SUFFICES ASSUME TrackerInv PROVE TrackerAddsUp
    OBVIOUS
  <1> USE DEF TrackerInv
  <1>1. ASSUME NEW a \in Tracked, NEW span \in {BucketSeconds, FiveMinutes, Hour}
        PROVE  Rpm(a, second, span) = SumFunction([k \in Younger(second, span) |-> began[a][k]])
    <2>1. span \in Int /\ span <= Hour /\ Hour \in Int /\ second \in Int
      BY TrackerAssumption DEF TrackerTypeOK, Keys
    <2>2. \A k \in Younger(second, span) : buckets[a][k].requests = began[a][k]
      BY <2>1 DEF Younger, BucketsOK, Keys
    <2>3. [k \in Younger(second, span) |-> buckets[a][k].requests]
            = [k \in Younger(second, span) |-> began[a][k]]
      BY <2>2
    <2>4. QED
      BY <2>3 DEF Rpm
  <1>2. ASSUME NEW a \in Tracked
        PROVE  PeakInFlight(a, second) <= Cardinality(Flights) + leaked[a]
    <2> DEFINE peaks == {buckets[a][k].peak : k \in {k \in Keys : k >= second - Hour}}
               most == Cardinality(Flights) + leaked[a]
    <2>1. most \in Nat
      BY FlyingCount DEF TrackerTypeOK
    <2>2. \A x \in peaks : x \in Nat /\ x <= most
      BY DEF TrackerTypeOK, BucketsOK
    <2>3. peaks # {}
      <3>1. second \in Keys /\ second >= second - Hour
        BY TrackerAssumption DEF TrackerTypeOK, Keys
      <3>2. QED
        BY <3>1
    <2> HIDE DEF most, peaks
    <2>4. Max(peaks) \in peaks
      BY <2>1, <2>2, <2>3, GreatestOf
    <2>5. PeakInFlight(a, second) = Max(peaks)
      BY DEF PeakInFlight, peaks
    <2>6. QED
      BY <2>2, <2>4, <2>5 DEF most
  <1>3. QED
    BY <1>1, <1>2 DEF TrackerAddsUp, CountsOK, EventsOK, Aloft

\* For any accounts, calls and spans: what the tracker shows in flight is what is in
\* flight and what panicked, the requests of a span are those that began in it, and no
\* peak is higher than there are calls (Begin, Snapshot, RecordRateLimit).
THEOREM TheTrackerAddsUp == TrackerSpec => []TrackerAddsUp
  BY TrackerInvInit, TrackerInvNext, TrackerInvAddsUp, PTL DEF TrackerSpec

-----------------------------------------------------------------------------
(* Watch *)

\* The last word there was or is to be sent.
Word == IF Idle THEN last ELSE outbox

\* The watch is in trouble just when its last word told of trouble, and then it
\* knows when that was.
ToldOK ==
    /\ minute \in Nat
    /\ problems = {} => Word.kind \in {"none", "recover"}
    /\ problems # {} => /\ Word.kind \in {"alert", "remind"}
                        /\ Word.at = lastSent
                        /\ lastSent \in 0 .. minute

\* What is being sent follows what was sent before.
NextWordOK ==
    /\ outbox.kind = "alert" => last.kind \in {"none", "recover"}
    /\ outbox.kind = "recover" => last.kind \in {"alert", "remind"}
    /\ outbox.kind = "remind" =>
          last.kind \in {"alert", "remind"} /\ outbox.at - last.at >= Reminder

WatchInv == ToldOK /\ NextWordOK

LEMMA WatchInvInit == WatchInit => WatchInv
  BY DEF WatchInit, WatchInv, ToldOK, NextWordOK, Word, Idle, Nothing

LEMMA WatchInvNext == WatchInv /\ [WatchNext]_watchVars => WatchInv'
  <1> SUFFICES ASSUME WatchInv, [WatchNext]_watchVars PROVE WatchInv'
    OBVIOUS
  <1> USE DEF WatchInv
  <1>1. ASSUME NEW s \in Samples, RecordSample(s) PROVE WatchInv'
    BY <1>1 DEF RecordSample, ToldOK, NextWordOK, Word, Idle
  <1>2. CASE Evaluate
    <2>1. minute \in Nat /\ minute' = minute + 1
      BY <1>2 DEF Evaluate, ToldOK
    <2>2. CASE StaysWell
      <3>1. problems = {} /\ problems' = {} /\ UNCHANGED <<lastSent, outbox, last>>
        BY <2>2 DEF StaysWell
      <3>2. QED
        BY <2>1, <3>1 DEF ToldOK, NextWordOK, Word, Idle
    <2>3. CASE Enters
      <3>1. /\ Idle /\ problems = {} /\ problems' # {} /\ lastSent' = minute
            /\ outbox' = [kind |-> "alert", at |-> minute] /\ last' = last
        BY <2>3 DEF Enters, Verdict
      <3>2. outbox' # Nothing /\ outbox'.kind = "alert" /\ outbox'.at = minute
        BY <3>1 DEF Nothing
      <3>3. last.kind \in {"none", "recover"}
        BY <3>1 DEF ToldOK, Word
      <3>4. QED
        BY <2>1, <3>1, <3>2, <3>3 DEF ToldOK, NextWordOK, Word, Idle
    <2>4. CASE Lasts
      <3>1. /\ Idle /\ problems # {} /\ problems' # {} /\ last' = last
            /\ \/ /\ Due /\ lastSent' = minute
                  /\ outbox' = [kind |-> "remind", at |-> minute]
               \/ UNCHANGED <<lastSent, outbox>>
        BY <2>4 DEF Lasts, Verdict
      <3>2. last.kind \in {"alert", "remind"} /\ last.at = lastSent /\ lastSent \in 0 .. minute
        BY <3>1 DEF ToldOK, Word
      <3>3. CASE Due /\ lastSent' = minute /\ outbox' = [kind |-> "remind", at |-> minute]
        <4>1. outbox' # Nothing /\ outbox'.kind = "remind" /\ outbox'.at = minute
          BY <3>3 DEF Nothing
        <4>2. minute - last.at >= Reminder
          BY <2>1, <3>2, <3>3 DEF Due
        <4>3. QED
          BY <2>1, <3>1, <3>2, <3>3, <4>1, <4>2, WatchAssumption DEF ToldOK, NextWordOK, Word, Idle
      <3>4. CASE UNCHANGED <<lastSent, outbox>>
        BY <2>1, <3>1, <3>2, <3>4, WatchAssumption DEF ToldOK, NextWordOK, Word, Idle
      <3>5. QED
        BY <3>1, <3>3, <3>4
    <2>5. CASE Recovers
      <3>1. /\ Idle /\ problems # {} /\ problems' = {}
            /\ outbox' = [kind |-> "recover", at |-> minute] /\ last' = last
        BY <2>5 DEF Recovers, Verdict
      <3>2. outbox' # Nothing /\ outbox'.kind = "recover"
        BY <3>1 DEF Nothing
      <3>3. last.kind \in {"alert", "remind"}
        BY <3>1 DEF ToldOK, Word
      <3>4. QED
        BY <2>1, <3>1, <3>2, <3>3 DEF ToldOK, NextWordOK, Word, Idle
    <2>6. QED
      BY <1>2, <2>2, <2>3, <2>4, <2>5 DEF Evaluate
  <1>3. ASSUME NEW reached \in SUBSET Channels, Send(reached) PROVE WatchInv'
    <2>1. ~Idle /\ outbox' = Nothing /\ last' = outbox /\ UNCHANGED <<minute, problems, lastSent>>
      BY <1>3 DEF Send
    <2>2. Word' = Word
      BY <2>1 DEF Word, Idle
    <2>3. outbox'.kind = "none"
      BY <2>1 DEF Nothing
    <2>4. QED
      BY <2>1, <2>2, <2>3 DEF ToldOK, NextWordOK
  <1>4. CASE SendTakesLong
    BY <1>4 DEF SendTakesLong, ToldOK, NextWordOK, Word, Idle
  <1>5. CASE WatchRestart
    BY <1>5 DEF WatchRestart, WatchBlank, ToldOK, NextWordOK, Word, Idle, Nothing
  <1>6. CASE UNCHANGED watchVars
    BY <1>6 DEF watchVars, ToldOK, NextWordOK, Word, Idle
  <1>7. QED
    BY <1>1, <1>2, <1>3, <1>4, <1>5, <1>6 DEF WatchNext

\* Whatever the samples are judged to show: alerts, reminders and recoveries come in
\* order, one incident after the other, and reminders no closer than Reminder; this is
\* the second half of WatchKeepsItsWord (Evaluate, send).
THEOREM WordsComeInOrder == WatchSpec => [][WordInOrder]_watchVars
  <1>1. WatchInv /\ [WatchNext]_watchVars => [WordInOrder]_watchVars
    <2> SUFFICES ASSUME WatchInv, WatchNext PROVE WordInOrder
      OBVIOUS
    <2>1. CASE \E reached \in SUBSET Channels : Send(reached)
      <3>1. last' = outbox
        BY <2>1 DEF Send
      <3>2. QED
        BY <3>1 DEF WordInOrder, WatchInv, NextWordOK
    <2>2. CASE WatchRestart
      BY <2>2 DEF WatchRestart, WatchBlank, WordInOrder, Nothing
    <2>3. CASE (\E s \in Samples : RecordSample(s)) \/ Evaluate \/ SendTakesLong
      <3>1. last' = last
        BY <2>3 DEF RecordSample, Evaluate, StaysWell, Enters, Lasts, Recovers, SendTakesLong
      <3>2. QED
        BY <3>1 DEF WordInOrder
    <2>4. QED
      BY <2>1, <2>2, <2>3 DEF WatchNext
  <1>2. QED
    BY <1>1, WatchInvInit, WatchInvNext, PTL DEF WatchSpec
===============================================================================
