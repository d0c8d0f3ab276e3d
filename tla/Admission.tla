------------------------------ MODULE Admission ------------------------------
(***************************************************************************)
(* How a request is let in and where it goes (server.go, binding.go): its  *)
(* key, the account or the site the key stands for, the site named by the  *)
(* model's prefix or by X-Site, and the pool's answer when the request is  *)
(* given an account.  A client may take its time over the body, and the    *)
(* operator may change keys and accounts between any two of these steps.   *)
(***************************************************************************)
EXTENDS Naturals, Sequences, TLC

CONSTANTS
    ApiKeys,            \* keys that may be on the list, the main key among them
    MainKey,            \* the key that is good without being on the list
    PoolAccounts,
    RequestSites,       \* "global" and "domestic"
    Unnamed,            \* no site, no account, no key
    MaxAdmissionChanges   \* changes of keys, accounts and the active site

VARIABLES
    gate,      \* whether a key is required, API_KEYS as written, the active site
    pooled,    \* account -> its site, and whether it is enabled and has credentials;
               \* a deleted account is not usable either
    request,   \* the request: what it says of itself and where it has got to
    moved      \* bounded changes of the operator

admissionVars == <<gate, pooled, request, moved>>

\* An entry of API_KEYS has a site, an account, or neither.
Bindings == {[site |-> Unnamed, account |-> Unnamed]}
                \cup {[site |-> s, account |-> Unnamed] : s \in RequestSites}
                \cup {[site |-> Unnamed, account |-> a] : a \in PoolAccounts}
Entries == {[key |-> k] @@ b : k \in ApiKeys, b \in Bindings}

\* ParseAPIKeys: of two entries of a key the later one counts.
ParseAPIKeys(list) ==
    {list[i] : i \in {j \in DOMAIN list : \A k \in j + 1 .. Len(list) : list[k].key # list[j].key}}

\* LookupAPIKeyBinding: the entry of the key, or none for the main key.
LookupAPIKeyBinding(key) ==
    LET found == {[site |-> e.site, account |-> e.account] :
                      e \in {x \in ParseAPIKeys(gate.list) : x.key = key}}
    IN  IF found = {} /\ key = MainKey THEN {[site |-> Unnamed, account |-> Unnamed]} ELSE found

\* Requests as they arrive, with or without a site of their own.
Arrivals == [step : {"arrived"}, key : ApiKeys \cup {Unnamed},
             prefix : RequestSites \cup {Unnamed}, header : RequestSites \cup {Unnamed},
             binding : {[site |-> Unnamed, account |-> Unnamed]},
             site : {Unnamed}, account : {Unnamed}, reached : {Unnamed}]

AdmissionInit ==
    /\ gate \in [required : BOOLEAN, active : RequestSites,
                 list : UNION {[1 .. n -> Entries] : n \in 0 .. 1}]
    /\ pooled \in [PoolAccounts -> [site : RequestSites, usable : {TRUE}]]
    /\ request \in Arrivals
    /\ moved = 0

Refused ==
    /\ request' = [request EXCEPT !.step = "refused"]
    /\ UNCHANGED <<gate, pooled, moved>>

\* authorizeAPI: without a required key nothing is looked up; a key that stands
\* for an account stands for the account's site (bindAccount).
Admits(binding) ==
    /\ request.step = "arrived"
    /\ \/ ~gate.required /\ binding = request.binding
       \/ /\ gate.required
          /\ \E found \in LookupAPIKeyBinding(request.key) :
                IF found.account = Unnamed THEN binding = found
                ELSE /\ pooled[found.account].usable
                     /\ binding = [found EXCEPT !.site = pooled[found.account].site]

Authorize ==
    /\ \E binding \in [site : RequestSites \cup {Unnamed}, account : PoolAccounts \cup {Unnamed}] :
        /\ Admits(binding)
        /\ request' = [request EXCEPT !.step = "admitted", !.binding = binding]
    /\ UNCHANGED <<gate, pooled, moved>>

TurnAway ==
    /\ request.step = "arrived"
    /\ gate.required
    /\ \A found \in LookupAPIKeyBinding(request.key) :
          found.account # Unnamed /\ ~pooled[found.account].usable
    /\ Refused

\* resolveRequestSite: the model's prefix, then the header, then the key.
ResolveRequestSite ==
    CASE request.prefix # Unnamed -> request.prefix
      [] request.prefix = Unnamed /\ request.header # Unnamed -> request.header
      [] OTHER -> request.binding.site

Bound == request.binding.account # Unnamed

\* The handler, with the body read: boundSiteAllowed refuses a request that asks
\* for another site than that of its account.
Route ==
    /\ request.step = "admitted"
    /\ Bound => ResolveRequestSite = request.binding.site
    /\ request' = [request EXCEPT !.step = "routed", !.site = ResolveRequestSite]
    /\ UNCHANGED <<gate, pooled, moved>>

SiteNotAllowed ==
    /\ request.step = "admitted"
    /\ Bound
    /\ ResolveRequestSite # request.binding.site
    /\ Refused

\* requestSite: a request of no site goes to the active one.
RequestSite == IF request.site = Unnamed THEN gate.active ELSE request.site

\* Mutant: a bound request whose account is gone falls back to the pool.
EligibleOfSite == {a \in PoolAccounts : pooled[a].usable /\ pooled[a].site = RequestSite}

\* Pool.Select: the account of a bound request, or one of the request's site.
Eligible ==
    {a \in PoolAccounts :
        /\ pooled[a].usable
        /\ pooled[a].site = RequestSite
        /\ Bound => a = request.binding.account}

Choose ==
    /\ request.step = "routed"
    /\ \E a \in Eligible :
          request' = [request EXCEPT !.step = "sent", !.account = a, !.site = RequestSite,
                                     !.reached = pooled[a].site]
    /\ UNCHANGED <<gate, pooled, moved>>

\* A bound request is refused rather than sent elsewhere.
NoAccountLeft ==
    /\ request.step = "routed"
    /\ Eligible = {}
    /\ Refused

\* The operator's changes: a key added, replaced or taken off, an account moved to
\* another site, disabled, enabled or deleted, the active site switched.
OperatorChanges ==
    /\ moved < MaxAdmissionChanges
    /\ moved' = moved + 1
    /\ UNCHANGED request
    /\ \/ /\ \/ \E e \in Entries : gate' = [gate EXCEPT !.list = Append(@, e)]
             \/ gate.list # <<>> /\ gate' = [gate EXCEPT !.list = Tail(@)]
             \/ \E s \in RequestSites : gate' = [gate EXCEPT !.active = s]
          /\ pooled' = pooled
       \/ /\ \E a \in PoolAccounts, s \in RequestSites, usable \in BOOLEAN :
                pooled' = [pooled EXCEPT ![a] = [site |-> s, usable |-> usable]]
          /\ gate' = gate

AdmissionNext ==
    \/ Authorize \/ TurnAway \/ Route \/ SiteNotAllowed \/ Choose \/ NoAccountLeft \/ OperatorChanges

AdmissionSpec == AdmissionInit /\ [][AdmissionNext]_admissionVars

-----------------------------------------------------------------------------
\* A request that is sent goes where its key said when it was let in: on the key's
\* own account, at the site that account had then, or at the site of the key unless
\* the request names one.  Accounts that are moved and keys that are replaced while
\* the client sends its body do not change it: such a request is refused, not sent
\* elsewhere (server.go authorizeAPI, boundSiteAllowed; binding.go; pool.go Select).
KeyDecides ==
    request.step = "sent" =>
        /\ Bound => request.account = request.binding.account
        /\ request.binding.site # Unnamed
               /\ (Bound \/ (request.prefix = Unnamed /\ request.header = Unnamed))
             => request.reached = request.binding.site
        /\ request.prefix # Unnamed => request.reached = request.prefix
        /\ request.prefix = Unnamed /\ request.header # Unnamed => request.reached = request.header
===============================================================================
