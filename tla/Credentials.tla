----------------------------- MODULE Credentials -----------------------------
(***************************************************************************)
(* Where credentials come from: the login session of the admin page        *)
(* (StartOAuth, PollOAuth), and the renewal of tokens by requests and by   *)
(* the refresh button (refreshSelected, SaveRefreshedToken).               *)
(*                                                                         *)
(* A credential is the number upstream issued it under, with its refresh   *)
(* token; `origin` says which credential a renewal was made from.  Writes  *)
(* to the pool are one step, with or without the error of a failing file,  *)
(* as memory has the change in either case (AccountPool).                  *)
(***************************************************************************)
EXTENDS Integers, FiniteSets

CONSTANTS
    Users,        \* a login of a known user replaces his account
    AuthStates,   \* what upstream calls a login attempt
    Starters, Pollers, Renewers,   \* goroutines of handlers
    Egresses,     \* proxies an operator may bind
    MaxSessions,  \* bound: login sessions
    MaxIssued,    \* bound: credentials upstream issues
    MaxEdits      \* bound: edits and deletions by operators

ASSUME CredentialsAssumption ==
    {MaxSessions, MaxIssued, MaxEdits} \subseteq Nat

NoAuth == "none"
None == 0           \* no credential, and the origin of a login
NoCall == [pc |-> "idle"]

VARIABLES
    session,    \* Service.oauth: its number, status and auth state
    lastState,  \* oauth.Client.lastPluginState
    start,      \* where StartOAuth is, per goroutine
    poll,       \* where PollOAuth is
    renew,      \* where refreshSelected is
    pool,       \* the account of each user: credential, enabled, egress
    origin,     \* the credentials issued, and what each was made from
    edits,      \* edits so far
    \* History: only properties read what follows.
    assigned,   \* the egress operators last bound to each account
    stored,     \* every credential the pool has held
    used,       \* every credential a request went upstream with
    announced   \* each success: its session, the login, the session that asked

sessionVars == <<session, lastState, start>>
poolVars == <<pool, edits, assigned, stored>>
credentialVars == <<sessionVars, poll, renew, poolVars, origin, used, announced>>

Issued == DOMAIN origin
NoAccount == [cred |-> None, enabled |-> FALSE, egress |-> "direct"]
Exists(u) == pool[u].cred # None

Issue(from) ==
    LET n == Cardinality(Issued) + 1
    IN  /\ n <= MaxIssued
        /\ origin' = [c \in Issued \cup {n} |-> IF c = n THEN from ELSE origin[c]]

-----------------------------------------------------------------------------
(* Login sessions *)

\* StartOAuth takes the session over, unless it is asked to reuse a waiting
\* one and that is young enough: then nothing changes.
StartOAuth(h) ==
    /\ start[h] = NoCall
    /\ session.id < MaxSessions
    /\ session' = [id |-> session.id + 1, status |-> "starting", auth |-> NoAuth]
    /\ start' = [start EXCEPT ![h] = [pc |-> "asked", id |-> session.id + 1, auth |-> NoAuth]]
    /\ UNCHANGED <<lastState, poll, renew, poolVars, origin, used, announced>>

\* Client.Start: upstream names the attempt.  If it names the last one again,
\* it is asked once more.
AuthStateArrives(h, a) ==
    /\ start[h].pc = "asked"
    /\ IF a = lastState
         THEN start' = [start EXCEPT ![h].pc = "again", ![h].auth = a] /\ UNCHANGED lastState
         ELSE start' = [start EXCEPT ![h].pc = "named", ![h].auth = a] /\ lastState' = a
    /\ UNCHANGED <<session, poll, renew, poolVars, origin, used, announced>>

\* The second answer counts if it is another one; a failure does not.
SecondStateArrives(h, a) ==
    /\ start[h].pc = "again"
    /\ start' = [start EXCEPT ![h].pc = "named", ![h].auth = a]
    /\ lastState' = a
    /\ UNCHANGED <<session, poll, renew, poolVars, origin, used, announced>>

AuthStateFails(h) ==
    /\ start[h].pc = "asked"
    /\ start' = [start EXCEPT ![h].pc = "failed"]
    /\ UNCHANGED <<session, lastState, poll, renew, poolVars, origin, used, announced>>

\* Back in StartOAuth, under the lock: only its own session is touched.
StartReturns(h) ==
    /\ start[h].pc \in {"named", "failed"}
    /\ session' =
         IF session.id # start[h].id THEN session
         ELSE IF start[h].pc = "failed" THEN [session EXCEPT !.status = "failed"]
         ELSE [session EXCEPT !.status = "waiting", !.auth = start[h].auth]
    /\ start' = [start EXCEPT ![h] = NoCall]
    /\ UNCHANGED <<lastState, poll, renew, poolVars, origin, used, announced>>

\* PollOAuth copies the session; there is something to ask only if it waits.
PollOAuth(h) ==
    /\ poll[h] = NoCall
    /\ session.status = "waiting" /\ session.auth # NoAuth
    /\ poll' = [poll EXCEPT ![h] = [pc |-> "asked", id |-> session.id]]
    /\ UNCHANGED <<sessionVars, renew, poolVars, origin, used, announced>>

\* Upstream's answer: an error or anything unknown, "pending", or the token of
\* whoever has logged in meanwhile, as often as it is asked.
PollFails(h) ==
    /\ poll[h].pc = "asked"
    /\ session' = [session EXCEPT !.status = "failed"]
    /\ poll' = [poll EXCEPT ![h] = NoCall]
    /\ UNCHANGED <<lastState, start, renew, poolVars, origin, used, announced>>

PollPending(h) ==
    /\ poll[h].pc = "asked"
    /\ poll' = [poll EXCEPT ![h] = NoCall]
    /\ UNCHANGED <<sessionVars, renew, poolVars, origin, used, announced>>

PollAnswered(h, u) ==
    /\ poll[h].pc = "asked"
    /\ Issue(None)
    /\ poll' = [poll EXCEPT ![h] = [pc |-> "token", id |-> @.id, user |-> u,
                                    cred |-> Cardinality(Issued) + 1]]
    /\ UNCHANGED <<sessionVars, renew, poolVars, used, announced>>

\* Upsert: the account of this user gets the credential and is enabled; its
\* egress stays.  If the file cannot be written, PollOAuth returns the error
\* and leaves the session waiting.
PollSaves(h, saved) ==
    LET u == poll[h].user
    IN  /\ poll[h].pc = "token"
        /\ pool' = [pool EXCEPT ![u] = [cred |-> poll[h].cred, enabled |-> TRUE, egress |-> @.egress]]
        /\ stored' = stored \cup {poll[h].cred}
        /\ poll' = [poll EXCEPT ![h] =
              IF saved THEN [pc |-> "saved", id |-> @.id, cred |-> @.cred] ELSE NoCall]
        /\ UNCHANGED <<sessionVars, renew, edits, assigned, origin, used, announced>>

Announce(h) ==
    /\ session' = [session EXCEPT !.status = "success"]
    /\ announced' = announced \cup
          {[session |-> session.id, login |-> poll[h].cred, polled |-> poll[h].id]}
    /\ UNCHANGED <<lastState, start, renew, poolVars, origin, used>>

\* Mutant: success is announced before the account is saved.
PollConfirmsEarly(h) ==
    /\ poll[h].pc \in {"token", "saved"}
    /\ Announce(h)
    /\ poll' = [poll EXCEPT ![h] = IF poll[h].pc = "saved" THEN NoCall ELSE @]

\* Whatever session there is by now becomes a success.
PollConfirms(h) ==
    /\ poll[h].pc = "saved"
    /\ Announce(h)
    /\ poll' = [poll EXCEPT ![h] = NoCall]

-----------------------------------------------------------------------------
(* Renewal *)

\* refreshSelected for a request that was given the account of u and finds its
\* token old, and the refresh button, which always asks (`force`).
Renew(r, u, force) ==
    /\ renew[r] = NoCall
    /\ Exists(u) /\ (pool[u].enabled \/ force)
    /\ renew' = [renew EXCEPT ![r] = [pc |-> "asked", user |-> u, force |-> force,
                                      seen |-> pool[u]]]
    /\ UNCHANGED <<sessionVars, poll, poolVars, origin, used, announced>>

\* Upstream refuses, or cannot be reached.  A request goes on with the old
\* token while it is `valid`, unless upstream has just refused it (`force`);
\* else it fails.
RenewalFails(r, valid) ==
    /\ renew[r].pc = "asked"
    /\ used' = IF valid /\ ~renew[r].force THEN used \cup {renew[r].seen.cred} ELSE used
    /\ renew' = [renew EXCEPT ![r] = NoCall]
    /\ UNCHANGED <<sessionVars, poll, poolVars, origin, announced>>

RenewalArrives(r) ==
    /\ renew[r].pc = "asked"
    /\ Issue(renew[r].seen.cred)
    /\ renew' = [renew EXCEPT ![r] = [pc |-> "token", user |-> @.user, seen |-> @.seen,
                                      force |-> @.force, cred |-> Cardinality(Issued) + 1]]
    /\ UNCHANGED <<sessionVars, poll, poolVars, used, announced>>

\* Mutant: the fields of the account the request was given are written back.
MergeIntoSeen(account, r) == [renew[r].seen EXCEPT !.cred = renew[r].cred]

\* MergeRefreshedToken: credentials are replaced, what operators set stays.
MergeRefreshedToken(account, r) == [account EXCEPT !.cred = renew[r].cred]

\* Mutant: whoever comes last wins.
SavedAccountAnyway(r) == MergeRefreshedToken(pool[renew[r].user], r)

\* SaveRefreshedToken, inside UpdateAccount: newer credentials stay.
SavedAccount(r) ==
    LET account == pool[renew[r].user]
    IN  IF account.cred = renew[r].seen.cred THEN MergeRefreshedToken(account, r) ELSE account

\* The account UpdateAccount returned.
GoesOnWith(r) == SavedAccount(r).cred

\* The account may be gone, and the file may fail: then the request fails.
SaveRefreshedToken(r, saved) ==
    LET u == renew[r].user
    IN  /\ renew[r].pc = "token"
        /\ IF Exists(u)
             THEN /\ pool' = [pool EXCEPT ![u] = SavedAccount(r)]
                  /\ stored' = stored \cup {SavedAccount(r).cred}
             ELSE UNCHANGED <<pool, stored>>
        /\ used' = IF Exists(u) /\ saved THEN used \cup {GoesOnWith(r)} ELSE used
        /\ renew' = [renew EXCEPT ![r] = NoCall]
        /\ UNCHANGED <<sessionVars, poll, edits, assigned, origin, announced>>

-----------------------------------------------------------------------------
(* Operators *)

Edit ==
    /\ edits < MaxEdits
    /\ edits' = edits + 1
    /\ UNCHANGED <<sessionVars, poll, renew, stored, origin, used, announced>>

SetEnabled(u, enabled) ==
    /\ Edit
    /\ Exists(u) /\ pool[u].enabled # enabled
    /\ pool' = [pool EXCEPT ![u].enabled = enabled]
    /\ UNCHANGED assigned

AssignProxy(u, e) ==
    /\ Edit
    /\ Exists(u) /\ pool[u].egress # e
    /\ pool' = [pool EXCEPT ![u].egress = e]
    /\ assigned' = [assigned EXCEPT ![u] = e]

DeleteAccount(u) ==
    /\ Edit
    /\ Exists(u)
    /\ pool' = [pool EXCEPT ![u] = NoAccount]
    /\ assigned' = [assigned EXCEPT ![u] = NoAccount.egress]

CredentialsInit ==
    /\ session = [id |-> 0, status |-> "idle", auth |-> NoAuth]
    /\ lastState = NoAuth
    /\ start = [h \in Starters |-> NoCall]
    /\ poll = [h \in Pollers |-> NoCall]
    /\ renew = [r \in Renewers |-> NoCall]
    /\ pool = [u \in Users |-> NoAccount]
    /\ origin = [c \in {} |-> None]
    /\ edits = 0
    /\ assigned = [u \in Users |-> NoAccount.egress]
    /\ stored = {} /\ used = {} /\ announced = {}

\* What StartOAuth does once it has begun.
Starting(h) ==
    \/ \E a \in AuthStates : AuthStateArrives(h, a) \/ SecondStateArrives(h, a)
    \/ AuthStateFails(h)
    \/ StartReturns(h)

CredentialsNext ==
    \/ \E h \in Starters : StartOAuth(h) \/ Starting(h)
    \/ \E h \in Pollers : \/ PollOAuth(h) \/ PollFails(h) \/ PollPending(h)
                          \/ PollConfirms(h) \/ \E u \in Users : PollAnswered(h, u)
                          \/ \E saved \in BOOLEAN : PollSaves(h, saved)
    \/ \E r \in Renewers :
          \/ \E u \in Users, force \in BOOLEAN : Renew(r, u, force)
          \/ RenewalArrives(r)
          \/ \E ok \in BOOLEAN : RenewalFails(r, ok) \/ SaveRefreshedToken(r, ok)
    \/ \E u \in Users : \/ DeleteAccount(u)
                        \/ \E enabled \in BOOLEAN : SetEnabled(u, enabled)
                        \/ \E e \in Egresses : AssignProxy(u, e)

\* Handlers run on, and their calls upstream time out.
CredentialsFairness == \A h \in Starters : WF_credentialVars(Starting(h))

CredentialsSpec == CredentialsInit /\ [][CredentialsNext]_credentialVars /\ CredentialsFairness

-----------------------------------------------------------------------------
(* Properties *)

AccountRows == [cred : Nat, enabled : BOOLEAN, egress : Egresses \cup {NoAccount.egress}]
Statuses == {"idle", "starting", "waiting", "success", "failed"}
Sessions == [id : 0 .. MaxSessions, status : Statuses, auth : AuthStates \cup {NoAuth}]

\* Every variable has its type.
CredentialsTypeOK ==
    /\ session \in Sessions
    /\ lastState \in AuthStates \cup {NoAuth}
    /\ \A h \in Starters : start[h] = NoCall \/ start[h] \in
          [pc : {"asked", "again", "named", "failed"}, id : 0 .. MaxSessions,
           auth : AuthStates \cup {NoAuth}]
    /\ \A u \in Users : pool[u] \in AccountRows
    /\ stored \subseteq Issued /\ used \subseteq Issued
    /\ announced \subseteq [session : 0 .. MaxSessions, login : Nat, polled : 0 .. MaxSessions]

\* A late renewal overwrites nothing newer: what it brings replaces only the
\* very credential it was made from, and a credential that was replaced or
\* deleted does not come back (the comment at service.go SaveRefreshedToken).
\* The answer to a login is put over whatever is there (pool.go Upsert): it
\* may be older than a login that was answered later and saved earlier.
NewerCredentialStays ==
    [][\A u \in Users :
          pool'[u].cred \notin {None, pool[u].cred} =>
              /\ pool'[u].cred \notin stored
              /\ origin'[pool'[u].cred] \in {None, pool[u].cred}]_credentialVars

\* A request that renewed a token goes upstream with what the pool holds, not
\* with a token the pool refused; and renewals and logins leave the egress
\* of an account as operators bound it (service.go refreshSelected,
\* MergeRefreshedToken; pool.go Upsert).
PoolHasTheWord ==
    /\ used \subseteq stored
    /\ \A u \in Users : pool[u].egress = assigned[u]

\* A session that says "success" was announced so by a login: one that the
\* pool has held, asked for in this session or an earlier one, and that
\* announces no other session.  That is so however polls and new sessions
\* interleave; but a late answer does turn whatever session there
\* is by then into a success (service.go PollOAuth, StartOAuth).
SuccessIsSaved ==
    /\ session.status = "success" => \E a \in announced : a.session = session.id
    /\ \A a \in announced :
          /\ a.login \in stored /\ origin[a.login] = None
          /\ a.polled <= a.session
    /\ \A a, b \in announced : a.login = b.login => a = b

\* A session does not stay in "starting": what StartOAuth began it ends, or a
\* later one does (service.go StartOAuth).
StartingEnds == session.status = "starting" ~> session.status # "starting"
=============================================================================
