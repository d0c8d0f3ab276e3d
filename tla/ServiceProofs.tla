---------------------------- MODULE ServiceProofs ----------------------------
(***************************************************************************)
(* Theorems about what the service keeps between requests: Credentials,    *)
(* SessionTables, ModelLists and UsageJournal, for any users, sessions,    *)
(* keys, hosts, handlers, requests and bounds.                             *)
(***************************************************************************)
EXTENDS Credentials, SessionTables, ModelLists, UsageJournal, FiniteSetTheorems,
        SequenceTheorems, WellFoundedInduction, TLAPS

-----------------------------------------------------------------------------
(* Credentials: the invariant *)

PollStates ==
    {NoCall}
    \cup [pc : {"asked"}, id : 0 .. MaxSessions]
    \cup [pc : {"token"}, id : 0 .. MaxSessions, user : Users, cred : Nat]
    \cup [pc : {"saved"}, id : 0 .. MaxSessions, cred : Nat]

RenewStates ==
    {NoCall}
    \cup [pc : {"asked"}, user : Users, force : BOOLEAN, seen : AccountRows]
    \cup [pc : {"token"}, user : Users, force : BOOLEAN, seen : AccountRows, cred : Nat]

StartStates ==
    {NoCall} \cup [pc : {"asked", "again", "named", "failed"}, id : 0 .. MaxSessions,
                   auth : AuthStates \cup {NoAuth}]

SessionOK ==
    /\ session \in Sessions
    /\ lastState \in AuthStates \cup {NoAuth}
    /\ start \in [Starters -> StartStates]

RowsOK ==
    /\ poll \in [Pollers -> PollStates]
    /\ renew \in [Renewers -> RenewStates]
    /\ pool \in [Users -> AccountRows]
    /\ assigned \in [Users -> Egresses \cup {NoAccount.egress}]
    /\ announced \subseteq [session : 0 .. MaxSessions, login : Nat, polled : 0 .. MaxSessions]

\* Upstream numbers what it issues.
Numbered == \E n \in Nat : Issued = 1 .. n

HeldOK ==
    /\ stored \subseteq Issued /\ used \subseteq stored
    /\ \A u \in Users : /\ pool[u].cred # None => pool[u].cred \in stored
                        /\ pool[u].egress = assigned[u]

\* A login that is in the hands of a poll.
InHand(h) == poll[h].pc \in {"token", "saved"}

\* What a poll has been given is a login, what a renewal is made from was in the
\* pool, and what it brings comes from that.
CallsOK ==
    /\ \A h \in Pollers : InHand(h) => poll[h].cred \in Issued /\ origin[poll[h].cred] = None
    /\ \A r \in Renewers : renew[r].pc # "idle" => renew[r].seen.cred \in stored
    /\ \A r \in Renewers :
          renew[r].pc = "token" => /\ renew[r].cred \in Issued
                                   /\ origin[renew[r].cred] = renew[r].seen.cred

\* What is on its way to the pool has never been there, and is in one hand.
FreshOK ==
    /\ \A h \in Pollers : poll[h].pc = "token" => poll[h].cred \notin stored
    /\ \A r \in Renewers : renew[r].pc = "token" => renew[r].cred \notin stored
    /\ \A g, h \in Pollers : InHand(g) /\ InHand(h) /\ g # h => poll[g].cred # poll[h].cred
    /\ \A q, r \in Renewers :
          renew[q].pc = "token" /\ renew[r].pc = "token" /\ q # r => renew[q].cred # renew[r].cred

\* A login that still has to announce its session has announced none.
HandsOK ==
    \A h \in Pollers :
        /\ poll[h].pc # "idle" => poll[h].id <= session.id
        /\ poll[h].pc = "saved" => poll[h].cred \in stored
        /\ InHand(h) => \A a \in announced : a.login # poll[h].cred

CredInv ==
    /\ SessionOK /\ RowsOK /\ Numbered /\ HeldOK /\ CallsOK
    /\ FreshOK /\ HandsOK /\ SuccessIsSaved

-----------------------------------------------------------------------------
(* Credentials: lemmas *)

\* Issuing adds a number and changes the origin of no other.
LEMMA IssueAdds ==
  ASSUME Numbered, NEW from, Issue(from)
  PROVE  LET n == Cardinality(Issued) + 1
         IN  /\ n \in Nat \ {0} /\ n \notin Issued
             /\ Issued' = Issued \cup {n} /\ Numbered'
             /\ origin'[n] = from
             /\ \A c \in Issued : origin'[c] = origin[c]
<1>1. PICK k \in Nat : Issued = 1 .. k BY DEF Numbered
<1>2. Cardinality(Issued) = k BY <1>1, FS_Interval
<1>3. Issued' = Issued \cup {k + 1} BY <1>2 DEF Issue, Issued
<1>4. Issued' = 1 .. (k + 1) BY <1>1, <1>3
<1>5. Numbered' BY <1>4 DEF Numbered
<1>6. k + 1 \notin Issued BY <1>1
<1>7. origin'[k + 1] = from /\ \A c \in Issued : origin'[c] = origin[c]
  BY <1>2, <1>6 DEF Issue
<1> QED BY <1>2, <1>3, <1>5, <1>6, <1>7

\* The parts that a step leaves alone, where credentials only become more.
Grows ==
    /\ Issued \subseteq Issued' /\ stored \subseteq stored'
    /\ \A c \in Issued : origin'[c] = origin[c]

LEMMA PollKnows ==
  ASSUME RowsOK, NEW h \in Pollers
  PROVE  /\ poll[h].pc \in {"idle", "asked", "saved", "token"}
         /\ poll[h].pc # "idle" => poll[h].id \in 0 .. MaxSessions
         /\ poll[h].pc = "token" => poll[h] \in [pc : {"token"}, id : 0 .. MaxSessions,
                                                 user : Users, cred : Nat]
         /\ poll[h].pc = "saved" => poll[h] \in [pc : {"saved"}, id : 0 .. MaxSessions, cred : Nat]
  BY DEF RowsOK, PollStates, NoCall

LEMMA RenewKnows ==
  ASSUME RowsOK, NEW r \in Renewers
  PROVE  /\ renew[r].pc \in {"idle", "asked", "token"}
         /\ renew[r].pc # "idle" => /\ renew[r].user \in Users
                                    /\ renew[r].force \in BOOLEAN
                                    /\ renew[r].seen \in AccountRows
         /\ renew[r].pc = "token" => renew[r].cred \in Nat
  BY DEF RowsOK, RenewStates, NoCall

-----------------------------------------------------------------------------
(* Credentials: each part of the invariant, step by step *)

StartMoves(h) == StartOAuth(h) \/ Starting(h)

PollMoves(h) ==
    \/ PollOAuth(h) \/ PollFails(h) \/ PollPending(h) \/ PollConfirms(h)
    \/ \E u \in Users : PollAnswered(h, u)
    \/ \E saved \in BOOLEAN : PollSaves(h, saved)

RenewMoves(r) ==
    \/ \E u \in Users, force \in BOOLEAN : Renew(r, u, force)
    \/ RenewalArrives(r)
    \/ \E ok \in BOOLEAN : RenewalFails(r, ok) \/ SaveRefreshedToken(r, ok)

Edits(u) ==
    \/ DeleteAccount(u)
    \/ \E enabled \in BOOLEAN : SetEnabled(u, enabled)
    \/ \E e \in Egresses : AssignProxy(u, e)

LEMMA Movers ==
  ASSUME [CredentialsNext]_credentialVars
  PROVE  \/ \E h \in Starters : StartMoves(h)
         \/ \E h \in Pollers : PollMoves(h)
         \/ \E r \in Renewers : RenewMoves(r)
         \/ \E u \in Users : Edits(u)
         \/ UNCHANGED credentialVars
  BY DEF CredentialsNext, StartMoves, PollMoves, RenewMoves, Edits

\* A login that begins touches its session only.
LEMMA StartLeaves ==
  ASSUME NEW h \in Starters, StartMoves(h)
  PROVE  UNCHANGED <<poll, renew, poolVars, origin, used, announced>>
  BY DEF StartMoves, Starting, StartOAuth, AuthStateArrives, SecondStateArrives, AuthStateFails,
         StartReturns, poolVars

LEMMA SessionStep ==
  ASSUME SessionOK, [CredentialsNext]_credentialVars, MaxSessions \in Nat
  PROVE  SessionOK'
<1> USE DEF SessionOK, Sessions, Statuses
<1>1. ASSUME NEW h \in Starters, StartMoves(h) PROVE SessionOK'
  <2>1. start[h] # NoCall =>
            start[h] \in [pc : {"asked", "again", "named", "failed"}, id : 0 .. MaxSessions,
                          auth : AuthStates \cup {NoAuth}]
    BY DEF StartStates
  <2>2. CASE StartOAuth(h)
    BY <2>2 DEF StartOAuth, StartStates
  <2>3. CASE \E a \in AuthStates : AuthStateArrives(h, a) \/ SecondStateArrives(h, a)
    BY <2>1, <2>3 DEF AuthStateArrives, SecondStateArrives, StartStates, NoCall
  <2>4. CASE AuthStateFails(h)
    BY <2>1, <2>4 DEF AuthStateFails, StartStates, NoCall
  <2>5. CASE StartReturns(h)
    <3>1. start[h].auth \in AuthStates \cup {NoAuth}
      BY <2>1, <2>5 DEF StartReturns, NoCall
    <3>2. session' \in Sessions
      BY <2>5, <3>1 DEF StartReturns
    <3>3. start' \in [Starters -> StartStates]
      BY <2>5 DEF StartReturns, StartStates
    <3> QED BY <2>5, <3>2, <3>3 DEF StartReturns
  <2> QED BY <1>1, <2>2, <2>3, <2>4, <2>5 DEF StartMoves, Starting
<1>2. ASSUME NEW h \in Pollers, PollMoves(h) PROVE SessionOK'
  BY <1>2 DEF PollMoves, PollOAuth, PollFails, PollPending, PollConfirms, PollAnswered,
              Announce, PollSaves, sessionVars
<1>3. ASSUME NEW r \in Renewers, RenewMoves(r) PROVE SessionOK'
  BY <1>3 DEF RenewMoves, Renew, RenewalArrives, RenewalFails, SaveRefreshedToken, sessionVars
<1>4. ASSUME NEW u \in Users, Edits(u) PROVE SessionOK'
  BY <1>4 DEF Edits, Edit, DeleteAccount, SetEnabled, AssignProxy, sessionVars
<1>5. CASE UNCHANGED credentialVars
  BY <1>5 DEF credentialVars, sessionVars
<1> QED BY <1>1, <1>2, <1>3, <1>4, <1>5, Movers

LEMMA RowsStep ==
  ASSUME SessionOK, RowsOK, Numbered, [CredentialsNext]_credentialVars
  PROVE  RowsOK'
<1>1. ASSUME NEW h \in Starters, StartMoves(h) PROVE RowsOK'
  BY <1>1, StartLeaves DEF RowsOK, poolVars
<1>2. ASSUME NEW h \in Pollers, PollMoves(h) PROVE RowsOK'
  <2>0. session.id \in 0 .. MaxSessions
    BY DEF SessionOK, Sessions
  <2>1. CASE PollOAuth(h) \/ PollFails(h) \/ PollPending(h)
    BY <2>0, <2>1 DEF PollOAuth, PollFails, PollPending, RowsOK, PollStates, poolVars
  <2>4. CASE PollConfirms(h)
    <3>1. poll[h].id \in 0 .. MaxSessions /\ poll[h].cred \in Nat
      BY <2>4, PollKnows DEF PollConfirms
    <3>2. announced' \subseteq [session : 0 .. MaxSessions, login : Nat, polled : 0 .. MaxSessions]
      BY <2>0, <2>4, <3>1 DEF PollConfirms, Announce, RowsOK
    <3> QED BY <2>4, <3>2 DEF PollConfirms, Announce, RowsOK, PollStates, poolVars
  <2>2. ASSUME NEW u \in Users, PollAnswered(h, u) PROVE RowsOK'
    <3>1. Cardinality(Issued) + 1 \in Nat
      BY <2>2, IssueAdds DEF PollAnswered
    <3>2. poll[h].id \in 0 .. MaxSessions
      BY <2>2, PollKnows DEF PollAnswered
    <3> QED BY <2>2, <3>1, <3>2 DEF PollAnswered, RowsOK, PollStates, poolVars
  <2>3. ASSUME NEW saved \in BOOLEAN, PollSaves(h, saved) PROVE RowsOK'
    <3>1. poll[h] \in [pc : {"token"}, id : 0 .. MaxSessions, user : Users, cred : Nat]
      BY <2>3, PollKnows DEF PollSaves
    <3>2. pool[poll[h].user] \in AccountRows
      BY <3>1 DEF RowsOK
    <3>3. pool' \in [Users -> AccountRows]
      BY <2>3, <3>1, <3>2 DEF PollSaves, RowsOK, AccountRows
    <3>4. poll' \in [Pollers -> PollStates]
      BY <2>3, <3>1 DEF PollSaves, RowsOK, PollStates
    <3> QED BY <2>3, <3>3, <3>4 DEF PollSaves, RowsOK
  <2> QED BY <1>2, <2>1, <2>2, <2>3, <2>4 DEF PollMoves
<1>3. ASSUME NEW r \in Renewers, RenewMoves(r) PROVE RowsOK'
  <2>1. ASSUME NEW u \in Users, NEW force \in BOOLEAN, Renew(r, u, force) PROVE RowsOK'
    BY <2>1 DEF Renew, RowsOK, RenewStates, poolVars
  <2>2. ASSUME RenewalArrives(r) PROVE RowsOK'
    <3>1. Cardinality(Issued) + 1 \in Nat
      BY <2>2, IssueAdds DEF RenewalArrives
    <3>2. renew' \in [Renewers -> RenewStates]
      BY <2>2, <3>1, RenewKnows DEF RenewalArrives, RowsOK, RenewStates
    <3> QED BY <2>2, <3>2 DEF RenewalArrives, RowsOK, poolVars
  <2>3. ASSUME NEW ok \in BOOLEAN, RenewalFails(r, ok) PROVE RowsOK'
    BY <2>3 DEF RenewalFails, RowsOK, RenewStates, poolVars
  <2>4. ASSUME NEW ok \in BOOLEAN, SaveRefreshedToken(r, ok) PROVE RowsOK'
    <3>1. renew[r].user \in Users /\ renew[r].cred \in Nat
      BY <2>4, RenewKnows DEF SaveRefreshedToken
    <3>2. pool[renew[r].user] \in AccountRows
      BY <3>1 DEF RowsOK
    <3>3. SavedAccount(r) \in AccountRows
      BY <3>1, <3>2 DEF SavedAccount, MergeRefreshedToken, AccountRows
    <3>4. pool' \in [Users -> AccountRows]
      BY <2>4, <3>3 DEF SaveRefreshedToken, RowsOK
    <3>5. renew' \in [Renewers -> RenewStates]
      BY <2>4 DEF SaveRefreshedToken, RowsOK, RenewStates
    <3> QED BY <2>4, <3>4, <3>5 DEF SaveRefreshedToken, RowsOK
  <2> QED BY <1>3, <2>1, <2>2, <2>3, <2>4 DEF RenewMoves
<1>4. ASSUME NEW u \in Users, Edits(u) PROVE RowsOK'
  <2>1. pool[u] \in AccountRows BY DEF RowsOK
  <2>2. pool' \in [Users -> AccountRows]
    <3>1. CASE DeleteAccount(u)
      BY <3>1 DEF DeleteAccount, RowsOK, AccountRows, NoAccount, None
    <3>2. ASSUME NEW enabled \in BOOLEAN, SetEnabled(u, enabled) PROVE pool' \in [Users -> AccountRows]
      BY <2>1, <3>2 DEF SetEnabled, RowsOK, AccountRows
    <3>3. ASSUME NEW e \in Egresses, AssignProxy(u, e) PROVE pool' \in [Users -> AccountRows]
      BY <2>1, <3>3 DEF AssignProxy, RowsOK, AccountRows
    <3> QED BY <1>4, <3>1, <3>2, <3>3 DEF Edits
  <2>3. assigned' \in [Users -> Egresses \cup {NoAccount.egress}]
    BY <1>4 DEF Edits, DeleteAccount, SetEnabled, AssignProxy, RowsOK
  <2> QED BY <1>4, <2>2, <2>3 DEF Edits, Edit, DeleteAccount, SetEnabled, AssignProxy, RowsOK
<1>5. CASE UNCHANGED credentialVars
  BY <1>5 DEF credentialVars, poolVars, RowsOK
<1> QED BY <1>1, <1>2, <1>3, <1>4, <1>5, Movers

\* Credentials only become more, and keep their origin.
LEMMA GrowsStep ==
  ASSUME Numbered, [CredentialsNext]_credentialVars
  PROVE  Grows /\ Numbered'
<1> USE DEF Grows, Numbered, Issued
<1>1. ASSUME NEW h \in Starters, StartMoves(h) PROVE Grows /\ Numbered'
  BY <1>1, StartLeaves DEF poolVars
<1>2. ASSUME NEW h \in Pollers, PollMoves(h) PROVE Grows /\ Numbered'
  <2>1. ASSUME NEW u \in Users, PollAnswered(h, u) PROVE Grows /\ Numbered'
    <3> HIDE DEF Grows, Numbered, Issued
    <3> QED BY <2>1, IssueAdds DEF PollAnswered, Grows, poolVars
  <2> QED BY <1>2, <2>1 DEF PollMoves, PollOAuth, PollFails, PollPending, PollConfirms, Announce,
                            PollSaves, poolVars
<1>3. ASSUME NEW r \in Renewers, RenewMoves(r) PROVE Grows /\ Numbered'
  <2>1. ASSUME RenewalArrives(r) PROVE Grows /\ Numbered'
    <3> HIDE DEF Grows, Numbered, Issued
    <3> QED BY <2>1, IssueAdds DEF RenewalArrives, Grows, poolVars
  <2> QED BY <1>3, <2>1 DEF RenewMoves, Renew, RenewalFails, SaveRefreshedToken, poolVars
<1>4. ASSUME NEW u \in Users, Edits(u) PROVE Grows /\ Numbered'
  BY <1>4 DEF Edits, Edit, DeleteAccount, SetEnabled, AssignProxy
<1>5. CASE UNCHANGED credentialVars
  BY <1>5 DEF credentialVars, poolVars
<1> QED BY <1>1, <1>2, <1>3, <1>4, <1>5, Movers

LEMMA HeldStep ==
  ASSUME RowsOK, Numbered, HeldOK, CallsOK, [CredentialsNext]_credentialVars
  PROVE  HeldOK'
<1>0. Grows BY GrowsStep
<1>1. ASSUME NEW h \in Starters, StartMoves(h) PROVE HeldOK'
  BY <1>0, <1>1, StartLeaves DEF HeldOK, Grows, poolVars, Issued
<1>2. ASSUME NEW h \in Pollers, PollMoves(h) PROVE HeldOK'
  <2>1. CASE PollOAuth(h) \/ PollFails(h) \/ PollPending(h) \/ PollConfirms(h)
    BY <2>1 DEF PollOAuth, PollFails, PollPending, PollConfirms, Announce, HeldOK, poolVars, Issued
  <2>2. ASSUME NEW u \in Users, PollAnswered(h, u) PROVE HeldOK'
    BY <1>0, <2>2 DEF PollAnswered, HeldOK, Grows, poolVars
  <2>3. ASSUME NEW saved \in BOOLEAN, PollSaves(h, saved) PROVE HeldOK'
    <3> DEFINE u == poll[h].user
    <3>1. u \in Users /\ poll[h].pc = "token"
      BY <2>3, PollKnows DEF PollSaves
    <3>2. stored' = stored \cup {poll[h].cred} /\ poll[h].cred \in Issued
      BY <2>3, <3>1 DEF PollSaves, CallsOK, InHand
    <3>3. ASSUME NEW v \in Users
          PROVE  /\ pool'[v].cred # None => pool'[v].cred \in stored'
                 /\ pool'[v].egress = assigned'[v]
      <4>1. pool' = [pool EXCEPT ![u] = [cred |-> poll[h].cred, enabled |-> TRUE,
                                         egress |-> pool[u].egress]]
            /\ assigned' = assigned
        BY <2>3 DEF PollSaves
      <4>2. CASE v = u
        BY <3>1, <3>2, <4>1, <4>2 DEF RowsOK, HeldOK
      <4>3. CASE v # u
        BY <3>1, <3>2, <4>1, <4>3 DEF RowsOK, HeldOK
      <4> QED BY <4>2, <4>3
    <3> QED BY <2>3, <3>2, <3>3 DEF PollSaves, HeldOK, Issued
  <2> QED BY <1>2, <2>1, <2>2, <2>3 DEF PollMoves
<1>3. ASSUME NEW r \in Renewers, RenewMoves(r) PROVE HeldOK'
  <2>1. ASSUME NEW u \in Users, NEW force \in BOOLEAN, Renew(r, u, force) PROVE HeldOK'
    BY <2>1 DEF Renew, HeldOK, poolVars, Issued
  <2>2. ASSUME RenewalArrives(r) PROVE HeldOK'
    BY <1>0, <2>2 DEF RenewalArrives, HeldOK, Grows, poolVars
  <2>3. ASSUME NEW ok \in BOOLEAN, RenewalFails(r, ok) PROVE HeldOK'
    BY <2>3 DEF RenewalFails, HeldOK, CallsOK, poolVars, Issued
  <2>4. ASSUME NEW ok \in BOOLEAN, SaveRefreshedToken(r, ok) PROVE HeldOK'
    <3> DEFINE u == renew[r].user
               row == SavedAccount(r)
    <3>1. u \in Users /\ renew[r].pc = "token"
      BY <2>4, RenewKnows DEF SaveRefreshedToken
    <3>2. pool[u] \in AccountRows /\ pool[u].egress = assigned[u] /\ renew[r].cred \in Issued
      BY <3>1 DEF RowsOK, HeldOK, CallsOK
    <3>3. row.egress = pool[u].egress /\ row.cred \in {pool[u].cred, renew[r].cred}
      BY <3>2 DEF SavedAccount, MergeRefreshedToken, AccountRows
    <3>4. CASE Exists(u)
      <4>1. pool' = [pool EXCEPT ![u] = row] /\ stored' = stored \cup {row.cred}
            /\ assigned' = assigned /\ Issued' = Issued
        BY <2>4, <3>4 DEF SaveRefreshedToken, Issued
      <4>2. row.cred \in Issued
        BY <3>1, <3>2, <3>3, <3>4 DEF HeldOK, Exists
      <4>3. used' \subseteq stored'
        BY <2>4, <3>4, <4>1 DEF SaveRefreshedToken, GoesOnWith, HeldOK
      <4>4. ASSUME NEW v \in Users
            PROVE  /\ pool'[v].cred # None => pool'[v].cred \in stored'
                   /\ pool'[v].egress = assigned'[v]
        <5> HIDE DEF row, u
        <5>1. CASE v = u
          BY <3>1, <3>2, <3>3, <4>1, <5>1 DEF RowsOK, HeldOK
        <5>2. CASE v # u
          BY <3>1, <4>1, <5>2 DEF RowsOK, HeldOK
        <5> QED BY <5>1, <5>2
      <4> QED BY <4>1, <4>2, <4>3, <4>4 DEF HeldOK
    <3>5. CASE ~Exists(u)
      BY <2>4, <3>5 DEF SaveRefreshedToken, HeldOK, Issued
    <3> QED BY <3>4, <3>5
  <2> QED BY <1>3, <2>1, <2>2, <2>3, <2>4 DEF RenewMoves
<1>4. ASSUME NEW u \in Users, Edits(u) PROVE HeldOK'
  <2>1. UNCHANGED <<stored, origin, used>>
    BY <1>4 DEF Edits, Edit, DeleteAccount, SetEnabled, AssignProxy
  <2>2. ASSUME NEW v \in Users
        PROVE  /\ pool'[v].cred # None => pool'[v].cred \in stored
               /\ pool'[v].egress = assigned'[v]
    <3>1. /\ pool[v] \in AccountRows /\ pool[v].egress = assigned[v]
          /\ pool[v].cred # None => pool[v].cred \in stored
      BY DEF RowsOK, HeldOK
    <3>2. CASE DeleteAccount(u)
      BY <3>1, <3>2 DEF DeleteAccount, RowsOK, NoAccount, None
    <3>3. ASSUME NEW enabled \in BOOLEAN, SetEnabled(u, enabled)
          PROVE  pool'[v].cred = pool[v].cred /\ pool'[v].egress = pool[v].egress
                 /\ assigned' = assigned
      BY <3>1, <3>3 DEF SetEnabled, RowsOK, AccountRows
    <3>4. ASSUME NEW e \in Egresses, AssignProxy(u, e)
          PROVE  /\ pool'[v].cred = pool[v].cred
                 /\ pool'[v].egress = IF v = u THEN e ELSE pool[v].egress
                 /\ assigned'[v] = IF v = u THEN e ELSE assigned[v]
      BY <3>1, <3>4 DEF AssignProxy, RowsOK, AccountRows
    <3> QED BY <1>4, <3>1, <3>2, <3>3, <3>4 DEF Edits
  <2> QED BY <2>1, <2>2 DEF HeldOK, Issued
<1>5. CASE UNCHANGED credentialVars
  BY <1>5 DEF credentialVars, poolVars, HeldOK, Issued
<1> QED BY <1>1, <1>2, <1>3, <1>4, <1>5, Movers

\* A poll leaves the calls of others alone, and a renewal does.
LEMMA OthersStay ==
  ASSUME RowsOK
  PROVE  /\ \A h, g \in Pollers : PollMoves(h) /\ g # h => poll'[g] = poll[g]
         /\ \A h \in Pollers : PollMoves(h) => renew' = renew
         /\ \A r, q \in Renewers : RenewMoves(r) /\ q # r => renew'[q] = renew[q]
         /\ \A r \in Renewers :
               RenewMoves(r) => UNCHANGED <<poll, announced, session>>
         /\ \A u \in Users :
               Edits(u) => UNCHANGED <<poll, renew, stored, origin, announced, session>>
<1>1. ASSUME NEW h \in Pollers, PollMoves(h)
      PROVE  renew' = renew /\ \A g \in Pollers : g # h => poll'[g] = poll[g]
  BY <1>1 DEF PollMoves, PollOAuth, PollFails, PollPending, PollConfirms, Announce, PollAnswered,
              PollSaves, RowsOK
<1>2. ASSUME NEW r \in Renewers, RenewMoves(r)
      PROVE  /\ UNCHANGED <<poll, announced, session>>
             /\ \A q \in Renewers : q # r => renew'[q] = renew[q]
  BY <1>2 DEF RenewMoves, Renew, RenewalArrives, RenewalFails, SaveRefreshedToken, RowsOK,
              sessionVars
<1>3. ASSUME NEW u \in Users, Edits(u)
      PROVE  UNCHANGED <<poll, renew, stored, origin, announced, session>>
  BY <1>3 DEF Edits, Edit, DeleteAccount, SetEnabled, AssignProxy, sessionVars
<1> QED BY <1>1, <1>2, <1>3

\* What the answer of upstream is to a poll, and where a poll goes from it.
LEMMA PollTurns ==
  ASSUME RowsOK, NEW h \in Pollers
  PROVE  /\ PollOAuth(h) => poll'[h] = [pc |-> "asked", id |-> session.id]
         /\ PollFails(h) \/ PollPending(h) \/ PollConfirms(h) => poll'[h] = NoCall
         /\ \A u \in Users : PollAnswered(h, u) =>
               poll'[h] = [pc |-> "token", id |-> poll[h].id, user |-> u,
                           cred |-> Cardinality(Issued) + 1]
         /\ \A saved \in BOOLEAN : PollSaves(h, saved) =>
               poll'[h] \in {NoCall, [pc |-> "saved", id |-> poll[h].id, cred |-> poll[h].cred]}
  BY DEF PollOAuth, PollFails, PollPending, PollConfirms, PollAnswered, PollSaves, RowsOK

\* What a poll or a renewal knows stays true while it does not move itself.
LEMMA PollKeeps ==
  ASSUME CallsOK, Grows, NEW h \in Pollers, poll'[h] = poll[h], InHand(h)
  PROVE  poll'[h].cred \in Issued' /\ origin'[poll'[h].cred] = None
  BY DEF CallsOK, Grows

LEMMA RenewKeeps ==
  ASSUME CallsOK, Grows, NEW r \in Renewers, renew'[r] = renew[r]
  PROVE  /\ renew'[r].pc # "idle" => renew'[r].seen.cred \in stored'
         /\ renew'[r].pc = "token" => /\ renew'[r].cred \in Issued'
                                      /\ origin'[renew'[r].cred] = renew'[r].seen.cred
  BY DEF CallsOK, Grows

LEMMA CallsStep ==
  ASSUME RowsOK, Numbered, HeldOK, CallsOK, [CredentialsNext]_credentialVars
  PROVE  CallsOK'
<1>0. Grows BY GrowsStep
<1>1. ASSUME UNCHANGED <<poll, renew>> PROVE CallsOK'
  BY <1>0, <1>1 DEF CallsOK, InHand, Grows
<1>2. ASSUME NEW h \in Starters, StartMoves(h) PROVE CallsOK'
  BY <1>1, <1>2, StartLeaves
<1>3. ASSUME NEW h \in Pollers, PollMoves(h) PROVE CallsOK'
  <2>1. renew' = renew
    BY <1>3, OthersStay
  <2>2. ASSUME NEW g \in Pollers, InHand(g)'
        PROVE  poll'[g].cred \in Issued' /\ origin'[poll'[g].cred] = None
    <3>1. CASE g # h
      <4>1. poll'[g] = poll[g] /\ InHand(g) BY <1>3, <2>2, <3>1, OthersStay DEF InHand
      <4> QED BY <1>0, <4>1, PollKeeps
    <3>2. CASE g = h /\ (PollOAuth(h) \/ PollFails(h) \/ PollPending(h) \/ PollConfirms(h))
      BY <2>2, <3>2, PollTurns DEF InHand, NoCall
    <3>3. ASSUME g = h, NEW u \in Users, PollAnswered(h, u)
          PROVE  poll'[g].cred \in Issued' /\ origin'[poll'[g].cred] = None
      <4>1. poll'[h].cred = Cardinality(Issued) + 1
        <5>1. poll'[h] = [pc |-> "token", id |-> poll[h].id, user |-> u,
                          cred |-> Cardinality(Issued) + 1]
          BY <3>3, PollTurns
        <5> QED BY <5>1
      <4> QED BY <3>3, <4>1, IssueAdds DEF PollAnswered
    <3>4. ASSUME g = h, NEW saved \in BOOLEAN, PollSaves(h, saved)
          PROVE  poll'[g].cred \in Issued' /\ origin'[poll'[g].cred] = None
      <4>1. poll'[h].cred = poll[h].cred /\ InHand(h)
        BY <2>2, <3>4, PollTurns DEF PollSaves, InHand, NoCall
      <4> QED BY <1>0, <3>4, <4>1 DEF CallsOK, Grows
    <3> QED BY <1>3, <3>1, <3>2, <3>3, <3>4 DEF PollMoves
  <2> QED BY <1>0, <2>1, <2>2, RenewKeeps DEF CallsOK
<1>4. ASSUME NEW r \in Renewers, RenewMoves(r) PROVE CallsOK'
  <2>1. poll' = poll
    BY <1>4, OthersStay
  <2>2. ASSUME NEW q \in Renewers
        PROVE  /\ renew'[q].pc # "idle" => renew'[q].seen.cred \in stored'
               /\ renew'[q].pc = "token" => /\ renew'[q].cred \in Issued'
                                            /\ origin'[renew'[q].cred] = renew'[q].seen.cred
    <3>1. CASE q # r
      <4>1. renew'[q] = renew[q]
        BY <1>4, <3>1, OthersStay
      <4> QED BY <1>0, <4>1, RenewKeeps
    <3>2. ASSUME q = r, NEW u \in Users, NEW force \in BOOLEAN, Renew(r, u, force)
          PROVE  renew'[q].pc = "asked" /\ renew'[q].seen.cred \in stored'
      BY <3>2 DEF Renew, Exists, HeldOK, RowsOK, poolVars
    <3>3. ASSUME q = r, RenewalArrives(r)
          PROVE  /\ renew'[q].seen.cred \in stored' /\ renew'[q].cred \in Issued'
                 /\ origin'[renew'[q].cred] = renew'[q].seen.cred
      <4>1. renew'[q].seen = renew[q].seen /\ renew'[q].cred = Cardinality(Issued) + 1
        BY <3>3 DEF RenewalArrives, RowsOK
      <4>2. renew[q].seen.cred \in stored /\ stored' = stored
        BY <3>3 DEF RenewalArrives, CallsOK, poolVars
      <4> QED BY <3>3, <4>1, <4>2, IssueAdds DEF RenewalArrives
    <3>4. ASSUME q = r, NEW ok \in BOOLEAN, RenewalFails(r, ok) \/ SaveRefreshedToken(r, ok)
          PROVE  renew'[q].pc = "idle"
      BY <3>4 DEF RenewalFails, SaveRefreshedToken, RowsOK, NoCall
    <3> QED BY <1>4, <3>1, <3>2, <3>3, <3>4 DEF RenewMoves
  <2> QED BY <1>0, <2>1, <2>2, PollKeeps DEF CallsOK, InHand
<1>5. ASSUME NEW u \in Users, Edits(u) PROVE CallsOK'
  BY <1>1, <1>5, OthersStay
<1>6. CASE UNCHANGED credentialVars
  BY <1>1, <1>6 DEF credentialVars
<1> QED BY <1>2, <1>3, <1>4, <1>5, <1>6, Movers

\* A login is not what a renewal brings.
LEMMA TokensApart ==
  ASSUME Numbered, HeldOK, CallsOK, NEW h \in Pollers, InHand(h),
         NEW r \in Renewers, renew[r].pc = "token"
  PROVE  poll[h].cred # renew[r].cred
<1>1. origin[poll[h].cred] = None /\ origin[renew[r].cred] = renew[r].seen.cred
  BY DEF CallsOK
<1>2. renew[r].seen.cred \in Issued
  BY DEF CallsOK, HeldOK
<1>3. None \notin Issued
  BY DEF Numbered, None
<1> QED BY <1>1, <1>2, <1>3

LEMMA FreshStep ==
  ASSUME RowsOK, Numbered, HeldOK, CallsOK, FreshOK, [CredentialsNext]_credentialVars
  PROVE  FreshOK'
<1>1. ASSUME UNCHANGED <<poll, renew, stored>> PROVE FreshOK'
  BY <1>1 DEF FreshOK, InHand
<1>2. ASSUME NEW h \in Starters, StartMoves(h) PROVE FreshOK'
  BY <1>1, <1>2, StartLeaves DEF poolVars
<1>3. ASSUME NEW h \in Pollers, PollMoves(h) PROVE FreshOK'
  <2>0. renew' = renew /\ \A g \in Pollers : g # h => poll'[g] = poll[g]
    BY <1>3, OthersStay
  <2>1. CASE PollOAuth(h) \/ PollFails(h) \/ PollPending(h) \/ PollConfirms(h)
    <3>1. stored' = stored
      BY <2>1 DEF PollOAuth, PollFails, PollPending, PollConfirms, Announce, poolVars
    <3>2. ~InHand(h)' /\ poll'[h].pc # "token"
      BY <2>1, PollTurns DEF InHand, NoCall
    <3> QED BY <2>0, <3>1, <3>2 DEF FreshOK, InHand
  <2>2. ASSUME NEW u \in Users, PollAnswered(h, u) PROVE FreshOK'
    <3>0. poll'[h] = [pc |-> "token", id |-> poll[h].id, user |-> u,
                      cred |-> Cardinality(Issued) + 1]
      BY <2>2, PollTurns
    <3>1. stored' = stored /\ poll'[h].pc = "token" /\ poll'[h].cred = Cardinality(Issued) + 1
      BY <2>2, <3>0 DEF PollAnswered, poolVars
    <3>2. poll'[h].cred \notin Issued /\ poll'[h].cred \notin stored
      BY <2>2, <3>1, IssueAdds DEF PollAnswered, HeldOK
    <3>3. \A g \in Pollers : g # h /\ InHand(g)' => poll'[g].cred \in Issued
      BY <2>0 DEF CallsOK, InHand
    <3> QED BY <2>0, <3>1, <3>2, <3>3 DEF FreshOK, InHand
  <2>3. ASSUME NEW saved \in BOOLEAN, PollSaves(h, saved) PROVE FreshOK'
    <3>0. poll'[h] \in {NoCall, [pc |-> "saved", id |-> poll[h].id, cred |-> poll[h].cred]}
      BY <2>3, PollTurns
    <3>1. /\ stored' = stored \cup {poll[h].cred} /\ InHand(h) /\ poll'[h].pc # "token"
          /\ InHand(h)' => poll'[h].cred = poll[h].cred
      BY <2>3, <3>0 DEF PollSaves, InHand, NoCall
    <3>2. \A r \in Renewers : renew[r].pc = "token" => renew[r].cred # poll[h].cred
      BY <3>1, TokensApart
    <3> QED BY <2>0, <3>1, <3>2 DEF FreshOK, InHand
  <2> QED BY <1>3, <2>1, <2>2, <2>3 DEF PollMoves
<1>4. ASSUME NEW r \in Renewers, RenewMoves(r) PROVE FreshOK'
  <2>0. poll' = poll /\ \A q \in Renewers : q # r => renew'[q] = renew[q]
    BY <1>4, OthersStay
  <2>1. ASSUME stored' = stored, renew'[r].pc # "token" PROVE FreshOK'
    BY <2>0, <2>1 DEF FreshOK, InHand
  <2>2. ASSUME NEW u \in Users, NEW force \in BOOLEAN, Renew(r, u, force) PROVE FreshOK'
    BY <2>1, <2>2 DEF Renew, RowsOK, poolVars
  <2>3. ASSUME NEW ok \in BOOLEAN, RenewalFails(r, ok) PROVE FreshOK'
    BY <2>1, <2>3 DEF RenewalFails, RowsOK, NoCall, poolVars
  <2>4. CASE RenewalArrives(r)
    <3>1. stored' = stored /\ renew'[r].cred = Cardinality(Issued) + 1
      BY <2>4 DEF RenewalArrives, RowsOK, poolVars
    <3>2. renew'[r].cred \notin Issued /\ renew'[r].cred \notin stored
      BY <2>4, <3>1, IssueAdds DEF RenewalArrives, HeldOK
    <3>3. \A q \in Renewers : q # r /\ renew'[q].pc = "token" => renew'[q].cred \in Issued
      BY <2>0 DEF CallsOK
    <3> QED BY <2>0, <3>1, <3>2, <3>3 DEF FreshOK, InHand
  <2>5. ASSUME NEW ok \in BOOLEAN, SaveRefreshedToken(r, ok) PROVE FreshOK'
    <3>1. renew[r].pc = "token" /\ renew'[r] = NoCall /\ renew[r].user \in Users
      BY <2>5, RenewKnows DEF SaveRefreshedToken, RowsOK
    <3>2. stored' \subseteq stored \cup {renew[r].cred}
      <4>1. CASE Exists(renew[r].user)
        <5>1. /\ pool[renew[r].user] \in AccountRows
              /\ pool[renew[r].user].cred \in stored
          BY <3>1, <4>1 DEF Exists, HeldOK, RowsOK
        <5>2. SavedAccount(r).cred \in {pool[renew[r].user].cred, renew[r].cred}
          BY <5>1 DEF SavedAccount, MergeRefreshedToken, AccountRows
        <5> QED BY <2>5, <4>1, <5>1, <5>2 DEF SaveRefreshedToken
      <4>2. CASE ~Exists(renew[r].user)
        BY <2>5, <4>2 DEF SaveRefreshedToken
      <4> QED BY <4>1, <4>2
    <3>3. \A h \in Pollers : InHand(h) => poll[h].cred # renew[r].cred
      BY <3>1, TokensApart
    <3>4. renew'[r].pc # "token"
      BY <3>1 DEF NoCall
    <3> QED BY <2>0, <3>1, <3>2, <3>3, <3>4 DEF FreshOK, InHand
  <2> QED BY <1>4, <2>2, <2>3, <2>4, <2>5 DEF RenewMoves
<1>5. ASSUME NEW u \in Users, Edits(u) PROVE FreshOK'
  BY <1>1, <1>5, OthersStay
<1>6. CASE UNCHANGED credentialVars
  BY <1>1, <1>6 DEF credentialVars, poolVars
<1> QED BY <1>2, <1>3, <1>4, <1>5, <1>6, Movers

\* A step that announces nothing keeps what was announced.
LEMMA NothingAnnounced ==
  ASSUME HeldOK, SuccessIsSaved, Grows, announced' = announced,
         session'.status = "success" => session' = session
  PROVE  SuccessIsSaved'
  BY DEF SuccessIsSaved, HeldOK, Grows

\* Numbers of sessions only go up, and what begins a session makes no success of it.
LEMMA SessionsGoOn ==
  ASSUME SessionOK, NEW h \in Starters, StartMoves(h)
  PROVE  /\ session.id \in Nat /\ session'.id \in Nat /\ session.id <= session'.id
         /\ session'.status = "success" => session' = session
<1>1. session \in Sessions /\ session.id \in Nat
  BY DEF SessionOK, Sessions
<1>2. CASE StartOAuth(h)
  BY <1>1, <1>2 DEF StartOAuth
<1>3. CASE StartReturns(h)
  <2>1. session' \in {session, [session EXCEPT !.status = "failed"],
                      [session EXCEPT !.status = "waiting", !.auth = start[h].auth]}
    BY <1>3 DEF StartReturns
  <2>2. session'.id = session.id /\ (session'.status = "success" => session' = session)
    BY <1>1, <2>1 DEF Sessions
  <2> QED BY <1>1, <2>2
<1>4. CASE session' = session
  BY <1>1, <1>4
<1> QED BY <1>2, <1>3, <1>4 DEF StartMoves, Starting, AuthStateArrives, SecondStateArrives,
                                AuthStateFails

LEMMA AnnouncedStep ==
  ASSUME SessionOK, RowsOK, Numbered, HeldOK, CallsOK, FreshOK, HandsOK, SuccessIsSaved,
         [CredentialsNext]_credentialVars
  PROVE  HandsOK' /\ SuccessIsSaved'
<1>0. Grows /\ stored \subseteq stored' BY GrowsStep DEF Grows
<1>1. ASSUME UNCHANGED <<poll, announced, session>> PROVE HandsOK' /\ SuccessIsSaved'
  BY <1>0, <1>1, NothingAnnounced DEF HandsOK, InHand
<1>2. ASSUME NEW h \in Starters, StartMoves(h) PROVE HandsOK' /\ SuccessIsSaved'
  <2>1. UNCHANGED <<poll, stored, announced>>
    BY <1>2, StartLeaves DEF poolVars
  <2>2. SuccessIsSaved'
    BY <1>0, <1>2, <2>1, SessionsGoOn, NothingAnnounced
  <2>3. ASSUME NEW g \in Pollers, poll[g].pc # "idle" PROVE poll[g].id <= session'.id
    <3>1. poll[g].id \in Nat
      BY <2>3, PollKnows
    <3>2. poll[g].id <= session.id
      BY <2>3 DEF HandsOK
    <3> QED BY <1>2, <3>1, <3>2, SessionsGoOn
  <2> QED BY <2>1, <2>2, <2>3 DEF HandsOK, InHand
<1>3. ASSUME NEW h \in Pollers, PollMoves(h) PROVE HandsOK' /\ SuccessIsSaved'
  <2>0. \A g \in Pollers : g # h => poll'[g] = poll[g]
    BY <1>3, OthersStay
  <2>1. session \in Sessions /\ session.id \in Nat
    BY DEF SessionOK, Sessions
  <2>2. CASE PollOAuth(h)
    <3>1. UNCHANGED <<session, announced, stored>>
      BY <2>2 DEF PollOAuth, sessionVars, poolVars
    <3>2. poll'[h].id = session.id /\ poll'[h].pc = "asked"
      BY <2>2, PollTurns
    <3> QED BY <1>0, <2>0, <2>1, <3>1, <3>2, NothingAnnounced DEF HandsOK, InHand
  <2>3. CASE PollFails(h) \/ PollPending(h)
    <3>1. UNCHANGED <<announced, stored>> /\ poll'[h].pc = "idle"
      BY <2>3, PollTurns DEF PollFails, PollPending, poolVars, NoCall
    <3>2. session'.id = session.id /\ (session'.status = "success" => session' = session)
      BY <2>1, <2>3 DEF PollFails, PollPending, Sessions, sessionVars
    <3> QED BY <1>0, <2>0, <3>1, <3>2, NothingAnnounced DEF HandsOK, InHand
  <2>4. ASSUME NEW u \in Users, PollAnswered(h, u) PROVE HandsOK' /\ SuccessIsSaved'
    <3>0. poll'[h] = [pc |-> "token", id |-> poll[h].id, user |-> u,
                      cred |-> Cardinality(Issued) + 1]
      BY <2>4, PollTurns
    <3>1. /\ UNCHANGED <<session, announced, stored>>
          /\ poll'[h].pc = "token" /\ poll'[h].id = poll[h].id
          /\ poll'[h].cred = Cardinality(Issued) + 1 /\ poll[h].pc = "asked"
      BY <2>4, <3>0 DEF PollAnswered, sessionVars, poolVars
    <3>2. poll'[h].cred \notin Issued
      BY <2>4, <3>1, IssueAdds DEF PollAnswered
    <3>3. \A a \in announced : a.login # poll'[h].cred
      BY <3>2 DEF SuccessIsSaved, HeldOK
    <3> QED BY <1>0, <2>0, <3>1, <3>3, NothingAnnounced DEF HandsOK, InHand
  <2>5. ASSUME NEW saved \in BOOLEAN, PollSaves(h, saved) PROVE HandsOK' /\ SuccessIsSaved'
    <3>1. /\ UNCHANGED <<session, announced>> /\ stored' = stored \cup {poll[h].cred}
          /\ poll[h].pc = "token"
          /\ poll'[h] \in {NoCall, [pc |-> "saved", id |-> poll[h].id, cred |-> poll[h].cred]}
      BY <2>5, PollTurns DEF PollSaves, sessionVars
    <3>2. /\ poll'[h].pc # "idle" => poll'[h].id <= session.id
          /\ poll'[h].pc = "saved" => poll'[h].cred \in stored'
          /\ InHand(h)' => \A a \in announced : a.login # poll'[h].cred
      BY <3>1 DEF HandsOK, InHand, NoCall
    <3> QED BY <1>0, <2>0, <3>1, <3>2, NothingAnnounced DEF HandsOK, InHand
  <2>6. CASE PollConfirms(h)
    <3> DEFINE new == [session |-> session.id, login |-> poll[h].cred, polled |-> poll[h].id]
    <3>0. poll'[h] = NoCall
      BY <2>6, PollTurns
    <3>1. /\ poll[h].pc = "saved" /\ poll'[h].pc = "idle"
          /\ session' = [session EXCEPT !.status = "success"]
          /\ announced' = announced \cup {new} /\ UNCHANGED <<stored, origin>>
      BY <2>6, <3>0 DEF PollConfirms, Announce, poolVars, NoCall
    <3>2. session'.id = session.id
      BY <2>1, <3>1 DEF Sessions
    <3>3. /\ poll[h].cred \in stored /\ origin[poll[h].cred] = None
          /\ poll[h].id <= session.id
          /\ \A a \in announced : a.login # poll[h].cred
      BY <3>1 DEF HandsOK, CallsOK, InHand
    <3>4. \A g \in Pollers : g # h /\ InHand(g) => poll[g].cred # poll[h].cred
      BY <3>1 DEF FreshOK, InHand
    <3>5. HandsOK'
      BY <2>0, <3>1, <3>2, <3>4 DEF HandsOK, InHand
    <3>6. SuccessIsSaved'
      <4>1. \E a \in announced' : a.session = session'.id
        <5>1. new \in announced' /\ new.session = session.id
          BY <3>1
        <5> QED BY <3>2, <5>1
      <4>2. \A a \in announced' :
               a.login \in stored' /\ origin'[a.login] = None /\ a.polled <= a.session
        BY <3>1, <3>3 DEF SuccessIsSaved
      <4>3. \A a \in announced : a.login # new.login
        BY <3>3
      <4>4. \A a, b \in announced : a.login = b.login => a = b
        BY DEF SuccessIsSaved
      <4>5. \A a, b \in announced' : a.login = b.login => a = b
        <5> HIDE DEF new
        <5> QED BY <3>1, <4>3, <4>4
      <4> QED BY <4>1, <4>2, <4>5 DEF SuccessIsSaved
    <3> QED BY <3>5, <3>6
  <2> QED BY <1>3, <2>2, <2>3, <2>4, <2>5, <2>6 DEF PollMoves
<1>4. ASSUME NEW r \in Renewers, RenewMoves(r) PROVE HandsOK' /\ SuccessIsSaved'
  BY <1>1, <1>4, OthersStay
<1>5. ASSUME NEW u \in Users, Edits(u) PROVE HandsOK' /\ SuccessIsSaved'
  BY <1>1, <1>5, OthersStay
<1>6. CASE UNCHANGED credentialVars
  BY <1>1, <1>6 DEF credentialVars, sessionVars
<1> QED BY <1>2, <1>3, <1>4, <1>5, <1>6, Movers

-----------------------------------------------------------------------------
(* Credentials: theorems *)

LEMMA CredInit ==
  ASSUME CredentialsInit
  PROVE  CredInv
<1> USE CredentialsAssumption DEF CredentialsInit
<1>1. SessionOK
  BY DEF SessionOK, Sessions, Statuses, StartStates
<1>2. RowsOK
  BY DEF RowsOK, PollStates, RenewStates, AccountRows, NoAccount, None
<1>3. Numbered
  <2>1. Issued = 1 .. 0 BY DEF Issued
  <2> QED BY <2>1 DEF Numbered
<1>4. HeldOK /\ CallsOK
  BY DEF HeldOK, CallsOK, InHand, NoAccount, NoCall, None
<1>5. FreshOK /\ HandsOK /\ SuccessIsSaved
  BY DEF FreshOK, HandsOK, SuccessIsSaved, InHand, NoCall
<1> QED BY <1>1, <1>2, <1>3, <1>4, <1>5 DEF CredInv

LEMMA CredInvariance == CredentialsSpec => []CredInv
<1>1. CredInv /\ [CredentialsNext]_credentialVars => CredInv'
  BY SessionStep, RowsStep, GrowsStep, HeldStep, CallsStep, FreshStep, AnnouncedStep,
     CredentialsAssumption
     DEF CredInv
<1> QED BY <1>1, CredInit, PTL DEF CredentialsSpec

\* Every variable has its type, and every credential in the pool or in use is one
\* that upstream issued.
THEOREM CredentialsTypeCorrect == CredentialsSpec => []CredentialsTypeOK
<1>1. CredInv => CredentialsTypeOK
  BY DEF CredInv, CredentialsTypeOK, SessionOK, StartStates, RowsOK, HeldOK
<1> QED BY <1>1, CredInvariance, PTL

\* What a request goes upstream with has been in the pool, and no login or renewal
\* moves an account to another egress (refreshSelected, MergeRefreshedToken).
THEOREM CredentialsInPool == CredentialsSpec => []PoolHasTheWord
<1>1. CredInv => PoolHasTheWord
  BY DEF CredInv, PoolHasTheWord, HeldOK
<1> QED BY <1>1, CredInvariance, PTL

\* For any users, pollers and sessions: a session that is a success was announced so
\* by a login that the pool has held, asked for in this session or an earlier one, and
\* no login announces two sessions (PollOAuth, StartOAuth).
THEOREM CredentialsSaved == CredentialsSpec => []SuccessIsSaved
<1>1. CredInv => SuccessIsSaved
  BY DEF CredInv
<1> QED BY <1>1, CredInvariance, PTL

\* However many requests renew the token of an account while logins replace it: a
\* renewal only ever replaces the credential it was made from, and no credential that
\* was replaced or deleted comes back.  A login replaces whatever is there
\* (SaveRefreshedToken, Upsert).
THEOREM CredentialsNeverOlder == CredentialsSpec => NewerCredentialStays
<1> DEFINE Fine(u) ==
      pool'[u].cred \notin {None, pool[u].cred} =>
          /\ pool'[u].cred \notin stored
          /\ origin'[pool'[u].cred] \in {None, pool[u].cred}
<1>1. ASSUME CredInv, [CredentialsNext]_credentialVars, NEW u \in Users
      PROVE  Fine(u)
  <2>0. pool[u] \in AccountRows BY <1>1 DEF CredInv, RowsOK
  <2>1. ASSUME NEW h \in Starters, StartMoves(h) PROVE Fine(u)
    BY <2>1, StartLeaves DEF poolVars
  <2>2. ASSUME NEW h \in Pollers, PollMoves(h) PROVE Fine(u)
    <3>1. ASSUME NEW saved \in BOOLEAN, PollSaves(h, saved) PROVE Fine(u)
      <4>1. poll[h].pc = "token" /\ origin' = origin
            /\ pool' = [pool EXCEPT ![poll[h].user] = [cred |-> poll[h].cred, enabled |-> TRUE,
                                                       egress |-> pool[poll[h].user].egress]]
        BY <3>1 DEF PollSaves
      <4>2. origin[poll[h].cred] = None /\ poll[h].cred \notin stored
        BY <1>1, <4>1 DEF CredInv, CallsOK, FreshOK, InHand
      <4>3. CASE poll[h].user = u
        BY <1>1, <4>1, <4>2, <4>3 DEF CredInv, RowsOK
      <4>4. CASE poll[h].user # u
        BY <1>1, <4>1, <4>4 DEF CredInv, RowsOK
      <4> QED BY <4>3, <4>4
    <3> QED BY <2>2, <3>1 DEF PollMoves, PollOAuth, PollFails, PollPending, PollConfirms, Announce,
                              PollAnswered, poolVars
  <2>3. ASSUME NEW r \in Renewers, RenewMoves(r) PROVE Fine(u)
    <3>1. ASSUME NEW ok \in BOOLEAN, SaveRefreshedToken(r, ok), pool' # pool PROVE Fine(u)
      <4>1. renew[r].pc = "token" /\ origin' = origin /\ renew[r].user \in Users
            /\ pool' = [pool EXCEPT ![renew[r].user] = SavedAccount(r)]
        BY <1>1, <3>1, RenewKnows DEF SaveRefreshedToken, CredInv
      <4>2. origin[renew[r].cred] = renew[r].seen.cred /\ renew[r].cred \notin stored
        BY <1>1, <4>1 DEF CredInv, CallsOK, FreshOK
      <4>3. CASE renew[r].user = u
        <5>1. pool'[u] = SavedAccount(r) BY <1>1, <4>1, <4>3 DEF CredInv, RowsOK
        <5>2. CASE pool[u].cred = renew[r].seen.cred
          <6>1. pool'[u].cred = renew[r].cred
            BY <2>0, <4>3, <5>1, <5>2 DEF SavedAccount, MergeRefreshedToken, AccountRows
          <6> QED BY <4>1, <4>2, <5>2, <6>1
        <5>3. CASE pool[u].cred # renew[r].seen.cred
          BY <4>3, <5>1, <5>3 DEF SavedAccount
        <5> QED BY <5>2, <5>3
      <4>4. CASE renew[r].user # u
        BY <1>1, <4>1, <4>4 DEF CredInv, RowsOK
      <4> QED BY <4>3, <4>4
    <3> QED BY <2>3, <3>1 DEF RenewMoves, Renew, RenewalArrives, RenewalFails, poolVars
  <2>4. ASSUME NEW v \in Users, Edits(v) PROVE Fine(u)
    <3>1. CASE DeleteAccount(v)
      BY <1>1, <3>1 DEF DeleteAccount, CredInv, RowsOK, NoAccount
    <3>2. ASSUME NEW enabled \in BOOLEAN, SetEnabled(v, enabled) PROVE pool'[u].cred = pool[u].cred
      BY <1>1, <2>0, <3>2 DEF SetEnabled, CredInv, RowsOK, AccountRows
    <3>3. ASSUME NEW e \in Egresses, AssignProxy(v, e) PROVE pool'[u].cred = pool[u].cred
      BY <1>1, <2>0, <3>3 DEF AssignProxy, CredInv, RowsOK, AccountRows
    <3> QED BY <2>4, <3>1, <3>2, <3>3 DEF Edits
  <2>5. CASE UNCHANGED credentialVars
    BY <2>5 DEF credentialVars, poolVars
  <2> QED BY <1>1, <2>1, <2>2, <2>3, <2>4, <2>5, Movers
<1>2. CredInv /\ [CredentialsNext]_credentialVars =>
        [\A u \in Users : Fine(u)]_credentialVars
  BY <1>1
<1> QED BY <1>2, CredInvariance, PTL DEF CredentialsSpec, NewerCredentialStays

-----------------------------------------------------------------------------
(* Session tables: tables *)

\* A table of so many entries, each with an end.
TableOK(table) ==
    /\ IsFiniteSet(DOMAIN table) /\ Cardinality(DOMAIN table) <= MaxEntries
    /\ \A k \in DOMAIN table : table[k].until \in Int

\* The entry of k in a table is also in the other, unless the other is without k.
Part(small, table) ==
    /\ DOMAIN small \subseteq DOMAIN table
    /\ \A k \in DOMAIN small : small[k] = table[k]

TablesInv ==
    /\ tableTime \in Int
    /\ TableOK(pinTable) /\ TableOK(convTable)

LEMMA WithoutIsPart ==
  ASSUME NEW table, TableOK(table), NEW keys
  PROVE  /\ DOMAIN Without(table, keys) = DOMAIN table \ keys
         /\ Part(Without(table, keys), table) /\ TableOK(Without(table, keys))
<1>1. DOMAIN Without(table, keys) = DOMAIN table \ keys BY DEF Without
<1>2. Part(Without(table, keys), table) BY DEF Without, Part
<1>3. IsFiniteSet(DOMAIN table \ keys) /\ Cardinality(DOMAIN table \ keys) <= Cardinality(DOMAIN table)
  BY FS_Subset DEF TableOK
<1>4. Cardinality(DOMAIN table \ keys) \in Nat /\ Cardinality(DOMAIN table) \in Nat
  BY <1>3, FS_CardinalityType DEF TableOK
<1> QED BY <1>1, <1>2, <1>3, <1>4, TablesAssumption DEF TableOK, Part

\* Putting an entry into the room that was made.
LEMMA AddedOK ==
  ASSUME NEW room, TableOK(room), Cardinality(DOMAIN room) < MaxEntries,
         NEW k, NEW entry, entry.until \in Int
  PROVE  LET table == With(room, k, entry)
         IN  /\ DOMAIN table = DOMAIN room \cup {k} /\ TableOK(table)
             /\ table[k] = entry
             /\ \A o \in DOMAIN room \ {k} : table[o] = room[o]
<1> DEFINE table == With(room, k, entry)
<1>1. /\ DOMAIN table = DOMAIN room \cup {k}
      /\ table[k] = entry
      /\ \A o \in DOMAIN room \ {k} : table[o] = room[o]
  BY DEF With
<1>2. IsFiniteSet(DOMAIN room \cup {k})
      /\ Cardinality(DOMAIN room \cup {k}) <= Cardinality(DOMAIN room) + 1
      /\ Cardinality(DOMAIN room) \in Nat /\ Cardinality(DOMAIN room \cup {k}) \in Nat
  <2>1. IsFiniteSet(DOMAIN room) /\ Cardinality(DOMAIN room) \in Nat
    BY FS_CardinalityType DEF TableOK
  <2>2. /\ IsFiniteSet(DOMAIN room \cup {k})
        /\ Cardinality(DOMAIN room \cup {k}) =
              IF k \in DOMAIN room THEN Cardinality(DOMAIN room) ELSE Cardinality(DOMAIN room) + 1
    BY <2>1, FS_AddElement
  <2> QED BY <2>1, <2>2
<1>3. \A o \in DOMAIN table : table[o].until \in Int
  BY <1>1 DEF TableOK
<1> HIDE DEF table
<1>4. TableOK(table)
  BY <1>1, <1>2, <1>3, TablesAssumption DEF TableOK
<1> QED BY <1>1, <1>4 DEF table

\* What makeRoom leaves has room, is part of the table, and lacks of what is alive
\* at most one entry: an eldest, and only if the table was full.
LEMMA RoomMade ==
  ASSUME NEW table, TableOK(table), NEW room \in MakeRoom(table), tableTime \in Int
  PROVE  /\ TableOK(room) /\ Part(room, table)
         /\ Cardinality(DOMAIN room) < MaxEntries
         /\ \A k \in DOMAIN table \ Expired(table) :
               k \notin DOMAIN room => Full(table) /\ Eldest(table, k)
<1> DEFINE live == Without(table, Expired(table))
<1>1. /\ DOMAIN live = DOMAIN table \ Expired(table)
      /\ Part(live, table) /\ TableOK(live)
  BY WithoutIsPart
<1>2. Cardinality(DOMAIN table) \in Nat /\ Cardinality(DOMAIN live) \in Nat
      /\ MaxEntries \in Nat \ {0}
  BY <1>1, FS_CardinalityType, TablesAssumption DEF TableOK
<1>3. CASE ~Full(table) /\ room = table
  BY <1>2, <1>3 DEF Full, Part
<1>4. CASE Full(table) /\ ~Full(live) /\ room = live
  BY <1>1, <1>2, <1>4 DEF Full
<1>5. ASSUME Full(table), Full(live), NEW j \in OldestIn(live), room = Without(live, {j})
      PROVE  /\ TableOK(room) /\ Part(room, table)
             /\ Cardinality(DOMAIN room) < MaxEntries
             /\ \A k \in DOMAIN table \ Expired(table) :
                   k \notin DOMAIN room => Full(table) /\ Eldest(table, k)
  <2>1. DOMAIN live = DOMAIN table
    <3>1. Cardinality(DOMAIN live) = Cardinality(DOMAIN table)
      <4>1. Cardinality(DOMAIN live) <= Cardinality(DOMAIN table)
        BY <1>1, FS_Subset DEF TableOK
      <4> QED BY <1>2, <1>5, <4>1 DEF Full, TableOK
    <3> QED BY <1>1, <3>1, FS_Subset DEF TableOK
  <2>2. /\ DOMAIN room = DOMAIN live \ {j} /\ Part(room, live) /\ TableOK(room)
    BY <1>1, <1>5, WithoutIsPart
  <2>3. j \in DOMAIN live /\ \A o \in DOMAIN live : live[j].until <= live[o].until
    BY <1>5 DEF OldestIn
  <2>4. Cardinality(DOMAIN room) < MaxEntries
    <3>1. Cardinality(DOMAIN live \ {j}) = Cardinality(DOMAIN live) - 1
      BY <1>1, <2>3, FS_RemoveElement DEF TableOK
    <3> QED BY <1>1, <1>2, <2>2, <3>1 DEF TableOK
  <2>5. Part(room, table) BY <1>1, <2>2 DEF Part
  <2>6. Eldest(table, j) BY <1>1, <2>1, <2>3 DEF Eldest, Part
  <2> QED BY <1>1, <1>5, <2>1, <2>2, <2>4, <2>5, <2>6
<1> QED BY <1>3, <1>4, <1>5 DEF MakeRoom

-----------------------------------------------------------------------------
(* Session tables: steps *)

\* What LiveEntriesStay asks of each table.
PinsStay ==
    \A k \in DOMAIN pinTable \ Expired(pinTable) :
        k \notin DOMAIN pinTable' => Forget(k) \/ (Full(pinTable) /\ Eldest(pinTable, k))

ConversationsStay ==
    \A k \in DOMAIN convTable \ Expired(convTable) :
        \/ k \notin DOMAIN convTable' /\ Full(convTable) /\ Eldest(convTable, k)
        \/ /\ k \in DOMAIN convTable'
           /\ \/ convTable'[k].id = convTable[k].id
              \/ convTable'[k].account # convTable[k].account
              \/ tableTime >= convTable[k].until

LEMMA RememberStep ==
  ASSUME TablesInv, NEW k, NEW a, Remember(k, a)
  PROVE  TablesInv' /\ PinsStay /\ ConversationsStay
<1> DEFINE entry == [account |-> a, until |-> tableTime + TableTTL]
<1>1. PICK room \in MakeRoom(pinTable) : pinTable' = With(room, k, entry)
  BY DEF Remember
<1>2. UNCHANGED <<tableTime, convTable>> BY DEF Remember
<1>3. /\ TableOK(room) /\ Part(room, pinTable) /\ Cardinality(DOMAIN room) < MaxEntries
      /\ \A o \in DOMAIN pinTable \ Expired(pinTable) :
            o \notin DOMAIN room => Full(pinTable) /\ Eldest(pinTable, o)
  BY RoomMade DEF TablesInv
<1>4. entry.until \in Int BY TablesAssumption DEF TablesInv
<1> HIDE DEF entry
<1>5. DOMAIN pinTable' = DOMAIN room \cup {k} /\ TableOK(pinTable')
  BY <1>1, <1>3, <1>4, AddedOK
<1>6. PinsStay BY <1>3, <1>5 DEF PinsStay
<1>7. ConversationsStay BY <1>2 DEF ConversationsStay
<1> QED BY <1>2, <1>5, <1>6, <1>7 DEF TablesInv

LEMMA DropStep ==
  ASSUME TablesInv, NEW k, Lookup(k) \/ Forget(k)
  PROVE  TablesInv' /\ PinsStay /\ ConversationsStay
<1>1. pinTable' = Without(pinTable, {k}) /\ UNCHANGED <<tableTime, convTable>>
  BY DEF Lookup, Forget
<1>2. DOMAIN pinTable' = DOMAIN pinTable \ {k} /\ TableOK(pinTable')
  BY <1>1, WithoutIsPart DEF TablesInv
<1>3. k \in Expired(pinTable) \/ Forget(k) BY DEF Lookup
<1>4. PinsStay BY <1>2, <1>3 DEF PinsStay
<1>5. ConversationsStay BY <1>1 DEF ConversationsStay
<1> QED BY <1>1, <1>2, <1>4, <1>5 DEF TablesInv

LEMMA ConversationStep ==
  ASSUME TablesInv, NEW k, NEW a, ID(k, a)
  PROVE  TablesInv' /\ PinsStay /\ ConversationsStay
<1>1. UNCHANGED <<tableTime, pinTable>> BY DEF ID
<1>2. PinsStay BY <1>1 DEF PinsStay
<1>3. CASE Goes(k, a)
  <2>1. k \in DOMAIN convTable /\ convTable' = [convTable EXCEPT ![k] = Prolonged(k)]
    BY <1>3 DEF Goes, ID
  <2>2. /\ DOMAIN convTable' = DOMAIN convTable
        /\ \A o \in DOMAIN convTable \ {k} : convTable'[o] = convTable[o]
        /\ convTable'[k] = Prolonged(k)
    BY <2>1
  <2>3. Prolonged(k).id = convTable[k].id
    BY DEF Prolonged
  <2>4. Prolonged(k).until \in Int
    BY TablesAssumption DEF Prolonged, TablesInv
  <2>5. TableOK(convTable') BY <2>2, <2>4 DEF TablesInv, TableOK
  <2>6. ConversationsStay BY <2>2, <2>3 DEF ConversationsStay
  <2> QED BY <1>1, <1>2, <2>5, <2>6 DEF TablesInv
<1>4. CASE ~Goes(k, a)
  <2> DEFINE entry == [account |-> a, id |-> ids + 1, until |-> tableTime + TableTTL]
             rest == Without(convTable, {k})
  <2>1. PICK room \in MakeRoom(rest) : convTable' = With(room, k, entry)
    BY <1>4 DEF ID
  <2>2. DOMAIN rest = DOMAIN convTable \ {k} /\ Part(rest, convTable) /\ TableOK(rest)
    BY WithoutIsPart DEF TablesInv
  <2>3. entry.until \in Int /\ entry.account = a BY TablesAssumption DEF TablesInv
  <2> HIDE DEF entry, rest
  <2>4. /\ TableOK(room) /\ Part(room, rest) /\ Cardinality(DOMAIN room) < MaxEntries
        /\ \A o \in DOMAIN rest \ Expired(rest) :
              o \notin DOMAIN room => Full(rest) /\ Eldest(rest, o)
    BY <2>2, RoomMade DEF TablesInv
  <2>5. /\ DOMAIN convTable' = DOMAIN room \cup {k} /\ TableOK(convTable')
        /\ convTable'[k] = entry
        /\ \A o \in DOMAIN room \ {k} : convTable'[o] = room[o]
    BY <2>1, <2>3, <2>4, AddedOK
  <2>6. ASSUME NEW o \in DOMAIN convTable \ Expired(convTable)
        PROVE  \/ o \notin DOMAIN convTable' /\ Full(convTable) /\ Eldest(convTable, o)
               \/ /\ o \in DOMAIN convTable'
                  /\ \/ convTable'[o].id = convTable[o].id
                     \/ convTable'[o].account # convTable[o].account
                     \/ tableTime >= convTable[o].until
    <3>1. CASE o = k
      BY <1>4, <2>3, <2>5, <3>1 DEF Goes, TablesInv, TableOK
    <3>2. CASE o # k /\ o \in DOMAIN room
      BY <2>2, <2>4, <2>5, <3>2 DEF Part
    <3>3. CASE o # k /\ o \notin DOMAIN room
      <4>1. o \in DOMAIN rest \ Expired(rest)
        BY <2>2, <3>3 DEF Expired, Part
      <4>2. Full(rest) /\ Eldest(rest, o) BY <2>4, <3>3, <4>1
      <4>3. Cardinality(DOMAIN rest) <= Cardinality(DOMAIN convTable)
            /\ (Cardinality(DOMAIN convTable) = Cardinality(DOMAIN rest)
                    => DOMAIN convTable = DOMAIN rest)
        BY <2>2, FS_Subset DEF TablesInv, TableOK, Part
      <4>4. Cardinality(DOMAIN rest) \in Nat /\ Cardinality(DOMAIN convTable) \in Nat
        BY <2>2, FS_CardinalityType DEF TablesInv, TableOK
      <4>5. DOMAIN convTable = DOMAIN rest /\ Full(convTable)
        BY <4>2, <4>3, <4>4, TablesAssumption DEF Full, TablesInv, TableOK
      <4>6. Eldest(convTable, o)
        BY <2>2, <4>1, <4>2, <4>5 DEF Eldest, Part
      <4> QED BY <2>5, <3>3, <4>5, <4>6
    <3> QED BY <3>1, <3>2, <3>3
  <2>7. ConversationsStay BY <2>6 DEF ConversationsStay
  <2> QED BY <1>1, <1>2, <2>5, <2>7 DEF TablesInv
<1> QED BY <1>3, <1>4

-----------------------------------------------------------------------------
(* Session tables: theorems *)

LEMMA TablesStep ==
  ASSUME TablesInv, [TablesNext]_tableVars
  PROVE  TablesInv' /\ PinsStay /\ ConversationsStay
<1>1. CASE TableTick
  BY <1>1 DEF TableTick, TablesInv, PinsStay, ConversationsStay
<1>2. CASE UNCHANGED tableVars
  BY <1>2 DEF tableVars, TablesInv, PinsStay, ConversationsStay
<1> QED BY <1>1, <1>2, RememberStep, DropStep, ConversationStep DEF TablesNext

LEMMA TablesInvariance == TablesSpec => []TablesInv
<1>1. TablesInit => TablesInv
  <2>1. IsFiniteSet({}) /\ Cardinality({}) = 0 BY FS_EmptySet
  <2> QED BY <2>1, TablesAssumption DEF TablesInit, TablesInv, TableOK
<1>2. TablesInv /\ [TablesNext]_tableVars => TablesInv' BY TablesStep
<1> QED BY <1>1, <1>2, PTL DEF TablesSpec

\* Whatever requests do with the sessions, no pin and no conversation goes before its
\* time, but an eldest one of a full table; a conversation keeps its name while its
\* account stays; and the tables never outgrow their capacity (pin.go, conversation.go).
THEOREM TablesKeepTheLiving == TablesSpec => LiveEntriesStay
<1>1. TablesInv /\ [TablesNext]_tableVars =>
        [/\ \A k \in DOMAIN pinTable \ Expired(pinTable) :
              k \notin DOMAIN pinTable' =>
                  Forget(k) \/ (Full(pinTable) /\ Eldest(pinTable, k))
         /\ \A k \in DOMAIN convTable \ Expired(convTable) :
              \/ k \notin DOMAIN convTable' /\ Full(convTable) /\ Eldest(convTable, k)
              \/ /\ k \in DOMAIN convTable'
                 /\ \/ convTable'[k].id = convTable[k].id
                    \/ convTable'[k].account # convTable[k].account
                    \/ tableTime >= convTable[k].until
         /\ Cardinality(DOMAIN pinTable') <= MaxEntries
         /\ Cardinality(DOMAIN convTable') <= MaxEntries]_tableVars
  BY TablesStep DEF PinsStay, ConversationsStay, TablesInv, TableOK
<1> QED BY <1>1, TablesInvariance, PTL DEF TablesSpec, LiveEntriesStay

-----------------------------------------------------------------------------
(* Model lists: the invariant *)

ListerStates ==
    {AtRest}
    \cup [pc : {"missed", "leading", "waiting"}, key : CacheKeys, fresh : BOOLEAN, since : Nat]
    \cup [pc : {"console", "fallback"}, key : CacheKeys, fresh : BOOLEAN, since : Nat,
          hosts : SUBSET Hosts]
    \cup [pc : {"landed"}, key : CacheKeys, fresh : BOOLEAN, since : Nat, catalogue : Int]
    \cup [pc : {"returned"}, key : CacheKeys, fresh : BOOLEAN, since : Nat, answer : Int]

TypesOK ==
    /\ clock \in Nat /\ lists \in Nat
    /\ cache \in [CacheKeys -> [catalogue : Int, until : Int]]
    /\ flight \in [CacheKeys -> Listers \cup {NoFlight}]
    /\ lister \in [Listers -> ListerStates]

CacheOK ==
    \A k \in CacheKeys :
        cache[k].catalogue # NothingCached =>
            cache[k].catalogue <= clock /\ cache[k].until = cache[k].catalogue + CacheTTL

\* Time stands still from the look at the cache to the call upstream, and from its
\* answer to the end of the flight: what was cached meanwhile is of this moment.
Timely(l) ==
    /\ lister[l].pc # "idle" => lister[l].since <= clock
    /\ lister[l].pc \in {"missed", "leading"} =>
          /\ lister[l].since = clock
          /\ LooksAgain(l) => cache[lister[l].key].catalogue = clock
    /\ lister[l].pc = "landed" => lister[l].catalogue = clock
    /\ lister[l].pc = "returned" =>
          lister[l].answer + (IF lister[l].fresh THEN 0 ELSE CacheTTL) >= lister[l].since

\* Who leads a flight is in the map until it has landed and left.
Leads(l) == lister[l].pc \in {"leading", "console", "fallback", "landed"}
InTheMap(l) == Leads(l) => flight[lister[l].key] = l

ListsInv == TypesOK /\ CacheOK /\ \A l \in Listers : Timely(l) /\ InTheMap(l)

-----------------------------------------------------------------------------
(* Model lists: what is known of one listing *)

LEMMA ListerKnows ==
  ASSUME TypesOK, NEW l \in Listers, lister[l].pc # "idle"
  PROVE  /\ lister[l].key \in CacheKeys /\ lister[l].fresh \in BOOLEAN /\ lister[l].since \in Nat
         /\ lister[l].pc = "landed" => lister[l].catalogue \in Int
         /\ lister[l].pc = "returned" => lister[l].answer \in Int
  BY DEF TypesOK, ListerStates, AtRest

\* A listing that does not move itself while others do.
LEMMA StillTimely ==
  ASSUME NEW m, Timely(m), lister'[m] = lister[m], clock' = clock,
         lister[m].pc \in {"missed", "leading"} =>
             \/ cache'[lister[m].key] = cache[lister[m].key]
             \/ cache'[lister[m].key].catalogue \in {clock, NothingCached}
  PROVE  Timely(m)'
  BY DEF Timely, LooksAgain, Cached

LEMMA StillInTheMap ==
  ASSUME NEW m, InTheMap(m), lister'[m] = lister[m],
         Leads(m) => flight'[lister[m].key] = flight[lister[m].key]
  PROVE  InTheMap(m)'
  BY DEF InTheMap, Leads

-----------------------------------------------------------------------------
(* Model lists: steps *)

LEMMA BeginsStep ==
  ASSUME ListsInv, NEW l \in Listers, NEW k \in CacheKeys, NEW fresh \in BOOLEAN,
         ListModels(l, k, fresh)
  PROVE  ListsInv'
<1> DEFINE begun == IF ~fresh /\ Cached(k)
                      THEN [pc |-> "returned", key |-> k, fresh |-> fresh, since |-> clock,
                            answer |-> cache[k].catalogue]
                      ELSE [pc |-> "missed", key |-> k, fresh |-> fresh, since |-> clock]
<1>1. /\ lister' = [lister EXCEPT ![l] = begun] /\ lists' = l
      /\ UNCHANGED <<clock, cache, flight, badUntil>>
  BY DEF ListModels
<1>2. TypesOK'
  <2>1. begun \in ListerStates BY DEF ListerStates, ListsInv, TypesOK
  <2> HIDE DEF begun
  <2> QED BY <1>1, <2>1 DEF ListsInv, TypesOK, Listers
<1>3. CacheOK' BY <1>1 DEF ListsInv, CacheOK
<1>4. ASSUME NEW m \in Listers PROVE Timely(m)' /\ InTheMap(m)'
  <2>1. CASE m = l
    <3>1. lister'[l] = begun BY <1>1 DEF ListsInv, TypesOK
    <3>2. Cached(k) => cache[k].catalogue + CacheTTL >= clock
      BY ModelListsAssumption DEF Cached, ListsInv, CacheOK, TypesOK
    <3>3. ~Leads(l)' BY <3>1 DEF Leads
    <3>4. Timely(l)'
      BY <1>1, <3>1, <3>2 DEF Timely, LooksAgain, Cached, ListsInv, TypesOK
    <3> QED BY <2>1, <3>3, <3>4 DEF InTheMap
  <2>2. CASE m # l
    <3>1. lister'[m] = lister[m] BY <1>1, <2>2 DEF ListsInv, TypesOK
    <3> QED BY <1>1, <3>1, StillTimely, StillInTheMap DEF ListsInv
  <2> QED BY <2>1, <2>2
<1> QED BY <1>2, <1>3, <1>4 DEF ListsInv

LEMMA JoinStep ==
  ASSUME ListsInv, NEW l \in Listers, Join(l)
  PROVE  ListsInv'
<1> DEFINE leader == flight[lister[l].key]
           joined == IF lister[leader].pc = "landed" THEN Returned(l, lister[leader].catalogue)
                     ELSE [pc |-> "waiting", key |-> lister[l].key, fresh |-> lister[l].fresh,
                           since |-> lister[l].since]
<1>1. /\ lister[l].pc = "missed" /\ leader # NoFlight
      /\ lister' = [lister EXCEPT ![l] = joined]
      /\ UNCHANGED <<clock, cache, flight, badUntil, lists>>
  BY DEF Join
<1>2. /\ lister[l].key \in CacheKeys /\ lister[l].fresh \in BOOLEAN /\ lister[l].since \in Nat
      /\ lister[l].since = clock
  BY <1>1, ListerKnows DEF ListsInv, Timely
<1>3. leader \in Listers BY <1>1, <1>2 DEF ListsInv, TypesOK
<1>4. lister[leader].pc = "landed" => lister[leader].catalogue = clock /\ clock \in Nat
  BY <1>3 DEF ListsInv, Timely, TypesOK
<1> HIDE DEF leader
<1>5. TypesOK'
  <2>1. joined \in ListerStates BY <1>2, <1>4 DEF ListerStates, Returned
  <2> HIDE DEF joined
  <2> QED BY <1>1, <2>1 DEF ListsInv, TypesOK
<1>6. CacheOK' BY <1>1 DEF ListsInv, CacheOK
<1>7. ASSUME NEW m \in Listers PROVE Timely(m)' /\ InTheMap(m)'
  <2>1. CASE m = l
    <3>1. lister'[l] = joined BY <1>1 DEF ListsInv, TypesOK
    <3>2. ~Leads(l)' BY <3>1 DEF Leads, Returned
    <3>3. Timely(l)'
      BY <1>1, <1>2, <1>4, <3>1, ModelListsAssumption DEF Timely, Returned, LooksAgain
    <3> QED BY <2>1, <3>2, <3>3 DEF InTheMap
  <2>2. CASE m # l
    <3>1. lister'[m] = lister[m] BY <1>1, <2>2 DEF ListsInv, TypesOK
    <3> QED BY <1>1, <3>1, StillTimely, StillInTheMap DEF ListsInv
  <2> QED BY <2>1, <2>2
<1> QED BY <1>5, <1>6, <1>7 DEF ListsInv

LEMMA LeadStep ==
  ASSUME ListsInv, NEW l \in Listers, Lead(l)
  PROVE  ListsInv'
<1> DEFINE leading == [lister[l] EXCEPT !.pc = "leading"]
<1>1. /\ lister[l].pc = "missed" /\ flight[lister[l].key] = NoFlight
      /\ flight' = [flight EXCEPT ![lister[l].key] = l]
      /\ lister' = [lister EXCEPT ![l] = leading]
      /\ UNCHANGED <<clock, cache, badUntil, lists>>
  BY DEF Lead
<1>2. lister[l] \in [pc : {"missed", "leading", "waiting"}, key : CacheKeys, fresh : BOOLEAN, since : Nat]
  BY <1>1 DEF ListsInv, TypesOK, ListerStates, AtRest
<1>3. /\ leading \in [pc : {"leading"}, key : CacheKeys, fresh : BOOLEAN, since : Nat]
      /\ leading.key = lister[l].key /\ leading.fresh = lister[l].fresh
      /\ leading.since = lister[l].since /\ leading.pc = "leading"
  BY <1>2
<1> HIDE DEF leading
<1>4. TypesOK'
  <2>1. leading \in ListerStates BY <1>3 DEF ListerStates
  <2> QED BY <1>1, <2>1 DEF ListsInv, TypesOK
<1>5. CacheOK' BY <1>1 DEF ListsInv, CacheOK
<1>6. ASSUME NEW m \in Listers PROVE Timely(m)' /\ InTheMap(m)'
  <2>1. CASE m = l
    <3>1. lister'[l] = leading BY <1>1 DEF ListsInv, TypesOK
    <3>2. Timely(l) BY DEF ListsInv
    <3>3. Timely(l)' BY <1>1, <1>3, <3>1, <3>2 DEF Timely, LooksAgain, Cached
    <3>4. InTheMap(l)' BY <1>1, <1>2, <1>3, <3>1 DEF InTheMap, ListsInv, TypesOK
    <3> QED BY <2>1, <3>3, <3>4
  <2>2. CASE m # l
    <3>1. lister'[m] = lister[m] BY <1>1, <2>2 DEF ListsInv, TypesOK
    <3>2. Leads(m) => lister[m].key # lister[l].key
      BY <1>1 DEF ListsInv, InTheMap, Listers, NoFlight
    <3>3. Leads(m) => flight'[lister[m].key] = flight[lister[m].key]
      BY <1>1, <3>2 DEF ListsInv, TypesOK
    <3> QED BY <1>1, <3>1, <3>3, StillTimely, StillInTheMap DEF ListsInv
  <2> QED BY <2>1, <2>2
<1> QED BY <1>4, <1>5, <1>6 DEF ListsInv

LEMMA AsksStep ==
  ASSUME ListsInv, NEW l \in Listers, AsksConsole(l)
  PROVE  ListsInv'
<1> DEFINE hosts == IF lister[l].fresh THEN Hosts ELSE {host \in Hosts : ~Blocked(host)}
           asking == [pc |-> "console", key |-> lister[l].key, fresh |-> lister[l].fresh,
                      since |-> lister[l].since, hosts |-> hosts]
<1>1. /\ lister[l].pc = "leading" /\ lister' = [lister EXCEPT ![l] = asking]
      /\ UNCHANGED <<clock, cache, flight, badUntil, lists>>
  BY DEF AsksConsole
<1>2. /\ lister[l].key \in CacheKeys /\ lister[l].fresh \in BOOLEAN /\ lister[l].since \in Nat
      /\ Timely(l) /\ InTheMap(l)
  BY <1>1, ListerKnows DEF ListsInv
<1>3. /\ asking \in ListerStates
      /\ asking.pc = "console" /\ asking.key = lister[l].key /\ asking.since = lister[l].since
  BY <1>2 DEF ListerStates
<1> HIDE DEF asking
<1>4. TypesOK' BY <1>1, <1>3 DEF ListsInv, TypesOK
<1>5. CacheOK' BY <1>1 DEF ListsInv, CacheOK
<1>6. ASSUME NEW m \in Listers PROVE Timely(m)' /\ InTheMap(m)'
  <2>1. CASE m = l
    <3>1. lister'[l] = asking BY <1>1 DEF ListsInv, TypesOK
    <3> QED BY <1>1, <1>2, <1>3, <2>1, <3>1 DEF Timely, InTheMap, Leads
  <2>2. CASE m # l
    <3>1. lister'[m] = lister[m] BY <1>1, <2>2 DEF ListsInv, TypesOK
    <3> QED BY <1>1, <3>1, StillTimely, StillInTheMap DEF ListsInv
  <2> QED BY <2>1, <2>2
<1> QED BY <1>4, <1>5, <1>6 DEF ListsInv

\* A catalogue of this moment lands, and whoever waits has it too.
LEMMA LandStep ==
  ASSUME ListsInv, NEW l \in Listers, Leads(l), Land(l, clock),
         cache' = cache \/ Kept(lister[l].key),
         UNCHANGED <<clock, flight, lists>>
  PROVE  ListsInv'
<1> DEFINE landed == [pc |-> "landed", key |-> lister[l].key, fresh |-> lister[l].fresh,
                      since |-> lister[l].since, catalogue |-> clock]
<1>1. /\ lister[l].key \in CacheKeys /\ lister[l].fresh \in BOOLEAN /\ lister[l].since \in Nat
      /\ clock \in Nat
  BY ListerKnows DEF ListsInv, Leads, TypesOK
<1>2. ASSUME NEW m \in Listers
      PROVE  \/ m = l /\ lister'[m] = landed
             \/ m # l /\ lister[m].pc = "waiting" /\ lister'[m] = Returned(m, clock)
             \/ m # l /\ lister'[m] = lister[m]
  BY DEF Land, Waiting
<1>3. TypesOK'
  <2>1. ASSUME NEW m \in Listers PROVE lister'[m] \in ListerStates
    <3>1. landed \in ListerStates BY <1>1 DEF ListerStates
    <3>2. lister[m].pc = "waiting" => Returned(m, clock) \in ListerStates
      BY <1>1, ListerKnows DEF ListerStates, Returned, ListsInv
    <3> HIDE DEF landed
    <3> QED BY <1>2, <3>1, <3>2 DEF ListsInv, TypesOK
  <2>2. lister' \in [Listers -> ListerStates] BY <2>1 DEF Land
  <2>3. cache' \in [CacheKeys -> [catalogue : Int, until : Int]]
    BY <1>1, ModelListsAssumption DEF Kept, ListsInv, TypesOK
  <2> QED BY <2>2, <2>3 DEF ListsInv, TypesOK
<1>4. CacheOK'
  BY <1>1, ModelListsAssumption DEF Kept, ListsInv, TypesOK, CacheOK
<1>5. ASSUME NEW m \in Listers PROVE Timely(m)' /\ InTheMap(m)'
  <2>0. Timely(m) /\ InTheMap(m) BY DEF ListsInv
  <2>1. CASE m = l /\ lister'[m] = landed
    BY <2>0, <2>1 DEF Timely, InTheMap, Leads
  <2>2. CASE m # l /\ lister[m].pc = "waiting" /\ lister'[m] = Returned(m, clock)
    <3>1. lister[m].since \in Nat /\ lister[m].since <= clock /\ lister[m].fresh \in BOOLEAN
      BY <2>0, <2>2, ListerKnows DEF ListsInv, Timely
    <3>2. ~Leads(m)' BY <2>2 DEF Leads, Returned
    <3>3. Timely(m)' BY <1>1, <2>2, <3>1, ModelListsAssumption DEF Timely, Returned
    <3> QED BY <3>2, <3>3 DEF InTheMap
  <2>3. CASE m # l /\ lister'[m] = lister[m]
    <3>1. lister[m].pc \in {"missed", "leading"} =>
             \/ cache'[lister[m].key] = cache[lister[m].key]
             \/ cache'[lister[m].key].catalogue \in {clock, NothingCached}
      <4>1. lister[m].pc \in {"missed", "leading"} => lister[m].key \in CacheKeys
        BY ListerKnows DEF ListsInv
      <4> QED BY <4>1 DEF Kept, ListsInv, TypesOK
    <3> QED BY <2>0, <2>3, <3>1, StillTimely, StillInTheMap
  <2> QED BY <1>2, <2>1, <2>2, <2>3
<1> QED BY <1>3, <1>4, <1>5 DEF ListsInv

\* Upstream has nothing to say yet: the older paths are asked.
LEMMA FallsBackStep ==
  ASSUME ListsInv, NEW l \in Listers, lister[l].pc = "console",
         lister' = [lister EXCEPT ![l].pc = "fallback"], UNCHANGED <<clock, cache, flight, lists>>
  PROVE  ListsInv'
<1> DEFINE back == [lister[l] EXCEPT !.pc = "fallback"]
<1>1. lister[l] \in [pc : {"console", "fallback"}, key : CacheKeys, fresh : BOOLEAN, since : Nat,
                     hosts : SUBSET Hosts]
  BY DEF ListsInv, TypesOK, ListerStates, AtRest
<1>2. /\ back \in ListerStates
      /\ back.pc = "fallback" /\ back.key = lister[l].key /\ back.since = lister[l].since
  BY <1>1 DEF ListerStates
<1>3. lister' = [lister EXCEPT ![l] = back] OBVIOUS
<1> HIDE DEF back
<1>4. TypesOK' BY <1>2, <1>3 DEF ListsInv, TypesOK
<1>5. CacheOK' BY DEF ListsInv, CacheOK
<1>6. ASSUME NEW m \in Listers PROVE Timely(m)' /\ InTheMap(m)'
  <2>0. Timely(m) /\ InTheMap(m) BY DEF ListsInv
  <2>1. CASE m = l
    <3>1. lister'[l] = back BY <1>3 DEF ListsInv, TypesOK
    <3> QED BY <1>2, <2>0, <2>1, <3>1 DEF Timely, InTheMap, Leads
  <2>2. CASE m # l
    <3>1. lister'[m] = lister[m] BY <1>3, <2>2 DEF ListsInv, TypesOK
    <3> QED BY <2>0, <3>1, StillTimely, StillInTheMap
  <2> QED BY <2>1, <2>2
<1> QED BY <1>4, <1>5, <1>6 DEF ListsInv

LEMMA LeaveStep ==
  ASSUME ListsInv, NEW l \in Listers, Leave(l)
  PROVE  ListsInv'
<1> DEFINE gone == Returned(l, lister[l].catalogue)
<1>1. /\ lister[l].pc = "landed" /\ flight' = [flight EXCEPT ![lister[l].key] = NoFlight]
      /\ lister' = [lister EXCEPT ![l] = gone]
      /\ UNCHANGED <<clock, cache, badUntil, lists>>
  BY DEF Leave, TakenOut
<1>2. /\ lister[l].key \in CacheKeys /\ lister[l].fresh \in BOOLEAN /\ lister[l].since \in Nat
      /\ lister[l].catalogue = clock /\ clock \in Nat /\ lister[l].since <= clock
      /\ flight[lister[l].key] = l
  BY <1>1, ListerKnows DEF ListsInv, Timely, InTheMap, Leads, TypesOK
<1>3. /\ gone \in ListerStates /\ gone.pc = "returned" /\ gone.answer = clock
      /\ gone.since = lister[l].since /\ gone.fresh = lister[l].fresh
  BY <1>2 DEF ListerStates, Returned
<1> HIDE DEF gone
<1>4. TypesOK' BY <1>1, <1>3 DEF ListsInv, TypesOK
<1>5. CacheOK' BY <1>1 DEF ListsInv, CacheOK
<1>6. ASSUME NEW m \in Listers PROVE Timely(m)' /\ InTheMap(m)'
  <2>1. CASE m = l
    <3>1. lister'[l] = gone BY <1>1 DEF ListsInv, TypesOK
    <3> QED BY <1>1, <1>2, <1>3, <2>1, <3>1, ModelListsAssumption DEF Timely, InTheMap, Leads
  <2>2. CASE m # l
    <3>1. lister'[m] = lister[m] BY <1>1, <2>2 DEF ListsInv, TypesOK
    <3>2. Leads(m) => lister[m].key # lister[l].key
      BY <1>2, <2>2 DEF ListsInv, InTheMap
    <3>3. Leads(m) => flight'[lister[m].key] = flight[lister[m].key]
      BY <1>1, <3>2 DEF ListsInv, TypesOK
    <3> QED BY <1>1, <3>1, <3>3, StillTimely, StillInTheMap DEF ListsInv
  <2> QED BY <2>1, <2>2
<1> QED BY <1>4, <1>5, <1>6 DEF ListsInv

LEMMA InvalidateStep ==
  ASSUME ListsInv, InvalidateModels
  PROVE  ListsInv'
<1>1. /\ cache' = [k \in CacheKeys |-> [catalogue |-> NothingCached, until |-> 0]]
      /\ UNCHANGED <<clock, flight, badUntil, lister, lists>>
  BY DEF InvalidateModels
<1>2. TypesOK' BY <1>1 DEF ListsInv, TypesOK, NothingCached
<1>3. CacheOK' BY <1>1 DEF CacheOK
<1>4. ASSUME NEW m \in Listers PROVE Timely(m)' /\ InTheMap(m)'
  <2>1. lister[m].pc \in {"missed", "leading"} => cache'[lister[m].key].catalogue = NothingCached
    BY <1>1, ListerKnows DEF ListsInv
  <2> QED BY <1>1, <2>1, StillTimely, StillInTheMap DEF ListsInv
<1> QED BY <1>2, <1>3, <1>4 DEF ListsInv

LEMMA ClockStep ==
  ASSUME ListsInv, ClockTicks
  PROVE  ListsInv'
<1>1. /\ clock' = clock + 1 /\ UNCHANGED <<cache, flight, badUntil, lister, lists>>
      /\ \A m \in Listers : lister[m].pc \notin {"missed", "leading", "landed"}
  BY DEF ClockTicks, Running
<1>2. TypesOK' BY <1>1 DEF ListsInv, TypesOK
<1>3. CacheOK' BY <1>1 DEF ListsInv, CacheOK, TypesOK
<1>4. ASSUME NEW m \in Listers PROVE Timely(m)' /\ InTheMap(m)'
  <2>1. lister[m].pc # "idle" => lister[m].since \in Nat BY ListerKnows DEF ListsInv
  <2> QED BY <1>1, <2>1 DEF ListsInv, TypesOK, Timely, InTheMap, Leads
<1> QED BY <1>2, <1>3, <1>4 DEF ListsInv

-----------------------------------------------------------------------------
(* Model lists: theorems *)

LEMMA ProceedStep ==
  ASSUME ListsInv, NEW l \in Listers, Proceed(l)
  PROVE  ListsInv'
<1>1. CASE LandsWithCached(l)
  <2>1. cache[lister[l].key].catalogue = clock
    BY <1>1 DEF LandsWithCached, ListsInv, Timely
  <2> QED BY <1>1, <2>1, LandStep DEF LandsWithCached, Leads
<1>2. ASSUME NEW failed \in SUBSET Hosts, NEW good \in SUBSET Hosts, ConsoleAnswers(l, failed, good)
      PROVE  ListsInv'
  <2>1. CASE good # {}
    BY <1>2, <2>1, LandStep DEF ConsoleAnswers, Leads
  <2>2. CASE good = {}
    BY <1>2, <2>2, FallsBackStep DEF ConsoleAnswers
  <2> QED BY <2>1, <2>2
<1>3. CASE FallbackAnswers(l)
  BY <1>3, LandStep DEF FallbackAnswers, Leads
<1> QED BY <1>1, <1>2, <1>3, JoinStep, LeadStep, AsksStep, LeaveStep DEF Proceed

LEMMA ListsInvariance == ModelsSpec => []ListsInv
<1>1. ModelsInit => ListsInv
  BY ModelListsAssumption DEF ModelsInit, ListsInv, TypesOK, ListerStates, CacheOK, Timely,
     InTheMap, Leads, AtRest, NothingCached, NoFlight, Listers
<1>2. ListsInv /\ [ModelsNext]_modelVars => ListsInv'
  <2>1. CASE UNCHANGED modelVars
    BY <2>1 DEF modelVars, ListsInv, TypesOK, CacheOK, Timely, InTheMap, Leads, LooksAgain, Cached
  <2> QED BY <2>1, BeginsStep, ProceedStep, InvalidateStep, ClockStep DEF ModelsNext
<1> QED BY <1>1, <1>2, PTL DEF ModelsSpec

\* No listing is answered with a catalogue older than its cache allows, a fresh one
\* with none from before it, whatever flights it joins and whoever fills or empties
\* the cache meanwhile (listModelsForSite, Do).
THEOREM ListsAreYoung == ModelsSpec => []ListingsAreYoung
<1>1. ListsInv => ListingsAreYoung
  BY DEF ListsInv, ListingsAreYoung, Answered, Timely
<1> QED BY <1>1, ListsInvariance, PTL

\* Upstream is asked for the models of a key by one listing at a time (Do).
THEOREM ListsAskOnce == ModelsSpec => []OneFlightPerKey
<1>1. ListsInv => OneFlightPerKey
  BY DEF ListsInv, OneFlightPerKey, Asking, InTheMap, Leads
<1> QED BY <1>1, ListsInvariance, PTL

-----------------------------------------------------------------------------
(* Journal: the last records and the first ones *)

LEMMA LastOfAll ==
  ASSUME NEW S, NEW s \in Seq(S), NEW n \in Nat
  PROVE  /\ LastOf(s, n) \in Seq(S)
         /\ Len(LastOf(s, n)) = IF Len(s) > n THEN n ELSE Len(s)
         /\ \A i \in 1 .. Len(LastOf(s, n)) :
                LastOf(s, n)[i] = s[i + Len(s) - Len(LastOf(s, n))]
         /\ LastOf(LastOf(s, n), n) = LastOf(s, n)
<1>1. CASE Len(s) > n
  <2> DEFINE l == SubSeq(s, Len(s) - n + 1, Len(s))
  <2>1. LastOf(s, n) = l
    BY <1>1 DEF LastOf
  <2>2. l \in Seq(S) /\ Len(l) = n /\ \A i \in 1 .. n : l[i] = s[i + Len(s) - n]
    BY <1>1
  <2>3. LastOf(l, n) = l
    BY <2>2 DEF LastOf
  <2> HIDE DEF l
  <2>4. QED BY <1>1, <2>1, <2>2, <2>3
<1>2. CASE ~(Len(s) > n)
  <2>1. LastOf(s, n) = s
    BY <1>2 DEF LastOf
  <2>2. QED BY <1>2, <2>1
<1>3. QED BY <1>1, <1>2

\* A ring from which the oldest entry goes when it is full has the newest ones.
LEMMA LastOfMore ==
  ASSUME NEW S, NEW s \in Seq(S), NEW e \in S, NEW n \in Nat \ {0}, NEW l, l = LastOf(s, n)
  PROVE  Append(IF Len(l) >= n THEN Tail(l) ELSE l, e) = LastOf(Append(s, e), n)
<1> DEFINE t == Append(s, e)
           kept == IF Len(l) >= n THEN Tail(l) ELSE l
           grown == Append(kept, e)
<1>1. /\ t \in Seq(S) /\ Len(t) = Len(s) + 1 /\ t[Len(t)] = e
      /\ \A i \in 1 .. Len(s) : t[i] = s[i]
  OBVIOUS
<1>2. /\ l \in Seq(S) /\ Len(l) = IF Len(s) > n THEN n ELSE Len(s)
      /\ \A i \in 1 .. Len(l) : l[i] = s[i + Len(s) - Len(l)]
  BY LastOfAll
<1>3. /\ kept \in Seq(S)
      /\ Len(kept) = IF Len(l) >= n THEN Len(l) - 1 ELSE Len(l)
      /\ \A i \in 1 .. Len(kept) : kept[i] = l[i + Len(l) - Len(kept)]
  <2>1. CASE Len(l) >= n
    <3>1. l # <<>> /\ kept = Tail(l)
      BY <1>2, <2>1
    <3>2. /\ Tail(l) \in Seq(S) /\ Len(Tail(l)) = Len(l) - 1
          /\ \A i \in 1 .. Len(Tail(l)) : Tail(l)[i] = l[i + 1]
      BY <1>2, <3>1, HeadTailProperties
    <3> HIDE DEF kept
    <3>3. Len(l) - Len(kept) = 1
      BY <1>2, <3>1, <3>2
    <3>4. ASSUME NEW i \in 1 .. Len(kept) PROVE kept[i] = l[i + Len(l) - Len(kept)]
      <4>1. i + Len(l) - Len(kept) = i + 1
        BY <1>2, <3>1, <3>2, <3>3
      <4>2. QED BY <3>1, <3>2, <4>1
    <3>5. QED BY <2>1, <3>1, <3>2, <3>4
  <2>2. CASE ~(Len(l) >= n)
    <3>1. kept = l
      BY <2>2
    <3> HIDE DEF kept
    <3>2. QED BY <1>2, <2>2, <3>1
  <2>3. QED BY <2>1, <2>2
<1> HIDE DEF kept, t
<1>4. /\ grown \in Seq(S) /\ Len(grown) = Len(kept) + 1 /\ grown[Len(grown)] = e
      /\ \A i \in 1 .. Len(kept) : grown[i] = kept[i]
  BY <1>3
<1> HIDE DEF grown
<1>5. /\ LastOf(t, n) \in Seq(S)
      /\ Len(LastOf(t, n)) = IF Len(t) > n THEN n ELSE Len(t)
      /\ \A i \in 1 .. Len(LastOf(t, n)) : LastOf(t, n)[i] = t[i + Len(t) - Len(LastOf(t, n))]
  BY <1>1, LastOfAll
<1>a. /\ Len(s) \in Nat /\ Len(l) \in Nat /\ Len(kept) \in Nat /\ Len(grown) = Len(kept) + 1
      /\ Len(kept) <= Len(l) /\ Len(l) <= Len(s) /\ Len(t) = Len(s) + 1
  BY <1>1, <1>2, <1>3, <1>4
<1>6. Len(grown) = Len(LastOf(t, n))
  BY <1>1, <1>2, <1>3, <1>4, <1>5
<1>7. ASSUME NEW i \in 1 .. Len(grown) PROVE grown[i] = LastOf(t, n)[i]
  <2>1. LastOf(t, n)[i] = t[i + Len(t) - Len(grown)]
    BY <1>5, <1>6
  <2>2. CASE i = Len(grown)
    BY <1>1, <1>4, <2>1, <2>2
  <2>3. CASE i < Len(grown)
    <3>1. i \in 1 .. Len(kept) /\ i + Len(l) - Len(kept) \in 1 .. Len(l)
      BY ONLY <1>a, <2>3, i \in 1 .. Len(grown)
    <3>2. grown[i] = l[i + Len(l) - Len(kept)]
      BY <1>3, <1>4, <3>1
    <3>3. PICK j : j = i + Len(l) - Len(kept)
      OBVIOUS
    <3>4. j \in 1 .. Len(l) /\ grown[i] = l[j]
      BY <3>1, <3>2, <3>3
    <3>5. l[j] = s[j + Len(s) - Len(l)]
      BY <1>2, <3>4
    <3>6. PICK k : k = j + Len(s) - Len(l)
      OBVIOUS
    <3>7. k \in 1 .. Len(s) /\ k = i + Len(t) - Len(grown)
      BY ONLY <1>a, <3>1, <3>3, <3>4, <3>6, i \in 1 .. Len(grown)
    <3>8. grown[i] = s[k] /\ t[k] = s[k]
      BY <1>1, <3>4, <3>5, <3>6, <3>7
    <3>9. QED BY <2>1, <3>7, <3>8
  <2>4. i \in Nat /\ Len(grown) \in Nat /\ i <= Len(grown)
    BY <1>4
  <2>5. QED BY <2>2, <2>3, <2>4
<1>8. grown = LastOf(t, n)
  BY <1>4, <1>5, <1>6, <1>7, SeqEqual
<1>9. QED BY <1>8 DEF grown, kept, t

LEMMA FirstOnes ==
  ASSUME NEW S, NEW s \in Seq(S), NEW k \in 0 .. Len(s)
  PROVE  /\ SubSeq(s, 1, k) \in Seq(S) /\ Len(SubSeq(s, 1, k)) = k
         /\ SubSeq(SubSeq(s, 1, k), 1, k) = SubSeq(s, 1, k)
         /\ SubSeq(s, 1, Len(s)) = s
         /\ \A e \in S : SubSeq(Append(s, e), 1, k) = SubSeq(s, 1, k)
<1>1. ASSUME NEW t \in Seq(S), NEW j \in 0 .. Len(t)
      PROVE  /\ SubSeq(t, 1, j) \in Seq(S) /\ Len(SubSeq(t, 1, j)) = j
             /\ \A i \in 1 .. j : SubSeq(t, 1, j)[i] = t[i]
  OBVIOUS
<1>2. SubSeq(SubSeq(s, 1, k), 1, k) = SubSeq(s, 1, k)
  <2> DEFINE t == SubSeq(s, 1, k)
  <2>1. t \in Seq(S) /\ Len(t) = k
    BY <1>1
  <2> HIDE DEF t
  <2>2. /\ SubSeq(t, 1, k) \in Seq(S) /\ Len(SubSeq(t, 1, k)) = k
        /\ \A i \in 1 .. k : SubSeq(t, 1, k)[i] = t[i]
    BY <1>1, <2>1
  <2>3. SubSeq(t, 1, k) = t
    BY <2>1, <2>2, SeqEqual
  <2>4. QED BY <2>3 DEF t
<1>3. SubSeq(s, 1, Len(s)) = s
  BY <1>1, SeqEqual
<1>4. ASSUME NEW e \in S PROVE SubSeq(Append(s, e), 1, k) = SubSeq(s, 1, k)
  <2> DEFINE t == Append(s, e)
  <2>1. t \in Seq(S) /\ Len(t) = Len(s) + 1 /\ \A i \in 1 .. Len(s) : t[i] = s[i]
    OBVIOUS
  <2> HIDE DEF t
  <2>2. k \in 0 .. Len(t)
    BY <2>1
  <2>3. /\ SubSeq(t, 1, k) \in Seq(S) /\ Len(SubSeq(t, 1, k)) = k
        /\ \A i \in 1 .. k : SubSeq(t, 1, k)[i] = s[i]
    BY <1>1, <2>1, <2>2
  <2>4. SubSeq(t, 1, k) = SubSeq(s, 1, k)
    BY <1>1, <2>3, SeqEqual
  <2>5. QED BY <2>4 DEF t
<1>5. QED BY <1>1, <1>2, <1>3, <1>4

-----------------------------------------------------------------------------
(* Journal: counting record by record *)

\* A set of numbers has a smallest one.
LEMMA LeastOf ==
  ASSUME NEW S \in SUBSET Nat, S # {}
  PROVE  \E m \in S : \A n \in S : m <= n
<1> DEFINE R == {p \in Nat \X Nat : p[1] < p[2]}
<1>1. R = OpToRel(<, Nat)
  BY DEF OpToRel
<1>2. IsWellFoundedOn(R, Nat)
  BY <1>1, NatLessThanWellFounded
<1> HIDE DEF R
<1>3. PICK m \in S : \A n \in S : ~(<<n, m>> \in R)
  BY <1>2, WFMin
<1>4. \A n \in S : ~(n < m)
  BY <1>3 DEF R
<1>5. QED BY <1>4

\* What the count is after n records of s, if it was `so` before the last of them.
Counted(s, d, n, so) ==
    IF n = 0 THEN NoTotals ELSE IF Day(s[n].at) = d THEN Plus(so, Tally(<<s[n]>>)) ELSE so

\* f counts the records of s up to k.
Counts(f, s, d, k) == f = [n \in 0 .. k |-> Counted(s, d, n, f[n - 1])]

LEMMA CountsAlike ==
  ASSUME NEW s, NEW t, NEW d, NEW k \in Nat, \A n \in 1 .. k : s[n] = t[n],
         NEW j \in Nat, k <= j, NEW f, Counts(f, s, d, k), NEW g, Counts(g, t, d, j)
  PROVE  f[k] = g[k]
<1> DEFINE Off == {n \in 0 .. k : f[n] # g[n]}
<1>1. CASE Off = {}
  BY <1>1
<1>2. CASE Off # {}
  <2>a. Off \in SUBSET Nat
    OBVIOUS
  <2>1. PICK m \in Off : \A n \in Off : m <= n
    BY ONLY <1>2, <2>a, LeastOf
  <2>2. m \in 0 .. k /\ m \in 0 .. j
    OBVIOUS
  <2>3. f[m] = Counted(s, d, m, f[m - 1]) /\ g[m] = Counted(t, d, m, g[m - 1])
    BY <2>2 DEF Counts
  <2>4. CASE m = 0
    BY <2>3, <2>4 DEF Counted
  <2>5. CASE m # 0
    <3>1. m - 1 \in 0 .. k /\ m - 1 \notin Off
      BY <2>1, <2>2, <2>5
    <3>2. f[m - 1] = g[m - 1] /\ s[m] = t[m]
      BY <2>2, <2>5, <3>1
    <3>3. f[m] = g[m]
      BY <2>3, <2>5, <3>2 DEF Counted
    <3>4. QED BY <2>1, <3>3
  <2>6. QED BY <2>4, <2>5
<1>3. QED BY <1>1, <1>2

LEMMA CountsExist ==
  ASSUME NEW s, NEW d, NEW k \in Nat
  PROVE  \E f : Counts(f, s, d, k)
<1> DEFINE Has(n) == \E f : Counts(f, s, d, n)
           Uncounted == {n \in Nat : ~Has(n)}
<1>1. CASE Uncounted = {}
  BY <1>1
<1>2. CASE Uncounted # {}
  <2>1. PICK m \in Uncounted : \A n \in Uncounted : m <= n
    BY <1>2, LeastOf
  <2>2. CASE m = 0
    <3> DEFINE f == [n \in 0 .. 0 |-> NoTotals]
    <3>1. ASSUME NEW g, g = f PROVE Counts(g, s, d, 0)
      <4>1. \A n \in 0 .. 0 : Counted(s, d, n, g[n - 1]) = NoTotals
        BY DEF Counted
      <4>2. QED BY <3>1, <4>1 DEF Counts
    <3>2. Has(0)
      BY <3>1
    <3>3. QED BY <2>1, <2>2, <3>2
  <2>3. CASE m # 0
    <3>1. m - 1 \in Nat /\ m - 1 \notin Uncounted
      BY <2>1, <2>3
    <3>2. PICK f : Counts(f, s, d, m - 1)
      BY <3>1
    <3> DEFINE g == [n \in 0 .. m |-> Counted(s, d, n, f[n - 1])]
    <3>3. ASSUME NEW n \in 0 .. m
          PROVE  Counted(s, d, n, f[n - 1]) = Counted(s, d, n, g[n - 1])
      <4>1. CASE n = 0
        BY <4>1 DEF Counted
      <4>2. CASE n # 0
        <5>1. n - 1 \in 0 .. (m - 1) /\ n - 1 \in 0 .. m
          BY <2>1, <4>2
        <5>2. f[n - 1] = Counted(s, d, n - 1, f[(n - 1) - 1])
          BY <3>2, <5>1 DEF Counts
        <5>3. g[n - 1] = Counted(s, d, n - 1, f[(n - 1) - 1])
          BY <5>1
        <5>4. QED BY <5>2, <5>3
      <4>3. QED BY <4>1, <4>2
    <3>4. g = [n \in 0 .. m |-> Counted(s, d, n, g[n - 1])]
      BY <3>3
    <3>5. Counts(g, s, d, m)
      BY <3>4 DEF Counts
    <3>6. QED BY <2>1, <3>5
  <2>4. QED BY <2>2, <2>3
<1>3. QED BY <1>1, <1>2

LEMMA DayTotalsCount ==
  ASSUME NEW S, NEW s \in Seq(S), NEW d
  PROVE  \E f : Counts(f, s, d, Len(s)) /\ DayTotals(s, d) = f[Len(s)]
<1> DEFINE upto == CHOOSE f : f = [n \in 0 .. Len(s) |->
                IF n = 0 THEN NoTotals
                ELSE IF Day(s[n].at) = d THEN Plus(f[n - 1], Tally(<<s[n]>>)) ELSE f[n - 1]]
<1>1. DayTotals(s, d) = upto[Len(s)]
  BY DEF DayTotals
<1>a. Len(s) \in Nat
  OBVIOUS
<1>2. \E f : Counts(f, s, d, Len(s))
  BY ONLY <1>a, CountsExist
<1>3. \E f : f = [n \in 0 .. Len(s) |->
                IF n = 0 THEN NoTotals
                ELSE IF Day(s[n].at) = d THEN Plus(f[n - 1], Tally(<<s[n]>>)) ELSE f[n - 1]]
  BY <1>2 DEF Counts, Counted
<1>4. upto = [n \in 0 .. Len(s) |->
                IF n = 0 THEN NoTotals
                ELSE IF Day(s[n].at) = d THEN Plus(upto[n - 1], Tally(<<s[n]>>)) ELSE upto[n - 1]]
  BY <1>3
<1>5. Counts(upto, s, d, Len(s))
  BY <1>4 DEF Counts, Counted
<1>6. QED BY <1>1, <1>5

LEMMA DayTotalsOfNone == ASSUME NEW d PROVE DayTotals(<<>>, d) = NoTotals
<1>1. <<>> \in Seq({}) /\ Len(<<>>) = 0
  OBVIOUS
<1>2. PICK f : Counts(f, <<>>, d, 0) /\ DayTotals(<<>>, d) = f[0]
  BY <1>1, DayTotalsCount
<1>3. f[0] = NoTotals
  BY <1>2 DEF Counts, Counted
<1>4. QED BY <1>2, <1>3

LEMMA DayTotalsOfMore ==
  ASSUME NEW S, NEW s \in Seq(S), NEW e \in S, NEW d
  PROVE  DayTotals(Append(s, e), d) =
           IF Day(e.at) = d THEN Plus(DayTotals(s, d), Tally(<<e>>)) ELSE DayTotals(s, d)
<1> DEFINE t == Append(s, e)
           k == Len(s)
<1>1. t \in Seq(S) /\ k \in Nat /\ Len(t) = k + 1 /\ t[k + 1] = e /\ \A n \in 1 .. k : s[n] = t[n]
  OBVIOUS
<1>2. PICK f : Counts(f, s, d, k) /\ DayTotals(s, d) = f[k]
  BY DayTotalsCount
<1> HIDE DEF t, k
<1>3. PICK g : Counts(g, t, d, k + 1) /\ DayTotals(t, d) = g[k + 1]
  BY <1>1, DayTotalsCount
<1>4. f[k] = g[k]
  BY <1>1, <1>2, <1>3, CountsAlike
<1>5. g[k + 1] = Counted(t, d, k + 1, g[k])
  <2>1. k + 1 \in 0 .. k + 1 /\ (k + 1) - 1 = k
    BY <1>1
  <2>2. QED BY <1>3, <2>1 DEF Counts
<1>6. g[k + 1] = IF Day(e.at) = d THEN Plus(g[k], Tally(<<e>>)) ELSE g[k]
  BY <1>1, <1>5 DEF Counted
<1>7. QED BY <1>2, <1>3, <1>4, <1>6 DEF t

-----------------------------------------------------------------------------
(* Journal: days *)

LEMMA DaysGrow ==
  ASSUME NEW a \in Nat, NEW b \in Nat, a <= b
  PROVE  Day(a) \in Nat /\ Day(b) \in Nat /\ Day(a) <= Day(b)
<1> DEFINE H == HoursPerDay
           p == a \div H
           q == b \div H
<1>1. H \in Nat \ {0}
  BY JournalAssumption
<1>2. /\ p \in Nat /\ a = H * p + (a % H) /\ a % H \in 0 .. H - 1
      /\ q \in Nat /\ b = H * q + (b % H) /\ b % H \in 0 .. H - 1
  BY <1>1
<1> HIDE DEF p, q
<1>3. p <= q
  <2>1. CASE p > q
    <3>1. PICK k \in Nat : p = q + 1 + k
      <4>1. p - q - 1 \in Nat /\ p = q + 1 + (p - q - 1)
        BY <1>2, <2>1
      <4>2. QED BY <4>1
    <3>2. H * p = H * q + H + H * k /\ H * k \in Nat /\ H * q \in Nat
      BY <1>1, <1>2, <3>1
    <3>3. QED BY <1>1, <1>2, <3>2
  <2>2. QED BY <1>2, <2>1
<1>4. QED BY <1>2, <1>3 DEF Day, p, q, H

\* The day of a request that ends now is not too old to be kept.
LEMMA EndedIsKept ==
  ASSUME NEW now \in Nat, NEW at \in 0 .. now, now - at <= MaxDuration
  PROVE  ~(Day(at) < Day(now) - RetentionDays)
<1> DEFINE H == HoursPerDay
           p == at \div H
           q == now \div H
<1>1. H \in Nat \ {0} /\ RetentionDays \in Nat /\ MaxDuration \in Nat
      /\ MaxDuration <= RetentionDays * H
  BY JournalAssumption
<1>2. /\ p \in Nat /\ at = H * p + (at % H) /\ at % H \in 0 .. H - 1
      /\ q \in Nat /\ now = H * q + (now % H) /\ now % H \in 0 .. H - 1
  BY <1>1
<1> HIDE DEF p, q
<1>3. ~(p < q - RetentionDays)
  <2>1. CASE p < q - RetentionDays
    <3>1. PICK k \in Nat : q = p + RetentionDays + 1 + k
      <4>1. /\ q - p - RetentionDays - 1 \in Nat
            /\ q = p + RetentionDays + 1 + (q - p - RetentionDays - 1)
        BY <1>1, <1>2, <2>1
      <4>2. QED BY <4>1
    <3>2. /\ H * q = H * p + RetentionDays * H + H + H * k
          /\ H * k \in Nat /\ H * p \in Nat /\ RetentionDays * H \in Nat
      BY <1>1, <1>2, <3>1
    <3>3. QED BY <1>1, <1>2, <3>2
  <2>2. QED BY <2>1
<1>4. QED BY <1>3 DEF Day, p, q, H

-----------------------------------------------------------------------------
(* Journal: what stands for a log goes on standing for it *)

StandsAt(ring, days, s, now) ==
    /\ ring = LastOf(s, JournalCapacity)
    /\ \A d \in Days :
          \/ days[d] = DayTotals(s, d)
          \/ d < Day(now) - RetentionDays /\ days[d] = NoTotals

LEMMA RecordsStand ==
  ASSUME NEW ring, NEW days, NEW s \in Seq(JournalEntry), NEW now, NEW e \in JournalEntry,
         StandsAt(ring, days, s, now), days = [d \in Days |-> days[d]],
         ~(Day(e.at) < Day(now) - RetentionDays)
  PROVE  StandsAt(Append(IF Len(ring) >= JournalCapacity THEN Tail(ring) ELSE ring, e),
                  [days EXCEPT ![Day(e.at)] = Plus(@, Tally(<<e>>))], Append(s, e), now)
<1> DEFINE t == Append(s, e)
           grown == [days EXCEPT ![Day(e.at)] = Plus(@, Tally(<<e>>))]
<1>1. Append(IF Len(ring) >= JournalCapacity THEN Tail(ring) ELSE ring, e)
        = LastOf(t, JournalCapacity)
  <2>1. ring = LastOf(s, JournalCapacity) /\ JournalCapacity \in Nat \ {0}
    BY JournalAssumption DEF StandsAt
  <2> HIDE DEF grown
  <2>2. QED BY <2>1, LastOfMore DEF t
<1>2. ASSUME NEW d \in Days
      PROVE  \/ grown[d] = DayTotals(t, d)
             \/ d < Day(now) - RetentionDays /\ grown[d] = NoTotals
  <2>1. DayTotals(t, d) = IF Day(e.at) = d THEN Plus(DayTotals(s, d), Tally(<<e>>))
                                           ELSE DayTotals(s, d)
    BY DayTotalsOfMore
  <2>2. grown[d] = IF Day(e.at) = d THEN Plus(days[d], Tally(<<e>>)) ELSE days[d]
    OBVIOUS
  <2>3. days[d] = DayTotals(s, d) \/ (d < Day(now) - RetentionDays /\ days[d] = NoTotals)
    BY DEF StandsAt
  <2> HIDE DEF grown, t
  <2>4. QED BY <2>1, <2>2, <2>3
<1> HIDE DEF grown, t
<1>3. QED BY <1>1, <1>2 DEF StandsAt, grown, t

LEMMA PrunedStand ==
  ASSUME NEW ring, NEW days, NEW s, NEW now, StandsAt(ring, days, s, now)
  PROVE  StandsAt(ring, PruneRetention(days, now), s, now)
BY DEF StandsAt, PruneRetention

LEMMA LaterStand ==
  ASSUME NEW ring, NEW days, NEW s, NEW now \in Nat, NEW later \in Nat, now <= later,
         StandsAt(ring, days, s, now)
  PROVE  StandsAt(ring, days, s, later)
<1>1. Day(now) \in Nat /\ Day(later) \in Nat /\ Day(now) <= Day(later) /\ RetentionDays \in Nat
  BY DaysGrow, JournalAssumption
<1>2. Days \subseteq Int
  BY DEF Days
<1>3. ASSUME NEW d \in Days, d < Day(now) - RetentionDays PROVE d < Day(later) - RetentionDays
  BY <1>1, <1>2, <1>3
<1>4. QED BY <1>3 DEF StandsAt

LEMMA LoadedStand ==
  ASSUME NEW ring, NEW days, NEW s \in Seq(JournalEntry), NEW now, StandsAt(ring, days, s, now)
  PROVE  StandsAt(LastOf(ring, JournalCapacity), PruneRetention(days, now), s, now)
<1>1. LastOf(ring, JournalCapacity) = ring
  BY LastOfAll, JournalAssumption DEF StandsAt
<1>2. QED BY <1>1, PrunedStand

-----------------------------------------------------------------------------
(* Journal: the invariant *)

LogOK ==
    /\ hours \in 0 .. MaxHours
    /\ log \in Seq(JournalEntry)
    /\ logged \in [snap : Nat, file : Nat]
    /\ byDay = [d \in Days |-> byDay[d]]

MemoryStands == StandsAt(entries, byDay, log, hours)

FileStands ==
    /\ logged.file <= Len(log)
    /\ StandsAt(jfile.entries, jfile.byDay, SubSeq(log, 1, logged.file), hours)

\* A snapshot on its way to the file is what memory was when it was taken.
SnapStands ==
    jflush = "write" =>
        /\ logged.snap <= Len(log)
        /\ StandsAt(jsnap.entries, jsnap.byDay, SubSeq(log, 1, logged.snap), hours)

LogInv == LogOK /\ MemoryStands /\ FileStands /\ SnapStands

LEMMA LogInitially == JournalInit => LogInv
<1> SUFFICES ASSUME JournalInit PROVE LogInv
  OBVIOUS
<1>1. LogOK
  BY JournalAssumption DEF JournalInit, LogOK, EmptyJournal
<1>2. LastOf(<<>>, JournalCapacity) = <<>>
  BY JournalAssumption DEF LastOf
<1>3. StandsAt(<<>>, [d \in Days |-> NoTotals], <<>>, hours)
  BY <1>2, DayTotalsOfNone DEF StandsAt
<1>4. MemoryStands
  BY <1>3 DEF MemoryStands, JournalInit, EmptyJournal
<1>5. SubSeq(<<>>, 1, 0) = <<>> /\ Len(<<>>) = 0
  OBVIOUS
<1>6. FileStands
  <2>1. /\ logged.file = 0 /\ log = <<>> /\ jfile.entries = <<>>
        /\ jfile.byDay = [d \in Days |-> NoTotals]
    BY DEF JournalInit, EmptyJournal
  <2>2. logged.file <= Len(log) /\ SubSeq(log, 1, logged.file) = <<>>
    BY <1>5, <2>1
  <2>3. QED BY <1>3, <2>1, <2>2 DEF FileStands
<1>7. SnapStands
  BY DEF SnapStands, JournalInit
<1>8. QED BY <1>1, <1>4, <1>6, <1>7 DEF LogInv

\* What has been saved of a log is saved of a longer one.
LEMMA LogRecorded == LogInv /\ RecordChat => LogInv'
<1> SUFFICES ASSUME LogInv, RecordChat PROVE LogInv'
  OBVIOUS
<1>1. PICK u \in Usages, at \in 0 .. hours :
        /\ hours - at <= MaxDuration
        /\ Record([at |-> at, account |-> u.account, model |-> u.model,
                   ok |-> u.ok, tokens |-> u.tokens])
  BY DEF RecordChat
<1>2. PICK e : e = [at |-> at, account |-> u.account, model |-> u.model,
                    ok |-> u.ok, tokens |-> u.tokens]
  OBVIOUS
<1>3. Record(e)
  BY <1>1, <1>2
<1>4. hours \in 0 .. MaxHours /\ hours \in Nat /\ MaxHours \in Nat /\ at \in 0 .. MaxHours
  BY JournalAssumption DEF LogInv, LogOK
<1>5. e \in JournalEntry /\ e.at = at
  BY <1>2, <1>4, JournalAssumption DEF JournalEntry
<1>6. ~(Day(e.at) < Day(hours) - RetentionDays)
  BY <1>1, <1>4, <1>5, EndedIsKept
<1>7. /\ entries' = Append(IF Len(entries) >= JournalCapacity THEN Tail(entries) ELSE entries, e)
      /\ byDay' = [byDay EXCEPT ![Day(e.at)] = Plus(@, Tally(<<e>>))]
      /\ log' = Append(log, e)
  BY <1>3 DEF Record
<1>8. UNCHANGED <<hours, logged, jfile, jsnap, jflush>>
  BY DEF RecordChat, flushVars
<1>9. /\ log \in Seq(JournalEntry) /\ byDay = [d \in Days |-> byDay[d]]
      /\ logged.file \in Nat /\ logged.snap \in Nat
  BY DEF LogInv, LogOK
<1>10. log' \in Seq(JournalEntry) /\ Len(log') = Len(log) + 1 /\ Len(log) \in Nat
  BY <1>5, <1>7, <1>9
<1>11. LogOK'
  <2>1. byDay' = [d \in Days |-> byDay'[d]]
    BY <1>7, <1>9
  <2>2. QED BY <1>8, <1>10, <2>1 DEF LogInv, LogOK
<1>12. MemoryStands'
  BY <1>5, <1>6, <1>7, <1>8, <1>9, RecordsStand DEF LogInv, MemoryStands
<1>13. ASSUME NEW k \in Nat, k <= Len(log)
       PROVE  k <= Len(log') /\ SubSeq(log', 1, k) = SubSeq(log, 1, k)
  <2>1. k \in 0 .. Len(log)
    BY <1>10, <1>13
  <2>2. QED BY <1>5, <1>7, <1>9, <1>10, <1>13, <2>1, FirstOnes
<1>14. FileStands'
  BY <1>8, <1>9, <1>13 DEF LogInv, FileStands
<1>15. SnapStands'
  BY <1>8, <1>9, <1>13 DEF LogInv, SnapStands
<1>16. QED BY <1>11, <1>12, <1>14, <1>15 DEF LogInv

LEMMA LogFlushed == LogInv /\ JournalFlush => LogInv'
<1> SUFFICES ASSUME LogInv, JournalFlush PROVE LogInv'
  OBVIOUS
<1>1. /\ log \in Seq(JournalEntry) /\ logged \in [snap : Nat, file : Nat]
      /\ Len(log) \in Nat /\ SubSeq(log, 1, Len(log)) = log
  <2>1. log \in Seq(JournalEntry) /\ logged \in [snap : Nat, file : Nat]
    BY DEF LogInv, LogOK
  <2>2. Len(log) \in Nat /\ 0 \in 0 .. Len(log)
    BY <2>1
  <2>3. QED BY <2>1, <2>2, FirstOnes
<1>2. CASE FlushTakes
  <2>1. /\ UNCHANGED <<hours, entries, log, jfile>>
        /\ byDay' = PruneRetention(byDay, hours)
        /\ jsnap' = [entries |-> entries, byDay |-> byDay']
        /\ logged' = [logged EXCEPT !.snap = Len(log)]
    BY <1>2 DEF FlushTakes, JournalFlushRest
  <2>2. /\ logged' \in [snap : Nat, file : Nat]
        /\ logged'.snap = Len(log) /\ logged'.file = logged.file
    BY <1>1, <2>1
  <2>3. LogOK'
    <3>1. byDay' = [d \in Days |-> byDay'[d]]
      BY <2>1 DEF PruneRetention
    <3>2. QED BY <2>1, <2>2, <3>1 DEF LogInv, LogOK
  <2>4. MemoryStands'
    BY <2>1, PrunedStand DEF LogInv, MemoryStands
  <2>5. FileStands'
    BY <2>1, <2>2 DEF LogInv, FileStands
  <2>6. SnapStands'
    <3>1. jsnap'.entries = entries' /\ jsnap'.byDay = byDay'
      BY <2>1
    <3>2. logged'.snap <= Len(log') /\ SubSeq(log', 1, logged'.snap) = log'
      BY <1>1, <2>1, <2>2
    <3>3. QED BY <2>4, <3>1, <3>2 DEF MemoryStands, SnapStands
  <2>7. QED BY <2>3, <2>4, <2>5, <2>6 DEF LogInv
<1>3. CASE FlushWrites
  <2>1. /\ UNCHANGED <<hours, contentVars>>
        /\ jflush = "write" /\ jflush' = "idle" /\ jfile' = jsnap
        /\ logged' = [logged EXCEPT !.file = logged.snap]
    BY <1>3 DEF FlushWrites, JournalFlushRest
  <2>2. logged' \in [snap : Nat, file : Nat] /\ logged'.file = logged.snap
    BY <1>1, <2>1
  <2>3. LogOK' /\ MemoryStands'
    BY <2>1, <2>2 DEF LogInv, LogOK, MemoryStands, contentVars
  <2>4. FileStands'
    BY <2>1, <2>2 DEF LogInv, SnapStands, FileStands, contentVars
  <2>5. SnapStands'
    BY <2>1 DEF SnapStands
  <2>6. QED BY <2>3, <2>4, <2>5 DEF LogInv
<1>4. CASE FlushFindsClean \/ FlushFails
  <2>1. UNCHANGED <<hours, contentVars, jfile, logged>> /\ jflush' = "idle"
    BY <1>4 DEF FlushFindsClean, FlushFails, JournalFlushRest
  <2>2. QED
    BY <2>1 DEF LogInv, LogOK, MemoryStands, FileStands, SnapStands, contentVars
<1>5. QED BY <1>2, <1>3, <1>4 DEF JournalFlush

\* A flush that begins has no snapshot yet.
LEMMA LogLooped == LogInv /\ (JournalLoop \/ JournalClosing) => LogInv'
<1> SUFFICES ASSUME LogInv, JournalLoop \/ JournalClosing PROVE LogInv'
  OBVIOUS
<1>1. UNCHANGED <<hours, contentVars, jsnap, jfile, logged>> /\ jflush' \in {jflush, "begin"}
  BY DEF JournalLoop, JournalClosing, JournalWake, JournalTimer, JournalStop, JournalFlushed,
         JournalClose, JournalCloseFlush, JournalCloseDone, JournalRest
<1>2. jflush' = "write" => jflush = "write"
  BY <1>1
<1>3. QED
  BY <1>1, <1>2 DEF LogInv, LogOK, MemoryStands, FileStands, SnapStands, contentVars

LEMMA LogGetsOlder == LogInv /\ HourPasses => LogInv'
<1> SUFFICES ASSUME LogInv, HourPasses PROVE LogInv'
  OBVIOUS
<1>1. hours < MaxHours /\ hours' = hours + 1 /\ UNCHANGED <<contentVars, flushVars>>
  BY DEF HourPasses
<1>2. hours \in Nat /\ hours' \in Nat /\ hours' \in 0 .. MaxHours /\ hours <= hours'
  BY <1>1, JournalAssumption DEF LogInv, LogOK
<1>3. LogOK'
  BY <1>1, <1>2 DEF LogInv, LogOK, contentVars, flushVars
<1>4. ASSUME NEW ring, NEW days, NEW s, StandsAt(ring, days, s, hours)
      PROVE  StandsAt(ring, days, s, hours')
  BY <1>2, <1>4, LaterStand
<1>5. MemoryStands' /\ FileStands' /\ SnapStands'
  BY <1>1, <1>4 DEF LogInv, MemoryStands, FileStands, SnapStands, contentVars, flushVars
<1>6. QED BY <1>3, <1>5 DEF LogInv

LEMMA LogReadBack == LogInv /\ JournalRestart => LogInv'
<1> SUFFICES ASSUME LogInv, JournalRestart PROVE LogInv'
  OBVIOUS
<1>1. /\ entries' = LastOf(jfile.entries, JournalCapacity)
      /\ byDay' = PruneRetention(jfile.byDay, hours)
      /\ log' = SubSeq(log, 1, logged.file)
      /\ logged' = [logged EXCEPT !.snap = 0]
      /\ jflush' = "idle" /\ UNCHANGED <<hours, jfile>>
  BY DEF JournalRestart, Load
<1>2. /\ log \in Seq(JournalEntry) /\ logged \in [snap : Nat, file : Nat]
      /\ logged.file \in 0 .. Len(log)
  BY DEF LogInv, LogOK, FileStands
<1>3. logged' \in [snap : Nat, file : Nat] /\ logged'.file = logged.file
  BY <1>1, <1>2
<1>4. /\ log' \in Seq(JournalEntry) /\ Len(log') = logged.file
      /\ SubSeq(log', 1, logged.file) = log'
  BY <1>1, <1>2, FirstOnes
<1>5. StandsAt(jfile.entries, jfile.byDay, log', hours)
  BY <1>1 DEF LogInv, FileStands
<1>6. LogOK'
  <2>1. byDay' = [d \in Days |-> byDay'[d]]
    BY <1>1 DEF PruneRetention
  <2>2. QED BY <1>1, <1>3, <1>4, <2>1 DEF LogInv, LogOK
<1>7. MemoryStands'
  BY <1>1, <1>4, <1>5, LoadedStand DEF MemoryStands
<1>8. FileStands'
  <2>1. logged'.file <= Len(log') /\ SubSeq(log', 1, logged'.file) = log'
    BY <1>2, <1>3, <1>4
  <2>2. QED BY <1>1, <1>5, <2>1 DEF FileStands
<1>9. SnapStands'
  BY <1>1 DEF SnapStands
<1>10. QED BY <1>6, <1>7, <1>8, <1>9 DEF LogInv

LEMMA LogKept == JournalSpec => []LogInv
<1>1. LogInv /\ [JournalNext]_journalVars => LogInv'
  <2> SUFFICES ASSUME LogInv, [JournalNext]_journalVars PROVE LogInv'
    OBVIOUS
  <2>1. CASE UNCHANGED journalVars
    BY <2>1 DEF LogInv, LogOK, MemoryStands, FileStands, SnapStands, journalVars, contentVars,
                flushVars
  <2>2. QED
    BY <2>1, LogRecorded, LogFlushed, LogLooped, LogGetsOlder, LogReadBack DEF JournalNext
<1>2. QED BY <1>1, LogInitially, PTL DEF JournalSpec

\* Whatever dies, fails or grows old, the ring and the totals in memory are those
\* of the records that memory stands for, each counted once, and the file's are
\* those of the first of them (journal.go Record; persist.go load, Flush).
THEOREM TheJournalKeepsItsLog == JournalSpec => []JournalKeepsItsLog
<1>1. LogInv => JournalKeepsItsLog
  BY DEF LogInv, LogOK, MemoryStands, FileStands, JournalKeepsItsLog, StandsFor, StandsAt
<1>2. QED BY <1>1, LogKept, PTL
=============================================================================
