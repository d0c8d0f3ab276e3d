------------------------------ MODULE MCService ------------------------------
(***************************************************************************)
(* Instance of SelfUpdate, Credentials, ModelLists and UsageJournal: what  *)
(* must come to an end.  They share no state, so a behaviour runs one of   *)
(* them.  Of Credentials it runs the logins: the renewals are              *)
(* MCOperations'.                                                          *)
(***************************************************************************)
EXTENDS SelfUpdate, Credentials, ModelLists, UsageJournal

CONSTANTS a1, m1, m2

\* A request that went well and one that failed, each on a model of its own.
MCUsages == {[account |-> a1, model |-> m1, ok |-> TRUE, tokens |-> 2],
             [account |-> a1, model |-> m2, ok |-> FALSE, tokens |-> 0]}

VARIABLE part

serviceVars == <<part, vars, credentialVars, modelVars, journalVars>>

ServiceInit ==
    /\ part \in {"update", "login", "models", "journal"}
    /\ Init /\ CredentialsInit /\ ModelsInit /\ JournalInit

\* The journal is closed in its first hour or not at all.
Journaling ==
    /\ part = "journal"
    /\ JournalNext
    /\ hours > 0 => jclose' \in {jclose, "open"}

ServiceNext ==
    /\ UNCHANGED part
    /\ \/ part = "update" /\ Next /\ UNCHANGED <<credentialVars, modelVars, journalVars>>
       \/ part = "login" /\ CredentialsNext /\ renew' = renew
          /\ UNCHANGED <<vars, modelVars, journalVars>>
       \/ part = "models" /\ ModelsNext /\ UNCHANGED <<vars, credentialVars, journalVars>>
       \/ Journaling /\ UNCHANGED <<vars, credentialVars, modelVars>>

\* At their beginning none of the parts has a fair step to take, so a part that
\* does not run owes nothing.
ServiceSpec ==
    /\ ServiceInit /\ [][ServiceNext]_serviceVars
    /\ UpdateFairness /\ CredentialsFairness /\ ModelsFairness /\ JournalFairness

\* What handlers begin ends: login sessions leave "starting", listings return.
HandlersReturn == StartingEnds /\ ListingsReturn
=============================================================================
