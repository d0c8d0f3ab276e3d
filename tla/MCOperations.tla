----------------------------- MODULE MCOperations -----------------------------
(***************************************************************************)
(* Instance of what surrounds the requests: Credentials, Settings, CheckIn,*)
(* SessionTables, the way in and out with Admission, SearchRound, Egress   *)
(* and Proxies, and the observers Tracker and Watch.  They share no state, *)
(* so a behaviour runs one of them, and CheckIn in two halves: the rounds  *)
(* of the runner under changes and restarts, and a batch beside the rounds *)
(* of rules that are set once.                                             *)
(***************************************************************************)
EXTENDS Credentials, Settings, CheckIn, SessionTables,
        Admission, SearchRound, Egress, Proxies, Tracker, Watch

CONSTANTS Parts, a1, a2

\* The program's own defaults.
MCDefaultRouting == [site |-> "global", product |-> "cli"]

\* A fixed time, and a window; midnight is after minute 1.
MCWindows == {[start |-> 1, end |-> 1], [start |-> 0, end |-> 1]}

\* The accounts draw differently, and differently again the next day.
MCDraw == [day \in 0 .. 2 |-> [member \in {a1, a2} |-> IF member = a1 THEN day ELSE day + 1]]

\* A good request, one without its reasoning, one that failed, a slow one.
MCSamples == {[ok |-> TRUE, asked |-> TRUE, reasoned |-> TRUE, ms |-> 1],
              [ok |-> TRUE, asked |-> TRUE, reasoned |-> FALSE, ms |-> 1],
              [ok |-> FALSE, asked |-> TRUE, reasoned |-> FALSE, ms |-> 0],
              [ok |-> TRUE, asked |-> TRUE, reasoned |-> TRUE, ms |-> 4]}

\* Where the parts that start in many ways stand while another part runs.
PlainExit == [user |-> FALSE, remoteDNS |-> TRUE]
Hears == CHOOSE heard \in Answers : TRUE
AtTheGate == <<[required |-> FALSE, active |-> "global", list |-> <<>>],
               [a \in PoolAccounts |-> [site |-> "global", usable |-> TRUE]],
               CHOOSE arrived \in Arrivals : TRUE>>

VARIABLE part

ownVars == <<credentialVars, settingsVars, checkInVars, tableVars>>
wayVars == <<admissionVars, searchVars, egressVars, exitVars>>
observerVars == <<trackerVars, watchVars>>
operationsVars == <<part, ownVars, wayVars, observerVars>>

OperationsInit ==
    /\ part \in Parts
    /\ CredentialsInit /\ SettingsInit /\ CheckInInit /\ TablesInit
    /\ SearchInit /\ (part # "search" => ask = [tools |-> {}, choice |-> "auto", bound |-> Unbound])
    /\ EgressInit /\ (part # "egress" => exit = PlainExit /\ answer = Hears)
    /\ AdmissionInit /\ (part # "admission" => <<gate, pooled, request>> = AtTheGate)
    /\ ExitsInit
    /\ TrackerInit /\ WatchInit
    /\ part # "settings" => outer["key"] = Unset

Observing ==
    \/ part = "tracker" /\ TrackerNext /\ UNCHANGED watchVars
    \/ part = "watch" /\ WatchNext /\ UNCHANGED trackerVars

CheckingIn ==
    /\ part \in {"rounds", "batch"}
    /\ CheckInNext
    /\ \/ part = "rounds" /\ batch' = batch
       \/ /\ part = "batch"
          /\ <<auto, usable, starts>>' = <<auto, usable, starts>>
          /\ plan' \in {plan, [member \in Members |-> [start |-> 1, end |-> 1]]}
          /\ instant' <= 2

\* The two tables of a session have nothing in common but the clock.
Remembering ==
    /\ part \in {"pins", "conversations"}
    /\ TablesNext
    /\ \/ part = "pins" /\ convTable' = convTable
       \/ part = "conversations" /\ pinTable' = pinTable

\* The way of a request in and out.
Passing ==
    \/ part = "admission" /\ AdmissionNext /\ UNCHANGED <<searchVars, egressVars, exitVars>>
    \/ part = "search" /\ SearchNext /\ UNCHANGED <<admissionVars, egressVars, exitVars>>
    \/ part = "egress" /\ EgressNext /\ UNCHANGED <<admissionVars, searchVars, exitVars>>
    \/ part = "exits" /\ ExitsNext /\ UNCHANGED <<admissionVars, searchVars, egressVars>>

Operating ==
    \/ part = "renew" /\ CredentialsNext /\ UNCHANGED <<settingsVars, checkInVars, tableVars>>
    \/ part = "settings" /\ SettingsNext /\ UNCHANGED <<credentialVars, checkInVars, tableVars>>
    \/ CheckingIn /\ UNCHANGED <<credentialVars, settingsVars, tableVars>>
    \/ Remembering /\ UNCHANGED <<credentialVars, settingsVars, checkInVars>>

OperationsNext ==
    /\ UNCHANGED part
    /\ \/ Operating /\ UNCHANGED <<wayVars, observerVars>>
       \/ Passing /\ UNCHANGED <<ownVars, observerVars>>
       \/ Observing /\ UNCHANGED <<ownVars, wayVars>>

OperationsSpec == OperationsInit /\ [][OperationsNext]_operationsVars
=============================================================================
