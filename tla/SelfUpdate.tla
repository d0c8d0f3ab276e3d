------------------------------ MODULE SelfUpdate ------------------------------
(***************************************************************************)
(* One update of the program by itself (internal/update, cmd main.go).     *)
(*                                                                         *)
(* Four parties take part: the update Manager, driven by handlers of the   *)
(* admin page and by a download goroutine; the main loop, which drains the *)
(* server and leaves; the helper, a copy of the program which replaces the *)
(* executable once the old process is gone; and the service processes the  *)
(* helper starts, which write the ready file once they listen.             *)
(***************************************************************************)
EXTENDS Naturals

CONSTANT
    MaxFaults  \* bound: operations of the system that fail

ASSUME FaultsAreNat == MaxFaults \in Nat

VARIABLES
    busy,      \* Manager.busy
    phase,     \* Manager.state.Phase
    available, \* Manager.state.Available
    cancel,    \* Manager.cancel is set
    ctxDone,   \* the context of the download is cancelled or timed out
    checking,  \* where Check is
    download,  \* where the goroutine of Start is
    requests,  \* the staged path is in the channel
    main,      \* where the main loop is
    pipe,      \* what the helper was told through its standard input
    helper,    \* where the helper is
    purpose,   \* which service the helper is starting
    file,      \* what the files hold: the executable, its backup, the stage
    ready,     \* the ready file is not empty
    launch,    \* services the helper started
    service,   \* what they do
    faults,    \* failed operations so far
    promised,  \* history: this download was cancelled, and Cancel said so
    drained    \* history: how Shutdown ended

mgrVars == <<busy, phase, available, cancel, ctxDone, checking, download, requests, promised>>
mainVars == <<main, pipe, drained>>
helperVars == <<helper, purpose, launch>>
vars == <<mgrVars, mainVars, helperVars, file, ready, service, faults>>

Launches == 1..2

-----------------------------------------------------------------------------
(* Helpers *)

Fault == faults < MaxFaults /\ faults' = faults + 1

\* begin(phase), under Manager.mu
BeginOp(p) == ~busy /\ busy' = TRUE /\ phase' = p

\* finish(err)
FinishOp(failed) ==
    /\ busy' = FALSE
    /\ cancel' = FALSE
    /\ phase' = IF failed THEN "error" ELSE "idle"

\* os.Rename: all or nothing.
Rename(from, to) == file' = [file EXCEPT ![to] = file[from], ![from] = "none"]

Alive(s) == service[s] \in {"starting", "listening"}
Serving == \E s \in Launches : service[s] = "listening"

\* The program a service is started from; nobody replaces it while the service
\* is waited for.
Program == file["exe"]

-----------------------------------------------------------------------------
(* The Manager *)

\* Check asks for the newest release ...
CheckStart ==
    /\ main # "gone" /\ checking = "none"
    /\ BeginOp("checking")
    /\ checking' = "asking"
    /\ UNCHANGED <<available, cancel, ctxDone, download, requests, promised,
                   mainVars, helperVars, file, ready, service, faults>>

\* ... stores what it found under the mutex ...
CheckAnswered ==
    /\ main # "gone" /\ checking = "asking"
    /\ \/ checking' = "found" /\ available' \in BOOLEAN
       \/ checking' = "failed" /\ available' = FALSE
    /\ UNCHANGED <<busy, phase, cancel, ctxDone, download, requests, promised,
                   mainVars, helperVars, file, ready, service, faults>>

\* ... and finishes under it again.
CheckFinish ==
    /\ main # "gone" /\ checking \in {"found", "failed"}
    /\ FinishOp(checking = "failed")
    /\ checking' = "none"
    /\ UNCHANGED <<available, ctxDone, download, requests, promised,
                   mainVars, helperVars, file, ready, service, faults>>

\* Start: only what a check has found.
Start ==
    /\ main # "gone" /\ download = "none"
    /\ available
    /\ BeginOp("downloading")
    /\ cancel' = TRUE /\ ctxDone' = FALSE
    /\ download' = "staging"
    /\ file' = [file EXCEPT !["stage"] = "empty"]
    /\ promised' = FALSE
    /\ UNCHANGED <<available, checking, requests, mainVars, helperVars, ready, service, faults>>

\* Cancel answers nil as long as there is something to cancel.
Cancel ==
    /\ main # "gone" /\ cancel
    /\ ctxDone' = TRUE
    /\ promised' = TRUE
    /\ UNCHANGED <<busy, phase, available, cancel, checking, download, requests,
                   mainVars, helperVars, file, ready, service, faults>>

\* Three minutes have passed.
DownloadTimeout ==
    /\ main # "gone" /\ download # "none" /\ ~ctxDone
    /\ ctxDone' = TRUE
    /\ UNCHANGED <<busy, phase, available, cancel, checking, download, requests, promised,
                   mainVars, helperVars, file, ready, service, faults>>

\* stage: size and SHA256 match, the file is closed.  The last bytes may arrive
\* before a cancellation is noticed.
Staged ==
    /\ main # "gone" /\ download = "staging"
    /\ download' = "staged"
    /\ file' = [file EXCEPT !["stage"] = "new"]
    /\ UNCHANGED <<busy, phase, available, cancel, ctxDone, checking, requests, promised,
                   mainVars, helperVars, ready, service, faults>>

\* stage failed, for any reason: the file is removed.
StageFails ==
    /\ main # "gone" /\ download = "staging"
    /\ download' = "none"
    /\ file' = [file EXCEPT !["stage"] = "none"]
    /\ FinishOp(TRUE)
    /\ UNCHANGED <<available, ctxDone, checking, requests, promised,
                   mainVars, helperVars, ready, service, faults>>

\* Mutant: the context is not looked at again.
HandOverUnchecked ==
    /\ main # "gone" /\ download = "staged"
    /\ ~requests
    /\ cancel' = FALSE /\ phase' = "restarting" /\ requests' = TRUE
    /\ download' = "none"
    /\ UNCHANGED <<busy, available, ctxDone, checking, promised,
                   mainVars, helperVars, file, ready, service, faults>>

\* Under the mutex, which Cancel takes as well: hand the staged file over to the
\* main loop, unless the context is done.
HandOver ==
    /\ main # "gone" /\ download = "staged"
    /\ ~ctxDone
    /\ ~requests
    /\ cancel' = FALSE /\ phase' = "restarting" /\ requests' = TRUE
    /\ download' = "none"
    /\ UNCHANGED <<busy, available, ctxDone, checking, promised,
                   mainVars, helperVars, file, ready, service, faults>>

GiveUp ==
    /\ main # "gone" /\ download = "staged"
    /\ ctxDone
    /\ download' = "none"
    /\ file' = [file EXCEPT !["stage"] = "none"]
    /\ FinishOp(TRUE)
    /\ UNCHANGED <<available, ctxDone, checking, requests, promised,
                   mainVars, helperVars, ready, service, faults>>

-----------------------------------------------------------------------------
(* The main loop *)

MainReceives ==
    /\ main = "serving"
    /\ requests /\ requests' = FALSE
    /\ main' = "preparing"
    /\ UNCHANGED <<busy, phase, available, cancel, ctxDone, checking, download, promised,
                   pipe, drained, helperVars, file, ready, service, faults>>

\* Prepare started the helper; Shutdown begins, and closes the listener.
Prepared ==
    /\ main = "preparing"
    /\ main' = "draining"
    /\ helper' = "gate"
    /\ UNCHANGED <<mgrVars, pipe, drained, purpose, launch, file, ready, service, faults>>

\* Mutant: the failure is logged, but the manager is not told.
PrepareFailsSilently ==
    /\ main = "preparing" /\ Fault
    /\ main' = "serving"
    /\ file' = [file EXCEPT !["stage"] = "none"]
    /\ UNCHANGED <<mgrVars, pipe, drained, helperVars, ready, service>>

\* Prepare failed: the service goes on, and an administrator may try again.
PrepareFails ==
    /\ main = "preparing" /\ Fault
    /\ main' = "serving"
    /\ file' = [file EXCEPT !["stage"] = "none"]
    /\ FinishOp(TRUE)
    /\ UNCHANGED <<available, ctxDone, checking, download, requests, promised,
                   pipe, drained, helperVars, ready, service>>

\* Shutdown returns: all requests are done, or thirty seconds have passed.
Drained ==
    /\ main = "draining"
    /\ drained' \in {"yes", "no"}
    /\ main' = "telling"
    /\ UNCHANGED <<mgrVars, pipe, helperVars, file, ready, service, faults>>

\* finishUpdate: Commit, or RestartOriginal.
Tell ==
    /\ main = "telling" /\ helper = "gate"
    /\ pipe' = IF drained = "yes" THEN "install" ELSE "restart"
    /\ main' = "leaving"
    /\ UNCHANGED <<mgrVars, drained, helperVars, file, ready, service, faults>>

\* The helper does not answer any more: Abort kills it, and the process exits.
TellFails ==
    /\ main = "telling"
    /\ IF helper = "gate" THEN Fault ELSE UNCHANGED faults
    /\ helper' = "dead"
    /\ file' = [file EXCEPT !["stage"] = "none"]
    /\ main' = "gone"
    /\ UNCHANGED <<mgrVars, pipe, drained, purpose, launch, ready, service>>

\* main returns, and the process exits.
Exit ==
    /\ main = "leaving"
    /\ main' = "gone"
    /\ UNCHANGED <<mgrVars, pipe, drained, helperVars, file, ready, service, faults>>

\* The process dies in the middle of the handoff.
Crash ==
    /\ main \in {"preparing", "draining", "telling"} /\ Fault
    /\ main' = "gone"
    /\ UNCHANGED <<mgrVars, pipe, drained, helperVars, file, ready, service>>

\* SIGINT, SIGTERM, or the listener failed.
Stopped ==
    /\ main = "serving"
    /\ main' = "gone"
    /\ UNCHANGED <<mgrVars, pipe, drained, helperVars, file, ready, service, faults>>

-----------------------------------------------------------------------------
(* The helper *)

\* Mutant: the backup is cleaned up as well.
QuitDropsBackup ==
    helper' = "done" /\ file' = [file EXCEPT !["stage"] = "none", !["backup"] = "none"]

\* runHelper returns; the stage is removed once the old process is known to be gone.
Quit == helper' = "done" /\ file' = [file EXCEPT !["stage"] = "none"]

StartFor(p) == helper' = "launch" /\ purpose' = p

RestOfHelper == <<mgrVars, mainVars, ready, launch, service>>

\* The permission has arrived.
GateOpens ==
    /\ helper = "gate" /\ pipe # "none"
    /\ helper' = "waiting"
    /\ UNCHANGED <<RestOfHelper, purpose, file, faults>>

\* End of file instead of a permission.
GateCloses ==
    /\ helper = "gate" /\ pipe = "none" /\ main = "gone"
    /\ helper' = "done"
    /\ UNCHANGED <<RestOfHelper, purpose, file, faults>>

\* waitParent
ParentGone ==
    /\ helper = "waiting" /\ main = "gone"
    /\ helper' = "preparing"
    /\ UNCHANGED <<RestOfHelper, purpose, file, faults>>

\* The old process does not go away.
WaitTimeout ==
    /\ helper = "waiting" /\ main # "gone" /\ Fault
    /\ helper' = "done"
    /\ UNCHANGED <<RestOfHelper, purpose, file>>

\* The log, the placeholders of the backup and the ready file are there.
FilesReserved ==
    /\ helper = "preparing"
    /\ \/ pipe = "restart" /\ StartFor("restart")
       \/ pipe = "install" /\ helper' = "moving" /\ UNCHANGED purpose
    /\ UNCHANGED <<RestOfHelper, file, faults>>

ReserveFails ==
    /\ helper = "preparing" /\ Fault
    /\ Quit
    /\ UNCHANGED <<RestOfHelper, purpose>>

\* replace: the executable is moved to the backup, ...
MoveAside ==
    /\ helper = "moving"
    /\ Rename("exe", "backup")
    /\ helper' = "swapping"
    /\ UNCHANGED <<RestOfHelper, purpose, faults>>

MoveAsideFails ==
    /\ helper = "moving" /\ Fault
    /\ StartFor("again")
    /\ UNCHANGED <<RestOfHelper, file>>

\* ... the staged file takes its place, ...
Swap ==
    /\ helper = "swapping"
    /\ Rename("stage", "exe")
    /\ StartFor("install")
    /\ UNCHANGED <<RestOfHelper, faults>>

SwapFails ==
    /\ helper = "swapping" /\ Fault
    /\ helper' = "restoring"
    /\ UNCHANGED <<RestOfHelper, purpose, file>>

\* ... or the backup goes back, if it can.  The service is started either way.
Restore ==
    /\ helper = "restoring"
    /\ Rename("backup", "exe")
    /\ StartFor("again")
    /\ UNCHANGED <<RestOfHelper, faults>>

RestoreFails ==
    /\ helper = "restoring" /\ Fault
    /\ StartFor("again")
    /\ UNCHANGED <<RestOfHelper, file>>

\* Mutant: the ready file keeps what an earlier service wrote.
LaunchKeepsReady ==
    /\ helper = "launch" /\ file["exe"] # "none"
    /\ launch' = launch + 1
    /\ service' = [service EXCEPT ![launch + 1] = "starting"]
    /\ helper' = "await"
    /\ UNCHANGED <<mgrVars, mainVars, purpose, ready, file, faults>>

\* launchReady: empty the ready file and start the program.
Launch ==
    /\ helper = "launch" /\ file["exe"] # "none"
    /\ ready' = FALSE
    /\ launch' = launch + 1
    /\ service' = [service EXCEPT ![launch + 1] = "starting"]
    /\ helper' = "await"
    /\ UNCHANGED <<mgrVars, mainVars, purpose, file, faults>>

\* Mutant: a new version that does not start is left in place.
NotStartedGivesUp == Quit

\* No service runs: a new version is rolled back.
NotStarted ==
    IF purpose = "install" THEN helper' = "removing" /\ UNCHANGED file ELSE Quit

LaunchFails ==
    /\ helper = "launch"
    /\ IF file["exe"] # "none" THEN Fault ELSE UNCHANGED faults
    /\ NotStarted
    /\ UNCHANGED <<RestOfHelper, purpose>>

SeesReady ==
    /\ helper = "await" /\ ready
    /\ Quit
    /\ UNCHANGED <<RestOfHelper, purpose, faults>>

SeesExit ==
    /\ helper = "await" /\ service[launch] = "dead"
    /\ NotStarted
    /\ UNCHANGED <<RestOfHelper, purpose, faults>>

\* Twenty seconds are over: kill the service and wait for its end.  The original
\* program is ready by then unless something is wrong.
KillsLate ==
    /\ helper = "await" /\ Alive(launch)
    /\ IF Program = "old" THEN Fault ELSE UNCHANGED faults
    /\ service' = [service EXCEPT ![launch] = "dead"]
    /\ NotStarted
    /\ UNCHANGED <<mgrVars, mainVars, ready, launch, purpose>>

\* Mutant: a service that cannot be killed is taken for a dead one.
KillFailsUnnoticed ==
    /\ helper = "await" /\ Alive(launch) /\ Fault
    /\ NotStarted
    /\ UNCHANGED <<RestOfHelper, purpose>>

\* It cannot be killed: start no other.
KillFails ==
    /\ helper = "await" /\ Alive(launch) /\ Fault
    /\ Quit
    /\ UNCHANGED <<RestOfHelper, purpose>>

\* Rollback: the new version is moved away, ...
MoveFailedAway ==
    /\ helper = "removing"
    /\ file' = [file EXCEPT !["exe"] = "none"]
    /\ helper' = "putting back"
    /\ UNCHANGED <<RestOfHelper, purpose, faults>>

\* ... and the backup takes its place.
PutBack ==
    /\ helper = "putting back"
    /\ Rename("backup", "exe")
    /\ StartFor("rollback")
    /\ UNCHANGED <<RestOfHelper, faults>>

RollbackFails ==
    /\ helper \in {"removing", "putting back"} /\ Fault
    /\ Quit
    /\ UNCHANGED <<RestOfHelper, purpose>>

HelperDies ==
    /\ helper \notin {"none", "done", "dead"} /\ Fault
    /\ helper' = "dead"
    /\ UNCHANGED <<RestOfHelper, purpose, file>>

-----------------------------------------------------------------------------
(* The services *)

\* ListenAndServe: bind the port, then ReportReady.
ServiceListens(s) ==
    /\ service[s] = "starting"
    /\ service' = [service EXCEPT ![s] = "listening"]
    /\ ready' = TRUE
    /\ UNCHANGED <<mgrVars, mainVars, helperVars, file, faults>>

\* It exits, listening or not: a new version may do that at any time.
ServiceDies(s) ==
    /\ Alive(s)
    /\ IF Program = "old" THEN Fault ELSE UNCHANGED faults
    /\ service' = [service EXCEPT ![s] = "dead"]
    /\ UNCHANGED <<mgrVars, mainVars, helperVars, ready, file>>

-----------------------------------------------------------------------------

Init ==
    /\ busy = FALSE /\ phase = "idle" /\ available = FALSE /\ cancel = FALSE
    /\ ctxDone = FALSE /\ checking = "none" /\ download = "none" /\ requests = FALSE
    /\ main = "serving" /\ pipe = "none" /\ drained = "not yet"
    /\ helper = "none" /\ purpose = "none" /\ launch = 0
    /\ file = [exe |-> "old", backup |-> "none", stage |-> "none"]
    /\ ready = FALSE
    /\ service = [s \in Launches |-> "none"]
    /\ faults = 0 /\ promised = FALSE

CheckStep == CheckAnswered \/ CheckFinish

DownloadStep == Staged \/ StageFails \/ HandOver \/ GiveUp

MainStep ==
    MainReceives \/ Prepared \/ PrepareFails \/ Drained \/ Tell \/ TellFails \/ Exit

HelperStep ==
    \/ GateOpens \/ GateCloses \/ ParentGone \/ WaitTimeout
    \/ FilesReserved \/ ReserveFails
    \/ MoveAside \/ MoveAsideFails \/ Swap \/ SwapFails \/ Restore \/ RestoreFails
    \/ Launch \/ LaunchFails \/ SeesReady \/ SeesExit \/ KillsLate \/ KillFails
    \/ MoveFailedAway \/ PutBack \/ RollbackFails

Next ==
    \/ CheckStart \/ CheckStep
    \/ Start \/ Cancel \/ DownloadTimeout \/ DownloadStep
    \/ MainStep \/ Crash \/ Stopped
    \/ HelperStep \/ HelperDies
    \/ \E s \in Launches : ServiceListens(s) \/ ServiceDies(s)

Spec == Init /\ [][Next]_vars

\* Goroutines and processes keep running, every network call has a timeout, and
\* the original program gets to listen.  The administrator, a new version and
\* the clock are under no duty.
UpdateFairness ==
    /\ WF_vars(CheckStep) /\ WF_vars(DownloadStep)
    /\ WF_vars(MainStep) /\ WF_vars(HelperStep)
    /\ \A s \in Launches : WF_vars(Program = "old" /\ ServiceListens(s))

FairSpec == Spec /\ UpdateFairness

-----------------------------------------------------------------------------
(* Properties *)

FlagsOK ==
    /\ busy \in BOOLEAN /\ available \in BOOLEAN /\ cancel \in BOOLEAN
    /\ ctxDone \in BOOLEAN /\ requests \in BOOLEAN /\ ready \in BOOLEAN /\ promised \in BOOLEAN

ManagerOK ==
    /\ phase \in {"idle", "checking", "downloading", "restarting", "error"}
    /\ checking \in {"none", "asking", "found", "failed"}
    /\ download \in {"none", "staging", "staged"}

ProcessesOK ==
    /\ main \in {"serving", "preparing", "draining", "telling", "leaving", "gone"}
    /\ pipe \in {"none", "install", "restart"} /\ drained \in {"not yet", "yes", "no"}
    /\ helper \in {"none", "gate", "waiting", "preparing", "moving", "swapping", "restoring",
                   "launch", "await", "removing", "putting back", "done", "dead"}
    /\ purpose \in {"none", "install", "again", "restart", "rollback"}

FilesOK ==
    file \in [exe : {"old", "new", "none"}, backup : {"old", "none"},
              stage : {"new", "empty", "none"}]

CountsOK ==
    /\ launch \in {0} \cup Launches
    /\ service \in [Launches -> {"none", "starting", "listening", "dead"}]
    /\ faults \in 0..MaxFaults

TypeOK == FlagsOK /\ ManagerOK /\ ProcessesOK /\ FilesOK /\ CountsOK

\* At no time do two processes serve, or try to: not the old one and its
\* successor, not a failed new version and the one rolled back to, even when
\* a process outlives its deadline or cannot be killed.  (restart.go:237-239)
NeverTwoServices ==
    \A s \in Launches : Alive(s) =>
        /\ main = "gone"
        /\ \A t \in Launches : Alive(t) => s = t

\* The original program survives as the executable or as its backup, whichever
\* rename fails and wherever the helper dies.  (restart.go:145)
OriginalKept == "old" \in {file["exe"], file["backup"]}

\* A download whose cancellation was confirmed is never handed over.
\* (update.go:269)
CancelHonoured ==
    promised => phase # "restarting" /\ ~requests /\ main \in {"serving", "gone"}

\* If the requests in flight were not drained, nothing is replaced.
\* (CHANGELOG.md:116)
DrainFailureKeepsOriginal == drained = "no" => file["exe"] = "old" /\ file["backup"] = "none"

\* What the helper takes for the readiness of the service it waits for was
\* written by that service, not by the one it replaces.
ReadyIsFresh == (helper = "await" /\ ready) => service[launch] # "starting"

\* Manager.busy is given back: every check, download and failed handoff ends.
BusyEnds == busy ~> (~busy \/ main = "gone")

\* Once the listener is closed for an update, a service listens again: the new
\* version, or the old one if requests do not drain or the new one does not
\* start, as long as no operation of the system fails.  (README.md:122)
ServiceComesBack == main = "draining" ~> (Serving \/ faults > 0)

-----------------------------------------------------------------------------
(* What makes them true: the inductive invariant of the proofs.            *)

\* The states of the helper by what it has left behind.
Untouched == {"none", "gate", "waiting", "preparing"}
Replacing == {"moving", "swapping", "restoring"}
RollingBack == {"removing", "putting back"}
BeforeLaunch == Untouched \cup Replacing \cup RollingBack \cup {"launch"}

HandingOff == main \in {"preparing", "draining", "telling", "leaving"}

\* Manager.busy covers whatever is under way, one thing at a time.
OneAtATime ==
    main # "gone" =>
        /\ (checking # "none" \/ download # "none" \/ requests \/ HandingOff) => busy
        /\ checking # "none" => download = "none" /\ ~requests /\ ~HandingOff
        /\ download # "none" => ~requests /\ ~HandingOff
        /\ requests => ~HandingOff
        /\ cancel <=> download # "none"
        /\ phase = "restarting" => requests \/ HandingOff

\* A confirmed cancellation has reached the context, and nothing was handed over.
CancelReaches == promised => (download # "none" => ctxDone) /\ CancelHonoured

\* The staged file is complete from the download to its renaming.
StageComplete ==
    /\ main # "gone" /\ (download = "staged" \/ requests \/ main = "preparing") =>
           file["stage"] = "new"
    /\ helper \in {"gate", "waiting", "preparing", "moving", "swapping"} => file["stage"] = "new"

\* The helper follows the main loop.
Order ==
    /\ main \in {"serving", "preparing"} => helper = "none"
    /\ main \in {"serving", "preparing", "draining"} => drained = "not yet"
    /\ main \in {"serving", "preparing", "draining", "telling"} => pipe = "none"
    /\ drained # "yes" => pipe # "install"
    /\ helper \in {"preparing", "launch", "await"} \cup Replacing \cup RollingBack => main = "gone"
    /\ helper \in {"waiting", "preparing", "launch", "await"} => pipe # "none"
    /\ helper \in Replacing \cup RollingBack => pipe = "install"
    /\ purpose \in {"install", "again", "rollback"} => pipe = "install"
    /\ helper \in Untouched \cup Replacing => purpose = "none"
    /\ helper \in RollingBack => purpose = "install"
    /\ helper \in {"launch", "await"} => purpose # "none"

\* Where the original program is.
OriginalAt ==
    /\ OriginalKept
    /\ helper \in Untouched \cup {"moving"} => file["exe"] = "old"
    /\ helper \in {"swapping", "restoring"} \cup RollingBack => file["backup"] = "old"
    /\ helper \in {"launch", "await"} /\ purpose = "install" => file["backup"] = "old"
    /\ pipe # "install" => file["exe"] = "old" /\ file["backup"] = "none"

\* At most two launches, one after the other.
LaunchOrder ==
    /\ launch > 0 => main = "gone"
    /\ helper \in Untouched \cup Replacing => launch = 0
    /\ helper = "launch" => launch = 0 \/ (launch = 1 /\ purpose = "rollback")
    /\ helper \in RollingBack => launch \in {0, 1}
    /\ helper = "await" => launch = 1 \/ (launch = 2 /\ purpose = "rollback")
    /\ \A s \in Launches : s > launch => service[s] = "none"
    /\ helper \in BeforeLaunch => \A s \in Launches : ~Alive(s)
    /\ helper = "await" => \A s \in Launches : Alive(s) => s = launch
    /\ \A s, t \in Launches : Alive(s) /\ Alive(t) => s = t
    /\ ReadyIsFresh

UpdateInv ==
    OneAtATime /\ CancelReaches /\ StageComplete /\ Order /\ OriginalAt /\ LaunchOrder

=============================================================================
