-------------------------- MODULE SelfUpdateProofs --------------------------
(* Theorems about SelfUpdate, for any number of failing operations. *)
EXTENDS SelfUpdate, TLAPS

-----------------------------------------------------------------------------
(* The steps of each party *)

ManagerMoves == CheckStart \/ CheckStep \/ Start \/ Cancel \/ DownloadTimeout \/ DownloadStep

MainMoves == MainStep \/ Crash \/ Stopped

HelperMoves == HelperStep \/ HelperDies

ServiceMoves == \E s \in Launches : ServiceListens(s) \/ ServiceDies(s)

LEMMA Parties ==
  ASSUME [Next]_vars
  PROVE  ManagerMoves \/ MainMoves \/ HelperMoves \/ ServiceMoves \/ UNCHANGED vars
  BY DEF Next, ManagerMoves, MainMoves, HelperMoves, ServiceMoves

\* The helper touches neither the manager nor the main loop.
LEMMA HelperLeaves ==
  ASSUME HelperMoves
  PROVE  UNCHANGED <<mgrVars, mainVars>> /\ (ready' = ready \/ ready' = FALSE)
  <1> USE DEF RestOfHelper
  <1>1. CASE GateOpens \/ GateCloses \/ ParentGone \/ WaitTimeout \/ FilesReserved \/ ReserveFails
    BY <1>1 DEF GateOpens, GateCloses, ParentGone, WaitTimeout, FilesReserved, ReserveFails
  <1>2. CASE MoveAside \/ MoveAsideFails \/ Swap \/ SwapFails \/ Restore \/ RestoreFails
    BY <1>2 DEF MoveAside, MoveAsideFails, Swap, SwapFails, Restore, RestoreFails
  <1>3. CASE Launch \/ LaunchFails \/ SeesReady \/ SeesExit \/ KillsLate \/ KillFails
    BY <1>3 DEF Launch, LaunchFails, SeesReady, SeesExit, KillsLate, KillFails
  <1>4. CASE MoveFailedAway \/ PutBack \/ RollbackFails \/ HelperDies
    BY <1>4 DEF MoveFailedAway, PutBack, RollbackFails, HelperDies
  <1> QED BY <1>1, <1>2, <1>3, <1>4 DEF HelperMoves, HelperStep

LEMMA FlagsStep ==
  ASSUME FlagsOK, [Next]_vars
  PROVE  FlagsOK'
  <1> USE DEF FlagsOK, vars, mgrVars, mainVars, helperVars
  <1>1. CASE ManagerMoves
    BY <1>1 DEF ManagerMoves, CheckStep, DownloadStep, CheckStart, CheckAnswered,
                CheckFinish, Start, Cancel, DownloadTimeout, Staged, StageFails, HandOver,
                GiveUp, BeginOp, FinishOp
  <1>2. CASE MainMoves
    BY <1>2 DEF MainMoves, MainStep, MainReceives, Prepared, PrepareFails, Drained, Tell,
                TellFails, Exit, Crash, Stopped, FinishOp, Fault
  <1>3. CASE HelperMoves
    BY <1>3, HelperLeaves
  <1>4. ASSUME NEW s \in Launches, ServiceListens(s) \/ ServiceDies(s)
        PROVE  FlagsOK'
    BY <1>4 DEF ServiceListens, ServiceDies
  <1>5. CASE UNCHANGED vars
    BY <1>5
  <1> QED BY <1>1, <1>2, <1>3, <1>4, <1>5, Parties DEF ServiceMoves

LEMMA ManagerStep ==
  ASSUME ManagerOK, [Next]_vars
  PROVE  ManagerOK'
  <1> USE DEF ManagerOK, vars, mgrVars, mainVars, helperVars
  <1>1. CASE ManagerMoves
    BY <1>1 DEF ManagerMoves, CheckStep, DownloadStep, CheckStart, CheckAnswered,
                CheckFinish, Start, Cancel, DownloadTimeout, Staged, StageFails, HandOver,
                GiveUp, BeginOp, FinishOp
  <1>2. CASE MainMoves
    BY <1>2 DEF MainMoves, MainStep, MainReceives, Prepared, PrepareFails, Drained, Tell,
                TellFails, Exit, Crash, Stopped, FinishOp, Fault
  <1>3. CASE HelperMoves
    BY <1>3, HelperLeaves
  <1>4. ASSUME NEW s \in Launches, ServiceListens(s) \/ ServiceDies(s)
        PROVE  ManagerOK'
    BY <1>4 DEF ServiceListens, ServiceDies
  <1>5. CASE UNCHANGED vars
    BY <1>5
  <1> QED BY <1>1, <1>2, <1>3, <1>4, <1>5, Parties DEF ServiceMoves

LEMMA ProcessesStep ==
  ASSUME ProcessesOK, [Next]_vars
  PROVE  ProcessesOK'
  <1> USE DEF ProcessesOK, vars, mgrVars, mainVars, helperVars
  <1>1. CASE ManagerMoves
    BY <1>1 DEF ManagerMoves, CheckStep, DownloadStep, CheckStart, CheckAnswered,
                CheckFinish, Start, Cancel, DownloadTimeout, Staged, StageFails, HandOver,
                GiveUp, BeginOp, FinishOp
  <1>2. CASE MainMoves
    BY <1>2 DEF MainMoves, MainStep, MainReceives, Prepared, PrepareFails, Drained, Tell,
                TellFails, Exit, Crash, Stopped, FinishOp, Fault
  <1>3. CASE HelperMoves
    BY <1>3 DEF HelperMoves, HelperStep, GateOpens, GateCloses, ParentGone, WaitTimeout,
                FilesReserved, ReserveFails, MoveAside, MoveAsideFails, Swap, SwapFails,
                Restore, RestoreFails, Launch, LaunchFails, SeesReady, SeesExit, KillsLate,
                KillFails, MoveFailedAway, PutBack, RollbackFails, HelperDies, RestOfHelper,
                Fault, StartFor, Quit, Rename, NotStarted, Program, Alive
  <1>4. ASSUME NEW s \in Launches, ServiceListens(s) \/ ServiceDies(s)
        PROVE  ProcessesOK'
    BY <1>4 DEF ServiceListens, ServiceDies
  <1>5. CASE UNCHANGED vars
    BY <1>5
  <1> QED BY <1>1, <1>2, <1>3, <1>4, <1>5, Parties DEF ServiceMoves

LEMMA FilesStep ==
  ASSUME ProcessesOK, FilesOK, StageComplete, OriginalAt, [Next]_vars
  PROVE  FilesOK'
  <1> USE DEF ProcessesOK, FilesOK, StageComplete, OriginalAt, OriginalKept, Untouched,
              Replacing, RollingBack, vars, mgrVars, mainVars, helperVars
  <1>1. CASE ManagerMoves
    BY <1>1 DEF ManagerMoves, CheckStep, DownloadStep, CheckStart, CheckAnswered,
                CheckFinish, Start, Cancel, DownloadTimeout, Staged, StageFails, HandOver,
                GiveUp, BeginOp, FinishOp
  <1>2. CASE MainMoves
    BY <1>2 DEF MainMoves, MainStep, MainReceives, Prepared, PrepareFails, Drained, Tell,
                TellFails, Exit, Crash, Stopped, FinishOp, Fault
  <1>3. CASE HelperMoves
    BY <1>3 DEF HelperMoves, HelperStep, GateOpens, GateCloses, ParentGone, WaitTimeout,
                FilesReserved, ReserveFails, MoveAside, MoveAsideFails, Swap, SwapFails,
                Restore, RestoreFails, Launch, LaunchFails, SeesReady, SeesExit, KillsLate,
                KillFails, MoveFailedAway, PutBack, RollbackFails, HelperDies, RestOfHelper,
                Fault, StartFor, Quit, Rename, NotStarted, Program, Alive
  <1>4. ASSUME NEW s \in Launches, ServiceListens(s) \/ ServiceDies(s)
        PROVE  FilesOK'
    BY <1>4 DEF ServiceListens, ServiceDies
  <1>5. CASE UNCHANGED vars
    BY <1>5
  <1> QED BY <1>1, <1>2, <1>3, <1>4, <1>5, Parties DEF ServiceMoves

LEMMA CountsStep ==
  ASSUME CountsOK, LaunchOrder, [Next]_vars
  PROVE  CountsOK'
  <1> USE DEF CountsOK, LaunchOrder, Launches, vars, mgrVars, mainVars, helperVars
  <1>1. CASE ManagerMoves
    BY FaultsAreNat, <1>1 DEF ManagerMoves, CheckStep, DownloadStep, CheckStart, CheckAnswered,
                CheckFinish, Start, Cancel, DownloadTimeout, Staged, StageFails, HandOver,
                GiveUp, BeginOp, FinishOp
  <1>2. CASE MainMoves
    BY FaultsAreNat, <1>2 DEF MainMoves, MainStep, MainReceives, Prepared, PrepareFails,
           Drained, Tell,
                TellFails, Exit, Crash, Stopped, FinishOp, Fault
  <1>3. CASE HelperMoves
    <2>1. CASE GateOpens \/ GateCloses \/ ParentGone \/ WaitTimeout \/ FilesReserved
              \/ ReserveFails \/ MoveAside \/ MoveAsideFails \/ Swap \/ SwapFails
              \/ Restore
      BY FaultsAreNat, <2>1 DEF GateOpens, GateCloses, ParentGone, WaitTimeout, FilesReserved,
                  ReserveFails, MoveAside, MoveAsideFails, Swap, SwapFails, Restore,
                  RestOfHelper, Fault, StartFor, Quit, Rename
    <2>2. CASE RestoreFails \/ Launch \/ LaunchFails \/ SeesReady \/ SeesExit
      BY FaultsAreNat, <2>2 DEF RestoreFails, Launch, LaunchFails, SeesReady, SeesExit,
           Fault, StartFor,
                  RestOfHelper, NotStarted, Quit
    <2>3. CASE KillsLate
      BY FaultsAreNat, <2>3 DEF KillsLate, Fault, NotStarted, Quit, Program, Alive
    <2>4. CASE KillFails
      BY FaultsAreNat, <2>4 DEF KillFails, Fault, Quit, RestOfHelper, Alive
    <2>5. CASE MoveFailedAway
      BY FaultsAreNat, <2>5 DEF MoveFailedAway, RestOfHelper
    <2>6. CASE PutBack
      BY FaultsAreNat, <2>6 DEF PutBack, StartFor, Rename, RestOfHelper
    <2>7. CASE RollbackFails \/ HelperDies
      <3>1. Fault /\ UNCHANGED <<launch, service>>
        BY <2>7 DEF RollbackFails, HelperDies, RestOfHelper
      <3> QED BY <3>1, FaultsAreNat DEF Fault
    <2> QED BY <1>3, <2>1, <2>2, <2>3, <2>4, <2>5, <2>6, <2>7 DEF HelperMoves, HelperStep
  <1>4. ASSUME NEW s \in Launches, ServiceListens(s) \/ ServiceDies(s)
        PROVE  CountsOK'
    BY FaultsAreNat, <1>4 DEF ServiceListens, ServiceDies, Fault
  <1>5. CASE UNCHANGED vars
    BY <1>5
  <1> QED BY <1>1, <1>2, <1>3, <1>4, <1>5, Parties DEF ServiceMoves

LEMMA OneAtATimeStep ==
  ASSUME ManagerOK, ProcessesOK, OneAtATime, [Next]_vars
  PROVE  OneAtATime'
  <1> USE DEF ManagerOK, ProcessesOK, OneAtATime, HandingOff, vars, mgrVars, mainVars,
              helperVars
  <1>1. CASE ManagerMoves
    BY <1>1 DEF ManagerMoves, CheckStep, DownloadStep, CheckStart, CheckAnswered,
                CheckFinish, Start, Cancel, DownloadTimeout, Staged, StageFails, HandOver,
                GiveUp, BeginOp, FinishOp
  <1>2. CASE MainMoves
    BY <1>2 DEF MainMoves, MainStep, MainReceives, Prepared, PrepareFails, Drained, Tell,
                TellFails, Exit, Crash, Stopped, FinishOp, Fault
  <1>3. CASE HelperMoves
    BY <1>3, HelperLeaves
  <1>4. ASSUME NEW s \in Launches, ServiceListens(s) \/ ServiceDies(s)
        PROVE  OneAtATime'
    BY <1>4 DEF ServiceListens, ServiceDies
  <1>5. CASE UNCHANGED vars
    BY <1>5
  <1> QED BY <1>1, <1>2, <1>3, <1>4, <1>5, Parties DEF ServiceMoves

LEMMA CancelStep ==
  ASSUME ManagerOK, ProcessesOK, OneAtATime, CancelReaches, [Next]_vars
  PROVE  CancelReaches'
  <1> USE DEF ManagerOK, ProcessesOK, OneAtATime, HandingOff, CancelReaches, CancelHonoured,
              vars, mgrVars, mainVars, helperVars
  <1>1. CASE ManagerMoves
    BY <1>1 DEF ManagerMoves, CheckStep, DownloadStep, CheckStart, CheckAnswered,
                CheckFinish, Start, Cancel, DownloadTimeout, Staged, StageFails, HandOver,
                GiveUp, BeginOp, FinishOp
  <1>2. CASE MainMoves
    BY <1>2 DEF MainMoves, MainStep, MainReceives, Prepared, PrepareFails, Drained, Tell,
                TellFails, Exit, Crash, Stopped, FinishOp, Fault
  <1>3. CASE HelperMoves
    BY <1>3, HelperLeaves
  <1>4. ASSUME NEW s \in Launches, ServiceListens(s) \/ ServiceDies(s)
        PROVE  CancelReaches'
    BY <1>4 DEF ServiceListens, ServiceDies
  <1>5. CASE UNCHANGED vars
    BY <1>5
  <1> QED BY <1>1, <1>2, <1>3, <1>4, <1>5, Parties DEF ServiceMoves

LEMMA StageStep ==
  ASSUME ManagerOK, ProcessesOK, FilesOK, OneAtATime, Order, StageComplete, [Next]_vars
  PROVE  StageComplete'
  <1> USE DEF ManagerOK, ProcessesOK, FilesOK, OneAtATime, HandingOff, Order, StageComplete,
              Untouched, Replacing, RollingBack, vars, mgrVars, mainVars, helperVars
  <1>1. CASE ManagerMoves
    <2>1. CASE CheckStart
      BY <2>1 DEF CheckStart, BeginOp
    <2>2. CASE CheckAnswered
      BY <2>2 DEF CheckAnswered
    <2>3. CASE CheckFinish
      BY <2>3 DEF CheckFinish, FinishOp
    <2>4. CASE Start
      BY <2>4 DEF Start, BeginOp
    <2>5. CASE Cancel
      BY <2>5 DEF Cancel
    <2>6. CASE DownloadTimeout
      BY <2>6 DEF DownloadTimeout
    <2>7. CASE Staged
      BY <2>7 DEF Staged
    <2>8. CASE StageFails
      BY <2>8 DEF StageFails, FinishOp
    <2>9. CASE HandOver
      BY <2>9 DEF HandOver
    <2>10. CASE GiveUp
      BY <2>10 DEF GiveUp, FinishOp
    <2> QED BY <1>1, <2>1, <2>2, <2>3, <2>4, <2>5, <2>6, <2>7, <2>8, <2>9,
           <2>10 DEF ManagerMoves, CheckStep, DownloadStep
  <1>2. CASE MainMoves
    <2>1. CASE MainReceives \/ Prepared
      BY <2>1 DEF MainReceives, Prepared
    <2>2. CASE PrepareFails
      BY <2>2 DEF PrepareFails, FinishOp, Fault
    <2>3. CASE Drained
      BY <2>3 DEF Drained
    <2>4. CASE Tell \/ TellFails \/ Exit \/ Crash \/ Stopped
      BY <2>4 DEF Tell, TellFails, Exit, Crash, Stopped, Fault
    <2> QED BY <1>2, <2>1, <2>2, <2>3, <2>4 DEF MainMoves, MainStep
  <1>3. CASE HelperMoves
    BY <1>3 DEF HelperMoves, HelperStep, GateOpens, GateCloses, ParentGone, WaitTimeout,
                FilesReserved, ReserveFails, MoveAside, MoveAsideFails, Swap, SwapFails,
                Restore, RestoreFails, Launch, LaunchFails, SeesReady, SeesExit, KillsLate,
                KillFails, MoveFailedAway, PutBack, RollbackFails, HelperDies, RestOfHelper,
                Fault, StartFor, Quit, Rename, NotStarted, Program, Alive
  <1>4. ASSUME NEW s \in Launches, ServiceListens(s) \/ ServiceDies(s)
        PROVE  StageComplete'
    <2>1. UNCHANGED <<main, download, requests, helper, file>>
      BY <1>4 DEF ServiceListens, ServiceDies
    <2> QED BY <2>1
  <1>5. CASE UNCHANGED vars
    BY <1>5
  <1> QED BY <1>1, <1>2, <1>3, <1>4, <1>5, Parties DEF ServiceMoves

LEMMA OrderStep ==
  ASSUME ProcessesOK, OneAtATime, Order, [Next]_vars
  PROVE  Order'
  <1> USE DEF ProcessesOK, OneAtATime, HandingOff, Order, Untouched, Replacing, RollingBack,
              vars, mgrVars, mainVars, helperVars
  <1>1. CASE ManagerMoves
    BY <1>1 DEF ManagerMoves, CheckStep, DownloadStep, CheckStart, CheckAnswered,
                CheckFinish, Start, Cancel, DownloadTimeout, Staged, StageFails, HandOver,
                GiveUp, BeginOp, FinishOp
  <1>2. CASE MainMoves
    BY <1>2 DEF MainMoves, MainStep, MainReceives, Prepared, PrepareFails, Drained, Tell,
                TellFails, Exit, Crash, Stopped, FinishOp, Fault
  <1>3. CASE HelperMoves
    BY <1>3 DEF HelperMoves, HelperStep, GateOpens, GateCloses, ParentGone, WaitTimeout,
                FilesReserved, ReserveFails, MoveAside, MoveAsideFails, Swap, SwapFails,
                Restore, RestoreFails, Launch, LaunchFails, SeesReady, SeesExit, KillsLate,
                KillFails, MoveFailedAway, PutBack, RollbackFails, HelperDies, RestOfHelper,
                Fault, StartFor, Quit, Rename, NotStarted, Program, Alive
  <1>4. ASSUME NEW s \in Launches, ServiceListens(s) \/ ServiceDies(s)
        PROVE  Order'
    BY <1>4 DEF ServiceListens, ServiceDies
  <1>5. CASE UNCHANGED vars
    BY <1>5
  <1> QED BY <1>1, <1>2, <1>3, <1>4, <1>5, Parties DEF ServiceMoves

LEMMA OriginalStep ==
  ASSUME ProcessesOK, FilesOK, Order, OriginalAt, [Next]_vars
  PROVE  OriginalAt'
  <1> USE DEF ProcessesOK, FilesOK, Order, OriginalAt, OriginalKept, Untouched, Replacing,
              RollingBack, vars, mgrVars, mainVars, helperVars
  <1>1. CASE ManagerMoves
    BY <1>1 DEF ManagerMoves, CheckStep, DownloadStep, CheckStart, CheckAnswered,
                CheckFinish, Start, Cancel, DownloadTimeout, Staged, StageFails, HandOver,
                GiveUp, BeginOp, FinishOp
  <1>2. CASE MainMoves
    BY <1>2 DEF MainMoves, MainStep, MainReceives, Prepared, PrepareFails, Drained, Tell,
                TellFails, Exit, Crash, Stopped, FinishOp, Fault
  <1>3. CASE HelperMoves
    BY <1>3 DEF HelperMoves, HelperStep, GateOpens, GateCloses, ParentGone, WaitTimeout,
                FilesReserved, ReserveFails, MoveAside, MoveAsideFails, Swap, SwapFails,
                Restore, RestoreFails, Launch, LaunchFails, SeesReady, SeesExit, KillsLate,
                KillFails, MoveFailedAway, PutBack, RollbackFails, HelperDies, RestOfHelper,
                Fault, StartFor, Quit, Rename, NotStarted, Program, Alive
  <1>4. ASSUME NEW s \in Launches, ServiceListens(s) \/ ServiceDies(s)
        PROVE  OriginalAt'
    BY <1>4 DEF ServiceListens, ServiceDies
  <1>5. CASE UNCHANGED vars
    BY <1>5
  <1> QED BY <1>1, <1>2, <1>3, <1>4, <1>5, Parties DEF ServiceMoves

LEMMA TwoLaunches == Launches = {1, 2}
  BY DEF Launches

\* A launch: no service is alive, and the new one is the last.
LEMMA LaunchKeepsOrder ==
  ASSUME ProcessesOK, CountsOK, Order, LaunchOrder, Launch
  PROVE  LaunchOrder'
  <1>1. /\ helper = "launch" /\ helper' = "await" /\ main = "gone" /\ ready' = FALSE
        /\ main' = main /\ purpose' = purpose /\ launch' = launch + 1
        /\ service' = [service EXCEPT ![launch + 1] = "starting"]
    BY DEF Launch, mainVars, Order
  <1>2. launch = 0 \/ (launch = 1 /\ purpose = "rollback")
    BY <1>1 DEF LaunchOrder
  <1>3. launch' = 1 \/ (launch' = 2 /\ purpose' = "rollback")
    BY <1>1, <1>2
  <1>4. \A s \in Launches : service[s] \notin {"starting", "listening"}
    BY <1>1 DEF LaunchOrder, BeforeLaunch, Alive
  <1>5. \A s \in Launches : s # launch' => service'[s] = service[s]
    BY <1>1 DEF CountsOK
  <1>6. \A s \in Launches : Alive(s)' => s = launch'
    BY <1>4, <1>5 DEF Alive
  <1>7. ASSUME NEW s \in Launches, s > launch'
        PROVE  service'[s] = "none"
    <2>1. s > launch /\ s # launch'
      BY <1>1, <1>2, <1>7, TwoLaunches
    <2> QED BY <2>1, <1>5 DEF LaunchOrder
  <1>8. ReadyIsFresh'
    BY <1>1 DEF ReadyIsFresh
  <1>9. \A s, t \in Launches : Alive(s)' /\ Alive(t)' => s = t
    BY <1>6
  <1>10. helper' \notin Untouched \cup Replacing \cup RollingBack \cup {"launch"}
    BY <1>1 DEF Untouched, Replacing, RollingBack
  <1> QED
    BY <1>1, <1>3, <1>6, <1>7, <1>8, <1>9, <1>10 DEF LaunchOrder, BeforeLaunch

\* A service listens or dies: no service comes to life, and the one that is
\* awaited is the only one that can get ready.
LEMMA ServiceKeepsOrder ==
  ASSUME ProcessesOK, CountsOK, LaunchOrder,
         NEW s \in Launches, ServiceListens(s) \/ ServiceDies(s)
  PROVE  LaunchOrder'
  <1>1. /\ main' = main /\ helper' = helper /\ purpose' = purpose /\ launch' = launch
        /\ service[s] \in {"starting", "listening"}
    BY DEF ServiceListens, ServiceDies, Alive, mainVars, helperVars
  <1>2. \/ service' = [service EXCEPT ![s] = "listening"]
        \/ service' = [service EXCEPT ![s] = "dead"] /\ ready' = ready
    BY DEF ServiceListens, ServiceDies
  <1>3. \A t \in Launches : t # s => service'[t] = service[t]
    BY <1>2 DEF CountsOK
  <1>4. service'[s] \in {"listening", "dead"} /\ service'[s] # "starting"
    BY <1>2 DEF CountsOK
  <1>5. \A t \in Launches : Alive(t)' => Alive(t)
    BY <1>1, <1>3 DEF Alive
  <1>6. ASSUME NEW t \in Launches, t > launch
        PROVE  service'[t] = "none"
    <2>1. service[t] = "none"
      BY <1>6 DEF LaunchOrder
    <2>2. t # s
      BY <1>1, <2>1
    <2> QED BY <1>3, <2>1, <2>2
  <1>7. ReadyIsFresh'
    <2> SUFFICES ASSUME helper = "await" PROVE service'[launch] # "starting"
      BY <1>1 DEF ReadyIsFresh
    <2>1. s = launch
      BY <1>1 DEF LaunchOrder, Alive
    <2> QED BY <2>1, <1>4
  <1>8. \A t, u \in Launches : Alive(t)' /\ Alive(u)' => t = u
    BY <1>5 DEF LaunchOrder
  <1>9. helper \in BeforeLaunch => \A t \in Launches : ~Alive(t)'
    BY <1>5 DEF LaunchOrder
  <1>10. helper = "await" => \A t \in Launches : Alive(t)' => t = launch
    BY <1>5 DEF LaunchOrder
  <1> QED
    BY <1>1, <1>6, <1>7, <1>8, <1>9, <1>10 DEF LaunchOrder

LEMMA LaunchStep ==
  ASSUME ProcessesOK, CountsOK, Order, LaunchOrder, [Next]_vars
  PROVE  LaunchOrder'
  <1> USE DEF ProcessesOK, CountsOK, Order, LaunchOrder, ReadyIsFresh, Alive, Launches,
              Untouched, Replacing, RollingBack, BeforeLaunch, vars, mgrVars, mainVars,
              helperVars
  <1>1. CASE ManagerMoves
    BY <1>1 DEF ManagerMoves, CheckStep, DownloadStep, CheckStart, CheckAnswered,
                CheckFinish, Start, Cancel, DownloadTimeout, Staged, StageFails, HandOver,
                GiveUp, BeginOp, FinishOp
  <1>2. CASE MainMoves
    BY <1>2 DEF MainMoves, MainStep, MainReceives, Prepared, PrepareFails, Drained, Tell,
                TellFails, Exit, Crash, Stopped, FinishOp, Fault
  <1>3. CASE HelperMoves
    <2>1. CASE GateOpens \/ GateCloses \/ ParentGone \/ WaitTimeout \/ FilesReserved
      BY <2>1 DEF GateOpens, GateCloses, ParentGone, WaitTimeout, FilesReserved,
                  RestOfHelper, Fault, StartFor
    <2>2. CASE ReserveFails
      BY <2>2 DEF ReserveFails, Fault, Quit, RestOfHelper
    <2>3. CASE MoveAside \/ MoveAsideFails
      BY <2>3 DEF MoveAside, MoveAsideFails, Rename, RestOfHelper, Fault, StartFor
    <2>4. CASE Swap
      BY <2>4 DEF Swap, StartFor, Rename, RestOfHelper
    <2>5. CASE SwapFails
      BY <2>5 DEF SwapFails, Fault, RestOfHelper
    <2>6. CASE Restore
      BY <2>6 DEF Restore, StartFor, Rename, RestOfHelper
    <2>7. CASE RestoreFails
      BY <2>7 DEF RestoreFails, Fault, StartFor, RestOfHelper
    <2>8. CASE Launch
      BY <2>8, LaunchKeepsOrder
    <2>9. CASE LaunchFails \/ SeesReady \/ SeesExit
      BY <2>9 DEF LaunchFails, SeesReady, SeesExit, Fault, NotStarted, Quit, RestOfHelper
    <2>10. CASE KillsLate
      BY <2>10 DEF KillsLate, Fault, NotStarted, Quit, Program
    <2>11. CASE KillFails \/ MoveFailedAway
      BY <2>11 DEF KillFails, MoveFailedAway, Fault, Quit, RestOfHelper
    <2>12. CASE PutBack \/ RollbackFails \/ HelperDies
      BY <2>12 DEF PutBack, RollbackFails, HelperDies, StartFor, Rename, RestOfHelper, Fault,
                  Quit
    <2> QED BY <1>3, <2>1, <2>2, <2>3, <2>4, <2>5, <2>6, <2>7, <2>8, <2>9, <2>10, <2>11,
           <2>12 DEF HelperMoves, HelperStep
  <1>4. ASSUME NEW s \in Launches, ServiceListens(s) \/ ServiceDies(s)
        PROVE  LaunchOrder'
    BY <1>4, ServiceKeepsOrder
  <1>5. CASE UNCHANGED vars
    BY <1>5
  <1> QED BY <1>1, <1>2, <1>3, <1>4, <1>5, Parties DEF ServiceMoves

-----------------------------------------------------------------------------
(* The inductive invariant *)

LEMMA UpdateInit == Init => TypeOK /\ UpdateInv
  <1> SUFFICES ASSUME Init PROVE TypeOK /\ UpdateInv
    OBVIOUS
  <1> USE DEF Init
  <1>1. FlagsOK
    BY DEF FlagsOK
  <1>2. ManagerOK /\ ProcessesOK
    BY DEF ManagerOK, ProcessesOK
  <1>3. FilesOK
    BY DEF FilesOK
  <1>4. CountsOK
    <2>1. service \in [Launches -> {"none", "starting", "listening", "dead"}]
      OBVIOUS
    <2>2. faults \in 0..MaxFaults
      <3>1. faults = 0
        OBVIOUS
      <3> HIDE DEF Init
      <3> QED BY <3>1, FaultsAreNat
    <2>3. launch \in {0} \cup Launches
      OBVIOUS
    <2> HIDE DEF Init
    <2> QED BY <2>1, <2>2, <2>3 DEF CountsOK
  <1>5. OneAtATime /\ CancelReaches
    BY DEF OneAtATime, HandingOff, CancelReaches, CancelHonoured
  <1>6. StageComplete
    BY DEF StageComplete
  <1>7. Order
    BY DEF Order, Untouched, Replacing, RollingBack
  <1>8. OriginalAt
    BY DEF OriginalAt, OriginalKept, Untouched, RollingBack
  <1>9. LaunchOrder
    <2>1. \A s \in Launches : service[s] = "none" /\ ~Alive(s)
      BY DEF Alive
    <2>2. helper = "none" /\ launch = 0
      OBVIOUS
    <2> HIDE DEF Init
    <2>3. helper \notin RollingBack \cup {"launch", "await"} /\ ~(launch > 0)
      BY <2>2 DEF RollingBack
    <2> QED BY <2>1, <2>2, <2>3 DEF LaunchOrder, ReadyIsFresh
  <1> QED
    BY <1>1, <1>2, <1>3, <1>4, <1>5, <1>6, <1>7, <1>8, <1>9 DEF TypeOK, UpdateInv

LEMMA UpdateStep == TypeOK /\ UpdateInv /\ [Next]_vars => (TypeOK /\ UpdateInv)'
  <1> SUFFICES ASSUME TypeOK, UpdateInv, [Next]_vars PROVE (TypeOK /\ UpdateInv)'
    OBVIOUS
  <1>1. TypeOK'
    BY FlagsStep, ManagerStep, ProcessesStep, FilesStep, CountsStep DEF TypeOK, UpdateInv
  <1>2. OneAtATime' /\ CancelReaches'
    BY OneAtATimeStep, CancelStep DEF TypeOK, UpdateInv
  <1>3. StageComplete' /\ Order'
    BY StageStep, OrderStep DEF TypeOK, UpdateInv
  <1>4. OriginalAt' /\ LaunchOrder'
    BY OriginalStep, LaunchStep DEF TypeOK, UpdateInv
  <1> QED BY <1>1, <1>2, <1>3, <1>4 DEF UpdateInv

LEMMA UpdateAlways == Spec => [](TypeOK /\ UpdateInv)
  BY UpdateInit, UpdateStep, PTL DEF Spec

-----------------------------------------------------------------------------
(* Theorems *)

\* Every variable of Manager, main loop, helper and services keeps its type.
THEOREM UpdateTypeCorrect == Spec => []TypeOK
  BY UpdateAlways, PTL

\* The old process and its successors never run at the same time, whatever fails
\* or hangs: the helper launches only after the main loop is gone, and again only
\* after it has seen the first service end.
THEOREM UpdateNeverTwoServices == Spec => []NeverTwoServices
  <1>1. TypeOK /\ UpdateInv => NeverTwoServices
    <2> SUFFICES ASSUME CountsOK, LaunchOrder PROVE NeverTwoServices
      BY DEF TypeOK, UpdateInv
    <2>1. ASSUME NEW s \in Launches, Alive(s)
          PROVE  main = "gone"
      BY <2>1 DEF CountsOK, LaunchOrder, Launches, Alive
    <2>2. \A s, t \in Launches : Alive(s) /\ Alive(t) => s = t
      BY DEF LaunchOrder
    <2> QED BY <2>1, <2>2 DEF NeverTwoServices
  <1> QED BY <1>1, UpdateAlways, PTL

\* The original program is in the executable or in its backup at every moment of
\* the replacement and of the rollback.
THEOREM UpdateKeepsOriginal == Spec => []OriginalKept
  <1>1. UpdateInv => OriginalKept
    BY DEF UpdateInv, OriginalAt
  <1> QED BY <1>1, UpdateAlways, PTL

\* What Cancel confirmed is not handed over by the download afterwards.
THEOREM UpdateHonoursCancel == Spec => []CancelHonoured
  <1>1. UpdateInv => CancelHonoured
    BY DEF UpdateInv, CancelReaches, CancelHonoured
  <1> QED BY <1>1, UpdateAlways, PTL

\* The helper never takes the ready file of an earlier service for the one it
\* waits for.
THEOREM UpdateReadyIsFresh == Spec => []ReadyIsFresh
  <1>1. UpdateInv => ReadyIsFresh
    BY DEF UpdateInv, LaunchOrder
  <1> QED BY <1>1, UpdateAlways, PTL

\* Nothing is replaced if the requests in flight were not drained.
THEOREM UpdateDrainsFirst == Spec => []DrainFailureKeepsOriginal
  <1>1. UpdateInv => DrainFailureKeepsOriginal
    BY DEF UpdateInv, Order, OriginalAt, DrainFailureKeepsOriginal
  <1> QED BY <1>1, UpdateAlways, PTL

=============================================================================
