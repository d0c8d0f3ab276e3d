------------------------------- MODULE CheckIn -------------------------------
(***************************************************************************)
(* Daily check-in (checkin/runner.go, checkin/config.go,                   *)
(* billing/checkin.go): the runner that tries every account at the minute  *)
(* its rule draws for the day, and the admin's batch over the whole pool.  *)
(* Both ask upstream for the account's state, then ask it to check in.     *)
(***************************************************************************)
EXTENDS Integers, FiniteSets, Bags

CONSTANTS
    Members,          \* accounts of the pool
    Windows,          \* what a rule may say: [start, end], minutes of the day
    DayLength,        \* minutes of a day
    Draw,             \* the hash of a day and an account
    Broken,           \* a rules file that does not parse or validate
    MaxInstant,       \* bound: minutes that pass
    MaxPlans,         \* bound: changes of the rules, the switch and the pool
    MaxProcesses      \* bound: times the process starts again

ASSUME WindowsAssumption ==
    /\ DayLength \in Nat \ {0}
    /\ \A w \in Windows :
          w.start \in 0 .. DayLength - 1 /\ w.end \in w.start .. DayLength - 1
    /\ MaxInstant \in Nat
    /\ \A day \in 0 .. MaxInstant \div DayLength, a \in Members : Draw[day][a] \in Nat

VARIABLES
    instant,     \* the wall clock, in minutes
    plan,        \* proxy-checkin.json: the enabled rules, account -> window
    auto,        \* the master switch
    usable,      \* members that are enabled and have credentials
    runner,      \* the runner's round
    batch,       \* the batch an admin has asked for
    doneOn,      \* upstream: the day each member was last checked in
    replans,     \* changes made so far
    starts,      \* restarts so far
    settledAt,   \* history: up to when a minute may be lost: the rules, switch,
                 \* pool or process changed, or a round could not read them
    ticks,       \* history: the instants the runner has ticked at
    tried        \* history: the attempts of the runner, by member and due minute

checkInVars == <<instant, plan, auto, usable, runner, batch, doneOn,
                 replans, starts, settledAt, ticks, tried>>

DayOf(m) == m \div DayLength
Today == DayOf(instant)

\* The rules a file can hold: at most one enabled rule to a member.
Plans == UNION {[S -> Windows] : S \in SUBSET Members}

\* The minute a rule comes due: the same one at every tick of the day.
DueAt(w, member, day) ==
    day * DayLength + w.start + (Draw[day][member] % (w.end - w.start + 1))

AtRest(prev) == [step |-> "rest", prev |-> prev, now |-> prev,
                 left |-> <<>>, pool |-> {}, member |-> {}]
NoBatch == [step |-> "none", left |-> {}, member |-> {}, since |-> 0,
            rows |-> <<>>, ok |-> TRUE]

CheckInInit ==
    /\ instant = 0
    /\ plan = <<>> /\ auto = TRUE /\ usable = Members
    /\ runner = AtRest(0) /\ batch = NoBatch
    /\ doneOn = [a \in Members |-> -1]
    /\ replans = 0 /\ starts = 0 /\ settledAt = 0
    /\ ticks = {} /\ tried = EmptyBag

-----------------------------------------------------------------------------
(* Asking upstream.  What an answer makes of the attempt, by its step.     *)

\* DailyCheckinForAccount, first call: the member's state today.
StatusAnswers(member) ==
    {"failed", "unsupported"} \cup
    (IF doneOn[member] = Today THEN {"already"} ELSE {"open"})

\* Its second call.  A call that fails may have had its effect.
ActionAnswers(member) ==
    {"failed", "unsupported"} \cup
    (IF doneOn[member] = Today THEN {"already"} ELSE {"checkedIn", "lost"})

\* What is reported of an attempt: a lost answer is a failure.
Reported(answer) == IF answer = "lost" THEN "failed" ELSE answer

AfterAction(member, answer) ==
    IF answer \in {"checkedIn", "lost"} THEN [doneOn EXCEPT ![member] = Today]
    ELSE doneOn

-----------------------------------------------------------------------------
(* The runner.                                                             *)

\* due: the switch, then the rules, then the pool.
Tick ==
    /\ runner.step = "rest" /\ instant > runner.prev
    /\ runner' = IF auto THEN [runner EXCEPT !.step = "read", !.now = instant]
                 ELSE AtRest(instant)
    /\ ticks' = ticks \cup {instant}
    /\ UNCHANGED <<instant, plan, auto, usable, batch, doneOn, replans,
                   starts, settledAt, tried>>

\* The round cannot go on, and its interval is not asked about again.
IntervalLost ==
    /\ runner' = AtRest(runner.now)
    /\ settledAt' = IF settledAt > runner.now THEN settledAt ELSE runner.now

\* The file may not be readable just now; or it does not parse or validate, or
\* has no rules.
ReadRules ==
    /\ runner.step = "read"
    /\ \/ IntervalLost
       \/ /\ runner' = IF plan = Broken \/ plan = <<>> THEN AtRest(runner.now)
                       ELSE [runner EXCEPT !.step = "pool", !.left = plan]
          /\ UNCHANGED settledAt
    /\ UNCHANGED <<instant, plan, auto, usable, batch, doneOn, replans,
                   starts, ticks, tried>>

\* Mutant: both ends of the interval count.
ComesDueAtEitherEnd(w, member) ==
    DueAt(w, member, DayOf(runner.now)) \in runner.prev .. runner.now

\* Whether a rule comes due in the interval (prev, now] of the round.
ComesDue(w, member) ==
    LET at == DueAt(w, member, DayOf(runner.now))
    IN  runner.prev < at /\ at <= runner.now

\* A pool that no call has loaded so far is read from its file, which may fail.
ReadMembers ==
    /\ runner.step = "pool"
    /\ \/ IntervalLost
       \/ /\ runner' = [runner EXCEPT !.step = "rules", !.pool = usable]
          /\ UNCHANGED settledAt
    /\ UNCHANGED <<instant, plan, auto, usable, batch, doneOn, replans,
                   starts, ticks, tried>>

Rest(members) == [a \in DOMAIN runner.left \ members |-> runner.left[a]]

Ready == {a \in DOMAIN runner.left :
             ComesDue(runner.left[a], a) /\ a \in runner.pool}

TryRule(member) ==
    /\ runner.step = "rules" /\ member \in Ready
    /\ runner' = [runner EXCEPT !.step = "status", !.member = {member},
                                !.left = Rest({member})]
    /\ tried' = tried (+) SetToBag({<<member,
                    DueAt(runner.left[member], member, DayOf(runner.now))>>})
    /\ UNCHANGED <<instant, plan, auto, usable, batch, doneOn, replans,
                   starts, settledAt, ticks>>

\* The loop is through, having passed over what is not due or not usable.
RoundEnds ==
    /\ runner.step = "rules" /\ Ready = {}
    /\ runner' = AtRest(runner.now)
    /\ UNCHANGED <<instant, plan, auto, usable, batch, doneOn, replans,
                   starts, settledAt, ticks, tried>>

RunnerAnswer(member) ==
    /\ runner.member = {member}
    /\ \/ /\ runner.step = "status"
          /\ \E answer \in StatusAnswers(member) :
                runner' = [runner EXCEPT
                    !.step = IF answer = "open" THEN "action" ELSE "rules",
                    !.member = IF answer = "open" THEN @ ELSE {}]
          /\ UNCHANGED doneOn
       \/ /\ runner.step = "action"
          /\ \E answer \in ActionAnswers(member) :
                doneOn' = AfterAction(member, answer)
          /\ runner' = [runner EXCEPT !.step = "rules", !.member = {}]
    /\ UNCHANGED <<instant, plan, auto, usable, batch, replans, starts,
                   settledAt, ticks, tried>>

-----------------------------------------------------------------------------
(* The admin's batch.                                                      *)

\* RunPoolCheckin over the members that can be used when it begins.
BatchBegins ==
    /\ batch.step = "none"
    /\ batch' = [NoBatch EXCEPT !.step = "next", !.left = usable,
                                !.since = Today]
    /\ UNCHANGED <<instant, plan, auto, usable, runner, doneOn, replans,
                   starts, settledAt, ticks, tried>>

\* A row for the member, folded into the summary.
AddRow(b, member, outcome) ==
    [b EXCEPT !.step = "next", !.member = {}, !.left = @ \ {member},
              !.rows = [a \in DOMAIN @ \cup {member} |->
                           IF a = member THEN outcome ELSE @[a]],
              !.ok = @ /\ outcome # "failed"]

\* Mutant: a member that is skipped leaves the verdict alone.
AddSkipped(b, member) == AddRow(b, member, "skipped")

\* The deadline has run out: the member is skipped, and the batch not fine.
AddUnattempted(b, member) ==
    [AddRow(b, member, "skipped") EXCEPT !.ok = FALSE]

OutOfTime == \E a \in DOMAIN batch.rows : batch.rows[a] = "skipped"

BatchNext(member) ==
    /\ batch.step = "next" /\ member \in batch.left
    /\ \/ ~OutOfTime /\ batch' = [batch EXCEPT !.step = "status", !.member = {member}]
       \/ batch' = AddUnattempted(batch, member)
    /\ UNCHANGED <<instant, plan, auto, usable, runner, doneOn, replans,
                   starts, settledAt, ticks, tried>>

BatchAnswer(member) ==
    /\ batch.member = {member}
    /\ \/ /\ batch.step = "status"
          /\ \E answer \in StatusAnswers(member) :
                batch' = IF answer = "open" THEN [batch EXCEPT !.step = "action"]
                         ELSE AddRow(batch, member, answer)
          /\ UNCHANGED doneOn
       \/ /\ batch.step = "action"
          /\ \E answer \in ActionAnswers(member) :
                /\ doneOn' = AfterAction(member, answer)
                /\ batch' = AddRow(batch, member, Reported(answer))
    /\ UNCHANGED <<instant, plan, auto, usable, runner, replans, starts,
                   settledAt, ticks, tried>>

-----------------------------------------------------------------------------
(* The world around them.                                                  *)

TimePasses ==
    /\ instant < MaxInstant
    /\ instant' = instant + 1
    /\ UNCHANGED <<plan, auto, usable, runner, batch, doneOn, replans,
                   starts, settledAt, ticks, tried>>

Changed == replans < MaxPlans /\ replans' = replans + 1 /\ settledAt' = instant

\* SetRules, or a hand that edits the file; File.Write takes valid rules only.
SetRules ==
    /\ Changed
    /\ plan' \in (Plans \cup {Broken}) \ {plan}
    /\ UNCHANGED <<instant, auto, usable, runner, batch, doneOn, starts,
                   ticks, tried>>

SwitchAuto ==
    /\ Changed
    /\ auto' = ~auto
    /\ UNCHANGED <<instant, plan, usable, runner, batch, doneOn, starts,
                   ticks, tried>>

\* An account is disabled or enabled, or loses its credentials.
SetUsable(member) ==
    /\ Changed
    /\ usable' = IF member \in usable THEN usable \ {member}
                 ELSE usable \cup {member}
    /\ UNCHANGED <<instant, plan, auto, runner, batch, doneOn, starts,
                   ticks, tried>>

\* Run starts from now on: what came due before is left for tomorrow.
ProcessRestarts ==
    /\ starts < MaxProcesses
    /\ starts' = starts + 1
    /\ runner' = AtRest(instant)
    /\ batch' = NoBatch
    /\ settledAt' = instant
    /\ UNCHANGED <<instant, plan, auto, usable, doneOn, replans, ticks, tried>>

CheckInNext ==
    \/ Tick \/ ReadRules \/ ReadMembers \/ RoundEnds
    \/ BatchBegins \/ TimePasses \/ SetRules \/ SwitchAuto \/ ProcessRestarts
    \/ \E a \in Members : \/ TryRule(a) \/ RunnerAnswer(a)
                          \/ BatchNext(a) \/ BatchAnswer(a) \/ SetUsable(a)

CheckInSpec == CheckInInit /\ [][CheckInNext]_checkInVars

-----------------------------------------------------------------------------
(* Properties.                                                             *)

\* No tick came between the minute and the midnight after it.
MissedTheDay(due) == \A now \in ticks : now < due \/ DayOf(now) # DayOf(due)

\* An account is never tried twice for one minute its rule comes due, whatever
\* changes, restarts and late ticks there were; and once a tick at or after the
\* minute is through, it has been tried for it, unless the minute was lost: no
\* tick came between it and midnight (due asks about the day it ends in only,
\* though it is handed the interval (prev, now] of runner.go:85), or the rules
\* or the pool could not be read in that round (runner.go:90-107), or the
\* rules, the switch, the pool or the process changed after it.
DueIsTriedOnce ==
    /\ \A t \in BagToSet(tried) : tried[t] = 1
    /\ auto /\ plan # Broken =>
          \A a \in DOMAIN plan \cap usable, day \in 0 .. DayOf(runner.prev) :
              LET due == DueAt(plan[a], a, day)
              IN  settledAt < due /\ due <= runner.prev
                     => BagIn(<<a, due>>, tried) \/ MissedTheDay(due)

\* A batch that is over and says it went well has left no account behind: each
\* of those it set out with has been checked in, by it, by the runner or by
\* hand, since the day it began, or has no check-in (RunPoolCheckin, whose
\* deadline may run out between two accounts).
BatchIsHonest ==
    batch.step = "next" /\ batch.left = {} /\ batch.ok =>
        \A a \in DOMAIN batch.rows :
            doneOn[a] >= batch.since \/ batch.rows[a] = "unsupported"
=============================================================================
