-------------------------------- MODULE Watch --------------------------------
(***************************************************************************)
(* The watch (internal/watch): every finished request leaves a sample in a *)
(* ring, and once per interval the newest samples are judged against the   *)
(* ones before them.  Crossing into trouble sends an alert, staying there  *)
(* a reminder now and then, leaving it a recovery.                         *)
(*                                                                         *)
(* Rates are compared as fractions; `ms` is a duration in units of         *)
(* MinBaselineMs.                                                          *)
(***************************************************************************)
EXTENDS Integers, SequencesExt

CONSTANTS
    Samples,      \* what a request may look like
    WindowSize,   \* Config.Window
    BaselineSize, \* Config.Baseline
    MinSample,    \* Config.MinSample
    ErrorPercent, MissPercent, LatencyFactor,
    Reminder,     \* Config.Reminder, in evaluation intervals; 0: every time
    Channels,     \* webhook, SMTP: the notifiers configured
    MaxMinutes,   \* bound: the clock, in evaluation intervals
    MaxSamples,   \* bound: samples recorded
    MaxWatchRestarts \* bound: restarts; everything here is in memory

Sample == [ok : BOOLEAN, asked : BOOLEAN, reasoned : BOOLEAN, ms : Nat]

ASSUME WatchAssumption ==
    /\ Samples \subseteq Sample
    /\ WindowSize \in Nat \ {0} /\ BaselineSize \in Nat /\ MinSample \in Nat \ {0}
    /\ {ErrorPercent, MissPercent} \subseteq 0 .. 100 /\ LatencyFactor \in Nat
    /\ {Reminder, MaxMinutes, MaxSamples, MaxWatchRestarts} \subseteq Nat

Problems == {"errorRate", "reasoning", "latency"}

VARIABLES
    minute,     \* the clock, in evaluation intervals
    samples,    \* Monitor.samples
    next,       \* Monitor.next: the slot of the oldest sample once it is full
    problems,   \* Monitor.problems; Status.OK says that there is none
    since,      \* Monitor.since; Never is its zero value
    lastSent,   \* Monitor.lastSent
    reference,  \* Monitor.reference: the baseline when trouble began
    outbox,     \* the event send is delivering, outside the lock
    spent,      \* samples and restarts so far
    \* History: only properties read what follows.
    last,       \* the last event handed to the notifiers
    delivered,  \* the channels it reached
    streak      \* the problems that every sample has shown since they were found

watchVars == <<minute, samples, next, problems, since, lastSent, reference, outbox,
               spent, last, delivered, streak>>

Never == -1
Nothing == [kind |-> "none", at |-> Never]

-----------------------------------------------------------------------------
(* Metrics *)

Percent(a, b) == IF b <= 0 THEN 0 ELSE (100 * a) \div b

\* int64Median
Median(s) ==
    LET sorted == SortSeq(s, <)
        n == Len(s)
    IN  IF n = 0 THEN 0
        ELSE IF n % 2 = 1 THEN sorted[n \div 2 + 1]
        ELSE (sorted[n \div 2] + sorted[n \div 2 + 1]) \div 2

Asked(s) == s.ok /\ s.asked
Missed(s) == Asked(s) /\ ~s.reasoned
Latencies(seq) == LET timed == SelectSeq(seq, LAMBDA s : s.ok /\ s.ms > 0)
                  IN  [i \in DOMAIN timed |-> timed[i].ms]

\* What computeMetrics takes from either part of the ring.
Half(seq) ==
    [asked  |-> Len(SelectSeq(seq, Asked)),
     missed |-> Percent(Len(SelectSeq(seq, Missed)), Len(SelectSeq(seq, Asked))),
     timed  |-> Len(Latencies(seq)),
     p50    |-> Median(Latencies(seq))]

ErrorRate(seq) == Percent(Len(SelectSeq(seq, LAMBDA s : ~s.ok)), Len(seq))

\* splitLocked: the newest WindowSize samples and the ones before them.
Split ==
    LET n == Len(samples)
        w == IF WindowSize > n THEN n ELSE WindowSize
        ordered == SubSeq(samples, next + 1, n) \o SubSeq(samples, 1, next)
    IN  [recent |-> SubSeq(ordered, n - w + 1, n), base |-> SubSeq(ordered, 1, n - w)]

\* triage: the problems there are now.  A problem stays as it was while there
\* are too few samples to tell.
Triage(recent, base) ==
    LET now == Half(recent)
        found == [errorRate |-> ErrorRate(recent) > ErrorPercent,
                  reasoning |-> IF now.asked < MinSample \/ base.asked < MinSample
                                  THEN "reasoning" \in problems
                                  ELSE now.missed > MissPercent /\ now.missed - base.missed > 20,
                  latency   |-> IF now.timed < MinSample \/ base.timed < MinSample
                                  THEN "latency" \in problems
                                  ELSE base.p50 >= 1 /\ now.p50 > base.p50 * LatencyFactor]
    IN  IF Len(recent) < MinSample THEN problems ELSE {p \in Problems : found[p]}

-----------------------------------------------------------------------------
(* Record *)

Ring == WindowSize + BaselineSize

\* What a sample shows of a problem.
Shows(s, p) == CASE p = "errorRate" -> ~s.ok
                 [] p = "reasoning" -> Missed(s)
                 [] p = "latency"   -> s.ok /\ s.ms > LatencyFactor

\* Record: any handler that has finished a request, at any time.
RecordSample(s) ==
    /\ spent.samples < MaxSamples
    /\ spent' = [spent EXCEPT !.samples = @ + 1]
    /\ IF Len(samples) = Ring
         THEN /\ samples' = [samples EXCEPT ![next + 1] = s]
              /\ next' = (next + 1) % Ring
         ELSE samples' = Append(samples, s) /\ UNCHANGED next
    /\ streak' = {p \in streak : Shows(s, p)}
    /\ UNCHANGED <<minute, problems, since, lastSent, reference, outbox, last, delivered>>

-----------------------------------------------------------------------------
(* Evaluate *)

\* Nothing is being sent: Run calls Evaluate and send in one goroutine.
Idle == outbox = Nothing

\* Mutant: the baseline moves on while trouble lasts.
JudgeAgainstTheNewest ==
    LET parts == Split
    IN  Triage(parts.recent, Half(parts.base))

\* While trouble lasts it is judged against the baseline it was found with.
Judge ==
    LET parts == Split
    IN  Triage(parts.recent, IF problems = {} THEN Half(parts.base) ELSE reference)

\* The verdict of this evaluation and what it leaves in the history.
Verdict(found) ==
    /\ Idle
    /\ problems' = found
    /\ streak' = (streak \cap found) \cup (found \ problems)

\* No trouble, as before.
StaysWell ==
    /\ Verdict(Judge)
    /\ problems = {} /\ problems' = {}
    /\ UNCHANGED <<samples, next, since, lastSent, reference, outbox, spent, last, delivered>>

\* Trouble begins: the baseline is frozen and an alert is due.
Enters ==
    /\ Verdict(Judge)
    /\ problems = {} /\ problems' # {}
    /\ reference' = Half(Split.base)
    /\ since' = minute /\ lastSent' = minute
    /\ outbox' = [kind |-> "alert", at |-> minute]
    /\ UNCHANGED <<samples, next, spent, last, delivered>>

Due == Reminder = 0 \/ minute - lastSent >= Reminder

\* Trouble lasts: a reminder, if it is time.
Lasts ==
    /\ Verdict(Judge)
    /\ problems # {} /\ problems' # {}
    /\ IF Due
         THEN lastSent' = minute /\ outbox' = [kind |-> "remind", at |-> minute]
         ELSE UNCHANGED <<lastSent, outbox>>
    /\ UNCHANGED <<samples, next, since, reference, spent, last, delivered>>

\* Trouble is over: the incident is closed and the recovery is due.
Recovers ==
    /\ Verdict(Judge)
    /\ problems # {} /\ problems' = {}
    /\ since' = Never /\ lastSent' = Never
    /\ outbox' = [kind |-> "recover", at |-> minute]
    /\ UNCHANGED <<samples, next, reference, spent, last, delivered>>

\* The ticker: a minute passes and the samples are judged.
Evaluate ==
    /\ minute < MaxMinutes
    /\ StaysWell \/ Enters \/ Lasts \/ Recovers
    /\ minute' = minute + 1

\* send, outside the lock: MultiNotifier tries every channel, whichever fail;
\* the error is logged and nothing is sent again.  Meanwhile the ticker's
\* channel keeps one tick at most.
Send(reached) ==
    /\ ~Idle
    /\ outbox' = Nothing
    /\ last' = outbox
    /\ delivered' = reached
    /\ UNCHANGED <<minute, samples, next, problems, since, lastSent, reference, spent, streak>>

\* A send takes long: the clock goes on without an evaluation.
SendTakesLong ==
    /\ ~Idle /\ minute < MaxMinutes
    /\ minute' = minute + 1
    /\ UNCHANGED <<samples, next, problems, since, lastSent, reference, outbox, spent,
                   last, delivered, streak>>

WatchBlank ==
    /\ samples' = <<>> /\ next' = 0 /\ problems' = {}
    /\ since' = Never /\ lastSent' = Never /\ reference' = Half(<<>>)
    /\ outbox' = Nothing /\ last' = Nothing /\ delivered' = {} /\ streak' = {}

\* A restart forgets the samples and the incident.
WatchRestart ==
    /\ spent.restarts < MaxWatchRestarts
    /\ spent' = [spent EXCEPT !.restarts = @ + 1]
    /\ WatchBlank
    /\ UNCHANGED minute

WatchInit ==
    /\ minute = 0
    /\ samples = <<>> /\ next = 0 /\ problems = {}
    /\ since = Never /\ lastSent = Never /\ reference = Half(<<>>)
    /\ outbox = Nothing /\ last = Nothing /\ delivered = {} /\ streak = {}
    /\ spent = [samples |-> 0, restarts |-> 0]

WatchNext ==
    \/ \E s \in Samples : RecordSample(s)
    \/ Evaluate
    \/ \E reached \in SUBSET Channels : Send(reached)
    \/ SendTakesLong
    \/ WatchRestart

WatchSpec == WatchInit /\ [][WatchNext]_watchVars

-----------------------------------------------------------------------------
(* Properties *)

\* Every variable has its type.
WatchTypeOK ==
    /\ minute \in Nat
    /\ samples \in Seq(Sample) /\ Len(samples) <= Ring
    /\ next \in 0 .. Ring - 1 /\ (next > 0 => Len(samples) = Ring)
    /\ problems \subseteq Problems /\ streak \subseteq problems
    /\ {since, lastSent} \subseteq Nat \cup {Never}
    /\ (problems = {}) = (lastSent = Never)
    /\ reference \in [asked : Nat, missed : Nat, timed : Nat, p50 : Nat]
    /\ {outbox, last} \subseteq [kind : {"none", "alert", "remind", "recover"}, at : Nat \cup {Never}]
    /\ delivered \subseteq Channels
    /\ spent \in [samples : Nat, restarts : Nat]

\* A lasting failure does not become its own healthy baseline: a problem that
\* every sample has shown since it was found does not go away, however long
\* it lasts (the comment in monitor.go Evaluate; splitLocked, triage).
TroubleStays ==
    \A p \in problems \cap streak : p \in problems' \/ spent'.restarts > spent.restarts

\* Alerts, reminders and recoveries come in order, one incident after the
\* other, reminders no closer than Reminder after the last word.
WordInOrder ==
    last' # last /\ last'.kind # "none" =>
        /\ last'.kind = "alert" => last.kind \in {"none", "recover"}
        /\ last'.kind = "recover" => last.kind \in {"alert", "remind"}
        /\ last'.kind = "remind" =>
              last.kind \in {"alert", "remind"} /\ last'.at - last.at >= Reminder

\* The watch keeps to an incident until it is over, and tells of it in order
\* (monitor.go Evaluate and send).
WatchKeepsItsWord == [][TroubleStays /\ WordInOrder]_watchVars
=============================================================================
