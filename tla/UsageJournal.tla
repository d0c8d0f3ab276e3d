---------------------------- MODULE UsageJournal ----------------------------
(***************************************************************************)
(* The usage journal (internal/usagejournal): a ring of the last requests  *)
(* and totals per day, both in memory, flushed to one file by a loop that  *)
(* Record wakes.                                                           *)
(*                                                                         *)
(* Time counts hours; a day has HoursPerDay of them.  An entry keeps what  *)
(* queries tell apart: when the request started, its account, its model,   *)
(* whether it went well, and `tokens`, which stands for every column that  *)
(* is summed alike (prompt, completion and cached tokens, credits).        *)
(***************************************************************************)
EXTENDS Integers, SequencesExt

CONSTANTS
    Accounts, Models,
    Usages,            \* what a request may leave: its account, model, outcome, tokens
    JournalCapacity,   \* slots of the ring
    HoursPerDay,
    WeekDays,          \* days of the "week" range
    MonthDays,         \* days of the "month" range
    RetentionDays,     \* usageRetentionDays
    MaxHours,          \* bound: the clock
    MaxDuration,       \* bound: hours a request takes
    MaxRecords,        \* bound: requests recorded
    MaxMishaps         \* bound: failing writes, crashes, and restarts after Close

ASSUME JournalAssumption ==
    /\ Usages \subseteq [account : Accounts, model : Models, ok : BOOLEAN, tokens : Nat]
    /\ JournalCapacity \in Nat \ {0} /\ HoursPerDay \in Nat \ {0}
    /\ WeekDays \in Nat /\ MonthDays \in Nat /\ RetentionDays \in Nat
    /\ WeekDays <= MonthDays /\ MonthDays <= RetentionDays + 1
    /\ {MaxHours, MaxDuration, MaxRecords, MaxMishaps} \subseteq Nat
    \* No request lasts as long as its day is kept (90 days).
    /\ MaxDuration <= RetentionDays * HoursPerDay

Day(at) == at \div HoursPerDay
Days == 0 .. Day(MaxHours)
NoTotals == [requests |-> 0, failed |-> 0, tokens |-> 0]

JournalEntry == [at : 0 .. MaxHours, account : Accounts, model : Models,
                 ok : BOOLEAN, tokens : Nat]

VARIABLES
    hours,     \* the clock
    entries,   \* Journal.entries
    byDay,     \* Journal.byDay; a day without a bucket has NoTotals
    jdirty,    \* Journal.dirty
    jwake,     \* wakeCh holds its token
    jstop,     \* stopCh is closed
    jloop,     \* where flushLoop is
    jclose,    \* where Close is
    jflush,    \* where Flush is; the loop and Close never run it at once
    jsnap,     \* the snapshot Flush is about to write
    jfile,     \* the file; NoFile and an empty one load alike
    mishaps,   \* failed writes and restarts so far
    \* History: only properties read what follows.
    log,       \* every record that memory stands for, oldest first
    logged,    \* how many of them the snapshot and the file stand for
    unwoken    \* dirty stems from a failed write, and nothing was recorded since

contentVars == <<entries, byDay, log>>
flushVars == <<jflush, jsnap, jfile, logged>>
jloopVars == <<jstop, jloop, jclose>>
journalVars == <<hours, contentVars, jdirty, jwake, unwoken, jloopVars, flushVars, mishaps>>

-----------------------------------------------------------------------------
(* Totals and windows *)

Sum(f(_), s) == FoldSeq(LAMBDA e, acc : acc + f(e), 0, s)

\* aggregateEntries; Record adds one entry to its day the same way.
Tally(s) == [requests |-> Len(s),
             failed   |-> Len(SelectSeq(s, LAMBDA e : ~e.ok)),
             tokens   |-> Sum(LAMBDA e : e.tokens, s)]

Plus(a, b) == [c \in DOMAIN a |-> a[c] + b[c]]

OfDay(s, d) == SelectSeq(s, LAMBDA e : Day(e.at) = d)

LastOf(s, n) == IF Len(s) > n THEN SubSeq(s, Len(s) - n + 1, Len(s)) ELSE s

\* pruneRetention
PruneRetention(days, now) ==
    [d \in Days |-> IF d < Day(now) - RetentionDays THEN NoTotals ELSE days[d]]

\* The first day of the window: windowBounds, monthWindowOrWeek.
WindowFrom(range, now, days) ==
    LET month == Day(now) - MonthDays + 1
    IN  CASE range = "day" -> Day(now)
          [] range = "month" /\ \E d \in Days : d <= month /\ days[d].requests > 0 -> month
          [] OTHER -> Day(now) - WeekDays + 1

\* aggregateBuckets
BucketTotals(days, from, to) ==
    FoldSet(LAMBDA d, acc : Plus(acc, days[d]), NoTotals, Days \cap (from .. to))

-----------------------------------------------------------------------------
(* Queries *)

Ranges == {"day", "week", "month"}
NoFilter == "none"

MatchEntry(e, account, model) ==
    /\ model = NoFilter \/ e.model = model
    /\ account = NoFilter \/ e.account = account

\* The entries of the window, newest first.
Windowed(from, now) ==
    Reverse(SelectSeq(entries, LAMBDA e : Day(e.at) >= from /\ e.at <= now))

\* buildHourlySeries: the hours of today up to now.
HourlySeries(s, now) ==
    [h \in 0 .. (now % HoursPerDay) |->
        Sum(LAMBDA e : e.tokens,
            SelectSeq(s, LAMBDA e : Day(e.at) = Day(now) /\ e.at <= now /\ e.at % HoursPerDay = h))]

\* buildDailySeriesFromBuckets
DailySeries(days, from, now) ==
    [d \in from .. Day(now) |-> IF d \in Days THEN days[d].tokens ELSE 0]

\* buildModelStats, distinctFacets: over the window, whatever the filter.
ModelStats(s) ==
    [m \in {s[i].model : i \in DOMAIN s} |-> Tally(SelectSeq(s, LAMBDA e : e.model = m))]
Facets(s) == [accounts |-> {s[i].account : i \in DOMAIN s}, models |-> {s[i].model : i \in DOMAIN s}]

\* Query, without its page.  With a filter, totals and series come from the
\* ring; without one, from the buckets (the hours of a day from the ring).
View(range, account, model, now) ==
    LET from == WindowFrom(range, now, byDay)
        windowed == Windowed(from, now)
        filtered == account # NoFilter \/ model # NoFilter
        matched == SelectSeq(windowed, LAMBDA e : MatchEntry(e, account, model))
        ownDays == [d \in Days |-> Tally(OfDay(matched, d))]
    IN  [summary |-> IF filtered THEN Tally(matched) ELSE BucketTotals(byDay, from, Day(now)),
         series  |-> IF range = "day"
                       THEN HourlySeries(IF filtered THEN matched ELSE entries, now)
                       ELSE DailySeries(IF filtered THEN ownDays ELSE byDay, from, now),
         byModel |-> ModelStats(windowed),
         facets  |-> Facets(windowed),
         matched |-> matched]

\* The page of the matched entries: offset and end are cut to the total.
Page(matched, offset, limit) ==
    LET total == Len(matched)
        first == IF offset > total THEN total ELSE offset
        end == IF first + limit > total THEN total ELSE first + limit
    IN  SubSeq(matched, first + 1, end)

-----------------------------------------------------------------------------
(* Record *)

\* Record, under Journal.mu: the oldest entry makes room, the day of the
\* request's start grows, and markDirty kicks the loop.
Record(e) ==
    /\ entries' = Append(IF Len(entries) >= JournalCapacity THEN Tail(entries) ELSE entries, e)
    /\ byDay' = [byDay EXCEPT ![Day(e.at)] = Plus(@, Tally(<<e>>))]
    /\ log' = Append(log, e)
    /\ jdirty' = TRUE /\ jwake' = TRUE /\ unwoken' = FALSE

\* RecordChat: a request that started up to MaxDuration hours ago has ended.
\* Requests are served until the process ends, even while Close runs.
RecordChat ==
    /\ Len(log) < MaxRecords
    /\ jclose # "closed"
    /\ \E u \in Usages, at \in 0 .. hours :
          /\ hours - at <= MaxDuration
          /\ Record([at |-> at, account |-> u.account, model |-> u.model,
                     ok |-> u.ok, tokens |-> u.tokens])
    /\ UNCHANGED <<hours, jloopVars, flushVars, mishaps>>

-----------------------------------------------------------------------------
(* Flush *)

JournalFlushRest == <<hours, jwake, jloopVars, mishaps>>

\* Under Journal.mu: a dirty journal is pruned and copied, and dirty cleared.
FlushTakes ==
    /\ jflush = "begin"
    /\ jdirty
    /\ byDay' = PruneRetention(byDay, hours)
    /\ jsnap' = [entries |-> entries, byDay |-> byDay']
    /\ logged' = [logged EXCEPT !.snap = Len(log)]
    /\ jdirty' = FALSE /\ unwoken' = FALSE
    /\ jflush' = "write"
    /\ UNCHANGED <<JournalFlushRest, entries, log, jfile>>

FlushFindsClean ==
    /\ jflush = "begin"
    /\ ~jdirty
    /\ jflush' = "idle"
    /\ UNCHANGED <<JournalFlushRest, contentVars, jdirty, unwoken, jsnap, jfile, logged>>

\* writeDisk: the temp file is renamed over the journal.
FlushWrites ==
    /\ jflush = "write"
    /\ jfile' = jsnap
    /\ logged' = [logged EXCEPT !.file = logged.snap]
    /\ jflush' = "idle"
    /\ UNCHANGED <<JournalFlushRest, contentVars, jdirty, unwoken, jsnap>>

\* writeDisk fails: the file stays, and the journal is dirty again, but
\* nobody is woken.
FlushFails ==
    /\ jflush = "write"
    /\ mishaps < MaxMishaps
    /\ mishaps' = mishaps + 1
    /\ jdirty' = TRUE
    /\ unwoken' = (unwoken \/ ~jdirty)
    /\ jflush' = "idle"
    /\ UNCHANGED <<hours, jwake, jloopVars, contentVars, jsnap, jfile, logged>>

-----------------------------------------------------------------------------
(* flushLoop and Close *)

JournalRest == <<hours, contentVars, jdirty, unwoken, jsnap, jfile, logged, mishaps>>

\* <-wakeCh: start the 250 ms timer.
JournalWake ==
    /\ jloop = "select" /\ jwake
    /\ jloop' = "debounce" /\ jwake' = FALSE
    /\ UNCHANGED <<JournalRest, jstop, jclose, jflush>>

\* The timer: drain wakeCh, then Flush.
JournalTimer ==
    /\ jloop = "debounce"
    /\ jloop' = "flushing" /\ jwake' = FALSE /\ jflush' = "begin"
    /\ UNCHANGED <<JournalRest, jstop, jclose>>

\* <-stopCh, at either select: Flush, then leave.
JournalStop ==
    /\ jstop /\ jloop \in {"select", "debounce"}
    /\ jloop' = "exiting" /\ jflush' = "begin"
    /\ UNCHANGED <<JournalRest, jwake, jstop, jclose>>

\* Mutant: the token is taken back after the flush as well.
JournalFlushedDrains ==
    /\ jflush = "idle"
    /\ \/ jloop = "flushing" /\ jloop' = "select"
       \/ jloop = "exiting" /\ jloop' = "exited"
    /\ jwake' = FALSE
    /\ UNCHANGED <<JournalRest, jstop, jclose, jflush>>

\* Flush returned.
JournalFlushed ==
    /\ jflush = "idle"
    /\ \/ jloop = "flushing" /\ jloop' = "select"
       \/ jloop = "exiting" /\ jloop' = "exited"
    /\ UNCHANGED <<JournalRest, jwake, jstop, jclose, jflush>>

JournalClose ==
    /\ jclose = "open" /\ jclose' = "waiting"
    /\ jstop' = TRUE
    /\ UNCHANGED <<JournalRest, jwake, jloop, jflush>>

\* <-doneCh: what was recorded since the loop's last snapshot is flushed.
JournalCloseFlush ==
    /\ jclose = "waiting" /\ jloop = "exited"
    /\ jclose' = "flushing" /\ jflush' = "begin"
    /\ UNCHANGED <<JournalRest, jwake, jstop, jloop>>

JournalCloseDone ==
    /\ jclose = "flushing" /\ jflush = "idle"
    /\ jclose' = "closed"
    /\ UNCHANGED <<JournalRest, jwake, jstop, jloop, jflush>>

-----------------------------------------------------------------------------
(* The environment *)

\* A flush and its timer take milliseconds and read the clock once, when the
\* snapshot is taken: the clock stands still meanwhile.
HourPasses ==
    /\ hours < MaxHours
    /\ ~jwake /\ jloop \in {"select", "exited"} /\ jclose \in {"open", "closed"}
    /\ hours' = hours + 1
    /\ UNCHANGED <<contentVars, jdirty, jwake, unwoken, jloopVars, flushVars, mishaps>>

EmptyJournal == [entries |-> <<>>, byDay |-> [d \in Days |-> NoTotals]]

\* Mutant: only the ring is read back.
LoadForgetsDays(file) ==
    /\ entries' = LastOf(file.entries, JournalCapacity)
    /\ byDay' = [d \in Days |-> Tally(OfDay(file.entries, d))]

\* load: the last entries the ring has room for, and the days not too old.
Load(file) ==
    /\ entries' = LastOf(file.entries, JournalCapacity)
    /\ byDay' = PruneRetention(file.byDay, hours)

\* The process dies anywhere, or ends after Close, and Open reads the file.
JournalRestart ==
    /\ mishaps < MaxMishaps
    /\ mishaps' = mishaps + 1
    /\ Load(jfile)
    /\ log' = SubSeq(log, 1, logged.file)
    /\ logged' = [logged EXCEPT !.snap = 0]
    /\ jdirty' = FALSE /\ unwoken' = FALSE /\ jwake' = FALSE
    /\ jstop' = FALSE /\ jloop' = "select" /\ jclose' = "open"
    /\ jflush' = "idle" /\ jsnap' = EmptyJournal
    /\ UNCHANGED <<hours, jfile>>

JournalInit ==
    /\ hours = 0
    /\ entries = <<>> /\ byDay = EmptyJournal.byDay /\ log = <<>>
    /\ jdirty = FALSE /\ unwoken = FALSE /\ jwake = FALSE
    /\ jstop = FALSE /\ jloop = "select" /\ jclose = "open"
    /\ jflush = "idle" /\ jsnap = EmptyJournal /\ jfile = EmptyJournal
    /\ logged = [snap |-> 0, file |-> 0]
    /\ mishaps = 0

\* What the flush loop does while it is not told otherwise.
JournalLoop == JournalWake \/ JournalTimer \/ JournalStop \/ JournalFlushed
JournalFlush == FlushTakes \/ FlushFindsClean \/ FlushWrites \/ FlushFails
JournalClosing == JournalClose \/ JournalCloseFlush \/ JournalCloseDone

JournalNext ==
    \/ RecordChat
    \/ JournalFlush
    \/ JournalLoop
    \/ JournalClosing
    \/ HourPasses
    \/ JournalRestart

\* Goroutines run on: the loop, the writes and a Close that has begun.
JournalFairness ==
    /\ WF_journalVars(JournalLoop)
    /\ WF_journalVars(JournalFlush)
    /\ WF_journalVars(JournalCloseFlush \/ JournalCloseDone)

JournalSpec == JournalInit /\ [][JournalNext]_journalVars /\ JournalFairness

-----------------------------------------------------------------------------
(* Properties *)

JournalTotals == [requests : Nat, failed : Nat, tokens : Nat]
JournalContent == [entries : Seq(JournalEntry), byDay : [Days -> JournalTotals]]

\* Every variable has its type.
JournalTypeOK ==
    /\ hours \in 0 .. MaxHours
    /\ entries \in Seq(JournalEntry) /\ log \in Seq(JournalEntry)
    /\ byDay \in [Days -> JournalTotals]
    /\ {jdirty, unwoken, jwake, jstop} \subseteq BOOLEAN
    /\ jloop \in {"select", "debounce", "flushing", "exiting", "exited"}
    /\ jclose \in {"open", "waiting", "flushing", "closed"}
    /\ jflush \in {"idle", "begin", "write"}
    /\ jsnap \in JournalContent /\ jfile \in JournalContent
    /\ logged \in [snap : Nat, file : Nat]
    /\ mishaps \in Nat

\* The totals of the day d, counted record by record.
DayTotals(s, d) ==
    LET upto[n \in 0 .. Len(s)] ==
            IF n = 0 THEN NoTotals
            ELSE IF Day(s[n].at) = d THEN Plus(upto[n - 1], Tally(<<s[n]>>)) ELSE upto[n - 1]
    IN  upto[Len(s)]

\* The journal that the records s make, but for days too old to be kept.
StandsFor(content, s) ==
    /\ content.entries = LastOf(s, JournalCapacity)
    /\ \A d \in Days :
          \/ content.byDay[d] = DayTotals(s, d)
          \/ d < Day(hours) - RetentionDays /\ content.byDay[d] = NoTotals

\* Memory and the file each stand for a prefix of everything recorded: the
\* totals of a day outlive the ring, a crash loses the newest records and
\* nothing else, and nothing is counted twice (journal.go Record, persist.go
\* load and snapshotLocked).
JournalKeepsItsLog ==
    /\ StandsFor([entries |-> entries, byDay |-> byDay], log)
    /\ logged.file <= Len(log)
    /\ StandsFor(jfile, SubSeq(log, 1, logged.file))

\* What the administrator sees adds up: the models' totals never exceed the
\* day's and are equal to them while the ring has dropped nothing, a series
\* sums to its summary when both come from one source, and the pages are the
\* matched entries, each once, newest first (journal.go Query).  Judged while
\* the loop rests: a query writes nothing.
JournalViewsAgree ==
    jloop = "select" => \A range \in Ranges :
        LET all == View(range, NoFilter, NoFilter, hours)
            models == DOMAIN all.byModel
            parts == FoldSet(LAMBDA m, acc : Plus(acc, all.byModel[m]), NoTotals, models)
            points(series) == FoldSet(LAMBDA p, acc : acc + series[p], 0, DOMAIN series)
            pages == [i \in 1 .. Len(all.matched) + 1 |-> Page(all.matched, i - 1, 1)]
        IN  /\ \A c \in DOMAIN NoTotals : parts[c] <= all.summary[c]
            /\ Len(log) <= JournalCapacity => parts = all.summary
            /\ range # "day" => points(all.series) = all.summary.tokens
            /\ points(all.series) <= all.summary.tokens
            /\ \A m \in Models :
                  LET own == View(range, NoFilter, m, hours)
                  IN  /\ own.summary = IF m \in models THEN all.byModel[m] ELSE NoTotals
                      /\ points(own.series) = own.summary.tokens
            /\ FlattenSeq(pages) = all.matched

\* What the administrator sees is what happened, as far as it was kept.
JournalIsTrue == JournalKeepsItsLog /\ JournalViewsAgree

\* A recorded request reaches the file, unless its write fails or the process
\* ends first: the loop's token is never lost between two flushes
\* (persist.go flushLoop, kickFlush).
JournalGetsFlushed ==
    (jdirty /\ ~unwoken /\ jclose = "open")
        ~> (~jdirty \/ unwoken \/ jclose # "open")
=============================================================================
