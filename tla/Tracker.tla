------------------------------- MODULE Tracker -------------------------------
(***************************************************************************)
(* The concurrency tracker (internal/concurrency): how many upstream calls *)
(* each account has in flight, how many it began per minute, and what was  *)
(* in flight when an account was rate limited.                             *)
(*                                                                         *)
(* Time counts seconds, scaled down: a bucket spans BucketSeconds of them  *)
(* and an hour Hour.                                                       *)
(***************************************************************************)
EXTENDS Integers, SequencesExt

CONSTANTS
    Tracked,          \* account ids
    Flights,          \* goroutines that call upstream
    BucketSeconds,    \* bucketSeconds
    FiveMinutes, Hour,
    MaxEvents,        \* rate-limit events kept (200)
    MaxSeconds,       \* bound: the clock
    MaxBegins,        \* bound: calls begun
    MaxLimits,        \* bound: rate limits met
    MaxPanics         \* bound: calls that panic

ASSUME TrackerAssumption ==
    /\ {BucketSeconds, MaxEvents} \subseteq Nat \ {0}
    /\ {FiveMinutes, Hour, MaxSeconds, MaxBegins, MaxLimits, MaxPanics} \subseteq Nat
    /\ BucketSeconds <= FiveMinutes /\ FiveMinutes <= Hour
    /\ IsFiniteSet(Flights)

VARIABLES
    second,    \* the clock
    inFlight,  \* state.inFlight of each account
    global,    \* Tracker.global
    buckets,   \* state.buckets: per account, by the second a bucket begins
    events,    \* Tracker.events
    flight,    \* what each goroutine is doing: its account and when it began
    met,       \* rate limits and panics so far
    \* History: only properties read what follows.
    began,     \* calls begun, per account and bucket, never forgotten
    leaked     \* calls of each account that panicked before they ended

trackerVars == <<second, inFlight, global, buckets, events, flight, met, began, leaked>>

Keys == 0 .. MaxSeconds
NoBucket == [requests |-> 0, failures |-> 0, rateLimited |-> 0, peak |-> 0]
Grounded == [at |-> -1]
Airborne(f) == flight[f] # Grounded

BucketOf(at) == at - (at % BucketSeconds)

-----------------------------------------------------------------------------
(* Views *)

\* Mutant: a bucket goes once it is as old as the shortest window.
ForgetsTooSoon(now) ==
    [a \in Tracked |-> [k \in Keys |-> IF k < now - FiveMinutes THEN NoBucket ELSE buckets[a][k]]]

\* What Snapshot leaves of the buckets: those that began within the hour.
Kept(now) ==
    [a \in Tracked |-> [k \in Keys |-> IF k < now - Hour THEN NoBucket ELSE buckets[a][k]]]

\* The buckets that are younger than `span`.
Younger(now, span) == {k \in Keys : k <= now /\ now - k < span}

\* rpm1, rpm5, rpm60: their requests.
Rpm(a, now, span) ==
    SumFunction([k \in Younger(now, span) |-> buckets[a][k].requests])

\* The peak is over every bucket kept, the events over the last hour.
PeakInFlight(a, now) == Max({buckets[a][k].peak : k \in {k \in Keys : k >= now - Hour}})
RecentEvents(now) == SelectSeq(events, LAMBDA ev : ev.at >= now - Hour)

-----------------------------------------------------------------------------
(* Operations *)

Less(n) == IF n > 0 THEN n - 1 ELSE n

Calls == SumFunction([a \in Tracked |-> SumFunction(began[a])])

\* Begin, before the call to upstream.
Begin(f, a) ==
    LET k == BucketOf(second)
    IN  /\ ~Airborne(f) /\ Calls < MaxBegins
        /\ inFlight' = [inFlight EXCEPT ![a] = @ + 1]
        /\ global' = global + 1
        /\ buckets' = [buckets EXCEPT ![a][k].requests = @ + 1,
                                      ![a][k].peak = Max({@, inFlight[a] + 1})]
        /\ flight' = [flight EXCEPT ![f] = [at |-> second, account |-> a, limited |-> FALSE]]
        /\ began' = [began EXCEPT ![a][k] = @ + 1]
        /\ UNCHANGED <<second, events, met, leaked>>

\* endFlight: counted off the account and the total, and a failure noted in
\* the bucket the call began in, which is made anew if Snapshot dropped it.
End(f, ok) ==
    LET a == flight[f].account
        k == BucketOf(flight[f].at)
    IN  /\ Airborne(f)
        /\ ok => ~flight[f].limited
        /\ inFlight' = [inFlight EXCEPT ![a] = Less(@)]
        /\ global' = Less(global)
        /\ buckets' = IF ok THEN buckets ELSE [buckets EXCEPT ![a][k].failures = @ + 1]
        /\ flight' = [flight EXCEPT ![f] = Grounded]
        /\ UNCHANGED <<second, events, met, began, leaked>>

\* Upstream limited the call.  recordRateLimit takes the lock before
\* endFlight does; other calls begin and end in between.
RateLimited(f) ==
    LET a == flight[f].account
        ev == [at |-> second, account |-> a, own |-> inFlight[a], all |-> global]
        all == Append(events, ev)
    IN  /\ Airborne(f) /\ ~flight[f].limited
        /\ met.limits < MaxLimits
        /\ met' = [met EXCEPT !.limits = @ + 1]
        /\ events' = IF Len(all) > MaxEvents THEN Tail(all) ELSE all
        /\ buckets' = [buckets EXCEPT ![a][BucketOf(second)].rateLimited = @ + 1]
        /\ flight' = [flight EXCEPT ![f].limited = TRUE]
        /\ UNCHANGED <<second, inFlight, global, began, leaked>>

\* The call panics: recoverHandler answers the request, and nobody calls
\* endFlight.
Panic(f) ==
    /\ Airborne(f)
    /\ met.panics < MaxPanics
    /\ met' = [met EXCEPT !.panics = @ + 1]
    /\ leaked' = [leaked EXCEPT ![flight[f].account] = @ + 1]
    /\ flight' = [flight EXCEPT ![f] = Grounded]
    /\ UNCHANGED <<second, inFlight, global, buckets, events, began>>

\* Snapshot, which Summary is made from.
TrackerSnapshot ==
    /\ buckets' = Kept(second)
    /\ buckets' # buckets
    /\ UNCHANGED <<second, inFlight, global, events, flight, met, began, leaked>>

SecondPasses ==
    /\ second < MaxSeconds
    /\ second' = second + 1
    /\ UNCHANGED <<inFlight, global, buckets, events, flight, met, began, leaked>>

TrackerInit ==
    /\ second = 0
    /\ inFlight = [a \in Tracked |-> 0] /\ global = 0
    /\ buckets = [a \in Tracked |-> [k \in Keys |-> NoBucket]]
    /\ events = <<>>
    /\ flight = [f \in Flights |-> Grounded]
    /\ met = [limits |-> 0, panics |-> 0]
    /\ began = [a \in Tracked |-> [k \in Keys |-> 0]]
    /\ leaked = [a \in Tracked |-> 0]

TrackerNext ==
    \/ \E f \in Flights, a \in Tracked : Begin(f, a)
    \/ \E f \in Flights, ok \in BOOLEAN : End(f, ok)
    \/ \E f \in Flights : RateLimited(f) \/ Panic(f)
    \/ TrackerSnapshot
    \/ SecondPasses

TrackerSpec == TrackerInit /\ [][TrackerNext]_trackerVars

-----------------------------------------------------------------------------
(* Properties *)

Flying(a) == {f \in Flights : Airborne(f) /\ flight[f].account = a}

\* Every variable has its type.
TrackerTypeOK ==
    /\ second \in Keys
    /\ inFlight \in [Tracked -> Nat] /\ global \in Nat
    /\ buckets \in [Tracked -> [Keys -> [requests : Nat, failures : Nat, rateLimited : Nat, peak : Nat]]]
    /\ events \in Seq([at : Keys, account : Tracked, own : Nat, all : Nat])
    /\ flight \in [Flights -> {Grounded} \cup [at : Keys, account : Tracked, limited : BOOLEAN]]
    /\ met \in [limits : Nat, panics : Nat]
    /\ began \in [Tracked -> [Keys -> Nat]] /\ leaked \in [Tracked -> Nat]

\* What is shown in flight, of an account and of all of them, is what is in
\* flight, plus the calls that panicked; the requests shown for the last
\* minute, five minutes and hour are those that began then, whenever a snapshot
\* cleared old buckets; and a rate limit counts the call that met it
\* (tracker.go Begin, Snapshot, RecordRateLimit).
TrackerAddsUp ==
    /\ \A a \in Tracked : inFlight[a] = Cardinality(Flying(a)) + leaked[a]
    /\ global = Cardinality({f \in Flights : Airborne(f)}) + met.panics
    /\ \A a \in Tracked, span \in {BucketSeconds, FiveMinutes, Hour} :
          Rpm(a, second, span) = SumFunction([k \in Younger(second, span) |-> began[a][k]])
    /\ \A a \in Tracked : PeakInFlight(a, second) <= Cardinality(Flights) + leaked[a]
    /\ \A i \in DOMAIN events : events[i].own >= 1 /\ events[i].all >= events[i].own
=============================================================================
