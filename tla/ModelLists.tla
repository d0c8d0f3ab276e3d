----------------------------- MODULE ModelLists -----------------------------
(***************************************************************************)
(* The model catalogue (gateway listModelsForSite, models_flight.go,       *)
(* models.Lister): a cache of a minute, one flight at a time for each      *)
(* cache key, and the console hosts that are passed over for ten minutes   *)
(* after they failed.                                                      *)
(*                                                                         *)
(* A catalogue is the time it came in: only its age matters here.  Time    *)
(* passes only while somebody waits for upstream, or nobody runs at all.   *)
(***************************************************************************)
EXTENDS Integers

CONSTANTS
    CacheKeys,      \* site, product, account and portal together
    Hosts,          \* console hosts, shared by the keys
    CacheTTL,       \* modelsCacheTTL
    FailTTL,        \* consoleFailTTL
    MaxClock,       \* bound: the clock
    MaxLists        \* bound: listings

ASSUME ModelListsAssumption ==
    {CacheTTL, FailTTL, MaxClock, MaxLists} \subseteq Nat

Listers == 1 .. MaxLists   \* listings, each in a goroutine of its own
NoFlight == 0
NothingCached == -1

VARIABLES
    clock,
    cache,      \* Service.modelsCache: a catalogue, and until when it counts
    flight,     \* modelsFlight.m: who leads the flight of a key
    badUntil,   \* Lister.badUntil
    lister,     \* where each listing is, and what it has
    lists       \* listings so far

modelVars == <<clock, cache, flight, badUntil, lister, lists>>

AtRest == [pc |-> "idle"]
Cached(k) == cache[k].catalogue # NothingCached /\ clock <= cache[k].until
Blocked(host) == clock < badUntil[host]

\* Those that ask upstream, or wait for one that does.
Asking == {l \in Listers : lister[l].pc \in {"console", "fallback"}}
Waiting(l) == lister[l].pc = "waiting"

\* A listing returns: `answer` is only looked at by properties.
Returned(l, catalogue) ==
    [pc |-> "returned", key |-> lister[l].key, fresh |-> lister[l].fresh,
     since |-> lister[l].since, answer |-> catalogue]

-----------------------------------------------------------------------------

\* listModelsForSite, up to the first look at the cache, which a fresh listing
\* does not take.
ListModels(l, k, fresh) ==
    /\ l = lists + 1 /\ lists' = l
    /\ lister' = [lister EXCEPT ![l] =
         IF ~fresh /\ Cached(k)
           THEN [pc |-> "returned", key |-> k, fresh |-> fresh, since |-> clock,
                 answer |-> cache[k].catalogue]
           ELSE [pc |-> "missed", key |-> k, fresh |-> fresh, since |-> clock]]
    /\ UNCHANGED <<clock, cache, flight, badUntil>>

\* Do: join the flight of the key, even one that has landed but is still in the
\* map, or lead a new one.
Join(l) ==
    LET leader == flight[lister[l].key]
    IN  /\ lister[l].pc = "missed"
        /\ leader # NoFlight
        /\ lister' = [lister EXCEPT ![l] =
             IF lister[leader].pc = "landed" THEN Returned(l, lister[leader].catalogue)
             ELSE [pc |-> "waiting", key |-> @.key, fresh |-> @.fresh, since |-> @.since]]
        /\ UNCHANGED <<clock, cache, flight, badUntil, lists>>

Lead(l) ==
    /\ lister[l].pc = "missed"
    /\ flight[lister[l].key] = NoFlight
    /\ flight' = [flight EXCEPT ![lister[l].key] = l]
    /\ lister' = [lister EXCEPT ![l].pc = "leading"]
    /\ UNCHANGED <<clock, cache, badUntil, lists>>

\* What the leader does first: another look at the cache.
LooksAgain(l) == ~lister[l].fresh /\ Cached(lister[l].key)

\* wg.Done: whoever waits has the same answer.
Land(l, catalogue) ==
    lister' = [m \in Listers |->
        CASE m = l -> [pc |-> "landed", key |-> lister[l].key, fresh |-> lister[l].fresh,
                       since |-> lister[l].since, catalogue |-> catalogue]
          [] m # l /\ Waiting(m) /\ flight[lister[m].key] = l -> Returned(m, catalogue)
          [] OTHER -> lister[m]]

LandsWithCached(l) ==
    /\ lister[l].pc = "leading" /\ LooksAgain(l)
    /\ Land(l, cache[lister[l].key].catalogue)
    /\ UNCHANGED <<clock, cache, flight, badUntil, lists>>

\* fetchConsole picks the hosts it asks, all of them for a fresh listing.
AsksConsole(l) ==
    /\ lister[l].pc = "leading" /\ ~LooksAgain(l)
    /\ lister' = [lister EXCEPT ![l] =
         [pc |-> "console", key |-> @.key, fresh |-> @.fresh, since |-> @.since,
          hosts |-> IF lister[l].fresh THEN Hosts ELSE {host \in Hosts : ~Blocked(host)}]]
    /\ UNCHANGED <<clock, cache, flight, badUntil, lists>>

\* Mutant: a catalogue is kept a tick longer than its minute.
KeptLonger(k) == cache' = [cache EXCEPT ![k] = [catalogue |-> clock, until |-> clock + CacheTTL + 1]]

\* What List returned is kept for a minute.
Kept(k) == cache' = [cache EXCEPT ![k] = [catalogue |-> clock, until |-> clock + CacheTTL]]

\* The hosts answer: with models, with none, or they fail, which marks them.
\* If the client of the leader has left, all of them fail.
ConsoleAnswers(l, failed, good) ==
    LET k == lister[l].key
    IN  /\ lister[l].pc = "console"
        /\ failed \cup good \subseteq lister[l].hosts /\ failed \cap good = {}
        /\ badUntil' = [host \in Hosts |-> CASE host \in failed -> clock + FailTTL
                                             [] host \in good -> 0
                                             [] OTHER -> badUntil[host]]
        /\ IF good # {}
             THEN Kept(k) /\ Land(l, clock)
             ELSE lister' = [lister EXCEPT ![l].pc = "fallback"] /\ UNCHANGED cache
        /\ UNCHANGED <<clock, flight, lists>>

\* fetchV3, the older paths, or "auto" alone: that is a success as well.
FallbackAnswers(l) ==
    /\ lister[l].pc = "fallback"
    /\ Kept(lister[l].key) /\ Land(l, clock)
    /\ UNCHANGED <<clock, flight, badUntil, lists>>

\* Mutant: the flight is left in the map.
NotTakenOut(k) == flight' = flight

TakenOut(k) == flight' = [flight EXCEPT ![k] = NoFlight]

Leave(l) ==
    /\ lister[l].pc = "landed"
    /\ TakenOut(lister[l].key)
    /\ lister' = [lister EXCEPT ![l] = Returned(l, lister[l].catalogue)]
    /\ UNCHANGED <<clock, cache, badUntil, lists>>

\* A switch of site or product empties the cache.
InvalidateModels ==
    /\ \E k \in CacheKeys : cache[k].catalogue # NothingCached
    /\ cache' = [k \in CacheKeys |-> [catalogue |-> NothingCached, until |-> 0]]
    /\ UNCHANGED <<clock, flight, badUntil, lister, lists>>

Running == {l \in Listers : lister[l].pc \in {"missed", "leading", "landed"}}

ClockTicks ==
    /\ Running = {} /\ clock < MaxClock
    /\ clock' = clock + 1
    /\ UNCHANGED <<cache, flight, badUntil, lister, lists>>

ModelsInit ==
    /\ clock = 0
    /\ cache = [k \in CacheKeys |-> [catalogue |-> NothingCached, until |-> 0]]
    /\ flight = [k \in CacheKeys |-> NoFlight]
    /\ badUntil = [host \in Hosts |-> 0]
    /\ lister = [l \in Listers |-> AtRest]
    /\ lists = 0

\* What a listing does of itself, and what upstream owes it: the calls time out.
Proceed(l) ==
    \/ Join(l) \/ Lead(l) \/ LandsWithCached(l) \/ AsksConsole(l)
    \/ \E failed, good \in SUBSET Hosts : ConsoleAnswers(l, failed, good)
    \/ FallbackAnswers(l) \/ Leave(l)

ModelsNext ==
    \/ \E l \in Listers :
          \/ \E k \in CacheKeys, fresh \in BOOLEAN : ListModels(l, k, fresh)
          \/ Proceed(l)
    \/ InvalidateModels
    \/ ClockTicks

ModelsFairness == \A l \in Listers : WF_modelVars(Proceed(l))

ModelsSpec == ModelsInit /\ [][ModelsNext]_modelVars /\ ModelsFairness

-----------------------------------------------------------------------------
(* Properties *)

Answered == {l \in Listers : lister[l].pc = "returned"}

\* The catalogue of a listing came in at most the time of the cache before the
\* listing, also when it has travelled through the cache and through the flights
\* of others; that of a fresh listing not before it, even if it joins a flight
\* that is not fresh (service.go listModelsForSite, models_flight.go Do).
ListingsAreYoung ==
    \A l \in Answered :
        lister[l].answer + (IF lister[l].fresh THEN 0 ELSE CacheTTL) >= lister[l].since

\* One flight at a time asks upstream for a key (models_flight.go:9).
OneFlightPerKey ==
    \A l, m \in Asking : lister[l].key = lister[m].key => l = m

\* Every listing returns, those that wait for others too.
ListingsReturn ==
    \A l \in Listers : lister[l].pc = "missed" ~> lister[l].pc = "returned"
=============================================================================
