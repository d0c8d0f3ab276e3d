---------------------------- MODULE SessionTables ----------------------------
(***************************************************************************)
(* The two tables of a session (internal/sessionpin): the account it is    *)
(* pinned to, and the conversation upstream knows it by.  Entries end with *)
(* their time, and the tables hold so many.  PoolRequest has the order in  *)
(* which requests use them; here is what the tables do on their own.       *)
(***************************************************************************)
EXTENDS Integers, FiniteSets

CONSTANTS
    TableKeys, TableAccounts,
    MaxEntries,   \* maxEntries
    TableTTL,     \* how long an entry lives
    MaxTableTime, \* bound: the clock
    MaxIDs        \* bound: conversations named

ASSUME TablesAssumption ==
    /\ MaxEntries \in Nat \ {0}
    /\ {TableTTL, MaxTableTime, MaxIDs} \subseteq Nat

VARIABLES
    tableTime,  \* the clock
    pinTable,   \* Table.m: account and end, by session
    convTable,  \* ConversationTable.m: account, ID and end, by session
    ids         \* conversations named so far

tableVars == <<tableTime, pinTable, convTable, ids>>

Without(table, keys) == [k \in DOMAIN table \ keys |-> table[k]]
With(table, k, entry) ==
    [o \in DOMAIN table \cup {k} |-> IF o = k THEN entry ELSE table[o]]
Expired(table) == {k \in DOMAIN table : tableTime > table[k].until}

\* Mutant: the newest entry goes.
NewestIn(table) == {k \in DOMAIN table : \A o \in DOMAIN table : table[o].until <= table[k].until}

\* Entries that end first; the map's order decides between them.
OldestIn(table) == {k \in DOMAIN table : \A o \in DOMAIN table : table[k].until <= table[o].until}

Full(table) == Cardinality(DOMAIN table) >= MaxEntries

\* evictExpiredLocked, then evictOldestLocked: what may be left.
MakeRoom(table) ==
    LET live == Without(table, Expired(table))
    IN  IF ~Full(table) THEN {table}
        ELSE IF ~Full(live) THEN {live}
        ELSE {Without(live, {k}) : k \in OldestIn(live)}

\* Remember makes room even for a key that is there.
Remember(k, a) ==
    /\ \E room \in MakeRoom(pinTable) :
         pinTable' = With(room, k, [account |-> a, until |-> tableTime + TableTTL])
    /\ UNCHANGED <<tableTime, convTable, ids>>

\* Lookup drops an entry that has ended.
Lookup(k) ==
    /\ k \in Expired(pinTable)
    /\ pinTable' = Without(pinTable, {k})
    /\ UNCHANGED <<tableTime, convTable, ids>>

Forget(k) ==
    /\ k \in DOMAIN pinTable
    /\ pinTable' = Without(pinTable, {k})
    /\ UNCHANGED <<tableTime, convTable, ids>>

Goes(k, a) == k \in DOMAIN convTable /\ tableTime < convTable[k].until /\ convTable[k].account = a

Prolonged(k) == [convTable[k] EXCEPT !.until = tableTime + TableTTL]

\* ID: the conversation goes on, or a new one replaces it.
ID(k, a) ==
    IF Goes(k, a)
      THEN /\ convTable' = [convTable EXCEPT ![k] = Prolonged(k)]
           /\ UNCHANGED <<tableTime, pinTable, ids>>
      ELSE /\ ids < MaxIDs /\ ids' = ids + 1
           /\ \E room \in MakeRoom(Without(convTable, {k})) :
                convTable' = With(room, k, [account |-> a, id |-> ids + 1,
                                            until |-> tableTime + TableTTL])
           /\ UNCHANGED <<tableTime, pinTable>>

TableTick ==
    /\ tableTime < MaxTableTime
    /\ tableTime' = tableTime + 1
    /\ UNCHANGED <<pinTable, convTable, ids>>

TablesInit ==
    /\ tableTime = 0
    /\ pinTable = [k \in {} |-> 0] /\ convTable = [k \in {} |-> 0]
    /\ ids = 0

TablesNext ==
    \/ \E k \in TableKeys :
          \/ \E a \in TableAccounts : Remember(k, a) \/ ID(k, a)
          \/ Lookup(k) \/ Forget(k)
    \/ TableTick

TablesSpec == TablesInit /\ [][TablesNext]_tableVars

-----------------------------------------------------------------------------
(* Properties *)

\* Nothing else in the table outlives the entry of k.
Eldest(table, k) == \A o \in DOMAIN table : table[k].until <= table[o].until

\* The tables keep what is alive: a pin or a conversation that has not ended is
\* lost only if it is forgotten, or if the table is full and none ends sooner;
\* and the conversation of a session changes its name only with its account or
\* once its time is up, however many requests of the session there are
\* (pin.go Remember, conversation.go ID).
LiveEntriesStay ==
    [][/\ \A k \in DOMAIN pinTable \ Expired(pinTable) :
            k \notin DOMAIN pinTable' =>
                Forget(k) \/ (Full(pinTable) /\ Eldest(pinTable, k))
       /\ \A k \in DOMAIN convTable \ Expired(convTable) :
            \/ k \notin DOMAIN convTable' /\ Full(convTable) /\ Eldest(convTable, k)
            \/ /\ k \in DOMAIN convTable'
               /\ \/ convTable'[k].id = convTable[k].id
                  \/ convTable'[k].account # convTable[k].account
                  \/ tableTime >= convTable[k].until
       /\ Cardinality(DOMAIN pinTable') <= MaxEntries
       /\ Cardinality(DOMAIN convTable') <= MaxEntries]_tableVars
=============================================================================
