----------------------------- MODULE StoredPool -----------------------------
(***************************************************************************)
(* The account pool is a DurableStore of credentials, until a race: here   *)
(* are AccountPool's steps with the history that the store has, what was   *)
(* put and what was promised, and the mapping of one to the other.         *)
(***************************************************************************)
EXTENDS AccountPool, Sequences

VARIABLES
    puts,      \* per account, the credentials put so far; 0 for a deletion
    promised,  \* per account, the last of them that was acknowledged
    ticket     \* per writer and account, which of them it is saving; 0 for none

putVars == <<puts, promised, ticket>>
storedVars == <<vars, putVars>>

NoTicket == [id \in Ids |-> 0]

\* Who is not about to write has nothing to promise.
TicketsOfWriting == [w \in Writers |-> IF stage'[w] = "write" THEN ticket[w] ELSE NoTicket]

PutBy(w, id) ==
    /\ puts' = [puts EXCEPT ![id] = Append(@, mem'[id].cred)]
    /\ ticket' = [ticket EXCEPT ![w] = [NoTicket EXCEPT ![id] = Len(puts[id]) + 1]]
    /\ UNCHANGED promised

PutInFile(id) ==
    /\ puts' = [puts EXCEPT ![id] = Append(@, disk'[id].cred)]
    /\ UNCHANGED <<promised, ticket>>

Larger(m, n) == IF m > n THEN m ELSE n

Promise(w) ==
    /\ promised' = [id \in Ids |-> Larger(promised[id], ticket[w][id])]
    /\ ticket' = TicketsOfWriting
    /\ UNCHANGED puts

\* The steps that neither put nor acknowledge.
Quiet ==
    \/ \E w \in Writers : WriteFails(w) \/ SyncFailed(w)
    \/ \E f \in Flushers : FlushStep(f)
    \/ \E id \in Ids : Mark(id)
    \/ LoopControl
    \/ CloseControl
    \/ Restart

\* The history ends with a race: nothing is promised from then on.
Forgotten ==
    /\ puts' = [id \in Ids |-> <<>>]
    /\ promised' = [id \in Ids |-> 0]
    /\ ticket' = [w \in Writers |-> NoTicket]

StoredInit ==
    /\ Init
    /\ puts = [id \in Ids |-> <<disk[id].cred>>]
    /\ promised = [id \in Ids |-> 1]
    /\ ticket = [w \in Writers |-> NoTicket]

Puts == \E w \in Writers, id \in Ids :
            (Upsert(w, id) \/ Update(w, id) \/ Delete(w, id)) /\ PutBy(w, id)

StoredNext ==
    \/ Puts /\ ~raced'
    \/ \E id \in Ids : External(id) /\ PutInFile(id) /\ ~raced'
    \/ \E w \in Writers : SyncWritten(w) /\ Promise(w) /\ ~raced'
    \/ Quiet /\ ticket' = TicketsOfWriting /\ UNCHANGED <<puts, promised>> /\ ~raced'
    \/ Next /\ Forgotten /\ raced'

StoredSpec == StoredInit /\ [][StoredNext]_storedVars

-----------------------------------------------------------------------------
(* The store, and what keeps it *)

StoredVersions == {0, 1} \cup 1 .. MaxCred

CredsOf(s) == [id \in Ids |-> s[id].cred]

Durable == INSTANCE DurableStore WITH
               Versions <- StoredVersions,
               file     <- CredsOf(disk),
               memory   <- CredsOf(Current)

\* Until a race happens, whatever the pool does is what the store may do: an
\* acknowledged change stays in file and memory, and what was not acknowledged
\* is there or is not, but never what was before the last acknowledged one
\* (pool.go Upsert, Delete, UpdateAccount; docs/architecture/overview.md).
StoreUntilRaced == Durable!Init /\ [][raced' \/ Durable!Next]_(Durable!storeVars)

\* v was put as the n-th or later of q.
PutSince(v, q, n) == \E k \in 1 .. Len(q) : k >= n /\ q[k] = v

\* s has nothing older than what was promised, or than what w is saving.
Fresh(s) == \A id \in Ids : PutSince(s[id].cred, puts[id], promised[id])
Has(s, w) == \A id \in Ids : PutSince(s[id].cred, puts[id], ticket[w][id])

PutsOK ==
    /\ puts \in [Ids -> Seq(StoredVersions)]
    /\ promised \in [Ids -> Nat]
    /\ ticket \in [Writers -> [Ids -> Nat]]

\* What may still reach the file or memory has nothing older than was promised.
AllFresh ==
    /\ Fresh(Current) /\ Fresh(disk)
    /\ \A p \in Persisters :
          stage[p] \in {"read", "write", "absorb"} =>
              Fresh(snap[p]) \/ p \in overtaken \/ p \in stale

\* A put that may yet be promised is in memory, and in every snapshot taken
\* since, until the flush that took it merges the file's rows into it.
PutsFollow ==
    \A w \in Writers : stage[w] = "write" /\ w \notin overtaken =>
        /\ Has(Current, w)
        /\ \A p \in Persisters :
              (/\ p = w \/ <<w, p>> \in newer
               /\ stage[p] = "read" \/ (p \in Writers /\ stage[p] \in {"write", "absorb"}))
                  => Has(snap[p], w)

StoredInv == ~raced => PutsOK /\ AllFresh /\ PutsFollow
=============================================================================
