----------------------------- MODULE AccountPool -----------------------------
(***************************************************************************)
(* Persistence of the account pool (internal/accounts/pool.go).            *)
(*                                                                         *)
(* Memory is authoritative while the process lives; the file is what       *)
(* survives a crash.  Three kinds of goroutine take a snapshot of memory   *)
(* under Pool.mu and write it to the file later, outside the mutex:        *)
(*   - Writers: handlers in Upsert, Delete, UpdateAccount, SetEnabled or   *)
(*     AssignProxies, which answer their caller once writeDisk returned;   *)
(*   - "loop": flushLoop, woken through the one-slot channel wakeCh;       *)
(*   - "closer": Close, which stops the loop and flushes once more.        *)
(* Select, MarkResult and ApplyQuotaState only touch memory (Mark).        *)
(*                                                                         *)
(* A row is reduced to what durability tells apart: `cred`, the version of *)
(* its credentials and administrator settings (0: no such account, as      *)
(* NormalizeStore and mergeByID skip rows without credentials), and `hot`, *)
(* the version of the counters and cooldowns that requests update.         *)
(***************************************************************************)
EXTENDS Naturals

CONSTANTS
    Ids,          \* account ids
    Writers,      \* goroutines that run synchronous mutators
    MaxCred,      \* bound: credential versions ever issued
    MaxHot,       \* bound: hot updates of one account
    MaxFaults,    \* bound: failing file operations
    MaxCrashes,   \* bound: process crashes and restarts
    MaxExternal   \* bound: accounts another program adds to the file

Flushers == {"loop", "closer"}
Persisters == Writers \cup Flushers

ASSUME BoundsAreNat ==
    /\ MaxCred \in Nat /\ MaxHot \in Nat /\ MaxFaults \in Nat
    /\ MaxCrashes \in Nat /\ MaxExternal \in Nat
ASSUME WritersAreHandlers ==
    /\ Writers \cap Flushers = {}
    /\ "acked" \notin Writers /\ "open" \notin Writers

Row == [cred : Nat, hot : Nat]
Absent == [cred |-> 0, hot |-> 0]
Store == [Ids -> Row]
Empty == [id \in Ids |-> Absent]

VARIABLES
    mem,       \* Pool.mem
    loaded,    \* Pool.loaded
    dirty,     \* Pool.dirty
    wake,      \* wakeCh holds its token
    stop,      \* stopCh is closed
    lpc,       \* where flushLoop is
    cpc,       \* where Close is
    stage,     \* what each persister is doing with its snapshot
    snap,      \* the snapshot a persister is about to write
    disk,      \* the accounts in the file
    issued,    \* credential versions issued so far
    budget,    \* faults, crashes and external edits used so far
    \* History: only properties read what follows.
    claim,     \* per account, its last mutation and whether it was acknowledged
    parked,    \* dirty stems from a failed write, and nothing kicked since
    newer,     \* <<p, q>>: q took a snapshot after p took the one it holds
    overtaken, \* persisters with a newer snapshot than theirs in the file
    stale,     \* flushers that read the file before its last change
    raced      \* one of the three races below has happened

memVars == <<mem, loaded, dirty, parked>>
loopVars == <<wake, stop, lpc, cpc>>
workVars == <<stage, snap>>
history == <<newer, overtaken, stale, raced>>
vars == <<memVars, loopVars, workVars, history, disk, issued, budget, claim>>

-----------------------------------------------------------------------------
(* Helpers *)

\* Mutant: the file's rows win over memory's.
MergeDiskWins(d, m) == [id \in Ids |-> IF d[id].cred # 0 THEN d[id] ELSE m[id]]

\* mergeByID: rows of m win; rows only the file has are appended.
Merge(d, m) == [id \in Ids |-> IF m[id].cred # 0 THEN m[id] ELSE d[id]]

\* ensureLoadedLocked: what the pool holds once the file has been read.
Current == IF loaded THEN mem ELSE disk

\* The dirty flag as ensureLoadedLocked leaves it.
CurrentDirty == loaded /\ dirty

Busy(p) == stage[p] # "idle"

\* p holds a snapshot it has not let go of.
Holding(p) == stage[p] \notin {"idle", "begin"}

\* Taking a snapshot under Pool.mu clears dirty.
TakeSnapshot(p, s, next) ==
    /\ snap' = [snap EXCEPT ![p] = s]
    /\ stage' = [stage EXCEPT ![p] = next]
    /\ dirty' = FALSE
    /\ parked' = FALSE
    /\ newer' = newer \cup {<<q, p>> : q \in {q \in Persisters \ {p} : Holding(q)}}

\* The rename in atomicwrite.Write: p's snapshot becomes the file.
Land(p) == disk' = snap[p]

\* p's operation returns; its snapshot is garbage.
Finish(p) ==
    /\ stage' = [stage EXCEPT ![p] = "idle"]
    /\ snap' = [snap EXCEPT ![p] = Empty]

\* The histories of the others once p's snapshot is in the file.
OvertakenBy(p) == overtaken \cup {q \in Persisters : <<q, p>> \in newer}
StaleAfter(p) == stale \cup {f \in Flushers \ {p} : stage[f] = "write"}

\* The history of a snapshot that is no more.
Forget(p) ==
    /\ newer' = {e \in newer : e[1] # p}
    /\ overtaken' = overtaken \ {p}
    /\ stale' = stale \ {p}

\* Mutant: the failure is returned, but the change is forgotten.
RedirtyForgotten == UNCHANGED <<dirty, parked>>

\* Setting dirty after a failed write, without a kick.
Redirty ==
    /\ dirty' = TRUE
    /\ parked' = (parked \/ ~dirty)

(* The three ways two persisters get in each other's way. *)
Overtakes(p) == p \in overtaken               \* p writes over a newer snapshot
StaleRead(f) == f \in stale                   \* f writes over a change it did not read
LateAbsorb(f) == \E q \in Persisters : <<f, q>> \in newer  \* f revises memory behind q's back

-----------------------------------------------------------------------------
(* Synchronous mutators: Upsert, UpdateAccount and its kin, Delete *)

\* Mutant: the snapshot is taken before the change.
MutateAfterSnapshot(w, id, row) ==
    /\ mem' = [Current EXCEPT ![id] = row]
    /\ loaded' = TRUE
    /\ TakeSnapshot(w, Current, "write")
    /\ claim' = [claim EXCEPT ![id] = [cred |-> row.cred, by |-> w]]
    /\ UNCHANGED <<loopVars, disk, overtaken, stale, raced, budget>>

\* The part of a mutator under Pool.mu: change memory, clear dirty, snapshot.
Mutate(w, id, row) ==
    LET s == [Current EXCEPT ![id] = row]
    IN  /\ mem' = s
        /\ loaded' = TRUE
        /\ TakeSnapshot(w, s, "write")
        /\ claim' = [claim EXCEPT ![id] = [cred |-> row.cred, by |-> w]]
        /\ UNCHANGED <<loopVars, disk, overtaken, stale, raced, budget>>

\* Upsert: a new account, or new credentials for the account it matches,
\* whose counters and cooldowns it keeps.
Upsert(w, id) ==
    /\ ~Busy(w)
    /\ issued < MaxCred
    /\ issued' = issued + 1
    /\ Mutate(w, id, [cred |-> issued + 1, hot |-> Current[id].hot])

\* UpdateAccount (SaveRefreshedToken), SetEnabled, AssignProxies: the account
\* must exist.
Update(w, id) ==
    /\ ~Busy(w)
    /\ issued < MaxCred
    /\ Current[id].cred # 0
    /\ issued' = issued + 1
    /\ Mutate(w, id, [cred |-> issued + 1, hot |-> Current[id].hot])

Delete(w, id) ==
    /\ ~Busy(w)
    /\ Current[id].cred # 0
    /\ UNCHANGED issued
    /\ Mutate(w, id, Absent)

\* writeDisk returned nil: the temp file was renamed over the pool file, one
\* writer at a time (persistMu), and the mutator answers its caller.
SyncWritten(w) ==
    /\ stage[w] = "write"
    /\ Land(w)
    /\ raced' = (raced \/ Overtakes(w))
    /\ newer' = {e \in newer : e[1] # w}
    /\ overtaken' = OvertakenBy(w) \ {w}
    /\ stale' = StaleAfter(w)
    /\ Finish(w)
    /\ claim' = [id \in Ids |-> IF claim[id].by = w
                                  THEN [claim[id] EXCEPT !.by = "acked"]
                                  ELSE claim[id]]
    /\ UNCHANGED <<memVars, loopVars, issued, budget>>

\* writeDisk failed; the old file is untouched (temp + rename).
WriteFails(p) ==
    /\ stage[p] = "write"
    /\ budget.faults < MaxFaults
    /\ budget' = [budget EXCEPT !.faults = @ + 1]
    /\ stage' = [stage EXCEPT ![p] = "failed"]
    /\ UNCHANGED <<memVars, loopVars, snap, history, disk, issued, claim>>

\* The mutator relocks, sets dirty and returns the error: nothing is promised.
SyncFailed(w) ==
    /\ stage[w] = "failed"
    /\ Redirty
    /\ Finish(w)
    /\ Forget(w)
    /\ claim' = [id \in Ids |-> IF claim[id].by = w
                                  THEN [claim[id] EXCEPT !.by = "open"]
                                  ELSE claim[id]]
    /\ UNCHANGED <<mem, loaded, loopVars, disk, issued, budget, raced>>

-----------------------------------------------------------------------------
(* Asynchronous updates *)

\* Mutant: dirty without a kick.
MarkWithoutKick(id) ==
    /\ Current[id].cred # 0
    /\ Current[id].hot < MaxHot
    /\ mem' = [Current EXCEPT ![id].hot = @ + 1]
    /\ loaded' = TRUE
    /\ dirty' = TRUE
    /\ parked' = FALSE
    /\ UNCHANGED <<loopVars, workVars, history, disk, issued, budget, claim>>

\* Select, MarkResult, ApplyQuotaState: memory only, then markDirtyLocked.
Mark(id) ==
    /\ Current[id].cred # 0
    /\ Current[id].hot < MaxHot
    /\ mem' = [Current EXCEPT ![id].hot = @ + 1]
    /\ loaded' = TRUE
    /\ dirty' = TRUE
    /\ parked' = FALSE
    /\ wake' = TRUE
    /\ UNCHANGED <<stop, lpc, cpc, workVars, history, disk, issued, budget, claim>>

-----------------------------------------------------------------------------
(* Flush, run by the loop and by Close *)

\* Under Pool.mu: nothing to do unless dirty, else snapshot.
FlushBegin(f) ==
    /\ stage[f] = "begin"
    /\ mem' = Current
    /\ loaded' = TRUE
    /\ \/ /\ CurrentDirty
          /\ TakeSnapshot(f, Current, "read")
       \/ /\ ~CurrentDirty
          /\ dirty' = FALSE
          /\ parked' = FALSE
          /\ stage' = [stage EXCEPT ![f] = "idle"]
          /\ UNCHANGED <<snap, newer>>
    /\ UNCHANGED <<loopVars, overtaken, stale, raced, disk, issued, budget, claim>>

\* readDisk, without a lock, and mergeByID of the file into the snapshot.
FlushRead(f) ==
    /\ stage[f] = "read"
    /\ snap' = [snap EXCEPT ![f] = Merge(disk, @)]
    /\ stage' = [stage EXCEPT ![f] = "write"]
    /\ UNCHANGED <<memVars, loopVars, history, disk, issued, budget, claim>>

\* readDisk failed: the flush goes on with its own snapshot.
FlushReadFails(f) ==
    /\ stage[f] = "read"
    /\ budget.faults < MaxFaults
    /\ budget' = [budget EXCEPT !.faults = @ + 1]
    /\ stage' = [stage EXCEPT ![f] = "write"]
    /\ UNCHANGED <<memVars, loopVars, snap, history, disk, issued, claim>>

FlushWritten(f) ==
    /\ stage[f] = "write"
    /\ Land(f)
    /\ raced' = (raced \/ Overtakes(f) \/ StaleRead(f))
    /\ overtaken' = OvertakenBy(f) /\ stale' = StaleAfter(f)
    /\ stage' = [stage EXCEPT ![f] = "absorb"]
    /\ UNCHANGED <<memVars, loopVars, snap, newer, issued, budget, claim>>

\* Back under Pool.mu: rows the file had and memory lacks join memory.
FlushAbsorb(f) ==
    /\ stage[f] = "absorb"
    /\ mem' = Merge(snap[f], mem)
    /\ loaded' = TRUE
    /\ raced' = (raced \/ (LateAbsorb(f) /\ mem' # mem))
    /\ Finish(f)
    /\ Forget(f)
    /\ UNCHANGED <<dirty, parked, loopVars, disk, issued, budget, claim>>

\* The write failed: dirty again, but nobody is woken.
FlushFailed(f) ==
    /\ stage[f] = "failed"
    /\ Redirty
    /\ Finish(f)
    /\ Forget(f)
    /\ UNCHANGED <<mem, loaded, loopVars, disk, issued, budget, claim, raced>>

-----------------------------------------------------------------------------
(* flushLoop *)

\* The only goroutine-private data of the loop is where it is.
LoopStep(from, to) == lpc = from /\ lpc' = to

StartFlush(f) == stage' = [stage EXCEPT ![f] = "begin"]

LoopRest == <<memVars, stop, cpc, snap, history, disk, issued, budget,
              claim>>

\* <-wakeCh: take the token, start the 250ms timer.
LoopWake ==
    /\ wake
    /\ wake' = FALSE
    /\ LoopStep("select", "debounce")
    /\ UNCHANGED <<LoopRest, stage>>

\* The timer fired: drain wakeCh, then Flush.
LoopTimer ==
    /\ LoopStep("debounce", "flushing")
    /\ wake' = FALSE
    /\ StartFlush("loop")
    /\ UNCHANGED LoopRest

\* Mutant: only the debounce listens to stopCh.
LoopStopInDebounceOnly ==
    /\ stop
    /\ LoopStep("debounce", "exiting")
    /\ StartFlush("loop")
    /\ UNCHANGED <<LoopRest, wake>>

\* <-stopCh, at either select: Flush, then leave.
LoopStop ==
    /\ stop
    /\ \/ LoopStep("select", "exiting")
       \/ LoopStep("debounce", "exiting")
    /\ StartFlush("loop")
    /\ UNCHANGED <<LoopRest, wake>>

\* Flush returned.
LoopFlushed ==
    /\ stage["loop"] = "idle"
    /\ \/ LoopStep("flushing", "select")
       \/ LoopStep("exiting", "exited")
    /\ UNCHANGED <<LoopRest, wake, stage>>

-----------------------------------------------------------------------------
(* Close, once *)

CloseRest == <<memVars, wake, lpc, snap, history, disk, issued, budget,
               claim>>

CloseStart ==
    /\ cpc = "open" /\ cpc' = "waiting"
    /\ stop' = TRUE
    /\ UNCHANGED <<CloseRest, stage>>

\* <-doneCh, then the last Flush.
CloseFlush ==
    /\ cpc = "waiting" /\ cpc' = "flushing"
    /\ lpc = "exited"
    /\ StartFlush("closer")
    /\ UNCHANGED <<CloseRest, stop>>

CloseDone ==
    /\ cpc = "flushing" /\ cpc' = "closed"
    /\ stage["closer"] = "idle"
    /\ UNCHANGED <<CloseRest, stop, stage>>

-----------------------------------------------------------------------------
(* The environment *)

\* Another program adds an account to the file.
External(id) ==
    /\ budget.external < MaxExternal
    /\ issued < MaxCred
    /\ disk[id].cred = 0 /\ Current[id].cred = 0
    /\ claim[id].by \notin Writers
    /\ budget' = [budget EXCEPT !.external = @ + 1]
    /\ issued' = issued + 1
    /\ disk' = [disk EXCEPT ![id] = [cred |-> issued + 1, hot |-> 0]]
    /\ claim' = [claim EXCEPT ![id] = [cred |-> issued + 1, by |-> "open"]]
    /\ UNCHANGED <<memVars, loopVars, workVars, history>>

\* The process dies, or exits after Close, and is started again: the file is
\* all that is left.
Restart ==
    /\ budget.crashes < MaxCrashes
    /\ budget' = [budget EXCEPT !.crashes = @ + 1]
    /\ mem' = Empty
    /\ loaded' = FALSE /\ dirty' = FALSE /\ parked' = FALSE
    /\ wake' = FALSE /\ stop' = FALSE
    /\ lpc' = "select" /\ cpc' = "open"
    /\ stage' = [p \in Persisters |-> "idle"]
    /\ snap' = [p \in Persisters |-> Empty]
    /\ newer' = {} /\ overtaken' = {} /\ stale' = {}
    /\ claim' = [id \in Ids |-> IF claim[id].by \in Writers
                                  THEN [claim[id] EXCEPT !.by = "open"]
                                  ELSE claim[id]]
    /\ UNCHANGED <<raced, disk, issued>>

-----------------------------------------------------------------------------

\* The file another run of the program left behind, or none.
Init ==
    /\ disk \in {Empty, [id \in Ids |-> [cred |-> 1, hot |-> 0]]}
    /\ issued = 1
    /\ mem = Empty
    /\ loaded = FALSE /\ dirty = FALSE /\ parked = FALSE
    /\ wake = FALSE /\ stop = FALSE
    /\ lpc = "select" /\ cpc = "open"
    /\ stage = [p \in Persisters |-> "idle"]
    /\ snap = [p \in Persisters |-> Empty]
    /\ budget = [faults |-> 0, crashes |-> 0, external |-> 0]
    /\ claim = [id \in Ids |-> [cred |-> disk[id].cred, by |-> "acked"]]
    /\ newer = {} /\ overtaken = {} /\ stale = {} /\ raced = FALSE

WriterStep(w) ==
    \/ \E id \in Ids : Upsert(w, id) \/ Update(w, id) \/ Delete(w, id)
    \/ SyncWritten(w)
    \/ WriteFails(w)
    \/ SyncFailed(w)

FlushStep(f) ==
    \/ FlushBegin(f)
    \/ FlushRead(f)
    \/ FlushReadFails(f)
    \/ FlushWritten(f)
    \/ WriteFails(f)
    \/ FlushAbsorb(f)
    \/ FlushFailed(f)

LoopControl == LoopWake \/ LoopTimer \/ LoopStop \/ LoopFlushed

CloseControl == CloseStart \/ CloseFlush \/ CloseDone

Next ==
    \/ \E w \in Writers : WriterStep(w)
    \/ \E f \in Flushers : FlushStep(f)
    \/ \E id \in Ids : Mark(id)
    \/ LoopControl
    \/ CloseControl
    \/ \E id \in Ids : External(id)
    \/ Restart

Spec == Init /\ [][Next]_vars

-----------------------------------------------------------------------------
(* Properties *)

\* The loop and Close are goroutines the scheduler keeps running, and every
\* file operation returns.  select picks at random among ready channels, so the
\* loop cannot pass over stopCh for ever.  Handlers and the environment are
\* under no duty.
Fairness ==
    /\ WF_vars(LoopControl)
    /\ SF_vars(LoopStop)
    /\ WF_vars(CloseFlush \/ CloseDone)
    /\ \A f \in Flushers : WF_vars(FlushStep(f))

FairSpec == Spec /\ Fairness

TypeOK ==
    /\ mem \in Store /\ disk \in Store
    /\ loaded \in BOOLEAN /\ dirty \in BOOLEAN /\ parked \in BOOLEAN
    /\ wake \in BOOLEAN /\ stop \in BOOLEAN
    /\ lpc \in {"select", "debounce", "flushing", "exiting", "exited"}
    /\ cpc \in {"open", "waiting", "flushing", "closed"}
    /\ stage \in [Persisters -> {"idle", "begin", "read", "write", "failed", "absorb"}]
    /\ snap \in [Persisters -> Store]
    /\ newer \subseteq Persisters \X Persisters
    /\ overtaken \subseteq Persisters /\ stale \subseteq Flushers /\ raced \in BOOLEAN
    /\ issued \in Nat
    /\ budget \in [faults : Nat, crashes : Nat, external : Nat]
    /\ claim \in [Ids -> [cred : Nat, by : Writers \cup {"acked", "open"}]]

\* A hot update is never stranded: while memory is dirty for any other reason
\* than a failed write, the loop has a token to find or is about to flush.
\* (markDirtyLocked against the select, debounce and drain of flushLoop.)
NoLostWakeup ==
    (dirty /\ ~parked) => \/ wake
                          \/ lpc = "debounce"
                          \/ stage["loop"] = "begin"

\* A mutation that was acknowledged is in the file (an acknowledged Delete:
\* is not in it), through later flushes, failed writes and crashes, unless one
\* of the three races happened.  (overview.md: these operations flush
\* synchronously, credentials must not be lost.)
AckedDurable ==
    ~raced => \A id \in Ids :
        claim[id].by = "acked" => disk[id].cred = claim[id].cred

\* Once nobody holds a snapshot and nothing is marked dirty, the file has every
\* account memory has, counters and cooldowns included, unless a race happened.
CleanMeansSaved ==
    (~raced /\ loaded /\ ~dirty /\ \A p \in Persisters : stage[p] \in {"idle", "begin"})
        => \A id \in Ids : mem[id].cred # 0 => disk[id] = mem[id]

\* What a step does to the accounts memory holds: none goes back to an older
\* version, and none goes away but by a Delete.
MemoryKept ==
    \A id \in Ids :
        (mem[id].cred # 0 /\ loaded')
            => \/ mem'[id].cred >= mem[id].cred /\ mem'[id].hot >= mem[id].hot
               \/ mem'[id].cred = 0 /\ claim'[id].cred = 0

\* Memory is authoritative: as long as the process lives, no step takes an
\* account's credentials or counters back to an older version, and only a
\* Delete takes the account away.  (A flush merges what it read from the file
\* long ago into memory.)
MemoryNeverRegresses == [][MemoryKept]_vars

\* Every hot update is picked up by a flush, unless a write fails or the pool
\* is being closed.
DirtyGetsFlushed == (dirty /\ ~parked) ~> (~dirty \/ parked \/ stop)

\* Close returns: the loop answers stopCh from wherever it is.
CloseReturns == stop ~> (cpc = "closed" \/ ~stop)

\* What overview.md:117 says of the synchronous mutators, without exception:
\* an acknowledged credential is in the file.
CredentialsNeverLost ==
    \A id \in Ids :
        (claim[id].by = "acked" /\ claim[id].cred # 0) => disk[id].cred = claim[id].cred

\* What CHANGELOG.md:393 says of Flush and Delete: a flush never brings back
\* an account whose deletion was acknowledged.
DeletedStaysDeleted ==
    \A id \in Ids :
        (claim[id].by = "acked" /\ claim[id].cred = 0 /\ loaded) => mem[id].cred = 0

-----------------------------------------------------------------------------
(* The inductive invariant behind AckedDurable: without a race, whatever may *)
(* still reach the file or memory agrees with what was acknowledged.         *)

\* The last mutation of id was acknowledged, or nothing newer is in the file
\* than the snapshot of the writer that still has to answer for it.
Settled(id) == claim[id].by = "acked"
Standing(id) == claim[id].by \in Writers /\ claim[id].by \notin overtaken

\* The loop and Close flush only where their code calls Flush.
FlushesInPlace ==
    /\ lpc \in {"select", "debounce", "exited"} => stage["loop"] = "idle"
    /\ cpc \in {"open", "waiting", "closed"} => stage["closer"] = "idle"

\* How snapshots, claims and the history variables fit together.
SnapshotOrder ==
    /\ \A id \in Ids : claim[id].by \in Writers => stage[claim[id].by] \in {"write", "failed"}
    /\ \A p, q \in Persisters :
          (p # q /\ Holding(p) /\ Holding(q)) => <<p, q>> \in newer \/ <<q, p>> \in newer
    /\ \A e \in newer : Holding(e[1])
    /\ \A p \in overtaken : \E q \in Persisters : <<p, q>> \in newer
    /\ ~loaded => \A p \in Persisters : ~Holding(p)

\* A flush that reached the file read it after its last change, and whoever
\* holds an older snapshot than its own knows to be overtaken.
LandedFlush ==
    \A f \in Flushers : stage[f] = "absorb" =>
        /\ f \notin stale
        /\ \A q \in Persisters : <<q, f>> \in newer => q \in overtaken

MemoryAgrees ==
    \A id \in Ids : Settled(id) \/ Standing(id) => Current[id].cred = claim[id].cred

FileAgrees ==
    \A id \in Ids : Settled(id) => disk[id].cred = claim[id].cred

\* A snapshot that can still be written over the file or merged into memory.
SnapshotsAgree ==
    \A p \in Persisters, id \in Ids :
        (stage[p] \in {"read", "write", "absorb"} /\ Settled(id))
            => snap[p][id].cred = claim[id].cred \/ p \in overtaken \/ p \in stale

\* A snapshot taken at or after an unanswered mutation holds that mutation,
\* until the flush that took it merges the file's rows into it.
SnapshotsFollow ==
    \A p \in Persisters, id \in Ids :
        (/\ Standing(id)
         /\ p = claim[id].by \/ <<claim[id].by, p>> \in newer
         /\ (p \in Writers /\ Holding(p)) \/ stage[p] = "read")
            => snap[p][id].cred = claim[id].cred

DurabilityInv ==
    /\ FlushesInPlace
    /\ SnapshotOrder
    /\ ~raced => LandedFlush /\ MemoryAgrees /\ FileAgrees /\ SnapshotsAgree /\ SnapshotsFollow

-----------------------------------------------------------------------------
(* The inductive invariant behind CleanMeansSaved: while nothing is dirty,   *)
(* what memory has is in the file or in a snapshot that will be written.     *)

Covers(s) == \A id \in Ids : mem[id].cred # 0 => s[id] = mem[id]

\* Nobody took a snapshot after p took its own.
Latest(p) == \A q \in Persisters : <<p, q>> \notin newer

\* p holds all that memory has, and has yet to write it or to answer for it.
Carries(p) == stage[p] \in {"read", "write", "failed"} /\ Latest(p) /\ Covers(snap[p])
Carried == \E p \in Persisters : Carries(p)

\* The file is up to date, and who may still write it is behind.
UpToDate ==
    /\ Covers(disk)
    /\ \A p \in Persisters : stage[p] \in {"read", "write"} => p \in overtaken

\* The rows a latest flush is about to bring into memory are in the file.
LandedLatest ==
    \A f \in Flushers : stage[f] = "absorb" /\ Latest(f) =>
        \A id \in Ids : snap[f][id].cred # 0 => disk[id] = snap[f][id]

SavedInv ==
    ~raced => /\ loaded /\ ~dirty => Carried \/ UpToDate
              /\ LandedLatest

=============================================================================
