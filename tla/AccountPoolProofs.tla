-------------------------- MODULE AccountPoolProofs --------------------------
(* Theorems about AccountPool and StoredPool, for any number of accounts and handlers. *)
EXTENDS StoredPool, TLAPS

-----------------------------------------------------------------------------
(* Facts about rows and stores *)

LEMMA AbsentIsRow == Absent \in Row
  BY DEF Absent, Row

LEMMA EmptyIsStore == Empty \in Store
  BY AbsentIsRow DEF Empty, Store

\* mergeByID of two stores is a store.
LEMMA MergeIsStore ==
  ASSUME NEW d \in Store, NEW m \in Store
  PROVE  Merge(d, m) \in Store
  BY DEF Merge, Store

\* What the pool holds once it is loaded is a store.
LEMMA CurrentIsStore == TypeOK => Current \in Store
  BY DEF TypeOK, Current

-----------------------------------------------------------------------------
(* Type correctness *)

LEMMA TypeInit == Init => TypeOK
  <1> SUFFICES ASSUME Init PROVE TypeOK
    OBVIOUS
  <1>1. disk \in Store
    <2>1. [id \in Ids |-> [cred |-> 1, hot |-> 0]] \in Store
      BY DEF Store, Row
    <2> QED BY <2>1, EmptyIsStore DEF Init
  <1>2. mem \in Store /\ snap \in [Persisters -> Store]
    BY EmptyIsStore DEF Init
  <1>3. claim \in [Ids -> [cred : Nat, by : Writers \cup {"acked", "open"}]]
    BY <1>1 DEF Init, Store, Row
  <1> QED BY <1>1, <1>2, <1>3 DEF Init, TypeOK

LEMMA MutateType ==
  ASSUME TypeOK, NEW w \in Writers, NEW id \in Ids, NEW row \in Row, Mutate(w, id, row),
         issued' \in Nat
  PROVE  TypeOK'
  <1> DEFINE s == [Current EXCEPT ![id] = row]
  <1>1. s \in Store
    BY CurrentIsStore DEF Store
  <1>2. w \in Persisters
    BY DEF Persisters
  <1>3. /\ mem' = s /\ snap' = [snap EXCEPT ![w] = s]
        /\ stage' = [stage EXCEPT ![w] = "write"]
        /\ loaded' = TRUE /\ dirty' = FALSE /\ parked' = FALSE
        /\ newer' = newer \cup {<<q, w>> : q \in {q \in Persisters \ {w} : Holding(q)}}
        /\ claim' = [claim EXCEPT ![id] = [cred |-> row.cred, by |-> w]]
        /\ UNCHANGED <<loopVars, disk, overtaken, stale, raced, budget>>
    BY DEF Mutate, TakeSnapshot
  <1>4. newer' \subseteq Persisters \X Persisters
    BY <1>2, <1>3 DEF TypeOK
  <1>5. claim' \in [Ids -> [cred : Nat, by : Writers \cup {"acked", "open"}]]
    BY <1>3 DEF TypeOK, Row
  <1>6. snap' \in [Persisters -> Store] /\ mem' \in Store
    BY <1>1, <1>3 DEF TypeOK
  <1>7. stage' \in [Persisters -> {"idle", "begin", "read", "write", "failed", "absorb"}]
    BY <1>3 DEF TypeOK
  <1> HIDE DEF s
  <1> QED BY <1>3, <1>4, <1>5, <1>6, <1>7 DEF TypeOK, loopVars

LEMMA TypeStep == TypeOK /\ [Next]_vars => TypeOK'
  <1> SUFFICES ASSUME TypeOK, [Next]_vars PROVE TypeOK'
    OBVIOUS
  <1> USE DEF loopVars, memVars, workVars, history
  <1> DEFINE Stages == {"idle", "begin", "read", "write", "failed", "absorb"}
  <1>0. /\ Current \in Store /\ Absent \in Row /\ Empty \in Store
        /\ "loop" \in Persisters /\ "closer" \in Persisters
        /\ Flushers \subseteq Persisters /\ Writers \subseteq Persisters
    BY CurrentIsStore, AbsentIsRow, EmptyIsStore DEF Persisters, Flushers
  <1>1. ASSUME NEW w \in Writers, NEW id \in Ids, Upsert(w, id) \/ Update(w, id)
        PROVE  TypeOK'
    <2>1. [cred |-> issued + 1, hot |-> Current[id].hot] \in Row
      BY <1>0 DEF TypeOK, Store, Row
    <2>2. issued' \in Nat /\ Mutate(w, id, [cred |-> issued + 1, hot |-> Current[id].hot])
      BY <1>1 DEF Upsert, Update, TypeOK
    <2> QED BY <2>1, <2>2, MutateType
  <1>2. ASSUME NEW w \in Writers, NEW id \in Ids, Delete(w, id)
        PROVE  TypeOK'
    BY <1>0, <1>2, MutateType DEF Delete, TypeOK
  <1>3. ASSUME NEW w \in Writers, SyncWritten(w)
        PROVE  TypeOK'
    <2>1. /\ disk' = snap[w]
          /\ newer' = {e \in newer : e[1] # w}
          /\ overtaken' = OvertakenBy(w) \ {w}
          /\ stale' = StaleAfter(w)
          /\ raced' = (raced \/ Overtakes(w))
          /\ stage' = [stage EXCEPT ![w] = "idle"]
          /\ snap' = [snap EXCEPT ![w] = Empty]
          /\ claim' = [id \in Ids |-> IF claim[id].by = w
                                        THEN [claim[id] EXCEPT !.by = "acked"] ELSE claim[id]]
          /\ UNCHANGED <<memVars, loopVars, issued, budget>>
      BY <1>3 DEF SyncWritten, Land, Finish
    <2>2. disk' \in Store /\ snap' \in [Persisters -> Store] /\ stage' \in [Persisters -> Stages]
      BY <1>0, <2>1 DEF TypeOK
    <2>3. overtaken' \subseteq Persisters /\ stale' \subseteq Flushers /\ raced' \in BOOLEAN
      BY <2>1 DEF TypeOK, OvertakenBy, StaleAfter, Overtakes
    <2>4. claim' \in [Ids -> [cred : Nat, by : Writers \cup {"acked", "open"}]]
      BY <2>1 DEF TypeOK
    <2> QED BY <2>1, <2>2, <2>3, <2>4 DEF TypeOK
  <1>4. ASSUME NEW p \in Persisters, WriteFails(p)
        PROVE  TypeOK'
    BY <1>4 DEF WriteFails, TypeOK
  <1>5. ASSUME NEW w \in Writers, SyncFailed(w)
        PROVE  TypeOK'
    <2>1. claim' \in [Ids -> [cred : Nat, by : Writers \cup {"acked", "open"}]]
      BY <1>5 DEF SyncFailed, TypeOK
    <2>2. stage' \in [Persisters -> Stages] /\ snap' \in [Persisters -> Store]
      BY <1>0, <1>5 DEF SyncFailed, Finish, TypeOK
    <2> QED BY <1>5, <2>1, <2>2 DEF SyncFailed, Redirty, Forget, TypeOK
  <1>6. ASSUME NEW id \in Ids, Mark(id)
        PROVE  TypeOK'
    <2>1. mem' \in Store
      BY <1>0, <1>6 DEF Mark, Store, Row
    <2> QED BY <1>6, <2>1 DEF Mark, TypeOK
  <1>7. ASSUME NEW f \in Flushers, FlushBegin(f)
        PROVE  TypeOK'
    <2>1. newer' \subseteq Persisters \X Persisters
      BY <1>0, <1>7 DEF FlushBegin, TakeSnapshot, TypeOK
    <2>2. stage' \in [Persisters -> Stages] /\ snap' \in [Persisters -> Store]
      BY <1>0, <1>7 DEF FlushBegin, TakeSnapshot, TypeOK
    <2> QED BY <1>0, <1>7, <2>1, <2>2 DEF FlushBegin, TakeSnapshot, TypeOK
  <1>8. ASSUME NEW f \in Flushers, FlushRead(f)
        PROVE  TypeOK'
    <2>1. Merge(disk, snap[f]) \in Store
      BY <1>0, MergeIsStore DEF TypeOK
    <2> QED BY <1>8, <2>1 DEF FlushRead, TypeOK
  <1>9. ASSUME NEW f \in Flushers, FlushReadFails(f)
        PROVE  TypeOK'
    <2>1. budget' \in [faults : Nat, crashes : Nat, external : Nat]
      BY <1>9 DEF FlushReadFails, TypeOK
    <2>2. stage' \in [Persisters -> Stages]
      BY <1>0, <1>9 DEF FlushReadFails, TypeOK
    <2> QED BY <1>9, <2>1, <2>2 DEF FlushReadFails, TypeOK
  <1>10. ASSUME NEW f \in Flushers, FlushWritten(f)
        PROVE  TypeOK'
    <2>1. overtaken' \subseteq Persisters /\ stale' \subseteq Flushers
      BY <1>10 DEF FlushWritten, OvertakenBy, StaleAfter, TypeOK
    <2>2. raced' \in BOOLEAN
      BY <1>10 DEF FlushWritten, Overtakes, StaleRead, TypeOK
    <2> QED BY <1>0, <1>10, <2>1, <2>2 DEF FlushWritten, Land, TypeOK
  <1>11. ASSUME NEW f \in Flushers, FlushAbsorb(f)
        PROVE  TypeOK'
    <2>1. mem' \in Store
      BY <1>0, <1>11, MergeIsStore DEF FlushAbsorb, TypeOK
    <2>2. stage' \in [Persisters -> Stages] /\ snap' \in [Persisters -> Store]
      BY <1>0, <1>11 DEF FlushAbsorb, Finish, TypeOK
    <2>3. raced' \in BOOLEAN
      BY <1>11 DEF FlushAbsorb, LateAbsorb, TypeOK
    <2> QED BY <1>11, <2>1, <2>2, <2>3 DEF FlushAbsorb, Forget, TypeOK
  <1>12. ASSUME NEW f \in Flushers, FlushFailed(f)
        PROVE  TypeOK'
    <2>1. stage' \in [Persisters -> Stages] /\ snap' \in [Persisters -> Store]
      BY <1>0, <1>12 DEF FlushFailed, Finish, TypeOK
    <2> QED BY <1>12, <2>1 DEF FlushFailed, Redirty, Forget, TypeOK
  <1>13. CASE LoopControl
    BY <1>0, <1>13 DEF LoopControl, LoopWake, LoopTimer, LoopStop, LoopFlushed, LoopStep, LoopRest,
         StartFlush, TypeOK
  <1>14. CASE CloseControl
    BY <1>0, <1>14 DEF CloseControl, CloseStart, CloseFlush, CloseDone, CloseRest, StartFlush,
         TypeOK
  <1>15. ASSUME NEW id \in Ids, External(id)
        PROVE  TypeOK'
    <2>1. disk' \in Store
      BY <1>15 DEF External, TypeOK, Store, Row
    <2>2. claim' \in [Ids -> [cred : Nat, by : Writers \cup {"acked", "open"}]]
      BY <1>15 DEF External, TypeOK
    <2> QED BY <1>15, <2>1, <2>2 DEF External, TypeOK
  <1>16. CASE Restart
    <2>1. claim' \in [Ids -> [cred : Nat, by : Writers \cup {"acked", "open"}]]
      BY <1>16 DEF Restart, TypeOK
    <2>2. budget' \in [faults : Nat, crashes : Nat, external : Nat]
      BY <1>16 DEF Restart, TypeOK
    <2>3. /\ stage' \in [Persisters -> Stages] /\ snap' \in [Persisters -> Store]
          /\ mem' \in Store
      BY <1>0, <1>16 DEF Restart
    <2> QED BY <1>16, <2>1, <2>2, <2>3 DEF Restart, TypeOK
  <1>17. CASE UNCHANGED vars
    BY <1>17 DEF vars, TypeOK
  <1> QED
    BY <1>0, <1>1, <1>2, <1>3, <1>4, <1>5, <1>6, <1>7, <1>8, <1>9, <1>10, <1>11, <1>12, <1>13,
       <1>14, <1>15, <1>16, <1>17
    DEF Next, WriterStep, FlushStep

\* The state of the pool keeps its type.
THEOREM PoolTypeCorrect == Spec => []TypeOK
  BY TypeInit, TypeStep, PTL DEF Spec

-----------------------------------------------------------------------------
(* Hot updates always have somebody coming for them *)

\* NoLostWakeup is inductive on typed states: each action either leaves its
\* three guarantees alone, clears dirty, or hands one guarantee to the next.
LEMMA WakeupStep == TypeOK /\ NoLostWakeup /\ [Next]_vars => NoLostWakeup'
  <1> SUFFICES ASSUME TypeOK, NoLostWakeup, [Next]_vars PROVE NoLostWakeup'
    OBVIOUS
  <1> USE DEF loopVars, memVars, workVars, history
  <1>0. "loop" \in Persisters /\ "closer" \in Persisters /\ "loop" # "closer"
    BY DEF Persisters, Flushers
  <1>1. ASSUME NEW w \in Writers, WriterStep(w)
        PROVE  NoLostWakeup'
    <2>1. w # "loop"
      BY WritersAreHandlers DEF Flushers
    <2>2. ASSUME NEW id \in Ids, Upsert(w, id) \/ Update(w, id) \/ Delete(w, id)
          PROVE  NoLostWakeup'
      BY <2>2 DEF Upsert, Update, Delete, Mutate, TakeSnapshot, NoLostWakeup
    <2>3. CASE SyncWritten(w)
      BY <1>0, <2>1, <2>3 DEF SyncWritten, Finish, NoLostWakeup, TypeOK
    <2>4. CASE WriteFails(w)
      BY <1>0, <2>1, <2>4 DEF WriteFails, NoLostWakeup, TypeOK
    <2>5. CASE SyncFailed(w)
      BY <1>0, <2>1, <2>5 DEF SyncFailed, Finish, Redirty, NoLostWakeup, TypeOK
    <2> QED BY <1>1, <2>2, <2>3, <2>4, <2>5 DEF WriterStep
  <1>2. ASSUME NEW f \in Flushers, FlushStep(f)
        PROVE  NoLostWakeup'
    <2>1. CASE FlushBegin(f)
      BY <2>1 DEF FlushBegin, TakeSnapshot, NoLostWakeup
    <2>2. CASE FlushRead(f)
      BY <1>0, <2>2 DEF FlushRead, NoLostWakeup, TypeOK
    <2>3. CASE FlushReadFails(f)
      BY <1>0, <2>3 DEF FlushReadFails, NoLostWakeup, TypeOK
    <2>4. CASE FlushWritten(f)
      BY <1>0, <2>4 DEF FlushWritten, NoLostWakeup, TypeOK
    <2>5. CASE WriteFails(f)
      BY <1>0, <2>5 DEF WriteFails, NoLostWakeup, TypeOK
    <2>6. CASE FlushAbsorb(f)
      BY <1>0, <2>6 DEF FlushAbsorb, Finish, NoLostWakeup, TypeOK
    <2>7. CASE FlushFailed(f)
      BY <1>0, <2>7 DEF FlushFailed, Finish, Redirty, NoLostWakeup, TypeOK
    <2> QED BY <1>2, <2>1, <2>2, <2>3, <2>4, <2>5, <2>6, <2>7 DEF FlushStep
  <1>3. ASSUME NEW id \in Ids, Mark(id)
        PROVE  NoLostWakeup'
    BY <1>3 DEF Mark, NoLostWakeup
  <1>4. CASE LoopControl
    <2>1. CASE LoopWake
      BY <2>1 DEF LoopWake, LoopStep, NoLostWakeup
    <2>2. CASE LoopTimer \/ LoopStop
      BY <1>0, <2>2 DEF LoopTimer, LoopStop, StartFlush, NoLostWakeup, TypeOK
    <2>3. CASE LoopFlushed
      BY <2>3 DEF LoopFlushed, LoopStep, LoopRest, NoLostWakeup
    <2> QED BY <1>4, <2>1, <2>2, <2>3 DEF LoopControl
  <1>5. CASE CloseControl
    BY <1>0, <1>5
    DEF CloseControl, CloseStart, CloseFlush, CloseDone, CloseRest, StartFlush, NoLostWakeup, TypeOK
  <1>6. ASSUME NEW id \in Ids, External(id)
        PROVE  NoLostWakeup'
    BY <1>6 DEF External, NoLostWakeup
  <1>7. CASE Restart
    BY <1>7 DEF Restart, NoLostWakeup
  <1>8. CASE UNCHANGED vars
    BY <1>8 DEF vars, NoLostWakeup
  <1> QED BY <1>1, <1>2, <1>3, <1>4, <1>5, <1>6, <1>7, <1>8 DEF Next

\* While memory is dirty for another reason than a failed write, the flush
\* loop has a token waiting or is on its way to the flush.
THEOREM PoolNeverLosesWakeup == Spec => []NoLostWakeup
  <1>1. Init => NoLostWakeup
    BY DEF Init, NoLostWakeup
  <1> QED BY <1>1, PoolTypeCorrect, WakeupStep, PTL DEF Spec

-----------------------------------------------------------------------------
(* Memory never goes back to older credentials or counters *)

\* Every credential version in memory, in a snapshot and in the file has been
\* issued, and a pool that has not read the file holds nothing.
IssuedBound ==
    /\ \A id \in Ids : mem[id].cred <= issued /\ disk[id].cred <= issued
    /\ \A p \in Persisters, id \in Ids : snap[p][id].cred <= issued
    /\ ~loaded => mem = Empty

LEMMA MergeBound ==
  ASSUME NEW d \in Store, NEW m \in Store, NEW n \in Nat,
         \A id \in Ids : d[id].cred <= n /\ m[id].cred <= n
  PROVE  \A id \in Ids : Merge(d, m)[id].cred <= n
  BY DEF Merge

LEMMA IssuedStep == TypeOK /\ IssuedBound /\ [Next]_vars => IssuedBound'
  <1> SUFFICES ASSUME TypeOK, IssuedBound, [Next]_vars PROVE IssuedBound'
    OBVIOUS
  <1> USE DEF loopVars, memVars, workVars, history
  <1>0. /\ issued \in Nat /\ Empty \in Store /\ Current \in Store
        /\ \A id \in Ids : Empty[id].cred <= issued /\ Current[id].cred <= issued
    BY CurrentIsStore, EmptyIsStore DEF TypeOK, Empty, Absent, Current, IssuedBound
  <1>1. ASSUME NEW w \in Writers, NEW id \in Ids, NEW row \in Row, Mutate(w, id, row),
               issued' \in Nat, issued <= issued', row.cred <= issued'
        PROVE  IssuedBound'
    <2> DEFINE s == [Current EXCEPT ![id] = row]
    <2>1. \A i \in Ids : s[i].cred <= issued'
      BY <1>0, <1>1 DEF Store, Row
    <2>2. mem' = s /\ snap' = [snap EXCEPT ![w] = s] /\ disk' = disk /\ loaded' = TRUE
      BY <1>1 DEF Mutate, TakeSnapshot
    <2>3. \A p \in Persisters, i \in Ids : snap'[p][i].cred <= issued'
      <3> SUFFICES ASSUME NEW p \in Persisters, NEW i \in Ids
                   PROVE  snap'[p][i].cred <= issued'
        OBVIOUS
      <3>1. snap[p][i].cred \in Nat /\ snap[p][i].cred <= issued
        BY DEF TypeOK, Store, Row, IssuedBound
      <3> HIDE DEF s
      <3> QED BY <1>0, <1>1, <2>1, <2>2, <3>1 DEF TypeOK
    <2>4. \A i \in Ids : disk[i].cred \in Nat
      BY DEF TypeOK, Store, Row
    <2> HIDE DEF s
    <2> QED BY <1>0, <1>1, <2>1, <2>2, <2>3, <2>4 DEF IssuedBound
  <1>2. ASSUME NEW w \in Writers, NEW id \in Ids,
               Upsert(w, id) \/ Update(w, id) \/ Delete(w, id)
        PROVE  IssuedBound'
    <2>1. [cred |-> issued + 1, hot |-> Current[id].hot] \in Row /\ Absent \in Row
      BY <1>0, AbsentIsRow DEF Store, Row
    <2> QED BY <1>0, <1>1, <1>2, <2>1 DEF Upsert, Update, Delete, Absent
  <1>3. ASSUME NEW w \in Writers, SyncWritten(w) \/ SyncFailed(w) \/ WriteFails(w)
        PROVE  IssuedBound'
    BY <1>0, <1>3 DEF SyncWritten, SyncFailed, WriteFails, Land, Finish, IssuedBound, TypeOK,
       Persisters
  <1>4. ASSUME NEW f \in Flushers, FlushStep(f)
        PROVE  IssuedBound'
    <2>0. f \in Persisters
      BY DEF Persisters
    <2>1. CASE FlushBegin(f)
      BY <1>0, <2>1 DEF FlushBegin, TakeSnapshot, IssuedBound, TypeOK
    <2>2. CASE FlushRead(f)
      <3>1. \A id \in Ids : Merge(disk, snap[f])[id].cred <= issued
        BY <2>0, MergeBound DEF IssuedBound, TypeOK
      <3> QED BY <2>2, <3>1 DEF FlushRead, IssuedBound, TypeOK
    <2>3. CASE FlushReadFails(f) \/ WriteFails(f)
      BY <2>3 DEF FlushReadFails, WriteFails, IssuedBound
    <2>4. CASE FlushWritten(f)
      BY <2>0, <2>4 DEF FlushWritten, Land, IssuedBound
    <2>5. CASE FlushAbsorb(f)
      <3>1. \A id \in Ids : Merge(snap[f], mem)[id].cred <= issued
        BY <2>0, MergeBound DEF IssuedBound, TypeOK
      <3> QED BY <1>0, <2>5, <3>1 DEF FlushAbsorb, Finish, IssuedBound, TypeOK
    <2>6. CASE FlushFailed(f)
      BY <1>0, <2>6 DEF FlushFailed, Finish, IssuedBound, TypeOK
    <2> QED BY <1>4, <2>1, <2>2, <2>3, <2>4, <2>5, <2>6 DEF FlushStep
  <1>5. ASSUME NEW id \in Ids, Mark(id)
        PROVE  IssuedBound'
    BY <1>0, <1>5 DEF Mark, IssuedBound, Store, Row
  <1>6. CASE LoopControl \/ CloseControl
    BY <1>6 DEF LoopControl, LoopWake, LoopTimer, LoopStop, LoopFlushed, LoopRest,
       CloseControl, CloseStart, CloseFlush, CloseDone, CloseRest, IssuedBound
  <1>7. ASSUME NEW id \in Ids, External(id)
        PROVE  IssuedBound'
    <2>1. disk' = [disk EXCEPT ![id] = [cred |-> issued + 1, hot |-> 0]] /\ issued' = issued + 1
      BY <1>7 DEF External
    <2>2. UNCHANGED <<mem, loaded, snap>>
      BY <1>7 DEF External
    <2>3. \A i \in Ids : mem[i].cred \in Nat /\ disk[i].cred \in Nat
      BY DEF TypeOK, Store, Row
    <2>4. \A p \in Persisters, i \in Ids : snap[p][i].cred \in Nat
      BY DEF TypeOK, Store, Row
    <2>5. \A i \in Ids : disk'[i].cred <= issued + 1
      BY <1>0, <2>1, <2>3 DEF IssuedBound, TypeOK, Store
    <2> QED BY <1>0, <2>1, <2>2, <2>3, <2>4, <2>5 DEF IssuedBound
  <1>8. CASE Restart
    BY <1>0, <1>8 DEF Restart, IssuedBound
  <1>9. CASE UNCHANGED vars
    BY <1>9 DEF vars, IssuedBound
  <1> QED BY <1>2, <1>3, <1>4, <1>5, <1>6, <1>7, <1>8, <1>9 DEF Next, WriterStep

LEMMA MergeKeepsMemory ==
  ASSUME NEW d \in Store, NEW m \in Store, NEW id \in Ids, m[id].cred # 0
  PROVE  Merge(d, m)[id] = m[id]
  BY DEF Merge

LEMMA RegressStep == TypeOK /\ IssuedBound /\ [Next]_vars => [MemoryKept]_vars
  <1> SUFFICES ASSUME TypeOK, IssuedBound, Next, NEW i \in Ids, mem[i].cred # 0, loaded'
               PROVE  \/ mem'[i].cred >= mem[i].cred /\ mem'[i].hot >= mem[i].hot
                      \/ mem'[i].cred = 0 /\ claim'[i].cred = 0
    BY DEF MemoryKept
  <1> USE DEF loopVars, memVars, workVars, history
  <1>0. /\ loaded /\ Current = mem
        /\ mem[i].cred \in Nat /\ mem[i].hot \in Nat /\ mem[i].cred <= issued /\ issued \in Nat
    BY DEF IssuedBound, Empty, Absent, Current, TypeOK, Store, Row
  <1>1. mem' = mem => mem'[i].cred >= mem[i].cred /\ mem'[i].hot >= mem[i].hot
    BY <1>0
  <1>2. ASSUME NEW w \in Writers, NEW id \in Ids, Upsert(w, id) \/ Update(w, id) \/ Delete(w, id)
        PROVE  \/ mem'[i].cred >= mem[i].cred /\ mem'[i].hot >= mem[i].hot
               \/ mem'[i].cred = 0 /\ claim'[i].cred = 0
    BY <1>0, <1>2 DEF Upsert, Update, Delete, Mutate, Absent, TypeOK, Store
  <1>3. ASSUME NEW f \in Flushers, FlushAbsorb(f)
        PROVE  mem'[i] = mem[i]
    BY <1>3, MergeKeepsMemory DEF FlushAbsorb, TypeOK, Persisters
  <1>4. ASSUME NEW id \in Ids, Mark(id)
        PROVE  mem'[i].cred >= mem[i].cred /\ mem'[i].hot >= mem[i].hot
    BY <1>0, <1>4 DEF Mark, TypeOK, Store, Row
  <1>5. ASSUME NEW f \in Flushers, FlushBegin(f)
        PROVE  mem' = mem
    BY <1>0, <1>5 DEF FlushBegin
  <1>6. ASSUME NEW w \in Writers, SyncWritten(w) \/ WriteFails(w) \/ SyncFailed(w)
        PROVE  mem' = mem
    BY <1>6 DEF SyncWritten, WriteFails, SyncFailed
  <1>7. ASSUME NEW f \in Flushers,
               \/ FlushRead(f) \/ FlushReadFails(f) \/ FlushWritten(f) \/ WriteFails(f)
               \/ FlushFailed(f)
        PROVE  mem' = mem
    BY <1>7 DEF FlushRead, FlushReadFails, FlushWritten, WriteFails, FlushFailed
  <1>8. ASSUME LoopControl \/ CloseControl
        PROVE  mem' = mem
    BY <1>8 DEF LoopControl, LoopWake, LoopTimer, LoopStop, LoopFlushed, LoopRest,
       CloseControl, CloseStart, CloseFlush, CloseDone, CloseRest
  <1>9. ASSUME NEW id \in Ids, External(id)
        PROVE  mem' = mem
    BY <1>9 DEF External
  <1>10. ~Restart
    BY DEF Restart
  <1> QED
    BY <1>0, <1>1, <1>2, <1>3, <1>4, <1>5, <1>6, <1>7, <1>8, <1>9, <1>10
    DEF Next, WriterStep, FlushStep

\* As long as the process lives, no account in memory goes back to older
\* credentials or counters, and only a Delete takes one away.
THEOREM PoolMemoryNeverRegresses == Spec => MemoryNeverRegresses
  <1>1. Init => IssuedBound
    <2>1. 0 \in Nat /\ 1 \in Nat /\ 0 <= 1 /\ 1 <= 1
      OBVIOUS
    <2> QED BY <2>1 DEF Init, IssuedBound, Empty, Absent
  <1> QED BY <1>1, PoolTypeCorrect, IssuedStep, RegressStep, PTL DEF Spec, MemoryNeverRegresses

-----------------------------------------------------------------------------
(* Acknowledged mutations are in the file, unless a race happened *)

\* The part of DurabilityInv that a race voids.
Agreement == LandedFlush /\ MemoryAgrees /\ FileAgrees /\ SnapshotsAgree /\ SnapshotsFollow

LEMMA DurabilityInit == Init => DurabilityInv
  <1> SUFFICES ASSUME Init PROVE DurabilityInv
    OBVIOUS
  <1>0. \A p \in Persisters : stage[p] = "idle" /\ ~Holding(p)
    BY DEF Init, Holding
  <1>1. FlushesInPlace
    BY <1>0 DEF Init, FlushesInPlace, Persisters, Flushers
  <1>2. \A id \in Ids : claim[id].by = "acked" /\ claim[id].cred = disk[id].cred
    BY DEF Init
  <1>3. SnapshotOrder
    BY <1>0, <1>2, WritersAreHandlers DEF Init, SnapshotOrder
  <1>4. LandedFlush
    BY <1>0 DEF LandedFlush, Persisters
  <1>5. FileAgrees /\ MemoryAgrees
    BY <1>2 DEF Init, FileAgrees, MemoryAgrees, Current
  <1>6. SnapshotsAgree
    BY <1>0 DEF SnapshotsAgree
  <1>7. SnapshotsFollow
    BY <1>2, WritersAreHandlers DEF SnapshotsFollow, Standing
  <1> QED BY <1>1, <1>3, <1>4, <1>5, <1>6, <1>7 DEF DurabilityInv

\* A mutator's critical section: what it snapshots agrees with every other
\* account's last mutation because memory does.
LEMMA MutateDurability ==
  ASSUME TypeOK, DurabilityInv, NEW w \in Writers, NEW id \in Ids, NEW row \in Row,
         ~Busy(w), Mutate(w, id, row)
  PROVE  DurabilityInv'
  <1> DEFINE s == [Current EXCEPT ![id] = row]
  <1>1. /\ mem' = s /\ loaded' = TRUE /\ disk' = disk /\ raced' = raced
        /\ snap' = [snap EXCEPT ![w] = s] /\ stage' = [stage EXCEPT ![w] = "write"]
        /\ newer' = newer \cup {<<q, w>> : q \in {q \in Persisters \ {w} : Holding(q)}}
        /\ claim' = [claim EXCEPT ![id] = [cred |-> row.cred, by |-> w]]
        /\ UNCHANGED <<lpc, cpc, overtaken, stale>>
    BY DEF Mutate, TakeSnapshot, loopVars
  <1>2. /\ w \in Persisters /\ w # "loop" /\ w # "closer" /\ w \notin Flushers
        /\ w # "acked" /\ w # "open" /\ "acked" \notin Writers
    BY WritersAreHandlers DEF Persisters, Flushers
  <1>3. /\ Current \in Store /\ s \in Store /\ s[id] = row
        /\ \A i \in Ids \ {id} : s[i] = Current[i] /\ claim'[i] = claim[i]
        /\ claim'[id].by = w /\ claim'[id].cred = row.cred
    BY <1>1, CurrentIsStore DEF Store, TypeOK
  <1>4. /\ \A p \in Persisters \ {w} : stage'[p] = stage[p] /\ snap'[p] = snap[p]
        /\ stage'[w] = "write" /\ snap'[w] = s
        /\ \A p \in Persisters \ {w} : Holding(p)' = Holding(p)
        /\ Holding(w)' /\ ~Holding(w)
    BY <1>1, <1>2 DEF TypeOK, Holding, Busy
  <1>5. Current' = s
    BY <1>1 DEF Current
  <1>6. \A i \in Ids : claim[i].by # w
    BY DEF DurabilityInv, SnapshotOrder, Busy
  <1> HIDE DEF s
  <1>7. FlushesInPlace'
    BY <1>1, <1>2, <1>4 DEF DurabilityInv, FlushesInPlace, Persisters, Flushers
  <1>8. SnapshotOrder'
    <2>1. \A i \in Ids : claim'[i].by \in Writers => stage'[claim'[i].by] \in {"write", "failed"}
      BY <1>3, <1>4 DEF DurabilityInv, SnapshotOrder, Persisters
    <2>2. \A p, q \in Persisters :
            (p # q /\ Holding(p)' /\ Holding(q)') => <<p, q>> \in newer' \/ <<q, p>> \in newer'
      BY <1>1, <1>4 DEF DurabilityInv, SnapshotOrder
    <2>3. \A e \in newer' : Holding(e[1])'
      <3> SUFFICES ASSUME NEW e \in newer' PROVE Holding(e[1])'
        OBVIOUS
      <3>1. CASE e \in newer
        <4>1. e[1] \in Persisters /\ Holding(e[1])
          BY <3>1 DEF DurabilityInv, SnapshotOrder, TypeOK
        <4> QED BY <4>1, <1>4
      <3>2. CASE e \notin newer
        BY <1>1, <1>4, <3>2
      <3> QED BY <3>1, <3>2
    <2>4. \A p \in overtaken' : \E q \in Persisters : <<p, q>> \in newer'
      BY <1>1 DEF DurabilityInv, SnapshotOrder
    <2> QED BY <1>1, <2>1, <2>2, <2>3, <2>4 DEF SnapshotOrder
  <1>9. ASSUME ~raced'
        PROVE  Agreement'
    <2>1. LandedFlush /\ MemoryAgrees /\ FileAgrees /\ SnapshotsAgree /\ SnapshotsFollow
      BY <1>1, <1>9 DEF DurabilityInv
    <2>2. LandedFlush'
      <3> SUFFICES ASSUME NEW f \in Flushers, stage'[f] = "absorb"
                   PROVE  f \notin stale' /\ \A q \in Persisters : <<q, f>> \in newer' => q \in overtaken'
        BY DEF LandedFlush
      <3>1. f # w /\ f \in Persisters /\ stage[f] = "absorb"
        BY <1>2, <1>4 DEF Persisters
      <3> QED BY <1>1, <2>1, <3>1 DEF LandedFlush
    <2>3. MemoryAgrees'
      BY <1>1, <1>3, <1>5, <2>1 DEF MemoryAgrees, Settled, Standing
    <2>4. FileAgrees'
      BY <1>1, <1>2, <1>3, <2>1 DEF FileAgrees, Settled
    <2>5. SnapshotsAgree'
      <3> SUFFICES ASSUME NEW p \in Persisters, NEW i \in Ids, Settled(i)',
                          stage'[p] \in {"read", "write", "absorb"}
                   PROVE  snap'[p][i].cred = claim'[i].cred \/ p \in overtaken' \/ p \in stale'
        BY DEF SnapshotsAgree
      <3>1. i # id /\ Settled(i)
        BY <1>2, <1>3 DEF Settled
      <3>2. CASE p = w
        BY <1>3, <1>4, <2>1, <3>1, <3>2 DEF MemoryAgrees
      <3>3. CASE p # w
        BY <1>1, <1>3, <1>4, <2>1, <3>1, <3>3 DEF SnapshotsAgree
      <3> QED BY <3>2, <3>3
    <2>6. SnapshotsFollow'
      <3> SUFFICES ASSUME NEW p \in Persisters, NEW i \in Ids, Standing(i)',
                          p = claim'[i].by \/ <<claim'[i].by, p>> \in newer',
                          (p \in Writers /\ Holding(p)') \/ stage'[p] = "read"
                   PROVE  snap'[p][i].cred = claim'[i].cred
        BY DEF SnapshotsFollow
      <3>1. CASE p = w
        <4>1. CASE i = id
          BY <1>3, <1>4, <3>1, <4>1
        <4>2. CASE i # id
          BY <1>1, <1>3, <1>4, <2>1, <3>1, <4>2 DEF MemoryAgrees, Standing
        <4> QED BY <4>1, <4>2
      <3>2. CASE p # w
        <4>1. i # id
          <5> SUFFICES ASSUME i = id PROVE FALSE
            OBVIOUS
          <5>1. <<w, p>> \in newer'
            BY <1>3, <3>2
          <5>2. <<w, p>> \in newer
            BY <1>1, <3>2, <5>1
          <5> QED BY <1>4, <5>2 DEF DurabilityInv, SnapshotOrder
        <4>2. /\ Standing(i)
              /\ p = claim[i].by \/ <<claim[i].by, p>> \in newer
              /\ (p \in Writers /\ Holding(p)) \/ stage[p] = "read"
          BY <1>1, <1>3, <1>4, <3>2, <4>1 DEF Standing
        <4> QED BY <1>3, <1>4, <2>1, <3>2, <4>1, <4>2 DEF SnapshotsFollow
      <3> QED BY <3>1, <3>2
    <2> QED BY <2>2, <2>3, <2>4, <2>5, <2>6 DEF Agreement
  <1> QED BY <1>7, <1>8, <1>9 DEF DurabilityInv, Agreement

\* A step that moves no snapshot, claim or file and keeps the credentials in
\* memory keeps the invariant.
LEMMA FrameDurability ==
  ASSUME TypeOK, DurabilityInv, FlushesInPlace', loaded => loaded',
         UNCHANGED <<disk, snap, claim, newer, overtaken, stale, raced>>,
         \A id \in Ids : Current'[id].cred = Current[id].cred,
         \A p \in Persisters : \/ stage'[p] = stage[p]
                               \/ stage[p] \in {"idle", "begin"} /\ stage'[p] \in {"idle", "begin"}
  PROVE  DurabilityInv'
  <1>1. \A p \in Persisters : /\ Holding(p)' = Holding(p)
                              /\ \A st \in {"read", "write", "absorb", "failed"} :
                                    stage'[p] = st <=> stage[p] = st
    BY DEF Holding
  <1>2. SnapshotOrder'
    <2>1. \A id \in Ids : claim'[id].by \in Writers => stage'[claim'[id].by] \in {"write", "failed"}
      BY <1>1 DEF DurabilityInv, SnapshotOrder, Persisters
    <2>2. \A e \in newer : e[1] \in Persisters
      BY DEF TypeOK
    <2> QED BY <1>1, <2>1, <2>2 DEF DurabilityInv, SnapshotOrder
  <1>3. LandedFlush => LandedFlush'
    BY <1>1 DEF LandedFlush, Persisters
  <1>4. MemoryAgrees => MemoryAgrees'
    BY DEF MemoryAgrees, Settled, Standing
  <1>5. FileAgrees => FileAgrees'
    BY DEF FileAgrees, Settled
  <1>6. SnapshotsAgree => SnapshotsAgree'
    BY <1>1 DEF SnapshotsAgree, Settled
  <1>7. SnapshotsFollow => SnapshotsFollow'
    BY <1>1 DEF SnapshotsFollow, Standing
  <1> QED BY <1>2, <1>3, <1>4, <1>5, <1>6, <1>7 DEF DurabilityInv

\* An acknowledged write: the snapshot that lands was not overtaken, so it
\* agrees with everything acknowledged before it, and carries its own mutation.
LEMMA SyncWrittenDurability ==
  ASSUME TypeOK, DurabilityInv, NEW w \in Writers, SyncWritten(w)
  PROVE  DurabilityInv'
  <1>1. /\ mem' = mem /\ loaded' = loaded /\ disk' = snap[w] /\ stage[w] = "write"
        /\ raced' = (raced \/ w \in overtaken)
        /\ snap' = [snap EXCEPT ![w] = Empty] /\ stage' = [stage EXCEPT ![w] = "idle"]
        /\ newer' = {e \in newer : e[1] # w}
        /\ overtaken' = (overtaken \cup {q \in Persisters : <<q, w>> \in newer}) \ {w}
        /\ stale' = stale \cup {f \in Flushers \ {w} : stage[f] = "write"}
        /\ claim' = [id \in Ids |-> IF claim[id].by = w
                                      THEN [claim[id] EXCEPT !.by = "acked"] ELSE claim[id]]
        /\ UNCHANGED <<lpc, cpc>>
    BY DEF SyncWritten, Land, Finish, OvertakenBy, StaleAfter, Overtakes, memVars, loopVars
  <1>2. /\ w \in Persisters /\ w # "loop" /\ w # "closer" /\ w \notin Flushers
        /\ w # "acked" /\ w # "open" /\ "acked" \notin Writers
    BY WritersAreHandlers DEF Persisters, Flushers
  <1>3. /\ \A p \in Persisters \ {w} : /\ stage'[p] = stage[p] /\ snap'[p] = snap[p]
                                       /\ Holding(p)' = Holding(p)
        /\ stage'[w] = "idle" /\ ~Holding(w)' /\ Holding(w)
    BY <1>1, <1>2 DEF TypeOK, Holding
  <1>4. \A i \in Ids : /\ claim'[i].cred = claim[i].cred
                       /\ claim[i].by = w => claim'[i].by = "acked"
                       /\ claim[i].by # w => claim'[i].by = claim[i].by
    BY <1>1 DEF TypeOK
  <1>5. loaded /\ Current' = Current
    BY <1>1, <1>2, <1>3 DEF DurabilityInv, SnapshotOrder, Current
  <1>6. FlushesInPlace'
    BY <1>1, <1>2, <1>3 DEF DurabilityInv, FlushesInPlace, Persisters, Flushers
  <1>7. SnapshotOrder'
    <2>1. \A i \in Ids : claim'[i].by \in Writers => stage'[claim'[i].by] \in {"write", "failed"}
      BY <1>2, <1>3, <1>4 DEF DurabilityInv, SnapshotOrder, Persisters
    <2>2. \A p, q \in Persisters :
            (p # q /\ Holding(p)' /\ Holding(q)') => <<p, q>> \in newer' \/ <<q, p>> \in newer'
      BY <1>1, <1>3 DEF DurabilityInv, SnapshotOrder
    <2>3. \A e \in newer' : Holding(e[1])'
      <3> SUFFICES ASSUME NEW e \in newer' PROVE Holding(e[1])'
        OBVIOUS
      <3>1. e \in newer /\ e[1] # w /\ e[1] \in Persisters
        BY <1>1 DEF TypeOK
      <3> QED BY <1>3, <3>1 DEF DurabilityInv, SnapshotOrder
    <2>4. \A p \in overtaken' : \E q \in Persisters : <<p, q>> \in newer'
      <3> SUFFICES ASSUME NEW p \in overtaken' PROVE \E q \in Persisters : <<p, q>> \in newer'
        OBVIOUS
      <3>1. p # w /\ p \in Persisters /\ \E q \in Persisters : <<p, q>> \in newer
        BY <1>1, <1>2 DEF DurabilityInv, SnapshotOrder, TypeOK
      <3> QED BY <1>1, <3>1
    <2> QED BY <1>1, <1>5, <2>1, <2>2, <2>3, <2>4 DEF SnapshotOrder
  <1>8. ASSUME ~raced'
        PROVE  Agreement'
    <2>1. LandedFlush /\ MemoryAgrees /\ FileAgrees /\ SnapshotsAgree /\ SnapshotsFollow
      BY <1>1, <1>8 DEF DurabilityInv
    <2>2. w \notin overtaken /\ w \notin stale
      BY <1>1, <1>2, <1>8 DEF TypeOK
    <2>3. \A i \in Ids : claim[i].by = w => Standing(i) /\ snap[w][i].cred = claim[i].cred
      BY <1>2, <1>3, <2>1, <2>2 DEF SnapshotsFollow, Standing
    <2>4. LandedFlush'
      <3> SUFFICES ASSUME NEW f \in Flushers, stage'[f] = "absorb"
                   PROVE  f \notin stale' /\ \A q \in Persisters : <<q, f>> \in newer' => q \in overtaken'
        BY DEF LandedFlush
      <3>1. f # w /\ f \in Persisters /\ stage[f] = "absorb"
        BY <1>2, <1>3 DEF Persisters
      <3>2. f \notin stale /\ \A q \in Persisters : <<q, f>> \in newer => q \in overtaken
        BY <2>1, <3>1 DEF LandedFlush
      <3> QED BY <1>1, <3>1, <3>2
    <2>5. MemoryAgrees'
      <3> SUFFICES ASSUME NEW i \in Ids, Settled(i)' \/ Standing(i)'
                   PROVE  Current[i].cred = claim[i].cred
        BY <1>4, <1>5 DEF MemoryAgrees
      <3>1. CASE claim[i].by = w
        BY <2>1, <2>3, <3>1 DEF MemoryAgrees
      <3>2. CASE claim[i].by # w
        BY <1>1, <1>4, <2>1, <3>2 DEF MemoryAgrees, Settled, Standing
      <3> QED BY <3>1, <3>2
    <2>6. FileAgrees'
      <3> SUFFICES ASSUME NEW i \in Ids, Settled(i)'
                   PROVE  snap[w][i].cred = claim[i].cred
        BY <1>1, <1>4 DEF FileAgrees
      <3>1. CASE claim[i].by = w
        BY <2>3, <3>1
      <3>2. CASE claim[i].by # w
        BY <1>1, <1>2, <1>4, <2>1, <2>2, <3>2 DEF SnapshotsAgree, Settled
      <3> QED BY <3>1, <3>2
    <2>7. SnapshotsAgree'
      <3> SUFFICES ASSUME NEW p \in Persisters, NEW i \in Ids, Settled(i)',
                          stage'[p] \in {"read", "write", "absorb"}
                   PROVE  snap'[p][i].cred = claim'[i].cred \/ p \in overtaken' \/ p \in stale'
        BY DEF SnapshotsAgree
      <3>1. /\ p # w /\ snap'[p] = snap[p] /\ claim'[i].cred = claim[i].cred
            /\ stage[p] \in {"read", "write", "absorb"} /\ Holding(p)
        BY <1>3, <1>4 DEF Holding
      <3>2. CASE claim[i].by # w
        BY <1>1, <1>4, <2>1, <3>1, <3>2 DEF SnapshotsAgree, Settled
      <3>3. CASE claim[i].by = w
        <4>1. CASE <<p, w>> \in newer
          BY <1>1, <3>1, <4>1
        <4>2. CASE <<w, p>> \in newer
          <5>1. CASE p \in Writers \/ stage[p] = "read"
            BY <2>1, <2>3, <3>1, <3>3, <4>2, <5>1 DEF SnapshotsFollow
          <5>2. CASE p \in Flushers /\ stage[p] = "write"
            BY <1>1, <3>1, <5>2
          <5>3. CASE p \in Flushers /\ stage[p] = "absorb"
            BY <1>2, <2>1, <2>2, <4>2, <5>3 DEF LandedFlush
          <5> QED BY <3>1, <5>1, <5>2, <5>3 DEF Persisters
        <4> QED BY <1>2, <1>3, <3>1, <4>1, <4>2 DEF DurabilityInv, SnapshotOrder
      <3> QED BY <3>2, <3>3
    <2>8. SnapshotsFollow'
      <3> SUFFICES ASSUME NEW p \in Persisters, NEW i \in Ids, Standing(i)',
                          p = claim'[i].by \/ <<claim'[i].by, p>> \in newer',
                          (p \in Writers /\ Holding(p)') \/ stage'[p] = "read"
                   PROVE  snap'[p][i].cred = claim'[i].cred
        BY DEF SnapshotsFollow
      <3>1. p # w /\ snap'[p] = snap[p] /\ claim'[i].cred = claim[i].cred
        BY <1>3, <1>4
      <3>2. claim[i].by # w /\ claim'[i].by = claim[i].by
        BY <1>2, <1>4 DEF Standing
      <3>3. /\ Standing(i)
            /\ p = claim[i].by \/ <<claim[i].by, p>> \in newer
            /\ (p \in Writers /\ Holding(p)) \/ stage[p] = "read"
        BY <1>1, <1>3, <3>1, <3>2 DEF Standing
      <3> QED BY <2>1, <3>1, <3>3 DEF SnapshotsFollow
    <2> QED BY <2>4, <2>5, <2>6, <2>7, <2>8 DEF Agreement
  <1> QED BY <1>6, <1>7, <1>8 DEF DurabilityInv, Agreement

\* A failed write: the snapshot will not land any more.
LEMMA WriteFailsDurability ==
  ASSUME TypeOK, DurabilityInv, NEW p \in Persisters, WriteFails(p)
  PROVE  DurabilityInv'
  <1> USE DEF memVars, loopVars, history
  <1>1. /\ stage[p] = "write" /\ stage' = [stage EXCEPT ![p] = "failed"]
        /\ UNCHANGED <<mem, loaded, lpc, cpc, snap, disk, claim, newer, overtaken, stale, raced>>
    BY DEF WriteFails
  <1>2. \A q \in Persisters : /\ Holding(q)' = Holding(q)
                              /\ q # p => stage'[q] = stage[q]
    BY <1>1 DEF TypeOK, Holding
  <1>3. stage'[p] = "failed"
    BY <1>1 DEF TypeOK
  <1>4. FlushesInPlace'
    BY <1>1, <1>2, <1>3 DEF DurabilityInv, FlushesInPlace, Persisters, Flushers
  <1>5. SnapshotOrder'
    <2>1. \A id \in Ids : claim'[id].by \in Writers => stage'[claim'[id].by] \in {"write", "failed"}
      BY <1>1, <1>2, <1>3 DEF DurabilityInv, SnapshotOrder, Persisters
    <2>2. \A e \in newer : e[1] \in Persisters
      BY DEF TypeOK
    <2> QED BY <1>1, <1>2, <2>1, <2>2 DEF DurabilityInv, SnapshotOrder
  <1>6. LandedFlush => LandedFlush'
    BY <1>1, <1>2, <1>3 DEF LandedFlush, Persisters
  <1>7. MemoryAgrees => MemoryAgrees'
    BY <1>1 DEF MemoryAgrees, Settled, Standing, Current
  <1>8. FileAgrees => FileAgrees'
    BY <1>1 DEF FileAgrees, Settled
  <1>9. SnapshotsAgree => SnapshotsAgree'
    BY <1>1, <1>2, <1>3 DEF SnapshotsAgree, Settled
  <1>10. SnapshotsFollow => SnapshotsFollow'
    BY <1>1, <1>2, <1>3 DEF SnapshotsFollow, Standing
  <1> QED BY <1>1, <1>4, <1>5, <1>6, <1>7, <1>8, <1>9, <1>10 DEF DurabilityInv

\* A persister that gave up lets its snapshot go; nothing is promised for the
\* mutations it was to save.
LEMMA ReleaseDurability ==
  ASSUME TypeOK, DurabilityInv, NEW p \in Persisters, Holding(p), Finish(p), Forget(p),
         UNCHANGED <<lpc, cpc, loaded, disk, raced>>,
         \A id \in Ids : /\ claim'[id].cred = claim[id].cred
                         /\ claim[id].by # p => claim'[id].by = claim[id].by
                         /\ claim[id].by = p => claim'[id].by = "open",
         mem' = mem
  PROVE  DurabilityInv'
  <1>1. /\ \A q \in Persisters \ {p} : /\ stage'[q] = stage[q] /\ snap'[q] = snap[q]
                                       /\ Holding(q)' = Holding(q)
        /\ stage'[p] = "idle" /\ ~Holding(p)'
    BY DEF Finish, TypeOK, Holding
  <1>2. /\ newer' = {e \in newer : e[1] # p}
        /\ overtaken' = overtaken \ {p} /\ stale' = stale \ {p}
    BY DEF Forget
  <1>3. "open" \notin Writers /\ "acked" \notin Writers /\ "open" # "acked" /\ Current' = Current
    BY WritersAreHandlers DEF Current
  <1>4. FlushesInPlace'
    BY <1>1 DEF DurabilityInv, FlushesInPlace, Persisters, Flushers
  <1>5. SnapshotOrder'
    <2>1. \A id \in Ids : claim'[id].by \in Writers => stage'[claim'[id].by] \in {"write", "failed"}
      BY <1>1, <1>3 DEF DurabilityInv, SnapshotOrder, Persisters
    <2>2. \A q, r \in Persisters :
            (q # r /\ Holding(q)' /\ Holding(r)') => <<q, r>> \in newer' \/ <<r, q>> \in newer'
      BY <1>1, <1>2 DEF DurabilityInv, SnapshotOrder
    <2>3. \A e \in newer' : Holding(e[1])'
      <3> SUFFICES ASSUME NEW e \in newer' PROVE Holding(e[1])'
        OBVIOUS
      <3>1. e \in newer /\ e[1] # p /\ e[1] \in Persisters
        BY <1>2 DEF TypeOK
      <3> QED BY <1>1, <3>1 DEF DurabilityInv, SnapshotOrder
    <2>4. \A q \in overtaken' : \E r \in Persisters : <<q, r>> \in newer'
      <3> SUFFICES ASSUME NEW q \in overtaken' PROVE \E r \in Persisters : <<q, r>> \in newer'
        OBVIOUS
      <3>1. q # p /\ \E r \in Persisters : <<q, r>> \in newer
        BY <1>2 DEF DurabilityInv, SnapshotOrder
      <3> QED BY <1>2, <3>1
    <2>5. loaded'
      BY DEF DurabilityInv, SnapshotOrder
    <2> QED BY <2>1, <2>2, <2>3, <2>4, <2>5 DEF SnapshotOrder
  <1>6. LandedFlush => LandedFlush'
    <2> SUFFICES ASSUME LandedFlush, NEW f \in Flushers, stage'[f] = "absorb"
                 PROVE  f \notin stale' /\ \A q \in Persisters : <<q, f>> \in newer' => q \in overtaken'
      BY DEF LandedFlush
    <2>1. f # p /\ f \in Persisters /\ stage[f] = "absorb"
      BY <1>1 DEF Persisters
    <2> QED BY <1>2, <2>1 DEF LandedFlush
  <1>7. MemoryAgrees => MemoryAgrees'
    <2> SUFFICES ASSUME MemoryAgrees, NEW i \in Ids, Settled(i)' \/ Standing(i)'
                 PROVE  Current[i].cred = claim[i].cred
      BY <1>3 DEF MemoryAgrees
    <2>1. claim[i].by # p /\ claim'[i].by = claim[i].by
      BY <1>3 DEF Settled, Standing
    <2> QED BY <1>2, <2>1 DEF MemoryAgrees, Settled, Standing
  <1>8. FileAgrees => FileAgrees'
    BY <1>3 DEF FileAgrees, Settled
  <1>9. SnapshotsAgree => SnapshotsAgree'
    <2> SUFFICES ASSUME SnapshotsAgree, NEW q \in Persisters, NEW i \in Ids, Settled(i)',
                        stage'[q] \in {"read", "write", "absorb"}
                 PROVE  snap'[q][i].cred = claim'[i].cred \/ q \in overtaken' \/ q \in stale'
      BY DEF SnapshotsAgree
    <2>1. q # p /\ Settled(i)
      BY <1>1, <1>3 DEF Settled
    <2> QED BY <1>1, <1>2, <2>1 DEF SnapshotsAgree
  <1>10. SnapshotsFollow => SnapshotsFollow'
    <2> SUFFICES ASSUME SnapshotsFollow, NEW q \in Persisters, NEW i \in Ids, Standing(i)',
                        q = claim'[i].by \/ <<claim'[i].by, q>> \in newer',
                        (q \in Writers /\ Holding(q)') \/ stage'[q] = "read"
                 PROVE  snap'[q][i].cred = claim'[i].cred
      BY DEF SnapshotsFollow
    <2>1. q # p /\ claim[i].by # p /\ claim'[i].by = claim[i].by
      BY <1>1, <1>3 DEF Standing
    <2>2. Standing(i)
      BY <1>2, <2>1 DEF Standing
    <2> QED BY <1>1, <1>2, <2>1, <2>2 DEF SnapshotsFollow
  <1> QED BY <1>4, <1>5, <1>6, <1>7, <1>8, <1>9, <1>10 DEF DurabilityInv

\* A flush takes its snapshot while memory agrees with every mutation.
LEMMA FlushBeginDurability ==
  ASSUME TypeOK, DurabilityInv, NEW f \in Flushers, FlushBegin(f)
  PROVE  DurabilityInv'
  <1> USE DEF memVars, loopVars, history
  <1>1. CASE ~CurrentDirty
    <2>1. /\ mem' = Current /\ loaded' = TRUE /\ stage[f] = "begin"
          /\ stage' = [stage EXCEPT ![f] = "idle"]
          /\ UNCHANGED <<lpc, cpc, disk, snap, claim, newer, overtaken, stale, raced>>
      BY <1>1 DEF FlushBegin
    <2>2. Current' = Current
      BY <2>1 DEF Current
    <2>3. FlushesInPlace'
      BY <2>1 DEF DurabilityInv, FlushesInPlace, TypeOK, Persisters, Flushers
    <2>4. \A p \in Persisters : \/ stage'[p] = stage[p]
                                \/ stage[p] \in {"idle", "begin"} /\ stage'[p] \in {"idle", "begin"}
      BY <2>1 DEF TypeOK
    <2> QED BY <2>1, <2>2, <2>3, <2>4, FrameDurability
  <1>2. CASE CurrentDirty
    <2>1. /\ mem' = Current /\ loaded' = TRUE /\ stage[f] = "begin"
          /\ stage' = [stage EXCEPT ![f] = "read"] /\ snap' = [snap EXCEPT ![f] = Current]
          /\ newer' = newer \cup {<<q, f>> : q \in {q \in Persisters \ {f} : Holding(q)}}
          /\ UNCHANGED <<lpc, cpc, disk, claim, overtaken, stale, raced>>
      BY <1>2 DEF FlushBegin, TakeSnapshot
    <2>2. f \in Persisters /\ f \notin Writers /\ Current' = Current
      BY <2>1, WritersAreHandlers DEF Persisters, Current
    <2>3. /\ \A p \in Persisters \ {f} : /\ stage'[p] = stage[p] /\ snap'[p] = snap[p]
                                         /\ Holding(p)' = Holding(p)
          /\ stage'[f] = "read" /\ snap'[f] = Current /\ Holding(f)' /\ ~Holding(f)
      BY <2>1, <2>2 DEF TypeOK, Holding
    <2>4. FlushesInPlace'
      BY <2>1, <2>2, <2>3 DEF DurabilityInv, FlushesInPlace, Persisters, Flushers
    <2>5. SnapshotOrder'
      <3>1. \A i \in Ids : claim'[i].by \in Writers => stage'[claim'[i].by] \in {"write", "failed"}
        BY <2>1, <2>2, <2>3 DEF DurabilityInv, SnapshotOrder, Persisters
      <3>2. \A p, q \in Persisters :
              (p # q /\ Holding(p)' /\ Holding(q)') => <<p, q>> \in newer' \/ <<q, p>> \in newer'
        BY <2>1, <2>3 DEF DurabilityInv, SnapshotOrder
      <3>3. \A e \in newer' : Holding(e[1])'
        <4> SUFFICES ASSUME NEW e \in newer' PROVE Holding(e[1])'
          OBVIOUS
        <4>1. CASE e \in newer
          <5>1. e[1] \in Persisters /\ Holding(e[1])
            BY <4>1 DEF DurabilityInv, SnapshotOrder, TypeOK
          <5> QED BY <2>3, <5>1
        <4>2. CASE e \notin newer
          BY <2>1, <2>3, <4>2
        <4> QED BY <4>1, <4>2
      <3>4. \A p \in overtaken' : \E q \in Persisters : <<p, q>> \in newer'
        BY <2>1 DEF DurabilityInv, SnapshotOrder
      <3> QED BY <2>1, <3>1, <3>2, <3>3, <3>4 DEF SnapshotOrder
    <2>6. ASSUME ~raced'
          PROVE  Agreement'
      <3>1. LandedFlush /\ MemoryAgrees /\ FileAgrees /\ SnapshotsAgree /\ SnapshotsFollow
        BY <2>1, <2>6 DEF DurabilityInv
      <3>2. LandedFlush'
        <4> SUFFICES ASSUME NEW g \in Flushers, stage'[g] = "absorb"
                     PROVE  g \notin stale' /\ \A q \in Persisters : <<q, g>> \in newer' => q \in overtaken'
          BY DEF LandedFlush
        <4>1. g # f /\ g \in Persisters /\ stage[g] = "absorb"
          BY <2>3 DEF Persisters
        <4> QED BY <2>1, <3>1, <4>1 DEF LandedFlush
      <3>3. MemoryAgrees' /\ FileAgrees'
        BY <2>1, <2>2, <3>1 DEF MemoryAgrees, FileAgrees, Settled, Standing
      <3>4. SnapshotsAgree'
        <4> SUFFICES ASSUME NEW p \in Persisters, NEW i \in Ids, Settled(i),
                            stage'[p] \in {"read", "write", "absorb"}
                     PROVE  snap'[p][i].cred = claim[i].cred \/ p \in overtaken \/ p \in stale
          BY <2>1 DEF SnapshotsAgree, Settled
        <4>1. CASE p = f
          BY <2>3, <3>1, <4>1 DEF MemoryAgrees
        <4>2. CASE p # f
          BY <2>3, <3>1, <4>2 DEF SnapshotsAgree
        <4> QED BY <4>1, <4>2
      <3>5. SnapshotsFollow'
        <4> SUFFICES ASSUME NEW p \in Persisters, NEW i \in Ids, Standing(i),
                            p = claim[i].by \/ <<claim[i].by, p>> \in newer',
                            (p \in Writers /\ Holding(p)') \/ stage'[p] = "read"
                     PROVE  snap'[p][i].cred = claim[i].cred
          BY <2>1 DEF SnapshotsFollow, Standing
        <4>1. CASE p = f
          BY <2>3, <3>1, <4>1 DEF MemoryAgrees
        <4>2. CASE p # f
          BY <2>1, <2>3, <3>1, <4>2 DEF SnapshotsFollow
        <4> QED BY <4>1, <4>2
      <3> QED BY <3>2, <3>3, <3>4, <3>5 DEF Agreement
    <2> QED BY <2>4, <2>5, <2>6 DEF DurabilityInv, Agreement
  <1> QED BY <1>1, <1>2

\* Merging the file's rows into a flush's snapshot: an account whose last
\* mutation was acknowledged is in the file as it should be.
LEMMA FlushReadDurability ==
  ASSUME TypeOK, DurabilityInv, NEW f \in Flushers, FlushRead(f) \/ FlushReadFails(f)
  PROVE  DurabilityInv'
  <1> USE DEF memVars, loopVars, history
  <1>1. /\ stage[f] = "read" /\ stage' = [stage EXCEPT ![f] = "write"]
        /\ snap' = [snap EXCEPT ![f] = Merge(disk, snap[f])] \/ snap' = snap
        /\ UNCHANGED <<mem, loaded, lpc, cpc, disk, claim, newer, overtaken, stale, raced>>
    BY DEF FlushRead, FlushReadFails
  <1>2. f \in Persisters /\ f \notin Writers
    BY WritersAreHandlers DEF Persisters
  <1>3. /\ \A p \in Persisters : Holding(p)' = Holding(p)
        /\ \A p \in Persisters \ {f} : stage'[p] = stage[p] /\ snap'[p] = snap[p]
        /\ stage'[f] = "write"
        /\ snap'[f] = Merge(disk, snap[f]) \/ snap'[f] = snap[f]
    BY <1>1, <1>2 DEF TypeOK, Holding
  <1>4. FlushesInPlace'
    BY <1>1, <1>2, <1>3 DEF DurabilityInv, FlushesInPlace, Persisters, Flushers
  <1>5. SnapshotOrder'
    <2>1. \A id \in Ids : claim'[id].by \in Writers => stage'[claim'[id].by] \in {"write", "failed"}
      BY <1>1, <1>2, <1>3 DEF DurabilityInv, SnapshotOrder, Persisters
    <2>2. \A e \in newer : e[1] \in Persisters
      BY DEF TypeOK
    <2> QED BY <1>1, <1>3, <2>1, <2>2 DEF DurabilityInv, SnapshotOrder
  <1>6. ASSUME ~raced'
        PROVE  Agreement'
    <2>1. LandedFlush /\ MemoryAgrees /\ FileAgrees /\ SnapshotsAgree /\ SnapshotsFollow
      BY <1>1, <1>6 DEF DurabilityInv
    <2>2. LandedFlush'
      BY <1>1, <1>3, <2>1 DEF LandedFlush, Persisters
    <2>3. MemoryAgrees' /\ FileAgrees'
      BY <1>1, <2>1 DEF MemoryAgrees, FileAgrees, Settled, Standing, Current
    <2>4. SnapshotsAgree'
      <3> SUFFICES ASSUME NEW p \in Persisters, NEW i \in Ids, Settled(i),
                          stage'[p] \in {"read", "write", "absorb"}
                   PROVE  snap'[p][i].cred = claim[i].cred \/ p \in overtaken \/ p \in stale
        BY <1>1 DEF SnapshotsAgree, Settled
      <3>1. CASE p = f
        <4>1. \/ snap[f][i].cred = claim[i].cred \/ f \in overtaken \/ f \in stale
          BY <1>1, <1>2, <2>1 DEF SnapshotsAgree
        <4>2. disk[i].cred = claim[i].cred
          BY <2>1 DEF FileAgrees
        <4> QED BY <1>3, <3>1, <4>1, <4>2 DEF Merge
      <3>2. CASE p # f
        BY <1>3, <2>1, <3>2 DEF SnapshotsAgree
      <3> QED BY <3>1, <3>2
    <2>5. SnapshotsFollow'
      <3> SUFFICES ASSUME NEW p \in Persisters, NEW i \in Ids, Standing(i),
                          p = claim[i].by \/ <<claim[i].by, p>> \in newer,
                          (p \in Writers /\ Holding(p)') \/ stage'[p] = "read"
                   PROVE  snap'[p][i].cred = claim[i].cred
        BY <1>1 DEF SnapshotsFollow, Standing
      <3>1. p # f
        BY <1>2, <1>3
      <3> QED BY <1>3, <2>1, <3>1 DEF SnapshotsFollow
    <2> QED BY <2>2, <2>3, <2>4, <2>5 DEF Agreement
  <1> QED BY <1>4, <1>5, <1>6 DEF DurabilityInv, Agreement

\* A flush that lands without a race agrees with everything acknowledged, and
\* from here on older snapshots are overtaken.
LEMMA FlushWrittenDurability ==
  ASSUME TypeOK, DurabilityInv, NEW f \in Flushers, FlushWritten(f)
  PROVE  DurabilityInv'
  <1> USE DEF memVars, loopVars, history
  <1>1. /\ stage[f] = "write" /\ stage' = [stage EXCEPT ![f] = "absorb"]
        /\ disk' = snap[f] /\ raced' = (raced \/ f \in overtaken \/ f \in stale)
        /\ overtaken' = overtaken \cup {q \in Persisters : <<q, f>> \in newer}
        /\ stale' = stale \cup {g \in Flushers \ {f} : stage[g] = "write"}
        /\ UNCHANGED <<mem, loaded, lpc, cpc, snap, claim, newer>>
    BY DEF FlushWritten, Land, OvertakenBy, StaleAfter, Overtakes, StaleRead
  <1>2. f \in Persisters /\ f \notin Writers
    BY WritersAreHandlers DEF Persisters
  <1>3. /\ \A p \in Persisters : Holding(p)' = Holding(p)
        /\ \A p \in Persisters \ {f} : stage'[p] = stage[p]
        /\ stage'[f] = "absorb" /\ Holding(f)
    BY <1>1, <1>2 DEF TypeOK, Holding
  <1>4. loaded /\ Current' = Current
    BY <1>1, <1>2, <1>3 DEF DurabilityInv, SnapshotOrder, Current
  <1>5. FlushesInPlace'
    BY <1>1, <1>2, <1>3 DEF DurabilityInv, FlushesInPlace, Persisters, Flushers
  <1>6. SnapshotOrder'
    <2>1. \A id \in Ids : claim'[id].by \in Writers => stage'[claim'[id].by] \in {"write", "failed"}
      BY <1>1, <1>2, <1>3 DEF DurabilityInv, SnapshotOrder, Persisters
    <2>2. \A e \in newer : e[1] \in Persisters
      BY DEF TypeOK
    <2>3. \A p \in overtaken' : \E q \in Persisters : <<p, q>> \in newer'
      BY <1>1, <1>2 DEF DurabilityInv, SnapshotOrder
    <2> QED BY <1>1, <1>3, <1>4, <2>1, <2>2, <2>3 DEF DurabilityInv, SnapshotOrder
  <1>7. ASSUME ~raced'
        PROVE  Agreement'
    <2>1. LandedFlush /\ MemoryAgrees /\ FileAgrees /\ SnapshotsAgree /\ SnapshotsFollow
      BY <1>1, <1>7 DEF DurabilityInv
    <2>2. f \notin overtaken /\ f \notin stale
      BY <1>1, <1>7
    <2>3. LandedFlush'
      <3> SUFFICES ASSUME NEW g \in Flushers, stage'[g] = "absorb"
                   PROVE  g \notin stale' /\ \A q \in Persisters : <<q, g>> \in newer => q \in overtaken'
        BY <1>1 DEF LandedFlush
      <3>1. CASE g = f
        BY <1>1, <2>2, <3>1
      <3>2. CASE g # f
        BY <1>1, <1>3, <2>1, <3>2 DEF LandedFlush, Persisters
      <3> QED BY <3>1, <3>2
    <2>4. MemoryAgrees'
      BY <1>1, <1>4, <2>1 DEF MemoryAgrees, Settled, Standing
    <2>5. FileAgrees'
      BY <1>1, <1>2, <2>1, <2>2 DEF FileAgrees, SnapshotsAgree, Settled
    <2>6. SnapshotsAgree'
      <3> SUFFICES ASSUME NEW p \in Persisters, NEW i \in Ids, Settled(i),
                          stage'[p] \in {"read", "write", "absorb"}
                   PROVE  snap[p][i].cred = claim[i].cred \/ p \in overtaken' \/ p \in stale'
        BY <1>1 DEF SnapshotsAgree, Settled
      <3>1. stage[p] \in {"read", "write", "absorb"}
        BY <1>1, <1>3
      <3> QED BY <1>1, <2>1, <3>1 DEF SnapshotsAgree
    <2>7. SnapshotsFollow'
      <3> SUFFICES ASSUME NEW p \in Persisters, NEW i \in Ids, Standing(i)',
                          p = claim[i].by \/ <<claim[i].by, p>> \in newer,
                          (p \in Writers /\ Holding(p)') \/ stage'[p] = "read"
                   PROVE  snap[p][i].cred = claim[i].cred
        BY <1>1 DEF SnapshotsFollow, Standing
      <3>1. p # f /\ Standing(i)
        BY <1>1, <1>2, <1>3 DEF Standing
      <3> QED BY <1>3, <2>1, <3>1 DEF SnapshotsFollow
    <2> QED BY <2>3, <2>4, <2>5, <2>6, <2>7 DEF Agreement
  <1> QED BY <1>5, <1>6, <1>7 DEF DurabilityInv, Agreement

\* Absorbing the file's rows into memory brings nothing back that was deleted:
\* an older, unanswered Delete is overtaken, a newer one makes this a race.
LEMMA FlushAbsorbDurability ==
  ASSUME TypeOK, DurabilityInv, NEW f \in Flushers, FlushAbsorb(f)
  PROVE  DurabilityInv'
  <1> USE DEF memVars, loopVars, history
  <1>1. /\ stage[f] = "absorb" /\ mem' = Merge(snap[f], mem) /\ loaded' = TRUE
        /\ raced' = (raced \/ (LateAbsorb(f) /\ mem' # mem))
        /\ Finish(f) /\ Forget(f)
        /\ UNCHANGED <<lpc, cpc, disk, claim>>
    BY DEF FlushAbsorb
  <1>2. f \in Persisters /\ f \notin Writers /\ Holding(f)
    BY <1>1, WritersAreHandlers DEF Persisters, Holding
  <1>3. loaded /\ Current = mem /\ Current' = mem'
    BY <1>1, <1>2 DEF DurabilityInv, SnapshotOrder, Current
  <1>4. /\ \A q \in Persisters \ {f} : /\ stage'[q] = stage[q] /\ snap'[q] = snap[q]
                                       /\ Holding(q)' = Holding(q)
        /\ stage'[f] = "idle" /\ ~Holding(f)'
    BY <1>1, <1>2 DEF Finish, TypeOK, Holding
  <1>5. /\ newer' = {e \in newer : e[1] # f}
        /\ overtaken' = overtaken \ {f} /\ stale' = stale \ {f}
    BY <1>1 DEF Forget
  <1>6. \A id \in Ids : claim[id].by # f
    BY <1>1, <1>2, WritersAreHandlers DEF TypeOK, Flushers
  <1>7. FlushesInPlace'
    BY <1>1, <1>4 DEF DurabilityInv, FlushesInPlace, Persisters, Flushers
  <1>8. SnapshotOrder'
    <2>1. \A id \in Ids : claim'[id].by \in Writers => stage'[claim'[id].by] \in {"write", "failed"}
      BY <1>1, <1>4, <1>6 DEF DurabilityInv, SnapshotOrder, Persisters
    <2>2. \A q, r \in Persisters :
            (q # r /\ Holding(q)' /\ Holding(r)') => <<q, r>> \in newer' \/ <<r, q>> \in newer'
      BY <1>4, <1>5 DEF DurabilityInv, SnapshotOrder
    <2>3. \A e \in newer' : Holding(e[1])'
      <3> SUFFICES ASSUME NEW e \in newer' PROVE Holding(e[1])'
        OBVIOUS
      <3>1. e \in newer /\ e[1] # f /\ e[1] \in Persisters
        BY <1>5 DEF TypeOK
      <3> QED BY <1>4, <3>1 DEF DurabilityInv, SnapshotOrder
    <2>4. \A q \in overtaken' : \E r \in Persisters : <<q, r>> \in newer'
      <3> SUFFICES ASSUME NEW q \in overtaken' PROVE \E r \in Persisters : <<q, r>> \in newer'
        OBVIOUS
      <3>1. q # f /\ \E r \in Persisters : <<q, r>> \in newer
        BY <1>5 DEF DurabilityInv, SnapshotOrder
      <3> QED BY <1>5, <3>1
    <2> QED BY <1>1, <2>1, <2>2, <2>3, <2>4 DEF SnapshotOrder
  <1>9. ASSUME ~raced'
        PROVE  Agreement'
    <2>1. LandedFlush /\ MemoryAgrees /\ FileAgrees /\ SnapshotsAgree /\ SnapshotsFollow
      BY <1>1, <1>9 DEF DurabilityInv
    <2>2. LandedFlush'
      <3> SUFFICES ASSUME NEW g \in Flushers, stage'[g] = "absorb"
                   PROVE  g \notin stale' /\ \A q \in Persisters : <<q, g>> \in newer' => q \in overtaken'
        BY DEF LandedFlush
      <3>1. g # f /\ g \in Persisters /\ stage[g] = "absorb"
        BY <1>4 DEF Persisters
      <3> QED BY <1>5, <2>1, <3>1 DEF LandedFlush
    <2>3. MemoryAgrees'
      <3> SUFFICES ASSUME NEW i \in Ids, Settled(i) \/ Standing(i)
                   PROVE  mem'[i].cred = claim[i].cred
        BY <1>1, <1>3, <1>5, <1>6 DEF MemoryAgrees, Settled, Standing
      <3>1. mem[i].cred = claim[i].cred
        BY <1>3, <2>1 DEF MemoryAgrees
      <3>2. CASE mem' = mem
        BY <3>1, <3>2
      <3>3. CASE mem' # mem
        <4>1. \A q \in Persisters : <<f, q>> \notin newer
          BY <1>1, <1>9, <3>3 DEF LateAbsorb
        <4>2. f \notin overtaken /\ f \notin stale
          BY <1>1, <2>1, <4>1 DEF DurabilityInv, SnapshotOrder, LandedFlush
        <4>3. CASE Settled(i)
          <5>1. snap[f][i].cred = claim[i].cred
            BY <1>1, <1>2, <2>1, <4>2, <4>3 DEF SnapshotsAgree
          <5> QED BY <1>1, <3>1, <5>1 DEF Merge
        <4>4. CASE Standing(i)
          <5>1. claim[i].by \in Persisters /\ Holding(claim[i].by) /\ claim[i].by # f
            BY <1>6, <4>4 DEF Standing, DurabilityInv, SnapshotOrder, Persisters, Holding
          <5>2. <<claim[i].by, f>> \in newer
            BY <1>2, <4>1, <5>1 DEF DurabilityInv, SnapshotOrder
          <5>3. claim[i].by \in overtaken
            BY <1>1, <2>1, <5>1, <5>2 DEF LandedFlush
          <5> QED BY <4>4, <5>3 DEF Standing
        <4> QED BY <4>3, <4>4
      <3> QED BY <3>2, <3>3
    <2>4. FileAgrees'
      BY <1>1, <2>1 DEF FileAgrees, Settled
    <2>5. SnapshotsAgree'
      BY <1>1, <1>4, <1>5, <2>1 DEF SnapshotsAgree, Settled
    <2>6. SnapshotsFollow'
      <3> SUFFICES ASSUME NEW q \in Persisters, NEW i \in Ids, Standing(i)',
                          q = claim[i].by \/ <<claim[i].by, q>> \in newer',
                          (q \in Writers /\ Holding(q)') \/ stage'[q] = "read"
                   PROVE  snap'[q][i].cred = claim[i].cred
        BY <1>1 DEF SnapshotsFollow
      <3>1. q # f /\ Standing(i)
        BY <1>1, <1>4, <1>5, <1>6 DEF Standing
      <3> QED BY <1>4, <1>5, <2>1, <3>1 DEF SnapshotsFollow
    <2> QED BY <2>2, <2>3, <2>4, <2>5, <2>6 DEF Agreement
  <1> QED BY <1>7, <1>8, <1>9 DEF DurabilityInv, Agreement

LEMMA ExternalDurability ==
  ASSUME TypeOK, DurabilityInv, NEW id \in Ids, External(id)
  PROVE  DurabilityInv'
  <1> USE DEF memVars, loopVars, workVars, history
  <1>1. /\ claim' = [claim EXCEPT ![id] = [cred |-> issued + 1, by |-> "open"]]
        /\ disk' = [disk EXCEPT ![id] = [cred |-> issued + 1, hot |-> 0]]
        /\ UNCHANGED <<mem, loaded, lpc, cpc, stage, snap, newer, overtaken, stale, raced>>
    BY DEF External
  <1>2. "open" \notin Writers /\ "open" # "acked"
    BY WritersAreHandlers
  <1>3. \A i \in Ids : (Settled(i)' \/ claim'[i].by \in Writers)
                          => i # id /\ claim'[i] = claim[i] /\ disk'[i] = disk[i]
    BY <1>1, <1>2 DEF Settled, TypeOK, Store
  <1>4. \A i \in Ids : i # id => Current'[i] = Current[i]
    BY <1>1 DEF Current, TypeOK, Store
  <1>5. \A p \in Persisters : Holding(p)' = Holding(p)
    BY <1>1 DEF Holding
  <1>6. FlushesInPlace' /\ SnapshotOrder'
    BY <1>1, <1>3, <1>5 DEF DurabilityInv, FlushesInPlace, SnapshotOrder, Holding
  <1>7. LandedFlush => LandedFlush'
    BY <1>1 DEF LandedFlush
  <1>8. MemoryAgrees => MemoryAgrees'
    BY <1>1, <1>3, <1>4 DEF MemoryAgrees, Settled, Standing
  <1>9. FileAgrees => FileAgrees'
    BY <1>3 DEF FileAgrees, Settled
  <1>10. SnapshotsAgree => SnapshotsAgree'
    BY <1>1, <1>3 DEF SnapshotsAgree, Settled
  <1>11. SnapshotsFollow => SnapshotsFollow'
    <2> SUFFICES ASSUME SnapshotsFollow, NEW p \in Persisters, NEW i \in Ids, Standing(i)',
                        p = claim'[i].by \/ <<claim'[i].by, p>> \in newer,
                        (p \in Writers /\ Holding(p)') \/ stage[p] = "read"
                 PROVE  snap[p][i].cred = claim'[i].cred
      BY <1>1 DEF SnapshotsFollow
    <2>1. claim'[i] = claim[i] /\ Standing(i)
      BY <1>1, <1>3 DEF Standing
    <2> QED BY <1>5, <2>1 DEF SnapshotsFollow
  <1> QED BY <1>1, <1>6, <1>7, <1>8, <1>9, <1>10, <1>11 DEF DurabilityInv

\* After a restart the file is all there is, and it agreed.
LEMMA RestartDurability ==
  ASSUME TypeOK, DurabilityInv, Restart
  PROVE  DurabilityInv'
  <1>1. /\ loaded' = FALSE /\ lpc' = "select" /\ cpc' = "open" /\ disk' = disk /\ raced' = raced
        /\ stage' = [p \in Persisters |-> "idle"]
        /\ newer' = {} /\ overtaken' = {} /\ stale' = {}
        /\ claim' = [id \in Ids |-> IF claim[id].by \in Writers
                                      THEN [claim[id] EXCEPT !.by = "open"] ELSE claim[id]]
    BY DEF Restart, history
  <1>2. \A p \in Persisters : stage'[p] = "idle" /\ ~Holding(p)'
    BY <1>1 DEF Holding
  <1>3. "open" \notin Writers /\ "open" # "acked"
    BY WritersAreHandlers
  <1>4. \A i \in Ids : /\ claim'[i].by \notin Writers
                       /\ claim'[i].cred = claim[i].cred
                       /\ Settled(i)' => Settled(i)
    BY <1>1, <1>3 DEF TypeOK, Settled
  <1>5. FlushesInPlace'
    BY <1>2 DEF FlushesInPlace, Persisters, Flushers
  <1>6. SnapshotOrder'
    BY <1>1, <1>2, <1>4 DEF SnapshotOrder
  <1>7. LandedFlush' /\ SnapshotsAgree'
    BY <1>2 DEF LandedFlush, SnapshotsAgree, Persisters
  <1>8. SnapshotsFollow'
    BY <1>4 DEF SnapshotsFollow, Standing
  <1>9. FileAgrees => FileAgrees' /\ MemoryAgrees'
    BY <1>1, <1>4 DEF FileAgrees, MemoryAgrees, Standing, Current
  <1> QED BY <1>1, <1>5, <1>6, <1>7, <1>8, <1>9 DEF DurabilityInv

LEMMA DurabilityStep == TypeOK /\ DurabilityInv /\ [Next]_vars => DurabilityInv'
  <1> SUFFICES ASSUME TypeOK, DurabilityInv, [Next]_vars PROVE DurabilityInv'
    OBVIOUS
  <1> USE DEF loopVars, memVars, workVars, history
  <1>1. ASSUME NEW w \in Writers, WriterStep(w)
        PROVE  DurabilityInv'
    <2>1. ASSUME NEW id \in Ids, Upsert(w, id) \/ Update(w, id)
          PROVE  DurabilityInv'
      <3>1. [cred |-> issued + 1, hot |-> Current[id].hot] \in Row
        BY CurrentIsStore DEF TypeOK, Store, Row
      <3> QED BY <2>1, <3>1, MutateDurability DEF Upsert, Update
    <2>2. ASSUME NEW id \in Ids, Delete(w, id)
          PROVE  DurabilityInv'
      BY <2>2, AbsentIsRow, MutateDurability DEF Delete
    <2>3. CASE SyncFailed(w)
      <3>1. \A id \in Ids : /\ claim'[id].cred = claim[id].cred
                            /\ claim[id].by # w => claim'[id].by = claim[id].by
                            /\ claim[id].by = w => claim'[id].by = "open"
        BY <2>3 DEF SyncFailed, TypeOK
      <3>2. w \in Persisters /\ Holding(w)
        BY <2>3 DEF SyncFailed, Persisters, Holding
      <3> QED BY <2>3, <3>1, <3>2, ReleaseDurability DEF SyncFailed
    <2>4. w \in Persisters
      BY DEF Persisters
    <2> QED BY <1>1, <2>1, <2>2, <2>3, <2>4, SyncWrittenDurability, WriteFailsDurability
        DEF WriterStep
  <1>2. ASSUME NEW f \in Flushers, FlushStep(f)
        PROVE  DurabilityInv'
    <2>1. f \in Persisters
      BY DEF Persisters
    <2>2. CASE FlushFailed(f)
      <3>1. \A id \in Ids : claim[id].by # f
        BY WritersAreHandlers DEF TypeOK, Flushers
      <3>2. Holding(f)
        BY <2>2 DEF FlushFailed, Holding
      <3> QED BY <2>1, <2>2, <3>1, <3>2, ReleaseDurability DEF FlushFailed
    <2> QED
      BY <1>2, <2>1, <2>2, FlushBeginDurability, FlushReadDurability, FlushWrittenDurability,
         FlushAbsorbDurability, WriteFailsDurability
      DEF FlushStep
  <1>3. ASSUME NEW id \in Ids, Mark(id)
        PROVE  DurabilityInv'
    <2>1. mem' = [Current EXCEPT ![id].hot = @ + 1] /\ loaded' = TRUE
      BY <1>3 DEF Mark
    <2>2. \A i \in Ids : Current'[i].cred = Current[i].cred
      BY <2>1, CurrentIsStore DEF Current, Store, Row
    <2>3. FlushesInPlace'
      BY <1>3 DEF Mark, DurabilityInv, FlushesInPlace
    <2> QED BY <1>3, <2>1, <2>2, <2>3, FrameDurability DEF Mark
  <1>4. CASE LoopControl
    <2>1. /\ UNCHANGED <<mem, loaded, disk, snap, claim, newer, overtaken, stale, raced, cpc>>
          /\ \/ stage' = stage /\ (lpc' = "debounce" => lpc = "select")
                /\ (lpc' \in {"select", "exited"} => stage["loop"] = "idle")
             \/ /\ lpc \in {"select", "debounce"} /\ lpc' \in {"flushing", "exiting"}
                /\ stage' = [stage EXCEPT !["loop"] = "begin"]
      BY <1>4 DEF LoopControl, LoopWake, LoopTimer, LoopStop, LoopFlushed, LoopStep, LoopRest,
         StartFlush
    <2>2. Current' = Current
      BY <2>1 DEF Current
    <2>3. FlushesInPlace' /\ \A p \in Persisters :
            \/ stage'[p] = stage[p]
            \/ stage[p] \in {"idle", "begin"} /\ stage'[p] \in {"idle", "begin"}
      BY <2>1 DEF DurabilityInv, FlushesInPlace, TypeOK, Persisters, Flushers
    <2> QED BY <2>1, <2>2, <2>3, FrameDurability
  <1>5. CASE CloseControl
    <2>1. /\ UNCHANGED <<mem, loaded, disk, snap, claim, newer, overtaken, stale, raced, lpc>>
          /\ \/ stage' = stage /\ (cpc' = "waiting" => cpc = "open") /\ cpc' # "open"
                /\ (cpc' = "closed" => stage["closer"] = "idle")
             \/ /\ cpc = "waiting" /\ cpc' = "flushing"
                /\ stage' = [stage EXCEPT !["closer"] = "begin"]
      BY <1>5 DEF CloseControl, CloseStart, CloseFlush, CloseDone, CloseRest, StartFlush
    <2>2. Current' = Current
      BY <2>1 DEF Current
    <2>3. FlushesInPlace' /\ \A p \in Persisters :
            \/ stage'[p] = stage[p]
            \/ stage[p] \in {"idle", "begin"} /\ stage'[p] \in {"idle", "begin"}
      BY <2>1 DEF DurabilityInv, FlushesInPlace, TypeOK, Persisters, Flushers
    <2> QED BY <2>1, <2>2, <2>3, FrameDurability
  <1>6. CASE UNCHANGED vars
    <2>1. Current' = Current /\ FlushesInPlace'
      BY <1>6 DEF vars, Current, DurabilityInv, FlushesInPlace
    <2> QED BY <1>6, <2>1, FrameDurability DEF vars
  <1> QED
    BY <1>1, <1>2, <1>3, <1>4, <1>5, <1>6, ExternalDurability, RestartDurability DEF Next

\* An acknowledged mutation is in the file, across failed writes, crashes and
\* restarts, unless one of the three races happened.
THEOREM PoolAckedDurable == Spec => []AckedDurable
  <1>1. TypeOK /\ DurabilityInv => AckedDurable
    BY DEF DurabilityInv, FileAgrees, Settled, AckedDurable
  <1> QED BY <1>1, PoolTypeCorrect, DurabilityInit, DurabilityStep, PTL DEF Spec

-----------------------------------------------------------------------------
(* What is clean is saved, unless a race happened *)

LEMMA SavedInit == Init => SavedInv
  BY DEF Init, SavedInv, LandedLatest, Persisters

\* Whoever takes a snapshot of memory as it is carries it from then on.
LEMMA SnapshotSaved ==
  ASSUME TypeOK, DurabilityInv, SavedInv, NEW p \in Persisters, ~Holding(p),
         NEW s, NEW next \in {"read", "write"}, TakeSnapshot(p, s, next), mem' = s,
         UNCHANGED <<disk, raced>>
  PROVE  SavedInv'
  <1>1. /\ stage' = [stage EXCEPT ![p] = next] /\ snap' = [snap EXCEPT ![p] = s]
        /\ newer' = newer \cup {<<q, p>> : q \in {q \in Persisters \ {p} : Holding(q)}}
    BY DEF TakeSnapshot
  <1>2. /\ stage'[p] = next /\ snap'[p] = s
        /\ \A q \in Persisters \ {p} : stage'[q] = stage[q] /\ snap'[q] = snap[q]
    BY <1>1 DEF TypeOK
  <1>3. Latest(p)' BY <1>1 DEF Latest, DurabilityInv, SnapshotOrder
  <1>4. Covers(snap[p])' BY <1>2 DEF Covers
  <1>5. Carried' BY <1>2, <1>3, <1>4 DEF Carried, Carries
  <1>6. ASSUME ~raced PROVE LandedLatest'
    <2> SUFFICES ASSUME NEW f \in Flushers, stage'[f] = "absorb", Latest(f)',
                        NEW id \in Ids, snap'[f][id].cred # 0
                 PROVE  disk[id] = snap'[f][id]
      BY DEF LandedLatest
    <2>1. f # p /\ f \in Persisters BY <1>2 DEF Persisters
    <2>2. Latest(f) BY <1>1, <2>1 DEF Latest
    <2> QED BY <1>2, <1>6, <2>1, <2>2 DEF SavedInv, LandedLatest
  <1> QED BY <1>5, <1>6 DEF SavedInv

\* A step that takes no snapshot, writes nothing and lets nobody go.
LEMMA FrameSaved ==
  ASSUME SavedInv, UNCHANGED <<disk, newer, overtaken, raced>>,
         loaded' /\ ~dirty' => loaded /\ ~dirty /\ mem' = mem,
         \A p \in Persisters :
             /\ stage'[p] = "absorb" => stage[p] = "absorb" /\ snap'[p] = snap[p]
             /\ stage'[p] \in {"read", "write"} => stage[p] \in {"read", "write"}
             /\ stage[p] \in {"read", "write", "failed"} =>
                   /\ stage'[p] \in {"read", "write", "failed"}
                   /\ \A id \in Ids : snap[p][id].cred # 0 => snap'[p][id] = snap[p][id]
  PROVE  SavedInv'
  <1>1. \A p \in Persisters : Latest(p)' = Latest(p) BY DEF Latest
  <1>2. ASSUME ~raced, loaded', ~dirty' PROVE (Carried \/ UpToDate)'
    <2>1. loaded /\ ~dirty /\ mem' = mem BY <1>2
    <2>2. CASE Carried
      <3>1. PICK p \in Persisters : Carries(p) BY <2>2 DEF Carried
      <3>2. Covers(snap[p])' BY <2>1, <3>1 DEF Carries, Covers
      <3> QED BY <1>1, <3>1, <3>2 DEF Carried, Carries
    <2>3. CASE UpToDate BY <2>1, <2>3 DEF UpToDate, Covers
    <2> QED BY <1>2, <2>1, <2>2, <2>3 DEF SavedInv
  <1>3. ASSUME ~raced PROVE LandedLatest'
    <2>1. Flushers \subseteq Persisters BY DEF Persisters
    <2> QED BY <1>1, <1>3, <2>1 DEF SavedInv, LandedLatest
  <1> QED BY <1>2, <1>3 DEF SavedInv

\* A snapshot lands: if it was the latest the file is up to date and everybody
\* else is overtaken, and if it was not the latest is still on its way.
LEMMA LandSaved ==
  ASSUME TypeOK, DurabilityInv, SavedInv, NEW p \in Persisters,
         stage[p] = "write", Land(p), UNCHANGED <<mem, loaded, dirty>>,
         ~raced' => ~raced /\ p \notin overtaken,
         \/ stage'[p] = "idle"
         \/ stage'[p] = "absorb" /\ snap'[p] = snap[p],
         \A q \in Persisters \ {p} : stage'[q] = stage[q] /\ snap'[q] = snap[q],
         newer' = newer \/ newer' = {e \in newer : e[1] # p},
         \A q \in Persisters \ {p} : q \in overtaken \/ <<q, p>> \in newer => q \in overtaken'
  PROVE  SavedInv'
  <1> SUFFICES ASSUME ~raced'
               PROVE  (loaded /\ ~dirty => Carried \/ UpToDate)' /\ LandedLatest'
    BY DEF SavedInv
  <1>1. ~raced /\ p \notin overtaken /\ disk' = snap[p] /\ Holding(p)
    BY DEF Land, Holding
  <1>2. /\ \A q \in Persisters : Latest(q) => Latest(q)'
        /\ \A q \in Persisters \ {p} : Latest(q)' => Latest(q)
    BY DEF Latest
  <1>3. ASSUME loaded', ~dirty' PROVE (Carried \/ UpToDate)'
    <2>1. PICK q \in Persisters : Carries(q)
      BY <1>1, <1>3 DEF SavedInv, Carried, UpToDate
    <2>2. CASE q = p
      <3>1. Covers(disk)' BY <1>1, <2>1, <2>2 DEF Carries, Covers
      <3>2. ASSUME NEW r \in Persisters, stage'[r] \in {"read", "write"} PROVE r \in overtaken'
        <4>1. r # p /\ Holding(r) BY <3>2 DEF Holding
        <4>2. <<r, p>> \in newer
          BY <1>1, <2>1, <2>2, <4>1 DEF DurabilityInv, SnapshotOrder, Carries, Latest
        <4> QED BY <4>1, <4>2
      <3> QED BY <3>1, <3>2 DEF UpToDate
    <2>3. CASE q # p
      <3>1. Covers(snap[q])' BY <2>1, <2>3 DEF Carries, Covers
      <3> QED BY <1>2, <2>1, <2>3, <3>1 DEF Carried, Carries
    <2> QED BY <2>2, <2>3
  <1>4. LandedLatest'
    <2> SUFFICES ASSUME NEW f \in Flushers, stage'[f] = "absorb", Latest(f)',
                        NEW id \in Ids, snap'[f][id].cred # 0
                 PROVE  disk'[id] = snap'[f][id]
      BY DEF LandedLatest
    <2>1. CASE f = p BY <1>1, <2>1
    <2>2. CASE f # p
      <3>1. f \in Persisters /\ stage[f] = "absorb" /\ Holding(f)
        BY <2>2 DEF Persisters, Holding
      <3>2. <<f, p>> \notin newer BY <1>2, <2>2, <3>1 DEF Latest
      <3>3. <<p, f>> \in newer
        BY <1>1, <2>2, <3>1, <3>2 DEF DurabilityInv, SnapshotOrder
      <3> QED BY <1>1, <3>1, <3>3 DEF DurabilityInv, LandedFlush
    <2> QED BY <2>1, <2>2
  <1> QED BY <1>3, <1>4

\* A failed write leaves the pool dirty.
LEMMA ReleaseSaved ==
  ASSUME TypeOK, SavedInv, NEW p \in Persisters, Redirty, Finish(p), Forget(p),
         UNCHANGED <<disk, raced>>
  PROVE  SavedInv'
  <1>1. dirty' BY DEF Redirty
  <1>2. /\ stage'[p] = "idle" /\ newer' = {e \in newer : e[1] # p}
        /\ \A q \in Persisters \ {p} : stage'[q] = stage[q] /\ snap'[q] = snap[q]
    BY DEF Finish, Forget, TypeOK
  <1>3. ASSUME ~raced, NEW f \in Flushers, stage'[f] = "absorb", Latest(f)'
        PROVE  stage[f] = "absorb" /\ Latest(f) /\ snap'[f] = snap[f]
    <2>1. f \in Persisters /\ f # p BY <1>2, <1>3 DEF Persisters
    <2> QED BY <1>2, <1>3, <2>1 DEF Latest
  <1> QED BY <1>1, <1>3 DEF SavedInv, LandedLatest

LEMMA FlushBeginSaved ==
  ASSUME TypeOK, DurabilityInv, SavedInv, NEW f \in Flushers, FlushBegin(f)
  PROVE  SavedInv'
  <1>1. /\ stage[f] = "begin" /\ mem' = Current /\ loaded' = TRUE
        /\ UNCHANGED <<overtaken, raced, disk>>
    BY DEF FlushBegin
  <1>2. f \in Persisters /\ ~Holding(f) BY <1>1 DEF Persisters, Holding
  <1>3. CASE TakeSnapshot(f, Current, "read") BY <1>1, <1>2, <1>3, SnapshotSaved
  <1>4. CASE ~CurrentDirty /\ stage' = [stage EXCEPT ![f] = "idle"] /\ UNCHANGED <<snap, newer>>
    <2>1. /\ stage'[f] = "idle"
          /\ \A q \in Persisters \ {f} : stage'[q] = stage[q]
      BY <1>2, <1>4 DEF TypeOK
    <2>2. CASE loaded
      BY <1>1, <1>4, <2>1, <2>2, FrameSaved DEF CurrentDirty, Current
    <2>3. CASE ~loaded
      <3>1. mem' = disk' BY <1>1, <2>3 DEF Current
      <3>2. \A q \in Persisters : ~Holding(q) BY <2>3 DEF DurabilityInv, SnapshotOrder
      <3>3. \A q \in Persisters : stage'[q] \notin {"read", "write", "absorb"}
        BY <2>1, <3>2 DEF Holding
      <3>4. UpToDate' BY <3>1, <3>3 DEF UpToDate, Covers
      <3>5. LandedLatest' BY <3>3 DEF LandedLatest, Persisters
      <3> QED BY <3>4, <3>5 DEF SavedInv
    <2> QED BY <2>2, <2>3
  <1> QED BY <1>3, <1>4 DEF FlushBegin

\* A flush brings new rows into memory only if it is the latest, and then they
\* are in the file and everybody else is overtaken.
LEMMA FlushAbsorbSaved ==
  ASSUME TypeOK, DurabilityInv, SavedInv, NEW f \in Flushers, FlushAbsorb(f)
  PROVE  SavedInv'
  <1>1. /\ stage[f] = "absorb" /\ mem' = Merge(snap[f], mem) /\ loaded' = TRUE
        /\ raced' = (raced \/ (LateAbsorb(f) /\ mem' # mem))
        /\ UNCHANGED <<disk, dirty>>
    BY DEF FlushAbsorb
  <1>2. f \in Persisters /\ Holding(f) /\ loaded
    BY <1>1 DEF Persisters, Holding, DurabilityInv, SnapshotOrder
  <1>3. /\ stage'[f] = "idle" /\ newer' = {e \in newer : e[1] # f}
        /\ overtaken' = overtaken \ {f}
        /\ \A q \in Persisters \ {f} : stage'[q] = stage[q] /\ snap'[q] = snap[q]
    BY <1>2 DEF FlushAbsorb, Finish, Forget, TypeOK
  <1> SUFFICES ASSUME ~raced'
               PROVE  (loaded /\ ~dirty => Carried \/ UpToDate)' /\ LandedLatest'
    BY DEF SavedInv
  <1>4. ~raced /\ (mem' = mem \/ Latest(f)) BY <1>1 DEF LateAbsorb, Latest
  <1>5. \A q \in Persisters : Latest(q) => Latest(q)' BY <1>3 DEF Latest
  <1>6. LandedLatest'
    <2>1. ASSUME NEW g \in Flushers, stage'[g] = "absorb", Latest(g)'
          PROVE  stage[g] = "absorb" /\ Latest(g) /\ snap'[g] = snap[g]
      <3>1. g \in Persisters /\ g # f BY <1>3, <2>1 DEF Persisters
      <3> QED BY <1>3, <2>1, <3>1 DEF Latest
    <2> QED BY <1>1, <1>4, <2>1 DEF SavedInv, LandedLatest
  <1>7. ASSUME ~dirty PROVE (Carried \/ UpToDate)'
    <2>1. CASE Carried
      <3>1. PICK q \in Persisters : Carries(q) BY <2>1 DEF Carried
      <3>2. q # f /\ Holding(q) BY <1>1, <3>1 DEF Carries, Holding
      <3>3. <<f, q>> \in newer
        BY <1>2, <3>1, <3>2 DEF DurabilityInv, SnapshotOrder, Carries, Latest
      <3>4. mem' = mem BY <1>4, <3>3 DEF Latest
      <3>5. Covers(snap[q])' BY <1>3, <3>1, <3>2, <3>4 DEF Carries, Covers
      <3> QED BY <1>3, <1>5, <3>1, <3>2, <3>5 DEF Carried, Carries
    <2>2. CASE UpToDate
      <3>1. Covers(disk)'
        <4> SUFFICES ASSUME NEW id \in Ids, mem'[id].cred # 0 PROVE disk[id] = mem'[id]
          BY <1>1 DEF Covers
        <4>1. mem'[id] = IF mem[id].cred # 0 THEN mem[id] ELSE snap[f][id]
          BY <1>1 DEF Merge
        <4>2. CASE mem[id].cred # 0 BY <2>2, <4>1, <4>2 DEF UpToDate, Covers
        <4>3. CASE mem[id].cred = 0
          <5>1. mem'[id] # mem[id] BY <4>3
          <5>2. Latest(f) BY <1>4, <5>1
          <5> QED BY <1>1, <1>4, <4>1, <4>3, <5>2 DEF SavedInv, LandedLatest
        <4> QED BY <4>2, <4>3 DEF TypeOK, Store, Row
      <3>2. \A q \in Persisters : stage'[q] \in {"read", "write"} => q \in overtaken'
        BY <1>3, <2>2 DEF UpToDate
      <3> QED BY <3>1, <3>2 DEF UpToDate
    <2> QED BY <1>2, <1>4, <1>7, <2>1, <2>2 DEF SavedInv
  <1> QED BY <1>1, <1>6, <1>7

LEMMA ExternalSaved ==
  ASSUME TypeOK, SavedInv, NEW a \in Ids, External(a)
  PROVE  SavedInv'
  <1>1. /\ disk[a].cred = 0 /\ Current[a].cred = 0
        /\ \A id \in Ids \ {a} : disk'[id] = disk[id]
        /\ UNCHANGED <<mem, loaded, dirty, stage, snap, newer, overtaken, raced>>
    BY DEF External, TypeOK, Store, memVars, workVars, history
  <1>2. loaded /\ Covers(disk) => Covers(disk)' BY <1>1 DEF Covers, Current
  <1>3. LandedLatest => LandedLatest' BY <1>1 DEF LandedLatest, Latest
  <1>4. Carried => Carried' BY <1>1 DEF Carried, Carries, Covers, Latest
  <1> QED BY <1>1, <1>2, <1>3, <1>4 DEF SavedInv, UpToDate

LEMMA SyncWrittenSaved ==
  ASSUME TypeOK, DurabilityInv, SavedInv, NEW w \in Writers, SyncWritten(w)
  PROVE  SavedInv'
  <1>1. w \in Persisters BY DEF Persisters
  <1>2. /\ stage[w] = "write" /\ Land(w) /\ UNCHANGED <<mem, loaded, dirty>>
        /\ raced' = (raced \/ w \in overtaken)
        /\ newer' = {e \in newer : e[1] # w}
        /\ overtaken' = (overtaken \cup {q \in Persisters : <<q, w>> \in newer}) \ {w}
    BY DEF SyncWritten, Overtakes, OvertakenBy, memVars
  <1>3. /\ stage'[w] = "idle"
        /\ \A q \in Persisters \ {w} : stage'[q] = stage[q] /\ snap'[q] = snap[q]
    BY <1>1 DEF SyncWritten, Finish, TypeOK
  <1>4. ~raced' => ~raced /\ w \notin overtaken BY <1>2 DEF TypeOK
  <1>5. \A q \in Persisters \ {w} : q \in overtaken \/ <<q, w>> \in newer => q \in overtaken'
    BY <1>2
  <1> QED BY <1>1, <1>2, <1>3, <1>4, <1>5, LandSaved

LEMMA SavedStep == TypeOK /\ DurabilityInv /\ SavedInv /\ [Next]_vars => SavedInv'
  <1> SUFFICES ASSUME TypeOK, DurabilityInv, SavedInv, [Next]_vars PROVE SavedInv'
    OBVIOUS
  <1> USE DEF loopVars, memVars, workVars, history
  <1>1. ASSUME NEW p \in Persisters, WriteFails(p) PROVE SavedInv'
    <2>1. /\ stage[p] = "write" /\ stage'[p] = "failed"
          /\ \A q \in Persisters \ {p} : stage'[q] = stage[q]
      BY <1>1 DEF WriteFails, TypeOK
    <2> QED BY <1>1, <2>1, FrameSaved DEF WriteFails
  <1>2. ASSUME NEW w \in Writers, WriterStep(w) PROVE SavedInv'
    <2>1. w \in Persisters BY DEF Persisters
    <2>2. ASSUME NEW id \in Ids, NEW row, ~Busy(w), Mutate(w, id, row) PROVE SavedInv'
      <3>1. ~Holding(w) BY <2>2 DEF Busy, Holding
      <3> QED BY <2>1, <2>2, <3>1, SnapshotSaved DEF Mutate
    <2>4. CASE SyncFailed(w) BY <2>1, <2>4, ReleaseSaved DEF SyncFailed
    <2> QED BY <1>1, <1>2, <2>1, <2>2, <2>4, SyncWrittenSaved DEF WriterStep, Upsert, Update, Delete
  <1>3. ASSUME NEW f \in Flushers, FlushStep(f) PROVE SavedInv'
    <2>1. f \in Persisters BY DEF Persisters
    <2>2. CASE FlushRead(f)
      <3>1. /\ stage[f] = "read" /\ stage'[f] = "write" /\ snap'[f] = Merge(disk, snap[f])
            /\ \A q \in Persisters \ {f} : stage'[q] = stage[q] /\ snap'[q] = snap[q]
        BY <2>1, <2>2 DEF FlushRead, TypeOK
      <3>2. \A id \in Ids : snap[f][id].cred # 0 => snap'[f][id] = snap[f][id]
        BY <3>1 DEF Merge
      <3> QED BY <2>2, <3>1, <3>2, FrameSaved DEF FlushRead
    <2>3. CASE FlushReadFails(f)
      <3>1. /\ stage[f] = "read" /\ stage'[f] = "write"
            /\ \A q \in Persisters \ {f} : stage'[q] = stage[q]
        BY <2>1, <2>3 DEF FlushReadFails, TypeOK
      <3> QED BY <2>3, <3>1, FrameSaved DEF FlushReadFails
    <2>4. CASE FlushWritten(f)
      <3>1. /\ stage[f] = "write" /\ Land(f) /\ UNCHANGED <<mem, loaded, dirty, snap, newer>>
            /\ raced' = (raced \/ f \in overtaken \/ f \in stale)
            /\ overtaken' = overtaken \cup {q \in Persisters : <<q, f>> \in newer}
        BY <2>4 DEF FlushWritten, Overtakes, StaleRead, OvertakenBy
      <3>2. /\ stage'[f] = "absorb"
            /\ \A q \in Persisters \ {f} : stage'[q] = stage[q]
        BY <2>1, <2>4 DEF FlushWritten, TypeOK
      <3>3. ~raced' => ~raced /\ f \notin overtaken BY <3>1 DEF TypeOK
      <3> QED BY <2>1, <3>1, <3>2, <3>3, LandSaved
    <2>5. CASE FlushFailed(f) BY <2>1, <2>5, ReleaseSaved DEF FlushFailed
    <2> QED BY <1>1, <1>3, <2>1, <2>2, <2>3, <2>4, <2>5, FlushBeginSaved, FlushAbsorbSaved
        DEF FlushStep
  <1>4. ASSUME NEW id \in Ids, Mark(id) PROVE SavedInv'
    BY <1>4, FrameSaved DEF Mark
  <1>5. CASE LoopControl \/ CloseControl
    <2>1. /\ UNCHANGED <<mem, loaded, dirty, disk, snap, newer, overtaken, raced>>
          /\ \/ stage' = stage
             \/ lpc \in {"select", "debounce"} /\ stage' = [stage EXCEPT !["loop"] = "begin"]
             \/ cpc = "waiting" /\ stage' = [stage EXCEPT !["closer"] = "begin"]
      BY <1>5 DEF LoopControl, LoopWake, LoopTimer, LoopStop, LoopFlushed, LoopStep, LoopRest,
         CloseControl, CloseStart, CloseFlush, CloseDone, CloseRest, StartFlush
    <2>2. \A p \in Persisters :
            \/ stage'[p] = stage[p]
            \/ stage[p] = "idle" /\ stage'[p] = "begin"
      BY <2>1 DEF DurabilityInv, FlushesInPlace, TypeOK, Persisters, Flushers
    <2> QED BY <2>1, <2>2, FrameSaved
  <1>6. CASE Restart
    <2>1. /\ ~loaded' /\ \A p \in Persisters : stage'[p] = "idle"
      BY <1>6 DEF Restart
    <2> QED BY <2>1 DEF SavedInv, LandedLatest, Persisters
  <1>7. CASE UNCHANGED vars BY <1>7, FrameSaved DEF vars
  <1> QED BY <1>2, <1>3, <1>4, <1>5, <1>6, <1>7, ExternalSaved DEF Next

\* Once nobody holds a snapshot and nothing is marked dirty, the file has all
\* that memory has, unless one of the three races happened.
THEOREM PoolCleanMeansSaved == Spec => []CleanMeansSaved
  <1>1. SavedInv => CleanMeansSaved
    BY DEF SavedInv, CleanMeansSaved, Carried, Carries, UpToDate, Covers
  <1> QED
    BY <1>1, PoolTypeCorrect, DurabilityInit, DurabilityStep, SavedInit, SavedStep, PTL DEF Spec

-----------------------------------------------------------------------------
(* The pool is a durable store, until a race: the history of puts *)

LEMMA PutSinceMore ==
  ASSUME NEW S, NEW q \in Seq(S), NEW e \in S, NEW n \in Nat
  PROVE  /\ \A v : PutSince(v, q, n) => PutSince(v, Append(q, e), n) /\ n <= Len(q)
         /\ n <= Len(q) + 1 => PutSince(e, Append(q, e), n)
         /\ \A v : \A m \in Nat : PutSince(v, q, m) /\ n <= m => PutSince(v, q, n)
  <1> DEFINE r == Append(q, e)
  <1>1. /\ Len(q) \in Nat /\ r \in Seq(S) /\ Len(r) = Len(q) + 1 /\ r[Len(q) + 1] = e
        /\ \A k \in 1 .. Len(q) : r[k] = q[k]
    OBVIOUS
  <1> HIDE DEF r
  <1>2. ASSUME NEW v, PutSince(v, q, n) PROVE PutSince(v, r, n) /\ n <= Len(q)
    <2>1. PICK k \in 1 .. Len(q) : k >= n /\ q[k] = v
      BY <1>2 DEF PutSince
    <2>2. k \in 1 .. Len(r) /\ r[k] = v /\ n <= Len(q)
      BY <1>1, <2>1
    <2> QED BY <2>1, <2>2 DEF PutSince
  <1>3. n <= Len(q) + 1 => PutSince(e, r, n)
    <2>1. Len(q) + 1 \in 1 .. Len(r)
      BY <1>1
    <2> QED BY <1>1, <2>1 DEF PutSince
  <1>4. ASSUME NEW v, NEW m \in Nat, PutSince(v, q, m), n <= m PROVE PutSince(v, q, n)
    BY <1>1, <1>4 DEF PutSince
  <1> QED BY <1>2, <1>3, <1>4 DEF r

LEMMA StoredInitially == StoredInit => StoredInv
  <1> SUFFICES ASSUME StoredInit PROVE StoredInv
    OBVIOUS
  <1>1. disk \in Store /\ Current = disk /\ \A id \in Ids : disk[id].cred \in {0, 1}
    BY TypeInit DEF StoredInit, Init, TypeOK, Current, Empty, Absent
  <1>2. PutsOK
    BY <1>1 DEF StoredInit, PutsOK, StoredVersions, NoTicket
  <1>3. \A id \in Ids : PutSince(disk[id].cred, puts[id], promised[id])
    <2>1. ASSUME NEW v PROVE PutSince(v, <<v>>, 1)
      <3>1. 1 \in 1 .. Len(<<v>>) /\ <<v>>[1] = v
        OBVIOUS
      <3> QED BY <3>1 DEF PutSince
    <2> QED BY <2>1 DEF StoredInit
  <1>4. AllFresh /\ PutsFollow
    BY <1>1, <1>3 DEF StoredInit, Init, AllFresh, PutsFollow, Fresh, Persisters
  <1> QED BY <1>2, <1>4 DEF StoredInv

\* What a mutator puts is the newest of its account; of the others it saves what
\* memory has.
LEMMA MutateKept ==
  ASSUME TypeOK, DurabilityInv, PutsOK, AllFresh, PutsFollow, NEW w \in Writers, NEW id \in Ids,
         NEW row \in Row, row.cred \in StoredVersions, ~Busy(w), Mutate(w, id, row), PutBy(w, id)
  PROVE  PutsOK' /\ AllFresh' /\ PutsFollow'
  <1>1. PICK s : s = [Current EXCEPT ![id] = row]
    OBVIOUS
  <1>2. /\ mem' = s /\ loaded' = TRUE /\ disk' = disk
        /\ snap' = [snap EXCEPT ![w] = s] /\ stage' = [stage EXCEPT ![w] = "write"]
        /\ newer' = newer \cup {<<q, w>> : q \in {q \in Persisters \ {w} : Holding(q)}}
        /\ UNCHANGED <<overtaken, stale>>
    BY <1>1 DEF Mutate, TakeSnapshot
  <1>3. /\ s \in Store /\ s[id] = row /\ \A i \in Ids \ {id} : s[i] = Current[i]
    BY <1>1, CurrentIsStore DEF Store
  <1>4. w \in Persisters /\ stage[w] = "idle" /\ ~Holding(w)
        /\ stage \in [Persisters -> {"idle", "begin", "read", "write", "failed", "absorb"}]
        /\ snap \in [Persisters -> Store]
    BY DEF Persisters, Busy, Holding, TypeOK
  <1>5. /\ puts \in [Ids -> Seq(StoredVersions)] /\ promised \in [Ids -> Nat]
        /\ ticket \in [Writers -> [Ids -> Nat]]
    BY DEF PutsOK
  <1>6. /\ puts' = [puts EXCEPT ![id] = Append(@, row.cred)] /\ promised' = promised
        /\ ticket' = [ticket EXCEPT ![w] = [NoTicket EXCEPT ![id] = Len(puts[id]) + 1]]
    BY <1>2, <1>3 DEF PutBy
  <1>7. PutsOK'
    <2>1. Append(puts[id], row.cred) \in Seq(StoredVersions) /\ Len(puts[id]) + 1 \in Nat
      BY <1>5
    <2>2. [NoTicket EXCEPT ![id] = Len(puts[id]) + 1] \in [Ids -> Nat]
      BY <2>1 DEF NoTicket
    <2>3. puts' \in [Ids -> Seq(StoredVersions)] /\ ticket' \in [Writers -> [Ids -> Nat]]
      BY <1>5, <1>6, <2>1, <2>2
    <2> QED BY <1>5, <1>6, <2>3 DEF PutsOK
  <1>8. ASSUME NEW i \in Ids, NEW v, NEW n \in Nat, PutSince(v, puts[i], n)
        PROVE  PutSince(v, puts'[i], n) /\ n <= Len(puts[i])
    <2>1. PutSince(v, Append(puts[i], row.cred), n) /\ n <= Len(puts[i])
      BY <1>5, <1>8, PutSinceMore
    <2>2. puts'[i] = IF i = id THEN Append(puts[i], row.cred) ELSE puts[i]
      BY <1>5, <1>6
    <2> QED BY <1>8, <2>1, <2>2
  <1>9. ASSUME NEW n \in Nat, n <= Len(puts[id]) + 1 PROVE PutSince(row.cred, puts'[id], n)
    <2>1. PutSince(row.cred, Append(puts[id], row.cred), n)
      BY <1>5, <1>9, PutSinceMore
    <2> QED BY <1>5, <1>6, <2>1
  <1>10. ASSUME NEW t \in [Ids -> Nat], \A i \in Ids : PutSince(Current[i].cred, puts[i], t[i])
         PROVE  \A i \in Ids : PutSince(s[i].cred, puts'[i], t[i])
    <2>1. ASSUME NEW i \in Ids PROVE PutSince(s[i].cred, puts'[i], t[i])
      <3>1. PutSince(Current[i].cred, puts'[i], t[i]) /\ t[i] <= Len(puts[i]) /\ t[i] \in Nat
        BY <1>8, <1>10
      <3>2. Len(puts[id]) \in Nat
        BY <1>5
      <3>3. i = id => t[i] <= Len(puts[id]) + 1
        BY <3>1, <3>2
      <3> QED BY <1>3, <1>9, <3>1, <3>3
    <2> QED BY <2>1
  <1>11. Fresh(s)'
    <2>1. \A i \in Ids : PutSince(Current[i].cred, puts[i], promised[i])
      BY DEF AllFresh, Fresh
    <2> QED BY <1>5, <1>6, <1>10, <2>1 DEF Fresh
  <1>12. ASSUME NEW u \in Writers, stage'[u] = "write", u \notin overtaken PROVE Has(s, u)'
    <2>1. CASE u = w
      <3>1. ASSUME NEW i \in Ids PROVE PutSince(s[i].cred, puts'[i], ticket'[u][i])
        <4>1. ticket'[u][i] = IF i = id THEN Len(puts[id]) + 1 ELSE 0
          BY <1>5, <1>6, <2>1 DEF NoTicket
        <4>2. PutSince(Current[i].cred, puts[i], 0)
          <5>1. PutSince(Current[i].cred, puts[i], promised[i]) /\ promised[i] \in Nat
                /\ 0 <= promised[i] /\ puts[i] \in Seq(StoredVersions)
            BY <1>5 DEF AllFresh, Fresh
          <5> QED BY <5>1, PutSinceMore
        <4>3. Len(puts[id]) + 1 \in Nat
          BY <1>5
        <4>4. CASE i = id
          BY <1>3, <1>9, <4>1, <4>3, <4>4
        <4>5. CASE i # id
          <5>1. PutSince(Current[i].cred, puts'[i], 0) /\ ticket'[u][i] = 0 /\ s[i] = Current[i]
            BY <1>3, <1>8, <4>1, <4>2, <4>5
          <5> QED BY <5>1
        <4> QED BY <4>4, <4>5
      <3> QED BY <3>1 DEF Has
    <2>2. CASE u # w
      <3>1. stage[u] = "write" /\ ticket'[u] = ticket[u] /\ ticket[u] \in [Ids -> Nat]
        BY <1>2, <1>4, <1>5, <1>6, <1>12, <2>2 DEF Persisters
      <3>2. \A i \in Ids : PutSince(Current[i].cred, puts[i], ticket[u][i])
        BY <1>12, <3>1 DEF PutsFollow, Has
      <3> QED BY <1>10, <3>1, <3>2 DEF Has
    <2> QED BY <2>1, <2>2
  <1>13. AllFresh'
    <2>1. Fresh(Current)'
      BY <1>2, <1>11 DEF Fresh, Current
    <2>2. ASSUME NEW z, Fresh(z) PROVE Fresh(z)'
      BY <1>5, <1>6, <1>8, <2>2 DEF Fresh
    <2>3. Fresh(disk)'
      BY <1>2, <2>2 DEF AllFresh
    <2>4. ASSUME NEW p \in Persisters, stage'[p] \in {"read", "write", "absorb"}
          PROVE  Fresh(snap[p])' \/ p \in overtaken' \/ p \in stale'
      <3>1. CASE p = w
        BY <1>2, <1>4, <1>11, <3>1
      <3>2. CASE p # w
        <4>1. stage[p] = stage'[p] /\ snap'[p] = snap[p]
          BY <1>2, <1>4, <3>2
        <4> QED BY <1>2, <2>2, <2>4, <4>1 DEF AllFresh
      <3> QED BY <3>1, <3>2
    <2> QED BY <2>1, <2>3, <2>4 DEF AllFresh
  <1>14. PutsFollow'
    <2> SUFFICES ASSUME NEW u \in Writers, stage'[u] = "write", u \notin overtaken
                 PROVE  /\ Has(Current, u)'
                        /\ \A p \in Persisters :
                              (/\ p = u \/ <<u, p>> \in newer'
                               /\ stage'[p] = "read" \/ (p \in Writers /\ stage'[p] \in {"write", "absorb"}))
                                  => Has(snap[p], u)'
      BY <1>2 DEF PutsFollow
    <2>1. Has(Current, u)'
      BY <1>2, <1>12 DEF Has, Current
    <2>2. ASSUME NEW p \in Persisters, p = u \/ <<u, p>> \in newer',
                 stage'[p] = "read" \/ (p \in Writers /\ stage'[p] \in {"write", "absorb"})
          PROVE  Has(snap[p], u)'
      <3>1. CASE p = w
        BY <1>2, <1>4, <1>12, <3>1
      <3>2. CASE p # w
        <4>1. stage[p] = stage'[p] /\ snap'[p] = snap[p]
          BY <1>2, <1>4, <3>2
        <4>2. p = u \/ <<u, p>> \in newer
          BY <1>2, <2>2, <3>2
        <4>3. u # w
          <5>1. <<w, p>> \notin newer
            BY <1>4 DEF DurabilityInv, SnapshotOrder
          <5> QED BY <3>2, <4>2, <5>1
        <4>4. stage[u] = "write" /\ ticket'[u] = ticket[u] /\ ticket[u] \in [Ids -> Nat]
          BY <1>2, <1>4, <1>5, <1>6, <4>3 DEF Persisters
        <4>5. Has(snap[p], u)
          BY <2>2, <4>1, <4>2, <4>4 DEF PutsFollow
        <4>6. \A i \in Ids : PutSince(snap[p][i].cred, puts'[i], ticket'[u][i])
          BY <1>8, <4>4, <4>5 DEF Has
        <4> QED BY <4>1, <4>6 DEF Has
      <3> QED BY <3>1, <3>2
    <2> QED BY <2>1, <2>2
  <1> QED BY <1>7, <1>13, <1>14

\* Who is acknowledged has saved the last that was promised, and its own put;
\* whoever holds a snapshot without them will write it no more without a race.
LEMMA SyncWrittenKept ==
  ASSUME TypeOK, DurabilityInv, LandedFlush, PutsOK, AllFresh, PutsFollow, NEW w \in Writers,
         SyncWritten(w), Promise(w), ~raced'
  PROVE  PutsOK' /\ AllFresh' /\ PutsFollow'
  <1> USE DEF memVars, loopVars
  <1>1. /\ mem' = mem /\ loaded' = loaded /\ disk' = snap[w] /\ stage[w] = "write"
        /\ w \notin overtaken
        /\ snap' = [snap EXCEPT ![w] = Empty] /\ stage' = [stage EXCEPT ![w] = "idle"]
        /\ newer' = {e \in newer : e[1] # w}
        /\ overtaken' = (overtaken \cup {q \in Persisters : <<q, w>> \in newer}) \ {w}
        /\ stale' = stale \cup {f \in Flushers \ {w} : stage[f] = "write"}
    BY DEF SyncWritten, Land, Finish, OvertakenBy, StaleAfter, Overtakes
  <1>2. /\ w \in Persisters /\ w \notin Flushers /\ w \notin stale /\ Holding(w)
        /\ stage \in [Persisters -> {"idle", "begin", "read", "write", "failed", "absorb"}]
        /\ snap \in [Persisters -> Store]
    BY <1>1, WritersAreHandlers DEF Persisters, TypeOK, Holding
  <1>3. /\ puts \in [Ids -> Seq(StoredVersions)] /\ promised \in [Ids -> Nat]
        /\ ticket \in [Writers -> [Ids -> Nat]]
    BY DEF PutsOK
  <1>4. /\ puts' = puts /\ promised' = [id \in Ids |-> Larger(promised[id], ticket[w][id])]
        /\ ticket' = TicketsOfWriting
    BY DEF Promise
  <1>5. PutsOK'
    BY <1>3, <1>4 DEF PutsOK, Larger, TicketsOfWriting, NoTicket
  <1>6. ASSUME NEW z, Fresh(z), Has(z, w) PROVE Fresh(z)'
    BY <1>3, <1>4, <1>6 DEF Fresh, Has, Larger
  <1>7. Current' = Current
    BY <1>1, <1>2 DEF Current, DurabilityInv, SnapshotOrder
  <1>8. Fresh(snap[w]) /\ Has(snap[w], w) /\ Fresh(Current) /\ Has(Current, w)
    BY <1>1, <1>2 DEF AllFresh, PutsFollow
  <1>9. Fresh(Current)' /\ Fresh(disk)'
    BY <1>1, <1>6, <1>7, <1>8
  <1>10. ASSUME NEW p \in Persisters, stage'[p] \in {"read", "write", "absorb"}
         PROVE  Fresh(snap[p])' \/ p \in overtaken' \/ p \in stale'
    <2>1. p # w /\ stage[p] = stage'[p] /\ snap'[p] = snap[p] /\ Holding(p)
      BY <1>1, <1>2, <1>10 DEF Holding
    <2>2. CASE p \in overtaken \/ p \in stale
      BY <1>1, <2>1, <2>2
    <2>3. CASE ~(p \in overtaken \/ p \in stale)
      <3>1. Fresh(snap[p])
        BY <1>10, <2>1, <2>3 DEF AllFresh
      <3>2. CASE <<p, w>> \in newer
        BY <1>1, <2>1, <3>2
      <3>3. CASE <<w, p>> \in newer
        <4>1. CASE stage[p] = "read" \/ (p \in Writers /\ stage[p] \in {"write", "absorb"})
          <5>1. Has(snap[p], w)
            BY <1>1, <3>3, <4>1 DEF PutsFollow
          <5> QED BY <1>6, <2>1, <3>1, <5>1
        <4>2. CASE stage[p] = "write" /\ p \notin Writers
          BY <1>1, <2>1, <4>2 DEF Persisters
        <4>3. CASE stage[p] = "absorb"
          <5>1. p \in Flushers \/ p \in Writers
            BY DEF Persisters
          <5>2. CASE p \in Flushers
            BY <1>1, <1>2, <3>3, <4>3, <5>2 DEF LandedFlush
          <5>3. CASE p \in Writers
            BY <4>1, <4>3, <5>3
          <5> QED BY <5>1, <5>2, <5>3
        <4> QED BY <1>10, <2>1, <4>1, <4>2, <4>3
      <3>4. <<p, w>> \in newer \/ <<w, p>> \in newer
        BY <1>2, <2>1 DEF DurabilityInv, SnapshotOrder
      <3> QED BY <3>2, <3>3, <3>4
    <2> QED BY <2>2, <2>3
  <1>11. PutsFollow'
    <2> SUFFICES ASSUME NEW u \in Writers, stage'[u] = "write", u \notin overtaken'
                 PROVE  /\ Has(Current, u)'
                        /\ \A p \in Persisters :
                              (/\ p = u \/ <<u, p>> \in newer'
                               /\ stage'[p] = "read" \/ (p \in Writers /\ stage'[p] \in {"write", "absorb"}))
                                  => Has(snap[p], u)'
      BY DEF PutsFollow
    <2>1. u # w /\ u \in Persisters /\ stage[u] = "write" /\ u \notin overtaken
          /\ ticket'[u] = ticket[u]
      BY <1>1, <1>2, <1>4 DEF Persisters, TicketsOfWriting
    <2>2. ASSUME NEW z, Has(z, u) PROVE Has(z, u)'
      BY <1>4, <2>1, <2>2 DEF Has
    <2>3. Has(Current, u)'
      BY <1>7, <2>1, <2>2 DEF PutsFollow
    <2>4. ASSUME NEW p \in Persisters, p = u \/ <<u, p>> \in newer',
                 stage'[p] = "read" \/ (p \in Writers /\ stage'[p] \in {"write", "absorb"})
          PROVE  Has(snap[p], u)'
      <3>1. p # w /\ stage[p] = stage'[p] /\ snap'[p] = snap[p]
        BY <1>1, <1>2, <2>4
      <3>2. Has(snap[p], u)
        BY <1>1, <2>1, <2>4, <3>1 DEF PutsFollow
      <3> QED BY <2>2, <3>1, <3>2
    <2> QED BY <2>3, <2>4
  <1> QED BY <1>5, <1>9, <1>10, <1>11 DEF AllFresh

LEMMA ExternalKept ==
  ASSUME TypeOK, DurabilityInv, PutsOK, AllFresh, PutsFollow, NEW id \in Ids,
         External(id), PutInFile(id)
  PROVE  PutsOK' /\ AllFresh' /\ PutsFollow'
  <1> USE DEF memVars, loopVars, workVars, history
  <1>1. PICK v : v = issued + 1
    OBVIOUS
  <1>2. /\ v \in StoredVersions /\ issued < MaxCred
        /\ disk' = [disk EXCEPT ![id] = [cred |-> v, hot |-> 0]]
        /\ UNCHANGED <<mem, loaded, stage, snap, newer, overtaken, stale>>
    BY <1>1, BoundsAreNat DEF External, TypeOK, StoredVersions
  <1>3. disk \in Store /\ disk'[id].cred = v /\ \A i \in Ids \ {id} : disk'[i] = disk[i]
    BY <1>2 DEF TypeOK, Store
  <1>4. /\ puts \in [Ids -> Seq(StoredVersions)] /\ promised \in [Ids -> Nat]
        /\ ticket \in [Writers -> [Ids -> Nat]]
    BY DEF PutsOK
  <1>5. puts' = [puts EXCEPT ![id] = Append(@, v)] /\ UNCHANGED <<promised, ticket>>
    BY <1>3 DEF PutInFile
  <1>6. PutsOK'
    <2>1. Append(puts[id], v) \in Seq(StoredVersions)
      BY <1>2, <1>4
    <2> QED BY <1>4, <1>5, <2>1 DEF PutsOK
  <1>7. ASSUME NEW i \in Ids, NEW x, NEW n \in Nat, PutSince(x, puts[i], n)
        PROVE  PutSince(x, puts'[i], n) /\ n <= Len(puts[i])
    <2>1. PutSince(x, Append(puts[i], v), n) /\ n <= Len(puts[i])
      BY <1>2, <1>4, <1>7, PutSinceMore
    <2>2. puts'[i] = IF i = id THEN Append(puts[i], v) ELSE puts[i]
      BY <1>4, <1>5
    <2> QED BY <1>7, <2>1, <2>2
  <1>8. ASSUME NEW z, Fresh(z) PROVE Fresh(z)'
    BY <1>4, <1>5, <1>7, <1>8 DEF Fresh
  <1>9. ASSUME NEW z, NEW w \in Writers, Has(z, w) PROVE Has(z, w)'
    BY <1>4, <1>5, <1>7, <1>9 DEF Has
  <1>10. Fresh(disk)'
    <2>1. ASSUME NEW i \in Ids PROVE PutSince(disk'[i].cred, puts'[i], promised'[i])
      <3>1. PutSince(disk[i].cred, puts'[i], promised[i]) /\ promised[i] <= Len(puts[i])
            /\ promised[i] \in Nat
        BY <1>4, <1>7 DEF AllFresh, Fresh
      <3>2. CASE i = id
        <4>1. puts[id] \in Seq(StoredVersions) /\ Len(puts[id]) \in Nat
          BY <1>4
        <4>2. promised[id] <= Len(puts[id]) + 1
          BY <3>1, <3>2, <4>1
        <4>3. PutSince(v, Append(puts[id], v), promised[id])
          BY <1>2, <3>1, <3>2, <4>1, <4>2, PutSinceMore
        <4> QED BY <1>3, <1>4, <1>5, <3>2, <4>3
      <3> QED BY <1>3, <1>5, <3>1, <3>2
    <2> QED BY <2>1 DEF Fresh
  <1>11. AllFresh'
    <2>1. Fresh(Current)'
      <3>1. CASE loaded
        <4>1. Current' = Current
          BY <1>2, <3>1 DEF Current
        <4> QED BY <1>8, <4>1 DEF AllFresh
      <3>2. CASE ~loaded
        <4>1. Current' = disk'
          BY <1>2, <3>2 DEF Current
        <4> QED BY <1>10, <4>1
      <3> QED BY <3>1, <3>2
    <2>2. \A p \in Persisters : Fresh(snap[p]) => Fresh(snap[p])'
      BY <1>2, <1>8
    <2> QED BY <1>2, <1>10, <2>1, <2>2 DEF AllFresh
  <1>12. PutsFollow'
    <2>1. ASSUME NEW u \in Writers, stage[u] = "write" PROVE Current' = Current
      <3>1. loaded
        BY <2>1 DEF DurabilityInv, SnapshotOrder, Persisters, Holding
      <3> QED BY <1>2, <3>1 DEF Current
    <2> QED BY <1>2, <1>9, <2>1 DEF PutsFollow
  <1> QED BY <1>6, <1>11, <1>12

\* Steps after which nobody has more to write than before.
LEMMA FrameKept ==
  ASSUME TypeOK, PutsOK, AllFresh, PutsFollow, ticket' = TicketsOfWriting, UNCHANGED <<puts, promised>>,
         disk' = disk, \A id \in Ids : Current'[id].cred = Current[id].cred, newer' \subseteq newer,
         \A p \in Persisters :
             stage'[p] \in {"read", "write", "absorb"} =>
                 /\ stage[p] = stage'[p] /\ snap'[p] = snap[p]
                 /\ p \in overtaken <=> p \in overtaken'
                 /\ p \in stale => p \in stale'
  PROVE  PutsOK' /\ AllFresh' /\ PutsFollow'
  <1>1. PutsOK'
    BY DEF PutsOK, TicketsOfWriting, NoTicket
  <1>2. AllFresh'
    BY DEF AllFresh, Fresh
  <1>3. ASSUME NEW u \in Writers, stage'[u] = "write", u \notin overtaken'
        PROVE  u \in Persisters /\ stage[u] = "write" /\ u \notin overtaken /\ ticket'[u] = ticket[u]
    BY <1>3 DEF Persisters, TicketsOfWriting
  <1>4. PutsFollow'
    BY <1>3 DEF PutsFollow, Has
  <1> QED BY <1>1, <1>2, <1>4

LEMMA FlushBeginKept ==
  ASSUME TypeOK, DurabilityInv, PutsOK, AllFresh, PutsFollow, NEW f \in Flushers, FlushBegin(f),
         ticket' = TicketsOfWriting, UNCHANGED <<puts, promised>>
  PROVE  PutsOK' /\ AllFresh' /\ PutsFollow'
  <1>1. /\ stage[f] = "begin" /\ mem' = Current /\ loaded' = TRUE /\ disk' = disk
        /\ UNCHANGED <<overtaken, stale>>
    BY DEF FlushBegin
  <1>2. /\ f \in Persisters /\ f \notin Writers /\ Current' = Current
        /\ stage \in [Persisters -> {"idle", "begin", "read", "write", "failed", "absorb"}]
        /\ snap \in [Persisters -> Store]
    BY <1>1, WritersAreHandlers DEF Persisters, Current, TypeOK
  <1>3. CASE ~CurrentDirty
    <2>1. stage' = [stage EXCEPT ![f] = "idle"] /\ snap' = snap /\ newer' = newer
      BY <1>3 DEF FlushBegin
    <2>2. \A p \in Persisters : stage'[p] \in {"read", "write", "absorb"} => stage[p] = stage'[p]
      BY <1>2, <2>1
    <2> QED BY <1>1, <1>2, <2>1, <2>2, FrameKept
  <1>4. CASE CurrentDirty
    <2>1. /\ stage' = [stage EXCEPT ![f] = "read"] /\ snap' = [snap EXCEPT ![f] = Current]
          /\ newer' = newer \cup {<<q, f>> : q \in {q \in Persisters \ {f} : Holding(q)}}
      BY <1>4 DEF FlushBegin, TakeSnapshot
    <2>2. PutsOK' /\ \A u \in Writers : stage'[u] = "write" => stage[u] = "write"
                                                               /\ ticket'[u] = ticket[u]
      BY <1>2, <2>1 DEF PutsOK, TicketsOfWriting, NoTicket, Persisters
    <2>3. ASSUME NEW p \in Persisters \ {f} PROVE stage'[p] = stage[p] /\ snap'[p] = snap[p]
      BY <1>2, <2>1
    <2>4. stage'[f] = "read" /\ snap'[f] = Current
      BY <1>2, <2>1
    <2>5. AllFresh'
      BY <1>1, <1>2, <2>3, <2>4 DEF AllFresh, Fresh
    <2>6. ASSUME NEW u \in Writers, stage'[u] = "write", u \notin overtaken'
          PROVE  /\ Has(Current, u)'
                 /\ \A p \in Persisters :
                       (/\ p = u \/ <<u, p>> \in newer'
                        /\ stage'[p] = "read" \/ (p \in Writers /\ stage'[p] \in {"write", "absorb"}))
                           => Has(snap[p], u)'
      <3>1. stage[u] = "write" /\ ticket'[u] = ticket[u] /\ u \notin overtaken
        BY <1>1, <2>2, <2>6
      <3>2. ASSUME NEW z, Has(z, u) PROVE Has(z, u)'
        BY <3>1, <3>2 DEF Has
      <3>3. Has(Current, u)
        BY <3>1 DEF PutsFollow
      <3>4. Has(Current, u)'
        BY <1>2, <3>2, <3>3
      <3>5. ASSUME NEW p \in Persisters, p = u \/ <<u, p>> \in newer',
                   stage'[p] = "read" \/ (p \in Writers /\ stage'[p] \in {"write", "absorb"})
            PROVE  Has(snap[p], u)'
        <4>1. CASE p = f
          BY <2>4, <3>2, <3>3, <4>1
        <4>2. CASE p # f
          <5>1. stage'[p] = stage[p] /\ snap'[p] = snap[p] /\ (p = u \/ <<u, p>> \in newer)
            BY <2>1, <2>3, <3>5, <4>2
          <5>2. Has(snap[p], u)
            BY <3>1, <3>5, <5>1 DEF PutsFollow
          <5> QED BY <3>2, <5>1, <5>2
        <4> QED BY <4>1, <4>2
      <3> QED BY <3>4, <3>5
    <2> QED BY <2>2, <2>5, <2>6 DEF PutsFollow
  <1> QED BY <1>3, <1>4

\* What a flush reads from the file is not older than what is promised, but may
\* well be older than what is being saved.
LEMMA FlushReadKept ==
  ASSUME TypeOK, PutsOK, AllFresh, PutsFollow, NEW f \in Flushers,
         FlushRead(f) \/ FlushReadFails(f),
         ticket' = TicketsOfWriting, UNCHANGED <<puts, promised>>
  PROVE  PutsOK' /\ AllFresh' /\ PutsFollow'
  <1> USE DEF memVars, loopVars, history
  <1>1. /\ stage[f] = "read" /\ stage' = [stage EXCEPT ![f] = "write"]
        /\ snap' = [snap EXCEPT ![f] = Merge(disk, snap[f])] \/ snap' = snap
        /\ UNCHANGED <<mem, loaded, disk, newer, overtaken, stale>>
    BY DEF FlushRead, FlushReadFails
  <1>2. /\ f \in Persisters /\ f \notin Writers /\ Current' = Current
        /\ stage \in [Persisters -> {"idle", "begin", "read", "write", "failed", "absorb"}]
        /\ snap \in [Persisters -> Store] /\ disk \in Store
    BY <1>1, WritersAreHandlers DEF Persisters, Current, TypeOK
  <1>3. ASSUME NEW p \in Persisters \ {f} PROVE stage'[p] = stage[p] /\ snap'[p] = snap[p]
    BY <1>1, <1>2
  <1>4. stage'[f] = "write" /\ (Fresh(snap[f]) => Fresh(snap'[f]))
    <2>1. snap'[f] = Merge(disk, snap[f]) \/ snap'[f] = snap[f]
      BY <1>1, <1>2
    <2>2. Fresh(snap[f]) => Fresh(Merge(disk, snap[f]))
      BY DEF AllFresh, Fresh, Merge
    <2> QED BY <1>1, <1>2, <2>1, <2>2
  <1>5. PutsOK' /\ \A u \in Writers : stage'[u] = "write" => stage[u] = "write"
                                                             /\ ticket'[u] = ticket[u]
    BY <1>2, <1>3 DEF PutsOK, TicketsOfWriting, NoTicket, Persisters
  <1>6. AllFresh'
    <2>1. ASSUME NEW p \in Persisters, stage'[p] \in {"read", "write", "absorb"}
          PROVE  Fresh(snap'[p]) \/ p \in overtaken \/ p \in stale
      BY <1>1, <1>3, <1>4, <2>1 DEF AllFresh
    <2> QED BY <1>1, <1>2, <2>1 DEF AllFresh, Fresh
  <1>7. PutsFollow'
    <2>1. ASSUME NEW u \in Writers, stage'[u] = "write", u \notin overtaken,
                 NEW p \in Persisters, p = u \/ <<u, p>> \in newer,
                 stage'[p] = "read" \/ (p \in Writers /\ stage'[p] \in {"write", "absorb"})
          PROVE  Has(snap[p], u) /\ snap'[p] = snap[p]
      BY <1>2, <1>3, <1>4, <1>5, <2>1 DEF PutsFollow
    <2> QED BY <1>1, <1>2, <1>5, <2>1 DEF PutsFollow, Has
  <1> QED BY <1>5, <1>6, <1>7

LEMMA FlushWrittenKept ==
  ASSUME TypeOK, DurabilityInv, PutsOK, AllFresh, PutsFollow, NEW f \in Flushers,
         FlushWritten(f), ~raced', ticket' = TicketsOfWriting, UNCHANGED <<puts, promised>>
  PROVE  PutsOK' /\ AllFresh' /\ PutsFollow' /\ Fresh(snap[f])
  <1> USE DEF memVars, loopVars
  <1>1. /\ stage[f] = "write" /\ stage' = [stage EXCEPT ![f] = "absorb"] /\ disk' = snap[f]
        /\ f \notin overtaken /\ f \notin stale
        /\ overtaken \subseteq overtaken' /\ stale \subseteq stale'
        /\ UNCHANGED <<mem, loaded, snap, newer>>
    BY DEF FlushWritten, Land, OvertakenBy, StaleAfter, Overtakes, StaleRead
  <1>2. /\ f \in Persisters /\ f \notin Writers
        /\ stage \in [Persisters -> {"idle", "begin", "read", "write", "failed", "absorb"}]
    BY WritersAreHandlers DEF Persisters, TypeOK
  <1>3. Fresh(snap[f])
    BY <1>1, <1>2 DEF AllFresh
  <1>4. PutsOK' /\ \A u \in Writers : stage'[u] = "write" => stage[u] = "write"
                                                             /\ ticket'[u] = ticket[u]
    BY <1>1, <1>2 DEF PutsOK, TicketsOfWriting, NoTicket, Persisters
  <1>5. Fresh(Current')
    BY <1>1, <1>3 DEF Current, AllFresh
  <1>6. AllFresh'
    <2>1. ASSUME NEW p \in Persisters, stage'[p] \in {"read", "write", "absorb"}
          PROVE  Fresh(snap[p]) \/ p \in overtaken' \/ p \in stale'
      BY <1>1, <1>2, <1>3, <2>1 DEF AllFresh
    <2> QED BY <1>1, <1>3, <1>5, <2>1 DEF AllFresh, Fresh
  <1>7. PutsFollow'
    <2>1. ASSUME NEW u \in Writers, stage'[u] = "write", u \notin overtaken'
          PROVE  /\ Has(Current, u) /\ Current' = Current
                 /\ \A p \in Persisters :
                       (/\ p = u \/ <<u, p>> \in newer
                        /\ stage'[p] = "read" \/ (p \in Writers /\ stage'[p] \in {"write", "absorb"}))
                           => Has(snap[p], u)
      <3>1. loaded /\ stage[u] = "write" /\ u \notin overtaken
        BY <1>1, <1>4, <2>1 DEF DurabilityInv, SnapshotOrder, Persisters, Holding
      <3>2. \A p \in Persisters : p # f => stage'[p] = stage[p]
        BY <1>1, <1>2
      <3>3. stage'[f] = "absorb"
        BY <1>1, <1>2
      <3> QED BY <1>1, <1>2, <3>1, <3>2, <3>3 DEF PutsFollow, Current
    <2> QED BY <1>1, <1>4, <2>1 DEF PutsFollow, Has
  <1> QED BY <1>3, <1>4, <1>6, <1>7

\* A flush that brings something into memory without a race has read it from the
\* file that still is, and nobody is about to save anything newer.
LEMMA FlushAbsorbKept ==
  ASSUME TypeOK, DurabilityInv, LandedFlush, LandedLatest, PutsOK, AllFresh, PutsFollow,
         NEW f \in Flushers, FlushAbsorb(f), ~raced',
         ticket' = TicketsOfWriting, UNCHANGED <<puts, promised>>
  PROVE  /\ PutsOK' /\ AllFresh' /\ PutsFollow'
         /\ \A id \in Ids : Current'[id].cred \in {Current[id].cred, disk[id].cred}
  <1> USE DEF loopVars
  <1>1. /\ stage[f] = "absorb" /\ mem' = Merge(snap[f], mem) /\ loaded' = TRUE
        /\ (\E q \in Persisters : <<f, q>> \in newer) => mem' = mem
        /\ stage' = [stage EXCEPT ![f] = "idle"] /\ snap' = [snap EXCEPT ![f] = Empty]
        /\ newer' = {e \in newer : e[1] # f} /\ overtaken' = overtaken \ {f}
        /\ stale' = stale \ {f} /\ disk' = disk
    BY DEF FlushAbsorb, LateAbsorb, Finish, Forget
  <1>2. /\ f \in Persisters /\ f \notin Writers /\ Holding(f)
        /\ stage \in [Persisters -> {"idle", "begin", "read", "write", "failed", "absorb"}]
        /\ snap \in [Persisters -> Store] /\ mem \in Store
    BY <1>1, WritersAreHandlers DEF Persisters, TypeOK, Holding
  <1>3. loaded /\ Current = mem /\ Current' = mem'
    BY <1>1, <1>2 DEF DurabilityInv, SnapshotOrder, Current
  <1>4. CASE \A id \in Ids : mem'[id].cred = mem[id].cred
    <2>1. \A p \in Persisters :
             stage'[p] \in {"read", "write", "absorb"} =>
                 /\ stage[p] = stage'[p] /\ snap'[p] = snap[p]
                 /\ p \in overtaken <=> p \in overtaken'
                 /\ p \in stale => p \in stale'
      BY <1>1, <1>2
    <2>2. newer' \subseteq newer /\ \A id \in Ids : Current'[id].cred = Current[id].cred
      BY <1>1, <1>3, <1>4
    <2> QED BY <1>1, <2>1, <2>2, FrameKept
  <1>5. CASE ~ \A id \in Ids : mem'[id].cred = mem[id].cred
    <2>1. \A q \in Persisters : <<f, q>> \notin newer
      BY <1>1, <1>5
    <2>2. f \notin overtaken /\ f \notin stale
      BY <1>1, <2>1 DEF DurabilityInv, SnapshotOrder, LandedFlush
    <2>3. Fresh(snap[f])
      BY <1>1, <1>2, <2>2 DEF AllFresh
    <2>4. ASSUME NEW u \in Writers, stage[u] = "write", u \notin overtaken PROVE FALSE
      <3>1. u \in Persisters /\ u # f /\ Holding(u)
        BY <1>2, <2>4 DEF Persisters, Holding
      <3>2. <<u, f>> \in newer
        BY <1>2, <2>1, <3>1 DEF DurabilityInv, SnapshotOrder
      <3> QED BY <1>1, <2>4, <3>1, <3>2 DEF LandedFlush
    <2>5. \A p \in Persisters \ {f} : stage'[p] = stage[p] /\ snap'[p] = snap[p]
      BY <1>1, <1>2
    <2>6. stage'[f] = "idle"
      BY <1>1, <1>2
    <2>7. \A w \in Writers : w \in Persisters \ {f}
      BY <1>2 DEF Persisters
    <2>8. PutsOK'
      BY DEF PutsOK, TicketsOfWriting, NoTicket
    <2>9. Fresh(Current)'
      BY <1>1, <1>3, <2>3 DEF AllFresh, Fresh, Merge
    <2>10. AllFresh'
      <3>1. ASSUME NEW p \in Persisters, stage'[p] \in {"read", "write", "absorb"}
            PROVE  Fresh(snap'[p]) \/ p \in overtaken' \/ p \in stale'
        <4>1. p # f /\ stage'[p] = stage[p] /\ snap'[p] = snap[p]
          BY <2>5, <2>6, <3>1
        <4> QED BY <1>1, <3>1, <4>1 DEF AllFresh
      <3> QED BY <1>1, <2>9, <3>1 DEF AllFresh, Fresh
    <2>11. PutsFollow'
      <3>1. ASSUME NEW u \in Writers, stage'[u] = "write", u \notin overtaken' PROVE FALSE
        BY <1>1, <2>4, <2>5, <2>7, <3>1
      <3> QED BY <3>1 DEF PutsFollow
    <2>12. ASSUME NEW id \in Ids PROVE Current'[id].cred \in {Current[id].cred, disk[id].cred}
      <3>1. snap[f][id].cred # 0 => disk[id] = snap[f][id]
        BY <1>1, <2>1 DEF LandedLatest, Latest
      <3>2. mem'[id] = IF mem[id].cred # 0 THEN mem[id] ELSE snap[f][id]
        BY <1>1 DEF Merge
      <3>3. snap[f][id].cred = 0 /\ mem[id].cred = 0 => mem'[id].cred = mem[id].cred
        BY <3>2
      <3> QED BY <1>3, <3>1, <3>2, <3>3
    <2> QED BY <2>8, <2>10, <2>11, <2>12
  <1> QED BY <1>4, <1>5

LEMMA RestartKept ==
  ASSUME TypeOK, PutsOK, AllFresh, Restart, ticket' = TicketsOfWriting, UNCHANGED <<puts, promised>>
  PROVE  PutsOK' /\ AllFresh' /\ PutsFollow' /\ Current' = disk
  <1>1. loaded' = FALSE /\ disk' = disk /\ stage' = [p \in Persisters |-> "idle"]
    BY DEF Restart
  <1>2. Current' = disk
    BY <1>1 DEF Current
  <1>3. PutsOK'
    BY DEF PutsOK, TicketsOfWriting, NoTicket
  <1>4. AllFresh' /\ PutsFollow'
    BY <1>1, <1>2 DEF AllFresh, Fresh, PutsFollow, Persisters
  <1> QED BY <1>2, <1>3, <1>4

-----------------------------------------------------------------------------
(* The pool is a durable store, until a race: the steps *)

\* A quiet step changes no credential in memory or file, or is one that the store may do.
LEMMA QuietKept ==
  ASSUME TypeOK, DurabilityInv, LandedFlush, LandedLatest, PutsOK, AllFresh, PutsFollow,
         Quiet, ~raced', ticket' = TicketsOfWriting, UNCHANGED <<puts, promised>>
  PROVE  /\ PutsOK' /\ AllFresh' /\ PutsFollow'
         /\ \/ /\ \A id \in Ids : disk'[id].cred = disk[id].cred
               /\ \A id \in Ids : Current'[id].cred \in {Current[id].cred, disk[id].cred}
            \/ /\ Current' = Current
               /\ Fresh(disk')
  <1> USE DEF loopVars, memVars, workVars, history
  <1>0. /\ stage \in [Persisters -> {"idle", "begin", "read", "write", "failed", "absorb"}]
        /\ snap \in [Persisters -> Store]
    BY DEF TypeOK
  <1>1. ASSUME disk' = disk, \A id \in Ids : Current'[id].cred = Current[id].cred, newer' \subseteq newer,
               \A p \in Persisters :
                   stage'[p] \in {"read", "write", "absorb"} =>
                       /\ stage[p] = stage'[p] /\ snap'[p] = snap[p]
                       /\ p \in overtaken <=> p \in overtaken'
                       /\ p \in stale => p \in stale'
        PROVE  /\ PutsOK' /\ AllFresh' /\ PutsFollow'
               /\ \A id \in Ids : disk'[id].cred = disk[id].cred
               /\ \A id \in Ids : Current'[id].cred \in {Current[id].cred, disk[id].cred}
    BY <1>1, FrameKept
  <1>2. ASSUME NEW p \in Persisters, WriteFails(p)
        PROVE  /\ PutsOK' /\ AllFresh' /\ PutsFollow'
               /\ \A id \in Ids : disk'[id].cred = disk[id].cred
               /\ \A id \in Ids : Current'[id].cred \in {Current[id].cred, disk[id].cred}
    <2>1. /\ stage' = [stage EXCEPT ![p] = "failed"]
          /\ UNCHANGED <<mem, loaded, disk, snap, newer, overtaken, stale>>
      BY <1>2 DEF WriteFails
    <2>2. Current' = Current /\ \A q \in Persisters : stage'[q] \in {stage[q], "failed"}
      BY <1>0, <2>1 DEF Current
    <2> QED BY <1>1, <2>1, <2>2
  <1>3. ASSUME NEW p \in Persisters, Finish(p), Forget(p), UNCHANGED <<mem, loaded, disk>>
        PROVE  /\ PutsOK' /\ AllFresh' /\ PutsFollow'
               /\ \A id \in Ids : disk'[id].cred = disk[id].cred
               /\ \A id \in Ids : Current'[id].cred \in {Current[id].cred, disk[id].cred}
    <2>1. /\ newer' \subseteq newer /\ overtaken' = overtaken \ {p} /\ stale' = stale \ {p}
          /\ stage' = [stage EXCEPT ![p] = "idle"] /\ snap' = [snap EXCEPT ![p] = Empty]
      BY <1>3 DEF Finish, Forget
    <2>2. Current' = Current /\ stage'[p] = "idle"
          /\ \A q \in Persisters \ {p} : stage'[q] = stage[q] /\ snap'[q] = snap[q]
      BY <1>0, <1>3, <2>1 DEF Current
    <2> QED BY <1>1, <1>3, <2>1, <2>2
  <1>4. ASSUME NEW f \in Flushers, FlushStep(f)
        PROVE  /\ PutsOK' /\ AllFresh' /\ PutsFollow'
               /\ \/ /\ \A id \in Ids : disk'[id].cred = disk[id].cred
                     /\ \A id \in Ids : Current'[id].cred \in {Current[id].cred, disk[id].cred}
                  \/ Current' = Current /\ Fresh(disk')
    <2>0. f \in Persisters
      BY DEF Persisters
    <2>1. CASE FlushBegin(f)
      <3>1. Current' = Current /\ disk' = disk
        BY <2>1 DEF FlushBegin, Current
      <3> QED BY <2>1, <3>1, FlushBeginKept
    <2>2. CASE FlushRead(f) \/ FlushReadFails(f)
      <3>1. Current' = Current /\ disk' = disk
        BY <2>2 DEF FlushRead, FlushReadFails, Current
      <3> QED BY <2>2, <3>1, FlushReadKept
    <2>3. CASE FlushWritten(f)
      <3>1. disk' = snap[f] /\ loaded' = loaded /\ mem' = mem /\ stage[f] = "write"
        BY <2>3 DEF FlushWritten, Land
      <3>2. Current' = Current
        BY <2>0, <3>1 DEF DurabilityInv, SnapshotOrder, Holding, Current
      <3>3. PutsOK' /\ AllFresh' /\ PutsFollow' /\ Fresh(snap[f])
        BY <2>3, FlushWrittenKept
      <3> QED BY <3>1, <3>2, <3>3
    <2>4. CASE FlushAbsorb(f)
      <3>1. disk' = disk
        BY <2>4 DEF FlushAbsorb
      <3> QED BY <2>4, <3>1, FlushAbsorbKept
    <2>5. CASE FlushFailed(f)
      BY <1>3, <2>0, <2>5 DEF FlushFailed
    <2> QED BY <1>2, <1>4, <2>0, <2>1, <2>2, <2>3, <2>4, <2>5 DEF FlushStep
  <1>5. ASSUME NEW w \in Writers, WriteFails(w) \/ SyncFailed(w)
        PROVE  /\ PutsOK' /\ AllFresh' /\ PutsFollow'
               /\ \A id \in Ids : disk'[id].cred = disk[id].cred
               /\ \A id \in Ids : Current'[id].cred \in {Current[id].cred, disk[id].cred}
    <2>1. w \in Persisters
      BY DEF Persisters
    <2> QED BY <1>2, <1>3, <1>5, <2>1 DEF SyncFailed
  <1>6. ASSUME NEW id \in Ids, Mark(id)
        PROVE  /\ PutsOK' /\ AllFresh' /\ PutsFollow'
               /\ \A i \in Ids : disk'[i].cred = disk[i].cred
               /\ \A i \in Ids : Current'[i].cred \in {Current[i].cred, disk[i].cred}
    <2>1. mem' = [Current EXCEPT ![id].hot = @ + 1] /\ loaded' = TRUE
          /\ UNCHANGED <<disk, stage, snap, newer, overtaken, stale>>
      BY <1>6 DEF Mark
    <2>2. \A i \in Ids : Current'[i].cred = Current[i].cred
      BY <2>1, CurrentIsStore DEF Current, Store, Row
    <2> QED BY <1>1, <2>1, <2>2
  <1>7. ASSUME LoopControl \/ CloseControl
        PROVE  /\ PutsOK' /\ AllFresh' /\ PutsFollow'
               /\ \A id \in Ids : disk'[id].cred = disk[id].cred
               /\ \A id \in Ids : Current'[id].cred \in {Current[id].cred, disk[id].cred}
    <2>1. /\ UNCHANGED <<mem, loaded, disk, snap, newer, overtaken, stale>>
          /\ \/ stage' = stage
             \/ stage' = [stage EXCEPT !["loop"] = "begin"]
             \/ stage' = [stage EXCEPT !["closer"] = "begin"]
      BY <1>7 DEF LoopControl, LoopWake, LoopTimer, LoopStop, LoopFlushed, LoopStep, LoopRest,
         StartFlush, CloseControl, CloseStart, CloseFlush, CloseDone, CloseRest
    <2>2. Current' = Current /\ \A p \in Persisters : stage'[p] \in {stage[p], "begin"}
      BY <1>0, <2>1 DEF Current
    <2> QED BY <1>1, <2>1, <2>2
  <1>8. CASE Restart
    <2>1. disk' = disk
      BY <1>8 DEF Restart
    <2> QED BY <1>8, <2>1, RestartKept
  <1> QED BY <1>4, <1>5, <1>6, <1>7, <1>8 DEF Quiet

\* A race is not forgotten.
LEMMA RaceStays == [Next]_vars /\ ~raced' => ~raced
  <1> USE DEF history
  <1>1. ASSUME NEW w \in Writers, WriterStep(w), ~raced' PROVE ~raced
    BY <1>1 DEF WriterStep, Upsert, Update, Delete, Mutate, SyncWritten, WriteFails, SyncFailed
  <1>2. ASSUME NEW f \in Flushers, FlushStep(f), ~raced' PROVE ~raced
    BY <1>2 DEF FlushStep, FlushBegin, FlushRead, FlushReadFails, FlushWritten, WriteFails,
       FlushAbsorb, FlushFailed
  <1>3. ASSUME LoopControl \/ CloseControl, ~raced' PROVE ~raced
    BY <1>3 DEF LoopControl, LoopWake, LoopTimer, LoopStop, LoopFlushed, LoopRest, CloseControl,
       CloseStart, CloseFlush, CloseDone, CloseRest
  <1> QED BY <1>1, <1>2, <1>3 DEF Next, Mark, External, Restart, vars

LEMMA StoredIsPool == [StoredNext]_storedVars => [Next]_vars
  <1>1. Puts => Next
    BY DEF Puts, Next, WriterStep
  <1>2. ASSUME NEW w \in Writers, SyncWritten(w) PROVE Next
    BY <1>2 DEF Next, WriterStep
  <1>3. Quiet => Next
    BY DEF Quiet, Next, WriterStep
  <1> QED BY <1>1, <1>2, <1>3 DEF StoredNext, storedVars, Next

\* What mutators put is a version, and every put is a Mutate.
LEMMA PutsMutate ==
  ASSUME TypeOK, Puts
  PROVE  \E w \in Writers, id \in Ids, row \in Row :
            row.cred \in StoredVersions /\ ~Busy(w) /\ Mutate(w, id, row) /\ PutBy(w, id)
  <1>1. PICK w \in Writers, id \in Ids :
            (Upsert(w, id) \/ Update(w, id) \/ Delete(w, id)) /\ PutBy(w, id)
    BY DEF Puts
  <1>2. CASE Upsert(w, id) \/ Update(w, id)
    <2>1. PICK row : row = [cred |-> issued + 1, hot |-> Current[id].hot]
      OBVIOUS
    <2>2. row \in Row /\ row.cred \in StoredVersions
      BY <1>2, <2>1, CurrentIsStore, BoundsAreNat DEF TypeOK, Store, Row, StoredVersions,
         Upsert, Update
    <2>3. ~Busy(w) /\ Mutate(w, id, row)
      BY <1>2, <2>1 DEF Upsert, Update
    <2> QED BY <1>1, <2>2, <2>3
  <1>3. CASE Delete(w, id)
    <2>1. ~Busy(w) /\ Mutate(w, id, Absent) /\ Absent \in Row /\ Absent.cred \in StoredVersions
      BY <1>3, AbsentIsRow DEF Delete, Absent, StoredVersions
    <2> QED BY <1>1, <2>1
  <1> QED BY <1>1, <1>2, <1>3

LEMMA StoredStep ==
  TypeOK /\ DurabilityInv /\ SavedInv /\ StoredInv /\ [StoredNext]_storedVars => StoredInv'
  <1> SUFFICES ASSUME TypeOK, DurabilityInv, SavedInv, StoredInv, [StoredNext]_storedVars, ~raced'
               PROVE  PutsOK' /\ AllFresh' /\ PutsFollow'
    BY DEF StoredInv
  <1>1. ~raced /\ PutsOK /\ AllFresh /\ PutsFollow /\ LandedFlush /\ LandedLatest
    BY StoredIsPool, RaceStays DEF StoredInv, DurabilityInv, SavedInv
  <1>2. CASE Puts
    BY <1>1, <1>2, PutsMutate, MutateKept
  <1>3. ASSUME NEW id \in Ids, External(id), PutInFile(id) PROVE PutsOK' /\ AllFresh' /\ PutsFollow'
    BY <1>1, <1>3, ExternalKept
  <1>4. ASSUME NEW w \in Writers, SyncWritten(w), Promise(w)
        PROVE  PutsOK' /\ AllFresh' /\ PutsFollow'
    BY <1>1, <1>4, SyncWrittenKept
  <1>5. CASE Quiet /\ ticket' = TicketsOfWriting /\ UNCHANGED <<puts, promised>>
    BY <1>1, <1>5, QuietKept
  <1>6. CASE UNCHANGED storedVars
    <2>1. /\ UNCHANGED <<mem, loaded, disk, stage, snap, newer, overtaken, stale>>
          /\ UNCHANGED <<puts, promised, ticket>> /\ Current' = Current
      BY <1>6 DEF storedVars, putVars, vars, memVars, workVars, history, Current
    <2> QED BY <1>1, <2>1 DEF PutsOK, AllFresh, Fresh, PutsFollow, Has
  <1> QED BY <1>2, <1>3, <1>4, <1>5, <1>6 DEF StoredNext

-----------------------------------------------------------------------------
(* The pool is a durable store, until a race: the mapping *)

LEMMA SinceIsPutSince ==
  ASSUME NEW id \in Ids, NEW n, NEW v, PutSince(v, puts[id], n)
  PROVE  v \in Durable!Since(id, n)
  BY DEF PutSince, Durable!Since

LEMMA StoreInit == StoredInit => Durable!Init
  <1> SUFFICES ASSUME StoredInit PROVE Durable!Init
    OBVIOUS
  <1>1. CredsOf(disk) \in [Ids -> StoredVersions] /\ Current = disk
    BY DEF StoredInit, Init, Current, CredsOf, StoredVersions, Empty, Absent
  <1>2. puts = [id \in Ids |-> <<CredsOf(disk)[id]>>] /\ promised = [id \in Ids |-> 1]
    BY DEF StoredInit, CredsOf
  <1> QED BY <1>1, <1>2 DEF Durable!Init

LEMMA MutateIsPut ==
  ASSUME TypeOK, DurabilityInv, NEW w \in Writers, NEW id \in Ids, NEW row \in Row,
         row.cred \in StoredVersions, ~Busy(w), Mutate(w, id, row), PutBy(w, id)
  PROVE  Durable!Next
  <1>1. mem' = [Current EXCEPT ![id] = row] /\ loaded' = TRUE /\ disk' = disk
    BY DEF Mutate
  <1>2. Current' = mem' /\ mem'[id] = row /\ \A i \in Ids \ {id} : mem'[i] = Current[i]
    BY <1>1, CurrentIsStore DEF Current, Store
  <1>3. /\ puts' = [puts EXCEPT ![id] = Append(@, row.cred)] /\ promised' = promised
        /\ CredsOf(disk)' = CredsOf(disk)
        /\ CredsOf(Current)' = [CredsOf(Current) EXCEPT ![id] = row.cred]
    <2>1. /\ CredsOf(Current)' = [i \in Ids |-> Current'[i].cred]
          /\ \A i \in Ids : Current'[i].cred = IF i = id THEN row.cred ELSE Current[i].cred
      BY <1>1, <1>2 DEF CredsOf
    <2>2. CredsOf(Current)' = [CredsOf(Current) EXCEPT ![id] = row.cred]
      BY <2>1 DEF CredsOf
    <2> QED BY <1>1, <1>2, <2>2 DEF PutBy, CredsOf
  <1>4. Durable!Put(id, row.cred)
    BY <1>3 DEF Durable!Put
  <1> QED BY <1>4 DEF Durable!Next

LEMMA ExternalIsPut ==
  ASSUME TypeOK, NEW id \in Ids, External(id), PutInFile(id)
  PROVE  Durable!Next
  <1>1. PICK v : v = issued + 1
    OBVIOUS
  <1>2. /\ v \in StoredVersions /\ disk' = [disk EXCEPT ![id] = [cred |-> v, hot |-> 0]]
        /\ UNCHANGED <<mem, loaded>>
    BY <1>1, BoundsAreNat DEF External, memVars, TypeOK, StoredVersions
  <1>3. disk'[id].cred = v /\ \A i \in Ids \ {id} : disk'[i] = disk[i]
    BY <1>2 DEF TypeOK, Store
  <1>4. /\ puts' = [puts EXCEPT ![id] = Append(@, v)] /\ promised' = promised
        /\ CredsOf(disk)' = [CredsOf(disk) EXCEPT ![id] = v]
    BY <1>3 DEF PutInFile, CredsOf
  <1>5. CredsOf(Current)' \in {CredsOf(Current), [CredsOf(Current) EXCEPT ![id] = v]}
    <2>1. CASE loaded
      BY <1>2, <2>1 DEF Current, CredsOf
    <2>2. CASE ~loaded
      BY <1>2, <1>4, <2>2 DEF Current, CredsOf
    <2> QED BY <2>1, <2>2
  <1>6. Durable!PutOutside(id, v)
    BY <1>4, <1>5 DEF Durable!PutOutside
  <1> QED BY <1>2, <1>6 DEF Durable!Next

\* Whatever is fresh may be saved.
LEMMA FreshIsSaved ==
  ASSUME PutsOK', AllFresh', CredsOf(Current)' = CredsOf(Current), puts' = puts,
         \A id \in Ids : promised'[id] >= promised[id]
  PROVE  Durable!Next
  <1>1. promised' \in [Ids -> Nat]
    BY DEF PutsOK
  <1>2. Fresh(disk)' /\ Fresh(Current)'
    BY DEF AllFresh
  <1>3. CredsOf(disk)' \in [Ids -> StoredVersions]
    <2>1. \A id \in Ids : disk'[id].cred \in StoredVersions
      BY <1>2 DEF PutsOK, Fresh, PutSince
    <2> QED BY <2>1 DEF CredsOf
  <1>4. ASSUME NEW id \in Ids
        PROVE  {CredsOf(disk)'[id], CredsOf(Current)[id]} \subseteq Durable!Since(id, promised'[id])
    <2>1. /\ CredsOf(disk)'[id] = disk'[id].cred
          /\ CredsOf(Current)[id] = Current'[id].cred
      BY DEF CredsOf
    <2>2. PutSince(disk'[id].cred, puts[id], promised'[id])
          /\ PutSince(Current'[id].cred, puts[id], promised'[id])
      BY <1>2 DEF Fresh
    <2> QED BY <2>1, <2>2, SinceIsPutSince
  <1>5. Durable!Save
    BY <1>1, <1>3, <1>4 DEF Durable!Save
  <1> QED BY <1>5 DEF Durable!Next

LEMMA StoreStep ==
  TypeOK /\ DurabilityInv /\ SavedInv /\ StoredInv /\ [StoredNext]_storedVars
      => [raced' \/ Durable!Next]_(Durable!storeVars)
  <1> SUFFICES ASSUME TypeOK, DurabilityInv, SavedInv, StoredInv, [StoredNext]_storedVars, ~raced'
               PROVE  Durable!Next \/ UNCHANGED Durable!storeVars
    OBVIOUS
  <1>1. ~raced /\ PutsOK /\ AllFresh /\ PutsFollow /\ LandedFlush /\ LandedLatest
    BY StoredIsPool, RaceStays DEF StoredInv, DurabilityInv, SavedInv
  <1>2. PutsOK' /\ AllFresh'
    BY StoredStep DEF StoredInv
  <1>3. CASE Puts
    BY <1>3, PutsMutate, MutateIsPut
  <1>4. ASSUME NEW id \in Ids, External(id), PutInFile(id) PROVE Durable!Next
    BY <1>4, ExternalIsPut
  <1>5. ASSUME NEW w \in Writers, SyncWritten(w), Promise(w) PROVE Durable!Next
    <2>1. mem' = mem /\ loaded' = loaded /\ Holding(w) /\ w \in Persisters
      BY <1>5 DEF SyncWritten, memVars, Holding, Persisters
    <2>2. Current' = Current
      BY <2>1 DEF Current, DurabilityInv, SnapshotOrder
    <2>3. puts' = puts /\ \A id \in Ids : promised'[id] >= promised[id]
      BY <1>1, <1>5 DEF PutsOK, Promise, Larger
    <2> QED BY <1>2, <2>2, <2>3, FreshIsSaved DEF CredsOf
  <1>6. CASE Quiet /\ ticket' = TicketsOfWriting /\ UNCHANGED <<puts, promised>>
    <2>1. \/ /\ \A id \in Ids : disk'[id].cred = disk[id].cred
             /\ \A id \in Ids : Current'[id].cred \in {Current[id].cred, disk[id].cred}
          \/ Current' = Current
      BY <1>1, <1>6, QuietKept
    <2>2. CASE Current' = Current
      <3>1. \A id \in Ids : promised'[id] >= promised[id]
        BY <1>1, <1>6 DEF PutsOK
      <3> QED BY <1>2, <1>6, <2>2, <3>1, FreshIsSaved DEF CredsOf
    <2>3. CASE /\ \A id \in Ids : disk'[id].cred = disk[id].cred
               /\ \A id \in Ids : Current'[id].cred \in {Current[id].cred, disk[id].cred}
      <3>1. \A id \in Ids : Current'[id].cred \in StoredVersions
        BY <1>2 DEF PutsOK, AllFresh, Fresh, PutSince
      <3>2. /\ CredsOf(Current)' \in [Ids -> StoredVersions]
            /\ \A id \in Ids : CredsOf(Current)'[id] \in {CredsOf(Current)[id], CredsOf(disk)[id]}
            /\ CredsOf(disk)' = CredsOf(disk)
        BY <2>3, <3>1 DEF CredsOf
      <3>3. Durable!Recall
        BY <1>6, <3>2 DEF Durable!Recall
      <3> QED BY <3>3 DEF Durable!Next
    <2> QED BY <2>1, <2>2, <2>3
  <1>7. CASE UNCHANGED storedVars
    <2>1. UNCHANGED <<puts, promised, disk, mem, loaded>>
      BY <1>7 DEF storedVars, putVars, vars, memVars
    <2>2. CredsOf(disk)' = CredsOf(disk) /\ CredsOf(Current)' = CredsOf(Current)
      BY <2>1 DEF CredsOf, Current
    <2> QED BY <2>1, <2>2 DEF Durable!storeVars
  <1> QED BY <1>3, <1>4, <1>5, <1>6, <1>7 DEF StoredNext

LEMMA StoredHolds == StoredSpec => [](TypeOK /\ DurabilityInv /\ SavedInv /\ StoredInv)
  <1>1. StoredInit => Init
    BY DEF StoredInit
  <1> QED
    BY <1>1, StoredIsPool, TypeInit, TypeStep, DurabilityInit, DurabilityStep, SavedInit,
       SavedStep, StoredInitially, StoredStep, PTL DEF StoredSpec

\* Until a race happens the pool is a durable store of credentials: mutators and
\* other programs put, writers save and acknowledge, restarts and merges recall
\* what the file has, and no step does anything else to credentials.
THEOREM PoolIsDurableStore == StoredSpec => StoreUntilRaced
  BY StoredHolds, StoreInit, StoreStep, PTL DEF StoredSpec, StoreUntilRaced

\* In particular, a behaviour without a race is one of the store.
THEOREM PoolImplementsStore == StoredSpec /\ []~raced => Durable!Spec
  BY PoolIsDurableStore, PTL DEF StoreUntilRaced, Durable!Spec

\* Neither the file nor memory ever has anything older than what was
\* acknowledged last, unless a race happened.
THEOREM PoolLosesNothing == StoredSpec => [](raced \/ Durable!NothingLost)
  <1>1. StoredInv => raced \/ Durable!NothingLost
    <2> SUFFICES ASSUME StoredInv, ~raced, NEW id \in Ids
                 PROVE  {CredsOf(disk)[id], CredsOf(Current)[id]} \subseteq
                            Durable!Since(id, promised[id])
      BY DEF Durable!NothingLost
    <2>1. /\ PutSince(disk[id].cred, puts[id], promised[id])
          /\ PutSince(Current[id].cred, puts[id], promised[id])
      BY DEF StoredInv, AllFresh, Fresh
    <2> QED BY <2>1, SinceIsPutSince DEF CredsOf
  <1> QED BY <1>1, StoredHolds, PTL

=============================================================================
