---------------------------- MODULE DurableStore ----------------------------
(***************************************************************************)
(* What the account pool promises of credentials: a store of versions, one *)
(* per account, with a file that survives crashes and a memory that does   *)
(* not.  Deleting is putting NoVersion.  A put is promised once its caller *)
(* is told that it succeeded; from then on neither the file nor the memory *)
(* ever has an older one, whatever fails or dies.                          *)
(***************************************************************************)
EXTENDS Naturals, Sequences

CONSTANTS Ids, Versions

VARIABLES
    puts,      \* per account, all that was ever put, oldest first
    promised,  \* per account, the last of them whose caller was told
    file, memory

storeVars == <<puts, promised, file, memory>>

\* What was put to id as the n-th or later.
Since(id, n) == {puts[id][k] : k \in {j \in 1 .. Len(puts[id]) : j >= n}}

Init ==
    /\ file \in [Ids -> Versions]
    /\ memory = file
    /\ puts = [id \in Ids |-> <<file[id]>>]
    /\ promised = [id \in Ids |-> 1]

\* A put is in memory at once.
Put(id, v) ==
    /\ puts' = [puts EXCEPT ![id] = Append(@, v)]
    /\ memory' = [memory EXCEPT ![id] = v]
    /\ UNCHANGED <<promised, file>>

\* Another program puts into the file; memory may see it.
PutOutside(id, v) ==
    /\ puts' = [puts EXCEPT ![id] = Append(@, v)]
    /\ file' = [file EXCEPT ![id] = v]
    /\ memory' \in {memory, [memory EXCEPT ![id] = v]}
    /\ UNCHANGED promised

\* The file is replaced, and callers may be told: what is promised then is in it.
Save ==
    /\ file' \in [Ids -> Versions]
    /\ promised' \in [Ids -> Nat]
    /\ \A id \in Ids : /\ promised'[id] >= promised[id]
                       /\ {file'[id], memory[id]} \subseteq Since(id, promised'[id])
    /\ UNCHANGED <<puts, memory>>

\* Memory takes what the file has: all of it when the process starts again,
\* or what memory does not know.
Recall ==
    /\ memory' \in [Ids -> Versions]
    /\ \A id \in Ids : memory'[id] \in {memory[id], file[id]}
    /\ UNCHANGED <<puts, promised, file>>

Next ==
    \/ \E id \in Ids, v \in Versions : Put(id, v) \/ PutOutside(id, v)
    \/ Save
    \/ Recall

Spec == Init /\ [][Next]_storeVars

\* What all this is for: neither the file nor memory has anything older than
\* what was promised.
NothingLost == \A id \in Ids : {file[id], memory[id]} \subseteq Since(id, promised[id])
=============================================================================
