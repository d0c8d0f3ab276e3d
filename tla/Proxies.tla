------------------------------- MODULE Proxies -------------------------------
(***************************************************************************)
(* The exits accounts may use (proxies/store.go, server/egress_admin.go).  *)
(* proxies.json is a list to choose from, read, changed and written under  *)
(* its lock; the exit an account does use is a field of the account.  A    *)
(* balance spreads accounts over exits: it reads the list, then the pool,  *)
(* then assigns, and the operator may change either in between.            *)
(***************************************************************************)
EXTENDS Naturals, SequencesExt

CONSTANTS
    Exits,          \* URLs
    Direct,         \* an account without an exit
    Editors,        \* requests that change the list
    ExitAccounts,   \* account ids, as numbers in the order the ids have
    MaxExitEdits    \* changes of the list and of the pool

ASSUME ExitsAssumption == ExitAccounts \subseteq Nat /\ IsFiniteSet(ExitAccounts)

VARIABLES
    exitList,    \* proxies.json
    editor,      \* editor -> the change it makes and the list it read, under the lock
    exitOf,      \* account -> its exit; a deleted account has no entry
    balance,     \* the balance under way, or what the last one assigned
    keptList,    \* ghost: the exits that are listed by the changes that succeeded
    exitEdits

exitVars == <<exitList, editor, exitOf, balance, keptList, exitEdits>>

Resting == [step |-> "rest"]

ExitsInit ==
    /\ exitList = <<>>
    /\ editor = [e \in Editors |-> Resting]
    /\ exitOf = [a \in ExitAccounts |-> Direct]
    /\ balance = Resting
    /\ keptList = {}
    /\ exitEdits = 0

\* Mutant: the file is read before the lock is taken.
UnlockedAlways == TRUE

Unlocked == \A e \in Editors : editor[e] = Resting

\* Add and Remove read the file, with the lock taken.
BeginsEdit(e) ==
    /\ Unlocked
    /\ editor[e] = Resting
    /\ exitEdits < MaxExitEdits
    /\ exitEdits' = exitEdits + 1
    /\ \E x \in Exits, action \in {"add", "remove"} :
          editor' = [editor EXCEPT ![e] = [step |-> action, exit |-> x, read |-> exitList]]
    /\ UNCHANGED <<exitList, exitOf, balance, keptList>>

\* An exit that is added again keeps its place, and one that is not there need
\* not be removed; an exit has one entry, which Remove leaves out.  The write
\* replaces the file as a whole.
WritesList(e) ==
    LET edit == editor[e] IN
    /\ edit # Resting
    /\ editor' = [editor EXCEPT ![e] = Resting]
    /\ \/ /\ edit.step = "add"
          /\ exitList' = IF edit.exit \in ToSet(edit.read) THEN edit.read
                         ELSE Append(edit.read, edit.exit)
          /\ keptList' = keptList \cup {edit.exit}
       \/ /\ edit.step = "remove"
          /\ exitList' = RemoveFirst(edit.read, edit.exit)
          /\ keptList' = keptList \ {edit.exit}
    /\ UNCHANGED <<exitOf, balance, exitEdits>>

\* A write that fails leaves the file as it was, and the client is told.
ListUnwritten(e) ==
    /\ editor[e] # Resting
    /\ editor' = [editor EXCEPT ![e] = Resting]
    /\ UNCHANGED <<exitList, exitOf, balance, keptList, exitEdits>>

\* handleProxyBalance: the exits of the request, each once, or else the list.
ReadExits ==
    /\ balance.step \in {"rest", "done"}
    /\ exitEdits < MaxExitEdits
    /\ exitEdits' = exitEdits + 1
    /\ \E exits \in {exitList} \cup {<<x>> : x \in Exits} :
        /\ exits # <<>>
        /\ balance' = [step |-> "targets", exits |-> exits]
    /\ UNCHANGED <<exitList, editor, exitOf, keptList>>

\* The accounts it is for, by id, or by their site and being enabled: any of those
\* the pool has.
ReadTargets ==
    /\ balance.step = "targets"
    /\ \E wanted \in SUBSET DOMAIN exitOf :
        /\ wanted # {}
        /\ balance' = [step |-> "assign", exits |-> balance.exits, targets |-> wanted]
    /\ UNCHANGED <<exitList, editor, exitOf, keptList, exitEdits>>

\* Round robin in the order of the ids: the i-th account gets the i-th exit, and
\* after the last exit comes the first.
Rank(a, targets) == Cardinality({b \in targets : b < a})
Assignments(targets, exits) ==
    [a \in targets |-> exits[1 + (Rank(a, targets) % Len(exits))]]

\* AssignProxies, in one step and one write: accounts deleted since are passed
\* over, and only if none is left is it an error.
Assign ==
    /\ balance.step = "assign"
    /\ LET assigned == Assignments(balance.targets, balance.exits)
           left == DOMAIN assigned \cap DOMAIN exitOf
       IN /\ exitOf' = [a \in DOMAIN exitOf |-> IF a \in left THEN assigned[a] ELSE exitOf[a]]
          /\ balance' = IF left = {} THEN Resting
                        ELSE [step |-> "done", exits |-> balance.exits, assigned |-> assigned]
    /\ UNCHANGED <<exitList, editor, keptList, exitEdits>>

\* The operator gives one account an exit, or none, whatever the list says, or
\* deletes the account.
SetExit ==
    /\ exitEdits < MaxExitEdits
    /\ exitEdits' = exitEdits + 1
    /\ \E a \in DOMAIN exitOf :
        \/ \E x \in Exits \cup {Direct} : exitOf' = [exitOf EXCEPT ![a] = x]
        \/ exitOf' = [b \in DOMAIN exitOf \ {a} |-> exitOf[b]]
    /\ balance' = IF balance.step = "done" THEN Resting ELSE balance
    /\ UNCHANGED <<exitList, editor, keptList>>

ExitsNext ==
    \/ ReadExits \/ ReadTargets \/ Assign \/ SetExit
    \/ \E e \in Editors : BeginsEdit(e) \/ WritesList(e) \/ ListUnwritten(e)

ExitsSpec == ExitsInit /\ [][ExitsNext]_exitVars

-----------------------------------------------------------------------------
UsersOf(x) == {a \in DOMAIN balance.assigned : balance.assigned[a] = x}

\* The list is what the changes that succeeded made of it, each exit once, however
\* many are made at a time; and a balance is even: no exit gets two accounts more
\* than another, and the accounts it was for and that are still there use theirs
\* (store.go Add, Remove; egress_admin.go handleProxyBalance; pool.go AssignProxies).
ExitsAddUp ==
    /\ ToSet(exitList) = keptList
    /\ IsInjective(exitList)
    /\ balance.step = "done" =>
          /\ \A a \in DOMAIN balance.assigned \cap DOMAIN exitOf : exitOf[a] = balance.assigned[a]
          /\ \A x, y \in ToSet(balance.exits) :
                Cardinality(UsersOf(x)) <= Cardinality(UsersOf(y)) + 1
===============================================================================
