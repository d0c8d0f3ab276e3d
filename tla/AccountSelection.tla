--------------------------- MODULE AccountSelection ---------------------------
(***************************************************************************)
(* How the pool chooses an account (internal/accounts/pool.go: Select) and *)
(* what results and quota snapshots do to the next choice (MarkResult,     *)
(* ApplyQuotaState).  Everything here happens in one critical section of   *)
(* Pool.mu; PoolRequest says when.                                         *)
(*                                                                         *)
(* A deadline (cooldownUntil, modelCooldowns[model], quotaResetAt) is the  *)
(* number of clock ticks left until it, 0 once it has passed.              *)
(***************************************************************************)
EXTENDS Integers, FiniteSetsExt

CONSTANTS
    NumAccounts,  \* accounts in the pool, in file order
    Models,       \* models that can be asked for by name
    NoModel,      \* the empty model name of search requests
    MaxQuota,     \* quota levels told apart
    ShortCool,    \* ticks of a fixed cooldown (failureCooldown)
    LongCool      \* ticks until an exhausted quota is reset

ASSUME PoolShape ==
    /\ NumAccounts \in Nat \ {0}
    /\ MaxQuota \in Nat
    /\ ShortCool \in Nat \ {0} /\ LongCool \in Nat \ {0}
    /\ NoModel \notin Models

Accounts == 1..NumAccounts
None == 0        \* no AccountID
Unknown == -1    \* no quota snapshot

VARIABLES
    rows,  \* the accounts as Select sees them
    next   \* Store.NextIndex

Until(a, m) ==
    LET model == IF m = NoModel THEN 0 ELSE rows[a].models[m]
        \* QuotaBlocked: known to be exhausted, and not reset yet.
        quota == IF rows[a].quota = 0 THEN rows[a].reset ELSE 0
    IN  Max({rows[a].cool, model, quota})

ModelLimited(a, m) == m # NoModel /\ rows[a].models[m] > 0

\* Enabled, with credentials, of the right site, and not tried before.
Eligible(exclude) == {a \in Accounts \ exclude : rows[a].usable}

\* Position in the rotation that starts at NextIndex.
Turn(a) == (a - next) % NumAccounts

EarliestTurn(S) == CHOOSE a \in S : \A b \in S : Turn(a) <= Turn(b)

\* pickHighestQuotaLocked: the available accounts whose quota is known, the
\* richest of them, the first in file order on a tie.
Richest(exclude, m) ==
    LET known == {a \in Eligible(exclude) : Until(a, m) = 0 /\ rows[a].quota # Unknown}
        top == {a \in known : \A b \in known : rows[a].quota >= rows[b].quota}
    IN  IF known = {} THEN {} ELSE {Min(top)}

\* Mutant: the fallback may take an account limited for this very model.
BlockedIgnoringModel(exclude, m) == {a \in Eligible(exclude) : Until(a, m) > 0}

\* What Select may fall back to when every account is blocked: never one that
\* upstream limited for this model.
Blocked(exclude, m) ==
    {a \in Eligible(exclude) : ~ModelLimited(a, m) /\ Until(a, m) > 0}

\* Mutant: an exhausted pool has no fallback.
ChooseWithoutFallback(exclude, m) ==
    LET free == {a \in Eligible(exclude) : Until(a, m) = 0}
    IN  IF Richest(exclude, m) # {} THEN [account |-> Min(Richest(exclude, m)), bypass |-> FALSE]
        ELSE IF free # {} THEN [account |-> EarliestTurn(free), bypass |-> FALSE]
        ELSE [account |-> None, bypass |-> FALSE]

\* Select without an AccountID: PreferQuota, then the rotation, then the
\* blocked account that recovers first.
Choose(exclude, m) ==
    LET free == {a \in Eligible(exclude) : Until(a, m) = 0}
        blocked == Blocked(exclude, m)
        soonest == {a \in blocked : \A b \in blocked : Until(a, m) <= Until(b, m)}
    IN  IF Richest(exclude, m) # {} THEN [account |-> Min(Richest(exclude, m)), bypass |-> FALSE]
        ELSE IF free # {} THEN [account |-> EarliestTurn(free), bypass |-> FALSE]
        ELSE IF blocked # {} THEN [account |-> EarliestTurn(soonest), bypass |-> TRUE]
        ELSE [account |-> None, bypass |-> FALSE]

\* A selection without an AccountID moves the rotation on.
MoveOn(a) == next' = (a % NumAccounts) + 1

\* MarkResult(ok): the account is healthy, and a bypassed quota was out of date.
MarkOk(a, m, bypass) ==
    rows' = [rows EXCEPT ![a].cool = 0,
                         ![a].models = [n \in Models |-> IF n = m THEN 0 ELSE @[n]],
                         ![a].quota = IF bypass THEN Unknown ELSE @,
                         ![a].reset = IF bypass THEN 0 ELSE @]

\* MarkResult(failed): a cooldown of the account, or of the model alone.
Cooled(row, m, ticks, modelOnly) ==
    IF ticks = 0 THEN row
    ELSE IF modelOnly /\ m # NoModel THEN [row EXCEPT !.models[m] = ticks]
    ELSE [row EXCEPT !.cool = ticks]

\* ApplyQuotaState: store the snapshot; an exhausted account cools down at
\* least until its reset.
WithQuota(row, quota) ==
    LET reset == IF quota = 0 THEN LongCool ELSE 0
    IN  [row EXCEPT !.quota = quota, !.reset = reset, !.cool = Max({@, reset})]

\* Time passes.
Tick ==
    LET Less(n) == IF n = 0 THEN 0 ELSE n - 1
    IN  /\ rows' = [a \in Accounts |->
                      [rows[a] EXCEPT !.cool = Less(@), !.reset = Less(@),
                                      !.models = [m \in Models |-> Less(@[m])]]]
        /\ rows' # rows
        /\ UNCHANGED next

RowType == [usable : BOOLEAN, cool : Nat, models : [Models -> Nat],
            quota : {Unknown} \cup 0..MaxQuota, reset : Nat]

\* A pool as it may be loaded: any account may be disabled, exhausted or not
\* looked at yet.
FreshRow == [usable |-> TRUE, cool |-> 0, models |-> [m \in Models |-> 0],
             quota |-> Unknown, reset |-> 0]

=============================================================================
