------------------------------ MODULE Settings ------------------------------
(***************************************************************************)
(* The settings an operator changes while the service runs: the gateway    *)
(* key, the bound keys, the routing of the pool and automatic check-in.    *)
(* Each lives in the configuration in memory, in the env file, and maybe   *)
(* in the environment of the process, which wins over the file at start    *)
(* and which the service a self-update starts inherits.                    *)
(*                                                                         *)
(* "key" stands for CODEBUDDY_PROXY_API_KEY and ..._REQUIRE_API_KEY,       *)
(* "routing" for the four variables persistPoolRouting writes.             *)
(***************************************************************************)
EXTENDS Integers, FiniteSets

CONSTANTS
    Handlers,       \* goroutines of the admin routes
    Sites, Products,
    DefaultRouting, \* the routing when nothing is set
    OuterKeys,      \* keys an operator may start the service with
    Unset,          \* no value, or an empty one
    MaxChanges,     \* bound: changes begun
    MaxStops        \* bound: times the service stops

Routings == [site : Sites, product : Products]

ASSUME SettingsAssumption ==
    /\ DefaultRouting \in Routings
    /\ MaxChanges \in Nat /\ MaxStops \in Nat
    /\ OuterKeys \cap Nat = {}
    /\ Unset \notin OuterKeys \cup Nat

Names == {"key", "bound", "routing", "auto"}
NoKey == 0
GatewayKeys == (Nat \ {NoKey}) \cup OuterKeys

\* What a setting is when neither the environment nor the file has it.
DefaultOf(n) == CASE n = "key" -> NoKey
                  [] n = "bound" -> {}
                  [] n = "routing" -> DefaultRouting
                  [] n = "auto" -> FALSE

VARIABLES
    up,        \* the service runs
    config,    \* Service.runtimeCfg, and Runner.auto
    file,      \* the env file
    environ,   \* the environment of the process, or of the next one
    outer,     \* the environment operators start the service with
    handed,    \* the environment the update helper was given, or Unset
    change,    \* per handler: where its change is
    issued,    \* keys generated so far
    changes, stops,
    \* History: only properties read what follows.
    told,      \* per setting: what it may be, by what operators were told
    raced,     \* two changes overlapped, or one ended when the helper was there
    lossy,     \* the service was restarted after that
    carried    \* the environment is one that a self-update handed over

settingVars == <<config, file, environ>>
countVars == <<issued, changes, stops>>
historyVars == <<told, raced, lossy, carried>>
settingsVars == <<up, settingVars, outer, handed, change, countVars, historyVars>>

NoChange == [pc |-> "idle"]

\* The value of a setting under an environment.
Effective(env, n) == IF env[n] = Unset THEN DefaultOf(n) ELSE env[n]

\* An assignment to some of the names.
Set(n, v) == [m \in {n} |-> v]
Overlay(new, old) == [n \in Names |-> IF n \in DOMAIN new THEN new[n] ELSE old[n]]

-----------------------------------------------------------------------------
(* Changes, in the handlers of the admin routes *)

BeginChange(h, values) ==
    /\ up /\ change[h] = NoChange
    /\ changes < MaxChanges /\ changes' = changes + 1
    /\ change' = [change EXCEPT ![h] = [pc |-> "begun", values |-> values]]
    /\ raced' = (raced \/ \E g \in Handlers : change[g] # NoChange)
    /\ UNCHANGED <<up, settingVars, outer, handed, stops, told, lossy, carried>>

GenerateKey(h) ==
    /\ issued' = issued + 1
    /\ BeginChange(h, Set("key", issued + 1))

\* The list of bound keys is read here, and written back whole later.  An
\* empty list is an empty value.
AddBoundKey(h) ==
    /\ issued' = issued + 1
    /\ BeginChange(h, Set("bound", config["bound"] \cup {issued + 1}))

DeleteBoundKey(h, k) ==
    /\ k \in config["bound"]
    /\ BeginChange(h, Set("bound", IF config["bound"] = {k} THEN Unset ELSE config["bound"] \ {k}))
    /\ UNCHANGED issued

\* Each writes the routing whole: what it does not change it takes from memory.
SetPoolSite(h, site) ==
    /\ BeginChange(h, Set("routing", [config["routing"] EXCEPT !.site = site]))
    /\ UNCHANGED issued

SetPoolProduct(h, product) ==
    /\ BeginChange(h, Set("routing", [config["routing"] EXCEPT !.product = product]))
    /\ UNCHANGED issued

SetAuto(h, on) ==
    /\ BeginChange(h, Set("auto", on))
    /\ UNCHANGED issued

\* UpsertEnvFile reads the file, then replaces it, or fails to.
ReadEnvFile(h) ==
    /\ change[h].pc = "begun"
    /\ change' = [change EXCEPT ![h] = [pc |-> "read", values |-> @.values, old |-> file]]
    /\ UNCHANGED <<up, settingVars, outer, handed, countVars, historyVars>>

WriteEnvFile(h) ==
    LET values == change[h].values
    IN  /\ change[h].pc = "read"
        /\ file' = Overlay(values, change[h].old)
        /\ change' = [change EXCEPT ![h] = [pc |-> "written", values |-> values]]
        /\ told' = [n \in Names |-> IF n \in DOMAIN values
                                      THEN told[n] \cup {Effective(values, n)} ELSE told[n]]
        /\ UNCHANGED <<up, config, environ, outer, handed, countVars, raced, lossy, carried>>

WriteFails(h) ==
    /\ change[h].pc = "read"
    /\ change' = [change EXCEPT ![h] = NoChange]
    /\ UNCHANGED <<up, settingVars, outer, handed, countVars, historyVars>>

\* Mutant: the routing does not reach the environment of the process.
NewEnviron(values) == IF "auto" \in DOMAIN values THEN Overlay(values, environ) ELSE environ

\* The routing and the switch of check-in are put into the environment too.
SetEnviron(values) ==
    IF DOMAIN values \cap {"routing", "auto"} # {} THEN Overlay(values, environ) ELSE environ

\* updateConfig touches its own fields only, whatever else has changed since.
UpdateConfig(values) ==
    [n \in Names |-> IF n \in DOMAIN values THEN Effective(values, n) ELSE config[n]]

Answer(h) ==
    LET values == change[h].values
    IN  /\ change[h].pc = "written"
        /\ config' = UpdateConfig(values)
        /\ environ' = SetEnviron(values)
        /\ change' = [change EXCEPT ![h] = NoChange]
        /\ told' = [n \in Names |-> IF n \in DOMAIN values THEN {Effective(values, n)} ELSE told[n]]
        /\ raced' = (raced \/ handed # Unset)
        /\ UNCHANGED <<up, file, outer, handed, countVars, lossy, carried>>

-----------------------------------------------------------------------------
(* The process *)

\* main starts the update helper with the environment it has now.
Prepare ==
    /\ up /\ handed = Unset
    /\ handed' = environ
    /\ UNCHANGED <<up, settingVars, outer, change, countVars, historyVars>>

Exit(env) ==
    /\ up /\ up' = FALSE
    /\ stops < MaxStops /\ stops' = stops + 1
    /\ environ' = env
    /\ handed' = Unset
    /\ change' = [h \in Handlers |-> NoChange]
    /\ lossy' = raced
    /\ UNCHANGED <<config, file, outer, issued, changes, raced>>

\* A signal, a crash, or a failed handoff; operators start it again.
Stop ==
    /\ Exit(outer)
    /\ carried' = FALSE
    /\ told' = [n \in Names |-> IF outer[n] = Unset THEN told[n] ELSE {outer[n]}]

\* The helper starts the new program, or the old one again: both inherit.
HandOver ==
    /\ handed # Unset
    /\ Exit(handed)
    /\ carried' = TRUE
    /\ UNCHANGED told

\* LoadDotEnv: what the environment has the file does not override.
LoadDotEnv == [n \in Names |-> IF environ[n] = Unset THEN file[n] ELSE environ[n]]

NothingToServe(env) == env["key"] = Unset /\ env["bound"] = Unset

Boot ==
    /\ ~up /\ up' = TRUE
    /\ ~NothingToServe(LoadDotEnv)
    /\ environ' = LoadDotEnv
    /\ config' = [n \in Names |-> Effective(LoadDotEnv, n)]
    /\ UNCHANGED <<file, outer, handed, change, countVars, historyVars>>

\* The first run makes a key and saves it, or gives up.
FirstRun ==
    LET key == Set("key", issued + 1)
    IN  /\ ~up /\ up' = TRUE
        /\ NothingToServe(LoadDotEnv)
        /\ file' = Overlay(key, file)
        /\ environ' = Overlay(key, LoadDotEnv)
        /\ config' = [n \in Names |-> Effective(environ', n)]
        /\ issued' = issued + 1
        /\ told' = [told EXCEPT !["key"] = {issued + 1}]
        /\ UNCHANGED <<outer, handed, change, changes, stops, raced, lossy, carried>>

FirstRunFails ==
    /\ ~up /\ NothingToServe(LoadDotEnv)
    /\ environ' = outer
    /\ carried' = FALSE
    /\ told' = [n \in Names |-> IF outer[n] = Unset THEN told[n] ELSE {outer[n]}]
    /\ UNCHANGED <<up, config, file, outer, handed, change, countVars, raced, lossy>>

SettingsInit ==
    /\ up = FALSE
    /\ config = [n \in Names |-> DefaultOf(n)]
    /\ file = [n \in Names |-> Unset]
    /\ \E k \in OuterKeys \cup {Unset} : outer = [n \in Names |-> IF n = "key" THEN k ELSE Unset]
    /\ environ = outer
    /\ handed = Unset
    /\ change = [h \in Handlers |-> NoChange]
    /\ issued = 0 /\ changes = 0 /\ stops = 0
    /\ told = [n \in Names |-> {Effective(outer, n)}]
    /\ raced = FALSE /\ lossy = FALSE /\ carried = FALSE

SettingsNext ==
    \/ \E h \in Handlers :
          \/ GenerateKey(h) \/ AddBoundKey(h)
          \/ \E k \in config["bound"] : DeleteBoundKey(h, k)
          \/ \E site \in Sites : SetPoolSite(h, site)
          \/ \E product \in Products : SetPoolProduct(h, product)
          \/ \E on \in BOOLEAN : SetAuto(h, on)
          \/ ReadEnvFile(h) \/ WriteEnvFile(h) \/ WriteFails(h) \/ Answer(h)
    \/ Prepare \/ Stop \/ HandOver
    \/ Boot \/ FirstRun \/ FirstRunFails

SettingsSpec == SettingsInit /\ [][SettingsNext]_settingsVars

-----------------------------------------------------------------------------
(* Properties *)

\* Every variable has its type.
ValueOf(n) == CASE n = "key" -> GatewayKeys \cup {NoKey}
                [] n = "bound" -> SUBSET GatewayKeys
                [] n = "routing" -> Routings
                [] n = "auto" -> BOOLEAN
Environment(env) == DOMAIN env = Names /\ \A n \in Names : env[n] \in ValueOf(n) \cup {Unset}

SettingsTypeOK ==
    /\ up \in BOOLEAN
    /\ DOMAIN config = Names /\ \A n \in Names : config[n] \in ValueOf(n)
    /\ Environment(file) /\ Environment(environ) /\ Environment(outer)
    /\ handed # Unset => Environment(handed)
    /\ issued \in Nat /\ changes \in Nat /\ stops \in Nat

\* What the service runs with is what operators were last told of each setting,
\* or what a change since then wrote before it was cut off: however changes,
\* failing writes, crashes, restarts and self-updates interleave (server.go, the
\* client-config routes; service.go persistPoolRouting; runner.go SetAuto;
\* dotenv.go LoadDotEnv, UpsertEnvFile).  Excepted are the keys after a
\* self-update (KeySurvivesRestart) and a restart after two changes at once,
\* one of which may write back what the file held before the other.
SettingsSurvive ==
    up /\ ~lossy =>
        /\ config["auto"] \in told["auto"] /\ config["routing"] \in told["routing"]
        /\ ~carried => config["key"] \in told["key"] /\ config["bound"] \in told["bound"]

\* A generated key is the one that counts after every restart
\* (server.go:798, the note of the answer: still valid after a restart).
KeySurvivesRestart == up /\ ~raced => config["key"] \in told["key"]
=============================================================================
