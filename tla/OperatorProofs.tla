---------------------------- MODULE OperatorProofs ----------------------------
(***************************************************************************)
(* Theorems about what the operator does, and what is done in his name:    *)
(* Settings, Proxies and CheckIn, for any handlers, sites, products, exits, *)
(* accounts, windows and bounds.                                           *)
(***************************************************************************)
EXTENDS Settings, Proxies, CheckIn,
        FiniteSetTheorems, SequenceTheorems, WellFoundedInduction, TLAPS

-----------------------------------------------------------------------------
(* Numbers *)

\* A set of numbers has a smallest one.
LEMMA SmallestOf ==
  ASSUME NEW S \in SUBSET Nat, S # {}
  PROVE  \E m \in S : \A n \in S : m <= n
  <1> DEFINE R == {p \in Nat \X Nat : p[1] < p[2]}
  <1>1. R = OpToRel(<, Nat)
    BY DEF OpToRel
  <1>2. IsWellFoundedOn(R, Nat)
    BY <1>1, NatLessThanWellFounded
  <1> HIDE DEF R
  <1>3. PICK m \in S : \A n \in S : ~(<<n, m>> \in R)
    BY <1>2, WFMin
  <1>4. \A n \in S : ~(n < m)
    BY <1>3 DEF R
  <1>5. QED
    BY <1>4

-----------------------------------------------------------------------------
(* Settings: the invariant *)

FunctionsOK ==
    /\ change = [h \in Handlers |-> change[h]]
    /\ told = [n \in Names |-> told[n]]
    /\ config = [n \in Names |-> config[n]]

\* Only the key is ever set from outside.
OuterOK == \A n \in Names \ {"key"} : outer[n] = Unset

FlagsOK ==
    /\ up \in BOOLEAN /\ raced \in BOOLEAN /\ lossy \in BOOLEAN /\ carried \in BOOLEAN
    /\ lossy => raced

\* As long as no two changes have met, the one there is knows the file.
ChangesOK ==
    ~raced => \A h \in Handlers :
        /\ \A g \in Handlers : change[g] # NoChange /\ change[h] # NoChange => g = h
        /\ change[h].pc = "read" => change[h].old = file
        /\ change[h].pc = "written" =>
              \A n \in DOMAIN change[h].values \cap Names : file[n] = change[h].values[n]

\* What is not set from outside comes back from the file.
FileOK == ~raced => \A n \in Names : outer[n] = Unset => Effective(file, n) \in told[n]

\* The two settings that are put into the environment of the process.
Shared == {"routing", "auto"}

Current(env) == \A n \in Shared : env[n] # Unset => env[n] \in told[n]

HandedOK == ~raced /\ handed # Unset => Current(handed)

UpOK ==
    up => /\ ~raced => Current(environ)
          /\ ~lossy => \A n \in Shared : config[n] \in told[n]
          /\ ~lossy /\ ~carried => \A n \in Names : config[n] \in told[n]

\* Between two processes: what the next one will find in its environment.
DownOK ==
    ~up => /\ \A h \in Handlers : change[h] = NoChange
           /\ handed = Unset
           /\ lossy = raced
           /\ ~carried => /\ environ = outer
                          /\ \A n \in Names : outer[n] # Unset => outer[n] \in told[n]
           /\ carried /\ ~raced => Current(environ)

SetInv ==
    FunctionsOK /\ OuterOK /\ FlagsOK /\ ChangesOK /\ FileOK /\ HandedOK /\ UpOK /\ DownOK

-----------------------------------------------------------------------------
(* Settings: changes *)

LEMMA BeginStep ==
  ASSUME SetInv, NEW h \in Handlers, NEW values, BeginChange(h, values)
  PROVE  SetInv'
<1> DEFINE begun == [pc |-> "begun", values |-> values]
<1>1. /\ up /\ change[h] = NoChange /\ change' = [change EXCEPT ![h] = begun]
      /\ raced' = (raced \/ \E g \in Handlers : change[g] # NoChange)
      /\ UNCHANGED <<up, config, file, environ, outer, handed, stops, told, lossy, carried>>
  BY DEF BeginChange, settingVars
<1>2. /\ change'[h] = begun /\ begun.pc = "begun"
      /\ \A g \in Handlers \ {h} : change'[g] = change[g]
      /\ change' = [g \in Handlers |-> change'[g]]
  BY <1>1 DEF SetInv, FunctionsOK
<1> HIDE DEF begun
<1>3. raced' \in BOOLEAN /\ (~raced' => ~raced) BY <1>1 DEF SetInv, FlagsOK
<1>4. FunctionsOK' /\ OuterOK' BY <1>1, <1>2 DEF SetInv, FunctionsOK, OuterOK
<1>5. FlagsOK' BY <1>1, <1>3 DEF SetInv, FlagsOK
<1>6. ChangesOK' BY <1>1, <1>2, <1>3 DEF SetInv, ChangesOK
<1>7. FileOK' /\ HandedOK'
  BY <1>1, <1>3 DEF SetInv, FileOK, HandedOK, Current, Effective
<1>8. UpOK' BY <1>1, <1>3 DEF SetInv, UpOK, Current
<1>9. DownOK' BY <1>1 DEF DownOK
<1> QED BY <1>4, <1>5, <1>6, <1>7, <1>8, <1>9 DEF SetInv

LEMMA ReadStep ==
  ASSUME SetInv, NEW h \in Handlers, ReadEnvFile(h)
  PROVE  SetInv'
<1> DEFINE next == [pc |-> "read", values |-> change[h].values, old |-> file]
<1>1. /\ change[h].pc = "begun" /\ change' = [change EXCEPT ![h] = next]
      /\ UNCHANGED <<up, config, file, environ, outer, handed, told, raced, lossy, carried>>
  BY DEF ReadEnvFile, settingVars, historyVars
<1>2. /\ change'[h] = next /\ next.pc = "read" /\ next.old = file
      /\ \A g \in Handlers \ {h} : change'[g] = change[g]
      /\ change' = [g \in Handlers |-> change'[g]]
      /\ change[h] # NoChange
  BY <1>1 DEF SetInv, FunctionsOK, NoChange
<1> HIDE DEF next
<1>3. up BY <1>2 DEF SetInv, DownOK
<1>4. FunctionsOK' /\ OuterOK' /\ FlagsOK'
  BY <1>1, <1>2 DEF SetInv, FunctionsOK, OuterOK, FlagsOK
<1>5. ChangesOK' BY <1>1, <1>2 DEF SetInv, ChangesOK
<1>6. FileOK' /\ HandedOK' /\ UpOK'
  BY <1>1 DEF SetInv, FileOK, HandedOK, UpOK, Current, Effective
<1>7. DownOK' BY <1>1, <1>3 DEF DownOK
<1> QED BY <1>4, <1>5, <1>6, <1>7 DEF SetInv

LEMMA WriteStep ==
  ASSUME SetInv, NEW h \in Handlers, WriteEnvFile(h)
  PROVE  SetInv'
<1> DEFINE values == change[h].values
           next == [pc |-> "written", values |-> values]
<1>1. /\ change[h].pc = "read" /\ change' = [change EXCEPT ![h] = next]
      /\ file' = Overlay(values, change[h].old)
      /\ told' = [n \in Names |-> IF n \in DOMAIN values
                                    THEN told[n] \cup {Effective(values, n)} ELSE told[n]]
      /\ UNCHANGED <<up, config, environ, outer, handed, raced, lossy, carried>>
  BY DEF WriteEnvFile
<1>2. /\ change'[h] = next /\ next.pc = "written" /\ next.values = values
      /\ \A g \in Handlers \ {h} : change'[g] = change[g]
      /\ change' = [g \in Handlers |-> change'[g]]
      /\ change[h] # NoChange
  BY <1>1 DEF SetInv, FunctionsOK, NoChange
<1> HIDE DEF next, values
<1>3. up BY <1>2 DEF SetInv, DownOK
<1>4. ~raced => /\ change[h].old = file
                /\ \A g \in Handlers \ {h} : change[g] = NoChange
  BY <1>1, <1>2 DEF SetInv, ChangesOK
<1>5. \A n \in Names : told[n] \subseteq told'[n] BY <1>1
<1>6. FunctionsOK' /\ OuterOK' /\ FlagsOK'
  BY <1>1, <1>2 DEF SetInv, FunctionsOK, OuterOK, FlagsOK
<1>7. ChangesOK'
  <2>1. \A n \in DOMAIN values \cap Names : file'[n] = values[n] BY <1>1 DEF Overlay
  <2>2. NoChange.pc = "idle" BY DEF NoChange
  <2> QED BY <1>1, <1>2, <1>4, <2>1, <2>2 DEF SetInv, ChangesOK
<1>8. FileOK'
  <2>1. SUFFICES ASSUME ~raced, NEW n \in Names, outer[n] = Unset
                 PROVE  Effective(file', n) \in told'[n]
    BY <1>1 DEF FileOK, Effective
  <2>2. CASE n \in DOMAIN values
    BY <1>1, <2>2 DEF Overlay, Effective
  <2>3. CASE n \notin DOMAIN values
    <3>1. file'[n] = file[n] BY <1>1, <1>4, <2>1, <2>3 DEF Overlay
    <3> QED BY <1>5, <2>1, <3>1 DEF SetInv, FileOK, Effective
  <2> QED BY <2>2, <2>3
<1>9. HandedOK' /\ UpOK'
  BY <1>1, <1>5 DEF SetInv, HandedOK, UpOK, Current, Shared, Names
<1>10. DownOK' BY <1>1, <1>3 DEF DownOK
<1> QED BY <1>6, <1>7, <1>8, <1>9, <1>10 DEF SetInv

LEMMA WriteFailsStep ==
  ASSUME SetInv, NEW h \in Handlers, WriteFails(h)
  PROVE  SetInv'
<1>1. /\ change[h].pc = "read" /\ change' = [change EXCEPT ![h] = NoChange]
      /\ UNCHANGED <<up, config, file, environ, outer, handed, told, raced, lossy, carried>>
  BY DEF WriteFails, settingVars, historyVars
<1>2. /\ change'[h] = NoChange /\ change[h] # NoChange /\ NoChange.pc = "idle"
      /\ \A g \in Handlers \ {h} : change'[g] = change[g]
      /\ change' = [g \in Handlers |-> change'[g]]
  BY <1>1 DEF SetInv, FunctionsOK, NoChange
<1>3. up BY <1>2 DEF SetInv, DownOK
<1>4. FunctionsOK' /\ OuterOK' /\ FlagsOK'
  BY <1>1, <1>2 DEF SetInv, FunctionsOK, OuterOK, FlagsOK
<1>5. ChangesOK' BY <1>1, <1>2 DEF SetInv, ChangesOK
<1>6. FileOK' /\ HandedOK' /\ UpOK'
  BY <1>1 DEF SetInv, FileOK, HandedOK, UpOK, Current, Effective
<1>7. DownOK' BY <1>1, <1>3 DEF DownOK
<1> QED BY <1>4, <1>5, <1>6, <1>7 DEF SetInv

LEMMA AnswerStep ==
  ASSUME SetInv, NEW h \in Handlers, Answer(h)
  PROVE  SetInv'
<1> DEFINE values == change[h].values
<1>1. /\ change[h].pc = "written" /\ change' = [change EXCEPT ![h] = NoChange]
      /\ config' = UpdateConfig(values) /\ environ' = SetEnviron(values)
      /\ told' = [n \in Names |-> IF n \in DOMAIN values THEN {Effective(values, n)} ELSE told[n]]
      /\ raced' = (raced \/ handed # Unset)
      /\ UNCHANGED <<up, file, outer, handed, lossy, carried>>
  BY DEF Answer
<1>2. /\ change'[h] = NoChange /\ change[h] # NoChange /\ NoChange.pc = "idle"
      /\ \A g \in Handlers \ {h} : change'[g] = change[g]
      /\ change' = [g \in Handlers |-> change'[g]]
  BY <1>1 DEF SetInv, FunctionsOK, NoChange
<1>3. ~raced => \A n \in DOMAIN values \cap Names : file[n] = values[n]
  BY <1>1 DEF SetInv, ChangesOK
<1>4. up BY <1>2 DEF SetInv, DownOK
<1>5. raced' \in BOOLEAN /\ (~raced' => ~raced /\ handed = Unset)
  BY <1>1 DEF SetInv, FlagsOK
<1> HIDE DEF values
<1>6. FunctionsOK' /\ OuterOK'
  BY <1>1, <1>2 DEF SetInv, FunctionsOK, OuterOK, UpdateConfig
<1>7. FlagsOK' BY <1>1, <1>5 DEF SetInv, FlagsOK
<1>8. ChangesOK' BY <1>1, <1>2, <1>5 DEF SetInv, ChangesOK
<1>9. FileOK'
  <2>1. SUFFICES ASSUME ~raced, NEW n \in Names, outer[n] = Unset
                 PROVE  Effective(file, n) \in told'[n]
    BY <1>1, <1>5 DEF FileOK, Effective
  <2>2. CASE n \in DOMAIN values BY <1>1, <1>3, <2>1, <2>2 DEF Effective
  <2>3. CASE n \notin DOMAIN values BY <1>1, <2>1, <2>3 DEF SetInv, FileOK
  <2> QED BY <2>2, <2>3
<1>10. HandedOK' BY <1>1, <1>5 DEF HandedOK
<1>11. UpOK'
  <2>1. \A n \in Names : n \in DOMAIN values => config'[n] \in told'[n]
    BY <1>1 DEF UpdateConfig
  <2>2. \A n \in Names : n \notin DOMAIN values => config'[n] = config[n] /\ told'[n] = told[n]
    BY <1>1 DEF UpdateConfig
  <2>3. ASSUME ~raced', NEW n \in Shared, environ'[n] # Unset
        PROVE  environ'[n] \in told'[n]
    <3>1. n \in Names BY DEF Shared, Names
    <3>2. CASE n \in DOMAIN values
      <4>1. environ'[n] = values[n] BY <1>1, <3>1, <3>2 DEF SetEnviron, Overlay, Shared
      <4> QED BY <1>1, <2>3, <3>1, <3>2, <4>1 DEF Effective
    <3>3. CASE n \notin DOMAIN values
      <4>1. environ'[n] = environ[n] BY <1>1, <3>1, <3>3 DEF SetEnviron, Overlay
      <4> QED BY <1>4, <1>5, <2>2, <2>3, <3>1, <3>3, <4>1 DEF SetInv, UpOK, Current
    <3> QED BY <3>2, <3>3
  <2>4. Shared \subseteq Names BY DEF Shared, Names
  <2>5. (~raced => Current(environ))' BY <2>3 DEF Current
  <2>6. ASSUME ~lossy PROVE \A n \in Shared : config'[n] \in told'[n]
    BY <1>4, <2>1, <2>2, <2>4, <2>6 DEF SetInv, UpOK
  <2>7. ASSUME ~lossy, ~carried PROVE \A n \in Names : config'[n] \in told'[n]
    BY <1>4, <2>1, <2>2, <2>7 DEF SetInv, UpOK
  <2> QED BY <1>1, <2>5, <2>6, <2>7 DEF UpOK
<1>12. DownOK' BY <1>1, <1>4 DEF DownOK
<1> QED BY <1>6, <1>7, <1>8, <1>9, <1>10, <1>11, <1>12 DEF SetInv

-----------------------------------------------------------------------------
(* Settings: the process *)

LEMMA PrepareStep ==
  ASSUME SetInv, Prepare
  PROVE  SetInv'
<1>1. /\ up /\ handed' = environ
      /\ UNCHANGED <<up, config, file, environ, outer, change, told, raced, lossy, carried>>
  BY DEF Prepare, settingVars, historyVars
<1>2. HandedOK' BY <1>1 DEF SetInv, UpOK, HandedOK, Current
<1>3. FunctionsOK' /\ OuterOK' /\ FlagsOK' /\ ChangesOK'
  BY <1>1 DEF SetInv, FunctionsOK, OuterOK, FlagsOK, ChangesOK
<1>4. FileOK' /\ UpOK'
  BY <1>1 DEF SetInv, FileOK, UpOK, Current, Effective
<1>5. DownOK' BY <1>1 DEF DownOK
<1> QED BY <1>2, <1>3, <1>4, <1>5 DEF SetInv

\* Whatever ended the process, only what it leaves in the environment and
\* what operators may then expect need a look.
LEMMA ExitStep ==
  ASSUME SetInv, NEW env, Exit(env), carried' \in BOOLEAN,
         told' = [n \in Names |-> told'[n]],
         \A n \in Names : outer[n] = Unset => told'[n] = told[n],
         ~carried' => /\ env = outer
                      /\ \A n \in Names : outer[n] # Unset => outer[n] \in told'[n],
         carried' /\ ~raced => \A n \in Shared : env[n] # Unset => env[n] \in told'[n]
  PROVE  SetInv'
<1>1. /\ ~up' /\ up' \in BOOLEAN /\ environ' = env /\ handed' = Unset
      /\ change' = [h \in Handlers |-> NoChange] /\ lossy' = raced
      /\ UNCHANGED <<config, file, outer, raced>>
  BY DEF Exit
<1>2. NoChange.pc = "idle" BY DEF NoChange
<1>3. FunctionsOK' /\ OuterOK' BY <1>1 DEF SetInv, FunctionsOK, OuterOK
<1>4. FlagsOK' BY <1>1 DEF SetInv, FlagsOK
<1>5. ChangesOK' BY <1>1, <1>2 DEF ChangesOK
<1>6. FileOK' BY <1>1 DEF SetInv, FileOK, Effective
<1>7. HandedOK' /\ UpOK' BY <1>1 DEF HandedOK, UpOK
<1>8. DownOK' BY <1>1 DEF DownOK, Current
<1> QED BY <1>3, <1>4, <1>5, <1>6, <1>7, <1>8 DEF SetInv

LEMMA StopStep ==
  ASSUME SetInv, Stop
  PROVE  SetInv'
<1>1. Exit(outer) /\ carried' = FALSE BY DEF Stop
<1>2. told' = [n \in Names |-> IF outer[n] = Unset THEN told[n] ELSE {outer[n]}]
  BY DEF Stop
<1>3. /\ told' = [n \in Names |-> told'[n]]
      /\ \A n \in Names : outer[n] = Unset => told'[n] = told[n]
      /\ \A n \in Names : outer[n] # Unset => outer[n] \in told'[n]
  BY <1>2
<1> QED BY <1>1, <1>3, ExitStep

LEMMA HandOverStep ==
  ASSUME SetInv, HandOver
  PROVE  SetInv'
<1>1. handed # Unset /\ Exit(handed) /\ carried' = TRUE /\ told' = told BY DEF HandOver
<1>2. told' = [n \in Names |-> told'[n]] BY <1>1 DEF SetInv, FunctionsOK
<1>3. ~raced => \A n \in Shared : handed[n] # Unset => handed[n] \in told'[n]
  BY <1>1 DEF SetInv, HandedOK, Current
<1> QED BY <1>1, <1>2, <1>3, ExitStep

\* What a new process finds, in its environment and then in the file, is what
\* operators were told; after a self-update, of the shared settings only.
LEMMA LoadedIsTold ==
  ASSUME SetInv, ~up, ~raced, NEW n \in Names, n \in Shared \/ ~carried
  PROVE  /\ Effective(LoadDotEnv, n) \in told[n]
         /\ LoadDotEnv[n] # Unset => LoadDotEnv[n] \in told[n]
<1>1. LoadDotEnv[n] = IF environ[n] = Unset THEN file[n] ELSE environ[n]
  BY DEF LoadDotEnv
<1>2. environ[n] # Unset => environ[n] \in told[n]
  <2>1. CASE carried BY <2>1 DEF SetInv, DownOK, Current
  <2>2. CASE ~carried BY <2>2 DEF SetInv, DownOK
  <2> QED BY <2>1, <2>2
<1>3. environ[n] = Unset => outer[n] = Unset
  <2>1. n \in Shared => outer[n] = Unset BY DEF SetInv, OuterOK, Shared
  <2>2. ~carried => environ = outer BY DEF SetInv, DownOK
  <2> QED BY <2>1, <2>2
<1>4. environ[n] = Unset => Effective(file, n) \in told[n]
  BY <1>3 DEF SetInv, FileOK
<1>5. CASE environ[n] # Unset BY <1>1, <1>2, <1>5 DEF Effective
<1>6. CASE environ[n] = Unset BY <1>1, <1>4, <1>6 DEF Effective
<1> QED BY <1>5, <1>6

LEMMA BootStep ==
  ASSUME SetInv, Boot
  PROVE  SetInv'
<1>1. /\ ~up /\ up' = TRUE /\ environ' = LoadDotEnv
      /\ config' = [n \in Names |-> Effective(LoadDotEnv, n)]
      /\ UNCHANGED <<file, outer, handed, change, told, raced, lossy, carried>>
  BY DEF Boot, historyVars
<1>2. lossy = raced BY <1>1 DEF SetInv, DownOK
<1>3. Shared \subseteq Names BY DEF Shared, Names
<1>4. FunctionsOK' /\ OuterOK' /\ FlagsOK' /\ ChangesOK'
  BY <1>1 DEF SetInv, FunctionsOK, OuterOK, FlagsOK, ChangesOK
<1>5. FileOK' /\ HandedOK' BY <1>1 DEF SetInv, FileOK, HandedOK, Current, Effective
<1>6. (~raced => Current(environ))'
  BY <1>1, <1>3, LoadedIsTold DEF Current
<1>7. ASSUME ~lossy PROVE \A n \in Shared : config'[n] \in told'[n]
  BY <1>1, <1>2, <1>3, <1>7, LoadedIsTold
<1>8. ASSUME ~lossy, ~carried PROVE \A n \in Names : config'[n] \in told'[n]
  BY <1>1, <1>2, <1>8, LoadedIsTold
<1>9. UpOK' BY <1>1, <1>6, <1>7, <1>8 DEF UpOK
<1>10. DownOK' BY <1>1 DEF DownOK
<1> QED BY <1>4, <1>5, <1>9, <1>10 DEF SetInv

LEMMA FirstRunStep ==
  ASSUME SetInv, issued \in Nat, FirstRun
  PROVE  SetInv'
<1> DEFINE new == issued + 1
           key == Set("key", new)
<1>1. /\ ~up /\ up' = TRUE
      /\ file' = Overlay(key, file) /\ environ' = Overlay(key, LoadDotEnv)
      /\ config' = [n \in Names |-> Effective(environ', n)]
      /\ told' = [told EXCEPT !["key"] = {new}]
      /\ UNCHANGED <<outer, handed, change, raced, lossy, carried>>
  BY DEF FirstRun
<1>2. new # Unset BY SettingsAssumption
<1> HIDE DEF new
<1>3. DOMAIN key = {"key"} /\ key["key"] = new BY DEF Set
<1> HIDE DEF key
<1>4. "key" \in Names /\ "key" \notin Shared /\ Shared \subseteq Names
  BY DEF Names, Shared
<1>5. /\ told'["key"] = {new} /\ told' = [n \in Names |-> told'[n]]
      /\ \A n \in Names \ {"key"} : told'[n] = told[n]
  BY <1>1, <1>4 DEF SetInv, FunctionsOK
<1>6. /\ file'["key"] = new /\ environ'["key"] = new
      /\ \A n \in Names \ {"key"} : file'[n] = file[n] /\ environ'[n] = LoadDotEnv[n]
  BY <1>1, <1>3, <1>4 DEF Overlay
<1>7. lossy = raced /\ handed = Unset /\ \A h \in Handlers : change[h] = NoChange
  BY <1>1 DEF SetInv, DownOK
<1>8. FunctionsOK' /\ OuterOK' /\ FlagsOK'
  BY <1>1, <1>5 DEF SetInv, FunctionsOK, OuterOK, FlagsOK
<1>9. ChangesOK' /\ HandedOK'
  <2>1. NoChange.pc = "idle" BY DEF NoChange
  <2> QED BY <1>1, <1>7, <2>1 DEF ChangesOK, HandedOK
<1>10. FileOK'
  <2>1. SUFFICES ASSUME ~raced, NEW n \in Names, outer[n] = Unset
                 PROVE  Effective(file', n) \in told'[n]
    BY <1>1 DEF FileOK, Effective
  <2>2. CASE n = "key" BY <1>2, <1>5, <1>6, <2>2 DEF Effective
  <2>3. CASE n # "key" BY <1>5, <1>6, <2>1, <2>3 DEF SetInv, FileOK, Effective
  <2> QED BY <2>2, <2>3
<1>11. ASSUME ~raced, NEW n \in Names, n = "key" \/ n \in Shared \/ ~carried
       PROVE  /\ Effective(environ', n) \in told'[n]
              /\ environ'[n] # Unset => environ'[n] \in told'[n]
  <2>1. CASE n = "key" BY <1>2, <1>5, <1>6, <2>1 DEF Effective
  <2>2. CASE n # "key"
    <3>1. /\ Effective(LoadDotEnv, n) \in told[n]
          /\ LoadDotEnv[n] # Unset => LoadDotEnv[n] \in told[n]
      BY <1>1, <1>11, <2>2, LoadedIsTold
    <3> QED BY <1>5, <1>6, <2>2, <3>1 DEF Effective
  <2> QED BY <2>1, <2>2
<1>12. (~raced => Current(environ))' BY <1>1, <1>4, <1>11 DEF Current
<1>13. ASSUME ~lossy PROVE \A n \in Shared : config'[n] \in told'[n]
  BY <1>1, <1>4, <1>7, <1>11, <1>13
<1>14. ASSUME ~lossy, ~carried PROVE \A n \in Names : config'[n] \in told'[n]
  BY <1>1, <1>7, <1>11, <1>14
<1>15. UpOK' BY <1>1, <1>12, <1>13, <1>14 DEF UpOK
<1>16. DownOK' BY <1>1 DEF DownOK
<1> QED BY <1>8, <1>9, <1>10, <1>15, <1>16 DEF SetInv

LEMMA FirstRunFailsStep ==
  ASSUME SetInv, FirstRunFails
  PROVE  SetInv'
<1>1. /\ ~up /\ environ' = outer /\ carried' = FALSE
      /\ told' = [n \in Names |-> IF outer[n] = Unset THEN told[n] ELSE {outer[n]}]
      /\ UNCHANGED <<up, config, file, outer, handed, change, raced, lossy>>
  BY DEF FirstRunFails
<1>2. FunctionsOK' /\ OuterOK' /\ FlagsOK' /\ ChangesOK'
  BY <1>1 DEF SetInv, FunctionsOK, OuterOK, FlagsOK, ChangesOK
<1>3. FileOK' BY <1>1 DEF SetInv, FileOK, Effective
<1>4. HandedOK' /\ UpOK' BY <1>1 DEF SetInv, DownOK, HandedOK, UpOK
<1>5. DownOK' BY <1>1 DEF SetInv, DownOK
<1> QED BY <1>2, <1>3, <1>4, <1>5 DEF SetInv

-----------------------------------------------------------------------------
(* Settings: the theorem *)

\* New keys are numbers, and so never Unset.
WholeInv == SetInv /\ issued \in Nat

LEMMA SetInitially == SettingsInit => WholeInv
<1> SUFFICES ASSUME SettingsInit PROVE WholeInv OBVIOUS
<1>1. PICK k \in OuterKeys \cup {Unset} : outer = [n \in Names |-> IF n = "key" THEN k ELSE Unset]
  BY DEF SettingsInit
<1>2. /\ up = FALSE /\ raced = FALSE /\ lossy = FALSE /\ carried = FALSE
      /\ config = [n \in Names |-> DefaultOf(n)] /\ file = [n \in Names |-> Unset]
      /\ environ = outer /\ handed = Unset /\ change = [h \in Handlers |-> NoChange]
      /\ told = [n \in Names |-> {Effective(outer, n)}]
  BY DEF SettingsInit
<1>3. NoChange.pc = "idle" BY DEF NoChange
<1>4. FunctionsOK /\ FlagsOK /\ ChangesOK
  BY <1>2, <1>3 DEF FunctionsOK, FlagsOK, ChangesOK
<1>5. OuterOK BY <1>1 DEF OuterOK
<1>6. FileOK BY <1>2 DEF FileOK, Effective
<1>7. HandedOK /\ UpOK /\ DownOK BY <1>2 DEF HandedOK, UpOK, DownOK, Effective
<1>8. issued \in Nat BY DEF SettingsInit
<1> QED BY <1>4, <1>5, <1>6, <1>7, <1>8 DEF WholeInv, SetInv

LEMMA SetInvariance ==
  WholeInv /\ [SettingsNext]_settingsVars => WholeInv'
<1> SUFFICES ASSUME WholeInv, [SettingsNext]_settingsVars
             PROVE  WholeInv'
  OBVIOUS
<1>1. ASSUME NEW h \in Handlers, GenerateKey(h) PROVE WholeInv'
  BY <1>1, BeginStep DEF WholeInv, GenerateKey
<1>2. ASSUME NEW h \in Handlers, AddBoundKey(h) PROVE WholeInv'
  BY <1>2, BeginStep DEF WholeInv, AddBoundKey
<1>3. ASSUME NEW h \in Handlers, NEW k, DeleteBoundKey(h, k) PROVE WholeInv'
  BY <1>3, BeginStep DEF WholeInv, DeleteBoundKey
<1>4. ASSUME NEW h \in Handlers, NEW site, SetPoolSite(h, site) PROVE WholeInv'
  BY <1>4, BeginStep DEF WholeInv, SetPoolSite
<1>5. ASSUME NEW h \in Handlers, NEW product, SetPoolProduct(h, product)
      PROVE WholeInv'
  BY <1>5, BeginStep DEF WholeInv, SetPoolProduct
<1>6. ASSUME NEW h \in Handlers, NEW on, SetAuto(h, on) PROVE WholeInv'
  BY <1>6, BeginStep DEF WholeInv, SetAuto
<1>7. ASSUME NEW h \in Handlers, ReadEnvFile(h) PROVE WholeInv'
  BY <1>7, ReadStep DEF WholeInv, ReadEnvFile, countVars
<1>8. ASSUME NEW h \in Handlers, WriteEnvFile(h) PROVE WholeInv'
  BY <1>8, WriteStep DEF WholeInv, WriteEnvFile, countVars
<1>9. ASSUME NEW h \in Handlers, WriteFails(h) PROVE WholeInv'
  BY <1>9, WriteFailsStep DEF WholeInv, WriteFails, countVars
<1>10. ASSUME NEW h \in Handlers, Answer(h) PROVE WholeInv'
  BY <1>10, AnswerStep DEF WholeInv, Answer, countVars
<1>11. ASSUME Prepare PROVE WholeInv'
  BY <1>11, PrepareStep DEF WholeInv, Prepare, countVars
<1>12. ASSUME Stop PROVE WholeInv'
  BY <1>12, StopStep DEF WholeInv, Stop, Exit
<1>13. ASSUME HandOver PROVE WholeInv'
  BY <1>13, HandOverStep DEF WholeInv, HandOver, Exit
<1>14. ASSUME Boot PROVE WholeInv'
  BY <1>14, BootStep DEF WholeInv, Boot, countVars
<1>15. ASSUME FirstRun PROVE WholeInv'
  BY <1>15, FirstRunStep DEF WholeInv, FirstRun
<1>16. ASSUME FirstRunFails PROVE WholeInv'
  BY <1>16, FirstRunFailsStep DEF WholeInv, FirstRunFails, countVars
<1>17. CASE UNCHANGED settingsVars
  <2>1. UNCHANGED <<up, config, file, environ, outer, handed, change, issued,
                    told, raced, lossy, carried>>
    BY <1>17 DEF settingsVars, settingVars, countVars, historyVars
  <2>2. FunctionsOK' /\ OuterOK' /\ FlagsOK' /\ ChangesOK'
    BY <2>1 DEF WholeInv, SetInv, FunctionsOK, OuterOK, FlagsOK, ChangesOK
  <2>3. FileOK' /\ HandedOK' /\ UpOK' /\ DownOK'
    BY <2>1 DEF WholeInv, SetInv, FileOK, HandedOK, UpOK, DownOK, Current, Effective
  <2> QED BY <2>1, <2>2, <2>3 DEF WholeInv, SetInv
<1> QED
  BY <1>1, <1>2, <1>3, <1>4, <1>5, <1>6, <1>7, <1>8, <1>9, <1>10, <1>11, <1>12, <1>13,
     <1>14, <1>15, <1>16, <1>17 DEF SettingsNext

\* What the service runs with is what operators were told, however changes,
\* failing writes, crashes, restarts and self-updates interleave: for any
\* number of handlers, changes and restarts, and any sites, products and keys.
THEOREM SettingsAreKept == SettingsSpec => []SettingsSurvive
<1>1. WholeInv => SettingsSurvive
  <2>1. SUFFICES ASSUME WholeInv PROVE SettingsSurvive OBVIOUS
  <2>2. "auto" \in Shared /\ "routing" \in Shared /\ "key" \in Names /\ "bound" \in Names
    BY DEF Shared, Names
  <2> QED BY <2>1, <2>2 DEF WholeInv, SetInv, UpOK, SettingsSurvive
<1> QED BY <1>1, SetInitially, SetInvariance, PTL DEF SettingsSpec

-----------------------------------------------------------------------------
(* Proxies *)

\* The accounts below one are finitely many, and more of them lie below a
\* greater one.
LEMMA RankGrows ==
  ASSUME NEW T \in SUBSET Nat, IsFiniteSet(T)
  PROVE  /\ \A a \in T : Rank(a, T) \in Nat
         /\ \A a, b \in T : a < b => Rank(a, T) < Rank(b, T)
         /\ \A a, b \in T : Rank(a, T) = Rank(b, T) => a = b
  <1>1. ASSUME NEW a \in T
        PROVE  IsFiniteSet({b \in T : b < a}) /\ Rank(a, T) \in Nat
    <2>1. {b \in T : b < a} \in SUBSET T
      OBVIOUS
    <2>2. IsFiniteSet({b \in T : b < a})
      BY <2>1, FS_Subset
    <2>3. QED
      BY <2>2, FS_CardinalityType DEF Rank
  <1>2. ASSUME NEW a \in T, NEW b \in T, a < b
        PROVE  Rank(a, T) < Rank(b, T)
    <2> DEFINE below == {c \in T : c < a}
               more == {c \in T : c < b}
    <2>1. IsFiniteSet(below) /\ IsFiniteSet(more)
      BY <1>1
    <2>2. below \cup {a} \in SUBSET more /\ a \notin below
      <3>1. a \in Nat /\ b \in Nat /\ T \subseteq Nat
        OBVIOUS
      <3>2. \A c \in Nat : c < a => c < b
        BY <1>2, <3>1
      <3>3. ~(a < a)
        BY <3>1
      <3>4. QED
        BY <1>2, <3>1, <3>2, <3>3
    <2>3. Cardinality(below \cup {a}) = Cardinality(below) + 1
      BY <2>1, <2>2, FS_AddElement
    <2>4. Cardinality(below \cup {a}) <= Cardinality(more)
      BY <2>1, <2>2, FS_Subset
    <2>5. Rank(a, T) = Cardinality(below) /\ Rank(b, T) = Cardinality(more)
      BY DEF Rank
    <2>6. Rank(a, T) \in Nat /\ Rank(b, T) \in Nat
      BY <1>1
    <2>7. QED
      BY ONLY <2>3, <2>4, <2>5, <2>6
  <1>3. ASSUME NEW a \in T, NEW b \in T, Rank(a, T) = Rank(b, T)
        PROVE  a = b
    <2>1. \A n \in Nat : ~(n < n)
      OBVIOUS
    <2>2. ~(a < b) /\ ~(b < a)
      BY ONLY <1>1, <1>2, <1>3, <2>1, a \in T, b \in T
    <2>3. a \in Nat /\ b \in Nat
      OBVIOUS
    <2>4. QED
      BY <2>2, <2>3
  <1>4. QED
    BY <1>1, <1>2, <1>3

\* No rank is left out: below an account there is one of every smaller rank.
LEMMA RanksAreAll ==
  ASSUME NEW T \in SUBSET Nat, IsFiniteSet(T)
  PROVE  \A a \in T : \A r \in Nat : r < Rank(a, T) => \E b \in T : Rank(b, T) = r
  <1> DEFINE Full(a) == \A r \in Nat : r < Rank(a, T) => \E b \in T : Rank(b, T) = r
             bad == {a \in T : ~Full(a)}
  <1> SUFFICES ASSUME bad # {} PROVE FALSE
    BY DEF bad
  <1>1. bad \in SUBSET Nat
    OBVIOUS
  <1>2. PICK a \in bad : \A b \in bad : a <= b
    BY <1>1, SmallestOf
  <1>3. PICK r \in Nat : r < Rank(a, T) /\ ~\E b \in T : Rank(b, T) = r
    BY <1>2
  <1> DEFINE below == {b \in T : b < a}
  <1>4. a \in T /\ a \in Nat /\ IsFiniteSet(below) /\ Rank(a, T) = Cardinality(below) /\ Rank(a, T) \in Nat
    <2>1. below \in SUBSET T /\ a \in T
      BY <1>2
    <2>2. IsFiniteSet(below)
      BY <2>1, FS_Subset
    <2>3. QED
      BY <2>1, <2>2, RankGrows DEF Rank
  <1>5. below # {}
    <2>1. Cardinality(below) # 0
      BY <1>3, <1>4
    <2>2. QED
      BY <2>1, FS_EmptySet
  <1>6. PICK p \in below : \A b \in below : b <= p
    <2> DEFINE gaps == {a - b : b \in below}
    <2>1. \A b \in below : a - b \in Nat /\ b \in Nat
      BY <1>4
    <2>2. gaps \in SUBSET Nat /\ gaps # {}
      BY <1>5, <2>1
    <2>3. PICK gap \in gaps : \A g \in gaps : gap <= g
      BY <2>2, SmallestOf
    <2>4. PICK p \in below : gap = a - p
      BY <2>3
    <2>5. \A b \in below : a - p <= a - b
      BY <2>3, <2>4
    <2>6. \A b \in below : b <= p
      BY <1>4, <2>1, <2>5
    <2>7. QED
      BY <2>6
  <1>7. Rank(a, T) = Rank(p, T) + 1
    <2> DEFINE under == {b \in T : b < p}
    <2>1. below = under \cup {p} /\ p \notin under
      <3>1. p \in T /\ p < a /\ p \in Nat /\ \A b \in below : b <= p
        BY <1>6
      <3>2. \A b \in T : b < a => b < p \/ b = p
        BY <3>1
      <3>3. \A b \in T : b < p => b < a
        BY <1>4, <3>1
      <3>4. ~(p < p)
        BY <3>1
      <3>5. QED
        BY ONLY <3>1, <3>2, <3>3, <3>4
    <2>2. under \in SUBSET T
      OBVIOUS
    <2>3. IsFiniteSet(under)
      BY <2>2, FS_Subset
    <2>4. Cardinality(under \cup {p}) = Cardinality(under) + 1
      BY <2>1, <2>3, FS_AddElement
    <2>5. Rank(p, T) = Cardinality(under)
      BY DEF Rank
    <2>6. QED
      BY ONLY <1>4, <2>1, <2>4, <2>5
  <1>8. p \in T /\ p < a /\ Rank(p, T) \in Nat
    BY <1>6, RankGrows
  <1>9. r # Rank(p, T)
    BY <1>3, <1>8
  <1>10. r < Rank(p, T)
    BY <1>3, <1>7, <1>8, <1>9
  <1>11. p \notin bad
    <2>1. p \in bad => a <= p
      BY <1>2
    <2>2. p \in Nat
      BY <1>8
    <2>3. QED
      BY <1>4, <1>8, <2>1, <2>2
  <1>12. QED
    BY <1>3, <1>8, <1>10, <1>11

\* Accounts assigned to the i-th of L exits.
Turn(i, T, L) == {a \in T : Rank(a, T) % L = i}

\* Round robin is even.
LEMMA TurnsAreEven ==
  ASSUME NEW T \in SUBSET Nat, IsFiniteSet(T), NEW L \in Nat \ {0},
         NEW i \in 0 .. L - 1, NEW j \in 0 .. L - 1
  PROVE  Cardinality(Turn(i, T, L)) <= Cardinality(Turn(j, T, L)) + 1
  <1> DEFINE S == Turn(i, T, L)
             U == Turn(j, T, L)
             low == {a \in S : Rank(a, T) < L}
             high == S \ low
  <1>1. IsFiniteSet(S) /\ IsFiniteSet(U)
    <2>1. S \in SUBSET T /\ U \in SUBSET T
      BY DEF Turn
    <2>2. QED
      BY <2>1, FS_Subset
  <1>2. \A a \in T : Rank(a, T) \in Nat
    BY RankGrows
  <1>3. Cardinality(S) <= Cardinality(high) + 1 /\ IsFiniteSet(high) /\ Cardinality(high) \in Nat
    <2>1. \A a \in low : Rank(a, T) = i
      <3>1. \A n \in Nat : n < L => n % L = n
        OBVIOUS
      <3>2. QED
        BY <1>2, <3>1 DEF Turn
    <2>2. \A a, b \in low : a = b
      BY <2>1, RankGrows DEF Turn
    <2>3. IsFiniteSet(high) /\ Cardinality(high) \in Nat
      <3>1. high \in SUBSET S
        OBVIOUS
      <3>2. IsFiniteSet(high)
        BY <1>1, <3>1, FS_Subset
      <3>3. QED
        BY <3>2, FS_CardinalityType
    <2>4. CASE low = {}
      <3>1. S = high
        BY <2>4
      <3>2. QED
        BY <2>3, <3>1
    <2>5. CASE low # {}
      <3>1. PICK a \in low : TRUE
        BY <2>5
      <3>2. S = high \cup {a} /\ a \notin high
        BY <2>2, <3>1
      <3>3. Cardinality(high \cup {a}) = Cardinality(high) + 1
        BY <2>3, <3>2, FS_AddElement
      <3>4. QED
        BY ONLY <2>3, <3>2, <3>3
    <2>6. QED
      BY <2>4, <2>5
  \* An account that gets exit i again comes after one that gets exit j.
  <1> DEFINE Before(a) == CHOOSE b \in T : Rank(b, T) = (Rank(a, T) - i) + j - L
             h == [a \in high |-> Before(a)]
  <1>4. ASSUME NEW a \in high
        PROVE  /\ Before(a) \in U
               /\ Rank(Before(a), T) = (Rank(a, T) - i) + j - L
    <2> DEFINE n == Rank(a, T)
               m == (n - i) + j - L
    <2>1. a \in T /\ n \in Nat /\ n % L = i /\ n >= L
      BY <1>2 DEF Turn
    <2> HIDE DEF n
    <2>2. m \in Nat /\ m < n /\ m % L = j
      <3>1. n = L * (n \div L) + i /\ n \div L \in Nat
        BY <2>1
      <3> DEFINE q == n \div L
      <3> HIDE DEF q
      <3>2. q \in Nat /\ n = L * q + i
        BY <3>1 DEF q
      <3>3. q >= 1
        <4>1. q = 0 => n = i
          BY <3>2
        <4>2. QED
          BY <2>1, <3>2, <4>1
      <3>4. PICK k \in Nat : q = k + 1
        <4>1. q - 1 \in Nat /\ q = (q - 1) + 1
          BY <3>2, <3>3
        <4>2. QED
          BY <4>1
      <3>5. L * q = L * k + L /\ L * k \in Nat
        BY <3>4
      <3>6. m = L * k + j
        BY <3>2, <3>5
      <3>7. m \in Nat /\ m < n
        BY <3>2, <3>5, <3>6
      <3>8. (L * k + j) % L = j
        BY <3>4
      <3>9. QED
        BY <3>6, <3>7, <3>8
    <2> HIDE DEF m
    <2>3. \E b \in T : Rank(b, T) = m
      BY <2>1, <2>2, RanksAreAll DEF n
    <2>4. Before(a) \in T /\ Rank(Before(a), T) = m
      BY <2>3 DEF m, n
    <2>5. Before(a) \in U
      BY <2>2, <2>4 DEF Turn
    <2>6. QED
      BY <2>4, <2>5 DEF m, n
  <1>5. h \in Injection(high, U)
    <2>1. h \in [high -> U]
      BY <1>4
    <2>2. ASSUME NEW a \in high, NEW b \in high, h[a] = h[b] PROVE a = b
      <3>1. (Rank(a, T) - i) + j - L = (Rank(b, T) - i) + j - L
        BY <1>4, <2>2
      <3>2. a \in T /\ b \in T /\ Rank(a, T) \in Nat /\ Rank(b, T) \in Nat
        BY <1>2 DEF Turn
      <3>3. Rank(a, T) = Rank(b, T)
        BY <3>1, <3>2
      <3>4. QED
        BY <3>2, <3>3, RankGrows
    <2>3. QED
      BY <2>1, <2>2 DEF Injection, IsInjective
  <1>6. Cardinality(high) <= Cardinality(U)
    BY <1>1, <1>5, FS_Injection
  <1>7. Cardinality(U) \in Nat /\ Cardinality(S) \in Nat
    BY <1>1, FS_CardinalityType
  <1>8. QED
    BY ONLY <1>3, <1>6, <1>7

UsersAssigned(x, assigned) == {a \in DOMAIN assigned : assigned[a] = x}

\* No exit of a balance gets two accounts more than another.
LEMMA AssignmentsAreEven ==
  ASSUME NEW T \in SUBSET Nat, IsFiniteSet(T), NEW S, NEW exits \in Seq(S), exits # <<>>,
         IsInjective(exits), NEW x \in ToSet(exits), NEW y \in ToSet(exits)
  PROVE  Cardinality(UsersAssigned(x, Assignments(T, exits)))
           <= Cardinality(UsersAssigned(y, Assignments(T, exits))) + 1
  <1> DEFINE L == Len(exits)
  <1>1. L \in Nat \ {0} /\ DOMAIN exits = 1 .. L
    OBVIOUS
  <1>2. \A a \in T : Rank(a, T) \in Nat /\ Rank(a, T) % L \in 0 .. L - 1
    <2>1. \A n \in Nat : n % L \in 0 .. L - 1
      BY <1>1
    <2>2. QED
      BY <2>1, RankGrows
  <1>3. ASSUME NEW z \in ToSet(exits)
        PROVE  \E i \in 0 .. L - 1 : UsersAssigned(z, Assignments(T, exits)) = Turn(i, T, L)
    <2>1. PICK k \in 1 .. L : exits[k] = z
      BY <1>1 DEF ToSet
    <2>2. ASSUME NEW a \in T
          PROVE  (exits[1 + (Rank(a, T) % L)] = z) <=> (Rank(a, T) % L = k - 1)
      <3> DEFINE n == Rank(a, T) % L
      <3>1. n \in 0 .. L - 1
        BY <1>2
      <3> HIDE DEF n
      <3>2. 1 + n \in DOMAIN exits /\ k \in DOMAIN exits
        BY <1>1, <3>1
      <3>3. exits[1 + n] = z => 1 + n = k
        BY <2>1, <3>2 DEF IsInjective
      <3>4. (exits[1 + n] = z) <=> (n = k - 1)
        BY <1>1, <2>1, <3>1, <3>3
      <3>5. QED
        BY <3>4 DEF n
    <2>3. UsersAssigned(z, Assignments(T, exits)) = {a \in T : exits[1 + (Rank(a, T) % L)] = z}
      BY DEF UsersAssigned, Assignments
    <2>4. UsersAssigned(z, Assignments(T, exits)) = Turn(k - 1, T, L)
      BY <2>2, <2>3 DEF Turn
    <2>5. k - 1 \in 0 .. L - 1
      BY <1>1
    <2>6. QED
      BY <2>4, <2>5
  <1>4. PICK i \in 0 .. L - 1 : UsersAssigned(x, Assignments(T, exits)) = Turn(i, T, L)
    BY <1>3
  <1>5. PICK j \in 0 .. L - 1 : UsersAssigned(y, Assignments(T, exits)) = Turn(j, T, L)
    BY <1>3
  <1> HIDE DEF L
  <1>6. Cardinality(Turn(i, T, L)) <= Cardinality(Turn(j, T, L)) + 1
    BY <1>1, TurnsAreEven
  <1>7. QED
    BY <1>4, <1>5, <1>6

\* An exit is taken out of a list that has it once.
LEMMA TakenOut ==
  ASSUME NEW list \in Seq(Exits), IsInjective(list), NEW x
  PROVE  /\ RemoveFirst(list, x) \in Seq(Exits)
         /\ IsInjective(RemoveFirst(list, x))
         /\ ToSet(RemoveFirst(list, x)) = ToSet(list) \ {x}
  <1> DEFINE I == {i \in 1 .. Len(list) : list[i] = x}
  <1>1. CASE I = {}
    <2>1. RemoveFirst(list, x) = list
      BY <1>1 DEF RemoveFirst
    <2>2. x \notin ToSet(list)
      BY <1>1 DEF ToSet
    <2>3. QED
      BY <2>1, <2>2
  <1>2. CASE I # {}
    <2>1. RemoveFirst(list, x) = RemoveAt(list, Min(I))
      BY <1>2 DEF RemoveFirst, SelectInSeq
    <2>2. Min(I) \in I
      <3>1. I \in SUBSET Nat
        OBVIOUS
      <3>2. \E m \in I : \A n \in I : m <= n
        BY <1>2, <3>1, SmallestOf
      <3>3. QED
        BY <3>2 DEF Min
    <2> DEFINE k == Min(I)
               left == SubSeq(list, 1, k - 1)
               right == SubSeq(list, k + 1, Len(list))
               rest == left \o right
    <2>3. k \in 1 .. Len(list) /\ list[k] = x
      BY <2>2
    <2> HIDE DEF k, I
    <2>4. /\ rest \in Seq(Exits) /\ Len(rest) = Len(list) - 1
          /\ \A i \in 1 .. Len(rest) : rest[i] = IF i < k THEN list[i] ELSE list[i + 1]
      <3>1. left \in Seq(Exits) /\ Len(left) = k - 1 /\ \A i \in 1 .. k - 1 : left[i] = list[i]
        BY <2>3
      <3>2. right \in Seq(Exits) /\ Len(right) = Len(list) - k
            /\ \A i \in 1 .. Len(list) - k : right[i] = list[i + k]
        BY <2>3
      <3>3. Len(list) \in Nat
        OBVIOUS
      <3> HIDE DEF left, right
      <3>4. rest \in Seq(Exits) /\ Len(rest) = Len(list) - 1
        <4>1. rest \in Seq(Exits)
          BY <3>1, <3>2
        <4>2. Len(rest) = Len(left) + Len(right)
          BY <3>1, <3>2
        <4>3. k \in Nat
          BY <2>3
        <4>4. QED
          BY ONLY <3>1, <3>2, <3>3, <4>1, <4>2, <4>3
      <3>5. ASSUME NEW i \in 1 .. Len(rest)
            PROVE  rest[i] = IF i < k THEN list[i] ELSE list[i + 1]
        <4>1. CASE i < k
          <5>1. rest[i] = left[i]
            BY <2>3, <3>1, <3>2, <3>3, <3>4, <4>1
          <5>2. QED
            BY <2>3, <3>1, <4>1, <5>1
        <4>2. CASE ~(i < k)
          <5>1. i - (k - 1) \in 1 .. Len(list) - k
            BY <2>3, <3>3, <3>4, <4>2
          <5>2. rest[i] = right[i - (k - 1)]
            BY <2>3, <3>1, <3>2, <3>3, <3>4, <4>2
          <5>3. right[i - (k - 1)] = list[i - (k - 1) + k]
            BY <3>2, <5>1
          <5>4. i - (k - 1) + k = i + 1
            BY <2>3
          <5>5. QED
            BY <4>2, <5>2, <5>3, <5>4
        <4>3. QED
          BY <4>1, <4>2
      <3>6. QED
        BY <3>4, <3>5
    <2>5. rest = RemoveFirst(list, x)
      BY <2>1 DEF RemoveAt, k
    <2> HIDE DEF rest
    <2>6. DOMAIN rest = 1 .. Len(list) - 1 /\ DOMAIN list = 1 .. Len(list) /\ Len(list) \in Nat
      BY <2>4
    <2>7. IsInjective(rest)
      <3> SUFFICES ASSUME NEW i \in DOMAIN rest, NEW j \in DOMAIN rest, rest[i] = rest[j]
                   PROVE  i = j
        BY DEF IsInjective
      <3> DEFINE At(n) == IF n < k THEN n ELSE n + 1
      <3>1. At(i) \in DOMAIN list /\ At(j) \in DOMAIN list
        BY <2>3, <2>6
      <3>2. list[At(i)] = list[At(j)]
        BY <2>4, <2>6
      <3>3. At(i) = At(j)
        BY <3>1, <3>2 DEF IsInjective
      <3>4. QED
        BY <2>3, <2>6, <3>3
    <2>8. ToSet(rest) = ToSet(list) \ {x}
      <3>1. ASSUME NEW z \in ToSet(rest) PROVE z \in ToSet(list) \ {x}
        <4>1. PICK i \in DOMAIN rest : z = rest[i]
          BY DEF ToSet
        <4> DEFINE n == IF i < k THEN i ELSE i + 1
        <4>2. n \in DOMAIN list /\ n # k /\ z = list[n]
          BY <2>3, <2>4, <2>6, <4>1
        <4> HIDE DEF n
        <4>3. z # x
          BY <2>3, <2>6, <4>2 DEF IsInjective
        <4>4. QED
          BY <4>2, <4>3 DEF ToSet
      <3>2. ASSUME NEW z \in ToSet(list) \ {x} PROVE z \in ToSet(rest)
        <4>1. PICK n \in DOMAIN list : z = list[n]
          BY DEF ToSet
        <4>2. n # k
          BY <2>3, <4>1
        <4> DEFINE i == IF n < k THEN n ELSE n - 1
        <4>3. i \in DOMAIN rest /\ n = IF i < k THEN i ELSE i + 1
          BY <2>3, <2>6, <4>2
        <4> HIDE DEF i
        <4>4. z = rest[i]
          BY <2>4, <2>6, <4>1, <4>3
        <4>5. QED
          BY <4>3, <4>4 DEF ToSet
      <3>3. QED
        BY <3>1, <3>2
    <2>9. QED
      BY <2>4, <2>5, <2>7, <2>8
  <1>3. QED
    BY <1>1, <1>2

\* The list is what the changes made of it, each exit once.
ListOK == exitList \in Seq(Exits) /\ IsInjective(exitList) /\ ToSet(exitList) = keptList

\* One change at a time is made, and the list it read is still the one there is.
Edit == [step : {"add", "remove"}, exit : Exits, read : Seq(Exits)]
EditorOK ==
    /\ editor \in [Editors -> {Resting} \cup Edit]
    /\ \A e \in Editors : editor[e] # Resting => editor[e].read = exitList
    /\ \A e, f \in Editors : editor[e] # Resting /\ editor[f] # Resting => e = f

\* What a balance goes by is what it read, and what it did still stands.
BalanceOK ==
    /\ DOMAIN exitOf \subseteq ExitAccounts
    /\ \/ balance = Resting
       \/ /\ balance.step \in {"targets", "assign", "done"}
          /\ balance.exits \in Seq(Exits) /\ IsInjective(balance.exits) /\ balance.exits # <<>>
    /\ balance.step = "assign" => balance.targets \in SUBSET ExitAccounts
    /\ balance.step = "done" =>
          /\ \E T \in SUBSET ExitAccounts : balance.assigned = Assignments(T, balance.exits)
          /\ \A a \in DOMAIN balance.assigned \cap DOMAIN exitOf : exitOf[a] = balance.assigned[a]

ExitsInv == ListOK /\ EditorOK /\ BalanceOK

LEMMA ExitsInvInit == ExitsInit => ExitsInv
  <1> SUFFICES ASSUME ExitsInit PROVE ExitsInv
    OBVIOUS
  <1>1. ListOK
    BY DEF ExitsInit, ListOK, IsInjective, ToSet
  <1>2. EditorOK
    BY DEF ExitsInit, EditorOK
  <1>3. BalanceOK
    BY DEF ExitsInit, BalanceOK, Resting
  <1>4. QED
    BY <1>1, <1>2, <1>3 DEF ExitsInv

LEMMA ExitsInvNext == ExitsInv /\ [ExitsNext]_exitVars => ExitsInv'
  <1> SUFFICES ASSUME ExitsInv, [ExitsNext]_exitVars PROVE ExitsInv'
    OBVIOUS
  <1> USE DEF ExitsInv
  <1>1. CASE ReadExits
    <2>1. PICK exits \in {exitList} \cup {<<x>> : x \in Exits} :
            exits # <<>> /\ balance' = [step |-> "targets", exits |-> exits]
      BY <1>1 DEF ReadExits
    <2>2. UNCHANGED <<exitList, editor, exitOf, keptList>>
      BY <1>1 DEF ReadExits
    <2>3. exits \in Seq(Exits) /\ IsInjective(exits)
      <3>1. ASSUME NEW x \in Exits PROVE <<x>> \in Seq(Exits) /\ IsInjective(<<x>>)
        BY DEF IsInjective
      <3>2. QED
        BY <2>1, <3>1 DEF ListOK
    <2>4. BalanceOK'
      BY <2>1, <2>2, <2>3 DEF BalanceOK
    <2>5. QED
      BY <2>2, <2>4 DEF ListOK, EditorOK
  <1>2. CASE ReadTargets
    <2>1. PICK wanted \in SUBSET DOMAIN exitOf :
            balance' = [step |-> "assign", exits |-> balance.exits, targets |-> wanted]
      BY <1>2 DEF ReadTargets
    <2>2. balance.step = "targets" /\ UNCHANGED <<exitList, editor, exitOf, keptList>>
      BY <1>2 DEF ReadTargets
    <2>3. balance # Resting
      BY <2>2 DEF Resting
    <2>4. BalanceOK'
      BY <2>1, <2>2, <2>3 DEF BalanceOK
    <2>5. QED
      BY <2>2, <2>4 DEF ListOK, EditorOK
  <1>3. CASE Assign
    <2> DEFINE assigned == Assignments(balance.targets, balance.exits)
               left == DOMAIN assigned \cap DOMAIN exitOf
    <2>1. /\ balance.step = "assign"
          /\ exitOf' = [a \in DOMAIN exitOf |-> IF a \in left THEN assigned[a] ELSE exitOf[a]]
          /\ balance' = IF left = {} THEN Resting
                        ELSE [step |-> "done", exits |-> balance.exits, assigned |-> assigned]
          /\ UNCHANGED <<exitList, editor, keptList>>
      BY <1>3 DEF Assign
    <2>2. balance # Resting
      BY <2>1 DEF Resting
    <2>3. balance.targets \in SUBSET ExitAccounts
      BY <2>1 DEF BalanceOK
    <2> HIDE DEF assigned
    <2>4. \E T \in SUBSET ExitAccounts : assigned = Assignments(T, balance.exits)
      BY <2>3 DEF assigned
    <2>5. /\ DOMAIN exitOf' = DOMAIN exitOf
          /\ \A a \in DOMAIN assigned \cap DOMAIN exitOf' : exitOf'[a] = assigned[a]
      BY <2>1
    <2>6. BalanceOK'
      <3>1. CASE balance' = Resting
        BY <2>5, <3>1 DEF BalanceOK, Resting
      <3>2. CASE balance' = [step |-> "done", exits |-> balance.exits, assigned |-> assigned]
        <4>1. balance'.step = "done" /\ balance'.exits = balance.exits /\ balance'.assigned = assigned
          BY <3>2
        <4>2. balance.exits \in Seq(Exits) /\ IsInjective(balance.exits) /\ balance.exits # <<>>
          BY <2>2 DEF BalanceOK
        <4>3. DOMAIN exitOf' \subseteq ExitAccounts
          BY <2>5 DEF BalanceOK
        <4>4. QED
          BY <2>4, <2>5, <4>1, <4>2, <4>3 DEF BalanceOK
      <3>3. QED
        BY <2>1, <3>1, <3>2
    <2>7. QED
      BY <2>1, <2>6 DEF ListOK, EditorOK
  <1>4. CASE SetExit
    <2>1. balance' = (IF balance.step = "done" THEN Resting ELSE balance)
          /\ UNCHANGED <<exitList, editor, keptList>>
      BY <1>4 DEF SetExit
    <2>2. DOMAIN exitOf' \subseteq DOMAIN exitOf
      BY <1>4 DEF SetExit
    <2>3. BalanceOK'
      BY <2>1, <2>2 DEF BalanceOK, Resting
    <2>4. QED
      BY <2>1, <2>3 DEF ListOK, EditorOK
  <1>5. ASSUME NEW e \in Editors, BeginsEdit(e) PROVE ExitsInv'
    <2>1. PICK x \in Exits, action \in {"add", "remove"} :
            editor' = [editor EXCEPT ![e] = [step |-> action, exit |-> x, read |-> exitList]]
      BY <1>5 DEF BeginsEdit
    <2>2. (\A f \in Editors : editor[f] = Resting) /\ UNCHANGED <<exitList, exitOf, balance, keptList>>
      BY <1>5 DEF BeginsEdit, Unlocked
    <2> DEFINE edit == [step |-> action, exit |-> x, read |-> exitList]
    <2>3. edit \in Edit /\ edit.read = exitList
      BY DEF Edit, ListOK
    <2> HIDE DEF edit
    <2>4. editor' = [editor EXCEPT ![e] = edit]
      BY <2>1 DEF edit
    <2>5. EditorOK'
      <3>1. editor' \in [Editors -> {Resting} \cup Edit]
        BY <2>3, <2>4 DEF EditorOK
      <3>2. \A f \in Editors : editor'[f] = IF f = e THEN edit ELSE Resting
        BY <2>2, <2>4 DEF EditorOK
      <3>3. QED
        BY <2>2, <2>3, <3>1, <3>2 DEF EditorOK
    <2>6. QED
      BY <2>2, <2>5 DEF ListOK, BalanceOK
  <1>6. ASSUME NEW e \in Editors, editor[e] # Resting, editor' = [editor EXCEPT ![e] = Resting]
        PROVE  EditorOK'
    <2>1. \A f \in Editors : editor'[f] = Resting
      BY <1>6 DEF EditorOK
    <2>2. editor' \in [Editors -> {Resting} \cup Edit]
      BY <1>6 DEF EditorOK
    <2>3. QED
      BY <2>1, <2>2 DEF EditorOK
  <1>7. ASSUME NEW e \in Editors, WritesList(e) PROVE ExitsInv'
    <2> DEFINE edit == editor[e]
    <2>1. /\ edit # Resting
          /\ editor' = [editor EXCEPT ![e] = Resting]
          /\ UNCHANGED <<exitOf, balance, exitEdits>>
          /\ \/ /\ edit.step = "add"
                /\ exitList' = IF edit.exit \in ToSet(edit.read) THEN edit.read
                               ELSE Append(edit.read, edit.exit)
                /\ keptList' = keptList \cup {edit.exit}
             \/ /\ edit.step = "remove"
                /\ exitList' = RemoveFirst(edit.read, edit.exit)
                /\ keptList' = keptList \ {edit.exit}
      BY <1>7 DEF WritesList
    <2>2. edit.read = exitList /\ edit.exit \in Exits
      BY <2>1 DEF EditorOK, Edit
    <2> DEFINE x == edit.exit
    <2> HIDE DEF edit
    <2>3. ListOK'
      <3>1. CASE edit.step = "add" /\ x \in ToSet(exitList)
        <4>1. exitList' = exitList /\ keptList' = keptList \cup {x}
          BY <2>1, <2>2, <3>1
        <4>2. QED
          BY <3>1, <4>1 DEF ListOK
      <3>2. CASE edit.step = "add" /\ x \notin ToSet(exitList)
        <4>1. exitList' = Append(exitList, x) /\ keptList' = keptList \cup {x}
          BY <2>1, <2>2, <3>2
        <4>2. x \in Exits /\ exitList \in Seq(Exits)
          BY <2>2 DEF ListOK
        <4> HIDE DEF x
        <4>3. /\ exitList' \in Seq(Exits) /\ DOMAIN exitList' = 1 .. Len(exitList) + 1
              /\ \A i \in DOMAIN exitList' :
                    exitList'[i] = IF i = Len(exitList) + 1 THEN x ELSE exitList[i]
              /\ DOMAIN exitList = 1 .. Len(exitList) /\ Len(exitList) \in Nat
          BY <4>1, <4>2
        <4>4. \A i \in DOMAIN exitList : exitList[i] # x
          BY <3>2 DEF ToSet
        <4>5. IsInjective(exitList')
          <5>1. IsInjective(exitList)
            BY DEF ListOK
          <5>2. QED
            BY ONLY <4>3, <4>4, <5>1 DEF IsInjective
        <4>6. ToSet(exitList') = ToSet(exitList) \cup {x}
          <5>1. ASSUME NEW z \in ToSet(exitList') PROVE z \in ToSet(exitList) \cup {x}
            BY <4>3 DEF ToSet
          <5>2. ASSUME NEW z \in ToSet(exitList) \cup {x} PROVE z \in ToSet(exitList')
            <6>1. CASE z = x
              BY <4>3, <6>1 DEF ToSet
            <6>2. CASE z \in ToSet(exitList)
              <7>1. PICK i \in DOMAIN exitList : exitList[i] = z
                BY <6>2 DEF ToSet
              <7>2. i \in DOMAIN exitList' /\ exitList'[i] = z
                BY <4>3, <7>1
              <7>3. QED
                BY <7>2 DEF ToSet
            <6>3. QED
              BY <6>1, <6>2
          <5>3. QED
            BY <5>1, <5>2
        <4>7. QED
          BY <4>1, <4>3, <4>5, <4>6 DEF ListOK
      <3>3. CASE edit.step = "remove"
        <4>1. exitList' = RemoveFirst(exitList, x) /\ keptList' = keptList \ {x}
          BY <2>1, <2>2, <3>3
        <4>2. QED
          BY <4>1, TakenOut DEF ListOK
      <3>4. QED
        BY <2>1, <3>1, <3>2, <3>3
    <2>4. EditorOK'
      BY <1>6, <2>1 DEF edit
    <2>5. BalanceOK'
      BY <2>1 DEF BalanceOK
    <2>6. QED
      BY <2>3, <2>4, <2>5
  <1>8. ASSUME NEW e \in Editors, ListUnwritten(e) PROVE ExitsInv'
    <2>1. editor[e] # Resting /\ editor' = [editor EXCEPT ![e] = Resting]
          /\ UNCHANGED <<exitList, exitOf, balance, keptList>>
      BY <1>8 DEF ListUnwritten
    <2>2. QED
      BY <1>6, <2>1 DEF ListOK, BalanceOK
  <1>9. CASE UNCHANGED exitVars
    BY <1>9 DEF exitVars, ListOK, EditorOK, BalanceOK
  <1>10. QED
    BY <1>1, <1>2, <1>3, <1>4, <1>5, <1>7, <1>8, <1>9 DEF ExitsNext

\* What a balance assigned is what it read, and so is even.
LEMMA ExitsInvAddsUp == ExitsInv => ExitsAddUp
  <1> SUFFICES ASSUME ExitsInv PROVE ExitsAddUp
    OBVIOUS
  <1>1. ASSUME balance.step = "done", NEW x \in ToSet(balance.exits), NEW y \in ToSet(balance.exits)
        PROVE  Cardinality(UsersOf(x)) <= Cardinality(UsersOf(y)) + 1
    <2>1. balance # Resting
      BY <1>1 DEF Resting
    <2>2. PICK T \in SUBSET ExitAccounts : balance.assigned = Assignments(T, balance.exits)
      BY <1>1 DEF ExitsInv, BalanceOK
    <2>3. balance.exits \in Seq(Exits) /\ IsInjective(balance.exits) /\ balance.exits # <<>>
      BY <2>1 DEF ExitsInv, BalanceOK
    <2>4. T \in SUBSET Nat /\ IsFiniteSet(T)
      BY ExitsAssumption, FS_Subset
    <2>5. UsersOf(x) = UsersAssigned(x, balance.assigned) /\ UsersOf(y) = UsersAssigned(y, balance.assigned)
      BY DEF UsersOf, UsersAssigned
    <2>6. QED
      BY <2>2, <2>3, <2>4, <2>5, AssignmentsAreEven
  <1>2. QED
    BY <1>1 DEF ExitsInv, ListOK, BalanceOK, ExitsAddUp

\* However many operators change the list at a time, it is what the changes made of
\* it, each exit once, and a balance spreads any accounts over any exits evenly
\* (store.go Add, Remove; egress_admin.go handleProxyBalance).
THEOREM TheExitsAddUp == ExitsSpec => []ExitsAddUp
  BY ExitsInvInit, ExitsInvNext, ExitsInvAddsUp, PTL DEF ExitsSpec

-----------------------------------------------------------------------------
(* CheckIn: days and minutes *)

Days == 0 .. DayOf(MaxInstant)
Instants == 0 .. MaxInstant

LEMMA DaysGoOn ==
  ASSUME NEW m \in Nat, NEW n \in Nat, m <= n
  PROVE  DayOf(m) \in Nat /\ DayOf(m) <= DayOf(n)
  BY WindowsAssumption DEF DayOf

LEMMA DaysOfInstants == \A m \in Instants : m \in Nat /\ DayOf(m) \in Days /\ DayOf(m) \in Nat
  BY DaysGoOn, WindowsAssumption DEF Instants, Days

\* A rule comes due on the day it is asked about.
LEMMA DueThatDay ==
  ASSUME NEW w \in Windows, NEW a \in Members, NEW day \in Days
  PROVE  DueAt(w, a, day) \in Nat /\ DayOf(DueAt(w, a, day)) = day
  <1> DEFINE span == w.end - w.start + 1
             r == w.start + (Draw[day][a] % span)
  <1>1. /\ DayLength \in Nat \ {0}
        /\ w.start \in 0 .. DayLength - 1 /\ w.end \in w.start .. DayLength - 1
    BY WindowsAssumption
  <1>2. Draw[day][a] \in Nat /\ day \in Nat
    BY WindowsAssumption, DaysOfInstants DEF Days, DayOf
  <1>3. Draw[day][a] % span \in 0 .. span - 1
    <2>1. span \in Nat \ {0}
      BY <1>1
    <2> HIDE DEF span
    <2>2. QED
      BY <1>2, <2>1
  <1>4. r \in 0 .. DayLength - 1
    BY <1>1, <1>3
  <1>5. DueAt(w, a, day) = day * DayLength + r
    BY <1>1, <1>2, <1>3, <1>4 DEF DueAt
  <1> HIDE DEF r
  <1>6. QED
    BY <1>1, <1>2, <1>4, <1>5 DEF DayOf

\* So does the rule of a member, on any day up to that of an instant.
LEMMA DueOfARule ==
  ASSUME NEW rules \in Plans, NEW a \in DOMAIN rules, NEW m \in Instants,
         NEW day \in 0 .. DayOf(m)
  PROVE  /\ a \in Members /\ rules[a] \in Windows /\ day \in Days /\ day \in Nat
         /\ DueAt(rules[a], a, day) \in Nat /\ DayOf(DueAt(rules[a], a, day)) = day
  <1>1. a \in Members /\ rules[a] \in Windows
    BY DEF Plans
  <1>2. /\ DayOf(m) \in Nat /\ DayOf(m) <= DayOf(MaxInstant) /\ DayOf(MaxInstant) \in Nat
    BY DaysGoOn, WindowsAssumption DEF Instants
  <1>3. day \in Days /\ day \in Nat
    BY <1>2 DEF Days
  <1>4. QED
    BY <1>1, <1>3, DueThatDay

-----------------------------------------------------------------------------
(* CheckIn: the invariant *)

Attempt == Members \X Nat

Outcomes == {"skipped", "failed", "unsupported", "already", "checkedIn"}
Rows == UNION {[S -> Outcomes] : S \in SUBSET Members}
BatchType == [step : {"none", "next", "status", "action"}, left : SUBSET Members,
              member : SUBSET Members, since : Days, rows : Rows, ok : BOOLEAN]
RunnerType == [step : {"rest", "read", "pool", "rules", "status", "action"},
               prev : Instants, now : Instants, left : Plans,
               pool : SUBSET Members, member : SUBSET Members]

CheckInTypeOK ==
    /\ instant \in Instants
    /\ plan \in Plans \cup {Broken} /\ auto \in BOOLEAN /\ usable \in SUBSET Members
    /\ runner \in RunnerType
    /\ batch \in BatchType
    /\ doneOn \in [Members -> Days \cup {-1}]
    /\ settledAt \in Instants /\ ticks \subseteq Instants
    /\ DOMAIN tried \subseteq Attempt

\* The round has looked at every minute up to prev, and is looking at those up
\* to now: both are instants it ticked at, or began again at.
RoundOK ==
    /\ runner.prev <= runner.now /\ runner.now <= instant /\ settledAt <= instant
    /\ runner.step = "rest" => runner.prev = runner.now
    /\ \A m \in ticks : m <= runner.now
    /\ \A m \in {runner.prev, runner.now} : m \in ticks \/ m <= settledAt

\* No attempt is ahead of the round, and a rule that was tried is behind it.
TriedOK ==
    /\ \A t \in DOMAIN tried : tried[t] = 1 /\ t[2] <= runner.now
    /\ runner.step \in {"rest", "read", "pool"} => \A t \in DOMAIN tried : t[2] <= runner.prev
    /\ \A t \in DOMAIN tried : t[2] > runner.prev => t[1] \notin DOMAIN runner.left

\* A rule that came due and was not tried was missed by the ticks of its day, or
\* is still before the round.
DueOK ==
    auto /\ plan # Broken =>
        \A a \in DOMAIN plan \cap usable, day \in 0 .. DayOf(runner.now) :
            LET due == DueAt(plan[a], a, day)
            IN  settledAt < due /\ due <= runner.now =>
                    \/ <<a, due>> \in DOMAIN tried
                    \/ MissedTheDay(due)
                    \/ /\ runner.prev < due /\ day = DayOf(runner.now)
                       /\ \/ runner.step = "read"
                          \/ /\ runner.step # "rest"
                             /\ a \in DOMAIN runner.left /\ runner.left[a] = plan[a]
                             /\ runner.step # "pool" => a \in runner.pool

BatchOK ==
    /\ batch.since <= Today
    /\ \A a \in Members : doneOn[a] <= Today
    /\ batch.ok => \A a \in DOMAIN batch.rows :
                       doneOn[a] >= batch.since \/ batch.rows[a] = "unsupported"

CheckInInv == CheckInTypeOK /\ RoundOK /\ TriedOK /\ DueOK /\ BatchOK

LEMMA NoPlan == <<>> \in Plans /\ DOMAIN <<>> = {} /\ <<>> \in Rows
  <1>1. /\ <<>> \in [{} -> Windows] /\ <<>> \in [{} -> Outcomes] /\ DOMAIN <<>> = {}
        /\ {} \in SUBSET Members
    OBVIOUS
  <1>2. QED
    BY <1>1 DEF Plans, Rows

LEMMA RestType == \A m \in Instants : AtRest(m) \in RunnerType
  BY NoPlan DEF AtRest, RunnerType

LEMMA CheckInInvInit == CheckInInit => CheckInInv
  <1> SUFFICES ASSUME CheckInInit PROVE CheckInInv
    OBVIOUS
  <1> USE DEF CheckInInit
  <1>1. 0 \in Instants /\ 0 \in Days /\ DayOf(0) \in Nat
    BY DaysOfInstants, WindowsAssumption DEF Instants, Days
  <1>2. runner \in RunnerType
    BY <1>1, RestType
  <1>3. batch \in BatchType
    BY <1>1, NoPlan DEF BatchType, NoBatch
  <1>4. DOMAIN tried = {}
    BY DEF EmptyBag, SetToBag
  <1>5. CheckInTypeOK
    BY <1>1, <1>2, <1>3, <1>4, NoPlan DEF CheckInTypeOK
  <1>6. RoundOK /\ TriedOK /\ DueOK
    <2>1. runner.prev = 0 /\ runner.now = 0 /\ settledAt = 0 /\ instant = 0 /\ plan = <<>>
          /\ ticks = {} /\ runner.step = "rest"
      BY DEF AtRest
    <2>2. RoundOK
      BY <2>1 DEF RoundOK
    <2>3. TriedOK /\ DueOK
      BY <1>4, <2>1, NoPlan DEF TriedOK, DueOK
    <2>4. QED
      BY <2>2, <2>3
  <1>7. BatchOK
    BY <1>1, NoPlan DEF BatchOK, NoBatch, Today
  <1>8. QED
    BY <1>5, <1>6, <1>7 DEF CheckInInv

-----------------------------------------------------------------------------
(* CheckIn: the runner *)

LEMMA TickInv == CheckInInv /\ Tick => CheckInInv'
  <1> SUFFICES ASSUME CheckInInv, Tick PROVE CheckInInv'
    OBVIOUS
  <1> USE DEF CheckInInv
  <1>1. /\ runner.step = "rest" /\ instant > runner.prev /\ ticks' = ticks \cup {instant}
        /\ UNCHANGED <<instant, plan, auto, usable, batch, doneOn, settledAt, tried>>
    BY DEF Tick
  <1>2. /\ runner \in RunnerType /\ instant \in Instants /\ instant \in Nat
        /\ runner.prev \in Nat /\ runner.prev \in Instants
    BY DaysOfInstants DEF CheckInTypeOK, RunnerType
  <1>3. \A m \in ticks' : m <= instant
    <2>1. runner.now \in Nat /\ runner.now <= instant /\ \A m \in ticks : m \in Nat /\ m <= runner.now
      BY <1>2, DaysOfInstants DEF CheckInTypeOK, RunnerType, RoundOK
    <2>2. QED
      BY <1>1, <1>2, <2>1
  <1>4. CASE ~auto
    <2>1. runner' = AtRest(instant)
      BY <1>4 DEF Tick
    <2>2. CheckInTypeOK'
      BY <1>1, <1>2, <2>1, RestType DEF CheckInTypeOK
    <2>3. RoundOK'
      BY <1>1, <1>2, <1>3, <2>1 DEF RoundOK, AtRest
    <2>4. \A t \in DOMAIN tried : tried[t] = 1 /\ t[2] <= instant
      BY <1>1, <1>2 DEF TriedOK, CheckInTypeOK, Attempt
    <2>5. TriedOK'
      BY <1>1, <2>1, <2>4, NoPlan DEF TriedOK, AtRest
    <2>6. DueOK' /\ BatchOK'
      BY <1>1, <1>4 DEF DueOK, BatchOK, Today
    <2>7. QED
      BY <2>2, <2>3, <2>5, <2>6
  <1>5. CASE auto
    <2>1. runner' = [runner EXCEPT !.step = "read", !.now = instant]
      BY <1>5 DEF Tick
    <2>2. /\ runner' \in RunnerType /\ runner'.step = "read" /\ runner'.now = instant
          /\ runner'.prev = runner.prev /\ runner'.left = runner.left
      BY <1>2, <2>1 DEF RunnerType
    <2>3. CheckInTypeOK'
      BY <1>1, <1>2, <2>2 DEF CheckInTypeOK
    <2>4. RoundOK'
      <3>1. runner.prev \in ticks' \/ runner.prev <= settledAt
        BY <1>1 DEF RoundOK
      <3>2. instant \in ticks'
        BY <1>1
      <3>3. QED
        BY <1>1, <1>2, <1>3, <2>2, <3>1, <3>2 DEF RoundOK
    <2>5. \A t \in DOMAIN tried : tried[t] = 1 /\ t[2] <= runner.prev /\ t[2] <= instant /\ t[2] \in Nat
      BY <1>1, <1>2 DEF TriedOK, CheckInTypeOK, Attempt
    <2>6. TriedOK'
      BY <1>1, <1>2, <2>2, <2>5 DEF TriedOK
    <2>7. DueOK'
      <3> SUFFICES ASSUME plan # Broken, NEW a \in DOMAIN plan \cap usable,
                          NEW day \in 0 .. DayOf(instant),
                          NEW due, due = DueAt(plan[a], a, day),
                          settledAt < due, due <= instant,
                          <<a, due>> \notin DOMAIN tried,
                          runner.prev < due => day # DayOf(instant)
                   PROVE  MissedTheDay(due)'
        BY <1>1, <2>2 DEF DueOK, MissedTheDay
      <3>1. day \in Nat /\ due \in Nat /\ DayOf(due) = day
        <4>1. plan \in Plans
          BY DEF CheckInTypeOK
        <4>2. QED
          BY <1>2, <4>1, DueOfARule
      <3>2. runner.now = runner.prev /\ settledAt \in Nat /\ \A m \in ticks : m \in Nat
        BY <1>1, DaysOfInstants DEF RoundOK, CheckInTypeOK
      <3>3. \A m \in ticks : m <= runner.prev
        BY <3>2 DEF RoundOK
      <3>4. CASE runner.prev < due
        BY <1>1, <1>2, <3>1, <3>2, <3>3, <3>4 DEF MissedTheDay
      <3>5. CASE due <= runner.prev
        <4>1. day <= DayOf(runner.prev) /\ DayOf(runner.prev) \in Nat /\ day \in Nat
          BY <1>2, <3>1, <3>5, DaysGoOn, DaysOfInstants
        <4>2. MissedTheDay(due)
          <5>1. day \in 0 .. DayOf(runner.now) /\ due <= runner.now /\ ~(runner.prev < due)
            BY <1>2, <3>1, <3>2, <3>5, <4>1
          <5>2. QED
            BY <1>5, <5>1 DEF DueOK
        <4>3. runner.prev \in ticks
          BY <1>2, <3>1, <3>2, <3>5 DEF RoundOK
        <4>4. DayOf(runner.prev) # day
          BY <1>2, <3>1, <3>5, <4>2, <4>3 DEF MissedTheDay
        <4>5. DayOf(runner.prev) <= DayOf(instant) /\ DayOf(instant) \in Nat
          BY <1>1, <1>2, DaysGoOn
        <4>6. DayOf(instant) # day
          BY <4>1, <4>4, <4>5
        <4>7. QED
          BY <1>1, <3>1, <4>2, <4>6 DEF MissedTheDay
      <3>6. QED
        BY <1>2, <3>1, <3>4, <3>5
    <2>8. BatchOK'
      BY <1>1 DEF BatchOK, Today
    <2>9. QED
      BY <2>3, <2>4, <2>6, <2>7, <2>8
  <1>6. QED
    BY <1>4, <1>5

\* After a round that could not read what it needs, nothing that came due is owed.
LEMMA IntervalLostInv ==
  ASSUME CheckInInv, runner.step \in {"read", "pool"}, IntervalLost,
         UNCHANGED <<instant, plan, auto, usable, batch, doneOn, ticks, tried>>
  PROVE  CheckInInv'
  <1> USE DEF CheckInInv
  <1>1. /\ runner' = AtRest(runner.now) /\ settledAt' \in {settledAt, runner.now}
        /\ settledAt \in Instants /\ runner.now \in Instants
        /\ settledAt \in Nat /\ runner.now \in Nat /\ runner.prev \in Nat
    BY DaysOfInstants DEF IntervalLost, CheckInTypeOK, RunnerType
  <1>2. runner.now <= settledAt' /\ settledAt' \in Nat
    BY <1>1 DEF IntervalLost
  <1>3. CheckInTypeOK'
    BY <1>1, RestType DEF CheckInTypeOK
  <1>4. RoundOK'
    BY <1>1, <1>2 DEF RoundOK, AtRest
  <1>5. \A t \in DOMAIN tried : tried[t] = 1 /\ t[2] <= runner.now
    BY DEF TriedOK
  <1>6. TriedOK'
    BY <1>1, <1>5, NoPlan DEF TriedOK, AtRest
  <1>7. DueOK'
    <2> SUFFICES ASSUME plan # Broken, NEW a \in DOMAIN plan \cap usable,
                        NEW day \in 0 .. DayOf(runner.now),
                        NEW due, due = DueAt(plan[a], a, day),
                        settledAt' < due, due <= runner.now
                 PROVE  FALSE
      BY <1>1 DEF DueOK, AtRest, MissedTheDay
    <2>1. due \in Nat
      <3>1. plan \in Plans
        BY DEF CheckInTypeOK
      <3>2. QED
        BY <1>1, <3>1, DueOfARule
    <2>2. QED
      BY <1>1, <1>2, <2>1
  <1>8. BatchOK'
    BY DEF BatchOK, Today
  <1>9. QED
    BY <1>3, <1>4, <1>6, <1>7, <1>8

LEMMA ReadRulesInv == CheckInInv /\ ReadRules => CheckInInv'
  <1> SUFFICES ASSUME CheckInInv, ReadRules PROVE CheckInInv'
    OBVIOUS
  <1> USE DEF CheckInInv
  <1>1. /\ runner.step = "read"
        /\ UNCHANGED <<instant, plan, auto, usable, batch, doneOn, ticks, tried>>
    BY DEF ReadRules
  <1>2. /\ runner \in RunnerType /\ runner.now \in Instants /\ runner.now \in Nat
        /\ runner.prev \in Nat
    BY DaysOfInstants DEF CheckInTypeOK, RunnerType
  <1>3. \A t \in DOMAIN tried : tried[t] = 1 /\ t[2] <= runner.prev /\ t[2] <= runner.now /\ t[2] \in Nat
    BY <1>1, <1>2 DEF TriedOK, CheckInTypeOK, Attempt
  <1>4. BatchOK'
    BY <1>1 DEF BatchOK, Today
  <1>5. CASE IntervalLost
    BY <1>1, <1>5, IntervalLostInv
  <1>6. CASE (plan = Broken \/ plan = <<>>) /\ ~IntervalLost
    <2>1. runner' = AtRest(runner.now) /\ settledAt' = settledAt
      BY <1>6 DEF ReadRules
    <2>2. CheckInTypeOK'
      BY <1>1, <1>2, <2>1, RestType DEF CheckInTypeOK
    <2>3. RoundOK'
      BY <1>1, <1>2, <2>1 DEF RoundOK, AtRest
    <2>4. TriedOK'
      BY <1>1, <1>3, <2>1, NoPlan DEF TriedOK, AtRest
    <2>5. DueOK'
      BY <1>1, <1>6, NoPlan DEF DueOK
    <2>6. QED
      BY <1>4, <2>2, <2>3, <2>4, <2>5
  <1>7. CASE ~(plan = Broken \/ plan = <<>>) /\ ~IntervalLost
    <2>1. /\ runner' = [runner EXCEPT !.step = "pool", !.left = plan] /\ plan \in Plans
          /\ settledAt' = settledAt
      BY <1>7 DEF ReadRules, CheckInTypeOK
    <2>2. /\ runner' \in RunnerType /\ runner'.step = "pool" /\ runner'.now = runner.now
          /\ runner'.prev = runner.prev /\ runner'.left = plan
      BY <1>2, <2>1 DEF RunnerType
    <2>3. CheckInTypeOK'
      BY <1>1, <2>1, <2>2 DEF CheckInTypeOK
    <2>4. RoundOK'
      BY <1>1, <2>1, <2>2 DEF RoundOK
    <2>5. TriedOK'
      BY <1>1, <1>2, <1>3, <2>2 DEF TriedOK
    <2>6. DueOK'
      BY <1>1, <2>1, <2>2 DEF DueOK, MissedTheDay
    <2>7. QED
      BY <1>4, <2>3, <2>4, <2>5, <2>6
  <1>8. QED
    BY <1>5, <1>6, <1>7

LEMMA ReadMembersInv == CheckInInv /\ ReadMembers => CheckInInv'
  <1> SUFFICES ASSUME CheckInInv, ReadMembers PROVE CheckInInv'
    OBVIOUS
  <1> USE DEF CheckInInv
  <1>1. /\ runner.step = "pool"
        /\ UNCHANGED <<instant, plan, auto, usable, batch, doneOn, ticks, tried>>
    BY DEF ReadMembers
  <1>2. CASE IntervalLost
    BY <1>1, <1>2, IntervalLostInv
  <1>3. CASE ~IntervalLost
    <2>1. runner' = [runner EXCEPT !.step = "rules", !.pool = usable] /\ settledAt' = settledAt
      BY <1>3 DEF ReadMembers
    <2>2. runner \in RunnerType /\ usable \in SUBSET Members
      BY DEF CheckInTypeOK
    <2>3. /\ runner' \in RunnerType /\ runner'.step = "rules" /\ runner'.now = runner.now
          /\ runner'.prev = runner.prev /\ runner'.left = runner.left /\ runner'.pool = usable
      BY <2>1, <2>2 DEF RunnerType
    <2>4. CheckInTypeOK' /\ RoundOK' /\ BatchOK'
      BY <1>1, <2>1, <2>3 DEF CheckInTypeOK, RoundOK, BatchOK, Today
    <2>5. TriedOK'
      BY <1>1, <2>3 DEF TriedOK
    <2>6. DueOK'
      BY <1>1, <2>1, <2>3 DEF DueOK, MissedTheDay
    <2>7. QED
      BY <2>4, <2>5, <2>6
  <1>4. QED
    BY <1>2, <1>3

LEMMA RoundEndsInv == CheckInInv /\ RoundEnds => CheckInInv'
  <1> SUFFICES ASSUME CheckInInv, RoundEnds PROVE CheckInInv'
    OBVIOUS
  <1> USE DEF CheckInInv
  <1>1. /\ runner.step = "rules" /\ Ready = {} /\ runner' = AtRest(runner.now)
        /\ UNCHANGED <<instant, plan, auto, usable, batch, doneOn, settledAt, ticks, tried>>
    BY DEF RoundEnds
  <1>2. /\ runner \in RunnerType /\ runner.now \in Instants
    BY DEF CheckInTypeOK, RunnerType
  <1>3. CheckInTypeOK'
    BY <1>1, <1>2, RestType DEF CheckInTypeOK
  <1>4. RoundOK' /\ BatchOK'
    BY <1>1, <1>2, DaysOfInstants DEF RoundOK, BatchOK, Today, AtRest
  <1>5. TriedOK'
    BY <1>1, NoPlan DEF TriedOK, AtRest
  <1>6. DueOK'
    <2> SUFFICES ASSUME auto, plan # Broken, NEW a \in DOMAIN plan \cap usable,
                        NEW day \in 0 .. DayOf(runner.now),
                        NEW due, due = DueAt(plan[a], a, day),
                        settledAt < due, due <= runner.now
                 PROVE  <<a, due>> \in DOMAIN tried \/ MissedTheDay(due)
      BY <1>1 DEF DueOK, AtRest, MissedTheDay
    <2>1. CASE /\ runner.prev < due /\ day = DayOf(runner.now) /\ a \in DOMAIN runner.left
               /\ runner.left[a] = plan[a] /\ a \in runner.pool
      <3>1. a \in Ready
        BY <2>1 DEF Ready, ComesDue
      <3>2. QED
        BY <1>1, <3>1
    <2>2. QED
      BY <1>1, <2>1 DEF DueOK
  <1>7. QED
    BY <1>3, <1>4, <1>5, <1>6

LEMMA TryRuleInv == ASSUME CheckInInv, NEW member \in Members, TryRule(member) PROVE CheckInInv'
  <1> USE DEF CheckInInv
  <1> DEFINE at == DueAt(runner.left[member], member, DayOf(runner.now))
             left == Rest({member})
  <1>1. /\ runner.step = "rules" /\ member \in Ready
        /\ runner' = [runner EXCEPT !.step = "status", !.member = {member}, !.left = left]
        /\ tried' = tried (+) SetToBag({<<member, at>>})
        /\ UNCHANGED <<instant, plan, auto, usable, batch, doneOn, settledAt, ticks>>
    BY DEF TryRule
  <1>2. /\ runner \in RunnerType /\ runner.now \in Instants /\ runner.left \in Plans
        /\ runner.prev \in Nat /\ runner.now \in Nat
    BY DaysOfInstants DEF CheckInTypeOK, RunnerType
  <1>3. /\ member \in DOMAIN runner.left /\ runner.prev < at /\ at <= runner.now
    BY <1>1 DEF Ready, ComesDue
  <1>4. at \in Nat
    <2>1. runner.left[member] \in Windows
      BY <1>2, <1>3 DEF Plans
    <2>2. QED
      BY <1>2, <2>1, DueThatDay, DaysOfInstants
  <1>5. /\ left \in Plans /\ DOMAIN left = DOMAIN runner.left \ {member}
        /\ \A a \in DOMAIN left : left[a] = runner.left[a]
    <2>1. PICK S \in SUBSET Members : runner.left \in [S -> Windows]
      BY <1>2 DEF Plans
    <2>2. left \in [S \ {member} -> Windows] /\ S \ {member} \in SUBSET Members
      BY <2>1 DEF Rest
    <2>3. left \in Plans
      BY <2>2 DEF Plans
    <2>4. QED
      BY <2>1, <2>3 DEF Rest
  <1> HIDE DEF left
  <1>6. /\ runner' \in RunnerType /\ runner'.step = "status" /\ runner'.now = runner.now
        /\ runner'.prev = runner.prev /\ runner'.left = left /\ runner'.pool = runner.pool
    BY <1>1, <1>2, <1>5 DEF RunnerType
  <1>7. <<member, at>> \notin DOMAIN tried
    BY <1>3, <1>4 DEF TriedOK
  <1>8. /\ DOMAIN tried' = DOMAIN tried \cup {<<member, at>>}
        /\ \A t \in DOMAIN tried' : tried'[t] = 1
    <2>1. \A t \in DOMAIN tried : tried[t] = 1
      BY DEF TriedOK
    <2> HIDE DEF at
    <2>2. QED
      BY <1>1, <1>7, <2>1 DEF SetToBag, (+)
  <1>9. CheckInTypeOK'
    <2>1. DOMAIN tried' \subseteq Attempt
      BY <1>4, <1>8 DEF CheckInTypeOK, Attempt
    <2>2. QED
      BY <1>1, <1>6, <2>1 DEF CheckInTypeOK
  <1>10. RoundOK' /\ BatchOK'
    BY <1>1, <1>6 DEF RoundOK, BatchOK, Today
  <1> HIDE DEF at
  <1>11. TriedOK'
    <2>1. \A t \in DOMAIN tried' : t[2] <= runner.now
      BY <1>3, <1>8 DEF TriedOK
    <2>2. \A t \in DOMAIN tried' : t[2] > runner.prev => t[1] \notin DOMAIN left
      BY <1>5, <1>8 DEF TriedOK
    <2>3. QED
      BY <1>6, <1>8, <2>1, <2>2 DEF TriedOK
  <1>12. DueOK'
    <2> SUFFICES ASSUME auto, plan # Broken, NEW a \in DOMAIN plan \cap usable,
                        NEW day \in 0 .. DayOf(runner.now),
                        NEW due, due = DueAt(plan[a], a, day),
                        settledAt < due, due <= runner.now,
                        <<a, due>> \notin DOMAIN tried', ~MissedTheDay(due)
                 PROVE  /\ runner.prev < due /\ day = DayOf(runner.now)
                        /\ a \in DOMAIN left /\ left[a] = plan[a] /\ a \in runner.pool
      BY <1>1, <1>6 DEF DueOK, MissedTheDay
    <2>1. /\ runner.prev < due /\ day = DayOf(runner.now) /\ a \in DOMAIN runner.left
          /\ runner.left[a] = plan[a] /\ a \in runner.pool
      BY <1>1, <1>8 DEF DueOK
    <2>2. a # member
      BY <1>8, <2>1 DEF at
    <2>3. QED
      BY <1>5, <2>1, <2>2
  <1>13. QED
    BY <1>9, <1>10, <1>11, <1>12

\* What an attempt leaves upstream.
LEMMA DoneToday ==
  ASSUME CheckInTypeOK, BatchOK, NEW member \in Members, NEW answer,
         doneOn' = AfterAction(member, answer), UNCHANGED instant
  PROVE  /\ doneOn' \in [Members -> Days \cup {-1}]
         /\ \A a \in Members : doneOn[a] <= doneOn'[a] /\ doneOn'[a] <= Today
         /\ answer \in {"checkedIn", "lost"} => doneOn'[member] = Today
  <1>1. /\ doneOn \in [Members -> Days \cup {-1}] /\ Today \in Days /\ Today \in Nat
        /\ \A a \in Members : doneOn[a] <= Today /\ doneOn[a] \in Int
    BY DaysOfInstants DEF CheckInTypeOK, BatchOK, Today, Days
  <1>2. QED
    BY <1>1 DEF AfterAction

LEMMA RunnerAnswerInv ==
  ASSUME CheckInInv, NEW member \in Members, RunnerAnswer(member)
  PROVE  CheckInInv'
  <1> USE DEF CheckInInv
  <1>1. /\ runner.step \in {"status", "action"}
        /\ \E answer : doneOn' \in {doneOn, AfterAction(member, answer)}
        /\ \E step \in {"action", "rules"}, who \in {runner.member, {}} :
              runner' = [runner EXCEPT !.step = step, !.member = who]
        /\ UNCHANGED <<instant, plan, auto, usable, batch, settledAt, ticks, tried>>
    BY DEF RunnerAnswer
  <1>2. runner \in RunnerType
    BY DEF CheckInTypeOK
  <1>3. /\ runner' \in RunnerType /\ runner'.step \in {"action", "rules"} /\ runner'.now = runner.now
        /\ runner'.prev = runner.prev /\ runner'.left = runner.left /\ runner'.pool = runner.pool
    <2> PICK step \in {"action", "rules"}, who \in {runner.member, {}} :
          runner' = [runner EXCEPT !.step = step, !.member = who]
      BY <1>1
    <2>1. who \in SUBSET Members
      BY <1>2 DEF RunnerType
    <2>2. QED
      BY <1>2, <2>1 DEF RunnerType
  <1>4. /\ doneOn' \in [Members -> Days \cup {-1}]
        /\ \A a \in Members : doneOn[a] <= doneOn'[a] /\ doneOn'[a] <= Today
    <2>1. CASE doneOn' = doneOn
      BY <2>1 DEF CheckInTypeOK, BatchOK, Days, DayOf
    <2>2. ASSUME NEW answer, doneOn' = AfterAction(member, answer)
          PROVE  /\ doneOn' \in [Members -> Days \cup {-1}]
                 /\ \A a \in Members : doneOn[a] <= doneOn'[a] /\ doneOn'[a] <= Today
      BY <1>1, <2>2, DoneToday
    <2>3. QED
      BY <1>1, <2>1, <2>2
  <1>5. CheckInTypeOK'
    BY <1>1, <1>3, <1>4 DEF CheckInTypeOK
  <1>6. BatchOK'
    <2>1. batch.since \in Int /\ \A a \in Members : doneOn[a] \in Int /\ doneOn'[a] \in Int
      BY <1>4, DaysOfInstants DEF CheckInTypeOK, BatchType, Days
    <2>2. \A a \in DOMAIN batch.rows : a \in Members
      BY DEF CheckInTypeOK, BatchType, Rows
    <2>3. QED
      BY <1>1, <1>4, <2>1, <2>2 DEF BatchOK, Today
  <1>7. RoundOK' /\ TriedOK'
    BY <1>1, <1>3 DEF RoundOK, TriedOK
  <1>8. DueOK'
    BY <1>1, <1>3 DEF DueOK, MissedTheDay
  <1>9. QED
    BY <1>5, <1>6, <1>7, <1>8

-----------------------------------------------------------------------------
(* CheckIn: the batch *)

\* A step of the batch leaves the round alone.
LEMMA BatchSteps ==
  ASSUME CheckInInv, UNCHANGED <<instant, plan, auto, usable, runner, settledAt, ticks, tried>>,
         batch' \in BatchType, doneOn' \in [Members -> Days \cup {-1}], BatchOK'
  PROVE  CheckInInv'
  <1>1. CheckInTypeOK'
    BY DEF CheckInInv, CheckInTypeOK
  <1>2. RoundOK' /\ TriedOK' /\ DueOK'
    BY DEF CheckInInv, RoundOK, TriedOK, DueOK, MissedTheDay
  <1>3. QED
    BY <1>1, <1>2 DEF CheckInInv

LEMMA BatchBeginsInv == CheckInInv /\ BatchBegins => CheckInInv'
  <1> SUFFICES ASSUME CheckInInv, BatchBegins PROVE CheckInInv'
    OBVIOUS
  <1> USE DEF CheckInInv
  <1>1. /\ batch' = [NoBatch EXCEPT !.step = "next", !.left = usable, !.since = Today]
        /\ UNCHANGED <<instant, plan, auto, usable, runner, doneOn, settledAt, ticks, tried>>
    BY DEF BatchBegins
  <1>2. Today \in Days /\ Today \in Nat /\ usable \in SUBSET Members
    BY DaysOfInstants DEF CheckInTypeOK, Today
  <1>3. batch' \in BatchType /\ batch'.since = Today /\ DOMAIN batch'.rows = {}
    BY <1>1, <1>2, NoPlan DEF NoBatch, BatchType
  <1>4. BatchOK'
    BY <1>1, <1>2, <1>3 DEF BatchOK, Today
  <1>5. QED
    BY <1>1, <1>3, <1>4, BatchSteps DEF CheckInTypeOK

LEMMA RowAdded ==
  ASSUME CheckInTypeOK, NEW member \in Members, NEW outcome \in Outcomes
  PROVE  LET b == AddRow(batch, member, outcome)
         IN  /\ b \in BatchType /\ b.since = batch.since
             /\ DOMAIN b.rows = DOMAIN batch.rows \cup {member}
             /\ b.rows[member] = outcome
             /\ \A a \in DOMAIN batch.rows \ {member} : b.rows[a] = batch.rows[a]
             /\ b.ok = (batch.ok /\ outcome # "failed")
  <1> DEFINE rows == [a \in DOMAIN batch.rows \cup {member} |->
                         IF a = member THEN outcome ELSE batch.rows[a]]
             ok == batch.ok /\ outcome # "failed"
             b == AddRow(batch, member, outcome)
  <1>1. batch \in BatchType
    BY DEF CheckInTypeOK
  <1>2. rows \in Rows
    <2>1. PICK S \in SUBSET Members : batch.rows \in [S -> Outcomes]
      BY <1>1 DEF BatchType, Rows
    <2>2. rows \in [S \cup {member} -> Outcomes] /\ S \cup {member} \in SUBSET Members
      BY <2>1
    <2>3. QED
      BY <2>2 DEF Rows
  <1>3. ok \in BOOLEAN
    OBVIOUS
  <1>4. b = [batch EXCEPT !.step = "next", !.member = {}, !.left = @ \ {member},
                          !.rows = rows, !.ok = ok]
    BY DEF AddRow
  <1>5. /\ DOMAIN rows = DOMAIN batch.rows \cup {member} /\ rows[member] = outcome
        /\ \A a \in DOMAIN batch.rows \ {member} : rows[a] = batch.rows[a]
    OBVIOUS
  <1> HIDE DEF rows, ok, b
  <1>6. b \in BatchType /\ b.since = batch.since /\ b.rows = rows /\ b.ok = ok
    BY <1>1, <1>2, <1>3, <1>4 DEF BatchType
  <1>7. QED
    BY <1>5, <1>6 DEF b, ok

LEMMA BatchNextInv ==
  ASSUME CheckInInv, NEW member \in Members, BatchNext(member)
  PROVE  CheckInInv'
  <1> USE DEF CheckInInv
  <1>1. /\ \/ batch' = [batch EXCEPT !.step = "status", !.member = {member}]
           \/ batch' = AddUnattempted(batch, member)
        /\ UNCHANGED <<instant, plan, auto, usable, runner, doneOn, settledAt, ticks, tried>>
    BY DEF BatchNext
  <1>2. batch \in BatchType /\ doneOn \in [Members -> Days \cup {-1}]
    BY DEF CheckInTypeOK
  <1>3. CASE batch' = [batch EXCEPT !.step = "status", !.member = {member}]
    <2>1. batch' \in BatchType /\ batch'.since = batch.since /\ batch'.rows = batch.rows
          /\ batch'.ok = batch.ok
      BY <1>2, <1>3 DEF BatchType
    <2>2. BatchOK'
      BY <1>1, <2>1 DEF BatchOK, Today
    <2>3. QED
      BY <1>1, <1>2, <2>1, <2>2, BatchSteps
  <1>4. CASE batch' = AddUnattempted(batch, member)
    <2> DEFINE b == AddRow(batch, member, "skipped")
    <2>1. b \in BatchType /\ b.since = batch.since
      BY RowAdded DEF Outcomes
    <2>2. batch' = [b EXCEPT !.ok = FALSE]
      BY <1>4 DEF AddUnattempted
    <2> HIDE DEF b
    <2>3. batch' \in BatchType /\ batch'.since = batch.since /\ ~batch'.ok
      BY <2>1, <2>2 DEF BatchType
    <2>4. BatchOK'
      BY <1>1, <2>3 DEF BatchOK, Today
    <2>5. QED
      BY <1>1, <1>2, <2>3, <2>4, BatchSteps
  <1>5. QED
    BY <1>1, <1>3, <1>4

LEMMA BatchAnswerInv ==
  ASSUME CheckInInv, NEW member \in Members, BatchAnswer(member)
  PROVE  CheckInInv'
  <1> USE DEF CheckInInv
  <1>1. UNCHANGED <<instant, plan, auto, usable, runner, settledAt, ticks, tried>>
    BY DEF BatchAnswer
  <1>2. /\ batch \in BatchType /\ doneOn \in [Members -> Days \cup {-1}]
        /\ batch.since \in Int /\ Today \in Int /\ batch.since <= Today /\ Today' = Today
        /\ \A a \in Members : doneOn[a] \in Int
        /\ \A a \in DOMAIN batch.rows : a \in Members
    BY <1>1, DaysOfInstants DEF CheckInTypeOK, BatchOK, BatchType, Rows, Today, Days
  <1>3. CASE doneOn' = doneOn /\ batch' = [batch EXCEPT !.step = "action"]
    <2>1. batch' \in BatchType /\ batch'.since = batch.since /\ batch'.rows = batch.rows
          /\ batch'.ok = batch.ok
      BY <1>2, <1>3 DEF BatchType
    <2>2. BatchOK'
      BY <1>2, <1>3, <2>1 DEF BatchOK
    <2>3. QED
      BY <1>1, <1>2, <1>3, <2>1, <2>2, BatchSteps
  <1>4. ASSUME NEW outcome \in Outcomes \ {"skipped"}, batch' = AddRow(batch, member, outcome),
               doneOn' \in [Members -> Days \cup {-1}],
               \A a \in Members : doneOn[a] <= doneOn'[a] /\ doneOn'[a] <= Today,
               outcome \in {"already", "checkedIn"} => doneOn'[member] = Today
        PROVE  CheckInInv'
    <2>1. /\ batch' \in BatchType /\ batch'.since = batch.since
          /\ DOMAIN batch'.rows = DOMAIN batch.rows \cup {member}
          /\ batch'.rows[member] = outcome
          /\ \A a \in DOMAIN batch.rows \ {member} : batch'.rows[a] = batch.rows[a]
          /\ batch'.ok = (batch.ok /\ outcome # "failed")
      BY <1>4, RowAdded
    <2>2. \A a \in Members : doneOn'[a] \in Int
      BY <1>4, DaysOfInstants DEF Days
    <2>3. ASSUME batch'.ok, NEW a \in DOMAIN batch'.rows
          PROVE  doneOn'[a] >= batch.since \/ batch'.rows[a] = "unsupported"
      <3>1. CASE a = member
        BY <1>2, <1>4, <2>1, <2>3, <3>1 DEF Outcomes
      <3>2. CASE a # member
        <4>1. a \in DOMAIN batch.rows /\ a \in Members /\ batch'.rows[a] = batch.rows[a]
          BY <1>2, <2>1, <2>3, <3>2
        <4>2. doneOn[a] >= batch.since \/ batch.rows[a] = "unsupported"
          BY <2>1, <2>3, <4>1 DEF BatchOK
        <4>3. QED
          BY <1>2, <1>4, <2>2, <4>1, <4>2
      <3>3. QED
        BY <3>1, <3>2
    <2>4. BatchOK'
      BY <1>2, <1>4, <2>1, <2>3 DEF BatchOK
    <2>5. QED
      BY <1>1, <1>4, <2>1, <2>4, BatchSteps
  <1>5. CASE batch.step = "status"
    <2>1. PICK answer \in StatusAnswers(member) :
             /\ batch' = IF answer = "open" THEN [batch EXCEPT !.step = "action"]
                         ELSE AddRow(batch, member, answer)
             /\ doneOn' = doneOn
      BY <1>5 DEF BatchAnswer
    <2>2. CASE answer = "open"
      BY <1>3, <2>1, <2>2
    <2>3. CASE answer # "open"
      <3>1. answer \in Outcomes \ {"skipped"} /\ (answer = "already" => doneOn[member] = Today)
            /\ answer # "checkedIn"
        BY <2>1, <2>3 DEF StatusAnswers, Outcomes
      <3>2. \A a \in Members : doneOn[a] <= doneOn'[a] /\ doneOn'[a] <= Today
        BY <1>2, <2>1 DEF BatchOK
      <3>3. QED
        BY <1>2, <1>4, <2>1, <2>3, <3>1, <3>2
    <2>4. QED
      BY <2>2, <2>3
  <1>6. CASE batch.step = "action"
    <2>1. PICK answer \in ActionAnswers(member) :
             /\ doneOn' = AfterAction(member, answer)
             /\ batch' = AddRow(batch, member, Reported(answer))
      BY <1>6 DEF BatchAnswer
    <2>2. /\ doneOn' \in [Members -> Days \cup {-1}]
          /\ \A a \in Members : doneOn[a] <= doneOn'[a] /\ doneOn'[a] <= Today
          /\ answer \in {"checkedIn", "lost"} => doneOn'[member] = Today
      BY <1>1, <2>1, DoneToday
    <2>3. /\ Reported(answer) \in Outcomes \ {"skipped"}
          /\ Reported(answer) = "checkedIn" => answer = "checkedIn"
          /\ Reported(answer) = "already" => answer = "already" /\ doneOn[member] = Today
      BY <2>1 DEF ActionAnswers, Reported, Outcomes
    <2>4. Reported(answer) = "already" => doneOn' = doneOn
      BY <2>1, <2>3 DEF AfterAction
    <2>5. Reported(answer) \in {"already", "checkedIn"} => doneOn'[member] = Today
      BY <2>2, <2>3, <2>4
    <2>6. QED
      BY <1>4, <2>1, <2>2, <2>3, <2>5
  <1>7. QED
    BY <1>5, <1>6 DEF BatchAnswer

-----------------------------------------------------------------------------
(* CheckIn: the world, and the theorems *)

LEMMA TimePassesInv == CheckInInv /\ TimePasses => CheckInInv'
  <1> SUFFICES ASSUME CheckInInv, TimePasses PROVE CheckInInv'
    OBVIOUS
  <1> USE DEF CheckInInv
  <1>1. /\ instant < MaxInstant /\ instant' = instant + 1
        /\ UNCHANGED <<plan, auto, usable, runner, batch, doneOn, settledAt, ticks, tried>>
    BY DEF TimePasses
  <1>2. instant \in Nat /\ instant' \in Instants
    BY <1>1, WindowsAssumption DEF CheckInTypeOK, Instants
  <1>3. Today <= Today' /\ Today \in Int /\ Today' \in Int
    BY <1>1, <1>2, DaysGoOn, DaysOfInstants DEF Today
  <1>4. CheckInTypeOK' /\ TriedOK' /\ DueOK'
    BY <1>1, <1>2 DEF CheckInTypeOK, TriedOK, DueOK, MissedTheDay
  <1>5. RoundOK'
    <2>1. runner.now \in Nat /\ settledAt \in Nat
      BY DaysOfInstants DEF CheckInTypeOK, RunnerType
    <2>2. QED
      BY <1>1, <1>2, <2>1 DEF RoundOK
  <1>6. BatchOK'
    <2>1. batch.since \in Int /\ \A a \in Members : doneOn[a] \in Int
      BY DaysOfInstants DEF CheckInTypeOK, BatchType, Days
    <2>2. QED
      BY <1>1, <1>3, <2>1 DEF BatchOK
  <1>7. QED
    BY <1>4, <1>5, <1>6

\* After a change the runner owes nothing that came due before it.
LEMMA ChangeInv ==
  ASSUME CheckInInv, settledAt' = instant, CheckInTypeOK',
         UNCHANGED <<instant, runner, batch, doneOn, ticks, tried>>
  PROVE  CheckInInv'
  <1> USE DEF CheckInInv
  <1>1. /\ runner.now \in Nat /\ instant \in Nat /\ runner.now <= instant
        /\ runner.now \in Instants
    BY DaysOfInstants DEF CheckInTypeOK, RunnerType, RoundOK
  <1>2. DueOK'
    <2> SUFFICES ASSUME plan' # Broken, NEW a \in DOMAIN plan' \cap usable',
                        NEW day \in 0 .. DayOf(runner.now),
                        NEW due, due = DueAt(plan'[a], a, day),
                        instant < due, due <= runner.now
                 PROVE  FALSE
      BY DEF DueOK
    <2>1. plan' \in Plans
      BY DEF CheckInTypeOK
    <2>2. due \in Nat
      BY <1>1, <2>1, DueOfARule
    <2>3. QED
      BY <1>1, <2>2
  <1>3. RoundOK'
    <2>1. runner.prev \in Nat
      BY DaysOfInstants DEF CheckInTypeOK, RunnerType
    <2>2. runner.prev <= instant
      BY <1>1, <2>1 DEF RoundOK
    <2>3. QED
      BY <1>1, <2>1, <2>2 DEF RoundOK
  <1>4. TriedOK' /\ BatchOK'
    BY DEF TriedOK, BatchOK, Today
  <1>5. QED
    BY <1>2, <1>3, <1>4

LEMMA RestartInv == CheckInInv /\ ProcessRestarts => CheckInInv'
  <1> SUFFICES ASSUME CheckInInv, ProcessRestarts PROVE CheckInInv'
    OBVIOUS
  <1> USE DEF CheckInInv
  <1>1. /\ runner' = AtRest(instant) /\ batch' = NoBatch /\ settledAt' = instant
        /\ UNCHANGED <<instant, plan, auto, usable, doneOn, ticks, tried>>
    BY DEF ProcessRestarts
  <1>2. /\ instant \in Instants /\ instant \in Nat
        /\ runner.now \in Nat /\ runner.now <= instant
        /\ 0 \in Days /\ Today \in Nat
    <2>1. /\ instant \in Instants /\ runner.now \in Instants /\ runner.now <= instant
      BY DEF CheckInTypeOK, RunnerType, RoundOK
    <2>2. DayOf(MaxInstant) \in Nat
      BY WindowsAssumption, DaysOfInstants DEF Instants
    <2>3. QED
      BY <2>1, <2>2, DaysOfInstants DEF Today, Days
  <1>3. batch' \in BatchType
    BY <1>1, <1>2, NoPlan DEF NoBatch, BatchType
  <1>4. CheckInTypeOK'
    BY <1>1, <1>2, <1>3, RestType DEF CheckInTypeOK
  <1>5. RoundOK'
    <2>1. \A m \in ticks : m <= instant
      BY <1>2, DaysOfInstants DEF CheckInTypeOK, RoundOK
    <2>2. QED
      BY <1>1, <1>2, <2>1 DEF RoundOK, AtRest
  <1>6. TriedOK'
    <2>1. \A t \in DOMAIN tried : tried[t] = 1 /\ t[2] <= instant
      BY <1>2 DEF TriedOK, CheckInTypeOK, Attempt
    <2>2. QED
      BY <1>1, <2>1, NoPlan DEF TriedOK, AtRest
  <1>7. DueOK'
    <2> SUFFICES ASSUME plan # Broken, NEW a \in DOMAIN plan \cap usable,
                        NEW day \in 0 .. DayOf(instant),
                        NEW due, due = DueAt(plan[a], a, day),
                        instant < due, due <= instant
                 PROVE  FALSE
      BY <1>1 DEF DueOK, AtRest
    <2>1. plan \in Plans
      BY DEF CheckInTypeOK
    <2>2. due \in Nat
      BY <1>2, <2>1, DueOfARule
    <2>3. QED
      BY <1>2, <2>2
  <1>8. BatchOK'
    BY <1>1, <1>2, NoPlan DEF BatchOK, NoBatch, Today
  <1>9. QED
    BY <1>4, <1>5, <1>6, <1>7, <1>8

LEMMA CheckInInvNext == CheckInInv /\ [CheckInNext]_checkInVars => CheckInInv'
  <1> SUFFICES ASSUME CheckInInv, [CheckInNext]_checkInVars PROVE CheckInInv'
    OBVIOUS
  <1>1. CASE SetRules
    BY <1>1, ChangeInv DEF SetRules, Changed, CheckInInv, CheckInTypeOK
  <1>2. CASE SwitchAuto
    BY <1>2, ChangeInv DEF SwitchAuto, Changed, CheckInInv, CheckInTypeOK
  <1>3. ASSUME NEW a \in Members, SetUsable(a) PROVE CheckInInv'
    BY <1>3, ChangeInv DEF SetUsable, Changed, CheckInInv, CheckInTypeOK
  <1>4. CASE UNCHANGED checkInVars
    BY <1>4 DEF checkInVars, CheckInInv, CheckInTypeOK, RoundOK, TriedOK, DueOK, MissedTheDay,
             BatchOK, Today
  <1>5. QED
    BY <1>1, <1>2, <1>3, <1>4, TickInv, ReadRulesInv, ReadMembersInv, RoundEndsInv, TryRuleInv,
       RunnerAnswerInv, BatchBeginsInv, BatchNextInv, BatchAnswerInv, TimePassesInv, RestartInv
       DEF CheckInNext

\* Every variable of the check-in has its type.
THEOREM CheckInTypeCorrect == CheckInSpec => []CheckInTypeOK
  BY CheckInInvInit, CheckInInvNext, PTL DEF CheckInSpec, CheckInInv

\* Whatever the windows, the draws and the length of a day: an account is never tried
\* twice for a minute, and is tried for every minute its rule comes due once a tick at
\* or after it is through, unless no tick came between it and midnight, the round could
\* not read the rules or the pool, or rules, switch, pool or process changed (due).
THEOREM EveryDueRuleIsTriedOnce == CheckInSpec => []DueIsTriedOnce
  <1>1. CheckInInv => DueIsTriedOnce
    <2> SUFFICES ASSUME CheckInInv PROVE DueIsTriedOnce
      OBVIOUS
    <2>1. \A t \in BagToSet(tried) : tried[t] = 1
      BY DEF CheckInInv, TriedOK, BagToSet
    <2>2. ASSUME auto, plan # Broken, NEW a \in DOMAIN plan \cap usable,
                 NEW day \in 0 .. DayOf(runner.prev),
                 NEW due, due = DueAt(plan[a], a, day),
                 settledAt < due, due <= runner.prev
          PROVE  <<a, due>> \in DOMAIN tried \/ MissedTheDay(due)
      <3>1. /\ runner.prev \in Instants /\ runner.now \in Instants
            /\ runner.prev <= runner.now /\ plan \in Plans
        BY <2>2 DEF CheckInInv, CheckInTypeOK, RunnerType, RoundOK
      <3>2. runner.prev \in Nat /\ runner.now \in Nat /\ DayOf(runner.prev) \in Days
        BY <3>1, DaysOfInstants
      <3>3. DayOf(runner.prev) <= DayOf(runner.now) /\ DayOf(runner.now) \in Nat
        BY <3>1, <3>2, DaysGoOn
      <3>4. day \in 0 .. DayOf(runner.now)
        <4>1. DayOf(runner.prev) \in Nat
          BY <3>1, DaysOfInstants
        <4>2. QED
          BY <3>3, <4>1
      <3>5. due \in Nat
        BY <2>2, <3>1, <3>4, DueOfARule
      <3>6. due <= runner.now /\ ~(runner.prev < due)
        BY <2>2, <3>1, <3>2, <3>5
      <3>7. QED
        BY <2>2, <3>4, <3>6 DEF CheckInInv, DueOK
    <2>3. QED
      BY <2>1, <2>2 DEF DueIsTriedOnce, BagIn, BagToSet
  <1>2. QED
    BY <1>1, CheckInInvInit, CheckInInvNext, PTL DEF CheckInSpec

\* For any accounts: a batch that says it went well leaves none of them behind
\* (RunPoolCheckin).
THEOREM BatchesAreHonest == CheckInSpec => []BatchIsHonest
  <1>1. CheckInInv => BatchIsHonest
    BY DEF CheckInInv, BatchOK, BatchIsHonest
  <1>2. QED
    BY <1>1, CheckInInvInit, CheckInInvNext, PTL DEF CheckInSpec
===============================================================================
