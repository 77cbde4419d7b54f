---------------------------- MODULE StartupProofs ----------------------------
(***************************************************************************)
(* Proofs about Startup, for any set of workers and of hooks and any sizes *)
(* of the thread pool.                                                     *)
(***************************************************************************)
EXTENDS Startup, TLAPS

Environments ==
    [codeDir : Paths, threads : Nat, params : Paths, verbose : {"unset", "true", "false"},
     target : {"unset", "textgeneration", "unknown"},
     parameter : {"unset", "preset", "value", "default"}]

TypeInv ==
    /\ given \in [codeDir : {NoPath, Path("given")}, params : {NoPath, Path("given")},
                  verbose : BOOLEAN]
    /\ inherited \in [codeDir : {NoPath, Path("inherited")}, threads : {0, EnvThreads},
                      params : {NoPath, Path("inherited")}, verbose : {"unset", "true"},
                      target : {"unset", "textgeneration", "unknown"},
                      parameter : {"unset", "preset"}]
    /\ env \in Environments
    /\ TypeOK

\* The settings of the command, a function of what it was given.
Merged == Override(LoadSettings(inherited), ParseArgs(inherited))

\* The environment of the main process is what it was, or that with the settings
\* published, or that with the parameter.
EnvironmentFollows ==
    /\ main \in {"started", "merged"} => env = inherited
    /\ main \notin {"started"} => command = Merged
    /\ main = "published" => env = SetupEnv(inherited, Merged)
    /\ main = "running" =>
          env = [SetupEnv(inherited, Merged) EXCEPT !.parameter =
                    IF Merged.params # NoPath /\ files.metadata.defines THEN ParameterValue ELSE @]

\* What a worker has found out so far.
WorkerFollows ==
    \A w \in Workers :
        /\ worker[w] # "new" => main = "running"
        /\ Configured(w) => seen[w] = LoadSettings(env)
        /\ worker[w] \in {"described", "imported", "chosen", "serving"} =>
              target[w] = ServerTarget(seen[w])
        /\ worker[w] \in {"chosen", "serving"} =>
              /\ HooksConsistent(hooks[w])
              /\ adapter[w] = IF "async" \in Range(hooks[w]) THEN "async" ELSE "sync"

Inv == TypeInv /\ EnvironmentFollows /\ WorkerFollows

-----------------------------------------------------------------------------
(* The conversions of the settings *)

LEMMA PathFacts ==
  /\ NoPath \in Paths
  /\ {Path("."), Path("given"), Path("inherited")} \subseteq Paths \ {NoPath}
  /\ \A p \in Paths : Abspath(p) \in Paths \ {NoPath}
<1>1. ASSUME NEW p \in Paths PROVE Abspath(p) \in Paths \ {NoPath}
  <2>1. p.name \in {"", ".", "given", "inherited"}
    BY DEF Paths
  <2>2. Abspath(p) \in Paths
    BY <2>1 DEF Abspath, Paths
  <2>3. Abspath(p) # [name |-> "", absolute |-> FALSE]
    BY DEF Abspath
  <2> QED
    BY <2>2, <2>3 DEF NoPath, Path
<1>2. \A n \in {".", "given", "inherited"} : Path(n) \in Paths /\ Path(n).name # NoPath.name
  BY DEF Paths, Path, NoPath
<1>3. NoPath \in Paths
  BY DEF Paths, Path, NoPath
<1> QED
  BY <1>1, <1>2, <1>3

LEMMA LoadedSettings == ASSUME NEW e \in Environments PROVE LoadSettings(e) \in Settings
  BY PathFacts, ThreadsAssumption DEF LoadSettings, Environments, Settings

LEMMA PublishedEnvironment ==
  ASSUME NEW e \in Environments, NEW s \in Settings
  PROVE  /\ SetupEnv(e, s) \in Environments
         /\ SetupEnv(e, s).codeDir = Abspath(s.codeDir)
         /\ SetupEnv(e, s).threads = s.threads
         /\ SetupEnv(e, s).params = IF s.params = NoPath THEN e.params ELSE Abspath(s.params)
         /\ SetupEnv(e, s).verbose = IF s.verbose THEN "true" ELSE "false"
         /\ SetupEnv(e, s).target = e.target
         /\ SetupEnv(e, s).parameter = e.parameter
<1>1. Abspath(s.codeDir) \in Paths /\ Abspath(s.params) \in Paths
  BY PathFacts DEF Settings
<1> QED
  BY <1>1 DEF SetupEnv, Environments, Settings

LEMMA MergedSettings ==
  ASSUME TypeInv
  PROVE  /\ inherited \in Environments
         /\ Merged \in Settings
         /\ Merged.codeDir = IF given.codeDir # NoPath THEN given.codeDir
                             ELSE IF inherited.codeDir # NoPath THEN inherited.codeDir ELSE Path(".")
         /\ Merged.threads = IF inherited.threads = 0 THEN DefaultThreads ELSE inherited.threads
         /\ Merged.params = IF given.params # NoPath THEN given.params ELSE inherited.params
         /\ Merged.verbose = given.verbose
<1>1. inherited \in Environments
  BY PathFacts, ThreadsAssumption DEF TypeInv, Environments
<1>2. LoadSettings(inherited) \in Settings
  BY <1>1, LoadedSettings
<1>3. given.codeDir \in Paths /\ given.params \in Paths /\ given.verbose \in BOOLEAN
  BY PathFacts DEF TypeInv
<1>4. ParseArgs(inherited).codeDir \in Paths \ {NoPath}
  BY <1>2, <1>3 DEF ParseArgs, Settings
<1>5. Merged = [codeDir |-> ParseArgs(inherited).codeDir,
                threads |-> LoadSettings(inherited).threads,
                params |-> IF given.params = NoPath THEN inherited.params ELSE given.params,
                verbose |-> given.verbose]
  <2>1. PICK s \in Settings : s = LoadSettings(inherited)
    BY <1>2
  <2>2. s = [codeDir |-> s.codeDir, threads |-> s.threads, params |-> s.params,
             verbose |-> s.verbose] /\ s.params = inherited.params
    BY <2>1 DEF Settings, LoadSettings
  <2>3. /\ ParseArgs(inherited).params = given.params
        /\ ParseArgs(inherited).verbose = given.verbose
    BY DEF ParseArgs
  <2>4. Merged = Override(s, ParseArgs(inherited))
    BY <2>1 DEF Merged
  <2> QED
    BY <2>1, <2>2, <2>3, <2>4 DEF Override
<1> QED
  BY <1>1, <1>2, <1>3, <1>4, <1>5 DEF ParseArgs, LoadSettings, Settings, Environments

-----------------------------------------------------------------------------
LEMMA InvInitially == Init => Inv
<1> SUFFICES ASSUME Init PROVE Inv
  OBVIOUS
<1>1. inherited \in Environments
  BY PathFacts, ThreadsAssumption DEF Init, Environments
<1>2. LoadSettings(inherited) \in Settings
  BY <1>1, LoadedSettings
<1>3. TypeInv
  BY <1>1, <1>2 DEF Init, TypeInv, TypeOK, Environments, Targets, WorkerStages, HookKinds
<1> QED
  BY <1>3 DEF Init, Inv, EnvironmentFollows, WorkerFollows, Configured

LEMMA MainKeeps == ASSUME Inv, Main PROVE Inv'
<1> USE DEF Inv, inputs, mainVars, workerVars
<1>0. \A w \in Workers : worker[w] = "new"
  BY DEF Main, Merge, Publish, LoadParameters, WorkerFollows
<1>1. UNCHANGED <<inputs, workerVars>>
  BY DEF Main, Merge, Publish, LoadParameters
<1>2. WorkerFollows'
  BY <1>0, <1>1 DEF WorkerFollows, Configured
<1>3. Merged' = Merged /\ ParameterValue' = ParameterValue
  BY <1>1 DEF Merged, ParseArgs, ParameterValue
<1>4. CASE Merge
  <2>1. command' = Merged
    BY <1>4 DEF Merge, EnvironmentFollows, Merged
  <2>2. TypeInv'
    BY <1>1, <1>4, <2>1, MergedSettings DEF TypeInv, TypeOK, Merge
  <2> QED
    BY <1>2, <1>3, <1>4, <2>1, <2>2 DEF Merge, EnvironmentFollows
<1>5. CASE Publish
  <2>1. env' = SetupEnv(inherited, Merged) /\ command' = Merged /\ main' = "published"
    BY <1>5 DEF Publish, EnvironmentFollows
  <2>2. env' \in Environments
    BY <2>1, MergedSettings, PublishedEnvironment
  <2>3. TypeInv'
    BY <1>1, <2>1, <2>2, MergedSettings DEF TypeInv, TypeOK, Environments
  <2> QED
    BY <1>1, <1>2, <1>3, <2>1, <2>3 DEF EnvironmentFollows
<1>6. CASE LoadParameters
  <2>1. command = Merged /\ env = SetupEnv(inherited, Merged)
    BY <1>6 DEF LoadParameters, EnvironmentFollows
  <2>2. env \in Environments /\ ParameterValue \in {"value", "default"}
    BY DEF TypeInv, ParameterValue
  <2>3. \/ main' = "exited" /\ env' \in {env, [env EXCEPT !.parameter = ParameterValue]}
        \/ /\ main' = "running"
           /\ env' = IF Merged.params # NoPath /\ files.metadata.defines
                     THEN [env EXCEPT !.parameter = ParameterValue] ELSE env
    BY <1>6, <2>1 DEF LoadParameters
  <2>4. [env EXCEPT !.parameter = ParameterValue] \in Environments
    BY <2>2 DEF Environments
  <2>5. env' \in Environments
    BY <2>2, <2>3, <2>4
  <2>6. command' = command
    BY <1>6 DEF LoadParameters
  <2>7. TypeInv'
    BY <1>1, <2>3, <2>5, <2>6 DEF TypeInv, TypeOK, Environments
  <2>8. env = [env EXCEPT !.parameter = @]
    BY <2>2 DEF Environments
  <2>9. EnvironmentFollows'
    BY <1>1, <1>3, <2>1, <2>3, <2>6, <2>8 DEF EnvironmentFollows
  <2> QED
    BY <1>2, <2>7, <2>9
<1> QED
  BY <1>4, <1>5, <1>6 DEF Main

LEMMA WorkerKeeps ==
  ASSUME Inv, NEW w \in Workers, Start(w) \/ Restart(w)
  PROVE  Inv'
<1> USE DEF Inv, inputs, mainVars, workerVars
<1>1. UNCHANGED <<inputs, mainVars>>
  BY DEF Start, Restart, ReadSettings, ReadMetadata, ImportModule, CreateAdapter, FinishStart
<1>2. EnvironmentFollows'
  BY <1>1 DEF EnvironmentFollows, Merged, ParseArgs, ParameterValue
<1>3. LoadSettings(env) \in Settings
  BY LoadedSettings DEF TypeInv
<1>4. /\ worker' \in [Workers -> WorkerStages] /\ seen' \in [Workers -> Settings]
      /\ target' \in [Workers -> Targets] /\ hooks' \in [Workers -> [Hooks -> HookKinds]]
      /\ adapter' \in [Workers -> {"none", "sync", "async"}]
  <2> USE DEF TypeInv, TypeOK, WorkerStages
  <2>1. CASE ReadSettings(w)
    BY <1>3, <2>1 DEF ReadSettings
  <2>2. CASE ReadMetadata(w)
    BY <2>2 DEF ReadMetadata
  <2>3. CASE ImportModule(w)
    <3>1. UNCHANGED <<seen, target, adapter>>
      BY <2>3 DEF ImportModule
    <3>2. worker' = [worker EXCEPT ![w] = "imported"] \/ worker' = [worker EXCEPT ![w] = "failed"]
      BY <2>3 DEF ImportModule
    <3>3. \/ UNCHANGED hooks
          \/ \E found \in [Hooks -> HookKinds] : hooks' = [hooks EXCEPT ![w] = found]
      BY <2>3 DEF ImportModule
    <3>4. hooks' \in [Workers -> [Hooks -> HookKinds]]
      BY <3>3
    <3> QED
      BY <3>1, <3>2, <3>4
  <2>4. CASE CreateAdapter(w)
    <3>1. UNCHANGED <<seen, target, hooks>>
      BY <2>4 DEF CreateAdapter
    <3>2. worker' = [worker EXCEPT ![w] = "chosen"] \/ worker' = [worker EXCEPT ![w] = "failed"]
      BY <2>4 DEF CreateAdapter
    <3>3. \/ UNCHANGED adapter
          \/ adapter' = [adapter EXCEPT ![w] = "async"]
          \/ adapter' = [adapter EXCEPT ![w] = "sync"]
      BY <2>4 DEF CreateAdapter
    <3> QED
      BY <3>1, <3>2, <3>3
  <2>5. CASE FinishStart(w)
    BY <2>5 DEF FinishStart
  <2>6. CASE Restart(w)
    BY <2>6 DEF Restart
  <2> QED
    BY <2>1, <2>2, <2>3, <2>4, <2>5, <2>6 DEF Start
<1>5. TypeInv'
  BY <1>1, <1>4 DEF TypeInv, TypeOK
<1>6. ASSUME NEW v \in Workers, v # w PROVE
         /\ worker'[v] = worker[v] /\ seen'[v] = seen[v] /\ target'[v] = target[v]
         /\ hooks'[v] = hooks[v] /\ adapter'[v] = adapter[v]
  BY <1>6 DEF TypeInv, TypeOK, Start, Restart, ReadSettings, ReadMetadata, ImportModule,
              CreateAdapter, FinishStart
<1>7. /\ worker'[w] # "new" => main = "running"
      /\ worker'[w] \notin {"new", "failed"} => seen'[w] = LoadSettings(env)
      /\ worker'[w] \in {"described", "imported", "chosen", "serving"} =>
            target'[w] = ServerTarget(seen'[w])
      /\ worker'[w] \in {"chosen", "serving"} =>
            /\ HooksConsistent(hooks'[w])
            /\ adapter'[w] = IF "async" \in Range(hooks'[w]) THEN "async" ELSE "sync"
  <2> USE DEF TypeInv, TypeOK, WorkerFollows, Configured
  <2>1. CASE ReadSettings(w)
    BY <2>1 DEF ReadSettings
  <2>2. CASE ReadMetadata(w)
    BY <2>2 DEF ReadMetadata
  <2>3. CASE ImportModule(w)
    BY <2>3 DEF ImportModule
  <2>4. CASE CreateAdapter(w)
    BY <2>4 DEF CreateAdapter
  <2>5. CASE FinishStart(w)
    BY <2>5 DEF FinishStart
  <2>6. CASE Restart(w)
    BY <2>6 DEF Restart
  <2> QED
    BY <2>1, <2>2, <2>3, <2>4, <2>5, <2>6 DEF Start
<1>8. WorkerFollows'
  BY <1>1, <1>6, <1>7 DEF WorkerFollows, Configured, ServerTarget, LoadSettings
<1> QED
  BY <1>2, <1>5, <1>8

LEMMA InvAlways == Spec => []Inv
<1>1. Inv /\ [Next]_vars => Inv'
  <2> SUFFICES ASSUME Inv, [Next]_vars PROVE Inv'
    OBVIOUS
  <2>1. CASE UNCHANGED vars
    BY <2>1 DEF Inv, TypeInv, TypeOK, EnvironmentFollows, WorkerFollows, Configured, Merged,
                ParseArgs, ParameterValue, ServerTarget, vars, inputs, mainVars, workerVars
  <2> QED
    BY <2>1, MainKeeps, WorkerKeeps DEF Next
<1> QED
  BY <1>1, InvInitially, PTL DEF Spec

\* What a configured worker finds in its environment.
WorkerEnvironment(e) ==
    /\ e.codeDir = Abspath(Merged.codeDir)
    /\ e.threads = Merged.threads
    /\ e.params = IF Merged.params = NoPath THEN inherited.params ELSE Abspath(Merged.params)
    /\ e.verbose = IF Merged.verbose THEN "true" ELSE "false"
    /\ e.target = inherited.target
    /\ e.parameter = IF Merged.params # NoPath /\ files.metadata.defines
                     THEN ParameterValue ELSE inherited.parameter

LEMMA WorkersSee == ASSUME Inv, NEW w \in Workers, Configured(w) PROVE WorkerEnvironment(env)
<1>1. main = "running"
  BY DEF Inv, WorkerFollows, Configured
<1> DEFINE e == SetupEnv(inherited, Merged)
<1>2. env = [e EXCEPT !.parameter =
                IF Merged.params # NoPath /\ files.metadata.defines THEN ParameterValue ELSE @]
  BY <1>1 DEF Inv, EnvironmentFollows
<1>3. /\ e \in Environments
      /\ e.codeDir = Abspath(Merged.codeDir)
      /\ e.threads = Merged.threads
      /\ e.params = IF Merged.params = NoPath THEN inherited.params ELSE Abspath(Merged.params)
      /\ e.verbose = IF Merged.verbose THEN "true" ELSE "false"
      /\ e.target = inherited.target
      /\ e.parameter = inherited.parameter
  BY MergedSettings, PublishedEnvironment DEF Inv
<1> HIDE DEF e
<1> QED
  BY <1>2, <1>3 DEF WorkerEnvironment, Environments

-----------------------------------------------------------------------------
\* Every settings object is complete and every target type is one there is.
THEOREM StartupTypeCorrect == Spec => []TypeOK
<1>1. Inv => TypeOK
  BY DEF Inv, TypeInv
<1> QED
  BY <1>1, InvAlways, PTL

\* Every worker and every replacement runs with the options of the command, the paths
\* absolute, and with a switch that is given.
THEOREM CommandsAreFollowed == Spec => []WorkersFollowTheCommand
<1>1. Inv => WorkersFollowTheCommand
  <2> SUFFICES ASSUME Inv PROVE WorkersFollowTheCommand
    OBVIOUS
  <2> SUFFICES ASSUME NEW w \in Workers, Configured(w)
               PROVE  /\ seen[w].codeDir = Abspath(Merged.codeDir)
                      /\ seen[w].threads = Merged.threads
                      /\ seen[w].params = IF Merged.params = NoPath THEN NoPath
                                         ELSE Abspath(Merged.params)
                      /\ seen[w].verbose = Merged.verbose
    BY MergedSettings DEF WorkersFollowTheCommand, Inv
  <2>1. seen[w] = LoadSettings(env)
    BY DEF Inv, WorkerFollows
  <2>2. Merged \in Settings /\ inherited \in Environments
    BY MergedSettings DEF Inv
  <2>3. Merged.params = NoPath => inherited.params = NoPath
    BY MergedSettings DEF Inv, TypeInv
  <2>4. WorkerEnvironment(env)
    BY WorkersSee
  <2>5. Abspath(Merged.codeDir) # NoPath
    BY <2>2, PathFacts DEF Settings
  <2> QED
    BY <2>1, <2>2, <2>3, <2>4, <2>5 DEF WorkerEnvironment, LoadSettings, Settings
<1> QED
  BY <1>1, InvAlways, PTL

\* A worker finds the value of its values file, the default or what the platform set.
THEOREM ParametersReachWorkers == Spec => []ParametersArrive
<1>1. Inv => ParametersArrive
  <2> SUFFICES ASSUME Inv, NEW w \in Workers, Configured(w)
               PROVE  env.parameter = IF seen[w].params # NoPath /\ files.metadata.defines
                          THEN (IF files.values = "value" THEN "value" ELSE "default")
                          ELSE inherited.parameter
    BY DEF ParametersArrive
  <2>1. seen[w] = LoadSettings(env) /\ WorkerEnvironment(env)
    BY WorkersSee DEF Inv, WorkerFollows
  <2>2. Merged \in Settings
    BY MergedSettings DEF Inv
  <2>3. Merged.params = NoPath => inherited.params = NoPath
    BY MergedSettings DEF Inv, TypeInv
  <2>4. seen[w].params # NoPath <=> Merged.params # NoPath
    BY <2>1, <2>2, <2>3, PathFacts DEF WorkerEnvironment, LoadSettings, Settings
  <2> QED
    BY <2>1, <2>4 DEF WorkerEnvironment, ParameterValue
<1> QED
  BY <1>1, InvAlways, PTL

\* No hook is served by the adapter of the other kind, whatever a model defines.
THEOREM HooksFitTheirAdapter == Spec => []ServedHooksAreUniform
<1>1. Inv => ServedHooksAreUniform
  <2> SUFFICES ASSUME Inv, NEW w \in Workers, worker[w] = "serving"
               PROVE  /\ \E h \in Hooks : hooks[w][h] # "absent"
                      /\ \A h \in Hooks : hooks[w][h] \in {"absent", adapter[w]}
    BY DEF ServedHooksAreUniform
  <2>1. /\ HooksConsistent(hooks[w])
        /\ adapter[w] = IF "async" \in Range(hooks[w]) THEN "async" ELSE "sync"
    BY DEF Inv, WorkerFollows
  <2>2. hooks[w] \in [Hooks -> HookKinds]
    BY DEF Inv, TypeInv, TypeOK
  <2>3. \A h \in Hooks : hooks[w][h] \in Range(hooks[w]) /\ hooks[w][h] \in HookKinds
    BY <2>2 DEF Range
  <2> QED
    BY <2>1, <2>3 DEF HooksConsistent, HookKinds
<1> QED
  BY <1>1, InvAlways, PTL

\* Endpoints and moderation go by one target type, but for the types only files name.
THEOREM OneTarget == Spec => []TargetsAgree
<1>1. Inv => TargetsAgree
  BY DEF Inv, TypeInv, WorkerFollows, TargetsAgree, ServerTarget, ModerationTarget
<1> QED
  BY <1>1, InvAlways, PTL
=============================================================================
