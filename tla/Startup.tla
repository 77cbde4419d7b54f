------------------------------ MODULE Startup ------------------------------
(***************************************************************************)
(* How a server comes up: the command line and the environment become      *)
(* settings (fastrag/main.py, fastrag/settings.py), which main publishes   *)
(* in the environment of the worker processes with the runtime parameters  *)
(* of the model (fastrag/runtime_parameters.py); each worker reads them    *)
(* back, resolves the target type (fastrag/model_metadata.py), imports     *)
(* custom.py and chooses the adapter (fastrag/loader.py).  A worker that   *)
(* dies is started again with the environment it had.                      *)
(*                                                                         *)
(* One option stands for each way an option can travel: the code directory *)
(* (command line, environment, default; so do the address and the number   *)
(* of workers), the size of the thread pool (environment, default), the    *)
(* runtime parameters file (command line, environment, none) and the       *)
(* switch --verbose (so does --allow-dr-api-access).  One runtime          *)
(* parameter stands for all.                                               *)
(***************************************************************************)
EXTENDS Integers, Functions

CONSTANTS
    Workers,        \* the worker processes
    Hooks,          \* names of hooks
    DefaultThreads, \* THREAD_POOL_WORKERS when it is not set
    EnvThreads      \* its value when it is

ASSUME ThreadsAssumption == {DefaultThreads, EnvThreads} \subseteq Nat \ {0}

\* A path, relative as it was typed or made absolute; NoPath is None or not set.
Path(n) == [name |-> n, absolute |-> FALSE]
NoPath == Path("")
Abspath(p) == [name |-> p.name, absolute |-> TRUE]

Targets == {"regression", "textgeneration"}
HookKinds == {"absent", "sync", "async"}

\* model-metadata.yaml in the code directory: none, no YAML, or a mapping that may
\* name a target type and may define the runtime parameter, with a default.
MetadataFiles ==
    [kind : {"none", "invalid"}, target : {"unset"}, defines : {FALSE}]
      \cup [kind : {"valid"}, target : {"unset", "textgeneration"}, defines : BOOLEAN]

\* The runtime parameters file; "metadata" is one that names a target type.
ValuesFiles == {"missing", "malformed", "mistyped", "empty", "value", "metadata"}

VARIABLES
    \* fixed
    given,      \* the command line
    inherited,  \* the environment the command was started in
    files,      \* the files it finds
    \* the main process
    main,       \* "started", "merged", "published", "running" or "exited"
    command,    \* its settings
    env,        \* its environment, from "running" on that of every worker
    \* the worker processes
    worker,     \* see WorkerStages
    seen,       \* settings of each
    target,     \* app.state.model_metadata.target_type of each
    hooks,      \* what each has found in custom.py
    adapter     \* the adapter each has created

inputs == <<given, inherited, files>>
mainVars == <<main, command, env>>
workerVars == <<worker, seen, target, hooks, adapter>>
vars == <<inputs, mainVars, workerVars>>

\* A worker has done: nothing, settings, metadata, import, adapter, everything.
WorkerStages == {"new", "configured", "described", "imported", "chosen", "serving", "failed"}

-----------------------------------------------------------------------------
(* Settings *)

\* A variant of LoadSettings: an option without a value stays without one.
LoadSettingsUnset(e) ==
    [codeDir |-> IF e.codeDir = NoPath THEN Path(".") ELSE e.codeDir,
     threads |-> e.threads, params |-> e.params, verbose |-> e.verbose = "true"]

\* load_settings: what the environment does not set is the default.
LoadSettings(e) ==
    [codeDir |-> IF e.codeDir = NoPath THEN Path(".") ELSE e.codeDir,
     threads |-> IF e.threads = 0 THEN DefaultThreads ELSE e.threads,
     params  |-> e.params,
     verbose |-> e.verbose = "true"]

\* parse_args: a switch that is not given is False, the file then is None.
ParseArgs(e) ==
    [codeDir |-> IF given.codeDir = NoPath THEN LoadSettings(e).codeDir ELSE given.codeDir,
     params  |-> given.params,
     verbose |-> given.verbose]

\* An argument that is not None overrides its setting.
Override(settings, args) ==
    [settings EXCEPT !.codeDir = args.codeDir,
                     !.params = IF args.params = NoPath THEN @ ELSE args.params,
                     !.verbose = args.verbose]

\* A variant of SetupEnv: what only the command line knows is not published.
SetupEnvOfDir(e, s) == [e EXCEPT !.codeDir = Abspath(s.codeDir), !.threads = s.threads]

SetupEnv(e, s) ==
    [e EXCEPT !.codeDir = Abspath(s.codeDir),
              !.threads = s.threads,
              !.params  = IF s.params = NoPath THEN @ ELSE Abspath(s.params),
              !.verbose = IF s.verbose THEN "true" ELSE "false"]

-----------------------------------------------------------------------------
(* The main process *)

Init ==
    /\ given \in [codeDir : {NoPath, Path("given")}, params : {NoPath, Path("given")},
                  verbose : BOOLEAN]
    /\ inherited \in [codeDir : {NoPath, Path("inherited")}, threads : {0, EnvThreads},
                      params : {NoPath, Path("inherited")}, verbose : {"unset", "true"},
                      target : {"unset", "textgeneration", "unknown"},
                      parameter : {"unset", "preset"}]
    /\ files \in [metadata : MetadataFiles, values : ValuesFiles]
    /\ main = "started"
    /\ env = inherited
    /\ command = LoadSettings(inherited)
    /\ worker = [w \in Workers |-> "new"]
    /\ seen = [w \in Workers |-> LoadSettings(inherited)]
    /\ target = [w \in Workers |-> "regression"]
    /\ hooks = [w \in Workers |-> [h \in Hooks |-> "absent"]]
    /\ adapter = [w \in Workers |-> "none"]

Merge ==
    /\ main = "started"
    /\ command' = Override(LoadSettings(env), ParseArgs(env))
    /\ main' = "merged"
    /\ UNCHANGED <<inputs, env, workerVars>>

Publish ==
    /\ main = "merged"
    /\ env' = SetupEnv(env, command)
    /\ main' = "published"
    /\ UNCHANGED <<inputs, command, workerVars>>

\* The file is not there, is no mapping, or a value is not of its parameter's type;
\* or the model's metadata, read for the definitions, is not valid.
ParametersFail ==
    \/ files.metadata.kind = "invalid"
    \/ files.values \in {"missing", "malformed"}
    \/ files.values = "mistyped" /\ files.metadata.defines

\* A variant of ParameterValue: the default of the definition is not used.
ParameterValueGiven == IF files.values = "value" THEN "value" ELSE env.parameter

ParameterValue == IF files.values = "value" THEN "value" ELSE "default"

\* Parameters are read, and defaults published, only when a values file is set.
\* An address that cannot be parsed ends the command as well.
LoadParameters ==
    /\ main = "published"
    /\ \/ /\ command.params # NoPath => ~ParametersFail
          /\ env' = IF command.params # NoPath /\ files.metadata.defines
                    THEN [env EXCEPT !.parameter = ParameterValue] ELSE env
          /\ main' \in {"running", "exited"}
       \/ /\ command.params # NoPath /\ ParametersFail
          /\ main' = "exited"
          /\ UNCHANGED env
    /\ UNCHANGED <<inputs, command, workerVars>>

-----------------------------------------------------------------------------
(* A worker process, up to its lifespan's yield *)

ReadSettings(w) ==
    /\ main = "running"
    /\ worker[w] = "new"
    /\ seen' = [seen EXCEPT ![w] = LoadSettings(env)]
    /\ worker' = [worker EXCEPT ![w] = "configured"]
    /\ UNCHANGED <<inputs, mainVars, target, hooks, adapter>>

\* A variant of ServerTarget: the environment is not merged.
ServerTargetOfFile(s) ==
    IF s.params # NoPath /\ files.values = "metadata" THEN "textgeneration" ELSE "regression"

\* ModelMetadata of the runtime parameters file, if there is one, with the overrides
\* of the environment.
ServerTarget(s) ==
    IF env.target # "unset" THEN env.target
    ELSE IF s.params # NoPath /\ files.values = "metadata" THEN "textgeneration"
    ELSE "regression"

\* A target type that is none raises.
ReadMetadata(w) ==
    /\ worker[w] = "configured"
    /\ IF ServerTarget(seen[w]) \in Targets
       THEN /\ target' = [target EXCEPT ![w] = ServerTarget(seen[w])]
            /\ worker' = [worker EXCEPT ![w] = "described"]
       ELSE /\ worker' = [worker EXCEPT ![w] = "failed"]
            /\ UNCHANGED target
    /\ UNCHANGED <<inputs, mainVars, seen, hooks, adapter>>

\* custom.py is missing or raises, or gives the hooks it gives.
ImportModule(w) ==
    /\ worker[w] = "described"
    /\ \/ /\ worker' = [worker EXCEPT ![w] = "failed"]
          /\ UNCHANGED hooks
       \/ /\ worker' = [worker EXCEPT ![w] = "imported"]
          /\ \E found \in [Hooks -> HookKinds] : hooks' = [hooks EXCEPT ![w] = found]
    /\ UNCHANGED <<inputs, mainVars, seen, target, adapter>>

\* A variant of HooksConsistent: not checked.
HooksUnchecked(found) == \E h \in Hooks : found[h] # "absent"

\* Neither none nor of both kinds.
HooksConsistent(found) ==
    /\ \E h \in Hooks : found[h] # "absent"
    /\ ~({"sync", "async"} \subseteq Range(found))

\* An asynchronous hook makes the adapter asynchronous.
CreateAdapter(w) ==
    /\ worker[w] = "imported"
    /\ IF HooksConsistent(hooks[w])
       THEN /\ worker' = [worker EXCEPT ![w] = "chosen"]
            /\ adapter' = [adapter EXCEPT ![w] =
                              IF "async" \in Range(hooks[w]) THEN "async" ELSE "sync"]
       ELSE /\ worker' = [worker EXCEPT ![w] = "failed"]
            /\ UNCHANGED adapter
    /\ UNCHANGED <<inputs, mainVars, seen, target, hooks>>

\* The adapter is initialized and the reporters are started, or something raises.
FinishStart(w) ==
    /\ worker[w] = "chosen"
    /\ \E s \in {"serving", "failed"} : worker' = [worker EXCEPT ![w] = s]
    /\ UNCHANGED <<inputs, mainVars, seen, target, hooks, adapter>>

\* A process that has failed or crashes is replaced by a new one.
Restart(w) ==
    /\ worker[w] # "new"
    /\ worker' = [worker EXCEPT ![w] = "new"]
    /\ adapter' = [adapter EXCEPT ![w] = "none"]
    /\ UNCHANGED <<inputs, mainVars, seen, target, hooks>>

-----------------------------------------------------------------------------
Main == Merge \/ Publish \/ LoadParameters
Start(w) == ReadSettings(w) \/ ReadMetadata(w) \/ ImportModule(w)
              \/ CreateAdapter(w) \/ FinishStart(w)

Next == Main \/ \E w \in Workers : Start(w) \/ Restart(w)

Spec == Init /\ [][Next]_vars

-----------------------------------------------------------------------------
(* Properties *)

Paths == [name : {"", ".", "given", "inherited"}, absolute : BOOLEAN]
Settings == [codeDir : Paths \ {NoPath}, threads : Nat \ {0}, params : Paths, verbose : BOOLEAN]

\* Every settings object is complete (fastrag/settings.py), and a worker's target type is
\* one of the enumeration (fastrag/model_metadata.py).
TypeOK ==
    /\ main \in {"started", "merged", "published", "running", "exited"}
    /\ command \in Settings
    /\ env.codeDir \in Paths /\ env.params \in Paths /\ env.threads \in Nat
    /\ env.verbose \in {"unset", "true", "false"}
    /\ env.parameter \in {"unset", "preset", "value", "default"}
    /\ worker \in [Workers -> WorkerStages]
    /\ seen \in [Workers -> Settings]
    /\ target \in [Workers -> Targets]
    /\ hooks \in [Workers -> [Hooks -> HookKinds]]
    /\ adapter \in [Workers -> {"none", "sync", "async"}]

Configured(w) == worker[w] \notin {"new", "failed"}

\* Every worker, also one that replaces another, works with the options of the
\* command: what the command line gives, else what its environment gives, else the
\* default, with the paths absolute, so that a change of directory by the model
\* does not move them.  A switch is on where the command line gives it, and only where
\* the command line or the environment asks for it; what becomes of one that only the
\* environment asks for is left open.
WorkersFollowTheCommand ==
    \A w \in Workers : Configured(w) =>
        LET First(a, b) == IF a # NoPath THEN a ELSE b
            params == First(given.params, inherited.params)
        IN  /\ seen[w].codeDir = Abspath(First(given.codeDir, First(inherited.codeDir, Path("."))))
            /\ seen[w].params = IF params = NoPath THEN NoPath ELSE Abspath(params)
            /\ seen[w].threads = IF inherited.threads = 0 THEN DefaultThreads ELSE inherited.threads
            /\ given.verbose => seen[w].verbose
            /\ seen[w].verbose => given.verbose \/ inherited.verbose = "true"

\* A worker of a model that defines the parameter finds the value of its values
\* file, else the default, and not what an earlier command left in the environment;
\* without a values file, or a definition, it finds what the platform has set.
ParametersArrive ==
    \A w \in Workers : Configured(w) =>
        env.parameter = IF seen[w].params # NoPath /\ files.metadata.defines
                        THEN (IF files.values = "value" THEN "value" ELSE "default")
                        ELSE inherited.parameter

\* A model is served only with hooks of one kind, and by the adapter of that kind:
\* no synchronous hook blocks the event loop, no coroutine is left unawaited.
ServedHooksAreUniform ==
    \A w \in Workers : worker[w] = "serving" =>
        /\ \E h \in Hooks : hooks[w][h] # "absent"
        /\ \A h \in Hooks : hooks[w][h] \in {"absent", adapter[w]}

\* The target type moderation goes by: _resolve_target_type, of the code directory.
ModerationTarget ==
    IF env.target # "unset" THEN env.target
    ELSE IF files.metadata.target # "unset" THEN files.metadata.target
    ELSE "regression"

\* The endpoints and the moderation pipeline, which resolve the target type in two
\* ways, agree on it whenever the environment names it or no file does.
TargetsAgree ==
    \A w \in Workers : worker[w] = "serving" =>
        \/ target[w] = ModerationTarget
        \/ env.target = "unset" /\ (files.metadata.target # "unset" \/ files.values = "metadata")

-----------------------------------------------------------------------------
(* What the READMEs of the models say, and the code does not keep *)

\* The target type comes "from environment variables (or a model-metadata.yaml in
\* the code dir)".
TargetIsConfigured ==
    \A w \in Workers : worker[w] = "serving" /\ seen[w].params = NoPath =>
        target[w] = ModerationTarget
=============================================================================
