------------------------------ MODULE Lifespan ------------------------------
(***************************************************************************)
(* One server process from lifespan() of fastrag/server.py to its exit:    *)
(* what is started in which order, what a failure half-way leaves behind,  *)
(* what the finally block stops, and what runs beside it: the uploads of   *)
(* the moderation pipeline, which ModelAdapter moves to a thread of its    *)
(* own, and the score hooks of AsyncModelAdapter, coroutines of the event  *)
(* loop that the pipeline calls from threads.                              *)
(*                                                                         *)
(* Under it: uvicorn, which ends the requests before it stops the          *)
(* application; the loop's default thread pool, in which the pipeline      *)
(* calls the hooks; and the interpreter, which joins threads at its exit.  *)
(* The pool of SyncModelAdapter and the reporters' drains have modules of  *)
(* their own; here each is up or not.                                      *)
(***************************************************************************)
EXTENDS Integers, Sequences, FiniteSets, SequencesExt

CONSTANTS
    Requests,    \* moderated requests
    PoolThreads  \* threads of the loop's default pool

VARIABLES
    config,     \* the model and the environment, fixed; nested: score hooks use the
                \* default pool; late: an initializer of the hook pool fails after
                \* initialize() has returned or raised (SyncAdapter)
    stage,      \* see Stages
    up,         \* what has been started and not stopped
    request,    \* the stage of each request
    scheduled,  \* the requests whose score coroutine the loop has to run
    upload,     \* the custom metrics of each request
    queue       \* the uploads that wait in the metrics executor
vars == <<config, stage, up, request, scheduled, upload, queue>>

Resources == {"otel", "hooks", "uploads", "stats", "data"}

Starting == {"otel", "metadata", "import", "initialize", "moderation", "shared", "stats", "data"}
Stopping == {"stopUploads", "stopHooks", "stopStats", "stopData", "stopOtel"}
\* "stuck": the hook pool is joined in vain; "exiting": the loop's run
\* is over, threads are joined; "gone": the process has ended.
Stages == Starting \cup {"serving", "stuck"} \cup Stopping \cup {"exiting", "gone"}

Init ==
    /\ config \in [kind : {"sync", "async"}, moderated : BOOLEAN, reports : BOOLEAN,
                   otel : BOOLEAN, nested : BOOLEAN, late : BOOLEAN]
    /\ config.late => config.kind = "sync"
    /\ stage = "otel"
    /\ up = {}
    /\ request = [r \in Requests |-> "new"]
    /\ scheduled = {}
    /\ upload = [r \in Requests |-> "none"]
    /\ queue = <<>>

requestVars == <<request, scheduled, upload, queue>>

-----------------------------------------------------------------------------
(* lifespan() up to its yield *)

\* One step of the start: it goes on to the next and leaves resources running, or
\* raises before that, or after that if it is late; a step with nothing to do does
\* neither.  Nothing catches what it raises.
Start(from, to, resources, needed, late) ==
    /\ stage = from
    /\ \/ stage' = to /\ up' = up \cup (IF needed THEN resources ELSE {})
       \/ needed /\ stage' = "exiting" /\ UNCHANGED up
       \/ needed /\ late /\ stage' = "exiting" /\ up' = up \cup resources
    /\ UNCHANGED <<config, requestVars>>

\* The three providers, when an endpoint is configured and the SDK is not disabled.
SetupOtel == Start("otel", "metadata", {"otel"}, config.otel, TRUE)

LoadMetadata == Start("metadata", "import", {}, TRUE, FALSE)

\* Up to the adapter: paths, module and hooks are checked; nothing is running yet.
ImportHooks == Start("import", "initialize", {}, TRUE, FALSE)

\* A variant of InitializeHooks: load() returns an adapter it has not initialized.
InitializeSkipped == Start("initialize", "stats", {}, TRUE, FALSE)

\* The hook pool is warmed up, or init and load_model are awaited.
InitializeHooks == Start("initialize", "moderation", {"hooks"}, TRUE, config.kind = "sync")

\* The pipeline is made, then its uploads are given an executor.
LoadModeration == Start("moderation", "shared", {"uploads"}, config.moderated, FALSE)

\* With a pipeline SyncModelAdapter loads the model once more.
LoadShared == Start("shared", "stats", {}, config.moderated /\ config.kind = "sync", FALSE)

StartStats == Start("stats", "data", {"stats"}, config.reports, FALSE)

\* The drain runs when start() asks for the deployment; an answer of another shape
\* than it expects makes it raise.
StartData == Start("data", "serving", {"data"}, config.reports, TRUE)

-----------------------------------------------------------------------------
(* Requests, and score() of AsyncModelAdapter with a pipeline *)

Ended(r) == request[r] \in {"new", "answered"}
InPool == {r \in Requests : request[r] \in {"thread", "posted", "resolved"}}
FreeThread == Cardinality(InPool) < PoolThreads
LoopRuns == stage \in Starting \cup {"serving", "stopStats", "stopData", "stopOtel"}

\* The handler has called the adapter; the pipeline goes on in a thread.
Enter(r) ==
    /\ stage = "serving"
    /\ request[r] = "new"
    /\ request' = [request EXCEPT ![r] = "entered"]
    /\ UNCHANGED <<config, stage, up, scheduled, upload, queue>>

PipelineCalls(r) ==
    /\ request[r] = "entered"
    /\ IF config.moderated /\ config.kind = "async"
       THEN FreeThread /\ request' = [request EXCEPT ![r] = "thread"]
       ELSE request' = [request EXCEPT ![r] = "answered"]
    /\ UNCHANGED <<config, stage, up, scheduled, upload, queue>>

\* A variant of SyncScoreHook: the coroutine is given to a loop that nobody runs.
SyncScoreHookStranded(r) ==
    /\ request[r] = "thread"
    /\ request' = [request EXCEPT ![r] = "posted"]
    /\ UNCHANGED <<config, stage, up, scheduled, upload, queue>>

\* _sync_score_hook: the coroutine is posted to the loop; the thread waits for it.
SyncScoreHook(r) ==
    /\ request[r] = "thread"
    /\ request' = [request EXCEPT ![r] = "posted"]
    /\ scheduled' = scheduled \cup {r}
    /\ UNCHANGED <<config, stage, up, upload, queue>>

\* The loop runs the score hook to its result or exception; a nested one needs a
\* thread of the default pool itself.
RunCoroutine(r) ==
    /\ LoopRuns
    /\ r \in scheduled
    /\ config.nested => FreeThread
    /\ scheduled' = scheduled \ {r}
    /\ request' = [request EXCEPT ![r] = "resolved"]
    /\ UNCHANGED <<config, stage, up, upload, queue>>

Answer(r) ==
    /\ request[r] = "resolved"
    /\ request' = [request EXCEPT ![r] = "answered"]
    /\ UNCHANGED <<config, stage, up, scheduled, upload, queue>>

-----------------------------------------------------------------------------
(* The uploads *)

\* A variant of UploadCustomMetrics: the caller uploads, as before the executor.
UploadInline(r) ==
    /\ config.moderated /\ request[r] # "new" /\ upload[r] = "none"
    /\ upload' = [upload EXCEPT ![r] = "running"]
    /\ UNCHANGED <<config, stage, up, request, scheduled, queue>>

\* The pipeline uploads from the loop or from a stream's thread, which may outlive
\* its request; submit raises in it once the executor is shut down.
UploadCustomMetrics(r) ==
    /\ config.moderated
    /\ request[r] # "new" /\ upload[r] = "none"
    /\ stage # "gone"
    /\ IF "uploads" \in up /\ stage \notin {"stopUploads", "stuck", "exiting"}
       THEN /\ upload' = [upload EXCEPT ![r] = "queued"]
            /\ queue' = Append(queue, r)
       ELSE /\ upload' = [upload EXCEPT ![r] = "refused"]
            /\ UNCHANGED queue
    /\ UNCHANGED <<config, stage, up, request, scheduled>>

\* max_workers=1
TakeUpload ==
    /\ queue # <<>>
    /\ \A r \in Requests : upload[r] # "running"
    /\ upload' = [upload EXCEPT ![Head(queue)] = "running"]
    /\ queue' = Tail(queue)
    /\ UNCHANGED <<config, stage, up, request, scheduled>>

\* A variant of EndUpload: an upload is a coroutine of the server's loop.
EndUploadOnLoop ==
    /\ LoopRuns
    /\ \E r \in Requests : upload[r] = "running" /\ upload' = [upload EXCEPT ![r] = "done"]
    /\ UNCHANGED <<config, stage, up, request, scheduled, queue>>

\* It returns, or raises, which is logged.
EndUpload ==
    /\ \E r \in Requests : upload[r] = "running" /\ upload' = [upload EXCEPT ![r] = "done"]
    /\ UNCHANGED <<config, stage, up, request, scheduled, queue>>

-----------------------------------------------------------------------------
(* The finally block *)

\* uvicorn has ended every request.
BeginShutdown ==
    /\ stage = "serving"
    /\ \A r \in Requests : Ended(r)
    /\ stage' = "stopUploads"
    /\ UNCHANGED <<config, up, requestVars>>

UploadsEnded == queue = <<>> /\ \A r \in Requests : upload[r] # "running"

\* shutdown(wait=True) of the metrics executor, on the event loop.
StopUploads ==
    /\ stage = "stopUploads"
    /\ UploadsEnded
    /\ up' = up \ {"uploads"}
    /\ stage' = "stopHooks"
    /\ UNCHANGED <<config, requestVars>>

\* One step of the stop: done, or it raises and the steps after it are skipped.
Stop(from, to, resource) ==
    /\ stage = from
    /\ \/ stage' = to /\ up' = up \ {resource}
       \/ stage' = "exiting" /\ UNCHANGED up
    /\ UNCHANGED <<config, requestVars>>

\* The join of the hook pool's threads: one whose late initializer fails meanwhile
\* takes the sentinel out of the queue; an idle thread then waits for ever, and so
\* does whoever joins it.
JoinsInVain(from) ==
    /\ stage = from /\ "hooks" \in up /\ config.late
    /\ stage' = "stuck"
    /\ UNCHANGED <<config, up, requestVars>>

\* shutdown(wait=True) of the hook pool, on the event loop.
StopHooks == Stop("stopHooks", "stopStats", "hooks") \/ JoinsInVain("stopHooks")

StopStats == Stop("stopStats", "stopData", "stats")
StopData == Stop("stopData", "stopOtel", "data")
StopOtel == Stop("stopOtel", "exiting", "otel")

\* The run of the loop cancels the drains, the interpreter joins the threads of the
\* executors that are left and ends the providers.
Exit ==
    \/ /\ stage = "exiting"
       /\ UploadsEnded
       /\ up' = {}
       /\ stage' = "gone"
       /\ UNCHANGED <<config, requestVars>>
    \/ JoinsInVain("exiting")

-----------------------------------------------------------------------------
StartUp == SetupOtel \/ LoadMetadata \/ ImportHooks \/ InitializeHooks \/ LoadModeration
             \/ LoadShared \/ StartStats \/ StartData
TearDown == StopUploads \/ StopHooks \/ StopStats \/ StopData \/ StopOtel \/ Exit
Handle(r) == PipelineCalls(r) \/ SyncScoreHook(r) \/ RunCoroutine(r) \/ Answer(r)

Next ==
    \/ StartUp \/ BeginShutdown \/ TearDown
    \/ \E r \in Requests : Enter(r) \/ Handle(r) \/ UploadCustomMetrics(r)
    \/ TakeUpload \/ EndUpload

\* Hooks, pipelines and uploads return; nobody has to send a request or stop the server.
Spec == Init /\ [][Next]_vars
             /\ WF_vars(StartUp) /\ WF_vars(TearDown) /\ WF_vars(TakeUpload) /\ WF_vars(EndUpload)
             /\ \A r \in Requests : WF_vars(Handle(r))

-----------------------------------------------------------------------------
(* Properties *)

\* A request meets a server that has started all it uses and has stopped nothing,
\* whatever failed on the way up: not _executor = None after shutdown(), not a
\* reporter that is not there yet.
RequestsMeetTheLiving ==
    (\E r \in Requests : ~Ended(r)) =>
        /\ stage = "serving"
        /\ "hooks" \in up
        /\ config.reports => {"stats", "data"} \subseteq up
        /\ config.moderated => "uploads" \in up

\* The pipeline's one loop never runs two uploads at a time, whichever threads ask
\* for them; one that has not run yet is still in the queue; one that was accepted
\* has run when the adapter is shut down, and when a process that failed elsewhere
\* ends; it is refused only by a server that stops, when its request is over: the
\* refusal does not raise into an answer under way.
UploadsRunInTurn ==
    /\ \A q, r \in Requests : upload[q] = "running" /\ upload[r] = "running" => q = r
    /\ \A r \in Requests : upload[r] = "queued" <=> \E i \in DOMAIN queue : queue[i] = r
    /\ "uploads" \notin up => \A r \in Requests : upload[r] \notin {"queued", "running"}
    /\ \A r \in Requests : upload[r] = "refused" =>
          request[r] = "answered" /\ stage \in Stopping \cup {"stuck", "exiting", "gone"}

\* Every thread of the default pool waits for a coroutine that waits for a thread.
Starved == config.nested /\ ~FreeThread /\ \A r \in InPool : request[r] = "posted"

\* A moderated score ends: a thread that waits for the loop never keeps the loop
\* from running the hook it waits for.  The exception is a hook that needs a thread
\* of the pool all of whose threads wait for such hooks.
ScoresEnd == \A r \in Requests : ~Ended(r) ~> Ended(r) \/ Starved

\* A server that is told to stop ends, and so does one that could not start or whose
\* shutdown raised half-way, with whatever that left running.  The exception is a
\* server an initializer of whose hook pool fails after initialize() has ended: it may
\* wait for a thread of that pool for ever, but the uploads it had accepted are made.
ServerEnds ==
    stage \in Stopping \cup {"exiting"} ~>
        \/ stage = "gone" /\ up = {}
        \/ stage = "stuck" /\ config.late /\ UploadsEnded
=============================================================================
