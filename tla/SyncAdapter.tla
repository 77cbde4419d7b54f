---------------------------- MODULE SyncAdapter ----------------------------
(***************************************************************************)
(* The adapter of synchronous hooks (class SyncModelAdapter of             *)
(* fastrag/model_adapter.py) and the thread pool under it: initialize()    *)
(* starts and warms up the pool, requests run their hooks in it, each      *)
(* thread with an event loop and a model of its own, and shutdown() ends   *)
(* the threads and closes their loops.                                     *)
(*                                                                         *)
(* The pool is concurrent.futures.ThreadPoolExecutor, modelled from how    *)
(* the adapter uses it: a task that is submitted starts another thread     *)
(* only when no thread has counted itself idle, a thread runs the          *)
(* initializer before its first task, and one initializer that raises      *)
(* breaks the pool.  initialize() and shutdown() block the event loop      *)
(* while they wait for threads; the threads go on meanwhile.               *)
(***************************************************************************)
EXTENDS Integers, Sequences, FiniteSets, Functions

CONSTANTS
    Workers,     \* the threads the pool may start, max_workers of them
    Warmups,     \* the no-op tasks of initialize(), as many
    SharedLoad,  \* the task that loads self.model for the moderation pipeline
    Requests,    \* the requests whose hook runs in the pool
    Wake         \* what shutdown() leaves in the queue, None in the code

Tasks == Warmups \cup {SharedLoad} \cup Requests

ASSUME WorkersAssumption ==
    /\ IsFiniteSet(Workers) /\ Workers # {}
    /\ IsFiniteSet(Warmups) /\ Cardinality(Warmups) = Cardinality(Workers)
ASSUME TasksAssumption ==
    /\ Warmups \cap Requests = {}
    /\ SharedLoad \notin Warmups \cup Requests
    /\ Wake \notin Tasks

VARIABLES
    hasLoad,    \* the model has a load_model hook
    moderated,  \* a moderation pipeline is configured
    \* the adapter
    phase,      \* see Phases
    loops,      \* the event loop of each thread
    listed,     \* _worker_loops: the threads whose loop is in it
    shared,     \* self.model has been loaded
    \* the pool
    queue,      \* its work queue
    idle,       \* its idle semaphore
    broken,     \* an initializer has raised
    worker,     \* the state of each thread
    job,        \* the task each thread runs, or Wake
    loaded,     \* the threads whose _thread_local.model is set
    future      \* the future of each task

config      == <<hasLoad, moderated>>
adapterVars == <<phase, loops, listed, shared>>
poolVars    == <<queue, idle, broken>>
threadVars  == <<worker, job, loaded>>
vars == <<config, adapterVars, poolVars, threadVars, future>>

Phases == {
    "warming",    \* initialize() submits the no-ops
    "waiting",    \* ... and blocks on their results
    "moderation", \* ... loads the moderation pipeline
    "loading",    \* ... awaits the shared load_model
    "serving",    \* initialize() has returned
    "failed",     \* initialize() has raised, the server does not start
    "joining",    \* shutdown() waits for the threads
    "closed"}     \* shutdown() has returned

WorkerStates == {
    "none",      \* not started
    "starting",  \* started, its initializer ahead
    "hooks",     \* the initializer runs the hooks, its loop made
    "free",      \* waiting for a task
    "running",
    "between",   \* has run a task and not counted itself idle
    "failed",    \* ended, its initializer has raised
    "exited"}    \* ended by shutdown()

FutureStates == {"new", "queued", "running", "done", "raised", "broken", "cancelled"}

TypeOK ==
    /\ hasLoad \in BOOLEAN /\ moderated \in BOOLEAN
    /\ phase \in Phases
    /\ loops \in [Workers -> {"none", "open", "closed"}]
    /\ listed \in SUBSET Workers
    /\ shared \in BOOLEAN
    /\ queue \in Seq(Tasks \cup {Wake})
    /\ idle \in Nat
    /\ broken \in BOOLEAN
    /\ worker \in [Workers -> WorkerStates]
    /\ job \in [Workers -> Tasks \cup {Wake}]
    /\ loaded \in SUBSET Workers
    /\ future \in [Tasks -> FutureStates]

\* initialize() has created the executor, which starts no thread yet.
Init ==
    /\ hasLoad \in BOOLEAN /\ moderated \in BOOLEAN
    /\ phase = "warming"
    /\ loops = [w \in Workers |-> "none"]
    /\ listed = {}
    /\ shared = FALSE
    /\ queue = <<>>
    /\ idle = 0
    /\ broken = FALSE
    /\ worker = [w \in Workers |-> "none"]
    /\ job = [w \in Workers |-> Wake]
    /\ loaded = {}
    /\ future = [t \in Tasks |-> "new"]

-----------------------------------------------------------------------------
(* ThreadPoolExecutor.submit *)

\* A variant of AdjustThreads: an idle thread is assumed once all are started.
AdjustThreadsUnchecked ==
    \/ /\ \A w \in Workers : worker[w] # "none"
       /\ idle' = idle - 1
       /\ UNCHANGED worker
    \/ /\ UNCHANGED idle
       /\ \E w \in Workers : worker[w] = "none"
                              /\ worker' = [worker EXCEPT ![w] = "starting"]

\* No thread is started for a task when one has counted itself idle, even if that
\* one takes another task.
AdjustThreads ==
    \/ /\ idle > 0
       /\ idle' = idle - 1
       /\ UNCHANGED worker
    \/ /\ idle = 0
       /\ UNCHANGED idle
       /\ \/ \E w \in Workers : worker[w] = "none"
                                 /\ worker' = [worker EXCEPT ![w] = "starting"]
          \/ (\A w \in Workers : worker[w] # "none") /\ UNCHANGED worker

Submit(t) ==
    /\ ~broken
    /\ future[t] = "new"
    /\ future' = [future EXCEPT ![t] = "queued"]
    /\ queue' = Append(queue, t)
    /\ AdjustThreads
    /\ UNCHANGED <<broken, job, loaded>>

\* submit raises BrokenThreadPool.
SubmitRefused(t) ==
    /\ broken
    /\ future[t] = "new"
    /\ future' = [future EXCEPT ![t] = "broken"]
    /\ UNCHANGED <<poolVars, threadVars>>

-----------------------------------------------------------------------------
(* initialize() *)

SubmitWarmup ==
    /\ phase = "warming"
    /\ \E t \in Warmups :
          \/ Submit(t) /\ UNCHANGED phase
          \/ SubmitRefused(t) /\ phase' = "failed"
    /\ UNCHANGED <<config, loops, listed, shared>>

AllSubmitted ==
    /\ phase = "warming"
    /\ \A t \in Warmups : future[t] # "new"
    /\ phase' = "waiting"
    /\ UNCHANGED <<config, loops, listed, shared, poolVars, threadVars, future>>

\* A variant of WarmedUp: the results are not waited for.
NotWarmedUp ==
    /\ phase = "waiting"
    /\ phase' = "moderation"
    /\ UNCHANGED <<config, loops, listed, shared, poolVars, threadVars, future>>

\* future.result() of every no-op.
WarmedUp ==
    /\ phase = "waiting"
    /\ \A t \in Warmups : future[t] = "done"
    /\ phase' = "moderation"
    /\ UNCHANGED <<config, loops, listed, shared, poolVars, threadVars, future>>

\* future.result() raises BrokenThreadPool.
WarmupFails ==
    /\ phase = "waiting"
    /\ \E t \in Warmups : future[t] = "broken"
    /\ phase' = "failed"
    /\ UNCHANGED <<config, loops, listed, shared, poolVars, threadVars, future>>

\* _load_moderation_pipeline has a pipeline or there is none to load, or it raises;
\* with a pipeline and a load_model hook the shared model is loaded in the pool.
LoadModeration ==
    /\ phase = "moderation"
    /\ \/ phase' = "failed" /\ moderated
          /\ UNCHANGED <<poolVars, threadVars, future>>
       \/ ~(moderated /\ hasLoad) /\ phase' = "serving"
          /\ UNCHANGED <<poolVars, threadVars, future>>
       \/ moderated /\ hasLoad /\ phase' = "loading" /\ Submit(SharedLoad)
       \/ moderated /\ hasLoad /\ phase' = "failed" /\ SubmitRefused(SharedLoad)
    /\ UNCHANGED <<config, loops, listed, shared>>

SharedLoadReturns ==
    /\ phase = "loading"
    /\ \/ future[SharedLoad] = "done" /\ shared' = TRUE /\ phase' = "serving"
       \/ future[SharedLoad] \in {"raised", "broken"} /\ UNCHANGED shared /\ phase' = "failed"
    /\ UNCHANGED <<config, loops, listed, poolVars, threadVars, future>>

-----------------------------------------------------------------------------
(* thread_initializer *)

\* The loop is made and listed before a hook can raise.
MakeLoop(w) ==
    /\ worker[w] = "starting"
    /\ worker' = [worker EXCEPT ![w] = "hooks"]
    /\ loops' = [loops EXCEPT ![w] = "open"]
    /\ listed' = listed \cup {w}
    /\ UNCHANGED <<config, phase, shared, poolVars, job, loaded, future>>

\* The thread is ready; it may look at the queue once before it counts itself idle
\* (that depends on the version of the library).
InitializerReturns(w) ==
    /\ worker[w] = "hooks"
    /\ \E s \in {"free", "between"} : worker' = [worker EXCEPT ![w] = s]
    /\ loaded' = IF hasLoad THEN loaded \cup {w} ELSE loaded
    /\ UNCHANGED <<config, adapterVars, poolVars, job, future>>

\* A variant of InitializerRaises: an error of load_model is only logged.
InitializerLogs(w) ==
    /\ worker[w] = "hooks"
    /\ worker' = [worker EXCEPT ![w] = "free"]
    /\ UNCHANGED <<config, adapterVars, poolVars, job, loaded, future>>

\* A variant of InitializerRaises: the tasks that wait are not told.
InitializerRaisesUntold(w) ==
    /\ worker[w] = "hooks"
    /\ worker' = [worker EXCEPT ![w] = "failed"]
    /\ broken' = TRUE
    /\ queue' = <<>>
    /\ UNCHANGED <<config, adapterVars, idle, job, loaded, future>>

\* init or load_model raises: the thread ends, the pool is broken, and the futures
\* of the tasks that wait are told.
InitializerRaises(w) ==
    /\ worker[w] = "hooks"
    /\ worker' = [worker EXCEPT ![w] = "failed"]
    /\ broken' = TRUE
    /\ future' = [t \in Tasks |-> IF t \in Range(queue) THEN "broken" ELSE future[t]]
    /\ queue' = <<>>
    /\ UNCHANGED <<config, adapterVars, idle, job, loaded>>

-----------------------------------------------------------------------------
(* The loop of a thread, and _run *)

\* A task is taken from the head of the queue; a thread that has just run one may
\* find the next without waiting.
Take(w) ==
    /\ worker[w] \in {"free", "between"}
    /\ queue # <<>> /\ Head(queue) # Wake
    /\ worker' = [worker EXCEPT ![w] = "running"]
    /\ job' = [job EXCEPT ![w] = Head(queue)]
    /\ future' = [future EXCEPT ![Head(queue)] = "running"]
    /\ queue' = Tail(queue)
    /\ UNCHANGED <<config, adapterVars, idle, broken, loaded>>

\* The no-op returns; a hook returns or raises.
TaskEnds(w) ==
    /\ worker[w] = "running"
    /\ worker' = [worker EXCEPT ![w] = "between"]
    /\ job' = [job EXCEPT ![w] = Wake]
    /\ \E result \in {"done", "raised"} :
          /\ job[w] \in Warmups => result = "done"
          /\ future' = [future EXCEPT ![job[w]] = result]
    /\ UNCHANGED <<config, adapterVars, poolVars, loaded>>

CountIdle(w) ==
    /\ worker[w] = "between"
    /\ worker' = [worker EXCEPT ![w] = "free"]
    /\ idle' = idle + 1
    /\ UNCHANGED <<config, adapterVars, queue, broken, job, loaded, future>>

\* The thread finds the sentinel of shutdown() and leaves it to the next.
Exit(w) ==
    /\ worker[w] \in {"free", "between"}
    /\ queue # <<>> /\ Head(queue) = Wake
    /\ worker' = [worker EXCEPT ![w] = "exited"]
    /\ queue' = Append(Tail(queue), Wake)
    /\ UNCHANGED <<config, adapterVars, idle, broken, job, loaded, future>>

-----------------------------------------------------------------------------
(* _run_in_executor and shutdown() *)

\* A request's hook is submitted, or the request fails at once.
RunInExecutor ==
    /\ phase = "serving"
    /\ \E r \in Requests : Submit(r) \/ SubmitRefused(r)
    /\ UNCHANGED <<config, adapterVars>>

\* A variant of Shutdown: the queue is left to threads that are told nothing.
ShutdownUnsignalled ==
    /\ phase = "serving"
    /\ phase' = "joining"
    /\ UNCHANGED <<config, loops, listed, shared, poolVars, threadVars, future>>

\* shutdown(wait=True, cancel_futures=True) up to the joins.
Shutdown ==
    /\ phase = "serving"
    /\ phase' = "joining"
    /\ future' = [t \in Tasks |-> IF t \in Range(queue) THEN "cancelled" ELSE future[t]]
    /\ queue' = <<Wake>>
    /\ UNCHANGED <<config, loops, listed, shared, idle, broken, threadVars>>

\* A variant of CloseLoops: shutdown(wait=False).
CloseLoopsUnjoined ==
    /\ phase = "joining"
    /\ phase' = "closed"
    /\ loops' = [w \in Workers |-> IF w \in listed THEN "closed" ELSE loops[w]]
    /\ listed' = {}
    /\ UNCHANGED <<config, shared, poolVars, threadVars, future>>

\* Every thread has ended; the listed loops are closed.
CloseLoops ==
    /\ phase = "joining"
    /\ \A w \in Workers : worker[w] \in {"none", "failed", "exited"}
    /\ phase' = "closed"
    /\ loops' = [w \in Workers |-> IF w \in listed THEN "closed" ELSE loops[w]]
    /\ listed' = {}
    /\ UNCHANGED <<config, shared, poolVars, threadVars, future>>

-----------------------------------------------------------------------------
Initialize == SubmitWarmup \/ AllSubmitted \/ WarmedUp \/ WarmupFails
                \/ LoadModeration \/ SharedLoadReturns
Thread(w) == MakeLoop(w) \/ InitializerReturns(w) \/ InitializerRaises(w)
               \/ Take(w) \/ TaskEnds(w) \/ CountIdle(w) \/ Exit(w)

Next == Initialize \/ (\E w \in Workers : Thread(w)) \/ RunInExecutor \/ Shutdown \/ CloseLoops

Spec == Init /\ [][Next]_vars

\* Threads run and hooks return; nothing makes a request come or the server stop.
FairSpec == Spec /\ WF_vars(Initialize) /\ WF_vars(CloseLoops)
                 /\ \A w \in Workers : WF_vars(Thread(w))

-----------------------------------------------------------------------------
(* Properties *)

\* A hook runs only in a thread that is prepared for it: its event loop is open
\* and will be closed by shutdown(), its own model is loaded if there is a
\* load_model hook; the moderation path has its shared model before any request.
\* Neither a load_model that raised in this or another thread nor a shutdown under
\* way breaks this.
HooksRunPrepared ==
    /\ \A w \in Workers : worker[w] = "running" =>
          /\ loops[w] = "open"
          /\ w \in listed
          /\ hasLoad => w \in loaded
    /\ phase = "serving" /\ moderated /\ hasLoad => shared

\* initialize() tells the truth: when it returns, every no-op has run and a thread
\* stands ready, although others may still be initialized; when it raises without
\* a moderation pipeline, a hook of the model has raised.
InitializeIsHonest ==
    /\ phase = "serving" =>
          /\ \A t \in Warmups : future[t] = "done"
          /\ \E w \in Workers : worker[w] \in {"free", "running", "between"}
    /\ phase = "failed" /\ ~moderated => \E w \in Workers : worker[w] = "failed"

\* When shutdown() returns no thread runs and none will, every loop ever made is
\* closed, also that of a thread whose initializer raised, and nobody waits for
\* a future.
NothingOutlivesShutdown ==
    phase = "closed" =>
        /\ \A w \in Workers : /\ worker[w] \in {"none", "failed", "exited"}
                              /\ loops[w] # "open"
        /\ \A t \in Tasks : future[t] \notin {"queued", "running"}

\* A task that waits is in the queue, once; a task that runs is in the hands of one
\* thread; no task is anywhere else: whichever of a thread, a failing initializer
\* and shutdown() reaches the queue first, no future is left behind unresolved.
TasksAreInOnePlace ==
    /\ \A i, j \in DOMAIN queue : queue[i] = queue[j] => i = j
    /\ \A t \in Tasks : future[t] = "queued" <=> t \in Range(queue)
    /\ \A w \in Workers : worker[w] = "running" =>
          job[w] \in Tasks /\ future[job[w]] = "running"
    /\ \A v, w \in Workers :
          worker[v] = "running" /\ worker[w] = "running" /\ job[v] = job[w] => v = w
    /\ \A t \in Tasks : future[t] = "running" =>
          \E w \in Workers : worker[w] = "running" /\ job[w] = t

\* Every request whose hook was submitted is answered, also when the pool breaks or
\* shuts down before a thread takes it.
RequestsResolve ==
    \A r \in Requests : future[r] = "queued" ~> future[r] \notin {"queued", "running"}

\* shutdown() returns, unless an initializer raises: then the sentinel may be thrown
\* away with the tasks.
ShutdownReturns == phase = "joining" ~> phase = "closed" \/ broken

=============================================================================
