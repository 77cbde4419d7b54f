# FastRAG in TLA+

FastRAG serves a user's model (`custom.py`) over HTTP: FastAPI handlers call the
model's hooks through an adapter, chat answers may be streams, and two reporters tell
DataRobot what was served. Its hard parts are where one event loop, pools of worker
threads, a network that fails and a server that stops meet; its scripts deliver and
measure it in steps any of which may be the last. This directory models these parts,
checks them with TLC and proves what matters most with TLAPS. Paths are relative to
`src/`; line numbers are of the modelled commit.

## 1. The system

| part | state | operations | works with |
|---|---|---|---|
| `BatchReporter` (`fastrag/prediction_stats.py`) | bounded queue, `_closed`, `dropped`, drain task, batch, attempt | `start`, `report`/`_put`, `_run`, `_collect_batch`, `_post`, `aclose` | request path (loop and worker threads), DataRobot over HTTP, application shutdown |
| `PredictionDataReporter` (`fastrag/prediction_data.py`) | the same, and the prompt column | the same, `chat_prompt_text` | as above |
| `PredictionStatsMiddleware`, chat handler, SSE generators (`fastrag/server.py`) | per request: status, `reported`, `STREAM_FAILED_STATE_KEY`, the generator | `__call__`, `chat_completions`, `_format_chat_response`, `_stream_openai_chunks`, error handlers | adapter, both reporters, Starlette, the client |
| `SyncModelAdapter` (`fastrag/model_adapter.py`) | thread pool, a loop and a model per thread, `_worker_loops`, shared model | `initialize`, `score`, `chat`, ..., `shutdown` | `ThreadPoolExecutor`, hooks, moderation pipeline |
| `AsyncModelAdapter`, `ModelAdapter` | the model, the metrics executor | the same, one await of a hook each; `_sync_score_hook`, the uploads | hooks, moderation pipeline, the loop and its default pool |
| the other endpoints and `fastrag/validation.py` | none | payload, charset, hook, `format_prediction_response` and its builders | hooks, model metadata |
| lifespan (`fastrag/server.py:181`) | the parts above and telemetry, started in order | start, stop | all of them |
| `HookLoader`, `HookRegistry` (`fastrag/loader.py`) | `sys.path`, `sys.modules`, the hooks | `load` | `custom.py`, adapters |
| CLI, settings, runtime parameters, metadata | environment variables | parse, merge, publish to the worker processes | uvicorn |
| delivery (`scripts/bump_version.py`, `check_changelog.py`, `release_notes.py`, `upload_dr_env.py`, `.github/workflows/`) | `pyproject.toml`, `uv.lock`, `CHANGELOG.md`, tags, `dist/`, `personal_env.json` | bump, gate, tag, publish, upload | git, GitHub, PyPI, DataRobot |
| `scripts/mem_profile.py` | the container, its sampler, the report | start, sample, load, report, clean up | docker, the server |
| schemas | none | declarations | pydantic |

What is hard in each, and what makes it correct:

* **Reporter.** Records come from the loop and, when a worker thread ends a synchronous
  stream, from a thread: it reads `_closed` and hands over with `call_soon_threadsafe`,
  so `aclose` can run in between. `aclose` puts a sentinel on a queue that may be full,
  and gives the drain a limited time. A POST can fail, be rejected, be counted by
  DataRobot although its answer is lost, or raise something nobody catches where it
  was expected. Correct: no record is lost or copied unnoticed, counts are right, order
  is kept, and closing ends.
* **Chat request.** The answer may fail before its start (an error response), after it
  (an error event in the stream), or the client may leave. Three layers build error
  responses, and only one of them stamps the header by which the gateway decides to
  count a 5xx itself. Correct: no request counted twice, a finished one counted once, with the outcome
  the client saw; a row for exactly the whole answers; every stream terminated.
* **Thread pool.** Threads are started by need, run an initializer that may raise, and one
  that raises breaks the pool for all. Correct: no hook in an unprepared thread, no
  future unresolved, nothing left running or open after `shutdown`.
* **Lifespan.** Each step of the start may raise with the earlier ones running, each step of the stop may
  skip the later ones. Threads of a pipeline outlive their requests and submit uploads to an executor
  that is being shut down; a thread waits for a coroutine of the loop that is shutting it down. Correct: requests meet
  a server that is whole, accepted uploads run in turn, scores end, the process ends where the pool of hooks
  can be joined.
* **Start.** The command and its workers are different processes with only the environment between them, which
  was there before the command and may say otherwise. Correct: a worker, and one that replaces it, runs with what
  the command was told.
* **Endpoints.** No concurrency, but many shapes of request and frame against many
  configurations. Correct: nothing of a frame is lost, labels are the model's, a text keeps its characters,
  a failure has the status of who is at fault, or the one the hook gives it.
* **Delivery.** Three files name a version and are written one after the other; others merge meanwhile; a label lets
  a pull request pass the gate unread; a run of the workflow may be replaced or fail half-way, after the tag too; tags are also made
  by hand; names of wheels are sorted as text. Correct: what the gate lets onto main can be released, what the workflow has tagged is
  published or seen to fail, an upload goes where it was meant to and is what it is called.
* **Memory profile.** The container may die, the script be interrupted or killed anywhere, and the cleanup itself
  fail. Correct: a report of one life of the container, and nothing left behind but what was asked for or what a failed
  cleanup leaves.

`PROJECT.json` lists each hazard at its line with the properties that watch it.

## 2. Modules

| module | models | kind |
|---|---|---|
| `BatchReporter` | the reporter, its drain and `aclose` | detailed specification |
| `ReportQueue` | what a reporter promises: a line that leaves from its head in groups | abstract specification, implemented by `BatchReporter` |
| `ChatRequest` | one chat request with its stream, client, middleware and records | detailed specification |
| `SyncAdapter` | the adapter, the pool's threads, requests and shutdown | detailed specification |
| `Lifespan` | a server process from start to exit, with moderated requests of either adapter and their uploads | composition: adapter, reporters and telemetry are up or not |
| `PredictionResponse` | `format_prediction_response` as operators on bounded frames | algorithm |
| `Endpoints` | the handlers of every route but chat, around `PredictionResponse` | extends it |
| `Startup` | command line and environment to settings, worker processes, runtime parameters, target type, hooks and adapter | detailed specification |
| `Delivery` | a version from its bump to main, tag, PyPI, and an environment of DataRobot | detailed specification |
| `MemProfile` | `main()` of the script with the container and the sampler in it | detailed specification |
| `BatchReporterProofs`, `ChatRequestProofs`, `SyncAdapterProofs`, `LifespanProofs`, `StartupProofs`, `EndpointsProofs`, `DeliveryProofs`, `MemProfileProofs` | their theorems | proofs |
| `MC...` | symmetry sets and values for the configurations | |

A definition whose comment calls it a variant is one of the plausible bugs the properties are held against; nothing
else uses it. No module uses a RECURSIVE operator.

### How an action corresponds to the code

An action of the event loop is what one task does from one await to the next, for
nothing else of the loop can come between. Threads are interleaved where they touch
shared state. `PROJECT.json` gives the lines of every definition.

`BatchReporter`. `LoopPut`/`PutIgnored` are `_put` on the loop; `ThreadCheck` is a thread
that has read `_closed`, `ThreadHandoff` its `call_soon_threadsafe`, `RunCallback` the
callback in the loop, which does not look at `_closed` again. `GetFirst`, `GetNext` and
`FlushTimeout` are the awaits of `_collect_batch`; `PostAccepted`, `PostFailed` (an
`httpx.HTTPError`, or a retryable status), `PostRejected`, `PostRaises` (anything else, logged by `_run`)
and `BackoffEnds` are those of `_post`. `Aclose` runs up to its `wait_for`,
`QueueWithStop` being the sentinel on a queue that may be full; `AcloseFinishes` and
`AcloseTimesOut` are its two ends. `fate`, `posted`, `recorded` and `owed` are history:
they record what became of each record and influence nothing.

`ChatRequest`. The handler's part is `Reject` to `PlainServed`; `AskGenerator` and the
actions of `Generate` are a generator's step in two halves, because a synchronous one
runs in a thread and the client may leave in between; `Report` is the middleware's
`report`, called from the places the code calls it. `wire`, `events` and
`client` are what is outside.

`SyncAdapter`. `SubmitWarmup` to `SharedLoadReturns` are `initialize`, one action per
blocking point; `MakeLoop`, `InitializerReturns`, `InitializerRaises` the
thread initializer, split after the loop is listed because another thread, or a failure,
can come there; `Take`, `TaskEnds`, `CountIdle` and `Exit` a thread's loop; `RunInExecutor` a
request; `Shutdown` and `CloseLoops` the two sides of the join. The pool is modelled as
CPython's: a task starts a thread only if no thread has counted itself idle, which is why
`AdjustThreads` may start none.

`Lifespan`. `SetupOtel` to `StartData` are the steps of `lifespan()` up to its `yield`, instances of `Start`, which says
how a step may fail; `StopUploads` to `StopOtel` are the `finally` block, and `Exit` is what asyncio and the interpreter
do with what is left. Both join the hook pool's threads, and a thread whose initializer fails late (`config.late`, which stands for
`SyncAdapter`'s broken pool) may make that join endless: `JoinsInVain`, after which the process is `stuck`. `Enter` to `Answer` follow a moderated score through the thread that calls `_sync_score_hook` and the
loop that runs its coroutine; `UploadCustomMetrics`, `TakeUpload` and `EndUpload` are the pipeline's upload in the
executor `ModelAdapter` gives it. That uvicorn ends requests first is in `BeginShutdown`.

`PredictionResponse`. `Split`, `RowsOutcome` and `Item` are the two halves of
`format_prediction_response`; `Predict` is the handler around it. A column is a name and
whether it is a string; a cell is a number, a text or a list, which is all that
`float()`, `str()` and the builders tell apart. NaN, duplicate columns and a label configured twice are left out.

`Endpoints`. `Refusal` is what a handler checks before its hook, in the order of the code; `CallHook` awaits it, and
`HookRaises`, `HookScores`, `HookLists` and `HookAnswers` are its ends. A text is the charset it was written
in, which is what `Decoded` and `Outgoing` can get wrong; `TextMimetype` and `ParsedCharset` are what the code makes of a Content-Type
whose type is not in lower case or whose charset is in quotes. `Raisable` are the errors of a hook: an `ApiError` keeps its status,
anything else is a 500.

`Startup`. `Merge`, `Publish` and `LoadParameters` are `run_server` up to `uvicorn.run`; `ReadSettings` to
`FinishStart` are the lifespan of a worker up to its `yield`, one action per thing it reads or decides;
`Restart` is the supervisor, which starts a worker with the environment the command left. Each way an option can
travel has one representative (see the head of the module), and a path is a name that is relative or absolute.

`Delivery`. `WriteVersion`, `InsertEntry` and `Lock` are the three writes of `bump_version.py`, and `BumpEnds` is its end after any
of them; `CheckPasses` is `main()` of `check_changelog.py`, the guard of `Merge` unless the pull request
carries the label `skip-changelog` (`labelled`); `Finds` is what `parse_changelog` makes of an entry. `Push` is a push to main as
`release.yml` sees it, whose run goes through `StartRun`, `TagRelease` and `PublishToPyPI`; `TagRelease` may fail before the tag, or
after it, where nothing is published. `Dispatch` is a run by hand, which makes no tag, and `TagByHand` is `tag_and_push_release.sh`, which
makes nothing else; `OthersMerge` are other developers. `StartUpload` to `UploadFails` are
`upload_dr_env.py`, one action per thing that stays if the script ends there. A changelog is the sequence of its
versions and one slip; `NameRank` is the order of file names.

`MemProfile`. `pc` is the step of `main()`; the actions up to `RemoveContainer` are its steps, a phase being two (`BeginPhase` and
its end) because the container may die in it. `Fail` and `Interrupt` leave the `try`, `StopSampler` to `Cleanup` are its `finally`, of
which `WriteReport` may raise past `Cleanup` and `StopSampler` leaves the container's process alone if the image has no `pkill`,
`RemoveContainer` is the `KeyboardInterrupt` handler. `ContainerDies`, `SamplerDies`, `Killed` and `RunAgain` are the outside.

## 3. What is checked

| run | shows | bounds |
|---|---|---|
| `reporter_safety` | `EachRecordInOnePlace`, `DroppedIsExact`, `BatchesAreBounded`, `CleanCloseLeavesNothing`, `CountsAreBounded`, and `ImplementsLine` (the reporter implements `ReportQueue`) | 4 records; queue, batch and attempts of 2 |
| `reporter_stop` | while only `httpx.HTTPError` leaves `client.post`: `StopIsKept`, `StopEndsDrain`, `RecordsSettle` | 3 records |
| `reporter_warning` | expected violation of `WarnsOfRemainder`, see findings | 2 records |
| `chat_request` | `CountedExactlyOnce`, `RecordTellsOutcome`, `StreamIsTerminated`, `RowIsWholeAnswer`, `RequestEnds` | streams of up to 3 chunks, all modes and configurations |
| `adapter` | `HooksRunPrepared`, `InitializeIsHonest`, `NothingOutlivesShutdown`, `TasksAreInOnePlace`, `RequestsResolve`, `ShutdownReturns` | 3 threads, 3 no-ops, 2 requests |
| `lifespan` | `RequestsMeetTheLiving`, `UploadsRunInTurn`, `ScoresEnd`, `ServerEnds` | 3 requests, 2 threads in the default pool |
| `prediction_response` | `CellsAreKept`, `ClassesAreTheModels`, `ExtraDecidesNothing`, `RowsAreChecked`, `TextSurvives`, `FaultsAreAttributed` | every frame of up to 3 columns (of 4 names, 2 of which a number prints as), 2 rows and 4 cells; every request of the other routes |
| `startup` | `WorkersFollowTheCommand`, `ParametersArrive`, `ServedHooksAreUniform`, `TargetsAgree` | one worker and its replacements, 2 hooks, every input |
| `startup_target` | expected violation of `TargetIsConfigured` | the same |
| `delivery` | `MainIsWhole`, `PersonalStaysPersonal`, `TaggedIsPublished` | versions 9 to 11, a bump on a changelog of one entry, 2 installations, 2 uploads |
| `delivery_wheel` | expected violation of `UploadIsLabelled` | versions 9 and 10, one installation, 2 uploads |
| `mem_profile` | `SweepIsOfOneLife`, `LeavesNothingBehind` | 3 levels, 2 runs |

Why the bounds are enough to meet the cases: with limits of 2 and 4 records the queue and
the batch both fill while records are left over, so records are dropped, the sentinel displaces one, and a
batch is retried until its attempts run out while threads still hand over. Three chunks
put a failure before the first, between two and after the last. Three threads are one
that works, one that is late and one that fails; two requests meet a queue and a broken pool. Three requests over
two threads of the default pool fill it and leave one waiting, and three uploads are one that runs, one that waits and one that is
refused. Three columns are a label or target, its rival and an extra one, and four cells are
two rows of two; with two names of numbers, columns of a number and of a text print alike in every way three columns can.
One worker is enough for `Startup` because workers share nothing but an environment
that no longer changes, and two hooks are the least that can differ in kind. Version 9 to 10 is where the order of
names and of releases part, and two releases, of the developer's and the others', are what it takes for one to overtake a branch
and another to replace a waiting run, which manual and repeated runs also do; two uploads are one that leaves `dist/`, `personal_env.json` or an environment behind and one that meets it. Three
levels are one before the container's death, one during and one that must not follow; a second run meets what
the first left.

`delivery` cuts the product of parts that hardly meet by three bounds, defined beside the model. `UploadsBeforeReleases`: an upload
sees the version of the working tree and nothing else of the repository, and nothing of the repository sees an upload, so what
releases do after an upload has begun is what they do without it. `WorkedOnInQuiet`: files of the tree change while no run is under
way, for GitHub sees of the tree only merges and tags, which are made at any time. `OneFault`: a slip of the changelog and a stale
`uv.lock` are not explored together, since the gate refuses either, and of slips on main only a heading that does not parse, which is
the one a run sees. `MaxEntries` keeps the developer from a second bump on top of an own or a foreign one; the version can still be set
by hand before a bump, so that the branch carries a later one than main and is rebased. The theorems of `Delivery` need none of these.

Symmetry is used only in the run of `reporter_safety` (the
abstract specification of `ImplementsLine` states no fairness).

`CHECK_DEADLOCK FALSE` is set throughout because each system stops: a reporter that is closed,
a request that is over, an adapter that is shut down or has failed to start, a process that is gone, one
answer, a command that ends before it runs a server, a last version, a last run.

### Fairness

* `DrainFairness` (with `AcloseFinishes`, `DrainSpec`): the loop runs callbacks that are ready, a thread that has read `_closed` goes
  on, and each await of the drain ends: a get when the queue is not empty, the flush at
  its deadline (`flush_interval_s`), a POST by the client's timeout (`timeout_s`), a
  backoff by its length. The time limit of `aclose` is not assumed: the drain has to end without it. Nothing is assumed
  of `report` or of anybody calling `aclose`.
* `ChatRequest!FairSpec`: the loop goes on with the request, the hook returns and its generator
  yields; this is assumed of the user's code, since nothing in the server limits it. Clients are
  not assumed to leave or to stay.
* `SyncAdapter!FairSpec`: each thread runs, `initialize` and the last part of `shutdown` go on;
  hooks return. No fairness for requests or for the decision to stop.
* `Lifespan!Spec`: the start and the stop go on, requests that are under way go on, uploads are taken and return. The step
  that joins the hook pool ends too, in success, with an exception, or `stuck`. Nobody has to send a request or to stop the server.

## 4. What is proved

For all values of the constants allowed by the named assumptions: sets of
records, threads, tasks, requests, workers, hooks and names of any size, streams of any length, any
positive limits, any list of labels, frames of any size, any versions and numbers of levels and runs.

`BatchReporterProofs` (from `SentinelAssumption`, `RecordsAssumption`, `LimitsAssumption`,
`RaiseAssumption`):

* `TypeCorrect`: `Spec => []TypeOK`.
* `BatchesBounded`, from `ControlInv`, which says in which drain states a batch
  may exist and how long it is. `BatchesAreBounded` alone
  is not inductive: that a batch is not empty depends on where the drain waits.
* `OnePlace`: `EachRecordInOnePlace`. The property speaks of `batch \o queue \o handoff`; the
  inductive `PlaceInv` takes the three apart - each free of duplicates, pairwise disjoint, and together
  exactly the pending records - so that a step changes one or two of the parts. `PlacesTogether`
  puts them together again.
* `StopStays`: `StopIsKept`, from these and `StopInv`: the sentinel is in the queue until the drain has
  taken it, and only an exception that is no `httpx.HTTPError` makes the drain forget it.
* `CountsBounded`: `CountsAreBounded`, from `CountInv`, which ties the count of a record in the batch to the
  attempt, and makes it zero for records that are nowhere near a POST.
* `DroppedCounts`: `DroppedIsExact`, with the cardinality theorems of the library; a record is dropped once since
  it is in one place.
* `CleanClose`: `CleanCloseLeavesNothing`, from `CareInv`: a record `aclose` found is settled, in the batch, or ahead of the
  sentinel, so that a drain that took the sentinel has taken it before.

* `Implements`: `Spec => ImplementsLine`, the refinement. The line of `ReportQueue` is `batch \o RecordsOf(queue)`, where `RecordsOf`
  leaves the sentinel out; the sentinel is there at most once by `PlaceInv`, so lemmas say what `RecordsOf` makes of `Append`, `Tail` and
  the sentinel itself without an induction. `LineStep` has a step for every action: a put joins at the end or is turned
  away (`PutJoins`), an await of the drain leaves the line alone (`TakeStutters`) or lets the batch leave from its head
  (`SettleLeaves`), and `aclose` closes it, at the cost of at most one record (`AcloseCloses`). It needs the invariants above:
  that a record is in one place is why a put joins only once and what leaves is what was known.

`ChatRequestProofs` (from `ChunksAssumption`): `ChatTypeCorrect`, `OneRecordPerRequest`, `RecordsTellTheOutcome`, `StreamsTerminate` and
`RowsAreWhole`, all from one invariant of five parts. `Reporting` relates the middleware's record to the status sent and the
failure mark, `Wire` the stage of the request to what is on the wire, `Streaming` the generator to both, `Shown` says
what a client that stays has been sent at each stage of the generator, and `Row` when a row exists. None is inductive
alone: that a complete stream was exhausted needs `Streaming`, that its last event is `[DONE]` needs `Shown` on the way.

`SyncAdapterProofs` (from `WorkersAssumption`, `TasksAssumption`):

* `AdapterTypeCorrect`: `TypeOK`.
* `PreparedHooks`: `HooksRunPrepared`, from `ThreadInv`, which extends it to threads that wait and
  relates `loops`, `listed` and the state of each thread.
* `OnePlaceForTasks`: `TasksAreInOnePlace`, from `TaskInv`, which adds where the sentinel may be.
* `ShutdownIsClean`: `NothingOutlivesShutdown`, from both.
* `HonestInitialize`: `InitializeIsHonest`, from `HonestInv`: a no-op is broken only when an
  initializer has failed, and one that is done was run by a thread that is ready.

`LifespanProofs` (no assumption): `RequestsAreServed` from `StartedSoFar` (what is up follows from how far the start has come) and
`RequestsOnlyServed` (requests are under way only while it serves); `UploadsTakeTurns` with `QueuedOnce`, without which an upload could be
taken twice.

`StartupProofs` (from `ThreadsAssumption`): `StartupTypeCorrect`, `CommandsAreFollowed`, `ParametersReachWorkers`, `HooksFitTheirAdapter`,
`OneTarget`, from `EnvironmentFollows` (the environment is a function of the inherited one and of how far the command is) and
`WorkerFollows` (what a worker has found is a function of the environment), with lemmas on the conversions of the settings:
what is published and read back is what was merged.

`DeliveryProofs` (from `VersionsAssumption`, `NoneAssumption`): `MainReleasable`: `MainIsWhole`. Alone it is not inductive, for a merge could drop
entries of main and a tag be made of a version whose entry is gone. `SharedHistory` says that the tree ends with the entries main
had when it was forked, and `Documented` that the entry a run has found is still there. `TagsArePublished`:
`TaggedIsPublished`, which is inductive with the types of what GitHub holds (`TagInv`): only the run that made a tag can be between
it and the publishing. `PersonalUploads`: `PersonalStaysPersonal`, from
`PersonalInv`: what was decided when the environment was chosen is kept to the end, and a cached environment exists and is nobody's
public one.

`MemProfileProofs` (from `LevelsAssumption`): `SweepSound` from `SweepInv`, which says of each step of `main()` what has been measured and in what
state of the container; `NothingLeft` from `LeftInv`, which follows the run out of its `try`
and, when the report cannot be written, out of its `finally`.

`EndpointsProofs` (from `NamesAssumption`, `LabelsAssumption`, `BoundsAssumption`): `CellsKept`, `RowsChecked`, `ClassesOfTheModel`,
`ExtraIsIdle`, `TextIsKept` and `FaultsAreBlamed`. `RouteInv` says of each stage what the hook has been given and that a formatted answer
is `Format` of the frame; `FaultsAreAttributed` alone is not inductive, since it says nothing of a request whose
hook has been called. The rest is about the operators. `SplitCases` is what the split can do: leave the frame whole, for one of
four reasons (`WholeFits`), take one column, or take those of the labels. `AnswerRow` gives each row its item, `ClassFacts`
and `ScalarFacts` what its cells were, `PredictedFacts` that the label is of the greatest value, for which a greatest
has to exist (`GreatestExists`, by the well-foundedness of the numbers). `ExtraIsIdle` splits the remaining
columns again (`SplitAlone`) and compares row by row (`SameRow`).

What the proofs changed in the model:

* `ClassesAreTheModels` used to say that with a complete configuration every label has one value. The proof failed where a column named by
  a number and one named by its text both stand for a label the frame lacks as a text; two names of numbers in the
  run show it too: an answer may then have two values of one label and the property now says what is left.
* Three definitions used overlapping guards in a `CASE`, which TLC takes in order and TLA+ does not; they are conditionals now.
* The extra output is a set: its order is the frame's, and no property depends on it.

Only model-checked: the liveness properties `StopEndsDrain`, `RecordsSettle`, `RequestEnds`, `RequestsResolve`, `ShutdownReturns`,
`ScoresEnd` and `ServerEnds`, since liveness under fairness and `ENABLED` are beyond the prover.

## 5. Findings

* **A lost stop request** (`reporter_warning`). `_run` catches any exception of `_post`, and with it
  loses `stopping` of the batch the sentinel closed
  (`fastrag/prediction_stats.py:219-222`). The drain then waits for a record that will not
  come, `aclose` waits out its limit and warns of "remaining records" when there are none.
* **A target type unread** (`startup_target`). A worker takes the target type from the runtime parameters
  file or the environment, else regression (`fastrag/server.py:187`); the code directory's `model-metadata.yaml`, which
  `tests/models/python3_dummy_textgen/README.md:11-12` names as a source, is read by moderation only.
* **A wheel under another name** (`delivery_wheel`). `_build_wheel` takes the last name in `dist/`
  (`scripts/upload_dr_env.py:83`). After a build of 0.2.9, the wheel of 0.2.10 is not the last: the old one
  is uploaded, labelled and announced as 0.2.10.

Observed while modelling. Where such a behaviour bears on a property, the property's wording exempts it:

* A row is queued before FastAPI validates the answer against the response model (`fastrag/server.py:446`), so a 500 may have one,
  where `README.md:198` says failed requests are not reported; `RowIsWholeAnswer` speaks of streams.
* The warm-up submits one no-op per thread, but one idle thread may run several: the others start, and call `load_model`, under
  requests (`fastrag/model_adapter.py:244` against the log at line 264). An initializer that fails then breaks the
  pool of a server that has been serving, and if `shutdown()` joins the threads meanwhile, it drains the queue, the sentinel
  included: an idle thread waits for ever, and so does the join, on the event loop's thread. `ShutdownReturns` exempts this case (`\/ broken`), and `ServerEnds` the server whose
  `shutdown()`, or whose exit, joins those threads (`fastrag/model_adapter.py:344`): in the first case the reporters are never closed.
* Score hooks of `AsyncModelAdapter` that themselves need the loop's default pool wait for ever when pipelines hold all its threads
  (`fastrag/model_adapter.py:192`); the server then cannot be stopped in an orderly way. `ScoresEnd` exempts it (`Starved`).
* `str(result_df.columns[0])` does not find a column named by a number (`fastrag/validation.py:89`), and the columns after
  it are missing from a 200; `CellsAreKept` exempts a number as first name. A tie between two class scores goes to
  the first column, whose order depends on whether the frame has extra columns (`ExtraDecidesNothing` exempts ties).
* `parse_content_type` unquotes nothing and compares the type letter by letter (`fastrag/validation.py:133-149`): a client that writes
  `charset="utf-8"` gets a 400, one that writes `Text/Plain` has its hook called with bytes. `TextSurvives` promises text where
  the header is written as the code reads it, and elsewhere only that no other text arrives.
* An `ApiError` a hook raises keeps its status (`fastrag/server.py:593-594`), so a 404 or 422 may come from the hook;
  `FaultsAreAttributed` says so.
* `--verbose` and `--allow-dr-api-access` are false, not absent, when they are not given, so `VERBOSE=true` in the environment is
  overridden with `false` (`fastrag/main.py:36`, `:48`), although `README.md:163-170` offers the variable beside the option. The model
  does what the code does; `WorkersFollowTheCommand` asks that a switch given is on, and that none is on nobody asked for, and leaves
  this point open.
* A bump that fails after its first write leaves it, and the next one skips a version (`scripts/bump_version.py`, whose head says that a bump
  cannot half-land). The gate keeps such a tree off main.
* A pull request labelled `skip-changelog` passes the gate with anything in it (`.github/workflows/changelog-check.yml:25`): main may then
  hold a version without an entry, whose run `release_notes.py` fails. `MainIsWhole` exempts main until a checked merge repairs it.
* The gate accepts two entries of one new version, of which `release_notes.py` takes the older.
* A waiting run of `release.yml` is replaced by any newer one, so a version may never be tagged. One whose publishing failed, or whose
  `gh release create` failed after it made the tag (`.github/workflows/release.yml:67-71`), is published by a manual run only, since the tag
  stops every later push. A tag of `scripts/tag_and_push_release.sh` has the same effect without any run that failed; `TaggedIsPublished`
  exempts it (`byHand`).
* A manual run on main publishes whatever main ships, with or without an entry or a tag.
* An environment created just before `upload_dr_env.py` is interrupted, or before another installation is used, is not found
  again: the next upload makes a second one.
* When the report cannot be written (`scripts/mem_profile.py:1135-1160`) the `finally` ends before `cleanup` at line 1161: the container stays
  without `--keep`, and an interrupt under way is replaced by the new exception, so that its handler does not remove it either.
  The result of `pkill` in the container is not looked at (lines 246-249): in an image without it the sampler's process goes on.
  `LeavesNothingBehind` exempts both.
* `mem_profile.py` removes the container on a `KeyboardInterrupt` even with `--keep`; a container that dies while it soaks or cools down, or a
  sampler that is killed alone, shows only as rows without values.

## 6. Not modelled

* Schemas (`fastrag/schemas.py`) are declarations; where a response has to validate against one, that is a guard.
* Telemetry is two steps of `Lifespan`; exporters and instrumentation are calls of an SDK.
* What `load()` does to `sys.path` and `sys.modules`: it runs once per process.
* Options that travel like a modelled one, payload types of runtime parameters and `RuntimeParameters.get`, which user code
  calls.
* What is in a record, a row or a payload; NaN and duplicate columns of a frame, a label configured twice; the tables and fits of `mem_profile.py`.
* `scripts/test_models.py` and `verify_docker.sh` call commands in a row and keep no state.
* Tests, examples and docs were read for what they say of the program.
* The moderation pipeline, uvicorn, Starlette, httpx, docker, GitHub and DataRobot are external: they appear as the actions and
  guards this code's use of them implies.
