---------------------------- MODULE ChatRequest ----------------------------
(***************************************************************************)
(* One POST to /chat/completions, from the router to the last chunk on the *)
(* wire: chat_completions and _format_chat_response, the generators of the *)
(* server-sent events, and PredictionStatsMiddleware around them           *)
(* (fastrag/server.py).                                                    *)
(*                                                                         *)
(* The request's task runs from one await to the next in one step.  A      *)
(* generator step is two: the generator is asked for its next event, and   *)
(* it answers - in a worker thread when the hook returned a synchronous    *)
(* generator.  In between the client may leave and the server may cancel   *)
(* the task.  Requests share nothing but the two reporters, so one request *)
(* is enough; what the reporters do with a record is BatchReporter.        *)
(***************************************************************************)
EXTENDS Integers, Sequences, SequencesExt

CONSTANT MaxChunks      \* the most chunks a stream yields

ASSUME ChunksAssumption == MaxChunks \in Nat

Modes == {"plain", "async", "sync"}          \* what the chat hook returns
Events == {"chunk", "error", "done"}         \* what a stream sends
RecordKinds == {"success", "userError", "systemError"}
Statuses == {200, 307, 422, 500, 501}        \* one status of each kind that matters

VARIABLES
    \* fixed for the request
    mode,        \* what the hook is going to return
    statsOn,     \* app.state.prediction_stats is not None
    dataOn,      \* app.state.prediction_data is not None
    hasPrompt,   \* chat_prompt_text finds a prompt
    \* the request's task
    pc,          \* see PCs
    status,      \* status of the middleware: of the response started, 500 before
    reported,    \* reported of the middleware
    failed,      \* the STREAM_FAILED_STATE_KEY flag in the request's scope
    \* the stream
    gen,         \* the generator, see GenStates
    stage,       \* what it yields next: chunks, after an error, nothing
    offer,       \* the event it has yielded and that is not sent, or "none"
    chunks,      \* chunks yielded so far
    \* what others see
    client,      \* "connected" or "gone"
    wire,        \* the response: "none", "started", "complete" or "cut"
    wireStatus,  \* its status, 0 before it is started
    stamped,     \* it carries x-drum-version
    events,      \* events sent to a client that was still there
    stats,       \* records given to the stats reporter
    rows         \* rows given to the data reporter: how many chunks each joins

requestVars == <<mode, statsOn, dataOn, hasPrompt>>
streamVars  == <<gen, stage, offer, chunks>>
wireVars    == <<wire, wireStatus, stamped>>
vars == <<requestVars, pc, status, reported, failed, streamVars, client, wireVars,
          events, stats, rows>>

PCs == {
    "routed",     \* the route is matched, the handler not entered
    "hook",       \* awaiting model_adapter.chat
    "returned",   \* the hook has returned
    "body",       \* its start is sent, its body is not
    "stream",     \* a streaming response is under way
    "cut",        \* the stream was stopped because the client left
    "crashed",    \* an exception passed the middleware, no response was started
    "ended"}

GenStates == {"idle", "running", "closed"}
Stages == {"chunks", "afterError", "exhausted"}

TypeOK ==
    /\ mode \in Modes
    /\ statsOn \in BOOLEAN /\ dataOn \in BOOLEAN /\ hasPrompt \in BOOLEAN
    /\ pc \in PCs
    /\ status \in Statuses
    /\ reported \in BOOLEAN /\ failed \in BOOLEAN
    /\ gen \in GenStates /\ stage \in Stages
    /\ offer \in Events \cup {"none"}
    /\ chunks \in 0 .. MaxChunks
    /\ client \in {"connected", "gone"}
    /\ wire \in {"none", "started", "complete", "cut"}
    /\ wireStatus \in Statuses \cup {0}
    /\ stamped \in BOOLEAN
    /\ events \in Seq(Events)
    /\ stats \in Seq(RecordKinds)
    /\ rows \in Seq(0 .. MaxChunks)

Init ==
    /\ mode \in Modes
    /\ statsOn \in BOOLEAN /\ dataOn \in BOOLEAN /\ hasPrompt \in BOOLEAN
    /\ pc = "routed"
    /\ status = 500
    /\ reported = FALSE /\ failed = FALSE
    /\ gen = "idle" /\ stage = "chunks" /\ offer = "none" /\ chunks = 0
    /\ client = "connected"
    /\ wire = "none" /\ wireStatus = 0 /\ stamped = FALSE
    /\ events = <<>>
    /\ stats = <<>>
    /\ rows = <<>>

-----------------------------------------------------------------------------
(* PredictionStatsMiddleware *)

\* A variant of KindOf: one kind of error.
KindOfError(s) == IF s < 400 THEN "success" ELSE "error"

\* num_predictions, user_error and system_error of the record.
KindOf(s) == CASE s < 400 -> "success"
               [] s >= 400 /\ s < 500 -> "userError"
               [] s >= 500 -> "systemError"

\* Variants of Report: without the flag that a record was made, and without the
\* look at the stream's failure.
ReportAgain(s) ==
    /\ reported' = TRUE
    /\ LET final == IF failed THEN 500 ELSE s
       IN stats' = IF ~statsOn \/ final \in 300 .. 399
                   THEN stats ELSE Append(stats, KindOf(final))

ReportWireStatus(s) ==
    IF ~statsOn \/ reported
    THEN UNCHANGED <<reported, stats>>
    ELSE /\ reported' = TRUE
         /\ stats' = IF s \in 300 .. 399 THEN stats ELSE Append(stats, KindOf(s))

\* report: one record for the request, none for a redirect; a stream that failed
\* after its 200 is a system error.  Without a reporter the middleware does nothing.
Report(s) ==
    IF ~statsOn \/ reported
    THEN UNCHANGED <<reported, stats>>
    ELSE /\ reported' = TRUE
         /\ LET final == IF failed THEN 500 ELSE s
            IN stats' = IF final \in 300 .. 399
                        THEN stats ELSE Append(stats, KindOf(final))

\* send_and_report, http.response.start: the status is kept, the header stamped.
SendStart(s) ==
    /\ status' = IF statsOn THEN s ELSE status
    /\ wire' = "started"
    /\ wireStatus' = s
    /\ stamped' = statsOn

\* send_and_report, the last http.response.body: it is sent, then reported.
SendLastBody ==
    /\ wire' = "complete"
    /\ Report(status)
    /\ UNCHANGED <<wireStatus, stamped>>

\* except Exception around the application.
CrashPassesMiddleware ==
    /\ Report(500)
    /\ pc' = "crashed"

-----------------------------------------------------------------------------
(* chat_completions *)

\* FastAPI refuses the body (422), or _ensure_hook_available has no hook (501).
Reject ==
    /\ pc = "routed"
    /\ \E s \in {422, 501} : SendStart(s)
    /\ pc' = "body"
    /\ UNCHANGED <<requestVars, reported, failed, streamVars, client, events, stats, rows>>

CallHook ==
    /\ pc = "routed"
    /\ pc' = "hook"
    /\ UNCHANGED <<requestVars, status, reported, failed, streamVars, client, wireVars,
                   events, stats, rows>>

\* _await_or_api_error: an ApiError of the hook keeps its status, any other
\* exception becomes a 500; handle_api_error answers.
HookFails ==
    /\ pc = "hook"
    /\ \E s \in {422, 500} : SendStart(s)
    /\ pc' = "body"
    /\ UNCHANGED <<requestVars, reported, failed, streamVars, client, events, stats, rows>>

HookReturns ==
    /\ pc = "hook"
    /\ pc' = "returned"
    /\ UNCHANGED <<requestVars, status, reported, failed, streamVars, client, wireVars,
                   events, stats, rows>>

\* chat_prompt_text meets a content part that is not a dict, or a response cannot
\* be serialized: neither is inside _await_or_api_error.
HandlerRaises ==
    /\ pc = "returned"
    /\ dataOn \/ mode = "plain"
    /\ CrashPassesMiddleware
    /\ UNCHANGED <<requestVars, status, failed, streamVars, client, wireVars, events, rows>>

\* on_complete: reporter.report, which wants a prompt.
OnComplete(n) == rows' = IF dataOn /\ hasPrompt THEN Append(rows, n) ELSE rows

\* _format_chat_response of a complete answer gives the row to the reporter, and
\* the answer - or the hook's own Response - passes FastAPI's response_model.
PlainServed ==
    /\ pc = "returned"
    /\ mode = "plain"
    /\ OnComplete(0)
    /\ \E s \in {200, 307} : SendStart(s)
    /\ pc' = "body"
    /\ UNCHANGED <<requestVars, reported, failed, streamVars, client, events, stats>>

\* The same, and the answer does not fit response_model.
PlainInvalid ==
    /\ pc = "returned"
    /\ mode = "plain"
    /\ OnComplete(0)
    /\ CrashPassesMiddleware
    /\ UNCHANGED <<requestVars, status, failed, streamVars, client, wireVars, events>>

SendBody ==
    /\ pc = "body"
    /\ SendLastBody
    /\ pc' = "ended"
    /\ UNCHANGED <<requestVars, status, failed, streamVars, client, events, rows>>

\* handle_unexpected_error, above every middleware.
SendUnexpectedError ==
    /\ pc = "crashed"
    /\ wire' = "complete"
    /\ wireStatus' = 500
    /\ stamped' = statsOn
    /\ pc' = "ended"
    /\ UNCHANGED <<requestVars, status, reported, failed, streamVars, client,
                   events, stats, rows>>

-----------------------------------------------------------------------------
(* _stream_openai_chunks and _astream_openai_chunks *)

StartStream ==
    /\ pc = "returned"
    /\ mode # "plain"
    /\ SendStart(200)
    /\ pc' = "stream"
    /\ UNCHANGED <<requestVars, reported, failed, streamVars, client, events, stats, rows>>

\* A variant of AskGenerator: nothing is asked for after an error.
AskGeneratorUntilError ==
    /\ pc = "stream"
    /\ gen = "idle" /\ offer = "none" /\ stage = "chunks"
    /\ gen' = "running"
    /\ UNCHANGED <<requestVars, pc, status, reported, failed, stage, offer, chunks,
                   client, wireVars, events, stats, rows>>

\* StreamingResponse asks for the next event once the last one is sent.
AskGenerator ==
    /\ pc = "stream"
    /\ gen = "idle" /\ offer = "none" /\ stage # "exhausted"
    /\ gen' = "running"
    /\ UNCHANGED <<requestVars, pc, status, reported, failed, stage, offer, chunks,
                   client, wireVars, events, stats, rows>>

\* The generator yields e and is suspended, or closed when nothing follows.
Yield(e, next) ==
    /\ gen = "running"
    /\ offer' = e
    /\ stage' = next
    /\ gen' = IF next = "exhausted" THEN "closed" ELSE "idle"

YieldChunk ==
    /\ stage = "chunks"
    /\ chunks < MaxChunks
    /\ Yield("chunk", "chunks")
    /\ chunks' = chunks + 1
    /\ UNCHANGED <<requestVars, pc, status, reported, failed, client, wireVars,
                   events, stats, rows>>

\* Variants of StreamRaises: nothing follows the error event, and the row is
\* reported for what there is.
StreamRaisesAndStops ==
    /\ stage = "chunks"
    /\ Yield("error", "exhausted")
    /\ failed' = TRUE
    /\ UNCHANGED <<requestVars, pc, status, reported, chunks, client, wireVars,
                   events, stats, rows>>

StreamRaisesWithRow ==
    /\ stage = "chunks"
    /\ Yield("error", "afterError")
    /\ failed' = TRUE
    /\ OnComplete(chunks)
    /\ UNCHANGED <<requestVars, pc, status, reported, chunks, client, wireVars,
                   events, stats>>

\* The hook's generator or the serialization of a chunk raises: the request is
\* marked and the client told in-band.
StreamRaises ==
    /\ stage = "chunks"
    /\ Yield("error", "afterError")
    /\ failed' = TRUE
    /\ UNCHANGED <<requestVars, pc, status, reported, chunks, client, wireVars,
                   events, stats, rows>>

DoneAfterError ==
    /\ stage = "afterError"
    /\ Yield("done", "exhausted")
    /\ UNCHANGED <<requestVars, pc, status, reported, failed, chunks, client, wireVars,
                   events, stats, rows>>

\* The hook's generator is exhausted: the row joins what the chunks held.
StreamCompletes ==
    /\ stage = "chunks"
    /\ OnComplete(chunks)
    /\ Yield("done", "exhausted")
    /\ UNCHANGED <<requestVars, pc, status, reported, failed, chunks, client, wireVars,
                   events, stats>>

\* A chunk goes out; the server drops what it sends to a client that is gone.
SendEvent ==
    /\ pc = "stream"
    /\ offer # "none"
    /\ events' = IF client = "connected" THEN Append(events, offer) ELSE events
    /\ offer' = "none"
    /\ UNCHANGED <<requestVars, pc, status, reported, failed, gen, stage, chunks,
                   client, wireVars, stats, rows>>

EndStream ==
    /\ pc = "stream"
    /\ stage = "exhausted" /\ offer = "none"
    /\ SendLastBody
    /\ pc' = "ended"
    /\ UNCHANGED <<requestVars, status, failed, streamVars, client, events, rows>>

-----------------------------------------------------------------------------
(* The client and the server around the application *)

ClientLeaves ==
    /\ client = "connected"
    /\ pc # "ended"
    /\ client' = "gone"
    /\ UNCHANGED <<requestVars, pc, status, reported, failed, streamVars, wireVars,
                   events, stats, rows>>

\* StreamingResponse hears of it and stops its stream.  An asynchronous generator
\* is cancelled where it is; a synchronous one finishes the step its thread is in.
StopStream ==
    /\ pc = "stream"
    /\ client = "gone"
    /\ mode = "sync" => gen # "running"
    /\ gen' = "closed"
    /\ offer' = "none"
    /\ pc' = "cut"
    /\ UNCHANGED <<requestVars, status, reported, failed, stage, chunks, client, wireVars,
                   events, stats, rows>>

\* The middleware that attaches the trace context closes the response with an
\* empty last body ...
CloseCutStream ==
    /\ pc = "cut"
    /\ Report(status)
    /\ wire' = "cut"
    /\ pc' = "ended"
    /\ UNCHANGED <<requestVars, status, failed, streamVars, client, wireStatus, stamped,
                   events, rows>>

\* ... or the task is cancelled before, as by a server that does not wait for it:
\* CancelledError is not an Exception and makes no record.
Cancelled ==
    /\ pc \notin {"routed", "ended", "crashed"}
    /\ mode = "sync" => gen # "running"
    /\ gen' = "closed"
    /\ offer' = "none"
    /\ wire' = IF wire = "started" THEN "cut" ELSE wire
    /\ pc' = "ended"
    /\ UNCHANGED <<requestVars, status, reported, failed, stage, chunks, client,
                   wireStatus, stamped, events, stats, rows>>

\* ASGI lets the application raise after its last body (the exit of a dependency,
\* a background task).
RaisesAfterResponse ==
    /\ pc = "ended"
    /\ wire = "complete"
    /\ Report(500)
    /\ UNCHANGED <<requestVars, pc, status, failed, streamVars, client, wireVars,
                   events, rows>>

-----------------------------------------------------------------------------
Handle == Reject \/ CallHook \/ HookFails \/ HookReturns \/ HandlerRaises
            \/ PlainServed \/ PlainInvalid \/ SendBody \/ SendUnexpectedError
Generate == YieldChunk \/ StreamRaises \/ DoneAfterError \/ StreamCompletes
Stream == StartStream \/ AskGenerator \/ Generate \/ SendEvent \/ EndStream
            \/ StopStream \/ CloseCutStream
Surroundings == ClientLeaves \/ Cancelled \/ RaisesAfterResponse

Next == Handle \/ Stream \/ Surroundings

Spec == Init /\ [][Next]_vars

\* The loop goes on with the request, the hook returns and its generator yields.
FairSpec == Spec /\ WF_vars(Handle) /\ WF_vars(Stream)

-----------------------------------------------------------------------------
(* Properties *)

\* What the predictions gateway files on its own: a 5xx without the header.
GatewayRecords == IF ~stamped /\ wireStatus >= 500 THEN 1 ELSE 0

\* A request is never counted twice.  While the server reports, every complete
\* response carries the header and is counted once by the server - a 2xx, a 4xx and a
\* 5xx alike - unless it is a redirect, which is not counted; while it does not, the
\* header is left out and a 5xx is counted once by the gateway.  This holds whichever
\* layer built the response and whatever is raised before or after it.
CountedExactlyOnce ==
    /\ Len(stats) + GatewayRecords <= 1
    /\ wire = "complete" =>
          /\ stamped <=> statsOn
          /\ statsOn => Len(stats) = IF wireStatus \in 300 .. 399 THEN 0 ELSE 1
          /\ ~statsOn => stats = <<>> /\ (wireStatus >= 500 => GatewayRecords = 1)

\* The record says what the client got: a success only for a 200 whose stream, if
\* it is one, was not marked failed; an error of the side the status names.
RecordTellsOutcome ==
    \A i \in DOMAIN stats :
        CASE stats[i] = "success"     -> wireStatus = 200 /\ ~failed
          [] stats[i] = "userError"   -> wireStatus \in 400 .. 499
          [] stats[i] = "systemError" -> wireStatus >= 500 \/ failed \/ pc = "crashed"

\* A client that stays sees every stream end with one [DONE], and an error event
\* just before it exactly when the stream failed (the failure has to be in-band).
StreamIsTerminated ==
    wire = "complete" /\ mode # "plain" /\ wireStatus = 200 /\ client = "connected" =>
        /\ Last(events) = "done"
        /\ \A i \in DOMAIN events :
              /\ events[i] = "done" => i = Len(events)
              /\ events[i] = "error" <=> failed /\ i = Len(events) - 1

\* A stream's row is the whole answer: at most one row, only for a stream that was
\* exhausted without failing, of all its chunks; every such stream that is wanted
\* has one, also when its last step ran in a thread; and no row goes with a
\* record of an error.
RowIsWholeAnswer ==
    mode # "plain" =>
        /\ Len(rows) <= 1
        /\ rows # <<>> => /\ ~failed /\ stage = "exhausted" /\ rows[1] = chunks
                          /\ ~Contains(stats, "userError") /\ ~Contains(stats, "systemError")
        /\ wire = "complete" /\ wireStatus = 200 /\ ~failed /\ dataOn /\ hasPrompt =>
              rows # <<>>

\* Every request ends: the stream of a client that left is stopped, and an error in
\* the middle of a stream does not leave the response open.
RequestEnds == <>(pc = "ended")
=============================================================================
