--------------------------- MODULE BatchReporter ---------------------------
(***************************************************************************)
(* The reporter of fastrag/prediction_stats.py (class BatchReporter): the  *)
(* request path puts records on a bounded queue, a drain task takes them   *)
(* off in batches and POSTs each batch with retries, and aclose() stops    *)
(* the drain with a sentinel and a time limit.                             *)
(*                                                                         *)
(* One event loop runs everything except the worker threads that finish a  *)
(* synchronous stream.  Code between two awaits is atomic, so an action is *)
(* what one task does from one await to the next.  A worker thread is      *)
(* interleaved twice: after it has read _closed and after it has called    *)
(* call_soon_threadsafe.                                                   *)
(*                                                                         *)
(* Time is abstract: the flush deadline may pass whenever the drain waits  *)
(* for one more record, and the limit of aclose whenever aclose waits.     *)
(***************************************************************************)
EXTENDS Integers, Sequences, FiniteSets, Functions

CONSTANTS
    Records,       \* what report() is called with; each record is reported once
    Stop,          \* the sentinel, None in the code
    QueueMax,      \* StatsConfig.queue_max_size
    MaxBatch,      \* StatsConfig.max_batch
    MaxAttempts,   \* StatsConfig.max_attempts
    PostMayRaise   \* can _post raise something that is not an httpx.HTTPError?

ASSUME SentinelAssumption == Stop \notin Records
ASSUME RecordsAssumption  == IsFiniteSet(Records)
ASSUME LimitsAssumption   == /\ QueueMax \in Nat \ {0}
                             /\ MaxBatch \in Nat \ {0}
                             /\ MaxAttempts \in Nat \ {0}
ASSUME RaiseAssumption    == PostMayRaise \in BOOLEAN

VARIABLES
    \* the reporter
    queue,      \* _queue: records and at most one Stop
    closed,     \* _closed
    dropped,    \* dropped, the number of records a full queue has cost
    \* the drain task, _run
    drain,      \* where the task is suspended, see DrainStates
    batch,      \* the batch being collected or posted
    stopping,   \* _collect_batch has returned or will return stopping = True
    attempt,    \* the attempt _post is at, from 0
    \* the event loop and aclose()
    handoff,    \* callbacks of call_soon_threadsafe that have not run yet
    closer,     \* where aclose() is, see CloserStates
    \* what became of the records, kept for the properties
    fate,       \* the state of each record, see Fates
    posted,     \* the records DataRobot accepted, in order; Len(posted) is _posted
    recorded,   \* how often DataRobot has counted each record
    owed        \* the records aclose() found in the reporter and left there

reporterVars == <<queue, closed, dropped>>
drainVars    == <<drain, batch, stopping, attempt>>
historyVars  == <<posted, recorded, owed>>
vars == <<reporterVars, drainVars, handoff, closer, fate, historyVars>>

DrainStates == {
    "none",        \* start() has not created the task
    "idle",        \* awaiting the first record of a batch
    "collecting",  \* awaiting one more record, until the flush deadline
    "posting",     \* awaiting the response to a POST
    "backoff",     \* sleeping before the next attempt
    "ended",       \* returned after the sentinel
    "cancelled"}   \* cancelled by the time limit of aclose

CloserStates == {
    "open",        \* aclose() has not been called
    "waiting",     \* aclose() awaits the drain task
    "finished",    \* the drain ended in time
    "warned"}      \* the drain was cancelled, and the warning logged

Fates == {
    "new",         \* not reported yet
    "checked",     \* a worker thread has found _closed false, not handed off
    "pending",     \* in handoff, in the queue or in the batch
    "ignored",     \* reported after aclose()
    "dropped",     \* discarded because the queue was full
    "accepted",    \* posted with success
    "discarded",   \* _post gave the batch up
    "lost",        \* _post raised, _run logged it
    "abandoned"}   \* in the batch when the drain was cancelled

TypeOK ==
    /\ queue \in Seq(Records \cup {Stop})
    /\ closed \in BOOLEAN
    /\ dropped \in Nat
    /\ drain \in DrainStates
    /\ batch \in Seq(Records)
    /\ stopping \in BOOLEAN
    /\ attempt \in 0 .. MaxAttempts - 1
    /\ handoff \in Seq(Records)
    /\ closer \in CloserStates
    /\ fate \in [Records -> Fates]
    /\ posted \in Seq(Records)
    /\ recorded \in [Records -> Nat]
    /\ owed \in SUBSET Records

Init ==
    /\ queue = <<>>
    /\ closed = FALSE
    /\ dropped = 0
    /\ drain = "none"
    /\ batch = <<>>
    /\ stopping = FALSE
    /\ attempt = 0
    /\ handoff = <<>>
    /\ closer = "open"
    /\ fate = [r \in Records |-> "new"]
    /\ posted = <<>>
    /\ recorded = [r \in Records |-> 0]
    /\ owed = {}

-----------------------------------------------------------------------------
(* start() and the request path *)

\* start_reporter hands a reporter out only once start() has returned, so the
\* actions below never meet a reporter without its task.
Start ==
    /\ drain = "none"
    /\ drain' = "idle"
    /\ UNCHANGED <<reporterVars, batch, stopping, attempt, handoff, closer,
                   fate, historyVars>>

\* A variant of PutNowait: a full queue gives up its oldest record, not the new one.
PutNowaitEvictsOldest(r) ==
    /\ queue' = Append(IF Len(queue) < QueueMax THEN queue ELSE Tail(queue), r)
    /\ fate' = IF Len(queue) < QueueMax \/ Head(queue) = Stop
               THEN [fate EXCEPT ![r] = "pending"]
               ELSE [fate EXCEPT ![r] = "pending", ![Head(queue)] = "dropped"]
    /\ UNCHANGED dropped

\* _put_nowait: it does not look at _closed again.
PutNowait(r) ==
    IF Len(queue) < QueueMax
    THEN /\ queue' = Append(queue, r)
         /\ fate' = [fate EXCEPT ![r] = "pending"]
         /\ UNCHANGED dropped
    ELSE /\ dropped' = dropped + 1
         /\ fate' = [fate EXCEPT ![r] = "dropped"]
         /\ UNCHANGED queue

\* _put on the event loop: the check and the put are one step.
LoopPut(r) ==
    /\ drain # "none"
    /\ fate[r] = "new"
    /\ ~closed
    /\ PutNowait(r)
    /\ UNCHANGED <<closed, drainVars, handoff, closer, historyVars>>

\* _put on the loop or in a thread, after aclose() has set _closed.
PutIgnored(r) ==
    /\ fate[r] = "new"
    /\ closed
    /\ fate' = [fate EXCEPT ![r] = "ignored"]
    /\ UNCHANGED <<reporterVars, drainVars, handoff, closer, historyVars>>

\* _put in a worker thread: it has read _closed ...
ThreadCheck(r) ==
    /\ drain # "none"
    /\ fate[r] = "new"
    /\ ~closed
    /\ fate' = [fate EXCEPT ![r] = "checked"]
    /\ UNCHANGED <<reporterVars, drainVars, handoff, closer, historyVars>>

\* ... and calls call_soon_threadsafe, perhaps after aclose() has started.
ThreadHandoff(r) ==
    /\ fate[r] = "checked"
    /\ fate' = [fate EXCEPT ![r] = "pending"]
    /\ handoff' = Append(handoff, r)
    /\ UNCHANGED <<reporterVars, drainVars, closer, historyVars>>

\* The loop runs the callbacks in the order they were handed to it.
RunCallback ==
    /\ handoff # <<>>
    /\ PutNowait(Head(handoff))
    /\ handoff' = Tail(handoff)
    /\ UNCHANGED <<closed, drainVars, closer, historyVars>>

-----------------------------------------------------------------------------
(* the drain task: _run and _collect_batch *)

\* The first get() of a batch: a sentinel ends the task with nothing to post.
\* With max_batch = 1 the loop for more records is not entered.
GetFirst ==
    /\ drain = "idle"
    /\ queue # <<>>
    /\ queue' = Tail(queue)
    /\ IF Head(queue) = Stop
       THEN /\ drain' = "ended"
            /\ stopping' = TRUE
            /\ UNCHANGED <<batch, attempt>>
       ELSE /\ batch' = <<Head(queue)>>
            /\ stopping' = FALSE
            /\ attempt' = 0
            /\ drain' = IF MaxBatch = 1 THEN "posting" ELSE "collecting"
    /\ UNCHANGED <<closed, dropped, handoff, closer, fate, historyVars>>

\* One more get(): a sentinel closes the batch and is remembered, a record that
\* fills the batch closes it too.
GetNext ==
    /\ drain = "collecting"
    /\ queue # <<>>
    /\ queue' = Tail(queue)
    /\ IF Head(queue) = Stop
       THEN /\ stopping' = TRUE
            /\ drain' = "posting"
            /\ UNCHANGED batch
       ELSE /\ batch' = Append(batch, Head(queue))
            /\ drain' = IF Len(batch) + 1 < MaxBatch THEN "collecting" ELSE "posting"
            /\ UNCHANGED stopping
    /\ UNCHANGED <<closed, dropped, attempt, handoff, closer, fate, historyVars>>

\* A variant of FlushTimeout: only closing flushes a partial batch.
FlushOnlyWhenClosed ==
    /\ drain = "collecting"
    /\ closed
    /\ drain' = "posting"
    /\ UNCHANGED <<reporterVars, batch, stopping, attempt, handoff, closer,
                   fate, historyVars>>

\* The flush deadline passes, with or without records left in the queue.
FlushTimeout ==
    /\ drain = "collecting"
    /\ drain' = "posting"
    /\ UNCHANGED <<reporterVars, batch, stopping, attempt, handoff, closer,
                   fate, historyVars>>

-----------------------------------------------------------------------------
(* the drain task: _post *)

InBatch == Range(batch)

\* DataRobot counts the batch once more.
RecordBatch == recorded' = [r \in Records |->
                              IF r \in InBatch THEN recorded[r] + 1 ELSE recorded[r]]

\* A variant of Settle: the batch is not cleared.
SettleKeepsBatch(f) ==
    /\ fate' = [r \in Records |-> IF r \in InBatch THEN f ELSE fate[r]]
    /\ UNCHANGED batch

\* The batch in hand meets its fate.
Settle(f) ==
    /\ fate' = [r \in Records |-> IF r \in InBatch THEN f ELSE fate[r]]
    /\ batch' = <<>>

\* Variants of PostReturns: _run looks at _closed, or at nothing, to return.
PostReturnsWhenClosed(f) ==
    /\ Settle(f)
    /\ drain' = IF closed THEN "ended" ELSE "idle"
    /\ UNCHANGED stopping

PostReturnsToLoop(f) ==
    /\ Settle(f)
    /\ drain' = "idle"
    /\ stopping' = FALSE

\* _post returns to _run, which returns too when the sentinel has been taken.
PostReturns(f) ==
    /\ Settle(f)
    /\ drain' = IF stopping THEN "ended" ELSE "idle"
    /\ UNCHANGED stopping

PostAccepted ==
    /\ drain = "posting"
    /\ PostReturns("accepted")
    /\ posted' = posted \o batch
    /\ RecordBatch
    /\ UNCHANGED <<reporterVars, attempt, handoff, closer, owed>>

\* A variant of LastAttempt: one attempt too many.
LastAttemptOffByOne == attempt = MaxAttempts

\* last_attempt
LastAttempt == attempt + 1 = MaxAttempts

\* An httpx.HTTPError or a status in RETRY_STATUS_CODES: sleep and try again, or
\* discard the batch after the last attempt.  Either can reach the client after
\* DataRobot has counted the batch (a read timeout, a 504 of a proxy).
PostFailed ==
    /\ drain = "posting"
    /\ \/ RecordBatch
       \/ UNCHANGED recorded
    /\ IF LastAttempt
       THEN PostReturns("discarded")
       ELSE /\ drain' = "backoff"
            /\ UNCHANGED <<batch, stopping, fate>>
    /\ UNCHANGED <<reporterVars, attempt, handoff, closer, posted, owed>>

\* Any other status: the batch is discarded at once.
PostRejected ==
    /\ drain = "posting"
    /\ PostReturns("discarded")
    /\ UNCHANGED <<reporterVars, attempt, handoff, closer, historyVars>>

\* Any other exception (a payload that cannot be encoded) leaves _post before
\* the request is sent.  _run logs it and goes round its loop: the batch and
\* the value of stopping are gone.
PostRaises ==
    /\ drain = "posting"
    /\ PostMayRaise
    /\ Settle("lost")
    /\ stopping' = FALSE
    /\ drain' = "idle"
    /\ UNCHANGED <<reporterVars, attempt, handoff, closer, historyVars>>

BackoffEnds ==
    /\ drain = "backoff"
    /\ drain' = "posting"
    /\ attempt' = attempt + 1
    /\ UNCHANGED <<reporterVars, batch, stopping, handoff, closer, fate, historyVars>>

-----------------------------------------------------------------------------
(* aclose() *)

\* A variant of Retained: no room is made on a full queue.
RetainAll == queue

\* What is left of the queue when aclose() has made room for the sentinel: a full
\* queue gives up its oldest entry.
Retained == IF Len(queue) < QueueMax THEN queue ELSE Tail(queue)

\* A variant of QueueWithStop: a full queue keeps the sentinel out.
QueueWithStopIfRoom ==
    IF Len(queue) < QueueMax THEN Append(queue, Stop) ELSE queue

QueueWithStop == Append(Retained, Stop)

\* A variant of Displace: the record displaced is not counted.
DisplaceUncounted ==
    /\ fate' = IF Len(queue) < QueueMax THEN fate
                                       ELSE [fate EXCEPT ![Head(queue)] = "dropped"]
    /\ UNCHANGED dropped

\* The record displaced by the sentinel counts as dropped.
Displace ==
    IF Len(queue) < QueueMax
    THEN UNCHANGED <<dropped, fate>>
    ELSE /\ dropped' = dropped + 1
         /\ fate' = [fate EXCEPT ![Head(queue)] = "dropped"]

\* There is no await from setting _closed to waiting for the task, so this is
\* one step; a second call returns at once.
Aclose ==
    /\ drain # "none"
    /\ ~closed
    /\ closed' = TRUE
    /\ queue' = QueueWithStop
    /\ Displace
    /\ closer' = "waiting"
    /\ owed' = InBatch \cup Range(Retained)
    /\ UNCHANGED <<drainVars, handoff, posted, recorded>>

\* wait_for returns because the task has ended.
AcloseFinishes ==
    /\ closer = "waiting"
    /\ drain = "ended"
    /\ closer' = "finished"
    /\ UNCHANGED <<reporterVars, drainVars, handoff, fate, historyVars>>

\* wait_for cancels the task and waits for it to end: the batch in hand goes with
\* it, what is in the queue stays there for good.  A request under way is broken
\* off, which does not tell whether DataRobot has counted its batch.
AcloseTimesOut ==
    /\ closer = "waiting"
    /\ drain # "ended"
    /\ closer' = "warned"
    /\ drain' = "cancelled"
    /\ Settle("abandoned")
    /\ \/ drain = "posting" /\ RecordBatch
       \/ UNCHANGED recorded
    /\ UNCHANGED <<reporterVars, stopping, attempt, handoff, posted, owed>>

-----------------------------------------------------------------------------
Put == \E r \in Records : LoopPut(r) \/ PutIgnored(r) \/ ThreadCheck(r)
Handoff == \E r \in Records : ThreadHandoff(r)
Collect == GetFirst \/ GetNext \/ FlushTimeout
Post == PostAccepted \/ PostFailed \/ PostRejected \/ PostRaises \/ BackoffEnds
Close == Aclose \/ AcloseFinishes \/ AcloseTimesOut

Next == Start \/ Put \/ Handoff \/ RunCallback \/ Collect \/ Post \/ Close

Spec == Init /\ [][Next]_vars

\* The loop runs what is ready, a thread that has read _closed goes on, and every
\* await of the drain ends: get() when the queue is not empty, the flush by its
\* deadline, a POST by the client's timeout, a sleep by its length.
DrainFairness ==
    /\ WF_vars(Handoff)
    /\ WF_vars(RunCallback)
    /\ WF_vars(Collect)
    /\ WF_vars(Post)

\* With the drain alone: the limit of aclose is never what ends the wait.
DrainSpec == Spec /\ DrainFairness /\ WF_vars(AcloseFinishes)

-----------------------------------------------------------------------------
(* Safety *)

\* What is on its way through the reporter, oldest first.
Inflight == batch \o queue \o handoff

\* No record is in two places at once, or twice in one, and the places hold
\* exactly the records that are neither settled nor still with their request:
\* no move between callback, queue, batch and fate loses or copies a record,
\* whatever is dropped, retried or cancelled meanwhile (_put_nowait,
\* _collect_batch, _post, aclose).  The sentinel is there at most once.
EachRecordInOnePlace ==
    /\ \A i, j \in DOMAIN Inflight : Inflight[i] = Inflight[j] => i = j
    /\ \A r \in Records : fate[r] = "pending" <=> r \in Range(Inflight)

\* "dropped" counts every record a full queue has cost, the one that aclose()
\* displaces for its sentinel included, and nothing else.
DroppedIsExact == dropped = Cardinality({r \in Records : fate[r] = "dropped"})

\* The queue and the batch respect queue_max_size and max_batch, also when
\* aclose() puts its sentinel on a full queue; _post is never given an empty
\* batch, and a batch exists only while it is collected or posted.
BatchesAreBounded ==
    /\ Len(queue) <= QueueMax
    /\ Len(batch) <= MaxBatch
    /\ batch # <<>> <=> drain \in {"collecting", "posting", "backoff"}

\* The stop request exists in one form, sentinel or flag, from aclose() on and
\* never before; while only httpx.HTTPError can leave client.post it is never
\* lost, and the drain ends for no other reason.
StopIsKept ==
    /\ ~(stopping /\ Stop \in Range(queue))
    /\ stopping \/ Stop \in Range(queue) => closed
    /\ closed /\ ~PostMayRaise => stopping \/ Stop \in Range(queue)
    /\ drain = "ended" => stopping

\* When aclose() returns without its warning, the drain has tried to deliver
\* every record that aclose() found and did not displace: none is left behind,
\* whatever threads hand over meanwhile.
CleanCloseLeavesNothing ==
    closer = "finished" =>
        \A r \in owed : fate[r] \in {"accepted", "discarded", "lost"}

\* DataRobot counts a record at most once per attempt of the one batch it was
\* in: never before it is posted, at most max_attempts times however the
\* attempts fail and whenever aclose() breaks one off, and at least once when the
\* batch was accepted.
CountsAreBounded ==
    \A r \in Records :
        /\ recorded[r] <= MaxAttempts
        /\ r \in InBatch /\ drain = "posting" => recorded[r] <= attempt
        /\ recorded[r] > 0 => r \in InBatch
                               \/ fate[r] \in {"accepted", "discarded", "lost", "abandoned"}
        /\ fate[r] = "accepted" => recorded[r] > 0

-----------------------------------------------------------------------------
(* The abstract reporter *)

\* The records in a queue, in its order: the sentinel is there at most once.
RecordsOf(s) ==
    IF Stop \notin Range(s) THEN s
    ELSE LET p == CHOOSE i \in DOMAIN s : s[i] = Stop
         IN  SubSeq(s, 1, p - 1) \o SubSeq(s, p + 1, Len(s))

Seen == Range(batch) \cup (Range(queue) \ {Stop})
          \cup {r \in Records :
                  fate[r] \in {"dropped", "accepted", "discarded", "lost", "abandoned"}}

Line == INSTANCE ReportQueue WITH
            Group     <- MaxBatch,
            line      <- batch \o RecordsOf(queue),
            delivered <- posted,
            known     <- Seen,
            closing   <- closed

\* The reporter implements the abstract line: records are delivered in the order
\* they entered the queue, a batch leaves whole and from the head, a retried
\* batch is not delivered twice and not overtaken, and closing costs at most one
\* record out of turn.
ImplementsLine == Line!Spec

-----------------------------------------------------------------------------
(* Liveness *)

\* A record that has reached the loop is dropped, posted or given up in the end,
\* unless the reporter is closed first: partial batches are flushed and retries
\* end (_collect_batch, _post).
RecordsSettle ==
    \A r \in Records : fate[r] = "pending" ~> (fate[r] # "pending" \/ closed)

\* With the drain's own awaits ending, and no exception but httpx.HTTPError, the
\* sentinel stops the drain without the help of aclose's time limit.
StopEndsDrain == closed ~> drain \in {"ended", "cancelled"}

-----------------------------------------------------------------------------
(* What the log says, and the code does not keep *)

\* The warning of aclose() says that the queue did not finish draining and that
\* the remaining records are discarded: some record remains when it is logged,
\* or at least the sentinel has not been reached.
WarnsOfRemainder ==
    [][closer = "waiting" /\ closer' = "warned" => batch # <<>> \/ queue # <<>>]_vars
=============================================================================
