--------------------------- MODULE LifespanProofs ---------------------------
(***************************************************************************)
(* Proofs about Lifespan, for any set of requests and any pool.            *)
(***************************************************************************)
EXTENDS Lifespan, TLAPS

RequestStages == {"new", "entered", "thread", "posted", "resolved", "answered"}
UploadStages == {"none", "queued", "running", "done", "refused"}

TypeOK ==
    /\ stage \in Stages
    /\ up \in SUBSET Resources
    /\ request \in [Requests -> RequestStages]
    /\ upload \in [Requests -> UploadStages]
    /\ scheduled \in SUBSET Requests
    /\ queue \in Seq(Requests)

\* What runs is decided by how far the start has come, and stays until the stop.
StartedSoFar ==
    /\ stage \in {"moderation", "shared", "stats", "data", "serving"} => "hooks" \in up
    /\ config.moderated /\ stage \in {"shared", "stats", "data", "serving"} => "uploads" \in up
    /\ config.reports /\ stage \in {"data", "serving"} => "stats" \in up
    /\ config.reports /\ stage = "serving" => "data" \in up

\* Requests come when the server serves and end before it stops.
RequestsOnlyServed ==
    /\ stage \in Starting => \A r \in Requests : request[r] = "new"
    /\ stage # "serving" => \A r \in Requests : Ended(r)
    /\ \A r \in scheduled : request[r] = "posted"

\* The queue names each waiting request once.
QueuedOnce == \A i, j \in DOMAIN queue : queue[i] = queue[j] => i = j

Inv == TypeOK /\ StartedSoFar /\ RequestsOnlyServed /\ QueuedOnce

LEMMA InvInitially == Init => Inv
  BY DEF Init, Inv, TypeOK, StartedSoFar, RequestsOnlyServed, QueuedOnce, Ended, Stages,
         Starting, Resources, RequestStages, UploadStages

\* The steps of the start: requests are still new and nothing stops.
LEMMA StartKeeps ==
  ASSUME Inv, StartUp
  PROVE  Inv' /\ UNCHANGED requestVars /\ up \subseteq up'
<1> USE DEF Start, Inv, Starting, Stages, Stopping, Resources, TypeOK, requestVars
<1>0. UNCHANGED <<config, requestVars>> /\ up \subseteq up'
  BY DEF StartUp, SetupOtel, LoadMetadata, ImportHooks, InitializeHooks, LoadModeration,
         LoadShared, StartStats, StartData
<1>1. TypeOK'
  BY DEF StartUp, SetupOtel, LoadMetadata, ImportHooks, InitializeHooks, LoadModeration,
         LoadShared, StartStats, StartData
<1>2. StartedSoFar'
  <2> USE DEF StartedSoFar
  <2>1. CASE SetupOtel \/ LoadMetadata \/ ImportHooks
    BY <2>1 DEF SetupOtel, LoadMetadata, ImportHooks
  <2>2. CASE InitializeHooks
    BY <2>2 DEF InitializeHooks
  <2>3. CASE LoadModeration
    BY <2>3 DEF LoadModeration
  <2>4. CASE LoadShared
    BY <2>4 DEF LoadShared
  <2>5. CASE StartStats
    BY <2>5 DEF StartStats
  <2>6. CASE StartData
    BY <2>6 DEF StartData
  <2> QED
    BY <2>1, <2>2, <2>3, <2>4, <2>5, <2>6 DEF StartUp
<1>3. stage \in Starting
  BY DEF StartUp, SetupOtel, LoadMetadata, ImportHooks, InitializeHooks, LoadModeration,
         LoadShared, StartStats, StartData
<1>4. RequestsOnlyServed'
  BY <1>0, <1>3 DEF RequestsOnlyServed, Ended
<1>5. QueuedOnce'
  BY <1>0 DEF QueuedOnce
<1> QED
  BY <1>0, <1>1, <1>2, <1>4, <1>5

\* The steps of the stop: requests have ended and what is up goes one by one.
LEMMA StopKeeps ==
  ASSUME Inv, BeginShutdown \/ TearDown
  PROVE  Inv' /\ UNCHANGED requestVars
<1> USE DEF Stop, Inv, Starting, Stages, Stopping, Resources, requestVars
<1>0. /\ UNCHANGED <<config, requestVars>>
      /\ stage' \in Stopping \cup {"stuck", "exiting", "gone"}
      /\ up' \subseteq up
      /\ \A r \in Requests : Ended(r)
  BY DEF TearDown, StopUploads, StopHooks, StopStats, StopData, StopOtel, Exit, JoinsInVain, BeginShutdown,
         RequestsOnlyServed
<1> QED
  BY <1>0 DEF TypeOK, StartedSoFar, RequestsOnlyServed, QueuedOnce, Ended

\* A request moves on only while the server serves.
LEMMA RequestKeeps ==
  ASSUME Inv, NEW r \in Requests, Enter(r) \/ Handle(r)
  PROVE  Inv' /\ stage = "serving" /\ UNCHANGED <<config, stage, up, upload, queue>>
<1> USE DEF Inv
<1>0. UNCHANGED <<config, stage, up, upload, queue>>
  BY DEF Enter, Handle, PipelineCalls, SyncScoreHook, RunCoroutine, Answer
<1>1. ~Ended(r) \/ stage = "serving"
  BY DEF Enter, Handle, PipelineCalls, SyncScoreHook, RunCoroutine, Answer, RequestsOnlyServed,
         Ended
<1>2. stage = "serving"
  BY <1>1 DEF RequestsOnlyServed, Ended
<1>3. TypeOK'
  BY <1>0 DEF TypeOK, RequestStages, Enter, Handle, PipelineCalls, SyncScoreHook,
              RunCoroutine, Answer
<1>4. \A q \in scheduled' : request'[q] = "posted"
  BY DEF TypeOK, RequestsOnlyServed, Enter, Handle, PipelineCalls, SyncScoreHook,
         RunCoroutine, Answer
<1>5. RequestsOnlyServed'
  BY <1>0, <1>2, <1>4 DEF RequestsOnlyServed, Starting
<1>6. StartedSoFar' /\ QueuedOnce'
  BY <1>0 DEF StartedSoFar, QueuedOnce
<1> QED
  BY <1>0, <1>2, <1>3, <1>5, <1>6

\* The uploads change nothing but themselves and their queue.
LEMMA UploadKeeps ==
  ASSUME Inv, UploadsRunInTurn,
         TakeUpload \/ EndUpload \/ \E r \in Requests : UploadCustomMetrics(r)
  PROVE  Inv' /\ UploadsRunInTurn'
<1> USE DEF Inv, TypeOK
<1>0. UNCHANGED <<config, stage, up, request, scheduled>>
  BY DEF TakeUpload, EndUpload, UploadCustomMetrics
<1>1. StartedSoFar' /\ RequestsOnlyServed'
  BY <1>0 DEF StartedSoFar, RequestsOnlyServed, Ended
<1>2. CASE \E r \in Requests : UploadCustomMetrics(r)
  <2>1. PICK r \in Requests : UploadCustomMetrics(r)
    BY <1>2
  <2>2. CASE upload' = [upload EXCEPT ![r] = "queued"] /\ queue' = Append(queue, r) /\ "uploads" \in up
    <3>1. \A i \in DOMAIN queue : queue[i] # r
      BY <2>1 DEF UploadCustomMetrics, UploadsRunInTurn
    <3>2. /\ queue' \in Seq(Requests)
          /\ DOMAIN queue' = DOMAIN queue \cup {Len(queue) + 1}
          /\ Len(queue) \in Nat /\ DOMAIN queue = 1 .. Len(queue)
          /\ \A i \in DOMAIN queue : queue'[i] = queue[i]
          /\ queue'[Len(queue) + 1] = r
      BY <2>2
    <3>3. QueuedOnce'
      BY <3>1, <3>2 DEF QueuedOnce
    <3>4. TypeOK'
      BY <1>0, <2>2, <3>2 DEF UploadStages
    <3>5. \A q \in Requests : upload'[q] = "queued" <=> \E i \in DOMAIN queue' : queue'[i] = q
      BY <2>2, <3>2 DEF UploadsRunInTurn
    <3>6. \A q \in Requests : upload'[q] \in {"running", "refused"} => upload'[q] = upload[q]
      BY <2>2
    <3> QED
      BY <1>0, <1>1, <2>2, <3>3, <3>4, <3>5, <3>6 DEF UploadsRunInTurn
  <2>3. CASE /\ ~("uploads" \in up /\ stage \notin {"stopUploads", "stuck", "exiting"})
             /\ upload' = [upload EXCEPT ![r] = "refused"] /\ UNCHANGED queue
    <3>1. stage \in Stopping \cup {"stuck", "exiting", "gone"} /\ request[r] = "answered"
      BY <2>1, <2>3 DEF UploadCustomMetrics, RequestsOnlyServed, StartedSoFar, Stages, Stopping,
                      Starting, Ended
    <3>2. upload[r] = "none"
      BY <2>1 DEF UploadCustomMetrics
    <3>3. TypeOK'
      BY <1>0, <2>3 DEF UploadStages
    <3>4. QueuedOnce'
      BY <2>3 DEF QueuedOnce
    <3> QED
      BY <1>0, <1>1, <2>3, <3>1, <3>2, <3>3, <3>4 DEF UploadsRunInTurn
  <2> QED
    BY <2>1, <2>2, <2>3 DEF UploadCustomMetrics
<1>3. CASE TakeUpload
  <2> DEFINE r == Head(queue)
  <2>1. /\ r \in Requests /\ r = queue[1] /\ 1 \in DOMAIN queue
        /\ Tail(queue) \in Seq(Requests)
        /\ Len(queue) \in Nat /\ DOMAIN queue = 1 .. Len(queue)
        /\ DOMAIN Tail(queue) = 1 .. (Len(queue) - 1)
        /\ \A i \in DOMAIN Tail(queue) : Tail(queue)[i] = queue[i + 1]
    BY <1>3 DEF TakeUpload
  <2>2. queue' = Tail(queue) /\ upload' = [upload EXCEPT ![r] = "running"]
    BY <1>3 DEF TakeUpload
  <2>3. upload[r] = "queued"
    BY <2>1 DEF UploadsRunInTurn
  <2>4. \A q \in Requests : upload[q] # "running"
    BY <1>3 DEF TakeUpload
  <2> HIDE DEF r
  <2>5. QueuedOnce'
    BY <2>1, <2>2 DEF QueuedOnce
  <2>6. \A q \in Requests : upload'[q] = "queued" <=> \E i \in DOMAIN queue' : queue'[i] = q
    <3>1. \A i \in DOMAIN queue' : queue'[i] # r
      BY <2>1, <2>2 DEF QueuedOnce
    <3>2. \A q \in Requests \ {r} : (\E i \in DOMAIN queue : queue[i] = q)
                                   => \E i \in DOMAIN queue' : queue'[i] = q
      <4> SUFFICES ASSUME NEW q \in Requests \ {r}, NEW i \in DOMAIN queue, queue[i] = q
                   PROVE  \E j \in DOMAIN queue' : queue'[j] = q
        OBVIOUS
      <4>1. i - 1 \in DOMAIN Tail(queue) /\ Tail(queue)[i - 1] = queue[i]
        BY <2>1
      <4> QED
        BY <4>1, <2>2
    <3>3. \A q \in Requests : (\E i \in DOMAIN queue' : queue'[i] = q)
                             => \E i \in DOMAIN queue : queue[i] = q
      BY <2>1, <2>2
    <3> QED
      BY <2>1, <2>2, <3>1, <3>2, <3>3 DEF UploadsRunInTurn
  <2>7. "uploads" \in up
    BY <2>1, <2>3 DEF UploadsRunInTurn
  <2>8. TypeOK'
    BY <1>0, <2>1, <2>2 DEF UploadStages
  <2> QED
    BY <1>0, <1>1, <2>1, <2>2, <2>4, <2>5, <2>6, <2>7, <2>8 DEF UploadsRunInTurn
<1>4. CASE EndUpload
  <2>1. PICK r \in Requests : upload[r] = "running" /\ upload' = [upload EXCEPT ![r] = "done"]
    BY <1>4 DEF EndUpload
  <2>2. UNCHANGED queue
    BY <1>4 DEF EndUpload
  <2>3. TypeOK' /\ QueuedOnce'
    BY <1>0, <2>1, <2>2 DEF UploadStages, QueuedOnce
  <2> QED
    BY <1>0, <1>1, <2>1, <2>2, <2>3 DEF UploadsRunInTurn
<1> QED
  BY <1>2, <1>3, <1>4

LEMMA InvStep == Inv /\ UploadsRunInTurn /\ [Next]_vars => Inv' /\ UploadsRunInTurn'
<1> SUFFICES ASSUME Inv, UploadsRunInTurn, [Next]_vars PROVE Inv' /\ UploadsRunInTurn'
  OBVIOUS
<1>1. CASE StartUp
  <2>1. stage \in Starting
    BY <1>1 DEF StartUp, Start, SetupOtel, LoadMetadata, ImportHooks, InitializeHooks,
                LoadModeration, LoadShared, StartStats, StartData, Starting
  <2>2. \A r \in Requests : upload[r] # "refused"
    BY <2>1 DEF UploadsRunInTurn, Starting, Stopping
  <2> QED
    BY <1>1, <2>2, StartKeeps DEF UploadsRunInTurn, requestVars
<1>2. CASE BeginShutdown \/ TearDown
  <2>1. Inv' /\ UNCHANGED requestVars
    BY <1>2, StopKeeps
  <2>2. stage' \in Stopping \cup {"stuck", "exiting", "gone"}
    BY <1>2 DEF BeginShutdown, TearDown, StopUploads, StopHooks, StopStats, StopData, StopOtel,
                Exit, JoinsInVain, Stop, Stopping
  <2>3. "uploads" \notin up' => "uploads" \notin up \/ UploadsEnded
    BY <1>2 DEF BeginShutdown, TearDown, StopUploads, StopHooks, StopStats, StopData, StopOtel,
                Exit, JoinsInVain, Stop
  <2>4. UploadsEnded => \A r \in Requests : upload[r] \notin {"queued", "running"}
    BY DEF UploadsEnded, UploadsRunInTurn
  <2> QED
    BY <2>1, <2>2, <2>3, <2>4 DEF UploadsRunInTurn, requestVars
<1>3. CASE \E r \in Requests : Enter(r) \/ Handle(r)
  BY <1>3, RequestKeeps DEF UploadsRunInTurn, Stopping
<1>4. CASE TakeUpload \/ EndUpload \/ \E r \in Requests : UploadCustomMetrics(r)
  BY <1>4, UploadKeeps
<1>5. CASE UNCHANGED vars
  BY <1>5 DEF vars, Inv, TypeOK, StartedSoFar, RequestsOnlyServed, QueuedOnce, Ended,
              UploadsRunInTurn
<1> QED
  BY <1>1, <1>2, <1>3, <1>4, <1>5 DEF Next

\* An upload runs alone, is in the queue until it runs, is done before its executor
\* is gone and is refused only by a server that stops: for any number of requests.
THEOREM UploadsTakeTurns == Spec => []UploadsRunInTurn
<1>1. Init => Inv /\ UploadsRunInTurn
  BY InvInitially DEF Init, UploadsRunInTurn
<1> QED
  BY <1>1, InvStep, PTL DEF Spec

\* Whatever step of the start fails and wherever the stop breaks off, a request meets
\* a server that has started all it uses: for any number of requests and threads.
THEOREM RequestsAreServed == Spec => []RequestsMeetTheLiving
<1>1. Init => Inv /\ UploadsRunInTurn
  BY InvInitially DEF Init, UploadsRunInTurn
<1>2. Inv => RequestsMeetTheLiving
  BY DEF Inv, StartedSoFar, RequestsOnlyServed, RequestsMeetTheLiving
<1> QED
  BY <1>1, <1>2, InvStep, PTL DEF Spec
=============================================================================
