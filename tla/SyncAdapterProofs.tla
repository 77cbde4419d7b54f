------------------------- MODULE SyncAdapterProofs -------------------------
(***************************************************************************)
(* Theorems about SyncAdapter, for every number of threads and requests.   *)
(***************************************************************************)
EXTENDS SyncAdapter, SequenceTheorems, FiniteSetTheorems, TLAPS

Entries == Tasks \cup {Wake}

Distinct(s) == \A i, j \in DOMAIN s : s[i] = s[j] => i = j

\* The queue under the operations of the pool.
LEMMA QueueFacts ==
  ASSUME NEW s \in Seq(Entries)
  PROVE  /\ Range(s) \subseteq Entries
         /\ \A e \in Entries :
               /\ Append(s, e) \in Seq(Entries)
               /\ Range(Append(s, e)) = Range(s) \cup {e}
               /\ Distinct(s) /\ e \notin Range(s) => Distinct(Append(s, e))
         /\ s # <<>> =>
               /\ Head(s) \in Entries
               /\ Tail(s) \in Seq(Entries)
               /\ Range(s) = {Head(s)} \cup Range(Tail(s))
               /\ Distinct(s) => Distinct(Tail(s)) /\ Head(s) \notin Range(Tail(s))
<1>1. ASSUME NEW S, s \in Seq(S)
      PROVE  /\ Range(s) \subseteq S
             /\ \A e \in S :
                   /\ Append(s, e) \in Seq(S)
                   /\ Range(Append(s, e)) = Range(s) \cup {e}
                   /\ Distinct(s) /\ e \notin Range(s) => Distinct(Append(s, e))
             /\ s # <<>> =>
                   /\ Head(s) \in S
                   /\ Tail(s) \in Seq(S)
                   /\ Range(s) = {Head(s)} \cup Range(Tail(s))
                   /\ Distinct(s) => Distinct(Tail(s)) /\ Head(s) \notin Range(Tail(s))
  <2>1. Range(s) \subseteq S
    BY <1>1, RangeOfSeq
  <2>2. ASSUME NEW e \in S
        PROVE  /\ Append(s, e) \in Seq(S)
               /\ Range(Append(s, e)) = Range(s) \cup {e}
               /\ Distinct(s) /\ e \notin Range(s) => Distinct(Append(s, e))
    <3>1. /\ Append(s, e) \in Seq(S) /\ Len(s) \in Nat
          /\ DOMAIN s = 1 .. Len(s) /\ DOMAIN Append(s, e) = 1 .. Len(s) + 1
          /\ \A i \in 1 .. Len(s) : Append(s, e)[i] = s[i]
          /\ Append(s, e)[Len(s) + 1] = e
      BY <1>1, AppendProperties, LenProperties
    <3> QED
      BY <3>1 DEF Range, Distinct
  <2>3. ASSUME s # <<>>
        PROVE  /\ Head(s) \in S
               /\ Tail(s) \in Seq(S)
               /\ Range(s) = {Head(s)} \cup Range(Tail(s))
               /\ Distinct(s) => Distinct(Tail(s)) /\ Head(s) \notin Range(Tail(s))
    <3>1. /\ Head(s) \in S /\ Tail(s) \in Seq(S)
          /\ Len(s) \in Nat \ {0} /\ Head(s) = s[1]
          /\ DOMAIN s = 1 .. Len(s) /\ DOMAIN Tail(s) = 1 .. Len(s) - 1
          /\ \A i \in 1 .. Len(s) - 1 : Tail(s)[i] = s[i + 1]
      BY <1>1, <2>3, HeadTailProperties, LenProperties, EmptySeq
    <3>2. \A i \in 2 .. Len(s) : i - 1 \in DOMAIN Tail(s) /\ Tail(s)[i - 1] = s[i]
      BY <3>1
    <3>3. Range(s) = {Head(s)} \cup Range(Tail(s))
      <4>1. ASSUME NEW i \in DOMAIN s
            PROVE  s[i] \in {Head(s)} \cup Range(Tail(s))
        <5>1. CASE i = 1
          BY <3>1, <5>1
        <5>2. CASE i # 1
          <6>1. i - 1 \in DOMAIN Tail(s) /\ Tail(s)[i - 1] = s[i]
            BY <3>1, <3>2, <5>2
          <6> QED
            BY <6>1 DEF Range
        <5> QED
          BY <5>1, <5>2
      <4>2. ASSUME NEW i \in DOMAIN Tail(s)
            PROVE  Tail(s)[i] \in Range(s)
        <5>1. i + 1 \in DOMAIN s /\ Tail(s)[i] = s[i + 1]
          BY <3>1
        <5> QED
          BY <5>1 DEF Range
      <4>3. Head(s) \in Range(s)
        BY <3>1 DEF Range
      <4>4. Range(s) \subseteq {Head(s)} \cup Range(Tail(s))
        BY <4>1 DEF Range
      <4>5. Range(Tail(s)) \subseteq Range(s)
        BY <4>2 DEF Range
      <4> QED
        BY <4>3, <4>4, <4>5
    <3>4. ASSUME Distinct(s)
          PROVE  Distinct(Tail(s)) /\ Head(s) \notin Range(Tail(s))
      <4>1. \A i, j \in 1 .. Len(s) : s[i] = s[j] => i = j
        BY <3>1, <3>4 DEF Distinct
      <4>2. Distinct(Tail(s))
        BY <3>1, <4>1 DEF Distinct
      <4>3. \A i \in 1 .. Len(s) - 1 : Tail(s)[i] # Head(s)
        BY <3>1, <4>1
      <4> QED
        BY <3>1, <4>2, <4>3 DEF Range
    <3> QED
      BY <3>1, <3>3, <3>4
  <2> QED
    BY <2>1, <2>2, <2>3
<1> QED
  BY <1>1

\* The queue that shutdown() leaves.
LEMMA WakeOnly ==
  /\ <<Wake>> \in Seq(Entries)
  /\ Range(<<Wake>>) = {Wake}
  /\ Distinct(<<Wake>>)
BY DEF Entries, Range, Distinct

-----------------------------------------------------------------------------
(* Type correctness *)

LEMMA AdjustType ==
  ASSUME TypeOK, AdjustThreads
  PROVE  /\ idle' \in Nat
         /\ worker' \in [Workers -> WorkerStates]
BY DEF TypeOK, AdjustThreads, WorkerStates

LEMMA SubmitType ==
  ASSUME TypeOK, NEW t \in Tasks, Submit(t) \/ SubmitRefused(t)
  PROVE  /\ queue' \in Seq(Entries)
         /\ idle' \in Nat
         /\ broken' \in BOOLEAN
         /\ worker' \in [Workers -> WorkerStates]
         /\ job' = job /\ loaded' = loaded
         /\ future' \in [Tasks -> FutureStates]
<1>1. CASE Submit(t)
  BY <1>1, AdjustType DEF TypeOK, Submit, Entries, FutureStates
<1>2. CASE SubmitRefused(t)
  BY <1>2 DEF TypeOK, SubmitRefused, poolVars, threadVars, Entries, FutureStates
<1> QED
  BY <1>1, <1>2

LEMMA TypeStep == TypeOK /\ [Next]_vars => TypeOK'
<1> SUFFICES ASSUME TypeOK, [Next]_vars
             PROVE  TypeOK'
  OBVIOUS
<1> USE DEF config, adapterVars, poolVars, threadVars, vars
<1>t. Warmups \subseteq Tasks /\ Requests \subseteq Tasks /\ SharedLoad \in Tasks
  BY DEF Tasks
<1>q. Entries = Tasks \cup {Wake}
  BY DEF Entries
<1>1. CASE SubmitWarmup
  <2>1. PICK t \in Tasks : Submit(t) \/ SubmitRefused(t)
    BY <1>1, <1>t DEF SubmitWarmup
  <2>2. phase' \in Phases
    BY <1>1 DEF SubmitWarmup, TypeOK, Phases
  <2> QED
    BY <1>1, <1>q, <2>1, <2>2, SubmitType DEF SubmitWarmup, TypeOK
<1>2. CASE AllSubmitted \/ WarmedUp \/ WarmupFails \/ SharedLoadReturns
  BY <1>2 DEF AllSubmitted, WarmedUp, WarmupFails, SharedLoadReturns, TypeOK, Phases
<1>3. CASE LoadModeration
  <2>1. phase' \in Phases
    BY <1>3 DEF LoadModeration, Phases
  <2>2. CASE Submit(SharedLoad) \/ SubmitRefused(SharedLoad)
    BY <1>3, <1>t, <1>q, <2>1, <2>2, SubmitType DEF LoadModeration, TypeOK
  <2>3. CASE UNCHANGED <<poolVars, threadVars, future>>
    BY <1>3, <2>1, <2>3 DEF LoadModeration, TypeOK
  <2> QED
    BY <1>3, <2>2, <2>3 DEF LoadModeration
<1>4. CASE RunInExecutor
  <2>1. PICK t \in Tasks : Submit(t) \/ SubmitRefused(t)
    BY <1>4, <1>t DEF RunInExecutor
  <2> QED
    BY <1>4, <1>q, <2>1, SubmitType DEF RunInExecutor, TypeOK
<1>5. CASE Shutdown
  <2>1. future' \in [Tasks -> FutureStates] /\ phase' \in Phases
    BY <1>5 DEF Shutdown, TypeOK, FutureStates, Phases
  <2> QED
    BY <1>5, <1>q, <2>1, WakeOnly DEF Shutdown, TypeOK
<1>6. CASE CloseLoops
  BY <1>6 DEF CloseLoops, TypeOK, Phases
<1>7. ASSUME NEW w \in Workers, Thread(w)
      PROVE  TypeOK'
  <2>1. CASE MakeLoop(w)
    BY <2>1 DEF MakeLoop, TypeOK, WorkerStates
  <2>2. CASE InitializerReturns(w)
    BY <2>2 DEF InitializerReturns, TypeOK, WorkerStates
  <2>3. CASE InitializerRaises(w)
    BY <2>3 DEF InitializerRaises, TypeOK, WorkerStates, FutureStates
  <2>4. CASE Take(w)
    <3>1. Head(queue) \in Tasks /\ Tail(queue) \in Seq(Tasks \cup {Wake})
      BY <2>4, <1>q, QueueFacts DEF Take, TypeOK
    <3>2. /\ job' \in [Workers -> Tasks \cup {Wake}]
          /\ future' \in [Tasks -> FutureStates]
          /\ worker' \in [Workers -> WorkerStates]
      BY <2>4, <3>1 DEF Take, TypeOK, FutureStates, WorkerStates
    <3> QED
      BY <2>4, <3>1, <3>2 DEF Take, TypeOK
  <2>5. CASE TaskEnds(w)
    BY <2>5 DEF TaskEnds, TypeOK, WorkerStates, FutureStates
  <2>6. CASE CountIdle(w)
    BY <2>6 DEF CountIdle, TypeOK, WorkerStates
  <2>7. CASE Exit(w)
    <3>1. queue' \in Seq(Tasks \cup {Wake})
      BY <2>7, <1>q, QueueFacts DEF Exit, TypeOK
    <3> QED
      BY <2>7, <3>1 DEF Exit, TypeOK, WorkerStates
  <2> QED
    BY <1>7, <2>1, <2>2, <2>3, <2>4, <2>5, <2>6, <2>7 DEF Thread
<1>8. CASE UNCHANGED vars
  BY <1>8 DEF TypeOK
<1> QED
  BY <1>1, <1>2, <1>3, <1>4, <1>5, <1>6, <1>7, <1>8 DEF Next, Initialize

LEMMA TypeInit == Init => TypeOK
<1> SUFFICES ASSUME Init
             PROVE  TypeOK
  OBVIOUS
<1>1. /\ queue \in Seq(Tasks \cup {Wake})
      /\ job \in [Workers -> Tasks \cup {Wake}]
  BY DEF Init
<1>2. /\ loops \in [Workers -> {"none", "open", "closed"}]
      /\ worker \in [Workers -> WorkerStates]
      /\ future \in [Tasks -> FutureStates]
  BY DEF Init, WorkerStates, FutureStates
<1>3. phase \in Phases
  BY DEF Init, Phases
<1> QED
  BY <1>1, <1>2, <1>3 DEF Init, TypeOK

\* Every variable keeps its type.
THEOREM AdapterTypeCorrect == Spec => []TypeOK
BY TypeInit, TypeStep, PTL DEF Spec

-----------------------------------------------------------------------------
(* Threads and loops *)

\* A thread past its initializer has an open loop and its model, every open loop is
\* listed, and nothing is listed or runs once shutdown() has returned.
ThreadInv ==
  /\ \A w \in Workers :
        /\ worker[w] \in {"hooks", "free", "running", "between"} => loops[w] = "open"
        /\ worker[w] \in {"free", "running", "between"} /\ hasLoad => w \in loaded
        /\ loops[w] = "open" => w \in listed
  /\ phase = "serving" /\ moderated /\ hasLoad => shared
  /\ phase = "closed" =>
        /\ \A w \in Workers : worker[w] \in {"none", "failed", "exited"}
        /\ listed = {}

LEMMA ThreadInit == Init => ThreadInv
BY DEF Init, ThreadInv

\* A submission at most starts a thread.
LEMMA SubmitThreads ==
  ASSUME TypeOK, NEW t \in Tasks, Submit(t) \/ SubmitRefused(t)
  PROVE  /\ \/ worker' = worker
            \/ \E w \in Workers : /\ worker[w] = "none"
                                  /\ worker' = [worker EXCEPT ![w] = "starting"]
         /\ UNCHANGED <<job, loaded>>
BY DEF Submit, SubmitRefused, AdjustThreads, poolVars, threadVars

LEMMA ThreadStep == TypeOK /\ ThreadInv /\ [Next]_vars => ThreadInv'
<1> SUFFICES ASSUME TypeOK, ThreadInv, [Next]_vars
             PROVE  ThreadInv'
  OBVIOUS
<1> USE DEF config, adapterVars, poolVars, threadVars, vars
<1>t. Warmups \subseteq Tasks /\ Requests \subseteq Tasks /\ SharedLoad \in Tasks
  BY DEF Tasks
\* The steps that submit a task, none of them when the adapter is closed.
<1>1. ASSUME NEW t \in Tasks, Submit(t) \/ SubmitRefused(t), phase # "closed", phase' # "closed",
             phase' # phase => phase' # "serving",
             UNCHANGED <<config, loops, listed, shared>>
      PROVE  ThreadInv'
  BY <1>1, SubmitThreads DEF ThreadInv, TypeOK
<1>2. CASE SubmitWarmup
  <2>1. PICK t \in Tasks : Submit(t) \/ SubmitRefused(t)
    BY <1>2, <1>t DEF SubmitWarmup
  <2>2. phase # "closed" /\ phase' # "closed" /\ (phase' # phase => phase' # "serving")
    BY <1>2 DEF SubmitWarmup
  <2> QED
    BY <1>1, <1>2, <2>1, <2>2 DEF SubmitWarmup
<1>3. CASE RunInExecutor
  <2>1. PICK t \in Tasks : Submit(t) \/ SubmitRefused(t)
    BY <1>3, <1>t DEF RunInExecutor
  <2> QED
    BY <1>1, <1>3, <2>1 DEF RunInExecutor
<1>4. CASE LoadModeration
  <2>1. CASE Submit(SharedLoad) \/ SubmitRefused(SharedLoad)
    <3>1. CASE phase' \in {"loading", "failed"}
      BY <1>1, <1>4, <1>t, <2>1, <3>1 DEF LoadModeration
    <3>2. CASE phase' \notin {"loading", "failed"}
      BY <1>4, <3>2 DEF LoadModeration, ThreadInv
    <3> QED
      BY <3>1, <3>2
  <2>2. CASE UNCHANGED <<poolVars, threadVars, future>>
    BY <1>4, <2>2 DEF LoadModeration, ThreadInv
  <2> QED
    BY <1>4, <2>1, <2>2 DEF LoadModeration
<1>5. CASE AllSubmitted \/ WarmedUp \/ WarmupFails \/ SharedLoadReturns
  BY <1>5 DEF AllSubmitted, WarmedUp, WarmupFails, SharedLoadReturns, ThreadInv
<1>6. CASE Shutdown
  BY <1>6 DEF Shutdown, ThreadInv
<1>7. CASE CloseLoops
  BY <1>7 DEF CloseLoops, ThreadInv, TypeOK
<1>8. ASSUME NEW w \in Workers, Thread(w)
      PROVE  ThreadInv'
  <2>1. CASE MakeLoop(w)
    BY <2>1 DEF MakeLoop, ThreadInv, TypeOK
  <2>2. CASE InitializerReturns(w)
    BY <2>2 DEF InitializerReturns, ThreadInv, TypeOK
  <2>3. CASE InitializerRaises(w)
    BY <2>3 DEF InitializerRaises, ThreadInv, TypeOK
  <2>4. CASE Take(w)
    BY <2>4 DEF Take, ThreadInv, TypeOK
  <2>5. CASE TaskEnds(w)
    BY <2>5 DEF TaskEnds, ThreadInv, TypeOK
  <2>6. CASE CountIdle(w)
    BY <2>6 DEF CountIdle, ThreadInv, TypeOK
  <2>7. CASE Exit(w)
    BY <2>7 DEF Exit, ThreadInv, TypeOK
  <2> QED
    BY <1>8, <2>1, <2>2, <2>3, <2>4, <2>5, <2>6, <2>7 DEF Thread
<1>9. CASE UNCHANGED vars
  BY <1>9 DEF ThreadInv
<1> QED
  BY <1>2, <1>3, <1>4, <1>5, <1>6, <1>7, <1>8, <1>9 DEF Next, Initialize

\* A hook only ever runs in a thread with an open, listed loop and its own model.
THEOREM PreparedHooks == Spec => []HooksRunPrepared
<1>1. TypeOK /\ ThreadInv => HooksRunPrepared
  BY DEF ThreadInv, HooksRunPrepared
<1> QED
  BY <1>1, TypeInit, TypeStep, ThreadInit, ThreadStep, PTL DEF Spec

-----------------------------------------------------------------------------
(* Tasks and their futures *)

\* The sentinel stands in the queue only from shutdown() on, and then alone.
SentinelAlone ==
  /\ phase \in {"joining", "closed"} => Range(queue) \subseteq {Wake}
  /\ phase \notin {"joining", "closed"} => Wake \notin Range(queue)

TaskInv == TasksAreInOnePlace /\ SentinelAlone

LEMMA NothingQueued == Range(<<>>) = {} /\ DOMAIN <<>> = {}
BY DEF Range

LEMMA TaskInit == Init => TaskInv
BY NothingQueued DEF Init, TaskInv, TasksAreInOnePlace, SentinelAlone

\* A submission puts a new task in the queue, or changes only its future.
LEMMA SubmitTasks ==
  ASSUME TypeOK, TaskInv, NEW t \in Tasks, Submit(t) \/ SubmitRefused(t),
         phase \notin {"joining", "closed"}, phase' \notin {"joining", "closed"}
  PROVE  TaskInv'
<1>1. queue \in Seq(Entries) /\ t \in Entries /\ t # Wake
  BY TasksAssumption DEF TypeOK, Entries
<1>2. future[t] = "new" /\ t \notin Range(queue)
  BY DEF Submit, SubmitRefused, TaskInv, TasksAreInOnePlace
<1>3. Distinct(queue)
  BY DEF TaskInv, TasksAreInOnePlace, Distinct
<1>4. \A w \in Workers : (worker[w] = "running" <=> worker'[w] = "running") /\ job' = job
  BY SubmitThreads DEF TypeOK
<1>5. \A w \in Workers : worker[w] = "running" => job[w] # t
  BY <1>2 DEF TaskInv, TasksAreInOnePlace
<1>6. CASE Submit(t)
  <2>1. /\ Range(queue') = Range(queue) \cup {t}
        /\ Distinct(queue')
    BY <1>1, <1>2, <1>3, <1>6, QueueFacts DEF Submit
  <2>2. future' = [future EXCEPT ![t] = "queued"]
    BY <1>6 DEF Submit
  <2>3. SentinelAlone'
    BY <1>1, <2>1 DEF TaskInv, SentinelAlone
  <2>4. TasksAreInOnePlace'
    <3>1. \A u \in Tasks : future'[u] = "queued" <=> u \in Range(queue')
      BY <2>1, <2>2 DEF TaskInv, TasksAreInOnePlace, TypeOK
    <3>2. \A w \in Workers : worker'[w] = "running" =>
             job'[w] \in Tasks /\ future'[job'[w]] = "running"
      BY <1>4, <1>5, <2>2 DEF TaskInv, TasksAreInOnePlace, TypeOK
    <3>3. \A v, w \in Workers :
             worker'[v] = "running" /\ worker'[w] = "running" /\ job'[v] = job'[w] => v = w
      BY <1>4 DEF TaskInv, TasksAreInOnePlace
    <3>4. \A u \in Tasks : future'[u] = "running" =>
             \E w \in Workers : worker'[w] = "running" /\ job'[w] = u
      BY <1>4, <2>2 DEF TaskInv, TasksAreInOnePlace, TypeOK
    <3> QED
      BY <2>1, <3>1, <3>2, <3>3, <3>4 DEF TasksAreInOnePlace, Distinct
  <2> QED
    BY <2>3, <2>4 DEF TaskInv
<1>7. CASE SubmitRefused(t)
  <2>1. UNCHANGED <<queue, worker, job>> /\ future' = [future EXCEPT ![t] = "broken"]
    BY <1>7 DEF SubmitRefused, poolVars, threadVars
  <2>2. SentinelAlone'
    BY <2>1 DEF TaskInv, SentinelAlone
  <2>3. TasksAreInOnePlace'
    BY <1>2, <1>5, <2>1 DEF TaskInv, TasksAreInOnePlace, TypeOK
  <2> QED
    BY <2>2, <2>3 DEF TaskInv
<1> QED
  BY <1>6, <1>7

\* Steps that leave the queue, the futures and what runs alone.
LEMMA TasksAside ==
  ASSUME TypeOK, TaskInv, UNCHANGED <<queue, job, future>>,
         \A w \in Workers : worker[w] = "running" <=> worker'[w] = "running",
         phase \in {"joining", "closed"} <=> phase' \in {"joining", "closed"}
  PROVE  TaskInv'
BY DEF TaskInv, TasksAreInOnePlace, SentinelAlone

LEMMA TaskStep == TypeOK /\ TaskInv /\ [Next]_vars => TaskInv'
<1> SUFFICES ASSUME TypeOK, TaskInv, [Next]_vars
             PROVE  TaskInv'
  OBVIOUS
<1> USE DEF config, adapterVars, poolVars, threadVars, vars
<1>t. Warmups \subseteq Tasks /\ Requests \subseteq Tasks /\ SharedLoad \in Tasks
  BY DEF Tasks
<1>q. /\ queue \in Seq(Entries)
      /\ Distinct(queue)
      /\ Entries = Tasks \cup {Wake}
      /\ Wake \notin Tasks
  BY TasksAssumption DEF TypeOK, Entries, TaskInv, TasksAreInOnePlace, Distinct
<1>1. CASE SubmitWarmup
  BY <1>1, <1>t, SubmitTasks DEF SubmitWarmup
<1>2. CASE RunInExecutor
  BY <1>2, <1>t, SubmitTasks DEF RunInExecutor
<1>3. CASE LoadModeration
  <2>1. phase \notin {"joining", "closed"} /\ phase' \notin {"joining", "closed"}
    BY <1>3 DEF LoadModeration
  <2>2. CASE Submit(SharedLoad) \/ SubmitRefused(SharedLoad)
    BY <1>t, <2>1, <2>2, SubmitTasks
  <2>3. CASE UNCHANGED <<poolVars, threadVars, future>>
    BY <2>1, <2>3, TasksAside
  <2> QED
    BY <1>3, <2>2, <2>3 DEF LoadModeration
<1>4. CASE AllSubmitted \/ WarmedUp \/ WarmupFails \/ SharedLoadReturns
  BY <1>4, TasksAside DEF AllSubmitted, WarmedUp, WarmupFails, SharedLoadReturns
<1>5. CASE Shutdown
  <2>1. /\ future' = [t \in Tasks |-> IF t \in Range(queue) THEN "cancelled" ELSE future[t]]
        /\ queue' = <<Wake>>
        /\ UNCHANGED <<worker, job>>
    BY <1>5 DEF Shutdown
  <2>2. Range(queue') = {Wake} /\ Distinct(queue')
    BY <2>1, WakeOnly
  <2>3. SentinelAlone'
    BY <1>5, <2>2 DEF Shutdown, SentinelAlone
  <2>4. \A t \in Tasks : (future'[t] = "running" <=> future[t] = "running") /\ future'[t] # "queued"
    BY <2>1 DEF TaskInv, TasksAreInOnePlace, TypeOK
  <2> QED
    BY <1>q, <2>1, <2>2, <2>3, <2>4 DEF TaskInv, TasksAreInOnePlace, Distinct
<1>6. CASE CloseLoops
  BY <1>6, TasksAside DEF CloseLoops
<1>7. ASSUME NEW w \in Workers, Thread(w)
      PROVE  TaskInv'
  <2>1. CASE MakeLoop(w) \/ InitializerReturns(w) \/ CountIdle(w)
    BY <2>1, TasksAside DEF MakeLoop, InitializerReturns, CountIdle, TypeOK
  <2>2. CASE InitializerRaises(w)
    <3>1. /\ worker[w] = "hooks"
          /\ worker' = [worker EXCEPT ![w] = "failed"]
          /\ future' = [t \in Tasks |-> IF t \in Range(queue) THEN "broken" ELSE future[t]]
          /\ queue' = <<>>
          /\ UNCHANGED <<phase, job>>
      BY <2>2 DEF InitializerRaises
    <3>2. \A t \in Tasks : (future'[t] = "running" <=> future[t] = "running")
                          /\ future'[t] # "queued"
      BY <3>1 DEF TaskInv, TasksAreInOnePlace, TypeOK
    <3>3. \A v \in Workers : worker'[v] = "running" <=> worker[v] = "running"
      BY <3>1 DEF TypeOK
    <3>4. SentinelAlone'
      BY <3>1, NothingQueued DEF SentinelAlone
    <3> QED
      BY <3>1, <3>2, <3>3, <3>4, NothingQueued DEF TaskInv, TasksAreInOnePlace
  <2>3. CASE Take(w)
    <3> DEFINE t == Head(queue)
    <3>1. /\ t \in Tasks
          /\ Range(queue) = {t} \cup Range(Tail(queue))
          /\ Distinct(Tail(queue)) /\ t \notin Range(Tail(queue))
      BY <1>q, <2>3, QueueFacts DEF Take
    <3>2. /\ queue' = Tail(queue)
          /\ worker' = [worker EXCEPT ![w] = "running"]
          /\ job' = [job EXCEPT ![w] = t]
          /\ future' = [future EXCEPT ![t] = "running"]
          /\ worker[w] # "running"
          /\ UNCHANGED phase
      BY <2>3 DEF Take
    <3>3. future[t] = "queued"
      BY <3>1 DEF TaskInv, TasksAreInOnePlace
    <3>4. SentinelAlone'
      BY <3>1, <3>2 DEF TaskInv, SentinelAlone
    <3> HIDE DEF t
    <3>5. \A v \in Workers : worker[v] = "running" => job[v] # t
      BY <3>3 DEF TaskInv, TasksAreInOnePlace
    <3>6. \A u \in Tasks : future'[u] = "queued" <=> u \in Range(queue')
      BY <3>1, <3>2 DEF TaskInv, TasksAreInOnePlace, TypeOK
    <3>7. \A v \in Workers : worker'[v] = "running" =>
             job'[v] \in Tasks /\ future'[job'[v]] = "running"
      BY <3>1, <3>2, <3>5 DEF TaskInv, TasksAreInOnePlace, TypeOK
    <3>8. \A u, v \in Workers :
             worker'[u] = "running" /\ worker'[v] = "running" /\ job'[u] = job'[v] => u = v
      <4>1. \A v \in Workers : v # w => worker'[v] = worker[v] /\ job'[v] = job[v]
        BY <3>2 DEF TypeOK
      <4>2. job'[w] = t
        BY <3>2 DEF TypeOK
      <4> QED
        BY <3>5, <4>1, <4>2 DEF TaskInv, TasksAreInOnePlace
    <3>9. \A u \in Tasks : future'[u] = "running" =>
             \E v \in Workers : worker'[v] = "running" /\ job'[v] = u
      BY <3>1, <3>2 DEF TaskInv, TasksAreInOnePlace, TypeOK
    <3> QED
      BY <3>1, <3>2, <3>4, <3>6, <3>7, <3>8, <3>9 DEF TaskInv, TasksAreInOnePlace, Distinct
  <2>4. CASE TaskEnds(w)
    <3>1. PICK result \in {"done", "raised"} : future' = [future EXCEPT ![job[w]] = result]
      BY <2>4 DEF TaskEnds
    <3>2. /\ worker[w] = "running"
          /\ worker' = [worker EXCEPT ![w] = "between"]
          /\ job' = [job EXCEPT ![w] = Wake]
          /\ UNCHANGED <<queue, phase>>
      BY <2>4 DEF TaskEnds
    <3>3. future[job[w]] = "running"
      BY <3>2 DEF TaskInv, TasksAreInOnePlace
    <3>4. \A v \in Workers : worker'[v] = "running" =>
             worker[v] = "running" /\ job'[v] = job[v] /\ job[v] # job[w]
      BY <3>2 DEF TaskInv, TasksAreInOnePlace, TypeOK
    <3>5. /\ \A u \in Tasks : future'[u] = "running" => future[u] = "running" /\ u # job[w]
          /\ \A u \in Tasks : (future'[u] = "queued") <=> (future[u] = "queued")
      BY <3>1, <3>3 DEF TypeOK
    <3>6. SentinelAlone'
      BY <3>2 DEF TaskInv, SentinelAlone
    <3>7. \A v \in Workers : worker'[v] = "running" =>
             job'[v] \in Tasks /\ future'[job'[v]] = "running"
      BY <3>1, <3>4 DEF TaskInv, TasksAreInOnePlace, TypeOK
    <3>8. ASSUME NEW u \in Tasks, future'[u] = "running"
          PROVE  \E v \in Workers : worker'[v] = "running" /\ job'[v] = u
      <4>1. PICK v \in Workers : worker[v] = "running" /\ job[v] = u
        BY <3>5, <3>8 DEF TaskInv, TasksAreInOnePlace
      <4>2. v # w
        BY <3>5, <3>8, <4>1
      <4> QED
        BY <3>2, <4>1, <4>2 DEF TypeOK
    <3>9. \A u, v \in Workers :
             worker'[u] = "running" /\ worker'[v] = "running" /\ job'[u] = job'[v] => u = v
      BY <3>4 DEF TaskInv, TasksAreInOnePlace
    <3>10. \A u \in Tasks : future'[u] = "queued" <=> u \in Range(queue')
      <4>1. queue' = queue
        BY <3>2
      <4> QED
        BY <3>5, <4>1 DEF TaskInv, TasksAreInOnePlace
    <3> QED
      BY <3>2, <3>6, <3>7, <3>8, <3>9, <3>10 DEF TaskInv, TasksAreInOnePlace
  <2>5. CASE Exit(w)
    <3>1. /\ worker[w] # "running"
          /\ worker' = [worker EXCEPT ![w] = "exited"]
          /\ queue # <<>> /\ Head(queue) = Wake
          /\ queue' = Append(Tail(queue), Wake)
          /\ UNCHANGED <<phase, job, future>>
      BY <2>5 DEF Exit
    <3>2. /\ Tail(queue) \in Seq(Entries)
          /\ Range(queue) = {Wake} \cup Range(Tail(queue))
          /\ Distinct(Tail(queue)) /\ Wake \notin Range(Tail(queue))
      BY <1>q, <3>1, QueueFacts
    <3>3. Range(queue') = Range(queue) /\ Distinct(queue')
      <4> DEFINE s == Tail(queue)
      <4>1. s \in Seq(Entries) /\ Wake \in Entries /\ Distinct(s) /\ Wake \notin Range(s)
        BY <1>q, <3>2
      <4> HIDE DEF s
      <4>2. Range(Append(s, Wake)) = Range(s) \cup {Wake} /\ Distinct(Append(s, Wake))
        BY <4>1, QueueFacts
      <4> QED
        BY <3>1, <3>2, <4>2 DEF s
    <3>4. SentinelAlone'
      BY <3>1, <3>3 DEF TaskInv, SentinelAlone
    <3>5. \A v \in Workers : worker[v] = "running" <=> worker'[v] = "running"
      BY <3>1 DEF TypeOK
    <3> QED
      BY <3>1, <3>3, <3>4, <3>5 DEF TaskInv, TasksAreInOnePlace, Distinct
  <2> QED
    BY <1>7, <2>1, <2>2, <2>3, <2>4, <2>5 DEF Thread
<1>8. CASE UNCHANGED vars
  BY <1>8, TasksAside
<1> QED
  BY <1>1, <1>2, <1>3, <1>4, <1>5, <1>6, <1>7, <1>8 DEF Next, Initialize

\* Every task is in one place: in the queue, in one thread, or resolved.
THEOREM OnePlaceForTasks == Spec => []TasksAreInOnePlace
<1>1. TaskInv => TasksAreInOnePlace
  BY DEF TaskInv
<1> QED
  BY <1>1, TypeInit, TypeStep, TaskInit, TaskStep, PTL DEF Spec

\* After shutdown() no thread, no open loop and no unresolved future is left.
THEOREM ShutdownIsClean == Spec => []NothingOutlivesShutdown
<1>1. TypeOK /\ ThreadInv /\ TaskInv => NothingOutlivesShutdown
  <2> SUFFICES ASSUME TypeOK, ThreadInv, TaskInv, phase = "closed"
               PROVE  /\ \A w \in Workers : /\ worker[w] \in {"none", "failed", "exited"}
                                            /\ loops[w] # "open"
                      /\ \A t \in Tasks : future[t] \notin {"queued", "running"}
    BY DEF NothingOutlivesShutdown
  <2>1. \A w \in Workers : worker[w] \in {"none", "failed", "exited"} /\ loops[w] # "open"
    BY DEF ThreadInv
  <2>2. \A t \in Tasks : t \notin Range(queue)
    BY TasksAssumption DEF TaskInv, SentinelAlone
  <2> QED
    BY <2>1, <2>2 DEF TaskInv, TasksAreInOnePlace
<1> QED
  BY <1>1, TypeInit, TypeStep, ThreadInit, ThreadStep, TaskInit, TaskStep, PTL DEF Spec

-----------------------------------------------------------------------------
(* What initialize() returns *)

\* The states of a thread whose initializer has returned.
Prepared == {"free", "running", "between", "exited"}

\* Only a prepared thread resolves a future, a pool is broken only by a thread that
\* failed, and threads exit only for shutdown().
HonestInv ==
  /\ phase \in {"moderation", "loading", "serving", "joining", "closed"} =>
        \A t \in Warmups : future[t] = "done"
  /\ \A t \in Tasks : future[t] \in {"running", "done", "raised"} =>
        \E w \in Workers : worker[w] \in Prepared
  /\ phase \notin {"joining", "closed"} => \A w \in Workers : worker[w] # "exited"
  /\ \A t \in Tasks : future[t] = "broken" => broken
  /\ broken => \E w \in Workers : worker[w] = "failed"
  /\ phase = "loading" => moderated
  /\ phase = "failed" /\ ~moderated => broken

LEMMA HonestInit == Init => HonestInv
BY DEF Init, HonestInv, Tasks

\* Steps of the pool: nothing that is done is undone.
LEMMA HonestPool ==
  ASSUME TypeOK, HonestInv,
         phase' = phase,
         moderated' = moderated,
         \A t \in Warmups : future[t] = "done" => future'[t] = "done",
         \A t \in Tasks : future'[t] \in {"running", "done", "raised"} =>
             \/ future[t] \in {"running", "done", "raised"}
             \/ \E w \in Workers : worker[w] \in Prepared,
         \A t \in Tasks : future'[t] = "broken" => future[t] = "broken" \/ broken',
         \A w \in Workers : worker[w] \in Prepared => worker'[w] \in Prepared,
         \A w \in Workers : worker[w] = "failed" => worker'[w] = "failed",
         phase \notin {"joining", "closed"} => \A w \in Workers : worker'[w] # "exited",
         broken => broken',
         broken' => broken \/ \E w \in Workers : worker'[w] = "failed"
  PROVE  HonestInv'
BY DEF HonestInv

\* A submission resolves no future but the one it refuses.
LEMMA HonestSubmit ==
  ASSUME TypeOK, HonestInv, NEW t \in Tasks, Submit(t) \/ SubmitRefused(t)
  PROVE  /\ broken' = broken
         /\ \A u \in Tasks : u # t => future'[u] = future[u]
         /\ \/ future'[t] = "queued"
            \/ (future'[t] = "broken" /\ broken)
         /\ future[t] = "new"
         /\ \A w \in Workers : /\ worker[w] \in Prepared <=> worker'[w] \in Prepared
                               /\ worker[w] = "failed" <=> worker'[w] = "failed"
                               /\ worker'[w] = "exited" => worker[w] = "exited"
<1>1. /\ broken' = broken
      /\ future[t] = "new"
      /\ \/ future' = [future EXCEPT ![t] = "queued"]
         \/ (future' = [future EXCEPT ![t] = "broken"] /\ broken)
  BY DEF Submit, SubmitRefused, poolVars
<1>2. \A w \in Workers : /\ worker[w] \in Prepared <=> worker'[w] \in Prepared
                         /\ worker[w] = "failed" <=> worker'[w] = "failed"
                         /\ worker'[w] = "exited" => worker[w] = "exited"
  <2>1. CASE worker' = worker
    BY <2>1
  <2>2. ASSUME NEW x \in Workers, worker[x] = "none",
               worker' = [worker EXCEPT ![x] = "starting"]
        PROVE  \A w \in Workers : /\ worker[w] \in Prepared <=> worker'[w] \in Prepared
                                  /\ worker[w] = "failed" <=> worker'[w] = "failed"
                                  /\ worker'[w] = "exited" => worker[w] = "exited"
    <3>1. worker'[x] = "starting" /\ \A w \in Workers : w # x => worker'[w] = worker[w]
      BY <2>2 DEF TypeOK
    <3> QED
      BY <2>2, <3>1 DEF Prepared
  <2> QED
    BY <2>1, <2>2, SubmitThreads
<1> QED
  BY <1>1, <1>2 DEF TypeOK

LEMMA HonestStep == TypeOK /\ TaskInv /\ HonestInv /\ [Next]_vars => HonestInv'
<1> SUFFICES ASSUME TypeOK, TaskInv, HonestInv, [Next]_vars
             PROVE  HonestInv'
  OBVIOUS
<1> USE DEF config, adapterVars, poolVars, threadVars, vars
<1>t. Warmups \subseteq Tasks /\ Requests \subseteq Tasks /\ SharedLoad \in Tasks
  BY DEF Tasks
<1>1. CASE SubmitWarmup
  <2>1. PICK t \in Warmups : \/ (Submit(t) /\ UNCHANGED phase)
                            \/ (SubmitRefused(t) /\ phase' = "failed")
    BY <1>1 DEF SubmitWarmup
  <2>4. t \in Tasks
    BY <1>t
  <2>2. phase = "warming" /\ moderated' = moderated
    BY <1>1 DEF SubmitWarmup
  <2>3. SubmitRefused(t) => broken
    BY DEF SubmitRefused
  <2> QED
    BY <2>1, <2>2, <2>3, <2>4, HonestSubmit DEF HonestInv
<1>2. CASE RunInExecutor
  <2>1. PICK t \in Tasks : Submit(t) \/ SubmitRefused(t)
    BY <1>2, <1>t DEF RunInExecutor
  <2>2. phase = "serving" /\ UNCHANGED <<phase, moderated>>
    BY <1>2 DEF RunInExecutor
  <2> QED
    BY <2>1, <2>2, <1>t, HonestSubmit DEF HonestInv
<1>3. CASE LoadModeration
  <2>1. phase = "moderation" /\ moderated' = moderated
    BY <1>3 DEF LoadModeration
  <2>2. CASE Submit(SharedLoad) \/ SubmitRefused(SharedLoad)
    <3>1. \A u \in Warmups : u # SharedLoad
      BY TasksAssumption
    <3>2. (phase' \in {"loading", "failed"} /\ moderated) \/ phase' = "serving"
      BY <1>3 DEF LoadModeration
    <3> QED
      BY <1>t, <2>1, <2>2, <3>1, <3>2, HonestSubmit DEF HonestInv
  <2>3. CASE UNCHANGED <<poolVars, threadVars, future>>
    <3>1. CASE phase' = "failed" /\ moderated
      BY <2>1, <2>3, <3>1 DEF HonestInv
    <3>2. CASE phase' = "serving"
      BY <2>1, <2>3, <3>2 DEF HonestInv
    <3>3. CASE Submit(SharedLoad) \/ SubmitRefused(SharedLoad)
      BY <2>2, <3>3
    <3> QED
      BY <1>3, <3>1, <3>2, <3>3 DEF LoadModeration
  <2> QED
    BY <1>3, <2>2, <2>3 DEF LoadModeration
<1>4. CASE AllSubmitted
  BY <1>4 DEF AllSubmitted, HonestInv
<1>5. CASE WarmedUp
  BY <1>5 DEF WarmedUp, HonestInv
<1>6. CASE WarmupFails
  BY <1>6, <1>t DEF WarmupFails, HonestInv
<1>7. CASE SharedLoadReturns
  BY <1>7 DEF SharedLoadReturns, HonestInv
<1>8. CASE Shutdown
  <2>1. \A t \in Tasks : \/ future'[t] = future[t]
                         \/ (future'[t] = "cancelled" /\ future[t] = "queued")
    BY <1>8 DEF Shutdown, TaskInv, TasksAreInOnePlace, TypeOK
  <2>2. \A t \in Warmups : future[t] = "done" => future'[t] = "done"
    BY <1>t, <2>1
  <2> QED
    BY <1>8, <2>1, <2>2 DEF Shutdown, HonestInv
<1>9. CASE CloseLoops
  BY <1>9 DEF CloseLoops, HonestInv
<1>10. ASSUME NEW w \in Workers, Thread(w)
       PROVE  HonestInv'
  <2>1. CASE MakeLoop(w)
    BY <2>1, HonestPool DEF MakeLoop, TypeOK, Prepared, HonestInv
  <2>2. CASE InitializerReturns(w)
    BY <2>2, HonestPool DEF InitializerReturns, TypeOK, Prepared, HonestInv
  <2>3. CASE InitializerRaises(w)
    <3>1. /\ worker[w] = "hooks"
          /\ worker' = [worker EXCEPT ![w] = "failed"]
          /\ broken'
          /\ future' = [t \in Tasks |-> IF t \in Range(queue) THEN "broken" ELSE future[t]]
          /\ UNCHANGED <<phase, moderated>>
      BY <2>3 DEF InitializerRaises
    <3>2. \A t \in Tasks : \/ future'[t] = future[t]
                           \/ (future'[t] = "broken" /\ future[t] = "queued")
      BY <3>1 DEF TaskInv, TasksAreInOnePlace, TypeOK
    <3>3. \A v \in Workers : v # w => worker'[v] = worker[v]
      BY <3>1 DEF TypeOK
    <3>4. worker'[w] = "failed"
      BY <3>1 DEF TypeOK
    <3> QED
      BY <1>t, <3>1, <3>2, <3>3, <3>4, HonestPool DEF Prepared, HonestInv
  <2>4. CASE Take(w)
    <3>1. /\ worker[w] \in {"free", "between"}
          /\ worker' = [worker EXCEPT ![w] = "running"]
          /\ future' = [future EXCEPT ![Head(queue)] = "running"]
          /\ queue # <<>> /\ Head(queue) # Wake
          /\ UNCHANGED <<phase, moderated, broken>>
      BY <2>4 DEF Take
    <3>2. Head(queue) \in Tasks /\ Head(queue) \in Range(queue)
      BY <3>1, QueueFacts DEF TypeOK, Entries
    <3>3. future[Head(queue)] = "queued"
      BY <3>2 DEF TaskInv, TasksAreInOnePlace
    <3>4. \A t \in Tasks : t # Head(queue) => future'[t] = future[t]
      BY <3>1, <3>2 DEF TypeOK
    <3>5. \A t \in Warmups : future[t] = "done" => future'[t] = "done"
      BY <1>t, <3>3, <3>4
    <3>6. worker[w] \in Prepared
      BY <3>1 DEF Prepared
    <3>7. future'[Head(queue)] = "running"
      BY <3>1, <3>2 DEF TypeOK
    <3>8. \A v \in Workers : /\ worker[v] \in Prepared => worker'[v] \in Prepared
                             /\ worker[v] = "failed" => worker'[v] = "failed"
                             /\ worker'[v] = "exited" => worker[v] = "exited"
      BY <3>1 DEF TypeOK, Prepared
    <3>9. phase \notin {"joining", "closed"} => \A v \in Workers : worker'[v] # "exited"
      BY <3>8 DEF HonestInv
    <3>10. \A t \in Tasks : future'[t] = "broken" => future[t] = "broken" \/ broken'
      BY <3>4, <3>7
    <3> QED
      BY <3>1, <3>5, <3>6, <3>8, <3>9, <3>10, HonestPool
  <2>5. CASE TaskEnds(w)
    <3>1. PICK result \in {"done", "raised"} : future' = [future EXCEPT ![job[w]] = result]
      BY <2>5 DEF TaskEnds
    <3>2. /\ worker[w] = "running"
          /\ worker' = [worker EXCEPT ![w] = "between"]
          /\ UNCHANGED <<phase, moderated, broken>>
      BY <2>5 DEF TaskEnds
    <3>3. job[w] \in Tasks /\ future[job[w]] = "running"
      BY <3>2 DEF TaskInv, TasksAreInOnePlace
    <3>4. /\ \A t \in Tasks : t # job[w] => future'[t] = future[t]
          /\ future'[job[w]] \in {"done", "raised"}
      BY <3>1, <3>3 DEF TypeOK
    <3>5. \A t \in Warmups : future[t] = "done" => future'[t] = "done"
      BY <1>t, <3>3, <3>4
    <3>6. worker[w] \in Prepared
      BY <3>2 DEF Prepared
    <3>7. \A v \in Workers : /\ worker[v] \in Prepared => worker'[v] \in Prepared
                             /\ worker[v] = "failed" => worker'[v] = "failed"
                             /\ worker'[v] = "exited" => worker[v] = "exited"
      BY <3>2 DEF TypeOK, Prepared
    <3>8. phase \notin {"joining", "closed"} => \A v \in Workers : worker'[v] # "exited"
      BY <3>7 DEF HonestInv
    <3>9. \A t \in Tasks : future'[t] = "broken" => future[t] = "broken" \/ broken'
      BY <3>4
    <3> QED
      BY <3>2, <3>5, <3>6, <3>7, <3>8, <3>9, HonestPool
  <2>6. CASE CountIdle(w)
    BY <2>6, HonestPool DEF CountIdle, TypeOK, Prepared, HonestInv
  <2>7. CASE Exit(w)
    <3>1. phase \in {"joining", "closed"}
      <4>1. Wake \in Range(queue)
        BY <2>7, QueueFacts DEF Exit, TypeOK, Entries
      <4> QED
        BY <4>1 DEF TaskInv, SentinelAlone
    <3> QED
      BY <2>7, <3>1, HonestPool DEF Exit, TypeOK, Prepared, HonestInv
  <2> QED
    BY <1>10, <2>1, <2>2, <2>3, <2>4, <2>5, <2>6, <2>7 DEF Thread
<1>11. CASE UNCHANGED vars
  BY <1>11 DEF HonestInv
<1> QED
  BY <1>1, <1>2, <1>3, <1>4, <1>5, <1>6, <1>7, <1>8, <1>9, <1>10, <1>11 DEF Next, Initialize

\* initialize() returns only when every no-op has run and a prepared thread stands
\* ready; without a moderation pipeline it raises only when a hook has raised.
THEOREM HonestInitialize == Spec => []InitializeIsHonest
<1>1. TypeOK /\ HonestInv => InitializeIsHonest
  <2> SUFFICES ASSUME TypeOK, HonestInv
               PROVE  InitializeIsHonest
    OBVIOUS
  <2>1. PICK t \in Warmups : TRUE
    BY WorkersAssumption, FS_EmptySet
  <2>2. t \in Tasks
    BY DEF Tasks
  <2> QED
    BY <2>1, <2>2 DEF HonestInv, InitializeIsHonest, Prepared
<1> QED
  BY <1>1, TypeInit, TypeStep, TaskInit, TaskStep, HonestInit, HonestStep, PTL DEF Spec
=============================================================================
