-------------------------- MODULE ChatRequestProofs --------------------------
(***************************************************************************)
(* Proofs about ChatRequest, for streams of any length.                    *)
(***************************************************************************)
EXTENDS ChatRequest, TLAPS

\* The status a record is made of: of what was sent, unless it went wrong later.
Final == IF failed \/ pc = "crashed" THEN 500 ELSE wireStatus

\* What has gone out, or is being sent.
Sent == IF offer = "none" THEN events ELSE Append(events, offer)

\* The middleware, against what is on the wire.
Reporting ==
    /\ ~reported => stats = <<>>
    /\ reported => statsOn /\ pc \in {"crashed", "ended"}
    /\ stats # <<>> => Final \in {200, 422, 500, 501} /\ stats = <<KindOf(Final)>>
    /\ statsOn /\ (pc = "crashed" \/ wire = "complete") =>
          reported /\ (Final # 307 => stats = <<KindOf(Final)>>)

\* The wire, by the stage of the request.
Wire ==
    /\ pc \in {"routed", "hook", "returned", "crashed"} => wire = "none"
    /\ pc \in {"body", "stream", "cut"} => wire = "started" /\ (statsOn => status = wireStatus)
    /\ pc = "ended" => wire # "started"
    /\ pc = "ended" /\ wire = "none" => ~reported
    /\ wire = "none" => wireStatus = 0 /\ ~stamped
    /\ wire # "none" => wireStatus \in Statuses /\ stamped = statsOn

\* The stream: its generator runs only under the response, and fails once.
Streaming ==
    /\ pc \in {"stream", "cut"} => mode # "plain" /\ wireStatus = 200
    /\ pc = "body" /\ mode # "plain" => wireStatus # 200
    /\ gen = "running" => pc = "stream" /\ stage # "exhausted" /\ offer = "none"
    /\ pc \in {"routed", "hook", "returned", "body", "crashed"} =>
          stage = "chunks" /\ gen = "idle" /\ offer = "none" /\ events = <<>>
    /\ stage # "chunks" => wireStatus = 200 /\ mode # "plain"
    /\ stage = "chunks" => ~failed
    /\ stage = "afterError" => failed
    /\ wire = "complete" /\ mode # "plain" /\ wireStatus = 200 =>
          stage = "exhausted" /\ offer = "none"

\* What a client that stays has been sent.
Shown ==
    client = "connected" /\ (pc = "stream" \/ wire = "complete") =>
        /\ stage # "chunks" => Sent # <<>>
        /\ \A i \in DOMAIN Sent :
              /\ Sent[i] = "done" <=> stage = "exhausted" /\ i = Len(Sent)
              /\ Sent[i] = "error" <=>
                    failed /\ i = Len(Sent) - (IF stage = "exhausted" THEN 1 ELSE 0)

\* The row of a stream.
Row ==
    mode # "plain" =>
        rows = IF stage = "exhausted" /\ ~failed /\ dataOn /\ hasPrompt THEN <<chunks>> ELSE <<>>

Inv == TypeOK /\ Reporting /\ Wire /\ Streaming /\ Shown /\ Row

LEMMA KindFacts ==
  /\ KindOf(200) = "success" /\ KindOf(422) = "userError"
  /\ KindOf(500) = "systemError" /\ KindOf(501) = "systemError"
  BY DEF KindOf

\* What report() does to its record.
LEMMA ReportFacts ==
  ASSUME Inv, NEW s \in Statuses, Report(s)
  PROVE  /\ statsOn /\ ~reported =>
               /\ reported'
               /\ stats' = IF (IF failed THEN 500 ELSE s) = 307 THEN <<>>
                           ELSE <<KindOf(IF failed THEN 500 ELSE s)>>
         /\ ~statsOn \/ reported => UNCHANGED <<reported, stats>>
         /\ reported' \in BOOLEAN /\ stats' \in Seq(RecordKinds)
<1> DEFINE final == IF failed THEN 500 ELSE s
<1>1. final \in Statuses
  BY DEF Statuses
<1>2. final \in 300 .. 399 <=> final = 307
  BY <1>1 DEF Statuses
<1>3. final # 307 => KindOf(final) \in RecordKinds
  BY <1>1, KindFacts DEF Statuses, RecordKinds
<1> HIDE DEF final
<1>4. CASE statsOn /\ ~reported
  <2>1. stats = <<>>
    BY <1>4 DEF Inv, Reporting
  <2>2. reported' /\ stats' = IF final \in 300 .. 399 THEN stats ELSE Append(stats, KindOf(final))
    BY <1>4 DEF Report, final
  <2>3. Append(<<>>, KindOf(final)) = <<KindOf(final)>>
    OBVIOUS
  <2>4. stats' = IF final = 307 THEN <<>> ELSE <<KindOf(final)>>
    BY <1>2, <2>1, <2>2, <2>3
  <2>5. stats' \in Seq(RecordKinds)
    BY <1>3, <2>4
  <2> QED
    BY <1>4, <2>2, <2>4, <2>5 DEF final
<1>5. CASE ~statsOn \/ reported
  BY <1>5 DEF Report, Inv, TypeOK
<1> QED
  BY <1>4, <1>5

\* What a sequence becomes by one more element.
LEMMA AppendFacts ==
  ASSUME NEW S, NEW s \in Seq(S), NEW e \in S
  PROVE  /\ Append(s, e) \in Seq(S) /\ Append(s, e) # <<>>
         /\ Len(s) \in Nat /\ DOMAIN s = 1 .. Len(s)
         /\ Len(Append(s, e)) = Len(s) + 1
         /\ DOMAIN Append(s, e) = 1 .. (Len(s) + 1)
         /\ \A i \in 1 .. Len(s) : Append(s, e)[i] = s[i]
         /\ Append(s, e)[Len(s) + 1] = e
  OBVIOUS

LEMMA RowTyped ==
  ASSUME Inv, NEW n \in 0 .. MaxChunks, OnComplete(n)
  PROVE  rows' \in Seq(0 .. MaxChunks)
  BY AppendFacts DEF Inv, TypeOK, OnComplete

LEMMA InvInitially == Init => Inv
<1> SUFFICES ASSUME Init PROVE Inv
  OBVIOUS
<1> USE DEF Init
<1>1. TypeOK
  <2>1. <<>> \in Seq(Events) /\ <<>> \in Seq(RecordKinds) /\ <<>> \in Seq(0 .. MaxChunks)
    OBVIOUS
  <2>2. chunks \in 0 .. MaxChunks
    BY ChunksAssumption
  <2>3. /\ pc \in PCs /\ status \in Statuses /\ wireStatus \in Statuses \cup {0}
        /\ gen \in GenStates /\ stage \in Stages /\ offer \in Events \cup {"none"}
    BY DEF Statuses, PCs, GenStates, Stages
  <2> QED
    BY <2>1, <2>2, <2>3 DEF TypeOK
<1>2. Reporting /\ Wire /\ Streaming /\ Row
  BY DEF Reporting, Wire, Streaming, Row
<1>3. Shown
  BY DEF Shown
<1> QED
  BY <1>1, <1>2, <1>3 DEF Inv

LEMMA WireStep == Inv /\ Next => Wire'
<1> SUFFICES ASSUME Inv, Next PROVE Wire'
  OBVIOUS
<1> USE DEF Inv, Wire, Reporting, Streaming, TypeOK, PCs, Statuses, requestVars,
    streamVars, wireVars, SendStart, SendLastBody, Report, CrashPassesMiddleware,
    OnComplete, Yield
<1>1. CASE Reject \/ CallHook \/ HookFails \/ HookReturns
  BY <1>1 DEF Reject, CallHook, HookFails, HookReturns
<1>2. CASE HandlerRaises \/ PlainServed \/ PlainInvalid
  BY <1>2 DEF HandlerRaises, PlainServed, PlainInvalid
<1>3. CASE SendBody \/ EndStream \/ CloseCutStream \/ RaisesAfterResponse
  BY <1>3 DEF SendBody, EndStream, CloseCutStream, RaisesAfterResponse
<1>4. CASE SendUnexpectedError \/ StartStream
  BY <1>4 DEF SendUnexpectedError, StartStream
<1>5. CASE AskGenerator \/ SendEvent \/ StopStream
  BY <1>5 DEF AskGenerator, SendEvent, StopStream
<1>6. CASE YieldChunk \/ StreamRaises \/ DoneAfterError \/ StreamCompletes
  BY <1>6 DEF YieldChunk, StreamRaises, DoneAfterError, StreamCompletes
<1>7. CASE ClientLeaves \/ Cancelled
  BY <1>7 DEF ClientLeaves, Cancelled
<1> QED
  BY <1>1, <1>2, <1>3, <1>4, <1>5, <1>6, <1>7 DEF Next, Handle, Stream, Generate,
     Surroundings

LEMMA StreamingStep == Inv /\ Next => Streaming'
<1> SUFFICES ASSUME Inv, Next PROVE Streaming'
  OBVIOUS
<1> USE DEF Inv, Wire, Streaming, TypeOK, PCs, Statuses, requestVars, streamVars,
    wireVars, SendStart, SendLastBody, Report, CrashPassesMiddleware, OnComplete, Yield
<1>1. CASE Reject \/ CallHook \/ HookFails \/ HookReturns
  BY <1>1 DEF Reject, CallHook, HookFails, HookReturns
<1>2. CASE HandlerRaises \/ PlainServed \/ PlainInvalid
  BY <1>2 DEF HandlerRaises, PlainServed, PlainInvalid
<1>3. CASE SendBody \/ EndStream \/ CloseCutStream \/ RaisesAfterResponse
  BY <1>3 DEF SendBody, EndStream, CloseCutStream, RaisesAfterResponse
<1>4. CASE SendUnexpectedError \/ StartStream
  BY <1>4 DEF SendUnexpectedError, StartStream
<1>5. CASE AskGenerator \/ SendEvent \/ StopStream
  BY <1>5 DEF AskGenerator, SendEvent, StopStream
<1>6. CASE YieldChunk \/ StreamRaises \/ DoneAfterError \/ StreamCompletes
  BY <1>6 DEF YieldChunk, StreamRaises, DoneAfterError, StreamCompletes
<1>7. CASE ClientLeaves \/ Cancelled
  BY <1>7 DEF ClientLeaves, Cancelled
<1> QED
  BY <1>1, <1>2, <1>3, <1>4, <1>5, <1>6, <1>7 DEF Next, Handle, Stream, Generate,
     Surroundings

LEMMA RowStep == Inv /\ Next => Row'
<1> SUFFICES ASSUME Inv, Next PROVE Row'
  OBVIOUS
<1> USE DEF Inv, Row, Streaming, TypeOK, requestVars, streamVars, wireVars, SendStart,
    SendLastBody, Report, CrashPassesMiddleware, OnComplete, Yield
<1>1. CASE Reject \/ CallHook \/ HookFails \/ HookReturns
  BY <1>1 DEF Reject, CallHook, HookFails, HookReturns
<1>2. CASE HandlerRaises \/ PlainServed \/ PlainInvalid
  BY <1>2 DEF HandlerRaises, PlainServed, PlainInvalid
<1>3. CASE SendBody \/ EndStream \/ CloseCutStream \/ RaisesAfterResponse
  BY <1>3 DEF SendBody, EndStream, CloseCutStream, RaisesAfterResponse
<1>4. CASE SendUnexpectedError \/ StartStream
  BY <1>4 DEF SendUnexpectedError, StartStream
<1>5. CASE AskGenerator \/ SendEvent \/ StopStream
  BY <1>5 DEF AskGenerator, SendEvent, StopStream
<1>6. CASE YieldChunk \/ StreamRaises \/ DoneAfterError \/ StreamCompletes
  <2>1. CASE YieldChunk
    BY <2>1 DEF YieldChunk
  <2>2. CASE StreamRaises
    BY <2>2 DEF StreamRaises
  <2>3. CASE DoneAfterError
    BY <2>3 DEF DoneAfterError
  <2>4. CASE StreamCompletes
    BY <2>4 DEF StreamCompletes
  <2> QED
    BY <1>6, <2>1, <2>2, <2>3, <2>4
<1>7. CASE ClientLeaves \/ Cancelled
  BY <1>7 DEF ClientLeaves, Cancelled
<1> QED
  BY <1>1, <1>2, <1>3, <1>4, <1>5, <1>6, <1>7 DEF Next, Handle, Stream, Generate,
     Surroundings

LEMMA ReportingStep == Inv /\ Next => Reporting'
<1> SUFFICES ASSUME Inv, Next PROVE Reporting'
  OBVIOUS
<1> USE KindFacts DEF Inv, Wire, Reporting, Streaming, TypeOK, Final, PCs, Statuses,
    requestVars, streamVars, wireVars, SendStart, SendLastBody, CrashPassesMiddleware,
    OnComplete, Yield
<1>1. CASE Reject \/ CallHook \/ HookFails \/ HookReturns
  BY <1>1 DEF Reject, CallHook, HookFails, HookReturns
<1>2. CASE PlainServed
  BY <1>2 DEF PlainServed
<1>3. CASE HandlerRaises
  <2>1. Report(500) /\ 500 \in Statuses
    BY <1>3 DEF HandlerRaises
  <2> QED
    BY <1>3, <2>1, ReportFacts DEF HandlerRaises
<1>4. CASE PlainInvalid
  <2>1. Report(500) /\ 500 \in Statuses
    BY <1>4 DEF PlainInvalid
  <2> QED
    BY <1>4, <2>1, ReportFacts DEF PlainInvalid
<1>5. CASE SendBody
  <2>1. Report(status) /\ status \in Statuses
    BY <1>5 DEF SendBody
  <2> QED
    BY <1>5, <2>1, ReportFacts DEF SendBody
<1>6. CASE EndStream
  <2>1. Report(status) /\ status \in Statuses
    BY <1>6 DEF EndStream
  <2> QED
    BY <1>6, <2>1, ReportFacts DEF EndStream
<1>7. CASE CloseCutStream
  <2>1. Report(status) /\ status \in Statuses
    BY <1>7 DEF CloseCutStream
  <2> QED
    BY <1>7, <2>1, ReportFacts DEF CloseCutStream
<1>8. CASE RaisesAfterResponse
  <2>1. Report(500) /\ 500 \in Statuses
    BY <1>8 DEF RaisesAfterResponse
  <2> QED
    BY <1>8, <2>1, ReportFacts DEF RaisesAfterResponse
<1>9. CASE SendUnexpectedError \/ StartStream
  BY <1>9 DEF SendUnexpectedError, StartStream
<1>10. CASE AskGenerator \/ SendEvent \/ StopStream
  BY <1>10 DEF AskGenerator, SendEvent, StopStream
<1>11. CASE YieldChunk \/ StreamRaises \/ DoneAfterError \/ StreamCompletes
  BY <1>11 DEF YieldChunk, StreamRaises, DoneAfterError, StreamCompletes
<1>12. CASE ClientLeaves \/ Cancelled
  BY <1>12 DEF ClientLeaves, Cancelled
<1> QED
  BY <1>1, <1>2, <1>3, <1>4, <1>5, <1>6, <1>7, <1>8, <1>9, <1>10, <1>11, <1>12 DEF
     Next, Handle, Stream, Generate, Surroundings

LEMMA ShownStep == Inv /\ Next => Shown'
<1> SUFFICES ASSUME Inv, Next PROVE Shown'
  OBVIOUS
<1> USE DEF Inv, Wire, Shown, Sent, Streaming, TypeOK, PCs, Statuses, requestVars,
    streamVars, wireVars, SendStart, SendLastBody, CrashPassesMiddleware, OnComplete,
    Yield
<1>1. CASE Reject \/ CallHook \/ HookFails \/ HookReturns
  BY <1>1 DEF Reject, CallHook, HookFails, HookReturns
<1>2. CASE HandlerRaises \/ PlainServed \/ PlainInvalid
  BY <1>2 DEF HandlerRaises, PlainServed, PlainInvalid
<1>3. CASE SendBody \/ EndStream \/ CloseCutStream
  <2>1. CASE SendBody
    BY <2>1 DEF SendBody
  <2>2. CASE EndStream
    BY <2>2 DEF EndStream
  <2>3. CASE CloseCutStream
    BY <2>3 DEF CloseCutStream
  <2> QED
    BY <1>3, <2>1, <2>2, <2>3
<1>4. CASE RaisesAfterResponse
  <2>1. UNCHANGED <<client, pc, wire, stage, offer, events, failed>>
    BY <1>4 DEF RaisesAfterResponse
  <2>2. Sent' = Sent
    BY <2>1
  <2>3. Shown
    BY DEF Inv
  <2> HIDE DEF Inv, Sent, Wire, Streaming, TypeOK
  <2> QED
    BY <2>1, <2>2, <2>3
<1>5. CASE SendUnexpectedError \/ StartStream
  <2>1. CASE SendUnexpectedError
    BY <2>1 DEF SendUnexpectedError
  <2>2. CASE StartStream
    BY <2>2 DEF StartStream
  <2> QED
    BY <1>5, <2>1, <2>2
<1>6. CASE AskGenerator \/ SendEvent \/ StopStream
  <2>1. CASE AskGenerator
    BY <2>1 DEF AskGenerator
  <2>2. CASE SendEvent
    BY <2>2 DEF SendEvent
  <2>3. CASE StopStream
    BY <2>3 DEF StopStream
  <2> QED
    BY <1>6, <2>1, <2>2, <2>3
<1>7. CASE YieldChunk
  BY <1>7 DEF YieldChunk
<1>8. CASE StreamRaises
  <2>1. Sent = events /\ Sent' = Append(events, "error") /\ events \in Seq(Events)
    BY <1>8 DEF StreamRaises
  <2>2. "error" \in Events
    BY DEF Events
  <2> HIDE DEF Sent
  <2> QED
    BY <1>8, <2>1, <2>2, AppendFacts DEF StreamRaises
<1>9. CASE DoneAfterError
  <2>1. Sent = events /\ Sent' = Append(events, "done") /\ events \in Seq(Events)
    BY <1>9 DEF DoneAfterError
  <2>2. "done" \in Events
    BY DEF Events
  <2> HIDE DEF Sent
  <2> QED
    BY <1>9, <2>1, <2>2, AppendFacts DEF DoneAfterError
<1>10. CASE StreamCompletes
  <2>1. Sent = events /\ Sent' = Append(events, "done") /\ events \in Seq(Events)
    BY <1>10 DEF StreamCompletes
  <2>2. "done" \in Events
    BY DEF Events
  <2> HIDE DEF Sent
  <2>3. /\ stage = "chunks" /\ stage' = "exhausted" /\ pc = "stream" /\ ~failed
        /\ UNCHANGED <<client, pc, wire, failed>>
    BY <1>10 DEF StreamCompletes
  <2> QED
    BY <2>1, <2>2, <2>3, AppendFacts
<1>11. CASE ClientLeaves \/ Cancelled
  BY <1>11 DEF ClientLeaves, Cancelled
<1> QED
  BY <1>1, <1>2, <1>3, <1>4, <1>5, <1>6, <1>7, <1>8, <1>9, <1>10, <1>11 DEF Next,
     Handle, Stream, Generate, Surroundings

LEMMA TypeStep == Inv /\ Next => TypeOK'
<1> SUFFICES ASSUME Inv, Next PROVE TypeOK'
  OBVIOUS
<1> USE ChunksAssumption, KindFacts DEF Inv, TypeOK, PCs, Statuses, GenStates, Stages,
    Events, RecordKinds, Final, requestVars, streamVars, wireVars, SendStart,
    SendLastBody, CrashPassesMiddleware, Yield
<1>1. CASE Reject \/ CallHook \/ HookFails \/ HookReturns
  BY <1>1 DEF Reject, CallHook, HookFails, HookReturns
<1>2. CASE HandlerRaises
  <2>1. Report(500) /\ 500 \in Statuses
    BY <1>2 DEF HandlerRaises
  <2> QED
    BY <1>2, <2>1, ReportFacts DEF HandlerRaises
<1>3. CASE PlainServed
  <2>1. rows' \in Seq(0 .. MaxChunks)
    BY <1>3, RowTyped DEF PlainServed
  <2> QED
    BY <1>3, <2>1 DEF PlainServed
<1>4. CASE PlainInvalid
  <2>1. Report(500) /\ 500 \in Statuses
    BY <1>4 DEF PlainInvalid
  <2>2. rows' \in Seq(0 .. MaxChunks)
    BY <1>4, RowTyped DEF PlainInvalid
  <2> QED
    BY <1>4, <2>1, <2>2, ReportFacts DEF PlainInvalid
<1>5. CASE SendBody
  <2>1. Report(status) /\ status \in Statuses
    BY <1>5 DEF SendBody
  <2> QED
    BY <1>5, <2>1, ReportFacts DEF SendBody
<1>6. CASE EndStream
  <2>1. Report(status) /\ status \in Statuses
    BY <1>6 DEF EndStream
  <2> QED
    BY <1>6, <2>1, ReportFacts DEF EndStream
<1>7. CASE CloseCutStream
  <2>1. Report(status) /\ status \in Statuses
    BY <1>7 DEF CloseCutStream
  <2> QED
    BY <1>7, <2>1, ReportFacts DEF CloseCutStream
<1>8. CASE RaisesAfterResponse
  <2>1. Report(500) /\ 500 \in Statuses
    BY <1>8 DEF RaisesAfterResponse
  <2> QED
    BY <1>8, <2>1, ReportFacts DEF RaisesAfterResponse
<1>9. CASE SendUnexpectedError \/ StartStream
  BY <1>9 DEF SendUnexpectedError, StartStream
<1>10. CASE AskGenerator \/ SendEvent \/ StopStream
  <2>1. CASE AskGenerator
    BY <2>1 DEF AskGenerator
  <2>2. CASE SendEvent
    BY <2>2 DEF SendEvent
  <2>3. CASE StopStream
    BY <2>3 DEF StopStream
  <2> QED
    BY <1>10, <2>1, <2>2, <2>3
<1>11. CASE YieldChunk \/ StreamRaises \/ DoneAfterError
  <2>1. CASE YieldChunk
    BY <2>1 DEF YieldChunk
  <2>2. CASE StreamRaises
    BY <2>2 DEF StreamRaises
  <2>3. CASE DoneAfterError
    BY <2>3 DEF DoneAfterError
  <2> QED
    BY <1>11, <2>1, <2>2, <2>3
<1>12. CASE StreamCompletes
  <2>1. rows' \in Seq(0 .. MaxChunks)
    BY <1>12, RowTyped DEF StreamCompletes
  <2> QED
    BY <1>12, <2>1 DEF StreamCompletes
<1>13. CASE ClientLeaves \/ Cancelled
  BY <1>13 DEF ClientLeaves, Cancelled
<1> QED
  BY <1>1, <1>2, <1>3, <1>4, <1>5, <1>6, <1>7, <1>8, <1>9, <1>10, <1>11, <1>12, <1>13
     DEF Next, Handle, Stream, Generate, Surroundings

LEMMA InvAlways == Spec => []Inv
<1>1. Inv /\ UNCHANGED vars => Inv'
  <2> SUFFICES ASSUME Inv, UNCHANGED vars PROVE Inv'
    OBVIOUS
  <2> USE DEF vars, requestVars, streamVars, wireVars
  <2>1. TypeOK'
    BY DEF Inv, TypeOK
  <2>2. Reporting' /\ Wire'
    BY DEF Inv, Reporting, Wire, Final
  <2>3. Streaming' /\ Row'
    BY DEF Inv, Streaming, Row
  <2>4. Sent' = Sent
    BY DEF Sent
  <2>5. Shown'
    BY <2>4 DEF Inv, Shown
  <2> QED
    BY <2>1, <2>2, <2>3, <2>5 DEF Inv
<1>2. Inv /\ [Next]_vars => Inv'
  BY <1>1, TypeStep, ReportingStep, WireStep, StreamingStep, ShownStep, RowStep DEF Inv
<1> QED
  BY <1>2, InvInitially, PTL DEF Spec

-----------------------------------------------------------------------------
\* Every variable of a request keeps its type, for streams of any length.
THEOREM ChatTypeCorrect == Spec => []TypeOK
  BY InvAlways, PTL DEF Inv

\* While the server reports, a complete response carries the header and has one
\* record of the server, a redirect none; else a 5xx has one of the gateway.  Never
\* two, in whichever layer the response was made and whatever is raised after it.
THEOREM OneRecordPerRequest == Spec => []CountedExactlyOnce
<1>1. Inv => CountedExactlyOnce
  <2> SUFFICES ASSUME Inv PROVE CountedExactlyOnce
    OBVIOUS
  <2>1. Len(stats) \in {0, 1} /\ (stats # <<>> <=> Len(stats) = 1)
    BY DEF Inv, Reporting
  <2>2. GatewayRecords \in {0, 1} /\ (GatewayRecords = 1 <=> ~stamped /\ wireStatus >= 500)
    BY DEF GatewayRecords
  <2>3. GatewayRecords = 1 => ~statsOn /\ stats = <<>>
    BY <2>2 DEF Inv, Wire, Reporting
  <2>4. wire = "complete" /\ statsOn /\ wireStatus # 307 => stats # <<>>
    BY DEF Inv, Reporting, Final
  <2>5. wire = "complete" => wireStatus \in Statuses /\ stamped = statsOn
    BY DEF Inv, Wire
  <2>6. Len(stats) + GatewayRecords <= 1
    <3>1. PICK n \in {0, 1} : n = Len(stats)
      BY <2>1
    <3>2. PICK g \in {0, 1} : g = GatewayRecords
      BY <2>2
    <3>3. g = 1 => n = 0
      BY <2>3, <3>1, <3>2
    <3>4. n + g <= 1
      BY <3>3
    <3> QED
      BY <3>1, <3>2, <3>4
  <2>7. wire = "complete" /\ wireStatus = 307 => stats = <<>>
    <3> SUFFICES ASSUME wire = "complete", wireStatus = 307
                 PROVE  stats = <<>>
      OBVIOUS
    <3>1. ~failed /\ pc # "crashed"
      BY DEF Inv, Streaming, Wire
    <3> QED
      BY <3>1 DEF Inv, Reporting, Final
  <2>8. wire = "complete" /\ statsOn => Len(stats) = IF wireStatus \in 300 .. 399 THEN 0 ELSE 1
    <3> SUFFICES ASSUME wire = "complete", statsOn
                 PROVE  Len(stats) = IF wireStatus \in 300 .. 399 THEN 0 ELSE 1
      OBVIOUS
    <3>1. CASE wireStatus = 307
      BY <2>7, <3>1
    <3>2. CASE wireStatus # 307
      <4>1. Len(stats) = 1
        BY <2>1, <2>4, <3>2
      <4>2. wireStatus \notin 300 .. 399
        BY <2>5, <3>2 DEF Statuses
      <4> QED
        BY <4>1, <4>2
    <3> QED
      BY <3>1, <3>2
  <2>9. wire = "complete" /\ ~statsOn => stats = <<>> /\ (wireStatus >= 500 => GatewayRecords = 1)
    BY <2>2, <2>5 DEF Inv, Reporting
  <2> QED
    BY <2>5, <2>6, <2>8, <2>9 DEF CountedExactlyOnce
<1> QED
  BY <1>1, InvAlways, PTL

\* The record names what the client got, also when a stream fails after its 200.
THEOREM RecordsTellTheOutcome == Spec => []RecordTellsOutcome
<1>1. Inv => RecordTellsOutcome
  <2> SUFFICES ASSUME Inv, NEW i \in DOMAIN stats
               PROVE  /\ stats[i] = "success" => wireStatus = 200 /\ ~failed
                      /\ stats[i] = "userError" => wireStatus \in 400 .. 499
                      /\ stats[i] = "systemError" => wireStatus >= 500 \/ failed \/ pc = "crashed"
                      /\ stats[i] \in RecordKinds
    BY Zenon DEF RecordTellsOutcome, RecordKinds
  <2>1. Final \in {200, 422, 500, 501} /\ stats[i] = KindOf(Final)
    BY DEF Inv, Reporting
  <2>2. Final # 500 => Final = wireStatus /\ ~failed
    BY DEF Final
  <2>3. Final = 500 => wireStatus >= 500 \/ failed \/ pc = "crashed"
    BY DEF Final
  <2> QED
    BY <2>1, <2>2, <2>3, KindFacts DEF RecordKinds
<1> QED
  BY <1>1, InvAlways, PTL

\* A client that stays sees one [DONE] at the end, after an error event if it failed.
THEOREM StreamsTerminate == Spec => []StreamIsTerminated
<1>1. Inv => StreamIsTerminated
  <2> SUFFICES ASSUME Inv, wire = "complete", mode # "plain", wireStatus = 200,
                      client = "connected"
               PROVE  StreamIsTerminated
    BY DEF StreamIsTerminated
  <2>1. stage = "exhausted" /\ Sent = events /\ events \in Seq(Events)
    BY DEF Inv, Streaming, Sent, TypeOK
  <2>2. events # <<>> /\ Len(events) \in DOMAIN events
    BY <2>1 DEF Inv, Shown
  <2> QED
    BY <2>1, <2>2 DEF Inv, Shown, StreamIsTerminated, Last
<1> QED
  BY <1>1, InvAlways, PTL

\* A stream's one row is its whole answer, and never goes with the record of an error.
THEOREM RowsAreWhole == Spec => []RowIsWholeAnswer
<1>1. Inv => RowIsWholeAnswer
  <2> SUFFICES ASSUME Inv, mode # "plain" PROVE RowIsWholeAnswer
    BY DEF RowIsWholeAnswer
  <2>1. rows = IF stage = "exhausted" /\ ~failed /\ dataOn /\ hasPrompt THEN <<chunks>> ELSE <<>>
    BY DEF Inv, Row
  <2>2. rows # <<>> => stage = "exhausted" /\ ~failed /\ rows = <<chunks>>
    BY <2>1
  <2>3. rows # <<>> => Final = 200
    BY <2>2 DEF Inv, Wire, Streaming, Final
  <2>4. rows # <<>> => \A i \in 1 .. Len(stats) : stats[i] = "success"
    BY <2>3, KindFacts DEF Inv, Reporting
  <2>5. wire = "complete" /\ wireStatus = 200 => stage = "exhausted"
    BY DEF Inv, Streaming
  <2>6. Len(rows) <= 1 /\ (rows # <<>> => rows[1] = chunks)
    BY <2>1
  <2> QED
    BY <2>1, <2>2, <2>4, <2>5, <2>6 DEF RowIsWholeAnswer, Contains
<1> QED
  BY <1>1, InvAlways, PTL
=============================================================================
