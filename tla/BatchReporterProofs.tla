------------------------ MODULE BatchReporterProofs ------------------------
(***************************************************************************)
(* Theorems about BatchReporter, for every set of records, every queue and *)
(* batch size and every number of attempts.                                *)
(***************************************************************************)
EXTENDS BatchReporter, SequenceTheorems, FiniteSetTheorems, TLAPS

-----------------------------------------------------------------------------
(* Queues: their range, and whether they hold anything twice *)

Distinct(s) == \A i, j \in DOMAIN s : s[i] = s[j] => i = j

\* Appending adds one element to the range, and keeps distinctness when the
\* element is new.
LEMMA AppendRange ==
  ASSUME NEW S, NEW s \in Seq(S), NEW e \in S
  PROVE  /\ Range(Append(s, e)) = Range(s) \cup {e}
         /\ Distinct(s) /\ e \notin Range(s) => Distinct(Append(s, e))
<1>1. /\ Append(s, e) \in Seq(S)
      /\ Len(Append(s, e)) = Len(s) + 1
      /\ \A i \in 1 .. Len(s) : Append(s, e)[i] = s[i]
      /\ Append(s, e)[Len(s) + 1] = e
  BY AppendProperties
<1>2. /\ DOMAIN s = 1 .. Len(s)
      /\ DOMAIN Append(s, e) = 1 .. Len(s) + 1
      /\ Len(s) \in Nat
  BY <1>1, LenProperties
<1>3. Range(Append(s, e)) = Range(s) \cup {e}
  BY <1>1, <1>2 DEF Range
<1>4. ASSUME Distinct(s), e \notin Range(s)
      PROVE  Distinct(Append(s, e))
  BY <1>1, <1>2, <1>4 DEF Distinct, Range
<1> QED
  BY <1>3, <1>4

\* Taking the head off: the range loses the head and nothing else when the
\* elements are distinct.
LEMMA TailRange ==
  ASSUME NEW S, NEW s \in Seq(S), s # <<>>
  PROVE  /\ Head(s) \in S
         /\ Tail(s) \in Seq(S)
         /\ Len(Tail(s)) = Len(s) - 1
         /\ Range(s) = {Head(s)} \cup Range(Tail(s))
         /\ Distinct(s) => Distinct(Tail(s)) /\ Head(s) \notin Range(Tail(s))
<1>1. /\ Head(s) \in S
      /\ Tail(s) \in Seq(S)
      /\ Len(Tail(s)) = Len(s) - 1
      /\ \A i \in 1 .. Len(Tail(s)) : Tail(s)[i] = s[i + 1]
  BY HeadTailProperties
<1>2. /\ DOMAIN s = 1 .. Len(s)
      /\ DOMAIN Tail(s) = 1 .. Len(s) - 1
      /\ Len(s) \in Nat \ {0}
      /\ Head(s) = s[1]
  BY <1>1, LenProperties, EmptySeq
<1>3. Range(s) = {Head(s)} \cup Range(Tail(s))
  <2>1. ASSUME NEW x \in Range(s)
        PROVE  x \in {Head(s)} \cup Range(Tail(s))
    <3>1. PICK i \in 1 .. Len(s) : x = s[i]
      BY <1>2 DEF Range
    <3>2. CASE i = 1
      BY <3>1, <3>2, <1>2
    <3>3. CASE i # 1
      <4>1. i - 1 \in DOMAIN Tail(s) /\ Tail(s)[i - 1] = s[i]
        BY <1>1, <1>2, <3>3
      <4> QED
        BY <4>1, <3>1 DEF Range
    <3> QED
      BY <3>2, <3>3
  <2>2. ASSUME NEW x \in {Head(s)} \cup Range(Tail(s))
        PROVE  x \in Range(s)
    <3>1. CASE x = Head(s)
      BY <3>1, <1>2 DEF Range
    <3>2. CASE x \in Range(Tail(s))
      <4>1. PICK i \in 1 .. Len(s) - 1 : x = Tail(s)[i]
        BY <3>2, <1>2 DEF Range
      <4>2. i + 1 \in DOMAIN s /\ s[i + 1] = x
        BY <4>1, <1>1, <1>2
      <4> QED
        BY <4>2 DEF Range
    <3> QED
      BY <2>2, <3>1, <3>2
  <2> QED
    BY <2>1, <2>2
<1>4. ASSUME Distinct(s)
      PROVE  Distinct(Tail(s)) /\ Head(s) \notin Range(Tail(s))
  BY <1>1, <1>2, <1>4 DEF Distinct, Range
<1> QED
  BY <1>1, <1>3, <1>4

\* The empty sequence holds nothing.
LEMMA EmptyRange == Range(<<>>) = {} /\ Distinct(<<>>)
BY DEF Range, Distinct

\* Distinct sequences with disjoint ranges concatenate to a distinct sequence.
LEMMA ConcatRange ==
  ASSUME NEW S, NEW s \in Seq(S), NEW t \in Seq(S)
  PROVE  /\ s \o t \in Seq(S)
         /\ Range(s \o t) = Range(s) \cup Range(t)
         /\ Distinct(s) /\ Distinct(t) /\ Range(s) \cap Range(t) = {} => Distinct(s \o t)
<1>1. /\ s \o t \in Seq(S)
      /\ Len(s \o t) = Len(s) + Len(t)
      /\ \A i \in 1 .. Len(s) + Len(t) :
            (s \o t)[i] = IF i <= Len(s) THEN s[i] ELSE t[i - Len(s)]
  BY ConcatProperties
<1>2. /\ DOMAIN s = 1 .. Len(s) /\ Len(s) \in Nat
      /\ DOMAIN t = 1 .. Len(t) /\ Len(t) \in Nat
      /\ DOMAIN (s \o t) = 1 .. Len(s) + Len(t)
  BY <1>1, LenProperties
<1>3. Range(s \o t) = Range(s) \cup Range(t)
  BY RangeConcatenation
<1>4. ASSUME Distinct(s), Distinct(t), Range(s) \cap Range(t) = {},
             NEW i \in DOMAIN (s \o t), NEW j \in DOMAIN (s \o t),
             (s \o t)[i] = (s \o t)[j]
      PROVE  i = j
  <2>1. CASE i <= Len(s) /\ j <= Len(s)
    BY <1>1, <1>2, <1>4, <2>1 DEF Distinct
  <2>2. CASE i > Len(s) /\ j > Len(s)
    <3>1. i - Len(s) \in DOMAIN t /\ j - Len(s) \in DOMAIN t
      BY <1>2, <2>2
    <3>2. t[i - Len(s)] = t[j - Len(s)]
      BY <1>1, <1>2, <1>4, <2>2
    <3> QED
      BY <1>2, <1>4, <3>1, <3>2 DEF Distinct
  <2>3. CASE i <= Len(s) /\ j > Len(s)
    <3>1. (s \o t)[i] \in Range(s) /\ (s \o t)[j] \in Range(t)
      BY <1>1, <1>2, <2>3 DEF Range
    <3> QED
      BY <1>4, <3>1
  <2>4. CASE i > Len(s) /\ j <= Len(s)
    <3>1. (s \o t)[j] \in Range(s) /\ (s \o t)[i] \in Range(t)
      BY <1>1, <1>2, <2>4 DEF Range
    <3> QED
      BY <1>4, <3>1
  <2> QED
    BY <1>2, <2>1, <2>2, <2>3, <2>4
<1>5. ASSUME Distinct(s), Distinct(t), Range(s) \cap Range(t) = {}
      PROVE  Distinct(s \o t)
  BY <1>4, <1>5 DEF Distinct
<1> QED
  BY <1>1, <1>3, <1>5

-----------------------------------------------------------------------------
(* Type correctness *)

\* A retry is only ever scheduled while attempts are left.
RetryLeft == drain = "backoff" => attempt + 1 < MaxAttempts

\* The sentinel is not in the queue before aclose() puts it there.
NoEarlyStop == ~closed => Stop \notin Range(queue)

TypeInv == TypeOK /\ RetryLeft /\ NoEarlyStop

LEMMA FirstAttempt == 0 \in 0 .. MaxAttempts - 1
BY LimitsAssumption

LEMMA TypeInit == Init => TypeInv
<1> SUFFICES ASSUME Init PROVE TypeInv
  OBVIOUS
<1> USE LimitsAssumption
<1>1. <<>> \in Seq(Records \cup {Stop}) /\ <<>> \in Seq(Records)
  BY EmptySeq
<1>2. /\ "new" \in Fates /\ "none" \in DrainStates /\ "open" \in CloserStates
  BY DEF Fates, DrainStates, CloserStates
<1>3. Range(<<>>) = {}
  BY DEF Range
<1> QED
  <2>1. TypeOK
    BY <1>1, <1>2, FirstAttempt DEF Init, TypeOK
  <2>2. RetryLeft /\ NoEarlyStop
    BY <1>3 DEF Init, RetryLeft, NoEarlyStop
  <2> QED
    BY <2>1, <2>2 DEF TypeInv

\* The head and the tail of a queue that is not empty.
LEMMA QueueHead ==
  ASSUME TypeOK, queue # <<>>
  PROVE  /\ Tail(queue) \in Seq(Records \cup {Stop})
         /\ Head(queue) # Stop => Head(queue) \in Records
         /\ Range(Tail(queue)) \subseteq Range(queue)
         /\ Head(queue) \in Range(queue)
BY TailRange DEF TypeOK

\* What PutNowait leaves well typed.
LEMMA PutNowaitType ==
  ASSUME TypeOK, NEW r \in Records, PutNowait(r)
  PROVE  /\ queue' \in Seq(Records \cup {Stop})
         /\ dropped' \in Nat
         /\ fate' \in [Records -> Fates]
         /\ Range(queue') \subseteq Range(queue) \cup {r}
<1>1. CASE Len(queue) < QueueMax
  <2>1. queue' = Append(queue, r) /\ r \in Records \cup {Stop}
    BY <1>1 DEF PutNowait
  <2>2. /\ queue' \in Seq(Records \cup {Stop})
        /\ Range(queue') = Range(queue) \cup {r}
    <3>1. queue \in Seq(Records \cup {Stop})
      BY DEF TypeOK
    <3> QED
      BY <2>1, <3>1, AppendProperties, AppendRange
  <2> QED
    BY <1>1, <2>2 DEF TypeOK, PutNowait, Fates
<1>2. CASE ~(Len(queue) < QueueMax)
  BY <1>2 DEF TypeOK, PutNowait, Fates
<1> QED
  BY <1>1, <1>2

\* What Settle leaves well typed.
LEMMA SettleType ==
  ASSUME TypeOK, NEW f \in Fates, Settle(f)
  PROVE  /\ fate' \in [Records -> Fates]
         /\ batch' \in Seq(Records)
<1>1. batch' = <<>> /\ <<>> \in Seq(Records)
  BY EmptySeq DEF Settle
<1>2. fate' = [r \in Records |-> IF r \in InBatch THEN f ELSE fate[r]]
  BY DEF Settle
<1>3. fate' \in [Records -> Fates]
  BY <1>2 DEF TypeOK
<1> QED
  BY <1>1, <1>3

LEMMA TypeStep == TypeInv /\ [Next]_vars => TypeInv'
<1> SUFFICES ASSUME TypeInv, [Next]_vars
             PROVE  TypeInv'
  OBVIOUS
<1> USE LimitsAssumption
<1>0. TypeOK /\ RetryLeft /\ NoEarlyStop
  BY DEF TypeInv
<1> USE DEF TypeInv, RetryLeft, NoEarlyStop, reporterVars, drainVars, historyVars
<1>1. CASE Start
  BY <1>0, <1>1 DEF Start, TypeOK, DrainStates
<1>2. ASSUME NEW r \in Records, LoopPut(r)
      PROVE  TypeInv'
  <2>1. /\ queue' \in Seq(Records \cup {Stop})
        /\ dropped' \in Nat
        /\ fate' \in [Records -> Fates]
        /\ Range(queue') \subseteq Range(queue) \cup {r}
    BY <1>0, <1>2, PutNowaitType DEF LoopPut
  <2>2. NoEarlyStop'
    BY <1>0, <1>2, <2>1, SentinelAssumption DEF LoopPut
  <2> QED
    BY <1>0, <1>2, <2>1, <2>2 DEF LoopPut, TypeOK
<1>3. ASSUME NEW r \in Records, PutIgnored(r)
      PROVE  TypeInv'
  BY <1>0, <1>3 DEF PutIgnored, TypeOK, Fates
<1>4. ASSUME NEW r \in Records, ThreadCheck(r)
      PROVE  TypeInv'
  BY <1>0, <1>4 DEF ThreadCheck, TypeOK, Fates
<1>5. ASSUME NEW r \in Records, ThreadHandoff(r)
      PROVE  TypeInv'
  <2>1. handoff' \in Seq(Records)
    BY <1>0, <1>5, AppendProperties DEF ThreadHandoff, TypeOK
  <2> QED
    BY <1>0, <1>5, <2>1 DEF ThreadHandoff, TypeOK, Fates
<1>6. CASE RunCallback
  <2>1. Head(handoff) \in Records /\ handoff' \in Seq(Records)
    BY <1>0, <1>6, TailRange DEF RunCallback, TypeOK
  <2>2. PutNowait(Head(handoff))
    BY <1>6 DEF RunCallback
  <2>3. /\ queue' \in Seq(Records \cup {Stop})
        /\ dropped' \in Nat
        /\ fate' \in [Records -> Fates]
        /\ Range(queue') \subseteq Range(queue) \cup {Head(handoff)}
    BY <1>0, <2>1, <2>2, PutNowaitType
  <2>4. NoEarlyStop'
    BY <1>0, <1>6, <2>1, <2>3, SentinelAssumption DEF RunCallback
  <2> QED
    BY <1>0, <1>6, <2>1, <2>3, <2>4 DEF RunCallback, TypeOK
<1>8. CASE GetFirst
  <2>1. /\ queue' \in Seq(Records \cup {Stop})
        /\ NoEarlyStop'
    BY <1>0, <1>8, QueueHead DEF GetFirst
  <2>2. CASE Head(queue) = Stop
    BY <1>0, <1>8, <2>1, <2>2 DEF GetFirst, TypeOK, DrainStates
  <2>3. CASE Head(queue) # Stop
    <3>1. Head(queue) \in Records /\ batch' = <<Head(queue)>>
      BY <1>0, <1>8, <2>3, QueueHead DEF GetFirst
    <3>2. batch' \in Seq(Records)
      BY <3>1
    <3>3. drain' \in {"posting", "collecting"} /\ stopping' = FALSE /\ attempt' = 0
      BY <1>8, <2>3 DEF GetFirst
    <3> QED
      BY <1>0, <1>8, <2>1, <3>2, <3>3, FirstAttempt DEF GetFirst, TypeOK, DrainStates
  <2> QED
    BY <2>2, <2>3
<1>9. CASE GetNext
  <2>1. /\ queue' \in Seq(Records \cup {Stop})
        /\ NoEarlyStop'
    BY <1>0, <1>9, QueueHead DEF GetNext
  <2>2. batch' \in Seq(Records)
    <3>1. CASE Head(queue) = Stop
      BY <1>0, <1>9, <3>1 DEF GetNext, TypeOK
    <3>2. CASE Head(queue) # Stop
      <4>1. Head(queue) \in Records /\ batch' = Append(batch, Head(queue))
        BY <1>0, <1>9, <3>2, QueueHead DEF GetNext
      <4> QED
        BY <1>0, <4>1, AppendProperties DEF TypeOK
    <3> QED
      BY <3>1, <3>2
  <2>3. drain' \in {"collecting", "posting"} /\ stopping' \in BOOLEAN
    BY <1>0, <1>9 DEF GetNext, TypeOK
  <2> QED
    BY <1>0, <1>9, <2>1, <2>2, <2>3 DEF GetNext, TypeOK, DrainStates
<1>10. CASE FlushTimeout
  BY <1>0, <1>10 DEF FlushTimeout, TypeOK, DrainStates
<1>11. RecordBatch => recorded' \in [Records -> Nat]
  BY <1>0 DEF RecordBatch, TypeOK
<1>12. ASSUME NEW f \in Fates, PostReturns(f)
       PROVE  /\ fate' \in [Records -> Fates]
              /\ batch' \in Seq(Records)
              /\ drain' \in DrainStates \ {"backoff"}
              /\ stopping' \in BOOLEAN
  <2>1. Settle(f)
    BY <1>12 DEF PostReturns
  <2>2. /\ fate' \in [Records -> Fates]
        /\ batch' \in Seq(Records)
    BY <1>0, <2>1, SettleType
  <2> QED
    BY <1>0, <1>12, <2>2 DEF PostReturns, TypeOK, DrainStates
<1>13. "accepted" \in Fates /\ "discarded" \in Fates /\ "lost" \in Fates /\ "abandoned" \in Fates
  BY DEF Fates
<1>14. CASE PostAccepted
  <2>1. posted' \in Seq(Records)
    BY <1>0, <1>14, ConcatProperties DEF PostAccepted, TypeOK
  <2> QED
    BY <1>0, <1>11, <1>12, <1>13, <1>14, <2>1 DEF PostAccepted, TypeOK
<1>15. CASE PostFailed
  <2>1. recorded' \in [Records -> Nat]
    BY <1>0, <1>11, <1>15 DEF PostFailed, TypeOK
  <2>2. CASE LastAttempt
    BY <1>0, <1>12, <1>13, <1>15, <2>1, <2>2 DEF PostFailed, TypeOK
  <2>3. CASE ~LastAttempt
    BY <1>0, <1>15, <2>1, <2>3 DEF PostFailed, LastAttempt, TypeOK, DrainStates
  <2> QED
    BY <2>2, <2>3
<1>16. CASE PostRejected
  BY <1>0, <1>12, <1>13, <1>16 DEF PostRejected, TypeOK
<1>17. CASE PostRaises
  <2>1. Settle("lost")
    BY <1>17 DEF PostRaises
  <2>2. fate' \in [Records -> Fates] /\ batch' \in Seq(Records)
    BY <1>0, <1>13, <2>1, SettleType
  <2> QED
    BY <1>0, <1>17, <2>2 DEF PostRaises, TypeOK, DrainStates
<1>18. CASE BackoffEnds
  BY <1>0, <1>18 DEF BackoffEnds, TypeOK, DrainStates
<1>19. CASE Aclose
  <2>1. Stop \notin Range(queue)
    BY <1>0, <1>19 DEF Aclose
  <2>2. ASSUME ~(Len(queue) < QueueMax)
        PROVE  queue # <<>>
    BY <1>0, <2>2, EmptySeq DEF TypeOK
  <2>3. /\ Retained \in Seq(Records \cup {Stop})
        /\ Range(Retained) \subseteq Range(queue)
    BY <1>0, <2>2, QueueHead DEF Retained, TypeOK
  <2>4. queue' \in Seq(Records \cup {Stop})
    BY <1>19, <2>3, AppendProperties DEF Aclose, QueueWithStop
  <2>5. dropped' \in Nat /\ fate' \in [Records -> Fates]
    <3>1. CASE Len(queue) < QueueMax
      BY <1>0, <1>19, <3>1 DEF Aclose, Displace, TypeOK
    <3>2. CASE ~(Len(queue) < QueueMax)
      <4>1. Head(queue) \in Records
        BY <1>0, <2>1, <2>2, <3>2, QueueHead
      <4> QED
        BY <1>0, <1>19, <3>2, <4>1 DEF Aclose, Displace, TypeOK, Fates
    <3> QED
      BY <3>1, <3>2
  <2>6. owed' \in SUBSET Records
    <3>1. Range(batch) \in SUBSET Records /\ Range(Retained) \in SUBSET (Records \cup {Stop})
      BY <1>0, <2>3, RangeOfSeq DEF TypeOK
    <3> QED
      BY <1>19, <2>1, <2>3, <3>1 DEF Aclose, InBatch
  <2> QED
    BY <1>0, <1>19, <2>4, <2>5, <2>6 DEF Aclose, TypeOK, CloserStates
<1>20. CASE AcloseFinishes
  BY <1>0, <1>20 DEF AcloseFinishes, TypeOK, CloserStates
<1>21. CASE AcloseTimesOut
  <2>1. Settle("abandoned")
    BY <1>21 DEF AcloseTimesOut
  <2>2. fate' \in [Records -> Fates] /\ batch' \in Seq(Records)
    BY <1>0, <1>13, <2>1, SettleType
  <2>3. recorded' \in [Records -> Nat]
    BY <1>0, <1>11, <1>21 DEF AcloseTimesOut, TypeOK
  <2> QED
    BY <1>0, <1>21, <2>2, <2>3 DEF AcloseTimesOut, TypeOK, DrainStates, CloserStates
<1>22. CASE UNCHANGED vars
  BY <1>0, <1>22 DEF vars, TypeOK
<1> QED
  BY <1>1, <1>2, <1>3, <1>4, <1>5, <1>6, <1>8, <1>9, <1>10, <1>14, <1>15, <1>16,
     <1>17, <1>18, <1>19, <1>20, <1>21, <1>22
  DEF Next, Put, Handoff, Collect, Post, Close

\* Every state of the reporter is well typed; in particular the attempt never
\* reaches max_attempts (_post).
THEOREM TypeCorrect == Spec => []TypeOK
<1>1. TypeInv => TypeOK
  BY DEF TypeInv
<1> QED
  BY <1>1, TypeInit, TypeStep, PTL DEF Spec

-----------------------------------------------------------------------------
(* The drain and its closer *)

\* Where aclose() is tells whether _closed is set and whether the task is over;
\* a batch is open only below max_batch; the stop flag is set only on a batch
\* that is being posted, or when the task is over.
ControlInv ==
    /\ BatchesAreBounded
    /\ drain = "collecting" => Len(batch) < MaxBatch
    /\ closed <=> closer # "open"
    /\ drain = "none" => ~closed
    /\ closer = "finished" => drain = "ended"
    /\ closer = "warned" <=> drain = "cancelled"
    /\ stopping => drain \in {"posting", "backoff", "ended", "cancelled"}
    /\ drain = "ended" => stopping
    /\ stopping => closed

LEMMA ControlInit == Init => ControlInv
BY LimitsAssumption, EmptySeq DEF Init, ControlInv, BatchesAreBounded

\* Putting a record leaves the queue within its limit.
LEMMA PutNowaitBound ==
  ASSUME TypeOK, NEW r \in Records, PutNowait(r), Len(queue) <= QueueMax
  PROVE  Len(queue') <= QueueMax
<1>1. CASE Len(queue) < QueueMax
  <2>1. queue' = Append(queue, r) /\ r \in Records \cup {Stop} /\ queue \in Seq(Records \cup {Stop})
    BY <1>1 DEF PutNowait, TypeOK
  <2>2. Len(queue') = Len(queue) + 1 /\ Len(queue) \in Nat
    BY <2>1, AppendProperties, LenProperties
  <2> QED
    BY <1>1, <2>2, LimitsAssumption
<1>2. CASE ~(Len(queue) < QueueMax)
  BY <1>2 DEF PutNowait
<1> QED
  BY <1>1, <1>2

\* The end of a batch, by whatever road, leaves none and lets the task end only
\* when the sentinel has been taken.
LEMMA BatchEnds ==
  ASSUME TypeOK, ControlInv, batch' = <<>>, UNCHANGED <<queue, closed, closer>>,
         drain \in {"posting"},
         \/ drain' = (IF stopping THEN "ended" ELSE "idle") /\ UNCHANGED stopping
         \/ drain' = "idle" /\ stopping' = FALSE
  PROVE  ControlInv'
<1>1. Len(batch') <= MaxBatch
  BY LimitsAssumption, EmptySeq
<1> QED
  BY <1>1 DEF ControlInv, BatchesAreBounded

LEMMA ControlStep == TypeInv /\ ControlInv /\ [Next]_vars => ControlInv'
<1> SUFFICES ASSUME TypeInv, ControlInv, [Next]_vars
             PROVE  ControlInv'
  OBVIOUS
<1>0. TypeOK /\ NoEarlyStop
  BY DEF TypeInv
<1> USE DEF reporterVars, drainVars, historyVars
<1>a. /\ Len(queue) \in Nat
      /\ Len(batch) \in Nat
      /\ batch = <<>> <=> Len(batch) = 0
      /\ queue # <<>> => Len(Tail(queue)) = Len(queue) - 1
  BY <1>0, LenProperties, EmptySeq, TailRange DEF TypeOK
<1>1. CASE Start
  BY <1>1 DEF Start, ControlInv, BatchesAreBounded
<1>2. ASSUME NEW r \in Records, LoopPut(r)
      PROVE  ControlInv'
  <2>1. Len(queue') <= QueueMax
    BY <1>0, <1>2, PutNowaitBound DEF LoopPut, ControlInv, BatchesAreBounded
  <2> QED
    BY <1>2, <2>1 DEF LoopPut, ControlInv, BatchesAreBounded
<1>3. ASSUME NEW r \in Records, PutIgnored(r) \/ ThreadCheck(r) \/ ThreadHandoff(r)
      PROVE  ControlInv'
  BY <1>3 DEF PutIgnored, ThreadCheck, ThreadHandoff, ControlInv, BatchesAreBounded
<1>4. CASE RunCallback
  <2>1. Head(handoff) \in Records /\ PutNowait(Head(handoff))
    BY <1>0, <1>4, TailRange DEF RunCallback, TypeOK
  <2>2. Len(queue') <= QueueMax
    BY <1>0, <2>1, PutNowaitBound DEF ControlInv, BatchesAreBounded
  <2> QED
    BY <1>4, <2>2 DEF RunCallback, ControlInv, BatchesAreBounded
<1>5. CASE GetFirst
  <2>1. Len(queue') <= QueueMax
    BY <1>a, <1>5, LimitsAssumption DEF GetFirst, ControlInv, BatchesAreBounded
  <2>2. CASE Head(queue) = Stop
    <3>1. closed
      BY <1>0, <1>5, <2>2, QueueHead DEF GetFirst, NoEarlyStop
    <3> QED
      BY <1>5, <2>1, <2>2, <3>1 DEF GetFirst, ControlInv, BatchesAreBounded
  <2>3. CASE Head(queue) # Stop
    <3>1. batch' = <<Head(queue)>> /\ batch' # <<>> /\ Len(batch') = 1
      <4>1. batch' = <<Head(queue)>>
        BY <1>5, <2>3 DEF GetFirst
      <4>2. \A x : <<x>> # <<>> /\ Len(<<x>>) = 1
        OBVIOUS
      <4> QED
        BY <4>1, <4>2
    <3>2. 1 <= MaxBatch /\ (MaxBatch # 1 => 1 < MaxBatch)
      BY LimitsAssumption
    <3> QED
      BY <1>5, <2>1, <2>3, <3>1, <3>2 DEF GetFirst, ControlInv, BatchesAreBounded
  <2> QED
    BY <2>2, <2>3
<1>6. CASE GetNext
  <2>1. Len(queue') <= QueueMax
    BY <1>a, <1>6, LimitsAssumption DEF GetNext, ControlInv, BatchesAreBounded
  <2>2. CASE Head(queue) = Stop
    <3>1. closed
      BY <1>0, <1>6, <2>2, QueueHead DEF GetNext, NoEarlyStop
    <3> QED
      BY <1>6, <2>1, <2>2, <3>1 DEF GetNext, ControlInv, BatchesAreBounded
  <2>3. CASE Head(queue) # Stop
    <3>1. /\ batch' = Append(batch, Head(queue))
          /\ Head(queue) \in Records
      BY <1>0, <1>6, <2>3, QueueHead DEF GetNext
    <3>2. batch' # <<>> /\ Len(batch') = Len(batch) + 1
      <4>1. batch \in Seq(Records)
        BY <1>0 DEF TypeOK
      <4> QED
        BY <3>1, <4>1, AppendProperties
    <3>3. Len(batch) < MaxBatch /\ MaxBatch \in Nat
      BY <1>6, LimitsAssumption DEF GetNext, ControlInv
    <3>4. /\ Len(batch') <= MaxBatch
          /\ drain' = "collecting" => Len(batch') < MaxBatch
          /\ drain' \in {"collecting", "posting"}
      BY <1>a, <1>6, <2>3, <3>2, <3>3 DEF GetNext
    <3>5. UNCHANGED <<closed, closer, stopping>> /\ drain = "collecting"
      BY <1>6, <2>3 DEF GetNext
    <3> QED
      BY <2>1, <3>2, <3>4, <3>5 DEF ControlInv, BatchesAreBounded
  <2> QED
    BY <2>2, <2>3
<1>7. CASE FlushTimeout
  BY <1>7 DEF FlushTimeout, ControlInv, BatchesAreBounded
<1>8. CASE PostAccepted \/ PostRejected \/ PostRaises
  BY <1>0, <1>8, BatchEnds DEF PostAccepted, PostRejected, PostRaises, PostReturns, Settle
<1>9. CASE PostFailed
  <2>1. CASE LastAttempt
    BY <1>0, <1>9, <2>1, BatchEnds DEF PostFailed, PostReturns, Settle
  <2>2. CASE ~LastAttempt
    BY <1>9, <2>2 DEF PostFailed, ControlInv, BatchesAreBounded
  <2> QED
    BY <2>1, <2>2
<1>10. CASE BackoffEnds
  BY <1>10 DEF BackoffEnds, ControlInv, BatchesAreBounded
<1>11. CASE Aclose
  <2>1. Len(queue') <= QueueMax
    <3>1. Retained \in Seq(Records \cup {Stop}) /\ Len(Retained) < QueueMax
      BY <1>0, <1>a, LimitsAssumption, TailRange DEF Retained, TypeOK, ControlInv, BatchesAreBounded
    <3>2. Len(queue') = Len(Retained) + 1 /\ Len(Retained) \in Nat
      BY <1>11, <3>1, AppendProperties, LenProperties DEF Aclose, QueueWithStop
    <3> QED
      BY <3>1, <3>2, LimitsAssumption
  <2> QED
    BY <1>11, <2>1 DEF Aclose, ControlInv, BatchesAreBounded
<1>12. CASE AcloseFinishes
  BY <1>12 DEF AcloseFinishes, ControlInv, BatchesAreBounded
<1>13. CASE AcloseTimesOut
  <2>1. Len(batch') <= MaxBatch /\ batch' = <<>>
    BY <1>13, LimitsAssumption, EmptySeq DEF AcloseTimesOut, Settle
  <2> QED
    BY <1>13, <2>1 DEF AcloseTimesOut, ControlInv, BatchesAreBounded
<1>14. CASE UNCHANGED vars
  BY <1>14 DEF vars, ControlInv, BatchesAreBounded
<1> QED
  BY <1>1, <1>2, <1>3, <1>4, <1>5, <1>6, <1>7, <1>8, <1>9, <1>10, <1>11, <1>12,
     <1>13, <1>14
  DEF Next, Put, Handoff, Collect, Post, Close

\* The queue never exceeds queue_max_size, also when aclose() puts its sentinel
\* on a full one, and no batch exceeds max_batch or is posted empty.
THEOREM BatchesBounded == Spec => []BatchesAreBounded
<1>1. Init => TypeInv /\ ControlInv
  BY TypeInit, ControlInit
<1>2. TypeInv /\ ControlInv /\ [Next]_vars => (TypeInv /\ ControlInv)'
  BY TypeStep, ControlStep
<1>3. ControlInv => BatchesAreBounded
  BY DEF ControlInv
<1> QED
  BY <1>1, <1>2, <1>3, PTL DEF Spec

-----------------------------------------------------------------------------
(* Every record is in one place *)

\* EachRecordInOnePlace, taken apart: no place holds an entry twice, no two places
\* share one, and together they hold the pending records.
PlaceInv ==
    /\ Distinct(batch) /\ Distinct(queue) /\ Distinct(handoff)
    /\ Range(batch) \cap Range(queue) = {}
    /\ Range(batch) \cap Range(handoff) = {}
    /\ Range(queue) \cap Range(handoff) = {}
    /\ \A r \in Records :
          fate[r] = "pending" <=> r \in Range(batch) \cup Range(queue) \cup Range(handoff)

\* The places hold records, and the queue perhaps the sentinel.
LEMMA PlaceRanges ==
  ASSUME TypeOK
  PROVE  /\ Range(batch) \subseteq Records
         /\ Range(queue) \subseteq Records \cup {Stop}
         /\ Range(handoff) \subseteq Records
BY RangeOfSeq DEF TypeOK

LEMMA PlaceInit == Init => PlaceInv
BY EmptyRange DEF Init, PlaceInv

\* AppendRange for the entries of the queue.
LEMMA QueueAppend ==
  ASSUME NEW s \in Seq(Records \cup {Stop}), NEW e \in Records \cup {Stop}
  PROVE  /\ Range(Append(s, e)) = Range(s) \cup {e}
         /\ Distinct(s) /\ e \notin Range(s) => Distinct(Append(s, e))
BY AppendRange

\* A record that is neither in the queue nor in the batch is put or dropped.
LEMMA PutNowaitPlace ==
  ASSUME TypeOK, NEW r \in Records, PutNowait(r), r \notin Range(queue), Distinct(queue)
  PROVE  /\ Distinct(queue')
         /\ \/ /\ Range(queue') = Range(queue) \cup {r}
               /\ fate' = [fate EXCEPT ![r] = "pending"]
            \/ /\ queue' = queue
               /\ fate' = [fate EXCEPT ![r] = "dropped"]
<1>1. CASE Len(queue) < QueueMax
  <2>1. /\ queue' = Append(queue, r)
        /\ r \in Records \cup {Stop}
        /\ queue \in Seq(Records \cup {Stop})
        /\ fate' = [fate EXCEPT ![r] = "pending"]
    BY <1>1 DEF PutNowait, TypeOK
  <2> QED
    BY <2>1, AppendRange
<1>2. CASE ~(Len(queue) < QueueMax)
  BY <1>2 DEF PutNowait
<1> QED
  BY <1>1, <1>2

\* A settled batch is in no place any more.
LEMMA SettlePlace ==
  ASSUME TypeOK, PlaceInv, NEW f \in Fates \ {"pending"}, Settle(f),
         UNCHANGED <<queue, handoff>>
  PROVE  PlaceInv'
<1>1. batch' = <<>> /\ Range(batch') = {} /\ Distinct(batch')
  BY EmptyRange DEF Settle
<1>2. \A r \in Records : fate'[r] = IF r \in Range(batch) THEN f ELSE fate[r]
  BY DEF Settle, InBatch, TypeOK
<1>3. \A r \in Records :
         fate'[r] = "pending" <=> r \in Range(queue) \cup Range(handoff)
  BY <1>2 DEF PlaceInv
<1> QED
  BY <1>1, <1>3 DEF PlaceInv

LEMMA PlaceStep == TypeInv /\ ControlInv /\ PlaceInv /\ [Next]_vars => PlaceInv'
<1> SUFFICES ASSUME TypeInv, ControlInv, PlaceInv, [Next]_vars
             PROVE  PlaceInv'
  OBVIOUS
<1>0. TypeOK /\ NoEarlyStop
  BY DEF TypeInv
<1> USE DEF reporterVars, drainVars, historyVars
<1>a. CASE UNCHANGED <<batch, queue, handoff, fate>>
  BY <1>a DEF PlaceInv
<1>1. ASSUME NEW r \in Records, LoopPut(r)
      PROVE  PlaceInv'
  <2>1. r \notin Range(batch) \cup Range(queue) \cup Range(handoff)
    BY <1>1 DEF LoopPut, PlaceInv
  <2>2. /\ Distinct(queue')
        /\ \/ /\ Range(queue') = Range(queue) \cup {r}
              /\ fate' = [fate EXCEPT ![r] = "pending"]
           \/ /\ queue' = queue
              /\ fate' = [fate EXCEPT ![r] = "dropped"]
    BY <1>0, <1>1, <2>1, PutNowaitPlace DEF LoopPut, PlaceInv
  <2>3. UNCHANGED <<batch, handoff>>
    BY <1>1 DEF LoopPut
  <2> QED
    BY <1>0, <2>1, <2>2, <2>3 DEF PlaceInv, TypeOK
<1>2. ASSUME NEW r \in Records, PutIgnored(r) \/ ThreadCheck(r)
      PROVE  PlaceInv'
  <2>1. PICK f \in Fates \ {"pending"} : fate' = [fate EXCEPT ![r] = f]
    BY <1>2 DEF PutIgnored, ThreadCheck, Fates
  <2>2. fate[r] = "new" /\ UNCHANGED <<batch, queue, handoff>>
    BY <1>2 DEF PutIgnored, ThreadCheck
  <2> QED
    BY <1>0, <2>1, <2>2 DEF PlaceInv, TypeOK
<1>3. ASSUME NEW r \in Records, ThreadHandoff(r)
      PROVE  PlaceInv'
  <2>1. r \notin Range(batch) \cup Range(queue) \cup Range(handoff)
    BY <1>3 DEF ThreadHandoff, PlaceInv
  <2>2. Range(handoff') = Range(handoff) \cup {r} /\ Distinct(handoff')
    BY <1>0, <1>3, <2>1, AppendRange DEF ThreadHandoff, PlaceInv, TypeOK
  <2>3. UNCHANGED <<batch, queue>> /\ fate' = [fate EXCEPT ![r] = "pending"]
    BY <1>3 DEF ThreadHandoff
  <2> QED
    BY <1>0, <2>1, <2>2, <2>3 DEF PlaceInv, TypeOK
<1>4. CASE RunCallback
  <2> DEFINE r == Head(handoff)
  <2>1. /\ r \in Records
        /\ Range(handoff) = {r} \cup Range(handoff')
        /\ Distinct(handoff')
        /\ r \notin Range(handoff')
    BY <1>0, <1>4, TailRange DEF RunCallback, PlaceInv, TypeOK
  <2>2. PutNowait(r) /\ UNCHANGED batch
    BY <1>4 DEF RunCallback
  <2>3. r \notin Range(queue) /\ r \notin Range(batch)
    BY <2>1 DEF PlaceInv
  <2> HIDE DEF r
  <2>4. /\ Distinct(queue')
        /\ \/ /\ Range(queue') = Range(queue) \cup {r}
              /\ fate' = [fate EXCEPT ![r] = "pending"]
           \/ /\ queue' = queue
              /\ fate' = [fate EXCEPT ![r] = "dropped"]
    BY <1>0, <2>1, <2>2, <2>3, PutNowaitPlace DEF PlaceInv
  <2> QED
    BY <1>0, <2>1, <2>2, <2>3, <2>4 DEF PlaceInv, TypeOK
<1>5. ASSUME queue # <<>>, queue' = Tail(queue), UNCHANGED <<handoff, fate>>,
             \/ Head(queue) = Stop /\ UNCHANGED batch
             \/ Head(queue) # Stop /\ Range(batch') = Range(batch) \cup {Head(queue)}
                                   /\ Distinct(batch')
      PROVE  PlaceInv'
  <2>1. /\ Range(queue) = {Head(queue)} \cup Range(queue')
        /\ Distinct(queue')
        /\ Head(queue) \notin Range(queue')
    BY <1>0, <1>5, TailRange DEF PlaceInv, TypeOK
  <2>2. Stop \notin Range(batch) \cup Range(handoff) \cup Records
    BY <1>0, PlaceRanges, SentinelAssumption
  <2> QED
    BY <1>5, <2>1, <2>2 DEF PlaceInv
<1>6. CASE GetFirst
  <2>1. CASE Head(queue) = Stop
    BY <1>5, <1>6, <2>1 DEF GetFirst
  <2>2. CASE Head(queue) # Stop
    <3>1. Range(batch) = {}
      BY <1>6, EmptyRange DEF GetFirst, ControlInv, BatchesAreBounded
    <3>2. Range(batch') = {Head(queue)} /\ Distinct(batch')
      BY <1>6, <2>2 DEF GetFirst, Range, Distinct
    <3> QED
      BY <1>5, <1>6, <2>2, <3>1, <3>2 DEF GetFirst
  <2> QED
    BY <2>1, <2>2
<1>7. CASE GetNext
  <2>1. CASE Head(queue) = Stop
    BY <1>5, <1>7, <2>1 DEF GetNext
  <2>2. CASE Head(queue) # Stop
    <3>1. Head(queue) \in Records /\ Head(queue) \in Range(queue)
      BY <1>0, <1>7, <2>2, QueueHead DEF GetNext
    <3>2. Head(queue) \notin Range(batch) /\ batch' = Append(batch, Head(queue))
      BY <1>7, <2>2, <3>1 DEF GetNext, PlaceInv
    <3>3. Range(batch') = Range(batch) \cup {Head(queue)} /\ Distinct(batch')
      BY <1>0, <3>1, <3>2, AppendRange DEF PlaceInv, TypeOK
    <3> QED
      BY <1>5, <1>7, <2>2, <3>3 DEF GetNext
  <2> QED
    BY <2>1, <2>2
<1>8. CASE PostAccepted \/ PostRejected \/ PostRaises \/ AcloseTimesOut
  <2>1. PICK f \in Fates \ {"pending"} : Settle(f)
    BY <1>8 DEF PostAccepted, PostRejected, PostRaises, AcloseTimesOut, PostReturns, Fates
  <2>2. UNCHANGED <<queue, handoff>>
    BY <1>8 DEF PostAccepted, PostRejected, PostRaises, AcloseTimesOut
  <2> QED
    BY <1>0, <2>1, <2>2, SettlePlace
<1>9. CASE PostFailed
  <2>1. UNCHANGED <<queue, handoff>>
    BY <1>9 DEF PostFailed
  <2>2. CASE LastAttempt
    <3>1. Settle("discarded") /\ "discarded" \in Fates \ {"pending"}
      BY <1>9, <2>2 DEF PostFailed, PostReturns, Fates
    <3> QED
      BY <1>0, <2>1, <3>1, SettlePlace
  <2>3. CASE ~LastAttempt
    BY <1>9, <1>a, <2>1, <2>3 DEF PostFailed
  <2> QED
    BY <2>2, <2>3
<1>10. CASE Aclose
  <2>1. Stop \notin Range(queue) /\ UNCHANGED <<batch, handoff>>
    BY <1>0, <1>10 DEF Aclose, NoEarlyStop
  <2>2. Stop \notin Range(batch) \cup Range(handoff) \cup Records
    BY <1>0, PlaceRanges, SentinelAssumption
  <2>3. CASE Len(queue) < QueueMax
    <3>1. queue' = Append(queue, Stop) /\ fate' = fate
      BY <1>10, <2>3 DEF Aclose, QueueWithStop, Retained, Displace
    <3>2. Range(queue') = Range(queue) \cup {Stop} /\ Distinct(queue')
      BY <1>0, <2>1, <3>1, AppendRange DEF PlaceInv, TypeOK
    <3> QED
      BY <2>1, <2>2, <3>1, <3>2 DEF PlaceInv
  <2>4. CASE ~(Len(queue) < QueueMax)
    <3>1. queue # <<>>
      BY <1>0, <2>4, EmptySeq, LimitsAssumption DEF TypeOK
    <3>2. /\ Head(queue) \in Records
          /\ Tail(queue) \in Seq(Records \cup {Stop})
          /\ Range(queue) = {Head(queue)} \cup Range(Tail(queue))
          /\ Distinct(Tail(queue))
          /\ Head(queue) \notin Range(Tail(queue))
      BY <1>0, <2>1, <3>1, QueueHead, TailRange DEF PlaceInv, TypeOK
    <3>3. /\ queue' = Append(Tail(queue), Stop)
          /\ fate' = [fate EXCEPT ![Head(queue)] = "dropped"]
      BY <1>10, <2>4 DEF Aclose, QueueWithStop, Retained, Displace
    <3>4. Range(queue') = Range(Tail(queue)) \cup {Stop} /\ Distinct(queue')
      <4>1. Stop \in Records \cup {Stop} /\ Stop \notin Range(Tail(queue))
        BY <2>1, <3>2
      <4> QED
        BY <3>2, <3>3, <4>1, QueueAppend
    <3> QED
      BY <1>0, <2>1, <2>2, <3>2, <3>3, <3>4 DEF PlaceInv, TypeOK
  <2> QED
    BY <2>3, <2>4
<1>11. CASE Start \/ FlushTimeout \/ BackoffEnds \/ AcloseFinishes \/ UNCHANGED vars
  BY <1>11, <1>a DEF Start, FlushTimeout, BackoffEnds, AcloseFinishes, vars
<1> QED
  BY <1>1, <1>2, <1>3, <1>4, <1>6, <1>7, <1>8, <1>9, <1>10, <1>11
  DEF Next, Put, Handoff, Collect, Post, Close

\* The parts of the invariant make the whole.
LEMMA PlacesTogether == TypeOK /\ PlaceInv => EachRecordInOnePlace
<1> SUFFICES ASSUME TypeOK, PlaceInv
             PROVE  EachRecordInOnePlace
  OBVIOUS
<1> DEFINE S == Records \cup {Stop}
<1>1. batch \in Seq(S) /\ queue \in Seq(S) /\ handoff \in Seq(S)
  BY SeqMonotonic DEF TypeOK
<1>2. /\ batch \o queue \in Seq(S)
      /\ Range(batch \o queue) = Range(batch) \cup Range(queue)
      /\ Distinct(batch \o queue)
  BY <1>1, ConcatRange DEF PlaceInv
<1>3. Range(batch \o queue) \cap Range(handoff) = {}
  BY <1>2 DEF PlaceInv
<1>4. /\ Range(Inflight) = Range(batch) \cup Range(queue) \cup Range(handoff)
      /\ Distinct(Inflight)
  <2>1. Inflight = (batch \o queue) \o handoff
    BY <1>1, ConcatAssociative DEF Inflight
  <2>2. Distinct(handoff)
    BY DEF PlaceInv
  <2>3. ASSUME NEW s \in Seq(S), NEW t \in Seq(S)
        PROVE  /\ Range(s \o t) = Range(s) \cup Range(t)
               /\ Distinct(s) /\ Distinct(t) /\ Range(s) \cap Range(t) = {}
                     => Distinct(s \o t)
    BY ConcatRange
  <2> HIDE DEF S
  <2>4. /\ Range((batch \o queue) \o handoff) = Range(batch \o queue) \cup Range(handoff)
        /\ Distinct((batch \o queue) \o handoff)
    BY <1>1, <1>2, <1>3, <2>2, <2>3
  <2> QED
    BY <1>2, <2>1, <2>4
<1> QED
  BY <1>4 DEF EachRecordInOnePlace, PlaceInv, Distinct

\* No record is ever in two places, or twice in one, and none disappears: the
\* places hold exactly the records that are neither settled nor still with their
\* request, whatever is dropped, displaced, retried, lost or cancelled.
THEOREM OnePlace == Spec => []EachRecordInOnePlace
<1>1. Init => TypeInv /\ ControlInv /\ PlaceInv
  BY TypeInit, ControlInit, PlaceInit
<1>2. TypeInv /\ ControlInv /\ PlaceInv /\ [Next]_vars => (TypeInv /\ ControlInv /\ PlaceInv)'
  BY TypeStep, ControlStep, PlaceStep
<1>3. TypeInv /\ PlaceInv => EachRecordInOnePlace
  BY PlacesTogether DEF TypeInv
<1> QED
  BY <1>1, <1>2, <1>3, PTL DEF Spec
-----------------------------------------------------------------------------
(* The stop request *)

MainInv == TypeInv /\ ControlInv /\ PlaceInv

LEMMA MainInit == Init => MainInv
BY TypeInit, ControlInit, PlaceInit DEF MainInv

LEMMA MainStep == MainInv /\ [Next]_vars => MainInv'
BY TypeStep, ControlStep, PlaceStep DEF MainInv

\* What the drain takes is not in the queue any more.
LEMMA TakeHead ==
  ASSUME MainInv, queue # <<>>
  PROVE  /\ Range(queue) = {Head(queue)} \cup Range(Tail(queue))
         /\ Head(queue) \notin Range(Tail(queue))
         /\ Head(queue) # Stop => Head(queue) \in Records /\ fate[Head(queue)] = "pending"
                                    /\ Head(queue) \notin InBatch
<1>1. TypeOK /\ queue \in Seq(Records \cup {Stop}) /\ Distinct(queue)
  BY DEF MainInv, TypeInv, TypeOK, PlaceInv
<1>2. /\ Range(queue) = {Head(queue)} \cup Range(Tail(queue))
      /\ Head(queue) \notin Range(Tail(queue))
  BY <1>1, TailRange
<1>3. Head(queue) # Stop => Head(queue) \in Records
  BY <1>1, QueueHead
<1> QED
  BY <1>2, <1>3 DEF MainInv, PlaceInv, InBatch

\* A put adds its record to the queue, or drops it and leaves the queue alone.
LEMMA PutFacts ==
  ASSUME TypeOK, NEW r \in Records, PutNowait(r)
  PROVE  \/ /\ queue' = Append(queue, r)
            /\ Range(queue') = Range(queue) \cup {r}
            /\ fate' = [fate EXCEPT ![r] = "pending"]
            /\ dropped' = dropped
         \/ /\ queue' = queue
            /\ fate' = [fate EXCEPT ![r] = "dropped"]
            /\ dropped' = dropped + 1
<1>1. r \in Records \cup {Stop} /\ queue \in Seq(Records \cup {Stop})
  BY DEF TypeOK
<1>2. Range(Append(queue, r)) = Range(queue) \cup {r}
  BY <1>1, QueueAppend
<1> QED
  BY <1>2 DEF PutNowait

\* What aclose() leaves of the queue, with its sentinel.
LEMMA AcloseFacts ==
  ASSUME MainInv, Aclose
  PROVE  /\ Retained \in Seq(Records \cup {Stop}) /\ Stop \notin Range(Retained)
         /\ Range(queue') = Range(Retained) \cup {Stop}
         /\ queue' = Append(Retained, Stop)
         /\ \/ UNCHANGED <<dropped, fate>>
            \/ \E r \in Records : /\ fate[r] = "pending" /\ r \notin InBatch
                                  /\ fate' = [fate EXCEPT ![r] = "dropped"]
                                  /\ dropped' = dropped + 1
<1>1. TypeOK /\ queue \in Seq(Records \cup {Stop}) /\ Stop \notin Range(queue)
  BY DEF MainInv, TypeInv, TypeOK, NoEarlyStop, Aclose
<1>2. CASE Len(queue) < QueueMax
  <2>1. Retained = queue /\ UNCHANGED <<dropped, fate>> /\ queue' = Append(queue, Stop)
    BY <1>2 DEF Aclose, QueueWithStop, Retained, Displace
  <2> QED
    BY <1>1, <2>1, QueueAppend
<1>3. CASE ~(Len(queue) < QueueMax)
  <2>1. queue # <<>>
    BY <1>1, <1>3, EmptySeq, LimitsAssumption
  <2>2. Head(queue) # Stop /\ Stop \notin Range(Tail(queue)) /\ Tail(queue) \in Seq(Records \cup {Stop})
    BY <1>1, <2>1, TakeHead, QueueHead
  <2>3. /\ Retained = Tail(queue) /\ queue' = Append(Tail(queue), Stop)
        /\ dropped' = dropped + 1 /\ fate' = [fate EXCEPT ![Head(queue)] = "dropped"]
    BY <1>3 DEF Aclose, QueueWithStop, Retained, Displace
  <2>4. Range(Append(Tail(queue), Stop)) = Range(Tail(queue)) \cup {Stop}
    BY <2>2, QueueAppend
  <2>5. Head(queue) \in Records /\ fate[Head(queue)] = "pending" /\ Head(queue) \notin InBatch
    BY <2>1, <2>2, TakeHead
  <2> QED
    BY <2>2, <2>3, <2>4, <2>5
<1> QED
  BY <1>2, <1>3

\* The sentinel is in the queue from aclose() on, or has been taken; an exception that
\* is no httpx.HTTPError is the one way to lose it.
StopInv ==
    /\ ~(stopping /\ Stop \in Range(queue))
    /\ closed /\ ~PostMayRaise => stopping \/ Stop \in Range(queue)

LEMMA StopStep == MainInv /\ StopInv /\ [Next]_vars => StopInv'
<1> SUFFICES ASSUME MainInv, StopInv, [Next]_vars
             PROVE  StopInv'
  OBVIOUS
<1> USE DEF reporterVars, drainVars, historyVars
<1>0. TypeOK /\ ControlInv
  BY DEF MainInv, TypeInv
<1>1. CASE UNCHANGED <<closed, stopping>>
           /\ (queue' = queue \/ \E r \in Records : Range(queue') = Range(queue) \cup {r})
  BY <1>1, SentinelAssumption DEF StopInv
<1>2. ASSUME NEW r \in Records, PutNowait(r), UNCHANGED <<closed, stopping>>
      PROVE  StopInv'
  BY <1>0, <1>1, <1>2, PutFacts
<1>3. CASE Put
  BY <1>1, <1>2, <1>3 DEF Put, LoopPut, PutIgnored, ThreadCheck
<1>4. CASE RunCallback
  <2>1. Head(handoff) \in Records
    BY <1>0, <1>4, TailRange DEF RunCallback, TypeOK
  <2> QED
    BY <1>2, <1>4, <2>1 DEF RunCallback
<1>5. CASE GetFirst \/ GetNext
  <2>1. queue # <<>> /\ queue' = Tail(queue) /\ UNCHANGED closed
    BY <1>5 DEF GetFirst, GetNext
  <2>2. CASE Head(queue) = Stop
    <3>1. stopping' /\ Stop \notin Range(queue')
      BY <1>5, <2>1, <2>2, TakeHead DEF GetFirst, GetNext
    <3> QED
      BY <3>1 DEF StopInv
  <2>3. CASE Head(queue) # Stop
    <3>1. stopping' = stopping
      BY <1>0, <1>5, <2>3 DEF GetFirst, GetNext, ControlInv, TypeOK
    <3>2. Stop \in Range(queue') <=> Stop \in Range(queue)
      BY <2>1, <2>3, TakeHead
    <3> QED
      BY <2>1, <3>1, <3>2 DEF StopInv
  <2> QED
    BY <2>2, <2>3
<1>6. CASE PostRaises
  BY <1>6 DEF PostRaises, StopInv
<1>7. CASE PostAccepted \/ PostFailed \/ PostRejected \/ BackoffEnds
  <2>1. UNCHANGED <<queue, closed, stopping>>
    BY <1>7 DEF PostAccepted, PostFailed, PostRejected, BackoffEnds, PostReturns
  <2> QED
    BY <1>1, <2>1
<1>8. CASE Aclose
  <2>1. Stop \in Range(queue') /\ ~stopping /\ UNCHANGED stopping
    BY <1>0, <1>8, AcloseFacts DEF Aclose, ControlInv
  <2> QED
    BY <2>1 DEF StopInv
<1>9. CASE Start \/ Handoff \/ FlushTimeout \/ AcloseFinishes \/ AcloseTimesOut \/ UNCHANGED vars
  BY <1>1, <1>9 DEF Start, Handoff, ThreadHandoff, FlushTimeout, AcloseFinishes, AcloseTimesOut,
                    vars
<1> QED
  BY <1>3, <1>4, <1>5, <1>6, <1>7, <1>8, <1>9 DEF Next, Collect, Post, Close

LEMMA StopAlways == Spec => [](MainInv /\ StopInv)
<1>1. Init => StopInv
  BY EmptyRange DEF Init, StopInv
<1> QED
  BY <1>1, MainInit, MainStep, StopStep, PTL DEF Spec

\* The stop request is never in two forms, never early, and not lost while only
\* httpx.HTTPError leaves client.post.
THEOREM StopStays == Spec => []StopIsKept
<1>1. MainInv /\ StopInv => StopIsKept
  BY DEF MainInv, StopInv, StopIsKept, TypeInv, NoEarlyStop, ControlInv
<1> QED
  BY <1>1, StopAlways, PTL

-----------------------------------------------------------------------------
(* The counts *)

Counted(r) ==
    /\ recorded[r] <= MaxAttempts
    /\ r \in InBatch =>
          CASE drain = "posting" -> recorded[r] <= attempt
            [] drain = "backoff" -> recorded[r] <= attempt + 1
            [] OTHER             -> recorded[r] = 0
    /\ r \notin InBatch /\ fate[r] \notin {"accepted", "discarded", "lost", "abandoned"} =>
          recorded[r] = 0
    /\ fate[r] = "accepted" => recorded[r] > 0

CountInv == \A r \in Records : Counted(r)

\* While a batch is out, its records are pending.
LEMMA BatchPending ==
  ASSUME MainInv
  PROVE  /\ InBatch \subseteq Records
         /\ \A r \in InBatch : fate[r] = "pending"
         /\ InBatch # {} => drain \in {"collecting", "posting", "backoff"}
<1>1. InBatch \subseteq Records
  BY PlaceRanges DEF MainInv, TypeInv, InBatch
<1>2. batch = <<>> => InBatch = {}
  BY EmptyRange DEF InBatch
<1> QED
  BY <1>1, <1>2 DEF MainInv, PlaceInv, ControlInv, BatchesAreBounded, InBatch

\* The batch is settled, or kept for one more attempt.
LEMMA SettleCounts ==
  ASSUME MainInv, CountInv, NEW f \in {"accepted", "discarded", "lost", "abandoned"}, Settle(f),
         \/ RecordBatch /\ drain = "posting"
         \/ UNCHANGED recorded /\ f # "accepted"
  PROVE  CountInv'
<1>1. TypeOK
  BY DEF MainInv, TypeInv
<1> SUFFICES ASSUME NEW r \in Records PROVE Counted(r)'
  BY DEF CountInv
<1>2. InBatch' = {}
  BY EmptyRange DEF Settle, InBatch
<1>3. fate'[r] = IF r \in InBatch THEN f ELSE fate[r]
  BY <1>1 DEF Settle, TypeOK
<1>4. recorded[r] \in Nat /\ attempt \in 0 .. MaxAttempts - 1
  BY <1>1 DEF TypeOK
<1>5. Counted(r)
  BY DEF CountInv
<1>6. CASE RecordBatch /\ drain = "posting"
  <2>1. recorded'[r] = IF r \in InBatch THEN recorded[r] + 1 ELSE recorded[r]
    BY <1>6 DEF RecordBatch
  <2> QED
    BY <1>2, <1>3, <1>4, <1>5, <1>6, <2>1, LimitsAssumption DEF Counted
<1>7. CASE UNCHANGED recorded /\ f # "accepted"
  BY <1>2, <1>3, <1>5, <1>7 DEF Counted
<1> QED
  BY <1>6, <1>7

LEMMA CountStep == MainInv /\ CountInv /\ [Next]_vars => CountInv'
<1> SUFFICES ASSUME MainInv, CountInv, [Next]_vars
             PROVE  CountInv'
  OBVIOUS
<1> USE DEF reporterVars, drainVars, historyVars
<1>0. TypeOK
  BY DEF MainInv, TypeInv
<1>a. ASSUME UNCHANGED <<recorded, batch, attempt, fate>>,
             drain' = drain \/ (drain = "none" /\ drain' = "idle")
      PROVE  CountInv'
  <2> SUFFICES ASSUME NEW r \in Records PROVE Counted(r)'
    BY DEF CountInv
  <2>1. InBatch' = InBatch /\ Counted(r) /\ (r \in InBatch => drain # "none")
    BY <1>a, BatchPending DEF InBatch, CountInv
  <2> QED
    BY <1>a, <2>1 DEF Counted
<1>1. ASSUME UNCHANGED <<recorded, batch, attempt, drain>>,
             NEW q \in Records, fate[q] \in {"new", "checked", "pending"}, q \notin InBatch,
             NEW f \in {"ignored", "checked", "pending", "dropped"},
             fate' = [fate EXCEPT ![q] = f]
      PROVE  CountInv'
  <2> SUFFICES ASSUME NEW r \in Records PROVE Counted(r)'
    BY DEF CountInv
  <2>1. InBatch' = InBatch /\ Counted(r) /\ Counted(q)
    BY <1>1 DEF InBatch, CountInv
  <2>2. fate'[r] = IF r = q THEN f ELSE fate[r]
    BY <1>0, <1>1 DEF TypeOK
  <2> QED
    BY <1>1, <2>1, <2>2 DEF Counted
<1>2. ASSUME NEW r \in Records, fate[r] \in {"new", "checked", "pending"}, r \notin InBatch,
             PutNowait(r), UNCHANGED <<recorded, batch, attempt, drain>>
      PROVE  CountInv'
  <2>1. \E f \in {"pending", "dropped"} : fate' = [fate EXCEPT ![r] = f]
    BY <1>0, <1>2, PutFacts
  <2> QED
    BY <1>1, <1>2, <2>1
<1>3. CASE Put \/ Handoff
  <2>1. PICK r \in Records : LoopPut(r) \/ PutIgnored(r) \/ ThreadCheck(r) \/ ThreadHandoff(r)
    BY <1>3 DEF Put, Handoff
  <2>2. fate[r] \in {"new", "checked"} /\ r \notin InBatch /\ UNCHANGED <<recorded, batch, attempt, drain>>
    BY <2>1, BatchPending DEF LoopPut, PutIgnored, ThreadCheck, ThreadHandoff
  <2>3. PutNowait(r) \/ \E f \in {"ignored", "checked", "pending"} : fate' = [fate EXCEPT ![r] = f]
    BY <2>1 DEF LoopPut, PutIgnored, ThreadCheck, ThreadHandoff
  <2> QED
    BY <1>1, <1>2, <2>2, <2>3
<1>4. CASE RunCallback
  <2>1. Head(handoff) \in Records /\ Head(handoff) \in Range(handoff)
    BY <1>0, <1>4, TailRange DEF RunCallback, TypeOK
  <2>2. fate[Head(handoff)] = "pending" /\ Head(handoff) \notin InBatch
    BY <2>1 DEF MainInv, PlaceInv, InBatch
  <2> QED
    BY <1>2, <1>4, <2>1, <2>2 DEF RunCallback
<1>5. CASE GetFirst \/ GetNext
  <2> SUFFICES ASSUME NEW r \in Records PROVE Counted(r)'
    BY DEF CountInv
  <2>1. queue # <<>> /\ UNCHANGED <<fate, recorded>> /\ Counted(r)
    BY <1>5 DEF GetFirst, GetNext, CountInv
  <2>2. CASE Head(queue) = Stop
    <3>1. UNCHANGED batch /\ UNCHANGED attempt /\ InBatch' = InBatch
      BY <1>5, <2>2 DEF GetFirst, GetNext, InBatch
    <3>2. (recorded[r] = 0 /\ attempt \in Nat) \/ r \notin InBatch
      BY <1>0, <1>5, <2>1, BatchPending DEF Counted, GetFirst, GetNext, TypeOK
    <3> QED
      BY <2>1, <3>1, <3>2 DEF Counted
  <2>3. CASE Head(queue) # Stop
    <3>1. InBatch' = InBatch \cup {Head(queue)} /\ drain' \in {"collecting", "posting"}
          /\ attempt' \in Nat
      <4>1. CASE GetFirst
        <5>1. InBatch = {}
          BY <4>1, BatchPending DEF GetFirst
        <5>2. batch' = <<Head(queue)>>
          BY <2>3, <4>1 DEF GetFirst
        <5>3. Range(<<Head(queue)>>) = {Head(queue)}
          BY DEF Range
        <5> QED
          BY <2>3, <4>1, <5>1, <5>2, <5>3 DEF GetFirst, InBatch
      <4>2. CASE GetNext
        <5>1. Head(queue) \in Records /\ batch' = Append(batch, Head(queue))
          BY <2>1, <2>3, <4>2, TakeHead DEF GetNext
        <5>2. Range(batch') = Range(batch) \cup {Head(queue)}
          BY <1>0, <5>1, AppendRange DEF TypeOK
        <5> QED
          BY <1>0, <2>3, <4>2, <5>2 DEF GetNext, InBatch, TypeOK
      <4> QED
        BY <1>5, <4>1, <4>2
    <3>2. r = Head(queue) => fate[r] = "pending" /\ r \notin InBatch
      BY <2>1, <2>3, TakeHead
    <3>3. r \in InBatch' => recorded[r] = 0
      BY <1>5, <2>1, <3>1, <3>2 DEF Counted, GetFirst, GetNext
    <3> QED
      BY <2>1, <3>1, <3>3 DEF Counted
  <2> QED
    BY <2>2, <2>3
<1>6. CASE FlushTimeout
  <2> SUFFICES ASSUME NEW r \in Records PROVE Counted(r)'
    BY DEF CountInv
  <2>1. Counted(r) /\ InBatch' = InBatch /\ attempt \in Nat
    BY <1>0, <1>6 DEF FlushTimeout, CountInv, InBatch, TypeOK
  <2> QED
    BY <1>6, <2>1 DEF FlushTimeout, Counted
<1>7. CASE PostAccepted \/ PostRejected \/ PostRaises \/ AcloseTimesOut
  <2>1. PICK f \in {"accepted", "discarded", "lost", "abandoned"} :
           /\ Settle(f)
           /\ \/ RecordBatch /\ drain = "posting"
              \/ UNCHANGED recorded /\ f # "accepted"
    <3>1. CASE PostAccepted
      BY <3>1 DEF PostAccepted, PostReturns
    <3>2. CASE PostRejected
      BY <3>2 DEF PostRejected, PostReturns
    <3>3. CASE PostRaises
      BY <3>3 DEF PostRaises
    <3>4. CASE AcloseTimesOut
      BY <3>4 DEF AcloseTimesOut
    <3> QED
      BY <1>7, <3>1, <3>2, <3>3, <3>4
  <2> QED
    BY <2>1, SettleCounts
<1>8. CASE PostFailed
  <2>1. CASE LastAttempt
    <3>1. Settle("discarded") /\ ((RecordBatch /\ drain = "posting") \/ UNCHANGED recorded)
      BY <1>8, <2>1 DEF PostFailed, PostReturns
    <3> QED
      BY <3>1, SettleCounts
  <2>2. CASE ~LastAttempt
    <3> SUFFICES ASSUME NEW r \in Records PROVE Counted(r)'
      BY DEF CountInv
    <3>1. /\ Counted(r) /\ InBatch' = InBatch /\ recorded[r] \in Nat /\ attempt \in 0 .. MaxAttempts - 1
          /\ UNCHANGED <<fate, attempt>> /\ drain = "posting" /\ drain' = "backoff"
      BY <1>0, <1>8, <2>2 DEF PostFailed, CountInv, InBatch, TypeOK
    <3>2. recorded'[r] = recorded[r] \/ (recorded'[r] = recorded[r] + 1 /\ r \in InBatch)
      <4>1. CASE UNCHANGED recorded
        BY <4>1
      <4>2. CASE RecordBatch
        BY <4>2 DEF RecordBatch
      <4> QED
        BY <1>8, <4>1, <4>2 DEF PostFailed
    <3>3. r \in InBatch => fate[r] # "accepted"
      BY BatchPending
    <3> QED
      BY <3>1, <3>2, <3>3, LimitsAssumption DEF Counted
  <2> QED
    BY <2>1, <2>2
<1>9. CASE BackoffEnds
  <2> SUFFICES ASSUME NEW r \in Records PROVE Counted(r)'
    BY DEF CountInv
  <2>1. Counted(r) /\ InBatch' = InBatch
    BY <1>9 DEF BackoffEnds, CountInv, InBatch
  <2> QED
    BY <1>9, <2>1 DEF BackoffEnds, Counted
<1>10. CASE Aclose
  <2>1. UNCHANGED <<recorded, batch, attempt, drain>>
    BY <1>10 DEF Aclose
  <2>2. CASE UNCHANGED fate
    BY <1>a, <2>1, <2>2
  <2>3. ASSUME NEW r \in Records, fate[r] = "pending", r \notin InBatch,
               fate' = [fate EXCEPT ![r] = "dropped"]
        PROVE  CountInv'
    BY <1>1, <2>1, <2>3
  <2> QED
    BY <1>10, <2>2, <2>3, AcloseFacts
<1>11. CASE Start \/ AcloseFinishes \/ UNCHANGED vars
  BY <1>a, <1>11 DEF Start, AcloseFinishes, vars
<1> QED
  BY <1>3, <1>4, <1>5, <1>6, <1>7, <1>8, <1>9, <1>10, <1>11
  DEF Next, Collect, Post, Close

\* DataRobot counts a record at most once per attempt of its one batch, however the
\* attempts fail, and at least once when the batch was accepted.
THEOREM CountsBounded == Spec => []CountsAreBounded
<1>1. Init => CountInv
  BY LimitsAssumption, EmptyRange DEF Init, CountInv, Counted, InBatch
<1>2. MainInv /\ CountInv => CountsAreBounded
  <2> SUFFICES ASSUME MainInv, CountInv, NEW r \in Records
               PROVE  /\ recorded[r] <= MaxAttempts
                      /\ r \in InBatch /\ drain = "posting" => recorded[r] <= attempt
                      /\ recorded[r] > 0 => r \in InBatch
                            \/ fate[r] \in {"accepted", "discarded", "lost", "abandoned"}
                      /\ fate[r] = "accepted" => recorded[r] > 0
    BY DEF CountsAreBounded
  <2> QED
    BY DEF CountInv, Counted
<1> QED
  BY <1>1, <1>2, MainInit, MainStep, CountStep, PTL DEF Spec

-----------------------------------------------------------------------------
(* What a full queue costs *)

LEMMA DroppedStep == MainInv /\ DroppedIsExact /\ [Next]_vars => DroppedIsExact'
<1> SUFFICES ASSUME MainInv, DroppedIsExact, [Next]_vars
             PROVE  DroppedIsExact'
  OBVIOUS
<1> USE DEF reporterVars, drainVars, historyVars
<1> DEFINE Dropped == {r \in Records : fate[r] = "dropped"}
<1>0. TypeOK
  BY DEF MainInv, TypeInv
<1>a. CASE dropped' = dropped /\ \A r \in Records : fate'[r] = "dropped" <=> fate[r] = "dropped"
  <2>1. Dropped' = Dropped
    BY <1>a
  <2> QED
    BY <1>a, <2>1 DEF DroppedIsExact
<1>b. ASSUME NEW r \in Records, fate[r] # "dropped", dropped' = dropped + 1,
             fate' = [fate EXCEPT ![r] = "dropped"]
      PROVE  DroppedIsExact'
  <2>1. Dropped' = Dropped \cup {r} /\ r \notin Dropped
    BY <1>0, <1>b DEF TypeOK
  <2>2. IsFiniteSet(Dropped)
    BY RecordsAssumption, FS_Subset
  <2> HIDE DEF Dropped
  <2>3. Cardinality(Dropped') = Cardinality(Dropped) + 1
    BY <2>1, <2>2, FS_AddElement
  <2> QED
    BY <1>b, <2>3 DEF DroppedIsExact, Dropped
<1>1. ASSUME NEW r \in Records, fate[r] # "dropped", PutNowait(r)
      PROVE  DroppedIsExact'
  <2>1. CASE fate' = [fate EXCEPT ![r] = "pending"] /\ dropped' = dropped
    BY <1>0, <1>a, <1>1, <2>1 DEF TypeOK
  <2> QED
    BY <1>0, <1>1, <1>b, <2>1, PutFacts
<1>2. CASE Put \/ Handoff
  <2>1. PICK r \in Records : LoopPut(r) \/ PutIgnored(r) \/ ThreadCheck(r) \/ ThreadHandoff(r)
    BY <1>2 DEF Put, Handoff
  <2>2. CASE LoopPut(r)
    BY <1>1, <2>2 DEF LoopPut
  <2>3. CASE PutIgnored(r) \/ ThreadCheck(r) \/ ThreadHandoff(r)
    BY <1>0, <1>a, <2>3 DEF PutIgnored, ThreadCheck, ThreadHandoff, TypeOK
  <2> QED
    BY <2>1, <2>2, <2>3
<1>3. CASE RunCallback
  <2>1. Head(handoff) \in Records /\ Head(handoff) \in Range(handoff)
    BY <1>0, <1>3, TailRange DEF RunCallback, TypeOK
  <2>2. fate[Head(handoff)] = "pending"
    BY <2>1 DEF MainInv, PlaceInv
  <2> QED
    BY <1>1, <1>3, <2>1, <2>2 DEF RunCallback
<1>4. ASSUME NEW f \in {"accepted", "discarded", "lost", "abandoned"}, Settle(f), UNCHANGED dropped
      PROVE  DroppedIsExact'
  <2>1. \A r \in Records : fate'[r] = IF r \in InBatch THEN f ELSE fate[r]
    BY <1>0, <1>4 DEF Settle, TypeOK
  <2>2. \A r \in InBatch : fate[r] = "pending"
    BY BatchPending
  <2> QED
    BY <1>a, <1>4, <2>1, <2>2
<1>5. CASE PostAccepted \/ PostRejected \/ PostRaises \/ AcloseTimesOut
  BY <1>4, <1>5 DEF PostAccepted, PostRejected, PostRaises, AcloseTimesOut, PostReturns
<1>6. CASE PostFailed
  BY <1>4, <1>6, <1>a DEF PostFailed, PostReturns
<1>7. CASE Aclose
  BY <1>7, <1>a, <1>b, AcloseFacts
<1>8. CASE Start \/ GetFirst \/ GetNext \/ FlushTimeout \/ BackoffEnds \/ AcloseFinishes
             \/ UNCHANGED vars
  BY <1>8, <1>a DEF Start, GetFirst, GetNext, FlushTimeout, BackoffEnds, AcloseFinishes, vars
<1> QED
  BY <1>2, <1>3, <1>5, <1>6, <1>7, <1>8 DEF Next, Collect, Post, Close

\* "dropped" is the number of records a full queue has cost, for any queue.
THEOREM DroppedCounts == Spec => []DroppedIsExact
<1>1. Init => DroppedIsExact
  <2> SUFFICES ASSUME Init PROVE DroppedIsExact
    OBVIOUS
  <2>1. {r \in Records : fate[r] = "dropped"} = {}
    BY DEF Init
  <2> QED
    BY <2>1, FS_EmptySet DEF Init, DroppedIsExact
<1> QED
  BY <1>1, MainInit, MainStep, DroppedStep, PTL DEF Spec

-----------------------------------------------------------------------------
(* A clean close *)

\* A record that aclose() found is settled, in the batch, or ahead of the sentinel.
Ahead(r) == \E i, j \in DOMAIN queue : i < j /\ queue[i] = r /\ queue[j] = Stop

Cared(r) ==
    \/ fate[r] \in {"accepted", "discarded", "lost"}
    \/ fate[r] = "abandoned" /\ closer = "warned"
    \/ r \in InBatch
    \/ Ahead(r)

CareInv ==
    /\ owed # {} => closed
    /\ \A r \in owed : Cared(r)

LEMMA CareStep == MainInv /\ CareInv /\ [Next]_vars => CareInv'
<1> SUFFICES ASSUME MainInv, CareInv, [Next]_vars
             PROVE  CareInv'
  OBVIOUS
<1> USE DEF reporterVars, drainVars, historyVars
<1>0. /\ TypeOK /\ queue \in Seq(Records \cup {Stop}) /\ Len(queue) \in Nat
      /\ DOMAIN queue = 1 .. Len(queue) /\ owed \subseteq Records
  BY LenProperties DEF MainInv, TypeInv, TypeOK
<1>a. ASSUME NEW e, queue' = queue \/ (e \in Records \cup {Stop} /\ queue' = Append(queue, e)),
             NEW r, Ahead(r)
      PROVE  Ahead(r)'
  <2>1. ASSUME e \in Records \cup {Stop}, queue' = Append(queue, e)
        PROVE  /\ DOMAIN queue' = 1 .. (Len(queue) + 1)
               /\ \A i \in 1 .. Len(queue) : queue'[i] = queue[i]
    <3>1. /\ queue' \in Seq(Records \cup {Stop}) /\ Len(queue') = Len(queue) + 1
          /\ \A i \in 1 .. Len(queue) : queue'[i] = queue[i]
      BY <1>0, <2>1, AppendProperties
    <3> QED
      BY <3>1, LenProperties
  <2> QED
    BY <1>0, <1>a, <2>1 DEF Ahead
<1>b. CASE /\ UNCHANGED <<closed, batch, owed>> /\ (closer' = closer \/ closer # "warned")
           /\ queue' = queue
           /\ \A r \in Records : fate'[r] = fate[r] \/ fate[r] \in {"new", "checked", "pending"}
  BY <1>0, <1>b, <1>a DEF CareInv, Cared, InBatch
<1>1. ASSUME NEW r \in Records, PutNowait(r), fate[r] \in {"new", "checked", "pending"},
             UNCHANGED <<closed, batch, owed, closer>>
      PROVE  CareInv'
  <2>1. \A q \in Records : fate'[q] = fate[q] \/ fate[q] \in {"new", "checked", "pending"}
    BY <1>0, <1>1, PutFacts DEF TypeOK
  <2>2. queue' = queue \/ (r \in Records \cup {Stop} /\ queue' = Append(queue, r))
    BY <1>0, <1>1, PutFacts
  <2>3. \A q : Ahead(q) => Ahead(q)'
    BY <1>a, <2>2
  <2> QED
    BY <1>0, <1>1, <2>1, <2>3 DEF CareInv, Cared, InBatch
<1>2. CASE Put \/ Handoff
  <2>1. PICK r \in Records : LoopPut(r) \/ PutIgnored(r) \/ ThreadCheck(r) \/ ThreadHandoff(r)
    BY <1>2 DEF Put, Handoff
  <2>2. CASE LoopPut(r)
    BY <1>1, <2>2 DEF LoopPut
  <2>3. CASE PutIgnored(r) \/ ThreadCheck(r) \/ ThreadHandoff(r)
    BY <1>0, <1>b, <2>3 DEF PutIgnored, ThreadCheck, ThreadHandoff, TypeOK
  <2> QED
    BY <2>1, <2>2, <2>3
<1>3. CASE RunCallback
  <2>1. Head(handoff) \in Records /\ Head(handoff) \in Range(handoff)
    BY <1>0, <1>3, TailRange DEF RunCallback, TypeOK
  <2>2. fate[Head(handoff)] = "pending"
    BY <2>1 DEF MainInv, PlaceInv
  <2> QED
    BY <1>1, <1>3, <2>1, <2>2 DEF RunCallback
<1>4. CASE GetFirst \/ GetNext
  <2>1. /\ queue # <<>> /\ queue' = Tail(queue) /\ UNCHANGED <<closed, fate, owed, closer>>
        /\ Distinct(queue)
    BY <1>4 DEF GetFirst, GetNext, MainInv, PlaceInv
  <2>2. /\ Head(queue) = queue[1]
        /\ Tail(queue) \in Seq(Records \cup {Stop})
        /\ Len(Tail(queue)) = Len(queue) - 1 /\ DOMAIN Tail(queue) = 1 .. (Len(queue) - 1)
        /\ \A i \in 1 .. (Len(queue) - 1) : Tail(queue)[i] = queue[i + 1]
    BY <1>0, <2>1, HeadTailProperties, LenProperties
  <2>3. /\ InBatch \subseteq InBatch'
        /\ Head(queue) # Stop => Head(queue) \in InBatch'
    <3>1. CASE Head(queue) = Stop
      BY <1>4, <3>1 DEF GetFirst, GetNext, InBatch
    <3>2. CASE Head(queue) # Stop /\ GetFirst
      <4>1. InBatch = {} /\ batch' = <<Head(queue)>>
        BY <3>2, BatchPending DEF GetFirst
      <4> QED
        BY <4>1 DEF InBatch, Range
    <3>3. CASE Head(queue) # Stop /\ GetNext
      <4>1. Head(queue) \in Records /\ batch' = Append(batch, Head(queue)) /\ batch \in Seq(Records)
        BY <1>0, <2>1, <3>3, TakeHead DEF GetNext, TypeOK
      <4> QED
        BY <4>1, AppendRange DEF InBatch
    <3> QED
      BY <1>4, <3>1, <3>2, <3>3
  <2>4. ASSUME NEW r \in Records, Ahead(r) PROVE r \in InBatch' \/ Ahead(r)'
    <3>1. PICK i, j \in DOMAIN queue : i < j /\ queue[i] = r /\ queue[j] = Stop
      BY <2>4 DEF Ahead
    <3>2. CASE i = 1
      BY <2>2, <2>3, <3>1, <3>2, SentinelAssumption
    <3>3. CASE i # 1
      <4>1. i - 1 \in DOMAIN Tail(queue) /\ j - 1 \in DOMAIN Tail(queue) /\ i - 1 < j - 1
        BY <1>0, <2>2, <3>1, <3>3
      <4>2. Tail(queue)[i - 1] = r /\ Tail(queue)[j - 1] = Stop
        BY <1>0, <2>2, <3>1, <4>1
      <4> QED
        BY <2>1, <4>1, <4>2 DEF Ahead
    <3> QED
      BY <3>2, <3>3
  <2> QED
    BY <1>0, <2>1, <2>3, <2>4 DEF CareInv, Cared
<1>5. ASSUME NEW f \in {"accepted", "discarded", "lost", "abandoned"}, Settle(f),
             f = "abandoned" => closer' = "warned",
             UNCHANGED <<queue, closed, owed>>, closer' = closer \/ closer # "warned"
      PROVE  CareInv'
  <2>1. \A r \in Records : fate'[r] = IF r \in InBatch THEN f ELSE fate[r]
    BY <1>0, <1>5 DEF Settle, TypeOK
  <2>2. \A q : Ahead(q) => Ahead(q)'
    BY <1>a, <1>5
  <2> QED
    BY <1>0, <1>5, <2>1, <2>2 DEF CareInv, Cared
<1>6. CASE PostAccepted \/ PostRejected \/ PostRaises \/ AcloseTimesOut
  <2>1. CASE PostAccepted
    BY <1>5, <2>1 DEF PostAccepted, PostReturns
  <2>2. CASE PostRejected
    BY <1>5, <2>2 DEF PostRejected, PostReturns
  <2>3. CASE PostRaises
    BY <1>5, <2>3 DEF PostRaises
  <2>4. CASE AcloseTimesOut
    BY <1>5, <2>4 DEF AcloseTimesOut
  <2> QED
    BY <1>6, <2>1, <2>2, <2>3, <2>4
<1>7. CASE PostFailed
  <2>1. CASE LastAttempt
    BY <1>5, <1>7, <2>1 DEF PostFailed, PostReturns
  <2>2. CASE ~LastAttempt
    BY <1>b, <1>7, <2>2 DEF PostFailed
  <2> QED
    BY <2>1, <2>2
<1>8. CASE Aclose
  <2>1. closed' /\ UNCHANGED batch /\ owed' = InBatch \cup Range(Retained)
    BY <1>8 DEF Aclose
  <2>2. Retained \in Seq(Records \cup {Stop}) /\ queue' = Append(Retained, Stop)
    BY <1>8, AcloseFacts
  <2>3. /\ Len(Retained) \in Nat /\ DOMAIN Retained = 1 .. Len(Retained)
        /\ DOMAIN queue' = 1 .. (Len(Retained) + 1)
        /\ \A i \in 1 .. Len(Retained) : queue'[i] = Retained[i]
        /\ queue'[Len(Retained) + 1] = Stop
    <3>1. Stop \in Records \cup {Stop}
      OBVIOUS
    <3>2. Append(Retained, Stop) \in Seq(Records \cup {Stop})
      BY <2>2, <3>1, AppendProperties
    <3> QED
      BY <2>2, <3>1, <3>2, AppendProperties, LenProperties
  <2>4. ASSUME NEW r \in Range(Retained) PROVE Ahead(r)'
    <3>1. PICK i \in 1 .. Len(Retained) : Retained[i] = r
      BY <2>3, <2>4 DEF Range
    <3>2. i < Len(Retained) + 1 /\ queue'[i] = r
      BY <2>3, <3>1
    <3> QED
      BY <2>3, <3>1, <3>2 DEF Ahead
  <2> QED
    BY <2>1, <2>4 DEF CareInv, Cared, InBatch
<1>9. CASE Start \/ FlushTimeout \/ BackoffEnds \/ AcloseFinishes \/ UNCHANGED vars
  BY <1>b, <1>9 DEF Start, FlushTimeout, BackoffEnds, AcloseFinishes, vars
<1> QED
  BY <1>2, <1>3, <1>4, <1>6, <1>7, <1>8, <1>9 DEF Next, Collect, Post, Close

\* Without the warning, aclose() leaves none of the records it found and did not
\* displace: each has been delivered, given up or lost by an exception.
THEOREM CleanClose == Spec => []CleanCloseLeavesNothing
<1>1. Init => CareInv
  BY DEF Init, CareInv
<1>2. MainInv /\ StopInv /\ CareInv => CleanCloseLeavesNothing
  <2> SUFFICES ASSUME MainInv, StopInv, CareInv, closer = "finished", NEW r \in owed
               PROVE  fate[r] \in {"accepted", "discarded", "lost"}
    BY DEF CleanCloseLeavesNothing
  <2>1. drain = "ended" /\ stopping
    BY DEF MainInv, ControlInv
  <2>2. InBatch = {}
    BY <2>1, BatchPending
  <2>3. Stop \notin Range(queue)
    BY <2>1 DEF StopInv
  <2>4. ~Ahead(r)
    BY <2>3 DEF Ahead, Range
  <2> QED
    BY <2>2, <2>4 DEF CareInv, Cared
<1> QED
  BY <1>1, <1>2, StopAlways, MainInit, MainStep, CareStep, PTL DEF Spec

-----------------------------------------------------------------------------
(* The records of a queue, under its operations *)

\* Without the sentinel the queue is its records; with it, they close up around it.
LEMMA RecordsOfEntries ==
  ASSUME NEW s \in Seq(Records \cup {Stop}), Distinct(s)
  PROVE  /\ RecordsOf(s) \in Seq(Records)
         /\ Stop \notin Range(s) => RecordsOf(s) = s
         /\ \A p \in DOMAIN s : s[p] = Stop =>
               /\ Len(RecordsOf(s)) = Len(s) - 1
               /\ \A i \in 1 .. Len(s) - 1 :
                     RecordsOf(s)[i] = IF i < p THEN s[i] ELSE s[i + 1]
<1>1. DOMAIN s = 1 .. Len(s) /\ Len(s) \in Nat /\ \A i \in DOMAIN s : s[i] \in Records \cup {Stop}
  BY LenProperties, ElementOfSeq
<1>2. CASE Stop \notin Range(s)
  <2>1. RecordsOf(s) = s
    BY <1>2 DEF RecordsOf
  <2>2. \A i \in DOMAIN s : s[i] \in Records
    BY <1>1, <1>2 DEF Range
  <2>3. s \in Seq(Records)
    BY <1>1, <2>2
  <2> QED
    BY <1>2, <2>1, <2>3 DEF Range
<1>3. CASE Stop \in Range(s)
  <2>1. PICK p \in DOMAIN s : s[p] = Stop
    BY <1>3 DEF Range
  <2>2. \A q \in DOMAIN s : s[q] = Stop => q = p
    BY <2>1 DEF Distinct
  <2>3. RecordsOf(s) = SubSeq(s, 1, p - 1) \o SubSeq(s, p + 1, Len(s))
    BY <1>3, <2>1, <2>2 DEF RecordsOf
  <2>4. /\ SubSeq(s, 1, p - 1) \in Seq(Records)
        /\ Len(SubSeq(s, 1, p - 1)) = p - 1
        /\ \A i \in 1 .. p - 1 : SubSeq(s, 1, p - 1)[i] = s[i]
    <3>1. \A i \in 1 .. p - 1 : s[i] \in Records
      BY <1>1, <2>1, <2>2
    <3> QED
      BY <1>1, <2>1, <3>1, SubSeqProperties
  <2>5. /\ SubSeq(s, p + 1, Len(s)) \in Seq(Records)
        /\ Len(SubSeq(s, p + 1, Len(s))) = Len(s) - p
        /\ \A i \in 1 .. Len(s) - p : SubSeq(s, p + 1, Len(s))[i] = s[p + i]
    <3>1. \A i \in p + 1 .. Len(s) : s[i] \in Records
      BY <1>1, <2>1, <2>2
    <3> DEFINE rest == SubSeq(s, p + 1, Len(s))
    <3>2. /\ rest \in Seq(Records)
          /\ Len(rest) = IF p + 1 <= Len(s) THEN Len(s) - (p + 1) + 1 ELSE 0
          /\ \A i \in 1 .. Len(s) - (p + 1) + 1 : rest[i] = s[(p + 1) + i - 1]
      BY <1>1, <2>1, <3>1, SubSeqProperties
    <3> HIDE DEF rest
    <3> QED
      BY <1>1, <2>1, <3>2 DEF rest
  <2>6. /\ RecordsOf(s) \in Seq(Records)
        /\ Len(RecordsOf(s)) = Len(s) - 1
        /\ \A i \in 1 .. Len(s) - 1 : RecordsOf(s)[i] = IF i < p THEN s[i] ELSE s[i + 1]
    <3> DEFINE a == SubSeq(s, 1, p - 1)
               b == SubSeq(s, p + 1, Len(s))
    <3>1. /\ a \o b \in Seq(Records)
          /\ Len(a \o b) = Len(a) + Len(b)
          /\ \A i \in 1 .. Len(a) + Len(b) :
                (a \o b)[i] = IF i <= Len(a) THEN a[i] ELSE b[i - Len(a)]
      BY <2>4, <2>5, ConcatProperties
    <3> HIDE DEF a, b
    <3>2. /\ Len(a) = p - 1 /\ \A i \in 1 .. p - 1 : a[i] = s[i]
          /\ Len(b) = Len(s) - p /\ \A i \in 1 .. Len(s) - p : b[i] = s[p + i]
      BY <2>4, <2>5 DEF a, b
    <3>3. \A i \in 1 .. Len(s) - 1 : (a \o b)[i] = IF i < p THEN s[i] ELSE s[i + 1]
      <4> TAKE i \in 1 .. Len(s) - 1
      <4>1. CASE i < p
        BY <1>1, <2>1, <3>1, <3>2, <4>1
      <4>2. CASE ~(i < p)
        <5>1. (a \o b)[i] = b[i - (p - 1)] /\ i - (p - 1) \in 1 .. Len(s) - p
          BY <1>1, <2>1, <3>1, <3>2, <4>2
        <5>2. p + (i - (p - 1)) = i + 1
          BY <1>1, <2>1
        <5> QED
          BY <3>2, <4>2, <5>1, <5>2
      <4> QED
        BY <4>1, <4>2
    <3>4. RecordsOf(s) = a \o b
      BY <2>3 DEF a, b
    <3>5. Len(a \o b) = Len(s) - 1
      BY <1>1, <2>1, <3>1, <3>2
    <3> QED
      BY <3>1, <3>3, <3>4, <3>5
  <2> QED
    BY <1>3, <2>2, <2>6
<1> QED
  BY <1>2, <1>3

\* A record that joins the queue joins its records.
LEMMA RecordsOfAppend ==
  ASSUME NEW s \in Seq(Records \cup {Stop}), Distinct(s), NEW r \in Records, r \notin Range(s)
  PROVE  RecordsOf(Append(s, r)) = Append(RecordsOf(s), r)
<1> DEFINE t == Append(s, r)
<1>1. /\ t \in Seq(Records \cup {Stop})
      /\ Len(t) = Len(s) + 1 /\ t[Len(s) + 1] = r
      /\ \A i \in 1 .. Len(s) : t[i] = s[i]
      /\ Range(t) = Range(s) \cup {r} /\ Distinct(t)
  BY AppendProperties, QueueAppend
<1>2. /\ DOMAIN s = 1 .. Len(s) /\ Len(s) \in Nat
      /\ DOMAIN t = 1 .. Len(s) + 1
  BY <1>1, LenProperties
<1>3. r # Stop
  BY SentinelAssumption
<1> HIDE DEF t
<1>4. CASE Stop \notin Range(s)
  <2>1. RecordsOf(t) = t /\ RecordsOf(s) = s
    BY <1>1, <1>3, <1>4, RecordsOfEntries
  <2> QED
    BY <2>1 DEF t
<1>5. CASE Stop \in Range(s)
  <2>1. PICK p \in DOMAIN s : s[p] = Stop
    BY <1>5 DEF Range
  <2>2. p \in DOMAIN t /\ t[p] = Stop
    BY <1>1, <1>2, <2>1
  <2> DEFINE u == RecordsOf(s)
             v == RecordsOf(t)
             w == Append(u, r)
  <2>3. /\ u \in Seq(Records) /\ Len(u) = Len(s) - 1
        /\ \A i \in 1 .. Len(s) - 1 : u[i] = IF i < p THEN s[i] ELSE s[i + 1]
    BY <2>1, RecordsOfEntries
  <2>4. /\ v \in Seq(Records) /\ Len(v) = Len(s)
        /\ \A i \in 1 .. Len(s) : v[i] = IF i < p THEN t[i] ELSE t[i + 1]
    <3>1. /\ v \in Seq(Records) /\ Len(v) = Len(t) - 1
          /\ \A i \in 1 .. Len(t) - 1 : v[i] = IF i < p THEN t[i] ELSE t[i + 1]
      BY <1>1, <2>2, RecordsOfEntries
    <3>2. Len(t) - 1 = Len(s)
      BY <1>1, <1>2
    <3> HIDE DEF v
    <3> QED
      BY <3>1, <3>2
  <2> HIDE DEF u, v
  <2>5. /\ w \in Seq(Records) /\ Len(w) = Len(s)
        /\ \A i \in 1 .. Len(s) - 1 : w[i] = u[i]
        /\ w[Len(s)] = r
    <3>1. /\ w \in Seq(Records) /\ Len(w) = Len(u) + 1
          /\ \A i \in 1 .. Len(u) : w[i] = u[i]
          /\ w[Len(u) + 1] = r
      BY <2>3, AppendProperties
    <3>2. Len(u) + 1 = Len(s)
      BY <1>2, <2>3
    <3> QED
      BY <2>3, <3>1, <3>2
  <2> HIDE DEF w
  <2>6. \A i \in 1 .. Len(s) : v[i] = w[i]
    <3>1. ASSUME NEW i \in 1 .. Len(s) - 1
          PROVE  v[i] = w[i]
      <4>1. w[i] = IF i < p THEN s[i] ELSE s[i + 1]
        BY <2>3, <2>5
      <4>2. v[i] = IF i < p THEN t[i] ELSE t[i + 1]
        BY <1>2, <2>4
      <4>3. t[i] = s[i] /\ t[i + 1] = s[i + 1]
        BY <1>1, <1>2
      <4> QED
        BY <4>1, <4>2, <4>3
    <3>2. v[Len(s)] = w[Len(s)]
      BY <1>1, <1>2, <2>1, <2>4, <2>5
    <3> QED
      BY <1>2, <3>1, <3>2
  <2>7. v = w
    BY <1>2, <2>4, <2>5, <2>6, SeqEqual
  <2> QED
    BY <2>7 DEF u, v, w, t
<1> QED
  BY <1>4, <1>5

\* The sentinel that joins the queue does not.
LEMMA RecordsOfStop ==
  ASSUME NEW s \in Seq(Records \cup {Stop}), Distinct(s), Stop \notin Range(s)
  PROVE  RecordsOf(Append(s, Stop)) = s
<1> DEFINE t == Append(s, Stop)
           v == RecordsOf(t)
<1>1. /\ t \in Seq(Records \cup {Stop})
      /\ Len(t) = Len(s) + 1 /\ t[Len(s) + 1] = Stop
      /\ \A i \in 1 .. Len(s) : t[i] = s[i]
      /\ Distinct(t)
  BY AppendProperties, QueueAppend
<1>2. /\ DOMAIN s = 1 .. Len(s) /\ Len(s) \in Nat
      /\ DOMAIN t = 1 .. Len(s) + 1
  BY <1>1, LenProperties
<1>3. s \in Seq(Records)
  BY RecordsOfEntries
<1> HIDE DEF t
<1>4. /\ v \in Seq(Records) /\ Len(v) = Len(t) - 1
      /\ \A i \in 1 .. Len(t) - 1 : v[i] = IF i < Len(s) + 1 THEN t[i] ELSE t[i + 1]
  BY <1>1, <1>2, RecordsOfEntries
<1> HIDE DEF v
<1>5. Len(v) = Len(s) /\ \A i \in 1 .. Len(v) : v[i] = s[i]
  BY <1>1, <1>2, <1>4
<1>6. v = s
  BY <1>3, <1>4, <1>5, SeqEqual
<1> QED
  BY <1>6 DEF v, t

\* What the drain takes comes first, and leaves the others in their order.
LEMMA RecordsOfHead ==
  ASSUME NEW s \in Seq(Records \cup {Stop}), Distinct(s), s # <<>>
  PROVE  /\ Head(s) = Stop => RecordsOf(s) = RecordsOf(Tail(s))
         /\ Head(s) # Stop => RecordsOf(s) = <<Head(s)>> \o RecordsOf(Tail(s))
<1> DEFINE t == Tail(s)
           u == RecordsOf(s)
           v == RecordsOf(t)
<1>1. /\ t \in Seq(Records \cup {Stop}) /\ Len(t) = Len(s) - 1
      /\ \A i \in 1 .. Len(t) : t[i] = s[i + 1]
      /\ Range(s) = {Head(s)} \cup Range(t)
      /\ Distinct(t) /\ Head(s) \notin Range(t)
  BY TailRange, HeadTailProperties
<1>2. /\ DOMAIN s = 1 .. Len(s) /\ Len(s) \in Nat \ {0} /\ Head(s) = s[1]
      /\ DOMAIN t = 1 .. Len(s) - 1
  BY <1>1, LenProperties, EmptySeq
<1> HIDE DEF t
<1>3. u \in Seq(Records) /\ v \in Seq(Records)
  BY <1>1, RecordsOfEntries
<1>4. CASE Head(s) = Stop
  <2>1. v = t
    BY <1>1, <1>4, RecordsOfEntries
  <2>2. /\ Len(u) = Len(s) - 1
        /\ \A i \in 1 .. Len(s) - 1 : u[i] = IF i < 1 THEN s[i] ELSE s[i + 1]
    <3>1. 1 \in DOMAIN s /\ s[1] = Stop
      BY <1>2, <1>4
    <3> QED
      BY <3>1, RecordsOfEntries
  <2> HIDE DEF u, v
  <2>3. Len(u) = Len(v) /\ \A i \in 1 .. Len(u) : u[i] = v[i]
    BY <1>1, <1>2, <2>1, <2>2
  <2>4. u = v
    BY <1>3, <2>3, SeqEqual
  <2> QED
    BY <1>4, <2>4 DEF u, v, t
<1>5. CASE Head(s) # Stop
  <2> DEFINE h == <<Head(s)>>
             w == h \o v
  <2>1. h \in Seq(Records) /\ Len(h) = 1 /\ h[1] = Head(s)
    <3>1. Head(s) \in Records
      BY <1>2, <1>5, ElementOfSeq
    <3> QED
      BY <3>1
  <2>2. /\ w \in Seq(Records) /\ Len(w) = 1 + Len(v)
        /\ \A i \in 1 .. 1 + Len(v) : w[i] = IF i <= 1 THEN h[i] ELSE v[i - 1]
    BY <1>3, <2>1, ConcatProperties
  <2>3. CASE Stop \notin Range(s)
    <3>1. u = s /\ v = t
      BY <1>1, <2>3, RecordsOfEntries
    <3> HIDE DEF u, v, w, h
    <3>2. Len(u) = Len(w) /\ \A i \in 1 .. Len(u) : u[i] = w[i]
      BY <1>1, <1>2, <2>1, <2>2, <3>1
    <3>3. u = w
      BY <1>3, <2>2, <3>2, SeqEqual
    <3> QED
      BY <1>5, <3>3 DEF u, v, w, h, t
  <2>4. CASE Stop \in Range(s)
    <3>1. PICK p \in DOMAIN s : s[p] = Stop
      BY <2>4 DEF Range
    <3>2. p - 1 \in DOMAIN t /\ t[p - 1] = Stop /\ p > 1
      BY <1>1, <1>2, <1>5, <3>1
    <3>3. /\ Len(u) = Len(s) - 1
          /\ \A i \in 1 .. Len(s) - 1 : u[i] = IF i < p THEN s[i] ELSE s[i + 1]
      BY <3>1, RecordsOfEntries
    <3>4. /\ Len(v) = Len(t) - 1
          /\ \A i \in 1 .. Len(t) - 1 : v[i] = IF i < p - 1 THEN t[i] ELSE t[i + 1]
      BY <1>1, <3>2, RecordsOfEntries
    <3> HIDE DEF u, v, w, h
    <3>5. Len(u) = Len(w)
      BY <1>1, <1>2, <2>2, <3>3, <3>4
    <3>6. \A i \in 1 .. Len(u) : u[i] = w[i]
      <4> TAKE i \in 1 .. Len(u)
      <4>1. CASE i = 1
        BY <1>2, <2>1, <2>2, <3>2, <3>3, <3>5, <4>1
      <4>2. CASE i > 1
        <5>1. w[i] = v[i - 1] /\ i - 1 \in 1 .. Len(t) - 1
          BY <1>1, <1>2, <2>2, <3>3, <3>5, <4>2
        <5>2. v[i - 1] = IF i < p THEN s[i] ELSE s[i + 1]
          BY <1>1, <1>2, <3>1, <3>4, <5>1
        <5> QED
          BY <1>2, <3>3, <5>1, <5>2
      <4> QED
        BY <1>2, <3>3, <4>1, <4>2
    <3>7. u = w
      BY <1>3, <2>2, <3>5, <3>6, SeqEqual
    <3> QED
      BY <1>5, <3>7 DEF u, v, w, h, t
  <2> QED
    BY <2>3, <2>4
<1> QED
  BY <1>4, <1>5

-----------------------------------------------------------------------------
(* The reporter implements the abstract line *)

\* The line of the refinement mapping: the batch in hand, then the queue.
Waiting == batch \o RecordsOf(queue)

\* The records that have left the reporter, one way or the other.
Gone == {r \in Records : fate[r] \in {"dropped", "accepted", "discarded", "lost", "abandoned"}}

LEMMA WaitingPrimed == Waiting' = batch' \o RecordsOf(queue')
BY DEF Waiting, RecordsOf

LEMMA SeenParts == /\ Seen = Range(batch) \cup (Range(queue) \ {Stop}) \cup Gone
                   /\ Seen' = Range(batch') \cup (Range(queue') \ {Stop}) \cup Gone'
BY DEF Seen, Gone

\* What the mapping is built from is well typed.
LEMMA WaitingFacts ==
  ASSUME MainInv
  PROVE  /\ batch \in Seq(Records)
         /\ queue \in Seq(Records \cup {Stop}) /\ Distinct(queue)
         /\ RecordsOf(queue) \in Seq(Records)
         /\ Waiting \in Seq(Records)
<1>1. /\ batch \in Seq(Records)
      /\ queue \in Seq(Records \cup {Stop}) /\ Distinct(queue)
  BY DEF MainInv, TypeInv, TypeOK, PlaceInv
<1>2. RecordsOf(queue) \in Seq(Records)
  BY <1>1, RecordsOfEntries
<1> QED
  BY <1>1, <1>2, ConcatProperties DEF Waiting

\* A step that leaves the line, what was delivered and what was seen alone stutters.
LEMMA LineStutters ==
  ASSUME Waiting' = Waiting, Seen' = Seen, UNCHANGED <<posted, closed>>
  PROVE  UNCHANGED Line!lineVars
BY DEF Line!lineVars, Waiting

\* A put joins the line or is turned away.
LEMMA PutJoins ==
  ASSUME MainInv, NEW r \in Records, PutNowait(r), r \notin Seen,
         UNCHANGED <<batch, posted, closed>>
  PROVE  Line!Next
<1>1. TypeOK /\ queue \in Seq(Records \cup {Stop}) /\ Distinct(queue)
  BY WaitingFacts DEF MainInv, TypeInv
<1>2. r # Stop /\ r \notin Range(queue)
  BY SentinelAssumption DEF Seen
<1>3. fate \in [Records -> Fates]
  BY <1>1 DEF TypeOK
<1>4. CASE queue' = Append(queue, r) /\ Range(queue') = Range(queue) \cup {r}
           /\ fate' = [fate EXCEPT ![r] = "pending"]
  <2>1. Gone' = Gone
    BY <1>3, <1>4 DEF Gone, Seen
  <2>2. Seen' = Seen \cup {r}
    BY <1>2, <1>4, <2>1, SeenParts
  <2>3. Waiting' = Append(Waiting, r)
    <3>1. RecordsOf(queue') = Append(RecordsOf(queue), r)
      BY <1>1, <1>2, <1>4, RecordsOfAppend
    <3>2. /\ batch \in Seq(Records) /\ RecordsOf(queue) \in Seq(Records)
          /\ Waiting \in Seq(Records) /\ <<r>> \in Seq(Records)
      BY WaitingFacts
    <3>3. Append(RecordsOf(queue), r) = RecordsOf(queue) \o <<r>>
      BY <3>2, AppendIsConcat
    <3>4. Append(Waiting, r) = Waiting \o <<r>>
      BY <3>2, AppendIsConcat
    <3>5. (batch \o RecordsOf(queue)) \o <<r>> = batch \o (RecordsOf(queue) \o <<r>>)
      BY <3>2, ConcatAssociative
    <3> QED
      BY <3>1, <3>3, <3>4, <3>5, WaitingPrimed DEF Waiting
  <2>4. Line!Join(r)
    BY <2>2, <2>3 DEF Line!Join, Waiting
  <2> QED
    BY <2>4 DEF Line!Next
<1>5. CASE queue' = queue /\ fate' = [fate EXCEPT ![r] = "dropped"]
  <2>1. Gone' = Gone \cup {r}
    BY <1>3, <1>5 DEF Gone
  <2>2. Seen' = Seen \cup {r}
    BY <1>5, <2>1, SeenParts
  <2>3. Waiting' = Waiting
    BY <1>5, WaitingPrimed DEF Waiting
  <2>4. Line!TurnAway(r)
    BY <2>2, <2>3 DEF Line!TurnAway, Waiting
  <2> QED
    BY <2>4 DEF Line!Next
<1> QED
  BY <1>1, <1>4, <1>5, PutFacts

\* A record that moves from the head of the queue to the end of the batch keeps
\* its place in the line, and the sentinel has none.
LEMMA TakeStutters ==
  ASSUME MainInv, queue # <<>>, queue' = Tail(queue),
         \/ Head(queue) = Stop /\ batch' = batch
         \/ Head(queue) # Stop /\ batch' = Append(batch, Head(queue)),
         UNCHANGED <<fate, posted, closed>>
  PROVE  UNCHANGED Line!lineVars
<1>1. /\ batch \in Seq(Records)
      /\ queue \in Seq(Records \cup {Stop}) /\ Distinct(queue)
  BY WaitingFacts
<1>2. /\ Range(queue) = {Head(queue)} \cup Range(queue')
      /\ Head(queue) \notin Range(queue')
      /\ Head(queue) # Stop => Head(queue) \in Records
      /\ queue' \in Seq(Records \cup {Stop}) /\ Distinct(queue')
  <2>1. Distinct(Tail(queue)) /\ Tail(queue) \in Seq(Records \cup {Stop})
    BY <1>1, TailRange
  <2> QED
    BY <2>1, TakeHead
<1>3. RecordsOf(queue') \in Seq(Records)
  BY <1>2, RecordsOfEntries
<1>4. Gone' = Gone
  BY DEF Gone
<1>5. CASE Head(queue) = Stop /\ batch' = batch
  <2>1. RecordsOf(queue') = RecordsOf(queue)
    BY <1>1, <1>5, RecordsOfHead
  <2>2. Seen' = Seen
    BY <1>2, <1>4, <1>5, SeenParts
  <2> QED
    BY <1>5, <2>1, <2>2, WaitingPrimed, LineStutters DEF Waiting
<1>6. CASE Head(queue) # Stop /\ batch' = Append(batch, Head(queue))
  <2> DEFINE h == Head(queue)
  <2>1. h \in Records /\ <<h>> \in Seq(Records)
    BY <1>2, <1>6
  <2>2. /\ batch' = batch \o <<h>>
        /\ Range(batch') = Range(batch) \cup {h}
    BY <1>1, <1>6, <2>1, AppendIsConcat, AppendRange
  <2>3. RecordsOf(queue) = <<h>> \o RecordsOf(queue')
    BY <1>1, <1>6, RecordsOfHead
  <2>4. (batch \o <<h>>) \o RecordsOf(queue') = batch \o (<<h>> \o RecordsOf(queue'))
    BY <1>1, <1>3, <2>1, ConcatAssociative
  <2>5. Waiting' = Waiting
    BY <2>2, <2>3, <2>4, WaitingPrimed DEF Waiting
  <2>6. Seen' = Seen
    BY <1>2, <1>4, <1>6, <2>2, SeenParts
  <2> QED
    BY <2>5, <2>6, LineStutters
<1> QED
  BY <1>5, <1>6

\* The batch leaves the line together, from its head.
LEMMA SettleLeaves ==
  ASSUME MainInv, batch # <<>>,
         NEW f \in {"accepted", "discarded", "lost", "abandoned"}, Settle(f),
         UNCHANGED <<queue, closed>>,
         posted' = posted \o batch \/ posted' = posted
  PROVE  Line!Next
<1>1. /\ batch \in Seq(Records) /\ RecordsOf(queue) \in Seq(Records)
      /\ Waiting \in Seq(Records) /\ fate \in [Records -> Fates]
  BY WaitingFacts DEF MainInv, TypeInv, TypeOK
<1> DEFINE n == Len(batch)
<1>2. n \in 1 .. MaxBatch
  <2>1. n \in Nat /\ n # 0
    BY <1>1, LenProperties, EmptySeq
  <2>2. n <= MaxBatch
    BY DEF MainInv, ControlInv, BatchesAreBounded
  <2> QED
    BY <2>1, <2>2, LimitsAssumption
<1>3. /\ n <= Len(Waiting)
      /\ Len(Waiting) = n + Len(RecordsOf(queue)) /\ Len(RecordsOf(queue)) \in Nat
  BY <1>1, <1>2, ConcatProperties, LenProperties DEF Waiting
<1>4. SubSeq(Waiting, 1, n) = batch
  <2>1. SubSeq(batch \o RecordsOf(queue), 1, n) = SubSeq(batch, 1, n)
    BY <1>1, <1>2, SubSeqOfConcat1
  <2>2. SubSeq(batch, 1, n) = batch
    BY <1>1, SubSeqFull
  <2> QED
    BY <2>1, <2>2 DEF Waiting
<1>5. SubSeq(Waiting, n + 1, Len(Waiting)) = RecordsOf(queue)
  <2> DEFINE w == RecordsOf(queue)
             v == SubSeq(Waiting, n + 1, Len(Waiting))
  <2>1. \A i \in 1 .. n + Len(w) : Waiting[i] = IF i <= n THEN batch[i] ELSE w[i - n]
    BY <1>1, ConcatProperties DEF Waiting
  <2>2. \A i \in n + 1 .. Len(Waiting) : Waiting[i] \in Records
    BY <1>1, <1>2, <1>3, ElementOfSeq
  <2> HIDE DEF n
  <2>3. /\ v \in Seq(Records)
        /\ Len(v) = IF n + 1 <= Len(Waiting) THEN Len(Waiting) - (n + 1) + 1 ELSE 0
        /\ \A i \in 1 .. Len(Waiting) - (n + 1) + 1 : v[i] = Waiting[(n + 1) + i - 1]
    BY <1>2, <1>3, <2>2, SubSeqProperties
  <2> HIDE DEF v, w
  <2>4. Len(v) = Len(w)
    BY <1>2, <1>3, <2>3 DEF w
  <2>5. \A i \in 1 .. Len(v) : v[i] = w[i]
    <3> TAKE i \in 1 .. Len(v)
    <3>1. Len(w) \in Nat /\ Len(Waiting) = n + Len(w)
      BY <1>3 DEF w
    <3>2. v[i] = Waiting[n + i] /\ n + i \in 1 .. n + Len(w)
      BY <1>2, <2>3, <2>4, <3>1
    <3>3. Waiting[n + i] = w[(n + i) - n]
      BY <1>2, <2>1, <2>4, <3>1, <3>2
    <3> QED
      BY <1>2, <2>4, <3>1, <3>2, <3>3
  <2>6. v = w
    BY <1>1, <2>3, <2>4, <2>5, SeqEqual DEF w
  <2> QED
    BY <2>6 DEF v, w, n
<1>6. Waiting' = RecordsOf(queue)
  <2>1. batch' = <<>>
    BY DEF Settle
  <2>2. <<>> \o RecordsOf(queue) = RecordsOf(queue)
    BY <1>1, ConcatEmptySeq
  <2> QED
    BY <2>1, <2>2, WaitingPrimed
<1>7. Seen' = Seen
  <2>1. Range(batch) \subseteq Records
    BY BatchPending DEF InBatch
  <2>2. \A r \in Records : fate'[r] = IF r \in Range(batch) THEN f ELSE fate[r]
    BY DEF Settle, InBatch
  <2>3. \A r \in Range(batch) : fate[r] = "pending"
    BY BatchPending DEF InBatch
  <2>4. Gone' = Gone \cup Range(batch)
    BY <2>1, <2>2, <2>3 DEF Gone
  <2>5. Range(batch') = {}
    BY EmptyRange DEF Settle
  <2> QED
    BY <2>4, <2>5, SeenParts
<1> HIDE DEF n
<1>8. CASE posted' = posted \o batch
  <2>1. Line!Deliver(n)
    BY <1>3, <1>4, <1>5, <1>6, <1>7, <1>8 DEF Line!Deliver, Line!LeaveTogether, Waiting
  <2> QED
    BY <1>2, <2>1 DEF Line!Next
<1>9. CASE posted' = posted
  <2>1. Line!Lose(n)
    BY <1>3, <1>5, <1>6, <1>7, <1>9 DEF Line!Lose, Line!LeaveTogether, Waiting
  <2> QED
    BY <1>2, <2>1 DEF Line!Next
<1> QED
  BY <1>8, <1>9

\* aclose() closes the line; on a full queue the record behind the batch is evicted.
LEMMA AcloseCloses ==
  ASSUME MainInv, Aclose
  PROVE  Line!Next
<1>1. /\ batch \in Seq(Records) /\ queue \in Seq(Records \cup {Stop}) /\ Distinct(queue)
      /\ Stop \notin Range(queue) /\ Waiting \in Seq(Records)
      /\ fate \in [Records -> Fates]
  BY WaitingFacts DEF MainInv, TypeInv, TypeOK, NoEarlyStop, Aclose
<1>2. RecordsOf(queue) = queue /\ queue \in Seq(Records)
  BY <1>1, RecordsOfEntries
<1>3. /\ ~closed /\ closed' = TRUE /\ UNCHANGED <<batch, posted>>
  BY DEF Aclose, drainVars
<1>4. /\ queue' = Append(Retained, Stop) /\ Range(queue') = Range(Retained) \cup {Stop}
      /\ Stop \notin Range(Retained)
  BY AcloseFacts
<1>5. CASE Len(queue) < QueueMax
  <2>1. Retained = queue /\ UNCHANGED fate
    BY <1>5 DEF Aclose, Retained, Displace
  <2>2. RecordsOf(queue') = queue
    BY <1>1, <1>4, <2>1, RecordsOfStop
  <2>3. Waiting' = Waiting
    BY <1>2, <1>3, <2>2, WaitingPrimed DEF Waiting
  <2>4. Seen' = Seen
    <3>1. Gone' = Gone
      BY <2>1 DEF Gone
    <3> QED
      BY <1>3, <1>4, <2>1, <3>1, SeenParts
  <2>5. Line!Close
    BY <1>3, <2>3, <2>4 DEF Line!Close, Waiting
  <2> QED
    BY <2>5 DEF Line!Next
<1>6. CASE ~(Len(queue) < QueueMax)
  <2> DEFINE h == Head(queue)
             rest == Tail(queue)
             n == Len(batch)
             i == n + 1
             tail == SubSeq(Waiting, i + 1, Len(Waiting))
  <2>1. queue # <<>>
    BY <1>1, <1>6, EmptySeq, LimitsAssumption
  <2>2. Retained = rest /\ fate' = [fate EXCEPT ![h] = "dropped"]
    BY <1>6 DEF Aclose, Retained, Displace
  <2>3. /\ h \in Records /\ rest \in Seq(Records) /\ Distinct(rest)
        /\ Len(rest) = Len(queue) - 1
        /\ \A j \in 1 .. Len(rest) : rest[j] = queue[j + 1]
        /\ Range(queue) = {h} \cup Range(rest)
    BY <1>1, <1>2, <2>1, TailRange, HeadTailProperties
  <2>4. RecordsOf(queue') = rest
    <3>1. rest \in Seq(Records \cup {Stop})
      BY <1>1, <2>1, TailRange
    <3> QED
      BY <1>4, <2>2, <2>3, <3>1, RecordsOfStop
  <2>5. /\ n \in Nat /\ Len(queue) \in Nat \ {0}
        /\ Len(Waiting) = n + Len(queue)
        /\ \A j \in 1 .. n + Len(queue) :
              Waiting[j] = IF j <= n THEN batch[j] ELSE queue[j - n]
    BY <1>1, <1>2, <2>1, ConcatProperties, LenProperties, EmptySeq DEF Waiting
  <2> HIDE DEF n
  <2>6. i \in DOMAIN Waiting
    BY <1>1, <2>5, LenProperties
  <2>7. SubSeq(Waiting, 1, i - 1) = batch
    <3> DEFINE v == SubSeq(Waiting, 1, n)
    <3>1. \A j \in 1 .. n : Waiting[j] \in Records
      BY <1>1, <2>5, ElementOfSeq
    <3>2. /\ v \in Seq(Records)
          /\ Len(v) = IF 1 <= n THEN n - 1 + 1 ELSE 0
          /\ \A j \in 1 .. n - 1 + 1 : v[j] = Waiting[1 + j - 1]
      BY <2>5, <3>1, SubSeqProperties
    <3> HIDE DEF v
    <3>3. Len(v) = n /\ \A j \in 1 .. n : v[j] = batch[j]
      BY <2>5, <3>2
    <3>4. v = batch
      BY <1>1, <3>2, <3>3, SeqEqual DEF n
    <3>5. i - 1 = n
      BY <2>5
    <3> QED
      BY <3>4, <3>5 DEF v
  <2>8. tail = rest
    <3>1. \A j \in i + 1 .. Len(Waiting) : Waiting[j] \in Records
      BY <1>1, <2>5, ElementOfSeq
    <3>2. /\ tail \in Seq(Records)
          /\ Len(tail) = IF i + 1 <= Len(Waiting) THEN Len(Waiting) - (i + 1) + 1 ELSE 0
          /\ \A j \in 1 .. Len(Waiting) - (i + 1) + 1 : tail[j] = Waiting[(i + 1) + j - 1]
      BY <2>5, <3>1, SubSeqProperties
    <3> HIDE DEF tail, rest
    <3>3. Len(tail) = Len(rest)
      BY <2>3, <2>5, <3>2
    <3>4. \A j \in 1 .. Len(tail) : tail[j] = rest[j]
      <4> TAKE j \in 1 .. Len(tail)
      <4>1. tail[j] = Waiting[n + 1 + j] /\ n + 1 + j \in 1 .. n + Len(queue)
        BY <2>3, <2>5, <3>2, <3>3
      <4>2. Waiting[n + 1 + j] = queue[(n + 1 + j) - n]
        BY <2>3, <2>5, <3>3, <4>1
      <4>3. (n + 1 + j) - n = j + 1
        BY <2>5
      <4> QED
        BY <2>3, <3>3, <4>1, <4>2, <4>3
    <3> QED
      BY <2>3, <3>2, <3>3, <3>4, SeqEqual
  <2>9. Waiting' = SubSeq(Waiting, 1, i - 1) \o tail
    BY <1>3, <2>4, <2>7, <2>8, WaitingPrimed
  <2>10. Seen' = Seen
    <3>1. Gone' = Gone \cup {h}
      BY <1>1, <2>2, <2>3 DEF Gone
    <3>2. Range(queue) \ {Stop} = {h} \cup (Range(queue') \ {Stop})
      BY <1>1, <1>4, <2>2, <2>3
    <3> HIDE DEF h
    <3> QED
      BY <1>3, <3>1, <3>2, SeenParts
  <2> HIDE DEF i, tail
  <2>11. Line!Close
    BY <1>3, <2>6, <2>9, <2>10 DEF Line!Close, Waiting, tail
  <2> QED
    BY <2>11 DEF Line!Next
<1> QED
  BY <1>5, <1>6

\* Every step of the reporter is a step of the line, or leaves it alone.
LEMMA LineStep == MainInv /\ [Next]_vars => [Line!Next]_(Line!lineVars)
<1> SUFFICES ASSUME MainInv, [Next]_vars
             PROVE  [Line!Next]_(Line!lineVars)
  OBVIOUS
<1>0. TypeOK
  BY DEF MainInv, TypeInv
<1> USE DEF reporterVars, drainVars, historyVars
<1>a. ASSUME UNCHANGED <<batch, queue, Gone, posted, closed>>
      PROVE  UNCHANGED Line!lineVars
  <2>1. Waiting' = Waiting /\ Seen' = Seen
    BY <1>a, WaitingPrimed, SeenParts DEF Waiting
  <2> QED
    BY <1>a, <2>1, LineStutters
<1>1. ASSUME NEW r \in Records, LoopPut(r)
      PROVE  Line!Next
  <2>1. PutNowait(r) /\ UNCHANGED <<batch, posted, closed>> /\ fate[r] = "new"
    BY <1>1 DEF LoopPut
  <2>2. r \notin Seen
    BY <2>1 DEF MainInv, PlaceInv, Seen
  <2> QED
    BY <2>1, <2>2, PutJoins
<1>2. ASSUME NEW r \in Records, PutIgnored(r) \/ ThreadCheck(r) \/ ThreadHandoff(r)
      PROVE  UNCHANGED Line!lineVars
  <2>1. PICK f \in {"ignored", "checked", "pending"} : fate' = [fate EXCEPT ![r] = f]
    BY <1>2 DEF PutIgnored, ThreadCheck, ThreadHandoff
  <2>2. fate[r] \in {"new", "checked"} /\ UNCHANGED <<batch, queue, posted, closed>>
    BY <1>2 DEF PutIgnored, ThreadCheck, ThreadHandoff
  <2>3. Gone' = Gone
    BY <1>0, <2>1, <2>2 DEF Gone, TypeOK
  <2> QED
    BY <1>a, <2>2, <2>3
<1>3. CASE RunCallback
  <2> DEFINE r == Head(handoff)
  <2>1. PutNowait(r) /\ UNCHANGED <<batch, posted, closed>> /\ handoff # <<>>
    BY <1>3 DEF RunCallback
  <2>2. r \in Records /\ r \in Range(handoff)
    BY <1>0, <2>1, TailRange DEF TypeOK
  <2>3. r \notin Seen
    <3>1. fate[r] = "pending" /\ r \notin Range(batch) /\ r \notin Range(queue)
      BY <2>2 DEF MainInv, PlaceInv
    <3> QED
      BY <3>1 DEF Seen
  <2> QED
    BY <2>1, <2>2, <2>3, PutJoins
<1>4. CASE GetFirst
  <2>1. queue # <<>> /\ queue' = Tail(queue) /\ UNCHANGED <<fate, posted, closed>>
    BY <1>4 DEF GetFirst
  <2>2. batch = <<>>
    BY <1>4 DEF GetFirst, MainInv, ControlInv, BatchesAreBounded
  <2>3. \/ Head(queue) = Stop /\ batch' = batch
        \/ Head(queue) # Stop /\ batch' = Append(batch, Head(queue))
    <3>1. Append(<<>>, Head(queue)) = <<Head(queue)>>
      OBVIOUS
    <3> QED
      BY <1>4, <2>2, <3>1 DEF GetFirst
  <2> QED
    BY <2>1, <2>3, TakeStutters
<1>5. CASE GetNext
  <2>1. queue # <<>> /\ queue' = Tail(queue) /\ UNCHANGED <<fate, posted, closed>>
    BY <1>5 DEF GetNext
  <2>2. \/ Head(queue) = Stop /\ batch' = batch
        \/ Head(queue) # Stop /\ batch' = Append(batch, Head(queue))
    BY <1>5 DEF GetNext
  <2> QED
    BY <2>1, <2>2, TakeStutters
<1>6. CASE UNCHANGED <<batch, queue, fate, posted, closed>>
  <2>1. Gone' = Gone
    BY <1>6 DEF Gone
  <2> QED
    BY <1>6, <1>a, <2>1
<1>7. ASSUME drain = "posting",
             NEW f \in {"accepted", "discarded", "lost", "abandoned"}, Settle(f),
             UNCHANGED <<queue, closed>>, posted' = posted \o batch \/ posted' = posted
      PROVE  Line!Next
  <2>1. batch # <<>>
    BY <1>7 DEF MainInv, ControlInv, BatchesAreBounded
  <2> QED
    BY <1>7, <2>1, SettleLeaves
<1>8. CASE PostAccepted
  BY <1>7, <1>8 DEF PostAccepted, PostReturns
<1>9. CASE PostFailed
  <2>1. CASE LastAttempt
    BY <1>7, <1>9, <2>1 DEF PostFailed, PostReturns
  <2>2. CASE ~LastAttempt
    BY <1>6, <1>9, <2>2 DEF PostFailed
  <2> QED
    BY <2>1, <2>2
<1>10. CASE PostRejected
  BY <1>7, <1>10 DEF PostRejected, PostReturns
<1>11. CASE PostRaises
  BY <1>7, <1>11 DEF PostRaises
<1>12. CASE AcloseTimesOut
  <2>1. Settle("abandoned") /\ UNCHANGED <<queue, closed, posted>>
    BY <1>12 DEF AcloseTimesOut
  <2>2. CASE batch # <<>>
    BY <2>1, <2>2, SettleLeaves
  <2>3. CASE batch = <<>>
    <3>1. batch' = batch /\ InBatch = {}
      BY <2>1, <2>3, EmptyRange DEF Settle, InBatch
    <3>2. fate' = [r \in Records |-> fate[r]]
      BY <2>1, <3>1 DEF Settle
    <3>3. fate' = fate
      BY <1>0, <3>2 DEF TypeOK
    <3> QED
      BY <1>6, <2>1, <3>1, <3>3
  <2> QED
    BY <2>2, <2>3
<1>13. CASE Start \/ FlushTimeout \/ BackoffEnds \/ AcloseFinishes \/ UNCHANGED vars
  BY <1>6, <1>13 DEF Start, FlushTimeout, BackoffEnds, AcloseFinishes, vars
<1> QED
  BY <1>1, <1>2, <1>3, <1>4, <1>5, <1>8, <1>9, <1>10, <1>11, <1>12, <1>13, AcloseCloses
  DEF Next, Put, Handoff, Collect, Post, Close

\* The reporter implements the abstract line: records are delivered in the order in
\* which they entered the queue, in batches that leave whole and from the head, no
\* batch twice whatever is retried, and closing evicts at most one record.
THEOREM Implements == Spec => ImplementsLine
<1>1. Init => Line!Init
  <2> SUFFICES ASSUME Init PROVE Line!Init
    OBVIOUS
  <2>1. Range(<<>>) = {} /\ RecordsOf(<<>>) = <<>> /\ <<>> \o <<>> = <<>>
    BY EmptyRange DEF RecordsOf
  <2>2. batch \o RecordsOf(queue) = <<>>
    BY <2>1 DEF Init
  <2>3. Seen = {}
    BY <2>1 DEF Init, Seen
  <2> QED
    BY <2>2, <2>3 DEF Init, Line!Init
<1> QED
  BY <1>1, MainInit, MainStep, LineStep, PTL DEF Spec, ImplementsLine, Line!Spec
=============================================================================
