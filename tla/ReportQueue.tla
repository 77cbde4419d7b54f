---------------------------- MODULE ReportQueue ----------------------------
(***************************************************************************)
(* What a reporter promises to the request path, without its queue, its    *)
(* batches, its sentinel and its retries: a record joins the line at most  *)
(* once, the head of the line leaves it in groups, delivered or lost       *)
(* together, and closing may evict one record, wherever it stands.         *)
(***************************************************************************)
EXTENDS Integers, Sequences, FiniteSets, Functions

CONSTANTS
    Records,
    Group       \* in Nat \ {0}: the most records that leave the line together

VARIABLES
    line,       \* the records that have joined and not left, oldest first
    delivered,  \* the records delivered, in the order of their delivery
    known,      \* the records that have joined or have been turned away
    closing     \* the reporter has been asked to close

lineVars == <<line, delivered, known, closing>>

Init ==
    /\ line = <<>>
    /\ delivered = <<>>
    /\ known = {}
    /\ closing = FALSE

Join(r) ==
    /\ r \notin known
    /\ known' = known \cup {r}
    /\ line' = Append(line, r)
    /\ UNCHANGED <<delivered, closing>>

TurnAway(r) ==
    /\ r \notin known
    /\ known' = known \cup {r}
    /\ UNCHANGED <<line, delivered, closing>>

\* The first n records leave the line together.
LeaveTogether(n) ==
    /\ n <= Len(line)
    /\ line' = SubSeq(line, n + 1, Len(line))

Deliver(n) ==
    /\ LeaveTogether(n)
    /\ delivered' = delivered \o SubSeq(line, 1, n)
    /\ UNCHANGED <<known, closing>>

Lose(n) ==
    /\ LeaveTogether(n)
    /\ UNCHANGED <<delivered, known, closing>>

\* Closing happens once and evicts at most one record.
Close ==
    /\ ~closing
    /\ closing' = TRUE
    /\ \/ UNCHANGED line
       \/ \E i \in DOMAIN line :
             line' = SubSeq(line, 1, i - 1) \o SubSeq(line, i + 1, Len(line))
    /\ UNCHANGED <<delivered, known>>

Next ==
    \/ \E r \in Records : Join(r) \/ TurnAway(r)
    \/ \E n \in 1 .. Group : Deliver(n) \/ Lose(n)
    \/ Close

Spec == Init /\ [][Next]_lineVars
=============================================================================
