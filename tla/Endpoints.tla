------------------------------ MODULE Endpoints ------------------------------
(***************************************************************************)
(* The routes of fastrag/server.py beside chat: /predict/, the             *)
(* unstructured predictions, /models, and /capabilities/ for those that    *)
(* only read.  A handler checks the request and the hook, awaits the hook  *)
(* and turns what it returns into the answer; format_prediction_response   *)
(* is PredictionResponse's.                                                *)
(*                                                                         *)
(* A body of text is one that utf8 and latin1 write differently: bytes of  *)
(* latin1 are no utf8, while any bytes are some latin1 text.               *)
(***************************************************************************)
EXTENDS PredictionResponse

VARIABLES
    request,    \* the request, fixed
    present,    \* custom.py has the route's hook, fixed
    given,      \* what the hook was called with, "" before
    raised,     \* what the hook raised, "" for nothing
    reply       \* how an unstructured answer is written
evars == <<vars, request, present, given, raised, reply>>

Charsets == {"utf8", "latin1"}
\* UploadFile X and raw body of /predict/; a "crash" is a payload pandas cannot read
\* for another reason than its syntax.
Payloads == [route : {"predict"}, X : {"absent", "empty", "full"}, body : {"empty", "full"},
             csv : {"good", "bad", "crash"}]
\* body is the charset the client wrote its text in, or "raw".  The rest is its
\* Content-Type: an empty mimetype or charset is one the header does not have, "Text" is
\* a text's type not all in lower case, and a charset may be given in quotes.
Documented == [route : {"unstructured"}, target : {"unstructured", "textgeneration", "regression"},
               body : Charsets \cup {"raw"}, mimetype : {"", "text", "Text", "binary"},
               charset : Charsets \cup {"", "unknown"}, quoted : BOOLEAN]
Listings == [route : {"models"}, target : {"textgeneration", "agenticworkflow", "regression"}]
              \cup [route : {"capabilities"}]

\* What score_unstructured may return: data with what its dict has, where "default"
\* is a key it does not have; "bad" is no pair, no dict, or neither str nor bytes.
Results == [data : {"text", "none", "bytes", "bad"}, mimetype : {"default", "none", "set"},
            charset : Charsets \cup {"default", "none", "unknown"}]

\* What a hook may raise: an ApiError, which names its status, or anything else.
Raisable == {"400", "404", Unprocessable, "501", ServerError, "other"}

NoReply == [written |-> "", typed |-> FALSE, charset |-> ""]

EndpointsInit ==
    /\ \/ /\ metadata \in Metadata /\ frame \in Frames
          /\ request = [route |-> "predict", X |-> "full", body |-> "empty", csv |-> "good"]
          /\ present = TRUE
       \/ /\ metadata = CHOOSE m \in Metadata : m.targetType = "other"
          /\ frame = [columns |-> <<>>, rows |-> <<>>]
          /\ request \in Payloads \cup Documented \cup Listings
          /\ present \in BOOLEAN
    /\ given = "" /\ raised = ""
    /\ reply = NoReply
    /\ response = Failure("none")
    /\ stage = "received"

-----------------------------------------------------------------------------
(* What a request is refused for, in the order of the code; "" is nothing *)

\* read_structured_payload, read_csv_or_raise
PayloadError(r) ==
    CASE r.X = "empty" -> "400"
      [] r.X = "absent" /\ r.body = "empty" -> Unprocessable
      [] OTHER -> CASE r.csv = "bad" -> "400"
                    [] r.csv = "crash" -> ServerError
                    [] OTHER -> ""

\* A variant of HookError: the route relies on the adapter to miss its hook.
HookErrorUnchecked == ""

\* _ensure_hook_available
HookError == IF present THEN "" ELSE "501"

\* _is_text_mimetype looks at the letters as they are.
TextMimetype(mimetype) == mimetype \in {"", "text"}

\* parse_content_type: quotes stay part of the charset, which then is no codec's name.
ParsedCharset(r) == IF r.quoted THEN "unknown" ELSE r.charset

\* A text without a charset is utf8.
CharsetOf(r) == IF ParsedCharset(r) = "" THEN "utf8" ELSE ParsedCharset(r)

\* bytes.decode: "" raises, in an unknown charset or where the bytes are not of it.
Decoded(body, charset) ==
    IF charset = body THEN "text"
    ELSE IF charset = "latin1" THEN "garbled" ELSE ""

\* resolve_incoming_unstructured_data
Incoming(r) == IF TextMimetype(r.mimetype) THEN Decoded(r.body, CharsetOf(r)) ELSE "bytes"

FirstOf(error, next) == IF error # "" THEN error ELSE next

Refusal(r) ==
    CASE r.route = "predict" -> FirstOf(PayloadError(r), HookError)
      [] r.route = "unstructured" ->
            FirstOf(IF r.target \in {"unstructured", "textgeneration"} THEN "" ELSE Unprocessable,
                    FirstOf(HookError, IF Incoming(r) = "" THEN "400" ELSE ""))
      [] r.route = "models" ->
            FirstOf(IF r.target \in {"textgeneration", "agenticworkflow"} THEN "" ELSE "404", HookError)
      [] OTHER -> ""

-----------------------------------------------------------------------------
(* The handlers *)

Answer(outcome) == response' = Failure(outcome) /\ stage' = "answered"

Refuse ==
    /\ stage = "received"
    /\ Refusal(request) # ""
    /\ Answer(Refusal(request))
    /\ UNCHANGED <<metadata, frame, request, present, given, raised, reply>>

\* Health, info and capabilities call no hook.
ReadOnly ==
    /\ stage = "received"
    /\ request.route = "capabilities"
    /\ Answer(Ok)
    /\ UNCHANGED <<metadata, frame, request, present, given, raised, reply>>

\* The hook is awaited; require() raises for one that is not there.
CallHook ==
    /\ stage = "received"
    /\ request.route # "capabilities" /\ Refusal(request) = ""
    /\ IF present
       THEN /\ given' = IF request.route = "unstructured" THEN Incoming(request) ELSE "call"
            /\ stage' = "called"
            /\ UNCHANGED response
       ELSE UNCHANGED given /\ Answer(ServerError)
    /\ UNCHANGED <<metadata, frame, request, present, raised, reply>>

\* _await_or_api_error: an ApiError of the hook keeps its status, whatever else it
\* raises is a 500.
StatusOf(error) == IF error = "other" THEN ServerError ELSE error

HookRaises ==
    /\ stage = "called"
    /\ \E error \in Raisable : raised' = error /\ Answer(StatusOf(error))
    /\ UNCHANGED <<metadata, frame, request, present, given, reply>>

HookScores ==
    /\ stage = "called"
    /\ request.route = "predict"
    /\ stage' = "scored"
    /\ UNCHANGED <<metadata, frame, response, request, present, given, raised, reply>>

\* The models are answered as the hook gives them.
HookLists ==
    /\ stage = "called"
    /\ request.route = "models"
    /\ Answer(Ok)
    /\ UNCHANGED <<metadata, frame, request, present, given, raised, reply>>

\* str.encode raises for None and for a charset that is unknown.
Encodes(result) == result.data = "text" => result.charset \notin {"none", "unknown"}

\* A variant of Outgoing: the answer is labelled with the charset of the request.
OutgoingAsked(result) ==
    [written |-> IF result.data = "text" THEN
                     IF result.charset = "default" THEN "utf8" ELSE result.charset ELSE "",
     typed |-> result.mimetype # "none",
     charset |-> CharsetOf(request)]

\* resolve_outgoing_unstructured_data and the header made of it; bytes have been
\* written by the hook, which may say in what.
Outgoing(result) ==
    LET charset == IF result.charset = "default"
                   THEN IF result.data = "bytes" THEN "" ELSE "utf8"
                   ELSE result.charset
    IN  [written |-> IF result.data = "text" THEN charset ELSE "",
         typed   |-> result.mimetype # "none",
         charset |-> IF result.mimetype = "none" \/ charset = "none" THEN "" ELSE charset]

HookAnswers ==
    /\ stage = "called"
    /\ request.route = "unstructured"
    /\ \E result \in Results :
          IF result.data = "bad" \/ ~Encodes(result)
          THEN Answer(ServerError) /\ UNCHANGED reply
          ELSE Answer(Ok) /\ reply' = Outgoing(result)
    /\ UNCHANGED <<metadata, frame, request, present, given, raised>>

FormatScored == Predict /\ UNCHANGED <<request, present, given, raised, reply>>

EndpointsNext == Refuse \/ ReadOnly \/ CallHook \/ HookRaises \/ HookScores \/ HookLists
                   \/ HookAnswers \/ FormatScored

EndpointsSpec == EndpointsInit /\ [][EndpointsNext]_evars

-----------------------------------------------------------------------------
(* Properties *)

\* The client has written a text in the charset it names, or in utf8.
Honest(r) == r.body = IF r.charset = "" THEN "utf8" ELSE r.charset

\* A text reaches the hook as it was written, as undecoded bytes, or not at all, but
\* never as another text, unless the client declared another charset than its own; and
\* where the Content-Type is written as the code reads it, the type in lower case and
\* the charset without quotes, it reaches the hook as a text and is not refused.  A
\* text the hook returns is sent in the charset the answer names, whichever of the two
\* it was asked in.
TextSurvives ==
    /\ request.route = "unstructured" /\ Honest(request) =>
          /\ given # "garbled"
          /\ TextMimetype(request.mimetype) /\ ~request.quoted =>
                given \in {"", "text"} /\ Refusal(request) # "400"
    /\ reply.written # "" /\ reply.typed => reply.charset = reply.written

\* A failed answer blames the one at fault.  An error the hook names itself keeps its
\* status, anything else it raises is a 500.  Without it a request is refused with a
\* 4xx before any hook runs, a missing hook is a 501, and a 500 says that a hook was
\* called or that the payload broke the reader.  Of the model's frames only one
\* without columns or with a list where a number belongs is a 500; every other misfit
\* is a 422.
FaultsAreAttributed ==
    /\ ErrorsAreClassified
    /\ stage \in {"answered", "formatted"} =>
        IF raised # "" THEN given # "" /\ response.outcome = StatusOf(raised)
        ELSE CASE response.outcome \in {"400", "404"} -> given = ""
               [] response.outcome = "501" -> given = "" /\ ~present
               [] response.outcome = ServerError ->
                     given # "" \/ (request.route = "predict" /\ request.csv = "crash")
               [] response.outcome = Unprocessable -> given # "" => stage = "formatted"
               [] OTHER -> given # "" \/ request.route = "capabilities"
=============================================================================
