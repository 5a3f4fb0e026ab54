------------------------------ MODULE ApiClient ------------------------------
(***************************************************************************)
(* Requests of the Kaltura client: the retry loop and the classification   *)
(* of answers in src/src/api/kaltura_api_client.cpp over the transport of  *)
(* src/src/api/qt_http_transport.cpp.                                      *)
(*                                                                         *)
(* Every request is a chain of callbacks on the Qt event loop.  Several    *)
(* are in flight at once; each has a reply with a timeout of its own, or   *)
(* waits to be sent again.  A request keeps what it needs alive, so it     *)
(* goes on when the client is destroyed.                                   *)
(*                                                                         *)
(* Left out: URLs, forms and the values of fields.  A body is too large,   *)
(* no JSON object, an API error, or an object with some of the fields that *)
(* the operation reads; fields are absent if absent or malformed.          *)
(***************************************************************************)
EXTENDS Naturals

CONSTANTS
    Request,   \* the calls made of the client
    Retries,   \* ClientConfig::maximumRetries
    NoReply    \* no answer yet

ASSUME RetriesAssumption == Retries \in 0..10  \* the constructor clamps it

Operation == {"validateSession", "listLiveEntries", "getStreamUrls", "getStreamKeys",
              "getStreamConfiguration"}

(* The fields an operation looks for in the object.  "items" says that all *)
(* entries are objects with an id, "rtmpUrl" and "otherUrl" stand for the  *)
(* four RTMP and RTMPS URLs and for the rest of them.                      *)
Fields(o) ==
    CASE o = "validateSession"        -> {"partnerId", "expiry", "sessionType"}
      [] o = "listLiveEntries"        -> {"objects", "totalCount", "items"}
      [] o = "getStreamUrls"          -> {"rtmpUrl", "otherUrl"}
      [] o = "getStreamKeys"          -> {"rtmpKey", "srtKey"}
      [] o = "getStreamConfiguration" -> {"rtmpUrl", "rtmpKey"}

(* Whether an operation finds its model among the fields.                  *)
validateSession(fields)        == {"partnerId", "expiry", "sessionType"} \subseteq fields
listLiveEntries(fields)        == {"objects", "totalCount", "items"} \subseteq fields
getStreamUrls(fields)          == fields \cap {"rtmpUrl", "otherUrl"} # {}
getStreamKeys(fields)          == fields \cap {"rtmpKey", "srtKey"} # {}
getStreamConfiguration(fields) == {"rtmpUrl", "rtmpKey"} \subseteq fields

Body   == {"tooLarge", "invalid", "apiError", "object"}
Result == {"none", "model", "InvalidRequest", "Timeout", "Network", "Http",
           "InvalidResponse", "InvalidJson", "Api"}

(* What QtHttpTransport makes of a reply.  Status "none" is 0, "transient" *)
(* is 408, 429 or 5xx, "ok" is 2xx.  Qt reports a 4xx and a 5xx as errors  *)
(* too; a reply may fail after its status has arrived.                     *)
Answer(status, failed, body, fields) ==
    [timedOut |-> FALSE, status |-> status, failed |-> failed, body |-> body, fields |-> fields]
TimedOut == [Answer("none", FALSE, "invalid", {}) EXCEPT !.timedOut = TRUE]
Lost     == {Answer(status, TRUE, "invalid", {}) : status \in {"none", "ok"}}
Refused  == {Answer("transient", TRUE, "invalid", {}), Answer("other", TRUE, "invalid", {}),
             Answer("other", FALSE, "invalid", {})}
Answered(o) == {Answer("ok", FALSE, body, {}) : body \in Body \ {"object"}}
                 \cup {Answer("ok", FALSE, "object", fields) : fields \in SUBSET Fields(o)}
Response(o) == {TimedOut} \cup Lost \cup Refused \cup Answered(o)

VARIABLES
    operation,  \* what is asked for
    phase,      \* where a request is: its reply is open, or it waits to retry
    attempt,    \* RequestState::attempt
    reply,      \* the response of the last attempt
    result      \* what the completion was called with

vars == <<operation, phase, attempt, reply, result>>

Phase == {"unused", "sent", "waiting", "done"}

TypeOK ==
    /\ operation \in [Request -> Operation]
    /\ phase \in [Request -> Phase]
    /\ attempt \in [Request -> 0..(Retries + 1)]
    /\ \A r \in Request : reply[r] \in Response(operation[r]) \cup {NoReply}
    /\ result \in [Request -> Result]

Init ==
    /\ operation \in [Request -> Operation]
    /\ phase = [r \in Request |-> "unused"]
    /\ attempt = [r \in Request |-> 0]
    /\ reply = [r \in Request |-> NoReply]
    /\ result = [r \in Request |-> "none"]

-----------------------------------------------------------------------------
IsRetryable(response) ==
    response.timedOut \/ response.status \in {"none", "transient"}

(* What an operation makes of the object that dispatch passes on.          *)
Model(o, fields) ==
    CASE o = "validateSession"        -> validateSession(fields)
      [] o = "listLiveEntries"        -> listLiveEntries(fields)
      [] o = "getStreamUrls"          -> getStreamUrls(fields)
      [] o = "getStreamKeys"          -> getStreamKeys(fields)
      [] o = "getStreamConfiguration" -> getStreamConfiguration(fields)

(* The order of the checks in dispatch, then the operation's own.          *)
Outcome(o, response) ==
    CASE response.timedOut                              -> "Timeout"
      [] ~response.timedOut /\ (response.status = "none" \/ response.failed) -> "Network"
      [] ~response.failed /\ response.status \in {"transient", "other"} -> "Http"
      [] ~response.failed /\ response.status = "ok" ->
           CASE response.body = "tooLarge"   -> "InvalidResponse"
             [] response.body = "invalid"    -> "InvalidJson"
             [] response.body = "apiError"   -> "Api"
             [] response.body = "object" ->
                  IF Model(o, response.fields) THEN "model" ELSE "InvalidResponse"

(* dispatch: one attempt, with a new reply and a new timeout.              *)
Dispatch(r) ==
    /\ phase' = [phase EXCEPT ![r] = "sent"]
    /\ attempt' = [attempt EXCEPT ![r] = @ + 1]
    /\ reply' = [reply EXCEPT ![r] = NoReply]

(* A call with a bad session, entry or page, or a client without an HTTPS  *)
(* service, completes before it returns.                                   *)
Reject(r) ==
    /\ phase[r] = "unused"
    /\ phase' = [phase EXCEPT ![r] = "done"]
    /\ result' = [result EXCEPT ![r] = "InvalidRequest"]
    /\ UNCHANGED <<operation, attempt, reply>>

Call(r) ==
    /\ phase[r] = "unused"
    /\ Dispatch(r)
    /\ UNCHANGED <<operation, result>>

\* bug: one retry too many
FinishedOnceMore(r, response) ==
    /\ reply' = [reply EXCEPT ![r] = response]
    /\ IF IsRetryable(response) /\ attempt[r] <= Retries + 1
       THEN phase' = [phase EXCEPT ![r] = "waiting"] /\ UNCHANGED result
       ELSE /\ phase' = [phase EXCEPT ![r] = "done"]
            /\ result' = [result EXCEPT ![r] = Outcome(operation[r], response)]
    /\ UNCHANGED <<operation, attempt>>

\* bug: the error of the first attempt is reported, and the retry too
FinishedReportingRetries(r, response) ==
    /\ reply' = [reply EXCEPT ![r] = response]
    /\ result' = [result EXCEPT ![r] = Outcome(operation[r], response)]
    /\ phase' = [phase EXCEPT ![r] = IF IsRetryable(response) /\ attempt[r] <= Retries
                                     THEN "waiting" ELSE "done"]
    /\ UNCHANGED <<operation, attempt>>

\* bug: a transient answer is final
FinishedAtOnce(r, response) ==
    /\ reply' = [reply EXCEPT ![r] = response]
    /\ phase' = [phase EXCEPT ![r] = "done"]
    /\ result' = [result EXCEPT ![r] = Outcome(operation[r], response)]
    /\ UNCHANGED <<operation, attempt>>

(* The reply emits finished: try again later, or complete.                 *)
Finished(r, response) ==
    /\ reply' = [reply EXCEPT ![r] = response]
    /\ IF IsRetryable(response) /\ attempt[r] <= Retries
       THEN phase' = [phase EXCEPT ![r] = "waiting"] /\ UNCHANGED result
       ELSE /\ phase' = [phase EXCEPT ![r] = "done"]
            /\ result' = [result EXCEPT ![r] = Outcome(operation[r], response)]
    /\ UNCHANGED <<operation, attempt>>

(* The network comes to an end with the reply.                             *)
ReplyFinishes(r) ==
    /\ phase[r] = "sent"
    /\ \E response \in Response(operation[r]) \ {TimedOut} : Finished(r, response)

(* The timeout aborts the reply, which then emits finished.  A reply that  *)
(* has finished ignores the abort of a timer that still fires.             *)
ReplyTimesOut(r) ==
    /\ phase[r] = "sent"
    /\ Finished(r, TimedOut)

Retry(r) ==
    /\ phase[r] = "waiting"
    /\ Dispatch(r)
    /\ UNCHANGED <<operation, result>>

-----------------------------------------------------------------------------
Next == \E r \in Request :
            \/ Reject(r)
            \/ Call(r)
            \/ ReplyFinishes(r)
            \/ ReplyTimesOut(r)
            \/ Retry(r)

Spec == Init /\ [][Next]_vars

(* Qt's timers fire: a reply that stays open is aborted, a retry is sent.  *)
(* The network may never answer.                                           *)
RequestFair(r) == WF_vars(ReplyTimesOut(r)) /\ WF_vars(Retry(r))
FairSpec == Spec /\ \A r \in Request : RequestFair(r)

-----------------------------------------------------------------------------
(* Refinement: a request with all its attempts, timeouts and retries is    *)
(* one asynchronous call: it completes exactly once.                       *)
Status(r) ==
    CASE phase[r] = "unused" -> "unused"
      [] phase[r] \in {"sent", "waiting"} /\ result[r] = "none" -> "pending"
      [] result[r] = "model" -> "model"
      [] result[r] \notin {"none", "model"} -> "error"

Calls == INSTANCE AsyncCalls WITH status <- [r \in Request |-> Status(r)]
CallsSpec == Calls!Spec

(* What docs/api-client.md:30 says is retried: a timeout, 408, 429, 5xx,   *)
(* and a network failure, before or after the status line.                 *)
MayPass(response) ==
    response.timedOut \/ response.status = "transient" \/ response \in Lost

CutOff(response) == response.status = "ok" /\ response.failed

(* The caller never sees an earlier attempt's answer as the result, and a  *)
(* request that fails for a reason that may pass used all its attempts.    *)
(* One network failure is an exception, against that document: isRetryable *)
(* looks at the status, so a connection cut off after a status line below  *)
(* 500 is reported as "Network" by the attempt it happened to.             *)
ResultIsOfLastAttempt ==
    \A r \in Request : result[r] \notin {"none", "InvalidRequest"} =>
        /\ phase[r] = "done"
        /\ result[r] = Outcome(operation[r], reply[r])
        /\ MayPass(reply[r]) => attempt[r] = Retries + 1 \/ CutOff(reply[r])

=============================================================================
