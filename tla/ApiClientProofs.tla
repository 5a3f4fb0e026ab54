--------------------------- MODULE ApiClientProofs ---------------------------
(* Proofs about ApiClient, for any number of requests and retries: the     *)
(* result of a call, that its steps are those of AsyncCalls, and that it   *)
(* completes.                                                              *)
EXTENDS ApiClient, TLAPS

(* What makes ResultIsOfLastAttempt inductive: a request that is not done  *)
(* has no result, and only one with attempts left waits for another.       *)
AttemptInv ==
    \A r \in Request :
       /\ phase[r] = "unused" => attempt[r] = 0
       /\ phase[r] = "waiting" => attempt[r] <= Retries
       /\ phase[r] = "done" <=> result[r] # "none"

Inv ==
    /\ TypeOK
    /\ DOMAIN reply = Request
    /\ AttemptInv
    /\ ResultIsOfLastAttempt

-----------------------------------------------------------------------------
(* Responses.                                                              *)

LEMMA ResponseFields ==
    ASSUME NEW o, NEW response \in Response(o)
    PROVE  /\ response.timedOut \in BOOLEAN
           /\ response.failed \in BOOLEAN
           /\ response.status \in {"none", "ok", "transient", "other"}
           /\ response.body \in Body
           /\ response.timedOut => response.status = "none"
  <1>1. ASSUME NEW status \in {"none", "ok", "transient", "other"}, NEW failed \in BOOLEAN,
               NEW body \in Body, NEW fields, response = Answer(status, failed, body, fields)
        PROVE  /\ response.timedOut \in BOOLEAN
               /\ response.failed \in BOOLEAN
               /\ response.status \in {"none", "ok", "transient", "other"}
               /\ response.body \in Body
               /\ ~response.timedOut
    BY <1>1 DEF Answer
  <1>2. "invalid" \in Body /\ "object" \in Body
    BY DEF Body
  <1>3. CASE response = TimedOut
    <2>1. response = [timedOut |-> TRUE, status |-> "none", failed |-> FALSE,
                      body |-> "invalid", fields |-> {}]
      BY <1>3 DEF TimedOut, Answer
    <2> QED  BY <1>2, <2>1
  <1>4. CASE response \in Lost
    <2>1. PICK status \in {"none", "ok"} : response = Answer(status, TRUE, "invalid", {})
      BY <1>4 DEF Lost
    <2> QED  BY <1>1, <1>2, <2>1
  <1>5. CASE response \in Refused
    <2>1. PICK status \in {"transient", "other"}, failed \in BOOLEAN :
             response = Answer(status, failed, "invalid", {})
      BY <1>5 DEF Refused
    <2> QED  BY <1>1, <1>2, <2>1
  <1>6. CASE response \in Answered(o)
    <2>1. PICK body \in Body, fields \in SUBSET Fields(o) :
             response = Answer("ok", FALSE, body, fields)
      BY <1>2, <1>6 DEF Answered
    <2> QED  BY <1>1, <2>1
  <1> QED  BY <1>3, <1>4, <1>5, <1>6 DEF Response

(* Every response has an outcome, whatever the operation.                  *)
LEMMA OutcomeType ==
    ASSUME NEW o, NEW p, NEW response \in Response(p)
    PROVE  Outcome(o, response) \in Result \ {"none", "InvalidRequest"}
  <1>1. /\ response.timedOut \in BOOLEAN
        /\ response.failed \in BOOLEAN
        /\ response.status \in {"none", "ok", "transient", "other"}
        /\ response.body \in Body
        /\ response.timedOut => response.status = "none"
    BY ResponseFields
  <1>2. CASE response.timedOut
    BY <1>1, <1>2 DEF Outcome, Result
  <1>3. CASE ~response.timedOut /\ (response.status = "none" \/ response.failed)
    BY <1>3 DEF Outcome, Result
  <1>4. CASE ~response.timedOut /\ ~response.failed /\ response.status \in {"transient", "other"}
    BY <1>4 DEF Outcome, Result
  <1>5. CASE ~response.timedOut /\ ~response.failed /\ response.status = "ok"
    <2>1. Outcome(o, response) =
             CASE response.body = "tooLarge"   -> "InvalidResponse"
               [] response.body = "invalid"    -> "InvalidJson"
               [] response.body = "apiError"   -> "Api"
               [] response.body = "object" ->
                    IF Model(o, response.fields) THEN "model" ELSE "InvalidResponse"
      BY <1>5 DEF Outcome
    <2> QED  BY <1>1, <2>1 DEF Body, Result
  <1> QED  BY <1>1, <1>2, <1>3, <1>4, <1>5

(* The retry rule covers all that may pass but what was cut off.           *)
LEMMA MayPassIsRetried ==
    ASSUME NEW response, MayPass(response), ~CutOff(response)
    PROVE  IsRetryable(response)
  <1>1. CASE response \in Lost
    <2>1. PICK status \in {"none", "ok"} : response = Answer(status, TRUE, "invalid", {})
      BY <1>1 DEF Lost
    <2>2. response.status = status /\ response.failed
      BY <2>1 DEF Answer
    <2> QED  BY <2>2 DEF CutOff, IsRetryable
  <1> QED  BY <1>1 DEF MayPass, IsRetryable

-----------------------------------------------------------------------------
LEMMA InitInv == Init => Inv
  BY RetriesAssumption
  DEF Init, Inv, TypeOK, AttemptInv, ResultIsOfLastAttempt, Phase, Result

(* An attempt, of a request that has one left.                             *)
LEMMA DispatchInv ==
    ASSUME Inv, NEW r \in Request, Dispatch(r), UNCHANGED <<operation, result>>,
           phase[r] \in {"unused", "waiting"}
    PROVE  Inv'
  <1>1. /\ phase' = [phase EXCEPT ![r] = "sent"]
        /\ attempt' = [attempt EXCEPT ![r] = attempt[r] + 1]
        /\ reply' = [reply EXCEPT ![r] = NoReply]
    BY DEF Dispatch
  <1>2. /\ attempt[r] \in Nat /\ attempt[r] <= Retries /\ result[r] = "none"
        /\ attempt[r] + 1 \in 0 .. (Retries + 1)
    BY RetriesAssumption DEF Inv, TypeOK, AttemptInv
  <1>3. phase' \in [Request -> Phase] /\ DOMAIN reply' = Request
    BY <1>1 DEF Inv, TypeOK, Phase
  <1>4. TypeOK'
    <2>1. attempt' \in [Request -> 0 .. (Retries + 1)]
      BY <1>1, <1>2 DEF Inv, TypeOK
    <2>2. \A q \in Request : reply'[q] \in Response(operation'[q]) \cup {NoReply}
      BY <1>1 DEF Inv, TypeOK
    <2>3. operation' \in [Request -> Operation] /\ result' \in [Request -> Result]
      BY DEF Inv, TypeOK
    <2> QED  BY <1>3, <2>1, <2>2, <2>3 DEF TypeOK
  <1>5. AttemptInv' /\ ResultIsOfLastAttempt'
    BY <1>1, <1>2 DEF Inv, TypeOK, AttemptInv, ResultIsOfLastAttempt
  <1> QED  BY <1>3, <1>4, <1>5 DEF Inv

LEMMA FinishedInv ==
    ASSUME Inv, NEW r \in Request, phase[r] = "sent",
           NEW response \in Response(operation[r]), Finished(r, response)
    PROVE  Inv'
  <1>1. reply' = [reply EXCEPT ![r] = response] /\ UNCHANGED <<operation, attempt>>
    BY DEF Finished
  <1>2. Outcome(operation[r], response) \in Result \ {"none", "InvalidRequest"}
    BY OutcomeType
  <1>3. \A q \in Request : reply'[q] \in Response(operation'[q]) \cup {NoReply}
    BY <1>1 DEF Inv, TypeOK
  <1>4. result[r] = "none" /\ attempt[r] \in 0 .. (Retries + 1)
    BY DEF Inv, TypeOK, AttemptInv
  <1>5. CASE IsRetryable(response) /\ attempt[r] <= Retries
    <2>1. phase' = [phase EXCEPT ![r] = "waiting"] /\ UNCHANGED result
      BY <1>5 DEF Finished
    <2>2. TypeOK' /\ DOMAIN reply' = Request
      BY <1>1, <1>3, <2>1 DEF Inv, TypeOK, Phase
    <2>3. AttemptInv' /\ ResultIsOfLastAttempt'
      BY <1>1, <1>4, <1>5, <2>1 DEF Inv, TypeOK, AttemptInv, ResultIsOfLastAttempt
    <2> QED  BY <2>2, <2>3 DEF Inv
  <1>6. CASE ~(IsRetryable(response) /\ attempt[r] <= Retries)
    <2>1. /\ phase' = [phase EXCEPT ![r] = "done"]
          /\ result' = [result EXCEPT ![r] = Outcome(operation[r], response)]
      BY <1>6 DEF Finished
    <2>2. TypeOK' /\ DOMAIN reply' = Request
      BY <1>1, <1>2, <1>3, <2>1 DEF Inv, TypeOK, Phase
    <2>3. AttemptInv'
      BY <1>1, <1>2, <2>1 DEF Inv, TypeOK, AttemptInv
    <2>4. MayPass(response) => attempt[r] = Retries + 1 \/ CutOff(response)
      BY <1>4, <1>6, MayPassIsRetried, RetriesAssumption
    <2>5. ASSUME NEW q \in Request, result'[q] \notin {"none", "InvalidRequest"}
          PROVE  /\ phase'[q] = "done"
                 /\ result'[q] = Outcome(operation'[q], reply'[q])
                 /\ MayPass(reply'[q]) => attempt'[q] = Retries + 1 \/ CutOff(reply'[q])
      <3>1. CASE q = r
        BY <1>1, <2>1, <2>4, <3>1 DEF Inv, TypeOK
      <3>2. CASE q # r
        BY <1>1, <2>1, <2>5, <3>2 DEF Inv, TypeOK, ResultIsOfLastAttempt
      <3> QED  BY <3>1, <3>2
    <2> QED  BY <2>2, <2>3, <2>5 DEF Inv, ResultIsOfLastAttempt
  <1> QED  BY <1>5, <1>6

LEMMA RejectInv ==
    ASSUME Inv, NEW r \in Request, Reject(r)
    PROVE  Inv'
  <1>1. /\ phase[r] = "unused" /\ phase' = [phase EXCEPT ![r] = "done"]
        /\ result' = [result EXCEPT ![r] = "InvalidRequest"]
        /\ UNCHANGED <<operation, attempt, reply>>
    BY DEF Reject
  <1>2. TypeOK' /\ DOMAIN reply' = Request
    BY <1>1 DEF Inv, TypeOK, Phase, Result
  <1>3. AttemptInv' /\ ResultIsOfLastAttempt'
    BY <1>1 DEF Inv, TypeOK, AttemptInv, ResultIsOfLastAttempt
  <1> QED  BY <1>2, <1>3 DEF Inv

LEMMA StepInv == Inv /\ [Next]_vars => Inv'
  <1> SUFFICES ASSUME Inv, [Next]_vars PROVE Inv'
    OBVIOUS
  <1>1. ASSUME NEW r \in Request, Reject(r) PROVE Inv'
    BY <1>1, RejectInv
  <1>2. ASSUME NEW r \in Request, Call(r) \/ Retry(r) PROVE Inv'
    BY <1>2, DispatchInv DEF Call, Retry
  <1>3. ASSUME NEW r \in Request, ReplyFinishes(r) PROVE Inv'
    BY <1>3, FinishedInv DEF ReplyFinishes
  <1>4. ASSUME NEW r \in Request, ReplyTimesOut(r) PROVE Inv'
    BY <1>4, FinishedInv DEF ReplyTimesOut, Response
  <1>5. CASE UNCHANGED vars
    BY <1>5 DEF vars, Inv, TypeOK, AttemptInv, ResultIsOfLastAttempt
  <1> QED  BY <1>1, <1>2, <1>3, <1>4, <1>5 DEF Next

-----------------------------------------------------------------------------
(* The steps of a request as those of one asynchronous call.               *)

calls == [r \in Request |-> Status(r)]

LEMMA StatusOf ==
    ASSUME Inv, NEW r \in Request
    PROVE  /\ phase[r] = "unused" => Status(r) = "unused"
           /\ phase[r] \in {"sent", "waiting"} => Status(r) = "pending"
           /\ phase[r] = "done" => Status(r) \in {"model", "error"}
  <1>1. /\ phase[r] \in Phase /\ (phase[r] = "done" <=> result[r] # "none")
    BY DEF Inv, TypeOK, AttemptInv
  <1>2. CASE phase[r] = "unused"
    BY <1>1, <1>2 DEF Status
  <1>3. CASE phase[r] \in {"sent", "waiting"}
    BY <1>1, <1>3 DEF Status
  <1>4. CASE phase[r] = "done" /\ result[r] = "model"
    BY <1>4 DEF Status
  <1>5. CASE phase[r] = "done" /\ result[r] # "model"
    BY <1>1, <1>5 DEF Status
  <1> QED  BY <1>1, <1>2, <1>3, <1>4, <1>5 DEF Phase

(* A step of r leaves the other calls as they are.                         *)
LEMMA OtherStatus ==
    ASSUME Inv, Inv', NEW r \in Request, NEW p, NEW q \in Request \ {r},
           phase' = [phase EXCEPT ![r] = p],
           result' = result \/ \E x : result' = [result EXCEPT ![r] = x]
    PROVE  Status(q)' = Status(q)
  <1>1. phase'[q] = phase[q] /\ result'[q] = result[q]
    BY DEF Inv, TypeOK
  <1> QED  BY <1>1 DEF Status

LEMMA CallsStep == Inv /\ Inv' /\ [Next]_vars => [Calls!Next]_calls
  <1> SUFFICES ASSUME Inv, Inv', [Next]_vars PROVE Calls!Next \/ calls' = calls
    OBVIOUS
  <1>1. ASSUME NEW r \in Request, NEW s,
               Status(r)' = s,
               \A q \in Request \ {r} : Status(q)' = Status(q)
        PROVE  calls' = [calls EXCEPT ![r] = s]
    BY <1>1 DEF calls
  <1>2. ASSUME NEW r \in Request, Reject(r)
        PROVE  Calls!Next
    <2>1. phase[r] = "unused" /\ phase'[r] = "done" /\ result'[r] = "InvalidRequest"
      BY <1>2 DEF Reject, Inv, TypeOK
    <2>2. Status(r) = "unused" /\ Status(r)' = "error"
      BY <2>1, StatusOf DEF Status
    <2>3. \A q \in Request \ {r} : Status(q)' = Status(q)
      BY <1>2, OtherStatus DEF Reject
    <2>4. calls' = [calls EXCEPT ![r] = "error"]
      BY <1>1, <2>2, <2>3
    <2>5. Calls!Call(r)
      BY <2>2, <2>4 DEF Calls!Call, calls
    <2> QED  BY <2>5 DEF Calls!Next
  <1>3. ASSUME NEW r \in Request, Call(r)
        PROVE  Calls!Next
    <2>1. phase[r] = "unused" /\ phase'[r] = "sent"
      BY <1>3 DEF Call, Dispatch, Inv, TypeOK
    <2>2. Status(r) = "unused"
      BY <2>1, StatusOf
    <2>3. Status(r)' = "pending"
      <3>1. result'[r] = "none"
        BY <2>1 DEF Inv, AttemptInv
      <3> QED  BY <2>1, <3>1 DEF Status
    <2>4. \A q \in Request \ {r} : Status(q)' = Status(q)
      BY <1>3, OtherStatus DEF Call, Dispatch
    <2>5. calls' = [calls EXCEPT ![r] = "pending"]
      BY <1>1, <2>3, <2>4
    <2>6. Calls!Call(r)
      BY <2>2, <2>5 DEF Calls!Call, calls
    <2> QED  BY <2>6 DEF Calls!Next
  <1>4. ASSUME NEW r \in Request, Retry(r)
        PROVE  calls' = calls
    <2>1. phase[r] = "waiting" /\ phase'[r] = "sent" /\ result' = result
      BY <1>4 DEF Retry, Dispatch, Inv, TypeOK
    <2>2. result[r] = "none"
      BY <2>1 DEF Inv, AttemptInv
    <2>3. Status(r)' = Status(r)
      BY <2>1, <2>2 DEF Status
    <2>4. \A q \in Request \ {r} : Status(q)' = Status(q)
      BY <1>4, OtherStatus DEF Retry, Dispatch
    <2> QED  BY <2>3, <2>4 DEF calls
  <1>5. ASSUME NEW r \in Request, phase[r] = "sent",
               NEW response \in Response(operation[r]), Finished(r, response)
        PROVE  Calls!Next \/ calls' = calls
    <2>1. Status(r) = "pending" /\ result[r] = "none"
      BY <1>5, StatusOf DEF Inv, AttemptInv
    <2>2. CASE IsRetryable(response) /\ attempt[r] <= Retries
      <3>1. phase' = [phase EXCEPT ![r] = "waiting"] /\ result' = result
        BY <1>5, <2>2 DEF Finished
      <3>2. phase'[r] = "waiting" /\ result'[r] = "none"
        BY <2>1, <3>1 DEF Inv, TypeOK
      <3>3. Status(r)' = Status(r)
        BY <2>1, <3>2 DEF Status
      <3>4. \A q \in Request \ {r} : Status(q)' = Status(q)
        BY <3>1, OtherStatus
      <3> QED  BY <3>3, <3>4 DEF calls
    <2>3. CASE ~(IsRetryable(response) /\ attempt[r] <= Retries)
      <3>1. /\ phase' = [phase EXCEPT ![r] = "done"]
            /\ result' = [result EXCEPT ![r] = Outcome(operation[r], response)]
        BY <1>5, <2>3 DEF Finished
      <3>2. phase'[r] = "done" /\ result'[r] \in Result \ {"none"}
        BY <3>1, OutcomeType DEF Inv, TypeOK
      <3>3. Status(r)' \in {"model", "error"}
        BY <3>2 DEF Status
      <3>4. \A q \in Request \ {r} : Status(q)' = Status(q)
        BY <3>1, OtherStatus
      <3>5. calls' = [calls EXCEPT ![r] = Status(r)']
        BY <1>1, <3>4
      <3>6. Calls!Complete(r)
        BY <2>1, <3>3, <3>5 DEF Calls!Complete, calls
      <3> QED  BY <3>6 DEF Calls!Next
    <2> QED  BY <2>2, <2>3
  <1>6. CASE UNCHANGED vars
    BY <1>6 DEF vars, calls, Status
  <1>7. \A r \in Request : TimedOut \in Response(operation[r])
    BY DEF Response
  <1> QED  BY <1>2, <1>3, <1>4, <1>5, <1>6, <1>7 DEF Next, ReplyFinishes, ReplyTimesOut

-----------------------------------------------------------------------------
(* The inductive invariant of the requests.                                *)
THEOREM RequestsInvCorrect == Spec => []Inv
  <1> QED  BY InitInv, StepInv, PTL DEF Spec

(* Every variable keeps its type; in particular no request makes more than *)
(* one attempt and its retries.                                            *)
THEOREM RequestTypeCorrect == Spec => []TypeOK
  <1>1. Inv => TypeOK
    BY DEF Inv
  <1> QED  BY <1>1, RequestsInvCorrect, PTL

(* The result is the outcome of the last attempt, and a failure that might *)
(* pass was retried as often as allowed, unless the connection was cut off *)
(* after its status line.                                                  *)
THEOREM ResultIsAlwaysOfLastAttempt == Spec => []ResultIsOfLastAttempt
  <1>1. Inv => ResultIsOfLastAttempt
    BY DEF Inv
  <1> QED  BY <1>1, RequestsInvCorrect, PTL

(* The client implements the safety part of AsyncCalls: initial states map *)
(* to initial states, and each step of a request is a call, a completion   *)
(* or no step, so no call completes twice or is taken back.                *)
THEOREM RequestsAreCalls == Spec => Calls!Init /\ [][Calls!Next]_calls
  <1>1. Init => Calls!Init
    BY DEF Init, Calls!Init, Status
  <1>2. Inv /\ Inv' /\ [Next]_vars => [Calls!Next]_calls
    BY CallsStep
  <1> QED  BY <1>1, <1>2, RequestsInvCorrect, PTL DEF Spec

-----------------------------------------------------------------------------
(* Every call completes.  A request that is sent times out at the latest,  *)
(* one that waits is sent again, and the attempts are numbered: after as   *)
(* many as the constructor allows at most, there is no other.              *)

Sent(r, n)    == phase[r] = "sent" /\ attempt[r] >= n
Waiting(r, n) == phase[r] = "waiting" /\ attempt[r] >= n
Completed(r)  == Status(r) \in {"model", "error"}

(* The two timers of a request can fire whenever they are armed.           *)
TimeoutEnabled(r) == phase[r] = "sent" => ENABLED <<ReplyTimesOut(r)>>_vars
RetryEnabled(r)   == phase[r] = "waiting" => ENABLED <<Retry(r)>>_vars
TimersEnabled     == \A r \in Request : TimeoutEnabled(r) /\ RetryEnabled(r)

LEMMA SentStep ==
    ASSUME NEW r \in Request, NEW n \in Nat, Inv, Inv', [Next]_vars, Sent(r, n)
    PROVE  /\ Sent(r, n)' \/ Waiting(r, n)' \/ Completed(r)'
           /\ ReplyTimesOut(r) => Waiting(r, n)' \/ Completed(r)'
  <1>1. ASSUME NEW response, Finished(r, response)
        PROVE  Waiting(r, n)' \/ Completed(r)'
    <2>1. attempt'[r] = attempt[r] /\ phase'[r] \in {"waiting", "done"}
      BY <1>1 DEF Finished, Inv, TypeOK
    <2>2. ASSUME phase'[r] = "done"
          PROVE  Completed(r)'
      <3>1. result'[r] # "none"
        BY <2>2 DEF Inv, AttemptInv
      <3>2. CASE result'[r] = "model"
        BY <2>2, <3>2 DEF Completed, Status
      <3>3. CASE result'[r] # "model"
        BY <2>2, <3>1, <3>3 DEF Completed, Status
      <3> QED  BY <3>2, <3>3
    <2> QED  BY <2>1, <2>2 DEF Sent, Waiting
  <1>2. ASSUME NEW q \in Request \ {r}, NEW response, Finished(q, response)
        PROVE  Sent(r, n)'
    BY <1>2 DEF Finished, Sent, Inv, TypeOK
  <1>3. ASSUME NEW q \in Request, Reject(q) \/ Call(q) \/ Retry(q)
        PROVE  Sent(r, n)'
    BY <1>3 DEF Reject, Call, Retry, Dispatch, Sent, Inv, TypeOK
  <1>4. ASSUME UNCHANGED vars
        PROVE  Sent(r, n)'
    BY <1>4 DEF vars, Sent
  <1> QED  BY <1>1, <1>2, <1>3, <1>4 DEF Next, ReplyFinishes, ReplyTimesOut

LEMMA WaitingStep ==
    ASSUME NEW r \in Request, NEW n \in Nat, Inv, [Next]_vars, Waiting(r, n)
    PROVE  /\ Waiting(r, n)' \/ Sent(r, n + 1)'
           /\ Retry(r) => Sent(r, n + 1)'
  <1>1. ASSUME Retry(r)
        PROVE  Sent(r, n + 1)'
    BY <1>1, RetriesAssumption DEF Retry, Dispatch, Waiting, Sent, Inv, TypeOK
  <1>2. ASSUME NEW q \in Request, Reject(q) \/ Call(q) \/ ReplyFinishes(q) \/ ReplyTimesOut(q)
        PROVE  Waiting(r, n)'
    BY <1>2 DEF Reject, Call, ReplyFinishes, ReplyTimesOut, Finished, Dispatch, Waiting, Inv, TypeOK
  <1>3. ASSUME NEW q \in Request \ {r}, Retry(q)
        PROVE  Waiting(r, n)'
    BY <1>3 DEF Retry, Dispatch, Waiting, Inv, TypeOK
  <1>4. ASSUME UNCHANGED vars
        PROVE  Waiting(r, n)'
    BY <1>4 DEF vars, Waiting
  <1> QED  BY <1>1, <1>2, <1>3, <1>4 DEF Next

(* What a request that is not done comes to: the next attempt, or the end. *)
RequestRuns(r) == Spec /\ RequestFair(r) /\ []TimeoutEnabled(r) /\ []RetryEnabled(r)
AttemptEnds(r, n, m) ==
    /\ Waiting(r, n) ~> Sent(r, m)
    /\ Sent(r, n) ~> (Sent(r, m) \/ Completed(r))

LEMMA EveryAttemptEnds ==
    ASSUME NEW r \in Request, NEW n \in Nat, NEW m, m = n + 1
    PROVE  RequestRuns(r) => AttemptEnds(r, n, m)
  <1>1. Inv /\ Inv' /\ Sent(r, n) /\ [Next]_vars
           => Sent(r, n)' \/ Waiting(r, n)' \/ Completed(r)'
    BY SentStep
  <1>2. Inv /\ Inv' /\ Sent(r, n) /\ [Next]_vars /\ <<ReplyTimesOut(r)>>_vars
           => Waiting(r, n)' \/ Completed(r)'
    BY SentStep
  <1>3. Inv /\ Waiting(r, n) /\ [Next]_vars => Waiting(r, n)' \/ Sent(r, m)'
    BY WaitingStep
  <1>4. Inv /\ Waiting(r, n) /\ [Next]_vars /\ <<Retry(r)>>_vars => Sent(r, m)'
    BY WaitingStep
  <1>5. Sent(r, n) /\ TimeoutEnabled(r) => ENABLED <<ReplyTimesOut(r)>>_vars
    BY DEF Sent, TimeoutEnabled
  <1>6. Waiting(r, n) /\ RetryEnabled(r) => ENABLED <<Retry(r)>>_vars
    BY DEF Waiting, RetryEnabled
  <1> QED  BY <1>1, <1>2, <1>3, <1>4, <1>5, <1>6, RequestsInvCorrect, PTL
           DEF Spec, RequestRuns, RequestFair, AttemptEnds

(* An eleventh retry exceeds what the constructor allows.                  *)
LEMMA FewAttempts ==
    ASSUME NEW r \in Request
    PROVE  Inv => ~Sent(r, 12)
  BY RetriesAssumption DEF Inv, TypeOK, Sent

LEMMA RequestCompletes ==
    ASSUME NEW r \in Request
    PROVE  RequestRuns(r) => ((Status(r) = "pending") ~> Completed(r))
  <1>1. Inv /\ Status(r) = "pending" => Sent(r, 0) \/ Waiting(r, 0)
    <2> SUFFICES ASSUME Inv, Status(r) = "pending" PROVE Sent(r, 0) \/ Waiting(r, 0)
      OBVIOUS
    <2>1. phase[r] \in {"sent", "waiting"}
      BY StatusOf DEF Inv, TypeOK, Phase
    <2> QED  BY <2>1, RetriesAssumption DEF Inv, TypeOK, Sent, Waiting
  <1>2. RequestRuns(r) =>
           /\ AttemptEnds(r, 0, 1) /\ AttemptEnds(r, 1, 2) /\ AttemptEnds(r, 2, 3)
           /\ AttemptEnds(r, 3, 4) /\ AttemptEnds(r, 4, 5) /\ AttemptEnds(r, 5, 6)
           /\ AttemptEnds(r, 6, 7) /\ AttemptEnds(r, 7, 8) /\ AttemptEnds(r, 8, 9)
           /\ AttemptEnds(r, 9, 10) /\ AttemptEnds(r, 10, 11) /\ AttemptEnds(r, 11, 12)
    BY EveryAttemptEnds
  <1>3. Inv => ~Sent(r, 12)
    BY FewAttempts
  <1> QED  BY <1>1, <1>2, <1>3, RequestsInvCorrect, PTL DEF RequestRuns, AttemptEnds

LEMMA TimersAreFair == FairSpec => \A r \in Request : RequestFair(r)
  BY PTL DEF FairSpec

(* A call that is made completes, whatever the network does, if the timers *)
(* of a request can fire whenever they are armed.                          *)
CallCompletes(r) == (Status(r) = "pending") ~> Completed(r)

THEOREM EveryCallCompletes ==
    FairSpec /\ []TimersEnabled => \A r \in Request : CallCompletes(r)
  <1>1. ASSUME NEW r \in Request
        PROVE  FairSpec /\ []TimersEnabled => CallCompletes(r)
    <2>1. TimersEnabled => TimeoutEnabled(r) /\ RetryEnabled(r)
      BY DEF TimersEnabled
    <2>2. FairSpec => RequestFair(r)
      BY TimersAreFair
    <2>3. RequestRuns(r) => ((Status(r) = "pending") ~> Completed(r))
      BY RequestCompletes
    <2> QED  BY <2>1, <2>2, <2>3, PTL DEF FairSpec, RequestRuns, CallCompletes
  <1> QED  BY <1>1

=============================================================================
