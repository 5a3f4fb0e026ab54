----------------------------- MODULE AsyncCalls -----------------------------
(***************************************************************************)
(* What docs/api-client.md promises of an operation of the Kaltura client: *)
(* it "completes through a typed callback with either a model or           *)
(* ApiError".  A call that is made completes once, with one of the two,    *)
(* whatever the network does; one with bad arguments completes at once.    *)
(***************************************************************************)
CONSTANT Request  \* the calls made of the client

VARIABLE status

Status == {"unused", "pending", "model", "error"}

Init == status = [r \in Request |-> "unused"]

Call(r) ==
    /\ status[r] = "unused"
    /\ \E s \in {"pending", "error"} : status' = [status EXCEPT ![r] = s]

Complete(r) ==
    /\ status[r] = "pending"
    /\ \E s \in {"model", "error"} : status' = [status EXCEPT ![r] = s]

Next == \E r \in Request : Call(r) \/ Complete(r)

Spec == Init /\ [][Next]_status /\ \A r \in Request : WF_status(Complete(r))

=============================================================================
