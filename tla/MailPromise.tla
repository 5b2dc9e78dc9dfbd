------------------------------ MODULE MailPromise ------------------------------
(***************************************************************************)
(* What an outbox promises for each delivery it has saved: an email        *)
(* arrives at most once, only after the delivery was begun, it is begun    *)
(* only while it is open, and a conclusion is final and true: "sent" is    *)
(* said of an email that arrived, "failed" of a delivery that was begun.   *)
(* An email may still arrive after its delivery was concluded, because a   *)
(* request cannot be recalled.  A delivery is begun when its first attempt *)
(* is durably counted, before anything is requested.                       *)
(*                                                                         *)
(* RevisableSpec promises less: a late answer may reopen a conclusion or   *)
(* replace it by another, though never by an untrue one.                   *)
(***************************************************************************)
EXTENDS Naturals

CONSTANT Deliveries

VARIABLES begun, arrived, outcome

vars == <<begun, arrived, outcome>>

Init ==
    /\ begun = [d \in Deliveries |-> FALSE]
    /\ arrived = [d \in Deliveries |-> 0]
    /\ outcome = [d \in Deliveries |-> "open"]

Begin(d) ==
    /\ outcome[d] = "open"
    /\ begun' = [begun EXCEPT ![d] = TRUE]
    /\ UNCHANGED <<arrived, outcome>>

Arrive(d) ==
    /\ begun[d]
    /\ arrived[d] = 0
    /\ arrived' = [arrived EXCEPT ![d] = 1]
    /\ UNCHANGED <<begun, outcome>>

Conclude(d, end) ==
    /\ outcome[d] = "open"
    /\ end = "sent" => arrived[d] = 1
    /\ end = "failed" => begun[d]
    /\ outcome' = [outcome EXCEPT ![d] = end]
    /\ UNCHANGED <<begun, arrived>>

\* The recipient's account is deleted, and the delivery with it.
Remove(d) ==
    /\ outcome' = [outcome EXCEPT ![d] = "deleted"]
    /\ UNCHANGED <<begun, arrived>>

Next ==
    \E d \in Deliveries :
        \/ Begin(d)
        \/ Arrive(d)
        \/ \E end \in {"sent", "failed", "uncertain", "cancelled"} : Conclude(d, end)
        \/ Remove(d)

Spec == Init /\ [][Next]_vars

\* The answer of a begun request is written over whatever was concluded.
LateAnswer(d, end) ==
    /\ begun[d]
    /\ outcome[d] # "deleted"
    /\ end = "sent" => arrived[d] = 1
    /\ outcome' = [outcome EXCEPT ![d] = end]
    /\ UNCHANGED <<begun, arrived>>

RevisableNext ==
    \/ Next
    \/ \E d \in Deliveries, end \in {"open", "sent", "failed"} : LateAnswer(d, end)

RevisableSpec == Init /\ [][RevisableNext]_vars

================================================================================
