------------------------------- MODULE Outbox -------------------------------
(***************************************************************************)
(* What the outbox promises of each delivery, without workers, leases or   *)
(* clocks: at most MaxAttempts counted attempts, one after another, and    *)
(* then an end that stays.  WebhookDelivery implements it as long as no    *)
(* batch outlives its lease.                                               *)
(***************************************************************************)
EXTENDS Naturals

CONSTANTS Deliveries, MaxAttempts

VARIABLES status, attempts
vars == <<status, attempts>>

Init ==
    /\ status = [d \in Deliveries |-> "absent"]
    /\ attempts = [d \in Deliveries |-> 0]

Promise(d) ==
    /\ status[d] = "absent"
    /\ status' = [status EXCEPT ![d] = "open"]
    /\ UNCHANGED attempts

\* An attempt delivers, gives up, or leaves the delivery open for another one.
Attempt(d, result) ==
    /\ status[d] = "open"
    /\ attempts[d] < MaxAttempts
    /\ result = "open" => attempts[d] + 1 < MaxAttempts
    /\ attempts' = [attempts EXCEPT ![d] = @ + 1]
    /\ status' = [status EXCEPT ![d] = result]

\* The subscription is gone.
Abandon(d) ==
    /\ status[d] = "open"
    /\ status' = [status EXCEPT ![d] = "dead"]
    /\ UNCHANGED attempts

Next == \E d \in Deliveries : \/ Promise(d) \/ Abandon(d)
                              \/ \E r \in {"open", "delivered", "dead"} : Attempt(d, r)

Spec == Init /\ [][Next]_vars
=============================================================================
