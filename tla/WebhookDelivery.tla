-------------------------- MODULE WebhookDelivery --------------------------
(***************************************************************************)
(* The transactional outbox: services/webhooks.py run by any number of     *)
(* worker replicas.  A worker leases a batch of due rows in one            *)
(* transaction, then, for each of them in turn and in a transaction of its *)
(* own, reads the row, sends the request while holding no lock, and writes *)
(* the result over whatever the row has become.                            *)
(*                                                                         *)
(* Times are kept as the time that is left: a step of the clock is a       *)
(* second, and the constants are scaled down for TLC.                      *)
(***************************************************************************)
EXTENDS Integers, FiniteSets, Sequences

CONSTANTS
    Deliveries,      \* the rows emit_change will write, one per event and subscription
    Subscriptions,
    SubscriptionOf,  \* webhook_deliveries.subscription_id
    Workers,         \* replicas of the worker
    MaxAttempts,     \* settings.webhook_max_attempts
    LeaseTime,       \* settings.webhook_lease_seconds
    BatchLimit,      \* the worker's --batch-size
    Timely,          \* whether every batch is worked off before its lease ends
    Late,            \* bound of the model: how overdue two rows can be told apart
    MaxLost          \* bound of the model: sent requests whose result is lost, per row

ASSUME ConstantsAssumption ==
    /\ SubscriptionOf \in [Deliveries -> Subscriptions]
    /\ MaxAttempts \in Nat \ {0} /\ BatchLimit \in Nat \ {0}
    /\ LeaseTime \in Nat /\ Late \in Nat /\ MaxLost \in Nat
    /\ Timely \in BOOLEAN

VARIABLES
    state,     \* webhook_deliveries.state, "absent" before the insert
    attempts,  \* webhook_deliveries.attempt_count
    due,       \* time until next_attempt_at, at most 0 when it has come
    lease,     \* time until lease_until, -1 when it has passed or is NULL
    active,    \* webhook_subscriptions.active
    queue,     \* what is left of each worker's batch; its head is being worked on
    pc,        \* where each worker is in _send_one
    tries,     \* attempt_count of the object in the worker's session
    answer,    \* what came of the request
    sent,      \* requests sent for each delivery (history)
    lost       \* of those, the ones no transaction recorded (history)

rows == <<state, attempts, due, lease>>
memory == <<queue, pc, tries, answer>>
vars == <<state, attempts, due, lease, active, queue, pc, tries, answer, sent, lost>>

DeliveryState == {"absent", "pending", "delivering", "retrying", "delivered", "dead"}

\* Answers of the endpoint or of the HTTP client: 2xx; a network error, 408, 425,
\* 429 or 5xx; any other status; an exception _send_one does not catch, as for a
\* body that cannot be decoded.
HttpAnswer == {"accepted", "transient", "refused", "exception"}
Answer == HttpAnswer \cup {"none", "unsafe", "inactive"}

Settled(d) == state[d] \in {"delivered", "dead"}
Held(w) == {queue[w][i] : i \in DOMAIN queue[w]}

-----------------------------------------------------------------------------
Init ==
    /\ state = [d \in Deliveries |-> "absent"]
    /\ attempts = [d \in Deliveries |-> 0]
    /\ due = [d \in Deliveries |-> 0]
    /\ lease = [d \in Deliveries |-> -1]
    /\ active = [u \in Subscriptions |-> TRUE]
    /\ queue = [w \in Workers |-> <<>>]
    /\ pc = [w \in Workers |-> "next"]
    /\ tries = [w \in Workers |-> 0]
    /\ answer = [w \in Workers |-> "none"]
    /\ sent = [d \in Deliveries |-> 0]
    /\ lost = [d \in Deliveries |-> 0]

(* emit_change, in the transaction of the change it announces, writes a row *)
(* for each active subscription that asked for the event.                   *)
Enqueue(d) ==
    /\ state[d] = "absent"
    /\ active[SubscriptionOf[d]]
    /\ state' = [state EXCEPT ![d] = "pending"]
    /\ due' = [due EXCEPT ![d] = 0]
    /\ UNCHANGED <<attempts, lease, active, memory, sent, lost>>

(* DELETE /webhooks/{id}. *)
Deactivate(u) ==
    /\ active[u]
    /\ active' = [active EXCEPT ![u] = FALSE]
    /\ UNCHANGED <<rows, memory, sent, lost>>

(* _lease_due: FOR UPDATE SKIP LOCKED and the commit, in one step, since a  *)
(* row being leased is skipped like one that has been.                      *)

\* Mutants: a lease does not protect; a lapsed lease is never taken over; the
\* backoff of a retry is not waited for.
AvailableThoughLeased(d) == \/ state[d] \in {"pending", "retrying"} /\ due[d] <= 0
                            \/ state[d] = "delivering"
AvailableUnlessLeased(d) == state[d] \in {"pending", "retrying"} /\ due[d] <= 0
AvailableTooEarly(d) == \/ state[d] \in {"pending", "retrying"}
                        \/ state[d] = "delivering" /\ lease[d] < 0

Available(d) == \/ state[d] \in {"pending", "retrying"} /\ due[d] <= 0
                \/ state[d] = "delivering" /\ lease[d] < 0

\* q is a batch of the available rows, those due first first.
IsBatch(q) ==
    LET chosen == {q[i] : i \in DOMAIN q}
        left == {d \in Deliveries : Available(d) /\ d \notin chosen}
    IN
    /\ \A i, j \in DOMAIN q : i < j => q[i] # q[j] /\ due[q[i]] <= due[q[j]]
    /\ \A d \in chosen, o \in left : due[d] <= due[o]
    /\ left # {} => Len(q) = BatchLimit

LeaseDue(w) ==
    /\ queue[w] = <<>>
    /\ \E n \in 1 .. BatchLimit : \E q \in [1 .. n -> {d \in Deliveries : Available(d)}] :
         /\ IsBatch(q)
         /\ queue' = [queue EXCEPT ![w] = q]
         /\ state' = [d \in Deliveries |->
                        IF \E i \in 1 .. n : q[i] = d THEN "delivering" ELSE state[d]]
         /\ lease' = [d \in Deliveries |->
                        IF \E i \in 1 .. n : q[i] = d THEN LeaseTime ELSE lease[d]]
    /\ UNCHANGED <<attempts, due, active, pc, tries, answer, sent, lost>>

(* _send_one up to the request: the row and its subscription are read       *)
(* without a lock, and only the state of the row is looked at.              *)

\* The transaction of the row at the head of the queue is over.
NextRow(w) ==
    /\ queue' = [queue EXCEPT ![w] = Tail(@)]
    /\ pc' = [pc EXCEPT ![w] = "next"]
    /\ tries' = [tries EXCEPT ![w] = 0]
    /\ answer' = [answer EXCEPT ![w] = "none"]

Loading(w) == pc[w] = "next" /\ queue[w] # <<>>

Skip(w) ==
    /\ Loading(w)
    /\ state[Head(queue[w])] # "delivering"
    /\ NextRow(w)
    /\ UNCHANGED <<rows, active, sent, lost>>

Load(w) ==
    LET d == Head(queue[w]) IN
    /\ Loading(w)
    /\ state[d] = "delivering"
    /\ \/ /\ ~active[SubscriptionOf[d]]
          /\ tries' = [tries EXCEPT ![w] = attempts[d]]
          /\ answer' = [answer EXCEPT ![w] = "inactive"]
          /\ pc' = [pc EXCEPT ![w] = "record"]
       \/ /\ active[SubscriptionOf[d]]
          /\ tries' = [tries EXCEPT ![w] = attempts[d] + 1]
          /\ \/ pc' = [pc EXCEPT ![w] = "send"] /\ UNCHANGED answer
             \/ /\ pc' = [pc EXCEPT ![w] = "record"]
                /\ answer' = [answer EXCEPT ![w] = "unsafe"]
    /\ UNCHANGED <<rows, active, queue, sent, lost>>

Send(w, a) ==
    LET d == Head(queue[w]) IN
    /\ pc[w] = "send"
    /\ a = "exception" => lost[d] < MaxLost
    /\ sent' = [sent EXCEPT ![d] = @ + 1]
    /\ answer' = [answer EXCEPT ![w] = a]
    /\ pc' = [pc EXCEPT ![w] = "record"]
    /\ UNCHANGED <<rows, active, queue, tries, lost>>

(* The result is written over the row, whoever holds its lease by now.      *)

\* _retry_delay: exponential, at most an hour, and up to a quarter of jitter.
AtMost(a, b) == IF a < b THEN a ELSE b
Delays(n) ==
    LET base == AtMost(3600, 2 ^ AtMost(n, 11))
        jitter == IF base \div 4 > 1 THEN base \div 4 ELSE 1
    IN  base .. base + jitter - 1

\* Mutant: one attempt too many.
ExhaustedTooLate(n) == n > MaxAttempts

Exhausted(n) == n >= MaxAttempts

\* Mutant: attempt_count is not written.
AttemptForgotten(w) == UNCHANGED attempts

\* The inactive branch of _send_one leaves attempt_count as it is.
WriteAttempt(w) ==
    IF answer[w] = "inactive" THEN UNCHANGED attempts
    ELSE attempts' = [attempts EXCEPT ![Head(queue[w])] = tries[w]]

Record(w) ==
    LET d == Head(queue[w]) IN
    /\ pc[w] = "record"
    /\ \/ /\ answer[w] = "accepted"
          /\ state' = [state EXCEPT ![d] = "delivered"]
          /\ UNCHANGED due
       \/ /\ \/ answer[w] \in {"refused", "unsafe", "inactive"}
             \/ answer[w] = "transient" /\ Exhausted(tries[w])
          /\ state' = [state EXCEPT ![d] = "dead"]
          /\ UNCHANGED due
       \/ /\ answer[w] = "transient"
          /\ ~Exhausted(tries[w])
          /\ state' = [state EXCEPT ![d] = "retrying"]
          /\ \E t \in Delays(tries[w]) : due' = [due EXCEPT ![d] = t]
    /\ lease' = [lease EXCEPT ![d] = -1]
    /\ WriteAttempt(w)
    /\ NextRow(w)
    /\ UNCHANGED <<active, sent, lost>>

(* An exception in _send_one or in its commit rolls the row back, attempt   *)
(* and all, and the worker goes on; a dead process forgets its batch.       *)

InFlight(w) == pc[w] = "record" /\ answer[w] \in HttpAnswer

Forget(w) ==
    IF InFlight(w)
    THEN /\ lost[Head(queue[w])] < MaxLost
         /\ lost' = [lost EXCEPT ![Head(queue[w])] = @ + 1]
    ELSE UNCHANGED lost

Drop(w) ==
    /\ pc[w] \in {"send", "record"}
    /\ Forget(w)
    /\ NextRow(w)
    /\ UNCHANGED <<rows, active, sent>>

Crash(w) ==
    /\ queue[w] # <<>>
    /\ Forget(w)
    /\ queue' = [queue EXCEPT ![w] = <<>>]
    /\ pc' = [pc EXCEPT ![w] = "next"]
    /\ tries' = [tries EXCEPT ![w] = 0]
    /\ answer' = [answer EXCEPT ![w] = "none"]
    /\ UNCHANGED <<rows, active, sent>>

Tick ==
    /\ Timely => \A w \in Workers : \A d \in Held(w) : state[d] = "delivering" => lease[d] > 0
    /\ due' = [d \in Deliveries |-> IF due[d] > -Late THEN due[d] - 1 ELSE due[d]]
    /\ lease' = [d \in Deliveries |-> IF lease[d] >= 0 THEN lease[d] - 1 ELSE lease[d]]
    /\ UNCHANGED <<state, attempts, active, memory, sent, lost>>

-----------------------------------------------------------------------------
Attempt(w) == Skip(w) \/ Load(w) \/ (\E a \in HttpAnswer : Send(w, a)) \/ Record(w)

Next == \/ \E d \in Deliveries : Enqueue(d)
        \/ \E u \in Subscriptions : Deactivate(u)
        \/ \E w \in Workers : LeaseDue(w) \/ Attempt(w) \/ Drop(w) \/ Crash(w)
        \/ Tick

Spec == Init /\ [][Next]_vars

(* Fairness.  A running worker polls and works its batch off, the HTTP      *)
(* client answers or times out, time passes, and there is an end to crashes *)
(* and to exceptions nobody catches.                                        *)
Caught(w) == answer[w] = "exception" /\ Drop(w)
Fails == \E w \in Workers : \/ Crash(w) \/ Send(w, "exception")
                            \/ answer[w] # "exception" /\ Drop(w)

Fairness ==
    /\ \A w \in Workers : /\ WF_vars(LeaseDue(w))
                          /\ WF_vars(Attempt(w))
                          /\ WF_vars(Caught(w))
    /\ WF_vars(Tick)
    /\ <>[][~Fails]_vars

FairSpec == Spec /\ Fairness

-----------------------------------------------------------------------------
(* Properties.                                                              *)

\* The columns and the workers hold values of their types.
TypeOK ==
    /\ state \in [Deliveries -> DeliveryState]
    /\ attempts \in [Deliveries -> 0 .. MaxAttempts]
    /\ due \in [Deliveries -> Int]
    /\ lease \in [Deliveries -> Int]
    /\ active \in [Subscriptions -> BOOLEAN]
    /\ queue \in [Workers -> Seq(Deliveries)]
    /\ pc \in [Workers -> {"next", "send", "record"}]
    /\ tries \in [Workers -> 0 .. MaxAttempts]
    /\ answer \in [Workers -> Answer]
    /\ sent \in [Deliveries -> Nat]
    /\ lost \in [Deliveries -> Nat]

\* attempt_count never exceeds webhook_max_attempts, and a delivery that has used its
\* attempts up is settled, even when leases lapse and late results overwrite each other.
AttemptsBounded ==
    \A d \in Deliveries : /\ attempts[d] <= MaxAttempts
                          /\ attempts[d] = MaxAttempts => Settled(d)

\* No two replicas work on one delivery: while a worker has a row in its batch no
\* other one has, because the lease it wrote still runs (_lease_due).
OneHolder == \A w, o \in Workers : w # o => Held(w) \cap Held(o) = {}

\* Every request that left is counted in attempt_count, is about to be, or was lost
\* with the transaction that would have counted it.
EverySendCounted ==
    \A d \in Deliveries :
        LET flying == {w \in Workers : InFlight(w) /\ Head(queue[w]) = d} IN
        sent[d] <= attempts[d] + lost[d] + Cardinality(flying)

\* A delivered or dead delivery stays so: no late result is written over it.
SettledIsFinal == [][\A d \in Deliveries : Settled(d) => state'[d] = state[d]]_vars

\* No request is sent before next_attempt_at, which the last failure has put off.
BackoffRespected == [][\A d \in Deliveries : sent'[d] > sent[d] => due[d] <= 0]_vars

\* Every delivery is settled in the end, whatever worker leased it and died.
EverySettled == \A d \in Deliveries : state[d] = "pending" ~> Settled(d)

\* Even when batches outlive their leases, and a late result reopens a delivery that
\* was settled, every delivery is settled for good in the end: attempt_count may go
\* back, but each time it does a result is used up that cannot be had again.
SettledForEver == \A d \in Deliveries : state[d] = "pending" ~> [](Settled(d))

\* The inductive invariant behind AttemptsBounded: a worker is busy with a row, and an open
\* row has an attempt left ...
AttemptsLeft == \A d \in Deliveries : ~Settled(d) => attempts[d] < MaxAttempts
BusyOnSomething == \A w \in Workers : pc[w] # "next" => queue[w] # <<>>
AttemptsInv == TypeOK /\ AttemptsLeft /\ BusyOnSomething

\* ... and behind OneHolder: what a worker holds is leased, and once.
HeldIsLeased ==
    \A w \in Workers : \A d \in Held(w) : state[d] = "delivering" /\ lease[d] >= 0
HeldOnce ==
    \A w \in Workers : \A i, j \in DOMAIN queue[w] : queue[w][i] = queue[w][j] => i = j
LeaseInv == AttemptsInv /\ OneHolder /\ HeldIsLeased /\ HeldOnce

\* The outbox: to a subscriber a lease is not visible.
OutboxOf == INSTANCE Outbox
    WITH status <- [d \in Deliveries |-> IF state[d] \in {"pending", "delivering", "retrying"}
                                         THEN "open" ELSE state[d]]

\* What the workers do to the rows is what Outbox promises: counted attempts, one
\* after another, up to the bound, and an end that stays.
ImplementsOutbox == OutboxOf!Spec

\* A delivered row stays delivered: "Safe across worker replicas."
DeliveredIsFinal ==
    [][\A d \in Deliveries : state[d] = "delivered" => state'[d] = "delivered"]_vars

\* "Retries are bounded": no endpoint gets more than MaxAttempts requests for one
\* delivery.
SendsBounded == \A d \in Deliveries : sent[d] <= MaxAttempts
=============================================================================
