--------------------------- MODULE WebhookProofs ---------------------------
(***************************************************************************)
(* Theorems about WebhookDelivery.  attempt_count stays within its bound   *)
(* whatever the workers do.  If every batch is worked off within its       *)
(* lease, one worker at a time has a delivery, what is settled stays so,   *)
(* the backoff is kept, requests are counted, and Outbox is implemented.   *)
(***************************************************************************)
EXTENDS WebhookDelivery, FiniteSetTheorems, TLAPS

\* What the head and the tail of a worker's queue are.
LEMMA HeadTail ==
  ASSUME NEW q \in Seq(Deliveries), q # <<>>
  PROVE  /\ 1 \in DOMAIN q /\ Head(q) = q[1] /\ Head(q) \in Deliveries
         /\ Tail(q) \in Seq(Deliveries)
         /\ \A i \in DOMAIN Tail(q) : i + 1 \in DOMAIN q /\ Tail(q)[i] = q[i + 1] /\ i \in Nat \ {0}
  OBVIOUS

LEMMA InitInv == Init => AttemptsInv
  BY ConstantsAssumption
  DEF Init, AttemptsInv, TypeOK, AttemptsLeft, BusyOnSomething, Settled, DeliveryState, Answer

-----------------------------------------------------------------------------
\* Moving on to the next row of the batch.
LEMMA NextRowTypes ==
  ASSUME AttemptsInv, NEW w \in Workers, queue[w] # <<>>, NextRow(w)
  PROVE  /\ queue' \in [Workers -> Seq(Deliveries)]
         /\ pc' \in [Workers -> {"next", "send", "record"}]
         /\ tries' \in [Workers -> 0 .. MaxAttempts]
         /\ answer' \in [Workers -> Answer]
         /\ BusyOnSomething'
  <1>1. queue[w] \in Seq(Deliveries)
    BY DEF AttemptsInv, TypeOK
  <1>2. Tail(queue[w]) \in Seq(Deliveries)
    BY <1>1, HeadTail
  <1> QED
    BY <1>2, ConstantsAssumption DEF AttemptsInv, TypeOK, NextRow, BusyOnSomething, Answer

\* Rolling back counts at most one lost request.
LEMMA ForgetTypes ==
  ASSUME AttemptsInv, NEW w \in Workers, queue[w] # <<>>, Forget(w)
  PROVE  lost' \in [Deliveries -> Nat]
  <1> DEFINE d == Head(queue[w])
  <1>1. queue[w] \in Seq(Deliveries)
    BY DEF AttemptsInv, TypeOK
  <1>2. d \in Deliveries
    BY <1>1, HeadTail
  <1>3. lost' = lost \/ lost' = [lost EXCEPT ![d] = @ + 1]
    BY DEF Forget
  <1>4. lost \in [Deliveries -> Nat]
    BY DEF AttemptsInv, TypeOK
  <1> HIDE DEF d
  <1> QED
    BY <1>2, <1>3, <1>4

LEMMA LeaseDueAttempts ==
  ASSUME AttemptsInv, NEW w \in Workers, LeaseDue(w)
  PROVE  AttemptsInv'
  <1>1. PICK n \in 1 .. BatchLimit : \E q \in [1 .. n -> {d \in Deliveries : Available(d)}] :
         /\ queue' = [queue EXCEPT ![w] = q]
         /\ state' = [d \in Deliveries |->
                        IF \E i \in 1 .. n : q[i] = d THEN "delivering" ELSE state[d]]
         /\ lease' = [d \in Deliveries |->
                        IF \E i \in 1 .. n : q[i] = d THEN LeaseTime ELSE lease[d]]
    BY DEF LeaseDue
  <1>2. PICK q \in [1 .. n -> {d \in Deliveries : Available(d)}] :
         /\ queue' = [queue EXCEPT ![w] = q]
         /\ state' = [d \in Deliveries |->
                        IF \E i \in 1 .. n : q[i] = d THEN "delivering" ELSE state[d]]
         /\ lease' = [d \in Deliveries |->
                        IF \E i \in 1 .. n : q[i] = d THEN LeaseTime ELSE lease[d]]
    BY <1>1
  <1>3. q \in Seq(Deliveries) /\ n \in Nat /\ q # <<>>
    BY ConstantsAssumption
  <1>4. \A d \in Deliveries : (\E i \in 1 .. n : q[i] = d) => ~Settled(d)
    BY DEF Available, Settled
  <1>5. TypeOK'
    <2>1. queue' \in [Workers -> Seq(Deliveries)]
      BY <1>2, <1>3 DEF AttemptsInv, TypeOK
    <2>2. state' \in [Deliveries -> DeliveryState]
      BY <1>2 DEF AttemptsInv, TypeOK, DeliveryState
    <2>3. lease' \in [Deliveries -> Int]
      BY <1>2, ConstantsAssumption DEF AttemptsInv, TypeOK
    <2>4. UNCHANGED <<attempts, due, active, pc, tries, answer, sent, lost>>
      BY DEF LeaseDue
    <2> QED
      BY <2>1, <2>2, <2>3, <2>4 DEF AttemptsInv, TypeOK
  <1>6. AttemptsLeft'
    BY <1>2, <1>4 DEF LeaseDue, AttemptsInv, AttemptsLeft, Settled
  <1>7. BusyOnSomething'
    BY <1>2, <1>3 DEF LeaseDue, AttemptsInv, BusyOnSomething, TypeOK
  <1> QED
    BY <1>5, <1>6, <1>7 DEF AttemptsInv

LEMMA LoadAttempts ==
  ASSUME AttemptsInv, NEW w \in Workers, Load(w)
  PROVE  AttemptsInv'
  <1> DEFINE d == Head(queue[w])
  <1>1. queue[w] \in Seq(Deliveries) /\ queue[w] # <<>>
    BY DEF AttemptsInv, TypeOK, Load, Loading
  <1>2. d \in Deliveries
    BY <1>1, HeadTail
  <1>3. attempts[d] \in 0 .. MaxAttempts /\ attempts[d] < MaxAttempts
    BY <1>2 DEF Load, AttemptsInv, TypeOK, AttemptsLeft, Settled
  <1>a. tries' = [tries EXCEPT ![w] = attempts[d]] \/ tries' = [tries EXCEPT ![w] = attempts[d] + 1]
    BY DEF Load
  <1>b. tries \in [Workers -> 0 .. MaxAttempts]
    BY DEF AttemptsInv, TypeOK
  <1> HIDE DEF d
  <1>4. tries' \in [Workers -> 0 .. MaxAttempts]
    BY <1>3, <1>a, <1>b, ConstantsAssumption
  <1>5. answer' \in [Workers -> Answer] /\ pc' \in [Workers -> {"next", "send", "record"}]
    BY DEF Load, AttemptsInv, TypeOK, Answer
  <1>6. BusyOnSomething'
    BY <1>1 DEF Load, AttemptsInv, TypeOK, BusyOnSomething
  <1> QED
    BY <1>4, <1>5, <1>6 DEF Load, rows, AttemptsInv, TypeOK, AttemptsLeft, Settled

LEMMA SendAttempts ==
  ASSUME AttemptsInv, NEW w \in Workers, NEW a \in HttpAnswer, Send(w, a)
  PROVE  AttemptsInv'
  <1> DEFINE d == Head(queue[w])
  <1>1. queue[w] \in Seq(Deliveries) /\ queue[w] # <<>>
    BY DEF AttemptsInv, TypeOK, Send, BusyOnSomething
  <1>2. d \in Deliveries
    BY <1>1, HeadTail
  <1>3. /\ sent' = [sent EXCEPT ![d] = @ + 1]
        /\ answer' = [answer EXCEPT ![w] = a]
        /\ pc' = [pc EXCEPT ![w] = "record"]
        /\ UNCHANGED <<state, attempts, due, lease, active, queue, tries, lost>>
    BY DEF Send, rows
  <1> HIDE DEF d
  <1>4. sent' \in [Deliveries -> Nat]
    BY <1>2, <1>3 DEF AttemptsInv, TypeOK
  <1>5. /\ answer' \in [Workers -> Answer]
        /\ pc' \in [Workers -> {"next", "send", "record"}]
    BY <1>3 DEF AttemptsInv, TypeOK, Answer
  <1>6. TypeOK'
    BY <1>3, <1>4, <1>5 DEF AttemptsInv, TypeOK
  <1> QED
    BY <1>1, <1>3, <1>6 DEF AttemptsInv, TypeOK, AttemptsLeft, Settled, BusyOnSomething

LEMMA RecordAttempts ==
  ASSUME AttemptsInv, NEW w \in Workers, Record(w)
  PROVE  AttemptsInv'
  <1> DEFINE d == Head(queue[w])
  <1>1. queue[w] \in Seq(Deliveries) /\ queue[w] # <<>> /\ tries[w] \in 0 .. MaxAttempts
    BY DEF AttemptsInv, TypeOK, Record, BusyOnSomething
  <1>2. d \in Deliveries
    BY <1>1, HeadTail
  <1>3. attempts' = attempts \/ attempts' = [attempts EXCEPT ![d] = tries[w]]
    BY DEF Record, WriteAttempt
  <1>4. \A n : \A t \in Delays(n) : t \in Int
    BY DEF Delays
  <1>5. /\ NextRow(w) /\ lease' = [lease EXCEPT ![d] = -1]
        /\ UNCHANGED <<active, sent, lost>>
    BY DEF Record
  <1>6. \/ state' = [state EXCEPT ![d] = "delivered"] /\ due' = due
        \/ state' = [state EXCEPT ![d] = "dead"] /\ due' = due
        \/ /\ state' = [state EXCEPT ![d] = "retrying"]
           /\ attempts' = [attempts EXCEPT ![d] = tries[w]] /\ tries[w] < MaxAttempts
           /\ \E t \in Int : due' = [due EXCEPT ![d] = t]
    BY <1>1, <1>4, ConstantsAssumption DEF Record, Exhausted, WriteAttempt
  <1> HIDE DEF d
  <1>7. TypeOK'
    <2>1. state' \in [Deliveries -> DeliveryState]
      BY <1>2, <1>6 DEF AttemptsInv, TypeOK, DeliveryState
    <2>2. attempts' \in [Deliveries -> 0 .. MaxAttempts]
      BY <1>1, <1>2, <1>3 DEF AttemptsInv, TypeOK
    <2>3. due' \in [Deliveries -> Int]
      BY <1>2, <1>6 DEF AttemptsInv, TypeOK
    <2>4. lease' \in [Deliveries -> Int]
      BY <1>2, <1>5 DEF AttemptsInv, TypeOK
    <2> QED
      BY <1>1, <1>5, <2>1, <2>2, <2>3, <2>4, NextRowTypes DEF AttemptsInv, TypeOK
  <1>8. AttemptsLeft'
    BY <1>1, <1>2, <1>3, <1>6, ConstantsAssumption
    DEF AttemptsInv, TypeOK, AttemptsLeft, Settled
  <1>9. BusyOnSomething'
    BY <1>1, <1>5, NextRowTypes
  <1> QED
    BY <1>7, <1>8, <1>9 DEF AttemptsInv

LEMMA DropAttempts ==
  ASSUME AttemptsInv, NEW w \in Workers, Drop(w)
  PROVE  AttemptsInv'
  <1>1. queue[w] # <<>>
    BY DEF AttemptsInv, Drop, BusyOnSomething
  <1>2. lost' \in [Deliveries -> Nat]
    BY <1>1, ForgetTypes DEF Drop
  <1> QED
    BY <1>1, <1>2, NextRowTypes DEF Drop, rows, AttemptsInv, TypeOK, AttemptsLeft, Settled

LEMMA CrashAttempts ==
  ASSUME AttemptsInv, NEW w \in Workers, Crash(w)
  PROVE  AttemptsInv'
  <1>1. lost' \in [Deliveries -> Nat]
    BY ForgetTypes DEF Crash
  <1>2. queue' \in [Workers -> Seq(Deliveries)]
    <2>1. <<>> \in Seq(Deliveries)
      OBVIOUS
    <2> QED
      BY <2>1 DEF Crash, AttemptsInv, TypeOK
  <1>3. /\ pc' \in [Workers -> {"next", "send", "record"}]
        /\ tries' \in [Workers -> 0 .. MaxAttempts]
        /\ answer' \in [Workers -> Answer]
    BY ConstantsAssumption DEF Crash, AttemptsInv, TypeOK, Answer
  <1>4. UNCHANGED <<state, attempts, due, lease, active, sent>>
    BY DEF Crash, rows
  <1>5. TypeOK'
    BY <1>1, <1>2, <1>3, <1>4 DEF AttemptsInv, TypeOK
  <1>6. BusyOnSomething'
    BY DEF Crash, AttemptsInv, TypeOK, BusyOnSomething
  <1> QED
    BY <1>4, <1>5, <1>6 DEF AttemptsInv, AttemptsLeft, Settled

LEMMA SkipAttempts ==
  ASSUME AttemptsInv, NEW w \in Workers, Skip(w)
  PROVE  AttemptsInv'
  BY NextRowTypes DEF Skip, Loading, rows, AttemptsInv, TypeOK, AttemptsLeft, Settled

LEMMA NextAttempts == AttemptsInv /\ [Next]_vars => AttemptsInv'
  <1> SUFFICES ASSUME AttemptsInv, [Next]_vars PROVE AttemptsInv'
    OBVIOUS
  <1>1. ASSUME NEW d \in Deliveries, Enqueue(d) PROVE AttemptsInv'
    BY <1>1, ConstantsAssumption
    DEF Enqueue, memory, AttemptsInv, TypeOK, AttemptsLeft, Settled, BusyOnSomething, DeliveryState
  <1>2. ASSUME NEW u \in Subscriptions, Deactivate(u) PROVE AttemptsInv'
    BY <1>2 DEF Deactivate, rows, memory, AttemptsInv, TypeOK, AttemptsLeft, Settled, BusyOnSomething
  <1>3. ASSUME NEW w \in Workers, LeaseDue(w) \/ Attempt(w) \/ Drop(w) \/ Crash(w)
        PROVE  AttemptsInv'
    BY <1>3, LeaseDueAttempts, SkipAttempts, LoadAttempts, SendAttempts, RecordAttempts,
       DropAttempts, CrashAttempts DEF Attempt
  <1>4. CASE Tick
    BY <1>4, ConstantsAssumption
    DEF Tick, memory, AttemptsInv, TypeOK, AttemptsLeft, Settled, BusyOnSomething
  <1>5. CASE UNCHANGED vars
    BY <1>5 DEF vars, AttemptsInv, TypeOK, AttemptsLeft, Settled, BusyOnSomething
  <1> QED
    BY <1>1, <1>2, <1>3, <1>4, <1>5 DEF Next

\* In every state an open delivery has an attempt left, whatever its workers still write.
THEOREM AttemptsInvariant == Spec => []AttemptsInv
  BY InitInv, NextAttempts, PTL DEF Spec

\* The columns of webhook_deliveries and what process_due_deliveries holds keep their types.
THEOREM TypeCorrect == Spec => []TypeOK
  BY AttemptsInvariant, PTL DEF AttemptsInv

\* However leases lapse and late results overwrite each other, _mark_failure keeps
\* attempt_count within its bound, and gives a delivery up that has reached it.
THEOREM AttemptsAreBounded == Spec => []AttemptsBounded
  <1>1. ASSUME AttemptsInv, NEW d \in Deliveries
        PROVE  attempts[d] <= MaxAttempts /\ (attempts[d] = MaxAttempts => Settled(d))
    <2>1. attempts[d] \in 0 .. MaxAttempts /\ (~Settled(d) => attempts[d] < MaxAttempts)
      BY <1>1 DEF AttemptsInv, TypeOK, AttemptsLeft
    <2> QED
      BY <2>1, ConstantsAssumption
  <1>2. AttemptsInv => AttemptsBounded
    BY <1>1 DEF AttemptsBounded
  <1> QED
    BY <1>2, AttemptsInvariant, PTL

-----------------------------------------------------------------------------
\* Leases.  A worker's batch only shrinks, except when the worker leases a new one.

LEMMA LeaseInit == Init => LeaseInv
  <1> SUFFICES ASSUME Init PROVE LeaseInv
    OBVIOUS
  <1>1. \A w \in Workers : queue[w] = <<>> /\ DOMAIN queue[w] = {}
    BY DEF Init
  <1> QED
    BY <1>1, InitInv DEF LeaseInv, OneHolder, HeldIsLeased, HeldOnce, Held

\* What remains of a batch was there before, and the finished row is not there twice.
LEMMA Shrinks ==
  ASSUME LeaseInv, NEW w \in Workers, queue[w] # <<>>,
         queue' = [queue EXCEPT ![w] = Tail(@)]
  PROVE  /\ Head(queue[w]) \in Held(w)
         /\ Held(w)' \subseteq Held(w) \ {Head(queue[w])}
         /\ \A o \in Workers \ {w} : queue'[o] = queue[o] /\ Held(o)' = Held(o)
         /\ HeldOnce'
  <1> DEFINE q == queue[w]
             rest == Tail(q)
  <1>1. q \in Seq(Deliveries) /\ q # <<>> /\ queue \in [Workers -> Seq(Deliveries)]
    BY DEF LeaseInv, AttemptsInv, TypeOK
  <1>2. queue'[w] = rest /\ \A o \in Workers \ {w} : queue'[o] = queue[o]
    BY <1>1
  <1>3. \A i, j \in DOMAIN q : q[i] = q[j] => i = j
    BY DEF LeaseInv, HeldOnce
  <1>4. /\ 1 \in DOMAIN q /\ Head(q) = q[1]
        /\ \A i \in DOMAIN rest : i + 1 \in DOMAIN q /\ rest[i] = q[i + 1] /\ i \in Nat \ {0}
    BY <1>1, HeadTail
  <1> HIDE DEF q, rest
  <1>5. \A i \in DOMAIN rest : rest[i] # q[1]
    BY <1>3, <1>4
  <1>6. \A i, j \in DOMAIN rest : rest[i] = rest[j] => i = j
    BY <1>3, <1>4
  <1>7. HeldOnce'
    <2> SUFFICES ASSUME NEW o \in Workers, NEW i \in DOMAIN queue'[o], NEW j \in DOMAIN queue'[o],
                        queue'[o][i] = queue'[o][j]
                 PROVE  i = j
      BY DEF HeldOnce
    <2>1. CASE o = w
      BY <1>2, <1>6, <2>1
    <2>2. CASE o # w
      BY <1>2, <2>2 DEF LeaseInv, HeldOnce
    <2> QED
      BY <2>1, <2>2
  <1>8. Head(queue[w]) \in Held(w)
    BY <1>4 DEF Held, q
  <1>9. Held(w)' \subseteq Held(w) \ {Head(queue[w])}
    <2>1. Held(w)' = {rest[i] : i \in DOMAIN rest} /\ Held(w) = {q[i] : i \in DOMAIN q}
      BY <1>2 DEF Held, q
    <2>2. Head(queue[w]) = q[1]
      BY <1>4 DEF q
    <2> QED
      BY <1>4, <1>5, <2>1, <2>2
  <1> QED
    BY <1>2, <1>7, <1>8, <1>9 DEF Held

\* What a worker holds is a delivery.
LEMMA HeldDelivery ==
  ASSUME LeaseInv, NEW w \in Workers
  PROVE  Held(w) \subseteq Deliveries
  <1>1. queue[w] \in Seq(Deliveries)
    BY DEF LeaseInv, AttemptsInv, TypeOK
  <1> QED
    BY <1>1 DEF Held

\* No step of a worker but LeaseDue gives anyone a delivery, and no step takes the
\* lease of a delivery that stays with a worker.
LEMMA LeaseKept ==
  ASSUME LeaseInv, AttemptsInv', HeldOnce',
         \A w \in Workers : Held(w)' \subseteq Held(w),
         \A w \in Workers : \A d \in Held(w)' : state'[d] = "delivering" /\ lease'[d] >= 0
  PROVE  LeaseInv'
  <1>1. OneHolder'
    BY DEF LeaseInv, OneHolder
  <1>2. HeldIsLeased'
    BY DEF HeldIsLeased
  <1> QED
    BY <1>1, <1>2 DEF LeaseInv

LEMMA LeaseSame ==
  ASSUME LeaseInv, AttemptsInv', UNCHANGED <<queue, state, lease>>
  PROVE  LeaseInv'
  BY DEF LeaseInv, OneHolder, HeldIsLeased, HeldOnce, Held

LEMMA LeaseShrinks ==
  ASSUME LeaseInv, AttemptsInv', NEW w \in Workers, queue[w] # <<>>, NextRow(w),
         UNCHANGED <<state, lease>>
  PROVE  LeaseInv'
  <1>1. queue' = [queue EXCEPT ![w] = Tail(@)]
    BY DEF NextRow
  <1>2. HeldOnce' /\ \A o \in Workers : Held(o)' \subseteq Held(o)
    BY <1>1, Shrinks
  <1> QED
    BY <1>2, LeaseKept DEF LeaseInv, HeldIsLeased

LEMMA LeaseDueKeeps ==
  ASSUME LeaseInv, AttemptsInv', NEW w \in Workers, LeaseDue(w)
  PROVE  LeaseInv'
  <1>1. PICK n \in 1 .. BatchLimit : \E q \in [1 .. n -> {d \in Deliveries : Available(d)}] :
         /\ IsBatch(q)
         /\ queue' = [queue EXCEPT ![w] = q]
         /\ state' = [d \in Deliveries |->
                        IF \E i \in 1 .. n : q[i] = d THEN "delivering" ELSE state[d]]
         /\ lease' = [d \in Deliveries |->
                        IF \E i \in 1 .. n : q[i] = d THEN LeaseTime ELSE lease[d]]
    BY DEF LeaseDue
  <1>2. PICK q \in [1 .. n -> {d \in Deliveries : Available(d)}] :
         /\ IsBatch(q)
         /\ queue' = [queue EXCEPT ![w] = q]
         /\ state' = [d \in Deliveries |->
                        IF \E i \in 1 .. n : q[i] = d THEN "delivering" ELSE state[d]]
         /\ lease' = [d \in Deliveries |->
                        IF \E i \in 1 .. n : q[i] = d THEN LeaseTime ELSE lease[d]]
    BY <1>1
  <1>3. queue'[w] = q /\ \A o \in Workers \ {w} : queue'[o] = queue[o]
    BY <1>2 DEF LeaseInv, AttemptsInv, TypeOK
  <1>4. DOMAIN q = 1 .. n /\ \A i \in 1 .. n : q[i] \in Deliveries /\ Available(q[i])
    OBVIOUS
  <1>5. \A i, j \in DOMAIN q : i < j => q[i] # q[j]
    BY <1>2 DEF IsBatch
  <1>6. HeldOnce'
    <2>1. \A i, j \in DOMAIN q : q[i] = q[j] => i = j
      BY <1>4, <1>5
    <2> QED
      BY <1>3, <2>1 DEF HeldOnce, LeaseInv
  <1>7. \A o \in Workers : \A d \in Held(o) : d \in Deliveries /\ ~Available(d)
    <2> SUFFICES ASSUME NEW o \in Workers, NEW d \in Held(o) PROVE d \in Deliveries /\ ~Available(d)
      OBVIOUS
    <2>1. d \in Deliveries
      BY HeldDelivery
    <2>2. state[d] = "delivering" /\ lease[d] >= 0 /\ lease[d] \in Int
      BY <2>1 DEF LeaseInv, HeldIsLeased, AttemptsInv, TypeOK
    <2> QED
      BY <2>1, <2>2 DEF Available
  <1>8. Held(w)' = {q[i] : i \in 1 .. n} /\ \A o \in Workers \ {w} : Held(o)' = Held(o)
    BY <1>3, <1>4 DEF Held
  <1>9. OneHolder'
    <2>1. \A o \in Workers \ {w} : Held(o)' \cap {q[i] : i \in 1 .. n} = {}
      BY <1>4, <1>7, <1>8
    <2> QED
      BY <1>8, <2>1 DEF OneHolder, LeaseInv
  <1>10. HeldIsLeased'
    <2>1. \A d \in {q[i] : i \in 1 .. n} : state'[d] = "delivering" /\ lease'[d] >= 0
      BY <1>2, <1>4, ConstantsAssumption
    <2>2. \A o \in Workers \ {w} : \A d \in Held(o) : state'[d] = "delivering" /\ lease'[d] >= 0
      BY <1>2, <1>4, <1>7 DEF LeaseInv, HeldIsLeased
    <2> QED
      BY <1>8, <2>1, <2>2 DEF HeldIsLeased
  <1> QED
    BY <1>6, <1>9, <1>10 DEF LeaseInv

LEMMA RecordKeeps ==
  ASSUME LeaseInv, AttemptsInv', NEW w \in Workers, Record(w)
  PROVE  LeaseInv'
  <1> DEFINE d == Head(queue[w])
  <1>1. queue[w] # <<>> /\ queue' = [queue EXCEPT ![w] = Tail(@)]
    BY DEF Record, NextRow, LeaseInv, AttemptsInv, BusyOnSomething
  <1>2. /\ d \in Held(w) /\ HeldOnce'
        /\ Held(w)' \subseteq Held(w) \ {d}
        /\ \A o \in Workers \ {w} : Held(o)' = Held(o)
    BY <1>1, Shrinks
  <1>3. \A e \in Deliveries \ {d} : state'[e] = state[e] /\ lease'[e] = lease[e]
    BY DEF Record, LeaseInv, AttemptsInv, TypeOK
  <1>4. \A o \in Workers : Held(o) \subseteq Deliveries
    BY HeldDelivery
  <1> HIDE DEF d
  <1>5. \A o \in Workers : d \notin Held(o)' /\ Held(o)' \subseteq Held(o)
    BY <1>2 DEF LeaseInv, OneHolder
  <1> QED
    BY <1>2, <1>3, <1>4, <1>5, LeaseKept DEF LeaseInv, HeldIsLeased

LEMMA CrashKeeps ==
  ASSUME LeaseInv, AttemptsInv', NEW w \in Workers, Crash(w)
  PROVE  LeaseInv'
  <1>1. queue'[w] = <<>> /\ DOMAIN queue'[w] = {} /\ \A o \in Workers \ {w} : queue'[o] = queue[o]
    BY DEF Crash, LeaseInv, AttemptsInv, TypeOK
  <1>2. HeldOnce' /\ \A o \in Workers : Held(o)' \subseteq Held(o)
    BY <1>1 DEF LeaseInv, HeldOnce, Held
  <1>3. UNCHANGED <<state, lease>>
    BY DEF Crash, rows
  <1> QED
    BY <1>2, <1>3, LeaseKept DEF LeaseInv, HeldIsLeased

LEMMA TickKeeps ==
  ASSUME Timely, LeaseInv, AttemptsInv', Tick
  PROVE  LeaseInv'
  <1>1. UNCHANGED <<queue, state>>
    BY DEF Tick, memory
  <1>2. HeldOnce' /\ \A o \in Workers : Held(o)' = Held(o)
    BY <1>1 DEF LeaseInv, HeldOnce, Held
  <1>3. \A o \in Workers : \A d \in Held(o) : d \in Deliveries /\ lease[d] > 0 /\ lease[d] \in Int
    BY HeldDelivery DEF Tick, LeaseInv, HeldIsLeased, AttemptsInv, TypeOK
  <1>4. \A o \in Workers : \A d \in Held(o) : lease'[d] >= 0
    BY <1>3 DEF Tick
  <1> QED
    BY <1>1, <1>2, <1>4, LeaseKept DEF LeaseInv, HeldIsLeased

LEMMA EnqueueKeeps ==
  ASSUME LeaseInv, AttemptsInv', NEW d \in Deliveries, Enqueue(d)
  PROVE  LeaseInv'
  <1>1. UNCHANGED <<queue, lease>>
    BY DEF Enqueue, memory
  <1>2. HeldOnce' /\ \A o \in Workers : Held(o)' = Held(o)
    BY <1>1 DEF LeaseInv, HeldOnce, Held
  <1>3. \A e \in Deliveries \ {d} : state'[e] = state[e]
    BY DEF Enqueue, LeaseInv, AttemptsInv, TypeOK
  <1>4. \A o \in Workers : d \notin Held(o) /\ Held(o) \subseteq Deliveries
    BY HeldDelivery DEF Enqueue, LeaseInv, HeldIsLeased
  <1> QED
    BY <1>1, <1>2, <1>3, <1>4, LeaseKept DEF LeaseInv, HeldIsLeased

LEMMA NextKeepsLeases ==
  ASSUME Timely, LeaseInv, [Next]_vars
  PROVE  LeaseInv'
  <1>0. AttemptsInv'
    BY NextAttempts DEF LeaseInv
  <1>1. ASSUME NEW d \in Deliveries, Enqueue(d) PROVE LeaseInv'
    BY <1>0, <1>1, EnqueueKeeps
  <1>2. ASSUME NEW u \in Subscriptions, Deactivate(u) PROVE LeaseInv'
    BY <1>0, <1>2, LeaseSame DEF Deactivate, rows, memory
  <1>3. ASSUME NEW w \in Workers, LeaseDue(w) PROVE LeaseInv'
    BY <1>0, <1>3, LeaseDueKeeps
  <1>4. ASSUME NEW w \in Workers, Attempt(w) PROVE LeaseInv'
    <2>1. CASE Skip(w)
      BY <1>0, <2>1, LeaseShrinks DEF Skip, Loading, rows
    <2>2. CASE Load(w)
      BY <1>0, <2>2, LeaseSame DEF Load, rows
    <2>3. ASSUME NEW a \in HttpAnswer, Send(w, a) PROVE LeaseInv'
      BY <1>0, <2>3, LeaseSame DEF Send, rows
    <2>4. CASE Record(w)
      BY <1>0, <2>4, RecordKeeps
    <2> QED
      BY <1>4, <2>1, <2>2, <2>3, <2>4 DEF Attempt
  <1>5. ASSUME NEW w \in Workers, Drop(w) PROVE LeaseInv'
    <2>1. queue[w] # <<>>
      BY <1>5 DEF Drop, LeaseInv, AttemptsInv, BusyOnSomething
    <2> QED
      BY <1>0, <1>5, <2>1, LeaseShrinks DEF Drop, rows
  <1>6. ASSUME NEW w \in Workers, Crash(w) PROVE LeaseInv'
    BY <1>0, <1>6, CrashKeeps
  <1>7. CASE Tick
    BY <1>0, <1>7, TickKeeps
  <1>8. CASE UNCHANGED vars
    BY <1>0, <1>8, LeaseSame DEF vars
  <1> QED
    BY <1>1, <1>2, <1>3, <1>4, <1>5, <1>6, <1>7, <1>8 DEF Next

\* A step changes no settled delivery.
LEMMA NextKeepsSettled ==
  ASSUME LeaseInv, [Next]_vars, NEW d \in Deliveries, Settled(d)
  PROVE  state'[d] = state[d]
  <1>1. ASSUME NEW e \in Deliveries, Enqueue(e) PROVE state'[d] = state[d]
    BY <1>1 DEF Enqueue, Settled, LeaseInv, AttemptsInv, TypeOK
  <1>2. ASSUME NEW w \in Workers, LeaseDue(w) PROVE state'[d] = state[d]
    <2>1. ~Available(d)
      BY DEF Available, Settled
    <2>2. PICK n \in 1 .. BatchLimit : \E q \in [1 .. n -> {e \in Deliveries : Available(e)}] :
            state' = [e \in Deliveries |->
                        IF \E i \in 1 .. n : q[i] = e THEN "delivering" ELSE state[e]]
      BY <1>2 DEF LeaseDue
    <2> QED
      BY <2>1, <2>2
  <1>3. ASSUME NEW w \in Workers, Record(w) PROVE state'[d] = state[d]
    <2>1. queue[w] # <<>> /\ queue[w] \in Seq(Deliveries)
      BY <1>3 DEF Record, LeaseInv, AttemptsInv, TypeOK, BusyOnSomething
    <2>2. Head(queue[w]) \in Held(w)
      BY <2>1, HeadTail DEF Held
    <2>3. Head(queue[w]) # d
      BY <2>2 DEF LeaseInv, HeldIsLeased, Settled
    <2> QED
      BY <1>3, <2>3 DEF Record, LeaseInv, AttemptsInv, TypeOK
  <1>4. ASSUME NEW w \in Workers, Skip(w) \/ Load(w) \/ Drop(w) \/ Crash(w)
        PROVE  state'[d] = state[d]
    BY <1>4 DEF Skip, Load, Drop, Crash, rows
  <1>5. ASSUME NEW w \in Workers, NEW a \in HttpAnswer, Send(w, a) PROVE state'[d] = state[d]
    BY <1>5 DEF Send, rows
  <1>6. ASSUME NEW u \in Subscriptions, Deactivate(u) PROVE state'[d] = state[d]
    BY <1>6 DEF Deactivate, rows
  <1>7. CASE Tick \/ UNCHANGED vars
    BY <1>7 DEF Tick, vars
  <1> QED
    BY <1>1, <1>2, <1>3, <1>4, <1>5, <1>6, <1>7 DEF Next, Attempt

\* While a worker has a delivery in its batch, that delivery is leased and its lease runs.
THEOREM LeaseInvariant ==
  ASSUME Timely
  PROVE  Spec => []LeaseInv
  <1>1. LeaseInv /\ [Next]_vars => LeaseInv'
    BY NextKeepsLeases
  <1> QED
    BY <1>1, LeaseInit, PTL DEF Spec

\* If every batch is worked off within its lease, no two replicas have a delivery.
THEOREM OneHolderAtATime ==
  ASSUME Timely
  PROVE  Spec => []OneHolder
  BY LeaseInvariant, PTL DEF LeaseInv

\* Under the same condition a delivered or dead delivery is never written again.
THEOREM SettledForGood ==
  ASSUME Timely
  PROVE  Spec => SettledIsFinal
  <1>1. LeaseInv /\ [Next]_vars => [\A d \in Deliveries : Settled(d) => state'[d] = state[d]]_vars
    BY NextKeepsSettled
  <1> QED
    BY <1>1, LeaseInvariant, PTL DEF Spec, SettledIsFinal
-----------------------------------------------------------------------------
(* Backoff, which needs no lease to be kept: what is being delivered was    *)
(* due when it was leased, and stays so.                                    *)

DeliveringIsDue == \A d \in Deliveries : state[d] = "delivering" => due[d] <= 0

\* A batch is taken of due rows, or of rows whose lease has lapsed.
LEMMA LeaseTakesDue ==
  ASSUME AttemptsInv, DeliveringIsDue, NEW w \in Workers, LeaseDue(w)
  PROVE  DeliveringIsDue'
<1>1. PICK n \in 1 .. BatchLimit : \E q \in [1 .. n -> {d \in Deliveries : Available(d)}] :
        state' = [d \in Deliveries |->
                    IF \E i \in 1 .. n : q[i] = d THEN "delivering" ELSE state[d]]
  BY DEF LeaseDue
<1>2. PICK q \in [1 .. n -> {d \in Deliveries : Available(d)}] :
        state' = [d \in Deliveries |->
                    IF \E i \in 1 .. n : q[i] = d THEN "delivering" ELSE state[d]]
  BY <1>1
<1>3. \A d \in Deliveries : (\E i \in 1 .. n : q[i] = d) => due[d] <= 0
  BY DEF Available, DeliveringIsDue
<1> QED BY <1>2, <1>3 DEF LeaseDue, DeliveringIsDue

LEMMA RecordKeepsDue ==
  ASSUME AttemptsInv, DeliveringIsDue, NEW w \in Workers, Record(w)
  PROVE  DeliveringIsDue'
<1>1. \A e \in Deliveries \ {Head(queue[w])} : state'[e] = state[e] /\ due'[e] = due[e]
  BY DEF Record, AttemptsInv, TypeOK
<1>2. Head(queue[w]) \in Deliveries => state'[Head(queue[w])] # "delivering"
  BY DEF Record, AttemptsInv, TypeOK
<1> QED BY <1>1, <1>2 DEF DeliveringIsDue

LEMMA NextKeepsDue ==
  ASSUME AttemptsInv, DeliveringIsDue, [Next]_vars
  PROVE  DeliveringIsDue'
<1>1. ASSUME NEW d \in Deliveries, Enqueue(d) PROVE DeliveringIsDue'
  BY <1>1 DEF Enqueue, DeliveringIsDue, AttemptsInv, TypeOK
<1>2. ASSUME NEW w \in Workers, LeaseDue(w) PROVE DeliveringIsDue'
  BY <1>2, LeaseTakesDue
<1>3. ASSUME NEW w \in Workers, Record(w) PROVE DeliveringIsDue'
  BY <1>3, RecordKeepsDue
<1>4. ASSUME NEW w \in Workers, Skip(w) \/ Load(w) \/ Drop(w) \/ Crash(w) PROVE DeliveringIsDue'
  BY <1>4 DEF Skip, Load, Drop, Crash, rows, DeliveringIsDue
<1>5. ASSUME NEW w \in Workers, NEW a \in HttpAnswer, Send(w, a) PROVE DeliveringIsDue'
  BY <1>5 DEF Send, rows, DeliveringIsDue
<1>6. ASSUME NEW u \in Subscriptions, Deactivate(u) PROVE DeliveringIsDue'
  BY <1>6 DEF Deactivate, rows, DeliveringIsDue
<1>7. CASE Tick
  <2>1. \A d \in Deliveries : due[d] \in Int /\ due'[d] <= due[d]
    BY <1>7 DEF Tick, AttemptsInv, TypeOK
  <2>2. due' \in [Deliveries -> Int] /\ state' = state
    BY <1>7 DEF Tick, AttemptsInv, TypeOK
  <2> QED BY <2>1, <2>2 DEF DeliveringIsDue
<1>8. CASE UNCHANGED vars
  BY <1>8 DEF vars, DeliveringIsDue
<1> QED BY <1>1, <1>2, <1>3, <1>4, <1>5, <1>6, <1>7, <1>8 DEF Next, Attempt

\* Only Send sends, and it sends the delivery at the head of its worker's batch.
LEMMA SendsHead ==
  ASSUME LeaseInv, [Next]_vars, NEW d \in Deliveries, sent'[d] > sent[d]
  PROVE  state[d] = "delivering"
<1>1. sent \in [Deliveries -> Nat]
  BY DEF LeaseInv, AttemptsInv, TypeOK
<1>2. ASSUME NEW w \in Workers, NEW a \in HttpAnswer, Send(w, a) PROVE state[d] = "delivering"
  <2>1. queue[w] \in Seq(Deliveries) /\ queue[w] # <<>>
    BY <1>2 DEF Send, LeaseInv, AttemptsInv, TypeOK, BusyOnSomething
  <2>2. Head(queue[w]) \in Held(w)
    BY <2>1, HeadTail DEF Held
  <2>3. d = Head(queue[w])
    BY <1>1, <1>2 DEF Send
  <2> QED BY <2>2, <2>3 DEF LeaseInv, HeldIsLeased
<1>3. CASE UNCHANGED sent
  BY <1>1, <1>3
<1> QED
  BY <1>2, <1>3 DEF Next, Attempt, Enqueue, Deactivate, LeaseDue, Skip, Load, Record, Drop, Crash,
                    Tick, vars

\* No request is sent before next_attempt_at, if every batch is worked off within
\* its lease.
THEOREM BackoffIsRespected ==
  ASSUME Timely
  PROVE  Spec => BackoffRespected
<1>1. Init => DeliveringIsDue
  BY DEF Init, DeliveringIsDue
<1>2. LeaseInv /\ DeliveringIsDue /\ [Next]_vars => DeliveringIsDue'
  BY NextKeepsDue DEF LeaseInv
<1>3. LeaseInv /\ DeliveringIsDue /\ [Next]_vars =>
        [\A d \in Deliveries : sent'[d] > sent[d] => due[d] <= 0]_vars
  BY SendsHead DEF DeliveringIsDue
<1> QED BY LeaseInvariant, <1>1, <1>2, <1>3, PTL DEF Spec, BackoffRespected
-----------------------------------------------------------------------------
(* Counting requests.  A worker that has a row knows its attempt_count,     *)
(* because no one else writes it, and at most one request for a delivery is *)
(* in flight.                                                               *)

FliesWith(w, d) == InFlight(w) /\ Head(queue[w]) = d

Knows(w) ==
    pc[w] = "send" \/ (pc[w] = "record" /\ answer[w] # "inactive") =>
      tries[w] = attempts[Head(queue[w])] + 1

Counted(d) == \/ sent[d] <= attempts[d] + lost[d]
              \/ /\ sent[d] <= attempts[d] + lost[d] + 1
                 /\ \E w \in Workers : FliesWith(w, d)

CountInv == (\A w \in Workers : Knows(w)) /\ \A d \in Deliveries : Counted(d)

LEMMA CountInit == Init => CountInv
  BY DEF Init, CountInv, Knows, Counted

\* What a busy worker is busy with.
LEMMA HeadHeld ==
  ASSUME LeaseInv, NEW w \in Workers, pc[w] # "next" \/ queue[w] # <<>>
  PROVE  /\ queue[w] # <<>> /\ Head(queue[w]) \in Held(w) /\ Head(queue[w]) \in Deliveries
         /\ state[Head(queue[w])] = "delivering"
         /\ \A o \in Workers \ {w} : Head(queue[w]) \notin Held(o)
<1>1. queue[w] # <<>> /\ queue[w] \in Seq(Deliveries)
  BY DEF LeaseInv, AttemptsInv, TypeOK, BusyOnSomething
<1>2. Head(queue[w]) \in Held(w) /\ Head(queue[w]) \in Deliveries
  BY <1>1, HeadTail DEF Held
<1> QED BY <1>1, <1>2 DEF LeaseInv, HeldIsLeased, OneHolder

\* Nobody else is sending, or writing the result of, what worker w is busy with.
LEMMA AloneWith ==
  ASSUME LeaseInv, NEW w \in Workers, pc[w] # "next", NEW o \in Workers \ {w}, pc[o] # "next"
  PROVE  Head(queue[o]) # Head(queue[w])
  BY HeadHeld

LEMMA NumbersOf ==
  ASSUME LeaseInv, NEW d \in Deliveries
  PROVE  attempts[d] \in Nat /\ sent[d] \in Nat /\ lost[d] \in Nat
  BY ConstantsAssumption DEF LeaseInv, AttemptsInv, TypeOK

\* A step that leaves the counts and the flights of a delivery alone.
LEMMA CountKept ==
  ASSUME NEW d \in Deliveries, Counted(d),
         sent'[d] = sent[d], attempts'[d] = attempts[d], lost'[d] = lost[d],
         \A o \in Workers : FliesWith(o, d) => FliesWith(o, d)'
  PROVE  Counted(d)'
  BY DEF Counted

LEMMA LeaseDueCounts ==
  ASSUME LeaseInv, CountInv, NEW w \in Workers, LeaseDue(w)
  PROVE  CountInv'
<1>1. pc[w] = "next" /\ \A o \in Workers \ {w} : queue'[o] = queue[o]
  BY DEF LeaseDue, LeaseInv, AttemptsInv, TypeOK, BusyOnSomething
<1>2. UNCHANGED <<attempts, pc, tries, answer, sent, lost>>
  BY DEF LeaseDue
<1>3. \A o \in Workers : Knows(o)'
  BY <1>1, <1>2 DEF CountInv, Knows
<1>4. \A d \in Deliveries : Counted(d)'
  BY <1>1, <1>2, CountKept DEF CountInv, FliesWith, InFlight
<1> QED BY <1>3, <1>4 DEF CountInv

LEMMA LoadCounts ==
  ASSUME LeaseInv, CountInv, NEW w \in Workers, Skip(w) \/ Load(w)
  PROVE  CountInv'
<1>1. /\ \A o \in Workers \ {w} : /\ queue'[o] = queue[o] /\ pc'[o] = pc[o]
                                  /\ tries'[o] = tries[o] /\ answer'[o] = answer[o]
      /\ pc[w] = "next" /\ UNCHANGED <<attempts, sent, lost>>
  BY DEF Skip, Load, NextRow, Loading, rows, LeaseInv, AttemptsInv, TypeOK
<1>2. Knows(w)'
  <2>1. CASE Skip(w)
    BY <2>1 DEF Skip, NextRow, LeaseInv, AttemptsInv, TypeOK, Knows
  <2>2. CASE Load(w)
    BY <2>2 DEF Load, rows, LeaseInv, AttemptsInv, TypeOK, Knows
  <2> QED BY <2>1, <2>2
<1>3. \A o \in Workers : Knows(o)'
  BY <1>1, <1>2 DEF CountInv, Knows
<1>4. \A d \in Deliveries : Counted(d)'
  BY <1>1, CountKept DEF CountInv, FliesWith, InFlight
<1> QED BY <1>3, <1>4 DEF CountInv

LEMMA SendCounts ==
  ASSUME LeaseInv, CountInv, NEW w \in Workers, NEW a \in HttpAnswer, Send(w, a)
  PROVE  CountInv'
<1>0. PICK d \in Deliveries : d = Head(queue[w])
  BY HeadHeld DEF Send
<1>1. /\ pc[w] = "send" /\ UNCHANGED <<attempts, queue, tries, lost>>
      /\ sent' = [sent EXCEPT ![d] = @ + 1]
      /\ answer' = [answer EXCEPT ![w] = a] /\ pc' = [pc EXCEPT ![w] = "record"]
  BY <1>0 DEF Send, rows
<1>2. /\ \A o \in Workers \ {w} : pc'[o] = pc[o] /\ answer'[o] = answer[o]
      /\ pc'[w] = "record" /\ answer'[w] = a
  BY <1>1 DEF LeaseInv, AttemptsInv, TypeOK
<1>3. \A o \in Workers : Knows(o)'
  BY <1>1, <1>2 DEF CountInv, Knows
<1>4. \A o \in Workers : ~ FliesWith(o, d)
  <2>2. ~ FliesWith(w, d)
    BY <1>1 DEF FliesWith, InFlight
  <2>3. \A o \in Workers \ {w} : ~ FliesWith(o, d)
    BY <1>0, <1>1, AloneWith DEF FliesWith, InFlight
  <2> QED BY <2>2, <2>3
<1>5. Counted(d)'
  <2>1. sent[d] <= attempts[d] + lost[d]
    BY <1>4 DEF CountInv, Counted
  <2>2. sent'[d] = sent[d] + 1
    BY <1>1 DEF LeaseInv, AttemptsInv, TypeOK
  <2>3. FliesWith(w, d)'
    BY <1>0, <1>1, <1>2 DEF FliesWith, InFlight, HttpAnswer
  <2> QED BY <1>1, <1>4, <2>1, <2>2, <2>3, NumbersOf DEF Counted
<1>6. ASSUME NEW e \in Deliveries, e # d PROVE Counted(e)'
  <2>1. sent'[e] = sent[e]
    BY <1>1, <1>6 DEF LeaseInv, AttemptsInv, TypeOK
  <2>2. \A o \in Workers : FliesWith(o, e) => FliesWith(o, e)'
    BY <1>0, <1>1, <1>2, <1>6 DEF FliesWith, InFlight
  <2>3. attempts'[e] = attempts[e] /\ lost'[e] = lost[e] /\ Counted(e)
    BY <1>1 DEF CountInv
  <2> QED BY <2>1, <2>2, <2>3, CountKept
<1> QED BY <1>3, <1>5, <1>6 DEF CountInv

\* Worker w leaves the row at the head of its batch, with at least as many counted
\* or lost requests as had been sent.
LEMMA LandCounts ==
  ASSUME LeaseInv, CountInv, NEW w \in Workers, NEW d \in Deliveries,
         queue[w] # <<>>, d = Head(queue[w]), pc'[w] = "next",
         \A o \in Workers \ {w} : /\ queue'[o] = queue[o] /\ pc'[o] = pc[o]
                                  /\ tries'[o] = tries[o] /\ answer'[o] = answer[o],
         sent' = sent,
         \A e \in Deliveries \ {d} : attempts'[e] = attempts[e] /\ lost'[e] = lost[e],
         attempts'[d] \in Nat, lost'[d] \in Nat,
         IF InFlight(w) THEN attempts'[d] + lost'[d] >= attempts[d] + lost[d] + 1
                        ELSE attempts'[d] + lost'[d] >= attempts[d] + lost[d]
  PROVE  CountInv'
<1>0. \A o \in Workers \ {w} : pc[o] # "next" => Head(queue[o]) \in Deliveries \ {d}
  BY HeadHeld
<1>1. \A o \in Workers : Knows(o)'
  BY <1>0 DEF CountInv, Knows
<1>2. \A o \in Workers \ {w} : ~ FliesWith(o, d)
  BY <1>0 DEF FliesWith, InFlight
<1>3. Counted(d)'
  <2>1. sent[d] <= attempts'[d] + lost'[d]
    <3>1. attempts[d] \in Nat /\ sent[d] \in Nat /\ lost[d] \in Nat
      BY NumbersOf
    <3>2. CASE InFlight(w)
      <4>1. sent[d] <= attempts[d] + lost[d] + 1
        BY <3>1 DEF CountInv, Counted
      <4>2. attempts'[d] + lost'[d] >= attempts[d] + lost[d] + 1
        BY <3>2
      <4> QED BY <3>1, <4>1, <4>2
    <3>3. CASE ~ InFlight(w)
      <4>1. \A o \in Workers : ~ FliesWith(o, d)
        BY <1>2, <3>3 DEF FliesWith
      <4>2. sent[d] <= attempts[d] + lost[d]
        BY <4>1 DEF CountInv, Counted
      <4>3. attempts'[d] + lost'[d] >= attempts[d] + lost[d]
        BY <3>3
      <4> QED BY <3>1, <4>2, <4>3
    <3> QED BY <3>2, <3>3
  <2> QED BY <2>1 DEF Counted
<1>4. ASSUME NEW e \in Deliveries, e # d PROVE Counted(e)'
  <2>1. \A o \in Workers : FliesWith(o, e) => FliesWith(o, e)'
    BY <1>4 DEF FliesWith, InFlight
  <2> QED BY <1>4, <2>1, CountKept DEF CountInv
<1> QED BY <1>1, <1>3, <1>4 DEF CountInv

LEMMA RecordCounts ==
  ASSUME LeaseInv, CountInv, NEW w \in Workers, Record(w)
  PROVE  CountInv'
<1>1. PICK d \in Deliveries : d = Head(queue[w]) /\ queue[w] # <<>>
  BY HeadHeld DEF Record
<1>2. /\ \A o \in Workers \ {w} : /\ queue'[o] = queue[o] /\ pc'[o] = pc[o]
                                  /\ tries'[o] = tries[o] /\ answer'[o] = answer[o]
      /\ pc'[w] = "next" /\ UNCHANGED <<sent, lost>>
  BY DEF Record, NextRow, LeaseInv, AttemptsInv, TypeOK
<1>3. attempts \in [Deliveries -> Nat] /\ lost[d] \in Nat
  BY ConstantsAssumption DEF LeaseInv, AttemptsInv, TypeOK
<1>4. CASE answer[w] = "inactive"
  <2>1. attempts' = attempts /\ ~ InFlight(w)
    BY <1>4 DEF Record, WriteAttempt, InFlight, HttpAnswer
  <2> QED BY <1>1, <1>2, <1>3, <2>1, LandCounts
<1>5. CASE answer[w] # "inactive"
  <2>1. attempts' = [attempts EXCEPT ![d] = tries[w]]
    BY <1>1, <1>5 DEF Record, WriteAttempt
  <2>2. tries[w] = attempts[d] + 1
    BY <1>1, <1>5 DEF Record, CountInv, Knows
  <2>3. attempts'[d] = attempts[d] + 1 /\ \A e \in Deliveries \ {d} : attempts'[e] = attempts[e]
    BY <1>3, <2>1, <2>2
  <2>4. attempts'[d] + lost'[d] = attempts[d] + lost[d] + 1 /\ attempts'[d] \in Nat
    BY <1>2, <1>3, <2>3
  <2>5. /\ attempts'[d] + lost'[d] >= attempts[d] + lost[d] + 1
        /\ attempts'[d] + lost'[d] >= attempts[d] + lost[d]
    BY <1>3, <2>4
  <2> QED BY <1>1, <1>2, <1>3, <2>3, <2>4, <2>5, LandCounts
<1> QED BY <1>4, <1>5

LEMMA FailureCounts ==
  ASSUME LeaseInv, CountInv, NEW w \in Workers, Drop(w) \/ Crash(w)
  PROVE  CountInv'
<1>1. PICK d \in Deliveries : d = Head(queue[w]) /\ queue[w] # <<>>
  BY HeadHeld DEF Drop, Crash
<1>2. /\ \A o \in Workers \ {w} : /\ queue'[o] = queue[o] /\ pc'[o] = pc[o]
                                  /\ tries'[o] = tries[o] /\ answer'[o] = answer[o]
      /\ pc'[w] = "next" /\ UNCHANGED <<sent, attempts>>
  BY DEF Drop, Crash, NextRow, rows, LeaseInv, AttemptsInv, TypeOK
<1>3. attempts[d] \in Nat /\ lost \in [Deliveries -> Nat] /\ attempts'[d] \in Nat
  BY <1>2, ConstantsAssumption DEF LeaseInv, AttemptsInv, TypeOK
<1>4. IF InFlight(w) THEN lost' = [lost EXCEPT ![d] = @ + 1] ELSE lost' = lost
  BY <1>1 DEF Drop, Crash, Forget
<1>5. /\ \A e \in Deliveries \ {d} : lost'[e] = lost[e]
      /\ lost'[d] \in Nat
      /\ IF InFlight(w) THEN lost'[d] = lost[d] + 1 ELSE lost'[d] = lost[d]
  BY <1>3, <1>4
<1>6. IF InFlight(w) THEN attempts'[d] + lost'[d] >= attempts[d] + lost[d] + 1
                     ELSE attempts'[d] + lost'[d] >= attempts[d] + lost[d]
  BY <1>2, <1>3, <1>5
<1> QED BY <1>1, <1>2, <1>3, <1>5, <1>6, LandCounts

LEMMA NextCounts ==
  ASSUME LeaseInv, CountInv, [Next]_vars
  PROVE  CountInv'
<1>1. CASE UNCHANGED <<attempts, memory, sent, lost>>
  BY <1>1 DEF memory, CountInv, Knows, Counted, FliesWith, InFlight
<1>2. ASSUME NEW w \in Workers, LeaseDue(w) PROVE CountInv'
  BY <1>2, LeaseDueCounts
<1>3. ASSUME NEW w \in Workers, Attempt(w) PROVE CountInv'
  BY <1>3, LoadCounts, SendCounts, RecordCounts DEF Attempt
<1>4. ASSUME NEW w \in Workers, Drop(w) \/ Crash(w) PROVE CountInv'
  BY <1>4, FailureCounts
<1> QED BY <1>1, <1>2, <1>3, <1>4 DEF Next, Enqueue, Deactivate, Tick, rows, memory, vars

LEMMA CountInvariant ==
  ASSUME Timely
  PROVE  Spec => [](LeaseInv /\ CountInv)
<1>1. LeaseInv /\ CountInv /\ [Next]_vars => CountInv'
  BY NextCounts
<1> QED BY LeaseInvariant, CountInit, <1>1, PTL DEF Spec

\* A delivery has at most one request in flight.
LEMMA OneFlight ==
  ASSUME LeaseInv, NEW d \in Deliveries, NEW w \in Workers, FliesWith(w, d)
  PROVE  Cardinality({o \in Workers : InFlight(o) /\ Head(queue[o]) = d}) = 1
<1>1. \A o \in Workers \ {w} : ~ FliesWith(o, d)
  BY AloneWith DEF FliesWith, InFlight
<1>2. {o \in Workers : InFlight(o) /\ Head(queue[o]) = d} = {w}
  BY <1>1 DEF FliesWith
<1> QED BY <1>2, FS_Singleton

\* If every batch is worked off within its lease, every request that left is
\* counted in attempt_count, is in flight, or was lost with its transaction.
THEOREM SendsCounted ==
  ASSUME Timely
  PROVE  Spec => []EverySendCounted
<1>1. LeaseInv /\ CountInv => EverySendCounted
  <2> SUFFICES ASSUME LeaseInv, CountInv, NEW d \in Deliveries
               PROVE  LET flying == {w \in Workers : InFlight(w) /\ Head(queue[w]) = d} IN
                      sent[d] <= attempts[d] + lost[d] + Cardinality(flying)
    BY DEF EverySendCounted
  <2> DEFINE flying == {w \in Workers : InFlight(w) /\ Head(queue[w]) = d}
  <2>1. CASE \E w \in Workers : FliesWith(w, d)
    <3>1. Cardinality(flying) = 1
      BY <2>1, OneFlight
    <3>2. attempts[d] \in Nat /\ sent[d] \in Nat /\ lost[d] \in Nat
      BY NumbersOf
    <3>3. sent[d] <= attempts[d] + lost[d] + 1
      BY <3>2 DEF CountInv, Counted
    <3> HIDE DEF flying
    <3>4. sent[d] <= attempts[d] + lost[d] + Cardinality(flying)
      BY <3>1, <3>3
    <3> QED BY <3>4 DEF flying
  <2>2. CASE ~ \E w \in Workers : FliesWith(w, d)
    <3>1. flying = {}
      BY <2>2 DEF FliesWith
    <3>2. Cardinality(flying) = 0
      BY <3>1, FS_EmptySet
    <3>3. attempts[d] \in Nat /\ sent[d] \in Nat /\ lost[d] \in Nat
      BY NumbersOf
    <3>4. sent[d] <= attempts[d] + lost[d]
      BY <2>2 DEF CountInv, Counted
    <3> HIDE DEF flying
    <3>5. sent[d] <= attempts[d] + lost[d] + Cardinality(flying)
      BY <3>2, <3>3, <3>4
    <3> QED BY <3>5 DEF flying
  <2> QED BY <2>1, <2>2
<1> QED BY CountInvariant, <1>1, PTL
-----------------------------------------------------------------------------
(* The refinement: what is pending, leased or waiting for a retry is open.  *)

Open == {"pending", "delivering", "retrying"}
Status == [d \in Deliveries |-> IF state[d] \in Open THEN "open" ELSE state[d]]

\* A step that leaves every status and every attempt_count.
LEMMA OutboxStutters ==
  ASSUME UNCHANGED attempts, \A d \in Deliveries : Status'[d] = Status[d]
  PROVE  UNCHANGED OutboxOf!vars
<1>1. Status' = Status
  BY DEF Status
<1> QED BY <1>1 DEF OutboxOf!vars, Status, Open

LEMMA LeaseStutters ==
  ASSUME AttemptsInv, NEW w \in Workers, LeaseDue(w)
  PROVE  UNCHANGED OutboxOf!vars
<1>1. PICK n \in 1 .. BatchLimit : \E q \in [1 .. n -> {d \in Deliveries : Available(d)}] :
        state' = [d \in Deliveries |->
                    IF \E i \in 1 .. n : q[i] = d THEN "delivering" ELSE state[d]]
  BY DEF LeaseDue
<1>2. PICK q \in [1 .. n -> {d \in Deliveries : Available(d)}] :
        state' = [d \in Deliveries |->
                    IF \E i \in 1 .. n : q[i] = d THEN "delivering" ELSE state[d]]
  BY <1>1
<1>3. \A d \in Deliveries : (\E i \in 1 .. n : q[i] = d) => state[d] \in Open
  BY DEF Available, Open
<1>4. \A d \in Deliveries : Status'[d] = Status[d]
  BY <1>2, <1>3 DEF Status, Open
<1> QED BY <1>4, OutboxStutters DEF LeaseDue

LEMMA EnqueuePromises ==
  ASSUME AttemptsInv, NEW d \in Deliveries, Enqueue(d)
  PROVE  OutboxOf!Next
<1>1. state \in [Deliveries -> DeliveryState]
  BY DEF AttemptsInv, TypeOK
<1>2. Status[d] = "absent" /\ Status' = [Status EXCEPT ![d] = "open"] /\ UNCHANGED attempts
  BY <1>1 DEF Enqueue, Status, Open
<1>3. OutboxOf!Promise(d)
  BY <1>2 DEF OutboxOf!Promise, Status, Open
<1> QED BY <1>3 DEF OutboxOf!Next

\* The end of an attempt on an open delivery.
LEMMA AttemptEnds ==
  ASSUME NEW d \in Deliveries, NEW r \in {"open", "delivered", "dead"},
         Status[d] = "open", attempts[d] < MaxAttempts,
         r = "open" => attempts[d] + 1 < MaxAttempts,
         attempts' = [attempts EXCEPT ![d] = @ + 1],
         Status' = [Status EXCEPT ![d] = r]
  PROVE  OutboxOf!Next
<1>1. OutboxOf!Attempt(d, r)
  BY DEF OutboxOf!Attempt, Status, Open
<1> QED BY <1>1 DEF OutboxOf!Next

LEMMA RecordAttempted ==
  ASSUME LeaseInv, CountInv, NEW w \in Workers, Record(w)
  PROVE  OutboxOf!Next
<1>1. PICK d \in Deliveries : d = Head(queue[w]) /\ state[d] = "delivering"
  BY HeadHeld DEF Record
<1>2. /\ state \in [Deliveries -> DeliveryState] /\ attempts \in [Deliveries -> Nat]
      /\ attempts[d] < MaxAttempts /\ MaxAttempts \in Nat
  <2>1. attempts \in [Deliveries -> 0 .. MaxAttempts] /\ state \in [Deliveries -> DeliveryState]
    BY DEF LeaseInv, AttemptsInv, TypeOK
  <2>2. attempts[d] < MaxAttempts
    BY <1>1 DEF LeaseInv, AttemptsInv, AttemptsLeft, Settled
  <2>3. MaxAttempts \in Nat
    BY ConstantsAssumption
  <2>4. attempts \in [Deliveries -> Nat]
    BY <2>1, <2>3
  <2> QED BY <2>1, <2>2, <2>3, <2>4
<1>3. Status[d] = "open"
  BY <1>1 DEF Status, Open
<1>4. CASE answer[w] = "inactive"
  <2>1. attempts' = attempts /\ state' = [state EXCEPT ![d] = "dead"]
    BY <1>1, <1>4 DEF Record, WriteAttempt
  <2>2. Status' = [Status EXCEPT ![d] = "dead"]
    BY <1>2, <2>1 DEF Status, Open
  <2>3. OutboxOf!Abandon(d)
    BY <1>3, <2>1, <2>2 DEF OutboxOf!Abandon, Status, Open
  <2> QED BY <2>3 DEF OutboxOf!Next
<1>5. CASE answer[w] # "inactive"
  <2>1. tries[w] = attempts[d] + 1 /\ attempts' = [attempts EXCEPT ![d] = @ + 1]
    BY <1>1, <1>5 DEF Record, WriteAttempt, CountInv, Knows
  <2>2. PICK v \in {"delivered", "dead", "retrying"} :
          /\ state' = [state EXCEPT ![d] = v]
          /\ v = "retrying" => ~ Exhausted(tries[w])
    BY <1>1 DEF Record
  <2>3. PICK r \in {"open", "delivered", "dead"} : r = IF v = "retrying" THEN "open" ELSE v
    BY <2>2
  <2>4. Status' = [Status EXCEPT ![d] = r]
    BY <1>2, <2>2, <2>3 DEF Status, Open
  <2>5. r = "open" => attempts[d] + 1 < MaxAttempts
    BY <1>2, <2>1, <2>2, <2>3 DEF Exhausted
  <2> QED BY <1>2, <1>3, <2>1, <2>4, <2>5, AttemptEnds
<1> QED BY <1>4, <1>5

LEMMA StepImplements ==
  ASSUME LeaseInv, CountInv, [Next]_vars
  PROVE  [OutboxOf!Next]_(OutboxOf!vars)
<1>1. ASSUME NEW d \in Deliveries, Enqueue(d) PROVE OutboxOf!Next
  BY <1>1, EnqueuePromises DEF LeaseInv
<1>2. ASSUME NEW w \in Workers, LeaseDue(w) PROVE UNCHANGED OutboxOf!vars
  BY <1>2, LeaseStutters DEF LeaseInv
<1>3. ASSUME NEW w \in Workers, Record(w) PROVE OutboxOf!Next
  BY <1>3, RecordAttempted
<1>4. CASE UNCHANGED <<state, attempts>>
  BY <1>4, OutboxStutters DEF Status
<1> QED
  BY <1>1, <1>2, <1>3, <1>4
  DEF Next, Attempt, Deactivate, Skip, Load, Send, Drop, Crash, Tick, rows, vars

\* If every batch is worked off within its lease, the outbox keeps its promise:
\* whatever workers lease, crash and retry, each delivery gets counted attempts one
\* after another, up to the bound, and an end that stays.
THEOREM OutboxImplemented ==
  ASSUME Timely
  PROVE  Spec => ImplementsOutbox
<1>1. Init => OutboxOf!Init
  BY DEF Init, OutboxOf!Init
<1>2. LeaseInv /\ CountInv /\ [Next]_vars => [OutboxOf!Next]_(OutboxOf!vars)
  BY StepImplements
<1> QED BY CountInvariant, <1>1, <1>2, PTL DEF Spec, ImplementsOutbox, OutboxOf!Spec
=============================================================================
