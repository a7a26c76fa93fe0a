----------------------------- MODULE ChangeFeed -----------------------------
(***************************************************************************)
(* Who hears of a change.  emit_change (services/routes.py) numbers events *)
(* and writes deliveries inside the transactions of the changes;           *)
(* list_changes (api/public.py) shows the events in pages, and             *)
(* api/webhooks.py manages the subscriptions, their secrets and the pages  *)
(* of their deliveries.  Each transaction is READ COMMITTED: a row is      *)
(* visible once the transaction that wrote it has committed.               *)
(***************************************************************************)
EXTENDS Integers, FiniteSets, Sequences

CONSTANTS
    Writers,        \* transactions that announce changes
    EventTypes,
    Announces,      \* the types of the events of each, in order
    Subscriptions,
    Wanted,         \* WebhookSubscription.event_types
    Rotations,      \* calls of rotate_subscription_secret
    RotationOf,     \* the subscription of each
    FirstSalt,      \* the salt of a new subscription
    Limit           \* rows per page

ASSUME ConstantsAssumption ==
    /\ Announces \in [Writers -> Seq(EventTypes)]
    /\ Wanted \in [Subscriptions -> SUBSET EventTypes]
    /\ RotationOf \in [Rotations -> Subscriptions]
    /\ FirstSalt \notin Rotations
    /\ Limit \in Nat \ {0}

VARIABLES
    tx,            \* the writers' transactions
    clock,         \* when the last transaction began: its now()
    number,        \* the last value drawn from the sequence of change_events
    events,        \* rows of change_events
    deliveries,    \* rows of webhook_deliveries
    subscription,  \* WebhookSubscription.active
    span,          \* history: who was active during each transaction
    reader,        \* a client that follows the cursors of the feed
    walk,          \* a client of each that follows the cursors of its deliveries
    rotation,      \* where each rotation is
    salt,          \* WebhookSubscription.secret_salt; the rotation stands for its own
    told           \* history: the salts whose secrets were sent to the client

writing == <<tx, clock, number, events, deliveries>>
subscribing == <<subscription, span>>
secrets == <<rotation, salt, told>>
vars == <<writing, subscribing, reader, walk, secrets>>

Salts == Rotations \cup {FirstSalt}

\* by is the transaction that wrote the row.
Event == [number : Nat, type : EventTypes, by : Writers]
Delivery == [to : Subscriptions, event : Nat, at : Nat, by : Writers]

NotBegun(w) == [pc |-> "idle", began |-> 0, todo |-> Announces[w], event |-> 0]
FromStart == [after |-> 0, got |-> {}, overtaken |-> {}]

\* before: the cursor; owed: of the rows that were there at the start of the walk, those
\* not shown yet; edges: created_at of the last row of each page.
NoWalk == [pc |-> "end", before |-> 0, owed |-> {}, edges |-> {}]

Init ==
    /\ tx = [w \in Writers |-> NotBegun(w)]
    /\ clock = 0 /\ number = 0
    /\ events = {} /\ deliveries = {}
    /\ subscription = [u \in Subscriptions |-> "absent"]
    /\ span = [w \in Writers |-> [throughout |-> {}, sometime |-> {}]]
    /\ reader = FromStart
    /\ walk = [u \in Subscriptions |-> NoWalk]
    /\ rotation = [k \in Rotations |-> "idle"]
    /\ salt = [u \in Subscriptions |-> FirstSalt]
    /\ told = [u \in Subscriptions |-> {}]

-----------------------------------------------------------------------------
(* emit_change, once or more in the transaction of the change *)

Open(w) == tx[w].pc \in {"draw", "fanout"}
Committed(w) == tx[w].pc = "committed"
Active == {u \in Subscriptions : subscription[u] = "active"}

\* created_at of what the transaction writes is the moment it begins; no two begin at once.
Begin(w) ==
    /\ tx[w].pc = "idle"
    /\ clock' = clock + 1
    /\ tx' = [tx EXCEPT ![w].pc = "draw", ![w].began = clock + 1]
    /\ span' = [span EXCEPT ![w] = [throughout |-> Active, sometime |-> Active]]
    /\ UNCHANGED <<number, events, deliveries, subscription, reader, walk, secrets>>

\* The flush inserts the event.  Numbers that are drawn are never given back.
Draw(w) ==
    /\ tx[w].pc = "draw" /\ tx[w].todo # <<>>
    /\ number' = number + 1
    /\ events' = events \cup {[number |-> number + 1, type |-> Head(tx[w].todo), by |-> w]}
    /\ tx' = [tx EXCEPT ![w].pc = "fanout", ![w].event = number + 1]
    /\ UNCHANGED <<clock, deliveries, subscribing, reader, walk, secrets>>

\* Mutant: deactivated subscriptions are not left out.
RecipientsEver(type) ==
    {u \in Subscriptions : subscription[u] # "absent" /\ type \in Wanted[u]}

Recipients(type) == {u \in Active : type \in Wanted[u]}

FanOut(w) ==
    /\ tx[w].pc = "fanout"
    /\ deliveries' = deliveries \cup
         {[to |-> u, event |-> tx[w].event, at |-> tx[w].began, by |-> w] :
            u \in Recipients(Head(tx[w].todo))}
    /\ tx' = [tx EXCEPT ![w].pc = "draw", ![w].todo = Tail(@)]
    /\ UNCHANGED <<clock, number, events, subscribing, reader, walk, secrets>>

Commit(w) ==
    /\ tx[w].pc = "draw" /\ tx[w].todo = <<>>
    /\ tx' = [tx EXCEPT ![w].pc = "committed"]
    /\ UNCHANGED <<clock, number, events, deliveries, subscribing, reader, walk, secrets>>

\* An error, a deadlock or a crash takes the rows back, and leaves a gap.
Rollback(w) ==
    /\ Open(w)
    /\ tx' = [tx EXCEPT ![w].pc = "rolledback"]
    /\ events' = {e \in events : e.by # w}
    /\ deliveries' = {d \in deliveries : d.by # w}
    /\ UNCHANGED <<clock, number, subscribing, reader, walk, secrets>>

-----------------------------------------------------------------------------
(* The subscriptions *)

CreateSubscription(u) ==
    /\ subscription[u] = "absent"
    /\ subscription' = [subscription EXCEPT ![u] = "active"]
    /\ span' = [w \in Writers |->
                  IF Open(w) THEN [span[w] EXCEPT !.sometime = @ \cup {u}] ELSE span[w]]
    /\ told' = [told EXCEPT ![u] = {FirstSalt}]
    /\ UNCHANGED <<writing, reader, walk, rotation, salt>>

DeleteSubscription(u) ==
    /\ subscription[u] = "active"
    /\ subscription' = [subscription EXCEPT ![u] = "inactive"]
    /\ span' = [w \in Writers |->
                  IF Open(w) THEN [span[w] EXCEPT !.throughout = @ \ {u}] ELSE span[w]]
    /\ UNCHANGED <<writing, reader, walk, secrets>>

\* Mutant: the secret is derived before the new salt is set.
RotateTellingOld(k) ==
    LET u == RotationOf[k] IN
    /\ rotation[k] = "idle" /\ subscription[u] # "absent"
    /\ rotation' = [rotation EXCEPT ![k] = "told"]
    /\ told' = [told EXCEPT ![u] = @ \cup {salt[u]}]
    /\ UNCHANGED <<writing, subscribing, reader, walk, salt>>

\* The response with the new secret is sent before the commit; no row is locked till then.
Rotate(k) ==
    LET u == RotationOf[k] IN
    /\ rotation[k] = "idle" /\ subscription[u] # "absent"
    /\ rotation' = [rotation EXCEPT ![k] = "told"]
    /\ told' = [told EXCEPT ![u] = @ \cup {k}]
    /\ UNCHANGED <<writing, subscribing, reader, walk, salt>>

RotateCommit(k) ==
    /\ rotation[k] = "told"
    /\ rotation' = [rotation EXCEPT ![k] = "done"]
    /\ salt' = [salt EXCEPT ![RotationOf[k]] = k]
    /\ UNCHANGED <<writing, subscribing, reader, walk, told>>

RotateRollback(k) ==
    /\ rotation[k] = "told"
    /\ rotation' = [rotation EXCEPT ![k] = "done"]
    /\ UNCHANGED <<writing, subscribing, reader, walk, salt, told>>

-----------------------------------------------------------------------------
(* list_changes *)

Visible == {e.number : e \in {f \in events : Committed(f.by)}}
Uncommitted == {e.number : e \in {f \in events : Open(f.by)}}

\* A page P of the rows S; there are more rows if it is not all of them.
Fills(P, S) ==
    /\ P \subseteq S
    /\ Cardinality(P) <= Limit
    /\ P # S => Cardinality(P) = Limit

\* Mutant: the row that only tells of a further page becomes the cursor.
ResumesAtLookahead(n, P, S) ==
    n \in S \ P /\ \A q \in S \ P : n <= q

\* The cursor is the last row of the page.
Resumes(n, P, S) == n \in P /\ \A p \in P : p <= n

\* Mutant: the cursor's row is shown again.
AheadOrAt(after) == {n \in Visible : n >= after}

Ahead(after) == {n \in Visible : n > after}

\* Without has_more there is no new cursor: the client keeps the one it has.
Poll ==
    LET S == Ahead(reader.after) IN
    \E P \in SUBSET S : \E n \in S \cup {reader.after} :
      /\ Fills(P, S) /\ \A p \in P, q \in S \ P : p < q
      /\ IF P = S THEN n = reader.after ELSE Resumes(n, P, S)
      /\ reader' = [after |-> n, got |-> reader.got \cup P,
                    overtaken |-> reader.overtaken \cup {m \in Uncommitted : m <= n}]
      /\ UNCHANGED <<writing, subscribing, walk, secrets>>

\* A cursor older than cursor_ttl_seconds is refused: the client starts over.
StartOver ==
    /\ reader # FromStart
    /\ reader' = FromStart
    /\ UNCHANGED <<writing, subscribing, walk, secrets>>

-----------------------------------------------------------------------------
(* list_deliveries *)

DeliveriesOf(u) == {d \in deliveries : d.to = u /\ Committed(d.by)}

\* Mutant: the rows are not ordered.
AnyPage(P, S) == Fills(P, S)

\* ORDER BY created_at DESC, which leaves rows of one moment in any order.
LatestPage(P, S) == Fills(P, S) /\ \A p \in P, q \in S \ P : q.at <= p.at

\* A page of S for the walk t, and the cursor of the next one.
Read(u, S, t) ==
    \E P \in SUBSET S :
      /\ LatestPage(P, S)
      /\ IF P = S
         THEN walk' = [walk EXCEPT ![u] =
                [t EXCEPT !.pc = "end", !.before = 0, !.owed = @ \ P]]
         ELSE \E last \in P :
                /\ \A p \in P : last.at <= p.at
                /\ walk' = [walk EXCEPT ![u] =
                     [t EXCEPT !.pc = "more", !.before = last.at, !.owed = @ \ P,
                               !.edges = @ \cup {last.at}]]

ListFirst(u) ==
    /\ subscription[u] # "absent"
    /\ Read(u, DeliveriesOf(u), [NoWalk EXCEPT !.owed = DeliveriesOf(u)])
    /\ UNCHANGED <<writing, subscribing, reader, secrets>>

ListNext(u) ==
    /\ walk[u].pc = "more"
    /\ Read(u, {d \in DeliveriesOf(u) : d.at < walk[u].before}, walk[u])
    /\ UNCHANGED <<writing, subscribing, reader, secrets>>

-----------------------------------------------------------------------------
Announce(w) == Begin(w) \/ Draw(w) \/ FanOut(w) \/ Commit(w) \/ Rollback(w)
Manage(u) == CreateSubscription(u) \/ DeleteSubscription(u) \/ ListFirst(u) \/ ListNext(u)
RotateSecret(k) == Rotate(k) \/ RotateCommit(k) \/ RotateRollback(k)

Next == \/ \E w \in Writers : Announce(w)
        \/ \E u \in Subscriptions : Manage(u)
        \/ \E k \in Rotations : RotateSecret(k)
        \/ Poll \/ StartOver

Spec == Init /\ [][Next]_vars

\* The client polls, and in the end its cursors no longer expire between two polls.
FairSpec == Spec /\ WF_vars(Poll) /\ <>[][~ StartOver]_vars

-----------------------------------------------------------------------------
(* Properties *)

\* The variables keep their types.
TypeOK ==
    /\ tx \in [Writers -> [pc : {"idle", "draw", "fanout", "committed", "rolledback"},
                           began : Nat, todo : Seq(EventTypes), event : Nat]]
    /\ clock \in Nat /\ number \in Nat
    /\ events \subseteq Event /\ deliveries \subseteq Delivery
    /\ subscription \in [Subscriptions -> {"absent", "active", "inactive"}]
    /\ span \in [Writers -> [throughout : SUBSET Subscriptions, sometime : SUBSET Subscriptions]]
    /\ reader \in [after : Nat, got : SUBSET Nat, overtaken : SUBSET Nat]
    /\ walk \in [Subscriptions -> [pc : {"more", "end"}, before : Nat,
                                   owed : SUBSET Delivery, edges : SUBSET Nat]]
    /\ rotation \in [Rotations -> {"idle", "told", "done"}]
    /\ salt \in [Subscriptions -> Salts] /\ told \in [Subscriptions -> SUBSET Salts]

\* An event that lies behind the reader's cursor and was not shown had drawn its number
\* but was not committed when the cursor passed it: nothing else is ever missed.
MissedWasUncommitted ==
    \A n \in Visible : n <= reader.after => n \in reader.got \cup reader.overtaken

\* An event that is committed is shown in the end, or was passed while uncommitted.
EveryEventShown ==
    \A w \in Writers : Committed(w) ~>
      \A e \in events : e.by = w => e.number \in reader.got \cup reader.overtaken

\* A committed event has a delivery for every subscription that asked for its type and was
\* active throughout the transaction, and for none that was not active during it.
AnnouncedToSubscribers ==
    \A e \in events : Committed(e.by) =>
      LET asked == {u \in Subscriptions : e.type \in Wanted[u]}
          told_of == {d.to : d \in {f \in deliveries : f.event = e.number}}
      IN  /\ span[e.by].throughout \cap asked \subseteq told_of
          /\ told_of \subseteq span[e.by].sometime \cap asked

\* Who follows the cursors of a delivery history to the end has been shown what was there
\* when he began, but for rows that share created_at with the last row of some page.
HistoryMissesOnlyTies ==
    \A u \in Subscriptions : walk[u].pc = "end" =>
      \A d \in walk[u].owed : d.at \in walk[u].edges

\* The secret that signs has been sent to the client, although the response precedes the
\* commit and two rotations may commit in either order.
SigningSecretKnown ==
    \A u \in Subscriptions : subscription[u] # "absent" => salt[u] \in told[u]
=============================================================================
