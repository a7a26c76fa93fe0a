# ExitRoute API: specifications, model checks and proofs

ExitRoute publishes *exit routes*: verified, versioned descriptions of how to
cancel or leave an online service. A FastAPI application and a background worker
share one PostgreSQL database. This directory holds TLA+ modules translated from
that code, TLC configurations that check them on small instances, and theorems
about them that TLAPS checks for every instance.

1. [The system](#1-the-system)
2. [The modules and how they correspond to the code](#2-the-modules)
3. [The runs](#3-the-runs)
4. [The proofs](#4-the-proofs)
5. [Disagreements between the code and its documents](#5-findings)
6. [What is simplified or left out](#6-simplifications-and-omissions)
7. [The plan](#7-plan)

Paths below are relative to `src/src/exitroute/`.

## 1. The system

### Processes

* **API processes** answer requests. Each request runs in one thread with one
  SQLAlchemy session (`api/deps.py`): the session's transaction commits when
  the dependency is resumed after its `yield`, which is after the response was
  sent; an exception rolls it back. The isolation level is PostgreSQL's
  default, READ COMMITTED.
* **Workers** (`cli.py worker`, `jobs.py`) poll in a loop, in any number of
  replicas: send the due webhooks, then mark overdue revisions stale.
* **Operators** use the command line, which calls the same services.
* **Subscribers** are HTTP endpoints outside the system.

Nothing is kept in memory between two requests or two passes, so all
interaction goes through rows: row locks (`FOR UPDATE`, `FOR UPDATE SKIP
LOCKED`), the locks that updates and foreign keys imply, one advisory lock, unique
constraints and a sequence. What makes the code hard is what a session reads
before it holds the lock that would make it true.

### Components

| Component | Code | State | Operations | What makes it correct | Status |
|---|---|---|---|---|---|
| Editorial workflow | `services/routes.py`, `api/admin.py` | `routes`, `route_revisions`, `verification_events`, `change_events` | create a revision, add a verification, publish, withdraw, mark stale | one published revision per route and the route points at it; publication rests on two independent verifications; every change of status raises `status_version` and is announced once; the life cycle only moves forward | modelled, except the creation of services and routes |
| Freshness worker | `jobs.py` | the same rows | lease a batch, mark each revision, commit | an overdue verified revision goes stale, once | modelled |
| Public route reads | `api/public.py` | the same rows (a read may mark stale) | current route, revision by number, list | an overdue revision is not presented as verified | status only |
| Webhook outbox | `services/webhooks.py`, `emit_change` | `webhook_deliveries` | enqueue, lease, send, record, retry, give up | one replica per delivery; bounded attempts; backoff; every delivery settles; a settled one stays | modelled |
| Webhook subscriptions | `api/webhooks.py` | `webhook_subscriptions` | create, rotate the secret, deactivate, list deliveries | who is subscribed throughout is told, and nobody else; the client knows the secret that signs; paging misses only ties | modelled |
| Change feed | `api/public.py`, `emit_change` | `change_events` | page by sequence | a client that follows the cursors sees every event, but for those committed out of order | modelled |
| Authentication and quotas | `services/auth.py`, `api/admin.py` | `api_clients`, `api_keys`, `rate_windows` | create, rotate, revoke, deactivate, admit | a key of an inactive client is useless; a rotated key has one successor; the quota holds across replicas | modelled, without expiry dates and scopes |
| Observations | `api/observations.py`, `api/admin.py` | `observations`, `moderation_events` | submit once per idempotency key, moderate once | one row per key and true receipts; the first decision stands; pages of the queue miss nothing | modelled |
| Daily challenge | `api/challenges.py` | `challenge_assignments` | assign the revision of a date, replace it | one assignment per date, of a revision that was eligible, replaced for cause; nobody waits for ever | modelled |
| Route graph | `domain/graph.py` | none | validate, lowest-effort path | the path is a cheapest one and does not depend on the order of the input; only graphs without a safe way out are refused; the search ends | modelled |
| Cursors and pages | `api/*.py`, `domain/security.py` | none | encode, decode, page | nothing is skipped or repeated | observations, changes and deliveries |
| Schema and triggers | `models.py`, the migration | all tables | constraints, immutability triggers | | as far as control depends on it |
| Application, configuration, schemas, command line, URL checks and signatures, generated contract | the rest | none | | | not modelled (section 6) |

### How they interact

```
 editors --> api/admin.py ----> services/routes.py --emit_change--> change_events --> feed readers
 readers --> api/public.py ----^        ^                   \-----> webhook_deliveries
 worker  --> jobs.py -------------------'                             |
             jobs.py -> services/webhooks.py (lease, send, record) <--'  --> subscribers
 players --> api/challenges.py: reads the published revisions, writes challenge_assignments
 editors --> create_revision calls domain/graph.py: a draft exists only with a valid graph
```

`mark_revision_stale` has three callers, and they do not reach it in the same
way: the admin endpoint with a fresh session, the worker with the row already
locked, and the public read with an object it loaded a moment before. The model
keeps the three apart because they behave differently.

### What is hard to test

`PROJECT.json` lists the hazards at their lines with the properties that cover
them. The main groups are: handlers that wait for a lock and go on with what
they had read before; the window between the response and the commit; leases
that lapse while a batch is worked off; results written late and
unconditionally; exceptions and crashes between a request and the record of it;
two replicas passing over the same rows; values exactly at a bound (the review
date, the last attempt, the batch limit); numbers and timestamps drawn in one order and made
visible in another; objects that a session has loaded before it waited.

## 2. The modules

| Module | What it is |
|---|---|
| `Editorial` | the editorial workflow, the freshness worker and the public reads as transactions of several statements |
| `Catalog` | what they promise, with atomic operations; `Editorial!ImplementsCatalog` is the refinement |
| `MCEditorial` | instances of `Editorial` |
| `EditorialProofs` | theorems about `Editorial` |
| `WebhookDelivery` | the outbox and its workers |
| `Outbox` | what the outbox promises of each delivery; `WebhookDelivery!ImplementsOutbox` is the refinement |
| `MCWebhook` | instances of `WebhookDelivery` |
| `WebhookProofs` | theorems about `WebhookDelivery` |
| `Credentials` | clients, keys and minute quotas as transactions of several statements |
| `MCCredentials` | an instance of `Credentials` |
| `CredentialsProofs` | theorems about `Credentials` |
| `Observations` | reports of clients, their moderation, the queue in pages |
| `MCObservations` | an instance of `Observations` |
| `ObservationsProofs` | theorems about `Observations` |
| `RouteGraph` | the validation of a route graph and the search for the recommended route |
| `MCRouteGraph` | a family of small graphs |
| `RouteGraphProofs`, `LeastNumber` | theorems about `RouteGraph`; the least-number principle they use |
| `Challenge` | the puzzle of a date under its advisory lock |
| `MCChallenge` | an instance of `Challenge` |
| `ChallengeProofs` | theorems about `Challenge` |
| `ChangeFeed` | events, deliveries and subscriptions inside their transactions, and the clients that read them |
| `MCChangeFeed` | an instance of `ChangeFeed` |
| `ChangeFeedProofs` | theorems about `ChangeFeed` |

### Editorial

*State.* `pub`, `trust`, `version`, `number`, `due` are columns of
`route_revisions`; `current` is `routes.current_revision_id`; `evidence` stands for the
`verification_events`; `emitted` counts the `change_events` by revision and
type. These variables are what is *committed*. `tx[s]` is what the handler of
session `s` holds in memory: where it is (`pc`), its revision, and what it read
and will use later: the previous revision of the route (`prev`), a number or a
`status_version` (`base`), the review date of the request (`due`), a report, or
a worker's batch. `now` is the clock, in days. `owed` is a history variable: the
publications that were answered and not yet committed.

*Steps.* A handler is cut where another transaction can come between two of its
statements to some effect: at every lock it has to wait for, and at its commit.

| Action | Code |
|---|---|
| `CreateLock`, `CreateCommit` | `create_revision`: lock the route, read `max(revision)`; insert |
| `VerifyRead`, `VerifyInsert` | `add_verification`: unlocked read and check; insert, which waits for a `FOR UPDATE` holder because of the foreign key |
| `PublishLock`, `PublishRoute`, `PublishFlush`, `PublishCommit` | `publish_revision`: lock the revision and check it; lock the route and read its current revision; update that one at the flush, and answer; commit |
| `WithdrawLock`, `WithdrawRoute`, `WithdrawCommit` | `withdraw_revision` |
| `StaleLock`, `StaleEmit`, `StaleCommit` | the admin endpoint and `mark_revision_stale`; the change event's insert takes KEY SHARE on the route |
| `ReadCurrent`, `FreshenLock`, then `StaleEmit`, `StaleCommit`; `Present` | `get_current_exit_route`: load, and when overdue call `mark_revision_stale`, whose locking read does *not* refresh the object in the session |
| `ReadRevision`, `Present` | `get_revision`, `list_revisions` |
| `SweepLease`, `SweepMark`, `SweepCommit` | `mark_due_revisions_stale`: `FOR UPDATE SKIP LOCKED`, one mark after another, one commit |
| `Crash`, `DeadlockAbort` | rollback: an error, the death of a process, PostgreSQL breaking a cycle of waits |

*Locks.* What a session holds follows from where it is, so `RowsLocked`,
`RoutesLocked` and `RoutesShared` are operators on `tx[s]`. They distinguish the modes that
matter: an update that changes no key lets foreign-key checks (KEY SHARE)
through, `FOR UPDATE` does not. `WaitsFor` gives the wait-for graph, and
`Deadlocked` its cycles.

*In-memory writes.* SQLAlchemy writes the changed columns, computed from the
object in memory. `status_version += 1` is therefore "the version read before, plus
one" (`tx[s].base + 1`) wherever the object was read before the lock was held, and the
committed version plus one where it was read under the lock.

### WebhookDelivery

*State.* `state`, `attempts`, `due`, `lease` are columns of `webhook_deliveries`, the
two times as the time that is left; `active` is the subscription's flag.
`queue[w]` is what is left of the batch of worker `w`, `pc`, `tries` and `answer`
are where it is with the head of it. `sent` and `lost` are history: the requests that
left, and those whose result no transaction recorded.

| Action | Code |
|---|---|
| `Enqueue` | the loop of `emit_change` over active subscriptions |
| `Deactivate` | `DELETE /webhooks/{id}` |
| `LeaseDue` | `_lease_due`: `FOR UPDATE SKIP LOCKED` over the due rows and the lapsed leases, in one transaction |
| `Skip`, `Load` | `_send_one` up to the request: an unlocked read, the checks of state and subscription, the verdict on the URL |
| `Send` | `sender.send`, without a transaction that holds a lock |
| `Record` | the branches of `_send_one` and the commit of its session, unconditional |
| `Drop`, `Crash` | an exception `_send_one` does not handle, or a failing commit; the death of a process |
| `Tick` | a second passes |

*Timely.* A lease covers a whole batch, but nothing in the code stops a batch from
outliving it. `Timely = TRUE` is the operating assumption that it does not (the
clock waits for the holder); what depends on it is stated so. `Timely = FALSE` is the
code as it is, with no such assumption.

### Credentials

*State.* `status` is `api_clients.active` with "absent" before the insert; `owner`,
`revoked` are columns of `api_keys`, `parent` is the key a rotation replaced (the
`replacement_id` of its audit row, read backwards); `count` stands for the `rate_windows`.
`admitted` is history: the requests let through in each minute. `tx[s]` is what the handler
of session `s` holds in memory, and `tx[s].welcome` is history: whether the client was
active when the request came.

| Action | Code |
|---|---|
| `CreateClient` | `POST /admin/api-clients` |
| `PresentKey`, `CheckClient`, `Upsert`, `Admit` | `authenticate_api_key`: read the key, read its client, count the request (`_increment_rate_window`), commit and compare with the limit. A transaction of its own before the handler's |
| `CreateKey`, `IssueKey`, `IssueCommit` | `POST .../keys`: read the client without a lock; `issue_api_key` inserts; commit |
| `Rotate`, `IssueKey`, `IssueCommit` | `POST .../rotate`: lock the key and look at it; insert the new one; commit both |
| `RevokeLock`, `RevokeCommit` | `DELETE /admin/api-keys/{id}` |
| `DeactivateLock`, `DeactivateCommit` | `DELETE /admin/api-clients/{id}`: lock the client, read its keys; write the client and the keys at the commit |
| `Purge` | the clean-up of old windows in `mark_due_revisions_stale` |
| `Crash`, `DeadlockAbort`, `Tick` | rollback; the clock, in minutes |

*Locks.* A key's or a window's insert takes KEY SHARE on the client, which a deactivation's
`FOR UPDATE` keeps out. The session factory sets `autoflush=False`, so `last_used_at`,
assigned *before* the window is counted, is written *after* it, at the commit. That order is why
no authentication can be in a deadlock (`ReadersNeverDeadlock`); with autoflush it could.
A rotation (key, then client) and a deactivation (client, then keys) can be.

*What late keys mean.* `admin_create_key` looks at `active` without a lock. A key may thus be
inserted for a client that was deactivated meanwhile, although the endpoint says
"Keys cannot be created for an inactive client." (`api/admin.py:220`). The properties say what
still holds: a deactivation waits for every key whose insert has begun and revokes
it, and a later key opens nothing, because authentication looks at the client.

*Time.* `Tick` waits for a request that has taken its minute and not yet counted it when that minute's
window is about to be cleaned up: no request spends `Keep` minutes (ten in the code) between these
two statements.

### Observations

*State.* `ticket` (client and idempotency key), `payload`, `state` and `received` are columns of
`observations`; `audits` counts the audit rows of its decision. `receipts` is history: what clients
were answered, also where the commit failed afterwards. `cursor` is what a reader of the queue
holds: `received_at` and `id` of the last row of a page never change, so the row stands for them.
`listed` is what its pages have shown, `awaited` what was queued when it began and still is.

| Action | Code |
|---|---|
| `Submit`, `Insert`, `LookAgain`, `SubmitCommit` | `create_observation`: look for the key; insert in a savepoint, waiting for whoever is inserting the same key; after an `IntegrityError` look again; commit |
| `ModerateLock`, `ModerateCommit` | `POST /admin/observations/{id}/moderate` |
| `ListFirst`, `ListNext` | `GET /admin/observations` without and with a cursor |
| `Crash`, `Tick` | rollback, also after the answer; the clock |

`received_at` is PostgreSQL's `now()`, the *start* of the submission's transaction, so a row may enter
the queue behind rows that were received later; identifiers are random, so rows received
at the same moment come in any order.

### RouteGraph

*State.* `graph` is the submitted document, `queue` and `best` are the heap and the dictionary of
`_lowest_effort_path`, `result` is the `ComputedRoute`. Choices are numbered in the order of their
slugs. Heap entries differ in their choice paths, so their order is total and the set of them is the heap.

| Action | Code |
|---|---|
| `Refuse`, `Accept` | `analyze_graph` up to the search: `Valid` is the conjunction of `_index_graph`, `_validate_node_shapes`, `_validate_edges` and `_validate_reachability` |
| `Skip` | an entry is popped whose node is known with a rank as good |
| `Settle` | an entry is popped and its safe choices are pushed |
| `Find`, `NoRoute` | a cancelled terminal is popped, and the friction of the route is computed; the heap is empty |

The properties measure the search against a definition by enumeration: `Routes(g)` is the set of all
ways out that visit no node twice, and `Effort` the sum of a way's efforts. Efforts may be zero, so graphs have
circles that cost nothing, and the order of paths has to break ties among ways that pass through them.
The friction of the result (`Friction`) is translated and fires with `Find`; no property depends on it, since it is arithmetic on a route already found.

### Challenge

*State.* `status`, `current`, `lapsed` are what the eligibility of a revision depends on, changed by
the atomic `Publish`, `Withdraw`, `MarkStale`, `Lapse` (their interleavings are `Editorial`'s subject;
here each is its commit). `row` is the committed row of the date, `holder` the holder of its advisory lock.
`tx[s]` is the transaction of request `s`: `held` and `seen` are the assignment and the revision in the
session's *identity map*, which later `session.get` calls return without asking the database.
`witness[s]` is history: the revisions that have been eligible at some moment since the request began.

| Action | Code |
|---|---|
| `Begin` | `get_daily_challenge`: the first `session.get(ChallengeAssignment)` |
| `ReadRevision`, `Serve`, `Reject` | read the revision; `_eligible_revision` says yes or no |
| `Lock`, `LookAgain` | `pg_advisory_xact_lock`; the second look, which asks the database only if the first one found nothing |
| `Delete`, `Choose`, `NothingToServe`, `Insert` | replace by date; choose among the candidates; `challenge_unavailable`, rolled back; insert in a savepoint |
| `Commit`, `Crash` | `get_session`; a rollback at any moment, also after the answer |

A request that held an old assignment before it waited judges that old one again after the lock.
Since a revision that stopped being eligible never becomes so again, the old copy is never approved wrongly
(`ServedWasEligible`); but the deletion then takes away whatever the date has by now (`ReplacedForCause` says
exactly when, section 5 what it contradicts).

### ChangeFeed

*State.* `tx[w]` is a transaction that announces changes: the events it has still to emit. `events` and
`deliveries` hold the rows with the transaction that wrote them (`by`): others see them once it has
committed. `number` is the sequence of `change_events`, which a rollback does not take back; `clock` orders the
starts of transactions, which PostgreSQL's `now()` writes into `created_at`. `reader` follows the cursors
of `list_changes`, `walk[u]` those of the delivery history of `u`. `salt` and `rotation` are the
secrets. History: `span` (who was subscribed at some moment of a transaction, who throughout), `overtaken` (what was drawn
and not committed when the reader's cursor passed it), `owed` and `edges` of a walk, `told` (the secrets sent).

| Action | Code |
|---|---|
| `Begin`, `Draw`, `FanOut`, `Commit`, `Rollback` | `emit_change`, once per event: the flush of the event draws its number; then the active subscriptions are read and their deliveries added; `get_session` |
| `CreateSubscription`, `DeleteSubscription` | `POST /webhooks`, `DELETE /webhooks/{id}` |
| `Rotate`, `RotateCommit`, `RotateRollback` | `POST .../rotate-secret`: the answer, and the commit after it |
| `Poll`, `StartOver` | `list_changes`; a cursor that has expired is refused and the client begins anew |
| `ListFirst`, `ListNext` | `list_deliveries` without and with a cursor |

### The abstract specifications

`Catalog` has the four columns a client can tell the status by and the atomic
operations `Draft`, `Publish`, `Withdraw` and `MarkStale`; each raises the status
version of exactly the revisions it changes, by one. `Outbox` has a status and a
count of attempts for each delivery. The refinement mappings are the identity and, for the outbox,
"pending, delivering and retrying are all *open*".

## 3. The runs

All bounds are constants of the configurations. The sessions and identifiers of
an instance are as few as the interesting conflicts need.

### Passing

| Run | Instance | What it shows |
|---|---|---|
| `editorial_lifecycle` | 2 revisions of a route, 2 editors, a public reader, a worker, clock to 2, 3 reports | under every interleaving, with rollbacks, crashes and deadlocks: the route points at its one published revision (`CurrentIsPublished`); the feed tells every change of status, and publications, supersessions and withdrawals once (`FeedTellsHistory`); publications rest on independent evidence (`EvidenceBehindPublication`); numbers have no gap (`NumbersAreContiguous`); statuses only move forward (`LifecycleForward`) |
| `editorial_catalog` | 3 revisions of 2 routes, 2 editors, 2 workers, no reader | without the public read, the workflow implements `Catalog` (`ImplementsCatalog`) and the version counts the events (`VersionCountsEvents`) |
| `editorial_progress` | 2 routes with a published revision each, due at the same moment, and a verified draft of one of them; 2 editors, a worker whose passes take one row | every transaction ends in spite of deadlocks (`TransactionsEnd`), and an overdue revision does not stay verified, although each pass leaves one out (`OverdueGoesStale`) |
| `webhook_replicas` | 2 deliveries of 2 subscriptions, 2 workers, 2 attempts, `Timely` | one replica per delivery (`OneHolder`), every request is counted (`EverySendCounted`), settled rows stay (`SettledIsFinal`), backoff is waited for (`BackoffRespected`), the outbox implements `Outbox`, and every delivery settles (`EverySettled`) |
| `webhook_overlap` | 1 delivery, 2 workers, 3 attempts, not `Timely` | leases lapse while they are held, late results overwrite newer ones, and `attempt_count` can go back; it keeps its bound and a delivery that reaches it is settled (`AttemptsBounded`), and every delivery settles for good in the end (`SettledForEver`) |
| `credentials` | 1 client with a limit of 1, 3 keys, 3 sessions, clock to 2, windows kept for 1 minute | no more is let through than the limit (`QuotaHolds`), and exactly what was counted (`QuotaExact`), although old windows are deleted; only a live key is replaced, and it is revoked by the same commit, so it has one successor (`ReplacedOnce`); a deactivation leaves no key live (`DeactivationRevokesAll`), keys that come too late are of no use (`OnlyWelcomeCounted`); authentications are in no deadlock (`ReadersNeverDeadlock`) |
| `observations` | 2 clients with the same key, 2 payloads, 3 rows, 2 sessions, pages of one row, clock to 1 | a receipt names the only row of its client's key, with the payload it was sent for (`ReceiptsAreTrue`), final decisions (`FirstDecisionStands`), and a reader who follows the cursors to the end misses nothing that stays queued (`PassIsComplete`) |
| `route_graph` | the graphs of `MCRouteGraph`, up to 5 nodes and 4 choices, with free targets, effects and efforts | the recommended route is a cheapest safe way out (`LowestEffort`), the first one among equals (`TiesByIdentifier`), a valid graph is refused only if there is none (`RefusedJustly`), and the search ends (`Terminates`) |
| `challenge` | 2 requests for a date, 3 revisions of 2 routes, a date with or without an earlier puzzle | an insert never meets a row (`InsertFindsFree`), a puzzle is made of a revision that was eligible during its request (`ServedWasEligible`), an eligible puzzle is lost only to a request that had seen an earlier one (`ReplacedForCause`), every request ends (`RequestsEnd`) |
| `change_feed` | transactions of 2 events and 1 event, a subscription, 2 rotations, pages of one row | the reader misses only what was uncommitted when it passed (`MissedWasUncommitted`) and is shown the rest (`EveryEventShown`); deliveries go to who was subscribed (`AnnouncedToSubscribers`); a delivery history leaves out only ties (`HistoryMissesOnlyTies`); the client knows the secret that signs (`SigningSecretKnown`) |

### Violations

Each of these checks one sentence of the repository and finds a behaviour of the
code that contradicts it; section 5 tells the stories.
`editorial_version`, `webhook_overrun`.

### Bounds of types

The type invariants are proved for all constants (section 4), so the runs do not repeat them, with one exception:
`editorial_lifecycle` checks `Editorial`'s `TypeOK`, because the type of a review date stands for the check of the window: without it a date before
the first day would be stored. What says more than a type in `WebhookDelivery`'s, the bound of
`attempts`, is checked as `AttemptsBounded`.

### Bounds and why they are enough

* *Revisions and routes.* Revisions of different routes share no row, except in a
  worker's batch. Two revisions of one route are a predecessor and a successor;
  three on two routes give a batch of two and a supersession at once.
* *Sessions.* Every conflict the code has is between two transactions on a row, or a
  cycle of two (publication against publication, publication against a worker's
  pass). Two editors, a reader and a worker cover the pairs, and their deadlocks.
* *Clock.* `MaxTime` = 2 with `Window` = 1: a review date is ahead, comes, and has
  passed. `Skew` = 1 lets a report come from the future, so that `verified_at` can bind.
* *Reports.* `EnoughReports` satisfy the policy together; `MixedReports` also contain a
  pair that has two environments but one verifier.
* *BatchLimit.* 1 leaves an overdue row out of a pass where both routes have one, in `editorial_progress`; 2, in `editorial_catalog`,
  takes several. With one route no row is ever left out.
* *Progress.* `PublishedInit` is a later state of the system, with a predecessor, a successor that is ready to be published, and a second route: from
  here every deadlock of two editors and the worker is a few steps away. Liveness is costly to check, so
  it starts here and the clock stops at 1.
* *Deliveries and workers.* Two deliveries make a batch with a second row waiting,
  two workers a race for a lapsed lease. `MaxAttempts` = 2 has a first attempt, a retry and a last one, 3 lets the count go
  back from 2 to 1. `LeaseTime` = 1.
* *Clients, keys and sessions.* No statement touches two clients, so one is enough. Three keys are
  a key, its successor and one more; three sessions make a cycle of two and a third that waits.
  A limit of 1 with `MaxCount` = 2 has a request that passes and one that does not; a session
  that has passed the bound's guard may still count a third and a fourth. `MaxTime` = 2 with `Keep` = 1
  has a window that is cleaned up.
* *Observations.* Three rows with two clients leave one for a submission that was rolled back. Pages
  of one row make every pair of neighbours a page boundary; two moments give rows that differ in
  `received_at` and rows that do not.
* *Graphs.* `MCRouteGraph` has three families: four choices of three screens with all targets and efforts 0 and 1
  (ties, detours, circles without cost); two choices with all effects and targets, the missing node included
  (every reason for refusal); four choices whose effects fit their targets (handoffs, retention
  offers, dead ends). Four choices suffice for two ways of equal effort and different length.
* *Requests for a puzzle.* The lock lets one request replace at a time; the second is the one that waits with an
  old copy. Three revisions of two routes have a supersession and a choice among two candidates.
* *Events.* Two transactions draw numbers in one order and commit in the other; two events of one
  transaction share `created_at`, and pages of one row put the page's end between them. One subscription is enough, since
  no statement relates two; two rotations commit in either order. The subscription of the instance asks for every type: a type it does
  not ask for would take a fourth event to leave both ties and rows of different moments, which is beyond the time of a run. That
  the filter is respected is proved (`AnnouncedCorrectly`, for any `Wanted`).
* *Late* bounds how far in the past a due time is told apart (it only orders
  batches), and *MaxLost* how many results are lost for a row; neither bounds the code.
* *Deadlock checking.* The editorial runs, `credentials`, `observations`, `route_graph` and `challenge` say `CHECK_DEADLOCK FALSE`: identifiers and
  the clock are finite, so the model stops when they are used up, and PostgreSQL's
  deadlocks are cycles in `WaitsFor`, checked by `TransactionsEnd` and `ReadersNeverDeadlock`. The webhook runs and `change_feed`
  do check it: the clock always goes on, and so does the polling client. A search stops when it has its result, and
  requests for a puzzle when they are answered.
* *Symmetry* is used in runs without liveness properties only.

### Fairness

`Editorial`: a handler that waits for nothing goes on (weak fairness). A lock that is
free again and again is obtained (strong fairness): PostgreSQL queues waiters, so a
request is not overtaken for ever. A worker polls at moments that no request can
avoid, so a row that is unlocked again and again is leased at some time. PostgreSQL
breaks cycles of waits (weak fairness of `DeadlockAbort`). Processes do not fail for
ever. No request is forced to arrive, and no editor to act.

`WebhookDelivery`: workers poll and work off their batches, the HTTP client has a
timeout and answers, the clock goes on, and crashes and unhandled exceptions come to an
end. The last condition is needed: otherwise the same request is sent without end (section 5).

`RouteGraph`: the loop goes on. `Challenge`: a handler that runs goes on, and PostgreSQL gives the advisory lock, when it is
free, to a request that waits for it (weak fairness suffices for finitely many requests; PostgreSQL queues waiters). No request is
forced to arrive, and crashes are free. `ChangeFeed`: the client polls, and from some time on its cursors do not expire between two polls
(`cursor_ttl_seconds` is longer than any sensible polling interval); writers owe nothing.

`Credentials` and `Observations` assume none: only safety is stated of them.

### Mutants

For each property of a passing run `PROJECT.json` names a change of the model that a
slip in the code would amount to (a forgotten `with_for_update()`, a missing
foreign key, a comparison off by one, a lease that is not looked at, an attempt that is not
written, a unique constraint that is dropped, a deadlock that is answered by trying again with the locks still held) and under which the run fails. They are the operators commented "Mutant",
next to the definitions they replace.

## 4. The proofs

The modules named `...Proofs` prove, for all values of the constants that satisfy
the named assumptions:

| Theorem | Statement |
|---|---|
| `Editorial!LifecycleInvariant` | `Spec => []LifecycleInv` |
| `Editorial!TypeCorrect` | `Spec => []TypeOK` |
| `Editorial!OnePublishedRevision` | `Spec => []CurrentIsPublished` |
| `Editorial!PublishedHasEvidence` | `Spec => []EvidenceBehindPublication` |
| `Editorial!FeedIsTrue` | `Spec => []FeedTellsHistory` |
| `Editorial!OnlyForward` | `Spec => LifecycleForward` |
| `Editorial!NumbersContiguous` | `Spec => []NumbersAreContiguous` |
| `Editorial!DeadlocksArePublications` | always, a circle of lock waits has a publication that wants its previous revision, and beside publications only withdrawals, change events and passes |
| `Editorial!VersionsCount` | `Readers = {}`: `Spec => []VersionCountsEvents` |
| `Editorial!CatalogImplemented` | `Readers = {}`: `Spec => ImplementsCatalog` |
| `WebhookDelivery!AttemptsInvariant` | `Spec => []AttemptsInv` |
| `WebhookDelivery!TypeCorrect` | `Spec => []TypeOK` |
| `WebhookDelivery!AttemptsAreBounded` | `Spec => []AttemptsBounded` |
| `WebhookDelivery!LeaseInvariant` | `Timely`: `Spec => []LeaseInv` |
| `WebhookDelivery!OneHolderAtATime` | `Timely`: `Spec => []OneHolder` |
| `WebhookDelivery!SettledForGood` | `Timely`: `Spec => SettledIsFinal` |
| `WebhookDelivery!BackoffIsRespected` | `Timely`: `Spec => BackoffRespected` |
| `WebhookDelivery!SendsCounted` | `Timely`: `Spec => []EverySendCounted` |
| `WebhookDelivery!OutboxImplemented` | `Timely`: `Spec => ImplementsOutbox` |
| `Credentials!CredentialsInvariant` | `Spec => []CredentialsInv` |
| `Credentials!TypeCorrect` | `Spec => []TypeOK` |
| `Credentials!QuotaCorrect` | `Spec => []QuotaHolds` |
| `Credentials!QuotaIsExact` | `Spec => []QuotaExact` |
| `Credentials!NoReaderDeadlocks` | `Spec => []ReadersNeverDeadlock` |
| `Credentials!RotationCorrect` | `Spec => ReplacedOnce` |
| `Credentials!ReplacementUnique` | `Spec => []OneReplacement` |
| `Credentials!WelcomeCorrect` | `Spec => []OnlyWelcomeCounted` |
| `Credentials!DeactivationCorrect` | `Spec => DeactivationRevokesAll` |
| `Observations!ObservationsInvariant` | `Spec => []ObservationsInv` |
| `Observations!TypeCorrect` | `Spec => []TypeOK`, with at most one decision's audit row per observation |
| `Observations!SubmissionIdempotent` | `Spec => []ReceiptsAreTrue` |
| `Observations!PassCorrect` | `Spec => []PassIsComplete` |
| `Observations!ModerationCorrect` | `Spec => FirstDecisionStands` |
| `RouteGraph!Invariance` | `Spec => []IInv` |
| `RouteGraph!TypeCorrect` | `Spec => []TypeOK` |
| `RouteGraph!RouteIsLowest` | `Spec => []LowestEffort` |
| `RouteGraph!RouteIsFirst` | `Spec => []TiesByIdentifier` |
| `RouteGraph!RefusalIsJust` | `Spec => []RefusedJustly` |
| `RouteGraph!HeapIsBounded` | always, the heap has at most one entry for each choice, and the start |
| `RouteGraph!SettledOnce` | no step changes what a settled node was settled with |
| `RouteGraph!SearchComesCloser` | each step of the search leaves fewer nodes, or as many and a smaller heap (`Closer`) |
| `RouteGraph!SearchGoesOn` | always, a heap that is not empty has an entry to take (`IsFirst`) |
| `Challenge!ChallengeInvariant` | `Spec => []ChallengeInv` |
| `Challenge!TypeCorrect` | `Spec => []TypeOK` |
| `Challenge!InsertsFindFree` | `Spec => []InsertFindsFree` |
| `Challenge!ServedEligible` | `Spec => []ServedWasEligible` |
| `Challenge!ReplacementHasCause` | `Spec => ReplacedForCause` |
| `Challenge!HolderGoesOn` | always, the lock's holder is a request that runs and does not wait for the lock (`HolderPlaces`) |
| `Challenge!RequestsGoOnward` | no step takes a request back, and each of its own steps takes it forward (`Onward`) |
| `ChangeFeed!TypeCorrect` | `Spec => []TypeOK` |
| `ChangeFeed!FeedMissesOnlyUncommitted` | `Spec => []MissedWasUncommitted` |
| `ChangeFeed!AnnouncedCorrectly` | `Spec => []AnnouncedToSubscribers` |
| `ChangeFeed!HistoryComplete` | `Spec => []HistoryMissesOnlyTies` |
| `ChangeFeed!SecretsAreTold` | `Spec => []SigningSecretKnown` |

*Assumptions.* `ConstantsAssumption` (types of the constants, sentinels outside the
identifiers, at least one attempt and a batch of at least one) and
`SessionsAssumption` (editors, readers and workers are different sessions). Sets may be
infinite. `Timely` (a batch is worked off within its lease) and `Readers = {}` (no public read) are hypotheses of the theorems
that need them and of no other; the runs of section 5 show what happens without them.

*The argument for `OnePublishedRevision`.* `CurrentIsPublished` is not inductive: a
commit writes what its handler found several steps before. `LifecycleInv` adds what
makes it true: no two transactions hold conflicting locks (`LocksCompatible`), and what
a handler has decided on still holds (`HandlersJustified`): the revision it publishes
is still a draft, the one it withdraws still published, the `prev` it read is still
the route's current one. The locks are why: whoever could change these facts would
need a lock the handler holds. The proof has a lemma for "only session `s` moves and
no row changes" (`QuietStep`), which settles all steps but the commits, and one
lemma for each commit. It says nothing of the verified label or the version, which
the public read can spoil (section 5).

*The other theorems about the workflow.* A commit or an insert is the only step that changes rows (`RowsNext`), so each of the following
needs one lemma for what the handlers remember and one for each of those steps.

* *Evidence* (`EvidenceInv`). A publisher looks at the evidence before it takes the route's lock, and evidence may be added in
  between, even to what is published already. It is only added, so what was sufficient stays so (`SufficientGrows`).
* *Feed and lifecycle* (`FeedInv`). A revision is provisional exactly as long as it is in review. A read that waited may mark a revision
  stale that has ended, but never one that was not published: what it read was out of review, and nothing comes back.
* *Numbers* (`NumberInv`). Who is about to insert has a number one beyond those of the route, because it holds the
  route's lock from the count to the insert. An aborted creation leaves no gap, because the number comes from the rows.
* *Version* (`VersionInv`). The version of the previous revision is read before that row is locked. Without public reads
  it is still the row's version at the commit (`Fresh`): the handlers that write it need the lock on the row or the
  lock on the route, which a marker shares and a publisher excludes.
* *Refinement.* With `VersionInv` each commit is one step of `Catalog`: `Publish` with the previous revision's supersession,
  `Withdraw`, `MarkStale` of one revision or of a batch. The statements before it do not touch rows. A batch all of whose
  revisions were passed over is a stutter.

*The argument for `OneHolderAtATime`.* While a worker holds a row its lease runs, because
the clock waits (`Timely`); a row whose lease runs is not available; so no other worker
leases it. `LeaseInv` states that and that a batch names a row once. The bound on
`attempts` needs no leases: an open row has an attempt left, and a worker that
overwrites it writes a number that was below the bound when it was read
(`AttemptsInv`). So `attempt_count` keeps its bound even when batches outlive
their leases and results overwrite each other.

*The other theorems about deliveries.* A delivery that is leased was due when it was leased, and nothing puts it off before its
worker writes (`DeliveringIsDue`), so a request leaves in time. A worker that has a row knows its `attempt_count`, because no one
else writes the row (`Knows`), so a result adds one; a request is counted, lost or in the hands of the
row's one holder (`CountInv`). For the refinement the states before the end are all *open*: leases, backoff and
requests are invisible, and an `Enqueue`, a result, or the settling of a delivery whose subscription is gone is one step of `Outbox`.

*The argument for the credentials.* `CredentialsInv` has the same shape as `LifecycleInv`: locks
are exclusive (`SessionsApart`), and what a session has read still holds (`SessionsJustified`).
The count a request was given is one more than the committed one, because it holds the
window; the key a rotation replaces is still live, because it holds the key, and it has no
replacement yet, because what was replaced is revoked (`OneReplacement`); every key of
the client a deactivation is about is revoked or in its batch, because it holds the client and an
insert needs the client. `SessionStep` says once what a step of a session has to
show for the others: given that its locks exclude theirs, it leaves them justified.

*The argument for the observations.* A session that has inserted a row not yet committed knows
that no committed row has its key, and no other session can be in the same position
(`SessionsJustified`, `SessionsApart`). So no two rows have one key (`OneRowPerKey`), and a receipt, which names a row with its key
and payload (`ReceiptsMatch`), names the only one. For the pages: whatever is awaited and not yet listed lies behind
the cursor (`PassSound`). A late row may enter anywhere, but it is not awaited; a page takes the
newest rows behind the cursor, so what it leaves lies behind the new one (`PageStep`).

*The argument for the recommended route.* A *rank* is an effort with a path; `AtMost` orders ranks as the heap does, by effort and then by
the identifiers, a path before those that go on from it. Every heap entry, every settled node and the result stand for ways through the
graph (`Walks`, `Outcome`), and whatever a safe choice leads to from a settled node is settled or waits in the heap, with no later
rank than through that node (`Frontier`). To go on along one choice must keep the order of two ways
(`LongerKeepsOrder`), and it does unless the one is where the other starts: then a greater identifier may follow. With choices of no effort such
two ways may even cost the same. Against a way that visits no node twice this cannot happen, because a way to one of its nodes that is where
it starts would have been at that node before (`NoCircle`). So along any simple way out, as long as its rank is before all that waits, every
node is settled with no later rank (`AlongAWay`): when the search stops with an entry of least rank, no way out is cheaper
(`RouteIsLowest`) and none of the same effort comes before (`RouteIsFirst`), and when it stops with an empty heap, a way out
would have made it stop earlier (`RefusalIsJust`). Graphs may be of any size.

*Why the search ends.* `Terminates` itself is liveness and stays with TLC, but what it rests on besides fairness is proved. Entries come out of the heap
in the order of their ranks, so an entry for a settled node is never better than what is settled and is skipped (`SettledOnce`): otherwise `best` would
change, and a circle of no effort could go round for ever. Hence a step either settles a node for good or only takes from the heap
(`SearchComesCloser`), and it finds an entry to take as long as there is one (`SearchGoesOn`). `Heap` is the invariant: the heap is finite, its
entries come from the choices out of settled nodes, and they are not before what is settled.

*The arguments about deadlocks.* Both follow a circle of waits from session to session. In `Credentials` the places of the
locks are enough, without the invariant: nobody waits for a request at its window, which has locked nothing, so nobody in a circle is there;
then nobody in a circle waits for a request at its key either (`WaitPlaces`), and what is left is a rotation and a deactivation. In `Editorial` the
editors lock the revision first and the route second. Only a publication goes back, to the previous revision of its route. A publication that waits
for the route has only its draft, which nobody's `prev` is, because a `prev` is the route's current revision and
hence published (`DraftsAreWaitedForByReaders`, which needs `LifecycleInv`). Whoever else waits, waits for the owner of a route, or for a pass that does, so without a
publication that wants its previous revision the circle would not close (`DeadlocksArePublications`). The lifecycle runs do reach such circles; `TransactionsEnd`
shows that breaking them is enough for every transaction to end.

*The argument for the daily challenge.* The delicate point is that judging uses an old copy of the revision and, after the lock, of
the assignment. `Sound` says what an old copy still tells: a revision that was read as not verified is not verified now, because
nothing verifies a published revision again; one that was read as verified and is not lapsed has been eligible
since the request began; an assignment that was rejected stays ineligible. Only the holder of the lock has
deleted or is inserting, and what it has deleted is what is committed (`removed`), so its insert finds the date free.
`ChosenIsCandidate` shows that the seed picks a candidate from any finite list of them (`MemberOfEachRank`).
A request reads and judges an assignment at most twice, before the lock and with it, so `StepsFrom` counts the statements it has still before it;
nobody else changes that count (`RequestsGoOnward`). With `HolderGoesOn` and `InsertsFindFree` nobody who has the lock waits for anything, which
leaves to fairness only that steps are taken and that a free lock is granted.

*The arguments for the change feed.* `Behind`: whatever lies behind the reader's cursor was overtaken, or is committed and was
shown. A page takes the first rows beyond the cursor, so a new cursor adds only rows of the page and rows not committed; an
event drawn later has a higher number. `WalkInv` says the same of a walk through a history, whose
order has ties. `AnnouncedInv` follows an event from its insert to its deliveries, one transaction at a time (`OthersAnnounced`).

*Induction.* The provers cannot instantiate induction theorems that take an operator. The arguments along a path or
through the ranks of a list use the least-number principle instead (`LeastNumber!LeastElement`, from the library's theorem
on well-founded relations): what fails somewhere fails at a first place.

*Only model-checked:* liveness, which is out of the prover's reach: `TransactionsEnd`, `OverdueGoesStale`, `EverySettled`, `SettledForEver`,
`Terminates`, `RequestsEnd` and `EveryEventShown`. Of `Terminates` and `RequestsEnd` the measure and that nothing
is in the way are proved, of `TransactionsEnd` who can be in a deadlock. Every invariant and every action property of a passing run is a theorem.

## 5. Findings

* **`editorial_version`.** `get_current_exit_route` loads a revision, finds it overdue and
  calls `mark_revision_stale`, whose `SELECT ... FOR UPDATE` finds the object already in
  the session and leaves its attributes as loaded. If another transaction got in
  between, the version is written as the old one plus one, a second stale event is
  emitted, and a revision that is already superseded or withdrawn is marked.
* **`webhook_overrun`.** A batch may take longer than its lease. A second replica delivers
  the row, and the first one's late failure makes it retrying again.

`PROJECT.json` quotes the sentences these contradict.

Others were seen in the models and have no run of their own. Three are stated as properties that the modules
violate: to see the behaviour, name the property in a configuration of `MCEditorial` or `MCWebhook`.

* `AcknowledgedIsDurable` (`Editorial`): the commit follows the response, so a client may hold a 200 for a
  publication that a crash or a failing commit undoes; `docs/operations.md:12` asks for "no acknowledged publication
  without revision, audit, change, and outbox rows".
* `VerificationOnlyOnDrafts` (`Editorial`): `add_verification` checks "draft" without a lock; the insert waits for a publication to
  commit and then adds evidence to a published revision (`services/routes.py:168`: "Only draft revisions can receive
  verification events.").
* `SendsBounded` (`WebhookDelivery`): an exception outside the three classes `_send_one` handles rolls the attempt back after
  the request was sent, so the same delivery is sent again without end (`BACKLOG.md:91`: "retries are bounded").

The rest follows from reading the code with the models beside it:

* `overtaken` in `MissedWasUncommitted` is not empty: an event that draws its number early and commits late is never shown to a reader
  who has passed it, though `docs/verification-policy.md:56` says "Publish all changes through an ordered change feed".
* The ties in `HistoryMissesOnlyTies` exist: two deliveries of one transaction share `created_at`, and a page that ends between
  them hides the second, though `docs/webhooks.md:42` says they "remain inspectable through the delivery-history endpoint".
* Two requests that have both found the date's puzzle no longer eligible replace it one after the other: the second deletes the
  replacement the first has just served (`ReplacedForCause` allows exactly this), though `docs/data-model.md:23` speaks of a
  "stable date-to-revision mapping so catalog changes do not change a puzzle after it is first served".
* A request signed with the old secret that arrives after a rotation is answered 401, which is not retried.
* `get_revision` and `list_revisions` do not look at `review_due_at`, so a revision fetched by number may be presented as
  verified after its review date (`ReadRevision`; `PLAN.md:89` says otherwise).
* `admin_create_key` may insert a key for a client deactivated since it looked (`CreateKey`, `IssueKey`, section 2).
* Deactivating a client leaves its webhook subscriptions active (`DeactivateCommit` changes keys only); no document says what should happen.

## 6. Simplifications and omissions

Simplified, without effect on the properties:

* A revision's content, fingerprint and graph, and the text of reports, are not
  modelled; reports form a set, and two equal ones count once, which the policy does not tell
  apart.
* Audit rows are written with the rows they describe, in the same commit, and nothing reads them.
* Services and routes exist from the start. In `WebhookDelivery` so do subscriptions, which ask for all event types; `ChangeFeed`
  creates them and has their types (the instance asks for all, the proofs are for any).
* In `WebhookDelivery`, `Enqueue` stands alone: it happens in the transaction of the change it announces, and a row that
  is not committed is not visible, so its commit is the step that counts. `ChangeFeed` has the transaction.
* In `ChangeFeed` no two transactions begin at the same moment: rows of one moment are those of one transaction. Two that did would only add ties.
* In `Challenge` a revision that was withdrawn or superseded is *ended*, and a change of the catalog is one step. The range of dates and the projection of the graph have no effect on rows.
* In `RouteGraph` a document's identifiers are unique: duplicates are refused before anything else is looked at.
* Rows of a batch with equal due times may come in any order.
* A key that has expired is a key that is not presented, and scopes decide after
  authentication; a request without a live key changes nothing. `create-client` on the command line
  is `CreateClient` and the creation of a key.
* The lists of accepted and rejected observations are read with the same statement as the queue; only the
  queue is modelled.
* A signature, a resolved address and a URL check are a verdict of `Load` or an answer of `Send`.

Not modelled: `list_services`, the pages of revisions and the read-only lists of subscriptions (ordered by keys that do not change, of rows
that are not deleted; they change nothing); conditional requests (a comparison of digests); the creation of services and routes (an insert
under a unique constraint); immutability triggers (they refuse what no handler does); middleware, error bodies, health endpoints (`app.py`, `errors.py`,
`api/system.py`: wiring and wording); settings and request schemas (their bounds are
constants here); the command line (it calls the services modelled); URL checks, signatures and
digests (`domain/security.py`: pure functions on strings); the generated OpenAPI documents
and the tooling around them.

## 7. Plan

Done: `Editorial` with `Catalog`, `WebhookDelivery` with `Outbox`, `Credentials`, `Observations`, `RouteGraph`,
`Challenge`, `ChangeFeed`, each with its theorems.

Every invariant and action property that a run checks is proved; liveness is checked by TLC.
What could still be proved of the liveness properties is what they rest on besides fairness, as for the search and the challenge: that a
delivery comes closer to its end with each result (`EverySettled`) and the reader's cursor with each page (`EveryEventShown`).

A composition of `Editorial` with `ChangeFeed`, so that the events of a transaction are those of the handler that runs in it, would
say little that the two do not say apart: the handlers emit their events as they write, and `ChangeFeed` is for any lists of events.
