----------------------------- MODULE Editorial -----------------------------
(***************************************************************************)
(* The life of a route revision: services/routes.py, the freshness pass of *)
(* jobs.py, and the readers of api/public.py, as transactions of several   *)
(* statements against one PostgreSQL database at READ COMMITTED.           *)
(*                                                                         *)
(* The first group of variables is the committed state of the tables; a    *)
(* transaction's own writes are invisible until its commit, which is one   *)
(* action.  tx[s] is what session s holds in memory.  The row locks a      *)
(* session holds follow from where it is in its handler, so they are       *)
(* operators and not variables.                                            *)
(***************************************************************************)
EXTENDS Integers, FiniteSets

CONSTANTS
    Revisions,     \* the identifiers revisions can be given
    Routes,        \* routes, created before the first step
    RouteOf,       \* the route a revision identifier will be created under
    Editors,       \* request sessions of the admin API
    Readers,       \* request sessions of the public API
    Workers,       \* replicas of the background worker
    Reports,       \* verification requests an editor may submit
    Window,        \* settings.review_window_days
    Skew,          \* how far ahead occurred_at may be (five minutes)
    BatchLimit,    \* limit of one freshness pass
    NoRev,         \* SQL NULL, in a column that refers to a revision
    NoReport,      \* no verification request
    MaxTime        \* bound of the model: the clock stops here

Sessions == Editors \cup Readers \cup Workers

ASSUME ConstantsAssumption ==
    /\ RouteOf \in [Revisions -> Routes]
    /\ Window \in Nat /\ Skew \in Nat /\ MaxTime \in Nat
    /\ BatchLimit \in Nat \ {0}
    /\ NoRev \notin Revisions /\ NoReport \notin Reports
    /\ \A p \in Reports : p.at \in Nat /\ p.passed \in BOOLEAN

ASSUME SessionsAssumption ==
    /\ Editors \cap Readers = {}
    /\ Editors \cap Workers = {}
    /\ Readers \cap Workers = {}

VARIABLES
    pub,       \* route_revisions.publication_state, "absent" before the insert
    trust,     \* route_revisions.trust_state
    version,   \* route_revisions.status_version
    number,    \* route_revisions.revision
    due,       \* route_revisions.review_due_at, 0 when NULL
    evidence,  \* the verification_events of each revision
    current,   \* routes.current_revision_id
    emitted,   \* how many change_events of each type name the revision
    owed,      \* revisions whose publication was answered 200 and not yet committed
    now,       \* the clock
    tx         \* what each session has in memory and where it is

rowVars == <<pub, trust, version, number, due, evidence, current, emitted>>
vars == <<pub, trust, version, number, due, evidence, current, emitted, owed, now, tx>>

PublicationState == {"absent", "draft", "published", "superseded", "withdrawn"}
TrustState == {"provisional", "verified", "stale"}
EventType == {"published", "superseded", "stale", "withdrawn"}

Control == {"idle", "createInsert", "verifyInsert", "publishRoute", "publishFlush",
            "publishCommit", "withdrawRoute", "withdrawCommit", "freshen",
            "staleEmit", "staleCommit", "present", "sweep"}

\* What a handler holds in memory: where it is, the revision it is about, the
\* previous revision and the number or status_version it read, the review date and
\* the report of its request, and the batch of a worker's pass.
Handling(pc, r) == [pc |-> pc, rev |-> r, prev |-> NoRev, base |-> 0, due |-> 0,
                    report |-> NoReport, batch |-> {}, marked |-> {}]

\* A session between two requests.
NoTx == Handling("idle", NoRev)

\* The handler of s goes on at pc, with what it found so far.
At(s, pc) == tx[s].pc = pc
Goto(s, pc) == tx' = [tx EXCEPT ![s].pc = pc]
Begin(s, local) == /\ At(s, "idle")
                   /\ tx' = [tx EXCEPT ![s] = local]
End(s) == tx' = [tx EXCEPT ![s] = NoTx]

-----------------------------------------------------------------------------
(* Row locks.  FOR UPDATE excludes every other lock on the row.  An UPDATE   *)
(* that changes no key excludes all but KEY SHARE, and inserting a row with *)
(* a foreign key takes KEY SHARE on the row it refers to.                   *)

RowsLocked(t) ==
    {r \in Revisions :
        \/ r = t.rev /\ t.pc \in {"publishRoute", "publishFlush", "publishCommit", "withdrawRoute",
                                "withdrawCommit", "staleEmit", "staleCommit"}
        \/ r = t.prev /\ t.pc = "publishCommit"
        \/ r \in t.batch /\ t.pc = "sweep"}

RoutesLocked(t) ==
    {q \in Routes : /\ t.pc \in {"createInsert", "publishFlush", "publishCommit", "withdrawCommit"}
                    /\ q = RouteOf[t.rev]}

\* Mutant: a schema without the foreign keys of change_events.
RoutesSharedWithoutKey(t) == {}

RoutesShared(t) ==
    {q \in Routes : \/ t.pc = "staleCommit" /\ q = RouteOf[t.rev]
                    \/ t.pc = "sweep" /\ \E r \in t.marked : q = RouteOf[r]}

\* Mutants: with_for_update() forgotten on the revision, on the route.
RowUnguarded(s, r) == TRUE
RouteUnguarded(s, q) == TRUE

RowFree(s, r) == \A o \in Sessions \ {s} : r \notin RowsLocked(tx[o])
RowShareable(s, r) == \A o \in Sessions \ {s} : r \notin RowsLocked(tx[o]) \ {tx[o].prev}
RouteShareable(s, q) == \A o \in Sessions \ {s} : q \notin RoutesLocked(tx[o])
RouteFree(s, q) == /\ RouteShareable(s, q)
                   /\ \A o \in Sessions \ {s} : q \notin RoutesShared(tx[o])

-----------------------------------------------------------------------------
(* The review policy.                                                       *)

Passed(S) == {p \in S : p.passed}

\* Mutant: the environments are not compared.
SufficientAnywhere(S) == \E p, q \in Passed(S) : p.verifier # q.verifier

Sufficient(S) ==
    /\ \E p, q \in Passed(S) : p.verifier # q.verifier
    /\ \E p, q \in Passed(S) : p.environment # q.environment

\* Mutant: review_due_at is not compared with verified_at and now.
UncheckedReviewDates(S) == now - Window .. now + Window

ReviewDates(S) == {d \in now + 1 .. now + Window : \A p \in Passed(S) : p.at < d}

Overdue(r) == trust[r] = "verified" /\ due[r] <= now

\* emit_change writes the change event in the same transaction as the change.
Emit(counts, r, type) == [counts EXCEPT ![r][type] = @ + 1]

Public(r) == pub[r] \in {"published", "superseded"}

-----------------------------------------------------------------------------
Init ==
    /\ pub = [r \in Revisions |-> "absent"]
    /\ trust = [r \in Revisions |-> "provisional"]
    /\ version = [r \in Revisions |-> 1]
    /\ number = [r \in Revisions |-> 0]
    /\ due = [r \in Revisions |-> 0]
    /\ evidence = [r \in Revisions |-> {}]
    /\ current = [q \in Routes |-> NoRev]
    /\ emitted = [r \in Revisions |-> [e \in EventType |-> 0]]
    /\ owed = {}
    /\ now = 0
    /\ tx = [s \in Sessions |-> NoTx]

(* POST /admin/revisions.  The route row is locked before max(revision) is  *)
(* read; base carries the number the new row will get.                      *)

Numbers(q) == {0} \cup {number[r] : r \in {x \in Revisions : RouteOf[x] = q}}

CreateLock(s, r) ==
    /\ pub[r] = "absent"
    /\ RouteFree(s, RouteOf[r])
    /\ \E n \in Numbers(RouteOf[r]) :
         /\ \A m \in Numbers(RouteOf[r]) : m <= n
         /\ Begin(s, [Handling("createInsert", r) EXCEPT !.base = n + 1])
    /\ UNCHANGED <<rowVars, owed, now>>

CreateCommit(s) ==
    LET r == tx[s].rev IN
    /\ At(s, "createInsert")
    /\ pub' = [pub EXCEPT ![r] = "draft"]
    /\ number' = [number EXCEPT ![r] = tx[s].base]
    /\ End(s)
    /\ UNCHANGED <<trust, version, due, evidence, current, emitted, owed, now>>

(* POST /admin/revisions/{id}/verifications.  The state is read without a   *)
(* lock; only the insert waits for a FOR UPDATE holder of the revision.     *)

VerifyRead(s, r, p) ==
    /\ p.at <= now + Skew
    /\ pub[r] = "draft"
    /\ Begin(s, [Handling("verifyInsert", r) EXCEPT !.report = p])
    /\ UNCHANGED <<rowVars, owed, now>>

VerifyInsert(s) ==
    LET r == tx[s].rev IN
    /\ At(s, "verifyInsert")
    /\ RowShareable(s, r)
    /\ evidence' = [evidence EXCEPT ![r] = @ \cup {tx[s].report}]
    /\ End(s)
    /\ UNCHANGED <<pub, trust, version, number, due, current, emitted, owed, now>>

(* POST /admin/revisions/{id}/publish.  Locks the revision and decides;     *)
(* locks the route and reads the previous revision without a lock; updates  *)
(* the previous revision, which locks it; answers; commits.                 *)

PublishLock(s, r) ==
    /\ RowFree(s, r)
    /\ pub[r] = "draft"
    /\ Sufficient(evidence[r])
    /\ \E d \in ReviewDates(evidence[r]) :
         Begin(s, [Handling("publishRoute", r) EXCEPT !.due = d])
    /\ UNCHANGED <<rowVars, owed, now>>

PublishRoute(s) ==
    LET r == tx[s].rev
        q == RouteOf[r]
    IN
    /\ At(s, "publishRoute")
    /\ RouteFree(s, q)
    /\ tx' = [tx EXCEPT ![s] =
               [pc |-> "publishFlush", rev |-> r, due |-> tx[s].due,
                prev |-> current[q],
                base |-> IF current[q] = NoRev THEN 0 ELSE version[current[q]],
                report |-> NoReport, batch |-> {}, marked |-> {}]]
    /\ UNCHANGED <<rowVars, owed, now>>

\* The response leaves before get_session resumes after its yield and commits.
PublishFlush(s) ==
    /\ At(s, "publishFlush")
    /\ tx[s].prev # NoRev => RowFree(s, tx[s].prev)
    /\ owed' = owed \cup {tx[s].rev}
    /\ Goto(s, "publishCommit")
    /\ UNCHANGED <<rowVars, now>>

\* Mutant: the previous revision is left published.
KeepPrevious(f, p, value) == f

Supersede(f, p, value) == IF p = NoRev THEN f ELSE [f EXCEPT ![p] = value]

PublishCommit(s) ==
    LET r == tx[s].rev
        p == tx[s].prev
    IN
    /\ At(s, "publishCommit")
    /\ pub' = [Supersede(pub, p, "superseded") EXCEPT ![r] = "published"]
    /\ trust' = [trust EXCEPT ![r] = "verified"]
    /\ version' = [Supersede(version, p, tx[s].base + 1) EXCEPT ![r] = @ + 1]
    /\ due' = [due EXCEPT ![r] = tx[s].due]
    /\ current' = [current EXCEPT ![RouteOf[r]] = r]
    /\ emitted' = Emit(IF p = NoRev THEN emitted ELSE Emit(emitted, p, "superseded"),
                       r, "published")
    /\ owed' = owed \ {r}
    /\ End(s)
    /\ UNCHANGED <<number, evidence, now>>

(* POST /admin/revisions/{id}/withdraw.                                     *)

WithdrawLock(s, r) ==
    /\ RowFree(s, r)
    /\ pub[r] = "published"
    /\ Begin(s, Handling("withdrawRoute", r))
    /\ UNCHANGED <<rowVars, owed, now>>

WithdrawRoute(s) ==
    /\ At(s, "withdrawRoute")
    /\ RouteFree(s, RouteOf[tx[s].rev])
    /\ Goto(s, "withdrawCommit")
    /\ UNCHANGED <<rowVars, owed, now>>

WithdrawCommit(s) ==
    LET r == tx[s].rev
        q == RouteOf[r]
    IN
    /\ At(s, "withdrawCommit")
    /\ pub' = [pub EXCEPT ![r] = "withdrawn"]
    /\ version' = [version EXCEPT ![r] = @ + 1]
    /\ current' = [current EXCEPT ![q] = IF @ = r THEN NoRev ELSE @]
    /\ emitted' = Emit(emitted, r, "withdrawn")
    /\ End(s)
    /\ UNCHANGED <<trust, number, due, evidence, owed, now>>

(* POST /admin/revisions/{id}/mark-stale: mark_revision_stale on a row the  *)
(* session has not loaded before, so the locking read is a fresh one.       *)

StaleLock(s, r) ==
    /\ RowFree(s, r)
    /\ pub[r] = "published"
    /\ trust[r] # "stale"
    /\ Begin(s, [Handling("staleEmit", r) EXCEPT !.base = version[r]])
    /\ UNCHANGED <<rowVars, owed, now>>

\* Inserting the change event takes KEY SHARE on the route.
StaleEmit(s) ==
    /\ At(s, "staleEmit")
    /\ RouteShareable(s, RouteOf[tx[s].rev])
    /\ Goto(s, "staleCommit")
    /\ UNCHANGED <<rowVars, owed, now>>

\* status_version += 1 on the object in memory; only the changed columns are
\* written, so publication_state keeps whatever is committed.
StaleCommit(s) ==
    LET r == tx[s].rev IN
    /\ At(s, "staleCommit")
    /\ trust' = [trust EXCEPT ![r] = "stale"]
    /\ version' = [version EXCEPT ![r] = tx[s].base + 1]
    /\ emitted' = Emit(emitted, r, "stale")
    /\ End(s)
    /\ UNCHANGED <<pub, number, due, evidence, current, owed, now>>

(* GET /services/{slug}/exit-route.  One statement loads the route and its  *)
(* published revision.  An overdue one is handed to mark_revision_stale,    *)
(* whose locking read finds the object already in the session: it waits     *)
(* for the lock and then decides on the attributes loaded before.           *)

ReadCurrent(s, q) ==
    LET r == current[q] IN
    /\ r # NoRev
    /\ pub[r] = "published"
    /\ Begin(s, [Handling(IF Overdue(r) THEN "freshen" ELSE "present", r)
                  EXCEPT !.base = version[r]])
    /\ UNCHANGED <<rowVars, owed, now>>

FreshenLock(s) ==
    /\ At(s, "freshen")
    /\ RowFree(s, tx[s].rev)
    /\ Goto(s, "staleEmit")
    /\ UNCHANGED <<rowVars, owed, now>>

(* GET /services/{slug}/exit-route/revisions[/{number}]: no freshness check. *)

ReadRevision(s, r) ==
    /\ Public(r)
    /\ Begin(s, Handling("present", r))
    /\ UNCHANGED <<rowVars, owed, now>>

Present(s) ==
    /\ At(s, "present")
    /\ End(s)
    /\ UNCHANGED <<rowVars, owed, now>>

(* jobs.mark_due_revisions_stale: FOR UPDATE SKIP LOCKED over the earliest  *)
(* due published revisions, then mark_revision_stale for each in that       *)
(* order, then one commit.                                                  *)

\* Mutant: the pass looks for reviews that are still ahead.
UnsweptAhead(s) == {r \in Revisions : pub[r] = "published" /\ trust[r] = "verified"
                                      /\ due[r] > now /\ RowFree(s, r)}

Unswept(s) == {r \in Revisions : pub[r] = "published" /\ Overdue(r) /\ RowFree(s, r)}

SweepLease(s) ==
    /\ \E B \in SUBSET Unswept(s) :
         /\ B # {}
         /\ \/ B = Unswept(s) /\ Cardinality(B) <= BatchLimit
            \/ Cardinality(B) = BatchLimit
         /\ \A r \in B, o \in Unswept(s) \ B : due[r] <= due[o]
         /\ Begin(s, [Handling("sweep", NoRev) EXCEPT !.batch = B])
    /\ UNCHANGED <<rowVars, owed, now>>

\* The rows of the batch whose turn it is.
NextSwept(t) == {r \in t.batch \ t.marked :
                   \A o \in t.batch \ t.marked : due[r] <= due[o]}

SweepMark(s) ==
    /\ At(s, "sweep")
    /\ \E r \in NextSwept(tx[s]) :
         /\ RouteShareable(s, RouteOf[r])
         /\ tx' = [tx EXCEPT ![s].marked = @ \cup {r}]
    /\ UNCHANGED <<rowVars, owed, now>>

SweepCommit(s) ==
    LET B == tx[s].batch IN
    /\ At(s, "sweep")
    /\ tx[s].marked = B
    /\ trust' = [r \in Revisions |-> IF r \in B THEN "stale" ELSE trust[r]]
    /\ version' = [r \in Revisions |-> IF r \in B THEN version[r] + 1 ELSE version[r]]
    /\ emitted' = [r \in Revisions |-> IF r \in B
                                       THEN [emitted[r] EXCEPT !["stale"] = @ + 1]
                                       ELSE emitted[r]]
    /\ End(s)
    /\ UNCHANGED <<pub, number, due, evidence, current, owed, now>>

-----------------------------------------------------------------------------
(* Aborts.  get_session rolls back on any error, a dying process loses its  *)
(* connection, and PostgreSQL aborts a transaction on a cycle of waits.     *)

Rollback(s) ==
    /\ ~At(s, "idle")
    /\ End(s)
    /\ UNCHANGED <<rowVars, owed, now>>

Crash(s) == Rollback(s)

\* s waits for a lock o holds.
WaitsFor(s, o) ==
    LET t == tx[s] IN
    /\ s # o
    /\ \/ t.pc = "publishFlush" /\ t.prev \in RowsLocked(tx[o])
       \/ t.pc = "freshen" /\ t.rev \in RowsLocked(tx[o])
       \/ /\ t.pc \in {"publishRoute", "withdrawRoute"}
          /\ RouteOf[t.rev] \in RoutesLocked(tx[o]) \cup RoutesShared(tx[o])
       \/ t.pc = "staleEmit" /\ RouteOf[t.rev] \in RoutesLocked(tx[o])
       \/ /\ t.pc = "sweep"
          /\ \E r \in NextSwept(t) : RouteOf[r] \in RoutesLocked(tx[o])

Deadlocked(s) ==
    \E C \in SUBSET Sessions :
        /\ s \in C
        /\ \A a \in C : (\E b \in C : WaitsFor(a, b)) /\ (\E b \in C : WaitsFor(b, a))

\* Mutant: the error is caught in the handler and the statement run again, in the
\* transaction that still holds its locks.
RetryInPlace(s) == Deadlocked(s) /\ UNCHANGED vars

DeadlockAbort(s) == Deadlocked(s) /\ Rollback(s)

Tick ==
    /\ now < MaxTime
    /\ now' = now + 1
    /\ UNCHANGED <<rowVars, owed, tx>>

-----------------------------------------------------------------------------
Create == \E s \in Editors : (\E r \in Revisions : CreateLock(s, r)) \/ CreateCommit(s)
Verify == \E s \in Editors : \/ \E r \in Revisions, p \in Reports : VerifyRead(s, r, p)
                             \/ VerifyInsert(s)
Publish == \E s \in Editors : \/ \E r \in Revisions : PublishLock(s, r)
                              \/ PublishRoute(s) \/ PublishFlush(s) \/ PublishCommit(s)
Withdraw == \E s \in Editors : \/ \E r \in Revisions : WithdrawLock(s, r)
                               \/ WithdrawRoute(s) \/ WithdrawCommit(s)
MarkStale == \E s \in Editors : \/ \E r \in Revisions : StaleLock(s, r)
                                \/ StaleEmit(s) \/ StaleCommit(s)
Read == \E s \in Readers : \/ \E q \in Routes : ReadCurrent(s, q)
                           \/ \E r \in Revisions : ReadRevision(s, r)
                           \/ FreshenLock(s) \/ StaleEmit(s) \/ StaleCommit(s)
                           \/ Present(s)
Sweep == \E s \in Workers : SweepLease(s) \/ SweepMark(s) \/ SweepCommit(s)
Abort == \E s \in Sessions : Crash(s) \/ DeadlockAbort(s)

Next == \/ Create \/ Verify \/ Publish \/ Withdraw \/ MarkStale
        \/ Read \/ Sweep \/ Abort \/ Tick

Spec == Init /\ [][Next]_vars

(* Fairness.  A step that needs no lock is taken, and a cycle of waits is   *)
(* broken.  PostgreSQL grants a released lock to the request that waits for *)
(* it, so a lock that is free infinitely often is obtained; the worker      *)
(* polls at moments no request can avoid, so a row it could lease           *)
(* infinitely often is leased.  Processes do not fail forever.  No request  *)
(* is forced to arrive.                                                     *)

Advances(s) == \/ CreateCommit(s) \/ VerifyInsert(s) \/ PublishCommit(s)
               \/ WithdrawCommit(s) \/ StaleCommit(s) \/ Present(s)
Waits(s) == PublishRoute(s) \/ WithdrawRoute(s) \/ FreshenLock(s) \/ StaleEmit(s)
SweepTakes(s, r) == SweepLease(s) /\ r \in tx'[s].batch
Fails == \E s \in Sessions : ~Deadlocked(s) /\ Rollback(s)

Fairness ==
    /\ \A s \in Editors \cup Readers : WF_vars(Advances(s)) /\ SF_vars(Waits(s))
    /\ \A s \in Editors : SF_vars(PublishFlush(s))
    /\ \A s \in Workers : /\ \A r \in Revisions : SF_vars(SweepTakes(s, r))
                          /\ SF_vars(SweepMark(s))
                          /\ WF_vars(SweepCommit(s))
    /\ \A s \in Sessions : WF_vars(DeadlockAbort(s))
    /\ <>[][~Fails]_vars

FairSpec == Spec /\ Fairness

-----------------------------------------------------------------------------
(* Properties.                                                              *)

Local == [pc : Control, rev : Revisions \cup {NoRev}, prev : Revisions \cup {NoRev},
          base : Nat, due : Nat, report : Reports \cup {NoReport},
          batch : SUBSET Revisions, marked : SUBSET Revisions]

\* The columns and the sessions hold values of their types.
TypeOK ==
    /\ pub \in [Revisions -> PublicationState]
    /\ trust \in [Revisions -> TrustState]
    /\ version \in [Revisions -> Nat]
    /\ number \in [Revisions -> Nat]
    /\ due \in [Revisions -> Nat]
    /\ evidence \in [Revisions -> SUBSET Reports]
    /\ current \in [Routes -> Revisions \cup {NoRev}]
    /\ emitted \in [Revisions -> [EventType -> Nat]]
    /\ owed \subseteq Revisions
    /\ now \in Nat
    /\ tx \in [Sessions -> Local]

\* A route has at most one published revision and points at it: publish_revision
\* and withdraw_revision keep the two columns together whatever interleaves.
CurrentIsPublished ==
    /\ \A r \in Revisions : pub[r] = "published" <=> current[RouteOf[r]] = r
    /\ \A q \in Routes : current[q] # NoRev => RouteOf[current[q]] = q

\* The change feed tells each publication, supersession and withdrawal exactly
\* once, and staleness at least once, of exactly the revisions it happened to.
Told(r, type, happened) == emitted[r][type] = IF happened THEN 1 ELSE 0
FeedTellsHistory ==
    \A r \in Revisions :
        /\ Told(r, "published", pub[r] \in {"published", "superseded", "withdrawn"})
        /\ Told(r, "superseded", pub[r] = "superseded")
        /\ Told(r, "withdrawn", pub[r] = "withdrawn")
        /\ (emitted[r]["stale"] > 0) <=> (trust[r] = "stale")

\* What was published had, and keeps, two passed sessions by different verifiers
\* in different environments (publish_revision's policy check).
EvidenceBehindPublication ==
    \A r \in Revisions : pub[r] \notin {"absent", "draft"} =>
        /\ Cardinality({p.verifier : p \in Passed(evidence[r])}) >= 2
        /\ Cardinality({p.environment : p \in Passed(evidence[r])}) >= 2

\* The revisions of a route are numbered 1, 2, ... without gap or repetition,
\* however many editors create at once (create_revision).
NumbersAreContiguous ==
    \A q \in Routes :
        LET made == {r \in Revisions : RouteOf[r] = q /\ pub[r] # "absent"} IN
        {number[r] : r \in made} = 1 .. Cardinality(made)

\* Publication only moves draft, published, then superseded or withdrawn; a
\* verified label is lost once and never regained; a published review date stays.
Forward(r) ==
    /\ pub'[r] # pub[r] =>
         <<pub[r], pub'[r]>> \in {<<"absent", "draft">>, <<"draft", "published">>,
                                <<"published", "superseded">>, <<"published", "withdrawn">>}
    /\ trust'[r] # trust[r] =>
         <<trust[r], trust'[r]>> \in {<<"provisional", "verified">>, <<"verified", "stale">>}
    /\ pub[r] \notin {"absent", "draft"} => due'[r] = due[r]
LifecycleForward == [][\A r \in Revisions : Forward(r)]_vars

\* status_version counts the announced changes of a revision, so no increment is
\* lost and no change goes unannounced (holds when no public read marks stale).
VersionCountsEvents ==
    \A r \in Revisions :
        version[r] = 1 + emitted[r]["published"] + emitted[r]["superseded"]
                       + emitted[r]["stale"] + emitted[r]["withdrawn"]

\* status_version, which the ETag is built from, never goes back.
VersionNeverDecreases == [][\A r \in Revisions : version'[r] >= version[r]]_vars

\* The inductive invariant behind CurrentIsPublished.  No two transactions hold
\* conflicting locks ...
Compatible(t, u) ==
    /\ RowsLocked(t) \cap RowsLocked(u) = {}
    /\ RoutesLocked(t) \cap (RoutesLocked(u) \cup RoutesShared(u)) = {}
    /\ RoutesShared(t) \cap RoutesLocked(u) = {}
LocksCompatible == \A s, o \in Sessions : s # o => Compatible(tx[s], tx[o])

\* ... and what a handler decided on is still so when it goes on.
Justified(t) ==
    /\ t.pc \notin {"idle", "sweep"} => t.rev \in Revisions
    /\ t.pc = "createInsert" => pub[t.rev] = "absent"
    /\ t.pc = "verifyInsert" => t.report \in Reports
    /\ t.pc \in {"publishRoute", "publishFlush", "publishCommit"} => pub[t.rev] = "draft"
    /\ t.pc \in {"publishFlush", "publishCommit"} => t.prev = current[RouteOf[t.rev]]
    /\ t.pc \in {"withdrawRoute", "withdrawCommit"} => pub[t.rev] = "published"
    /\ t.marked \subseteq t.batch
HandlersJustified == \A s \in Sessions : Justified(tx[s])

LifecycleInv == TypeOK /\ LocksCompatible /\ HandlersJustified /\ CurrentIsPublished

\* Where no public read marks revisions stale, the transactions, for all their
\* statements and locks, do what the atomic operations of Catalog do.
CatalogOf == INSTANCE Catalog
ImplementsCatalog == CatalogOf!Spec

\* "Only draft revisions can receive verification events."
VerificationOnlyOnDrafts ==
    [][\A r \in Revisions : evidence'[r] # evidence[r] => pub[r] = "draft"]_vars

\* A publication that was acknowledged is committed or about to be.
AcknowledgedIsDurable ==
    \A r \in owed : pub[r] = "draft" =>
        \E s \in Sessions : At(s, "publishCommit") /\ tx[s].rev = r

\* An overdue revision that is the public one does not keep its label.
OverdueGoesStale ==
    \A r \in Revisions :
        (pub[r] = "published" /\ Overdue(r)) ~> ~(pub[r] = "published" /\ Overdue(r))

\* Every request and every pass ends: no cycle of lock waits stays.
TransactionsEnd == \A s \in Sessions : ~At(s, "idle") ~> At(s, "idle")
=============================================================================
