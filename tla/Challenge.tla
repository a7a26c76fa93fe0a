----------------------------- MODULE Challenge ------------------------------
(***************************************************************************)
(* api/challenges.py: the puzzle of one date.  The first request for it    *)
(* assigns a verified revision to the date; later ones serve the same, as  *)
(* long as it is eligible.  Requests run concurrently, each in a           *)
(* READ COMMITTED transaction of its own, and revisions are published,     *)
(* withdrawn and marked stale meanwhile.  A step is one SQL statement and  *)
(* what the handler does with its rows.                                    *)
(***************************************************************************)
EXTENDS Integers, FiniteSets

CONSTANTS
    Requests,   \* calls of get_daily_challenge for the date
    Earlier,    \* a call that was answered before
    Revisions,  \* route revisions, numbered in the order of their identifiers
    Published,  \* those that are published at first, at most one of a route
    Routes,
    RouteOf,    \* RouteRevision.route_id
    Seed,       \* the number made of the hash of the date
    None

ASSUME ConstantsAssumption ==
    /\ Revisions \subseteq Nat /\ IsFiniteSet(Revisions)
    /\ RouteOf \in [Revisions -> Routes]
    /\ Published \subseteq Revisions
    /\ \A q, r \in Published : RouteOf[q] = RouteOf[r] => q = r
    /\ Seed \in Nat
    /\ None \notin Requests /\ None \notin Revisions /\ Earlier \notin Requests

Status == {"draft", "verified", "stale", "ended"}

\* A row of challenge_assignments.  The request that made it stands for public_id.
Assignment == [id : Requests \cup {Earlier}, revision : Revisions]

VARIABLES
    status,   \* publication_state and trust_state of each revision
    current,  \* Route.current_revision_id
    lapsed,   \* revisions whose review_due_at has passed
    row,      \* the committed row of the date, or None
    holder,   \* the request that has the advisory lock, or None
    tx,       \* the requests' transactions and local variables
    witness   \* history: the revisions that were eligible since a request began

catalog == <<status, current, lapsed>>
vars == <<status, current, lapsed, row, holder, tx, witness>>

\* held: the assignment in the session's identity map; seen: its revision there;
\* removed, choice: what the transaction has deleted and inserted; served: the answer.
Local == [pc : {"idle", "revision", "judge", "lock", "again", "delete", "choose",
                "insert", "commit", "done"},
          held : Assignment \cup {None}, seen : Status \cup {None},
          removed : Assignment \cup {None}, choice : Revisions \cup {None},
          served : Assignment \cup {None}]

NewRequest == [pc |-> "idle", held |-> None, seen |-> None,
               removed |-> None, choice |-> None, served |-> None]

\* Some revisions have been published, and the date may have a puzzle.
Init ==
    /\ status = [r \in Revisions |-> IF r \in Published THEN "verified" ELSE "draft"]
    /\ current = [rt \in Routes |-> IF \E r \in Published : RouteOf[r] = rt
                                   THEN CHOOSE r \in Published : RouteOf[r] = rt ELSE None]
    /\ lapsed = {}
    /\ row \in [id : {Earlier}, revision : Published] \cup {None}
    /\ holder = None
    /\ tx = [s \in Requests |-> NewRequest]
    /\ witness = [s \in Requests |-> {}]

-----------------------------------------------------------------------------
(* The catalog: publish_revision, withdraw_revision, mark_revision_stale *)

Eligible(r) == current[RouteOf[r]] = r /\ status[r] = "verified" /\ r \notin lapsed

Running(s) == tx[s].pc \notin {"idle", "done"}

Publish(r) ==
    /\ status[r] = "draft"
    /\ status' = [q \in Revisions |->
                    IF q = r THEN "verified"
                    ELSE IF q = current[RouteOf[r]] THEN "ended" ELSE status[q]]
    /\ current' = [current EXCEPT ![RouteOf[r]] = r]
    /\ witness' = [s \in Requests |-> IF Running(s) THEN witness[s] \cup {r} ELSE witness[s]]
    /\ UNCHANGED <<lapsed, row, holder, tx>>

Withdraw(r) ==
    /\ status[r] \in {"verified", "stale"}
    /\ status' = [status EXCEPT ![r] = "ended"]
    /\ current' = [current EXCEPT ![RouteOf[r]] = IF @ = r THEN None ELSE @]
    /\ UNCHANGED <<lapsed, row, holder, tx, witness>>

MarkStale(r) ==
    /\ status[r] = "verified"
    /\ status' = [status EXCEPT ![r] = "stale"]
    /\ UNCHANGED <<current, lapsed, row, holder, tx, witness>>

\* The clock passes the review_due_at of a published revision.
Lapse(r) ==
    /\ status[r] \in {"verified", "stale"} /\ r \notin lapsed
    /\ lapsed' = lapsed \cup {r}
    /\ UNCHANGED <<status, current, row, holder, tx, witness>>

Edit == \E r \in Revisions : Publish(r) \/ Withdraw(r) \/ MarkStale(r) \/ Lapse(r)

-----------------------------------------------------------------------------
(* _choose_revision *)

Go(s, t) == tx' = [tx EXCEPT ![s] = t]

\* The session of s is closed.  The lock is the transaction's: it is given back too.
Close(s) ==
    /\ Go(s, [NewRequest EXCEPT !.pc = "done"])
    /\ witness' = [witness EXCEPT ![s] = {}]
    /\ holder' = IF holder = s THEN None ELSE holder

\* session.get(ChallengeAssignment): what was found stays in the identity map.
Begin(s) ==
    /\ tx[s].pc = "idle"
    /\ Go(s, [tx[s] EXCEPT !.held = row, !.pc = IF row = None THEN "lock" ELSE "revision"])
    /\ witness' = [witness EXCEPT ![s] = {r \in Revisions : Eligible(r)}]
    /\ UNCHANGED <<catalog, row, holder>>

ReadRevision(s) ==
    /\ tx[s].pc = "revision"
    /\ Go(s, [tx[s] EXCEPT !.seen = status[tx[s].held.revision], !.pc = "judge"])
    /\ UNCHANGED <<catalog, row, holder, witness>>

\* Mutant: neither the pointer nor the date of review is looked at.
ApprovedOnTrust(t) == t.seen = "verified"

\* _eligible_revision: the revision as it was read, its route as it is now.
Approved(t) ==
    LET r == t.held.revision IN
    current[RouteOf[r]] = r /\ t.seen = "verified" /\ r \notin lapsed

Serve(s) ==
    /\ tx[s].pc = "judge" /\ Approved(tx[s])
    /\ Go(s, [tx[s] EXCEPT !.served = tx[s].held, !.pc = "commit"])
    /\ UNCHANGED <<catalog, row, holder, witness>>

Reject(s) ==
    /\ tx[s].pc = "judge" /\ ~Approved(tx[s])
    /\ Go(s, [tx[s] EXCEPT !.pc = IF holder = s THEN "delete" ELSE "lock"])
    /\ UNCHANGED <<catalog, row, holder, witness>>

\* The second session.get asks the database only if the first one found nothing;
\* else the assignment and its revision are those of the identity map.
AfterLock(t) == IF t.held = None THEN "again" ELSE "judge"

\* Mutant: no lock, as on a database that has none.
LockNothing(s) ==
    /\ tx[s].pc = "lock"
    /\ Go(s, [tx[s] EXCEPT !.pc = AfterLock(tx[s])])
    /\ holder' = s
    /\ UNCHANGED <<catalog, row, witness>>

\* pg_advisory_xact_lock of the date.
Lock(s) ==
    /\ tx[s].pc = "lock"
    /\ holder = None
    /\ holder' = s
    /\ Go(s, [tx[s] EXCEPT !.pc = AfterLock(tx[s])])
    /\ UNCHANGED <<catalog, row, witness>>

\* Mutant: what is found now is replaced without being judged.
LookAndReplace(s) ==
    /\ tx[s].pc = "again"
    /\ Go(s, [tx[s] EXCEPT !.held = row, !.pc = IF row = None THEN "choose" ELSE "delete"])
    /\ UNCHANGED <<catalog, row, holder, witness>>

LookAgain(s) ==
    /\ tx[s].pc = "again"
    /\ Go(s, [tx[s] EXCEPT !.held = row, !.pc = IF row = None THEN "choose" ELSE "revision"])
    /\ UNCHANGED <<catalog, row, holder, witness>>

\* The DELETE names the date, not the assignment that was judged.
Delete(s) ==
    /\ tx[s].pc = "delete"
    /\ Go(s, [tx[s] EXCEPT !.removed = row, !.pc = "choose"])
    /\ UNCHANGED <<catalog, row, holder, witness>>

Candidates == {r \in Revisions : Eligible(r)}

\* candidates[seed % len(candidates)], in the order of the identifiers.
Chosen == CHOOSE r \in Candidates :
            Cardinality({q \in Candidates : q < r}) = Seed % Cardinality(Candidates)

Choose(s) ==
    /\ tx[s].pc = "choose"
    /\ Candidates # {}
    /\ Go(s, [tx[s] EXCEPT !.choice = Chosen, !.pc = "insert"])
    /\ UNCHANGED <<catalog, row, holder, witness>>

\* Mutant: the lock is kept, as by a session that is never closed.
NothingToServeButLock(s) ==
    /\ tx[s].pc = "choose" /\ Candidates = {}
    /\ Go(s, [NewRequest EXCEPT !.pc = "done"])
    /\ UNCHANGED <<catalog, row, holder, witness>>

\* challenge_unavailable: the transaction is rolled back, its deletion undone.
NothingToServe(s) ==
    /\ tx[s].pc = "choose" /\ Candidates = {}
    /\ Close(s)
    /\ UNCHANGED <<catalog, row>>

\* The primary key of the date is free for s.
Free(s) ==
    /\ row = tx[s].removed
    /\ \A o \in Requests \ {s} : tx[o].pc = "commit" => tx[o].choice = None

\* The savepoint with the INSERT.  The answer is sent before the commit.
Insert(s) ==
    /\ tx[s].pc = "insert"
    /\ Free(s)
    /\ Go(s, [tx[s] EXCEPT !.served = [id |-> s, revision |-> tx[s].choice], !.pc = "commit"])
    /\ UNCHANGED <<catalog, row, holder, witness>>

Commit(s) ==
    /\ tx[s].pc = "commit"
    /\ row' = IF tx[s].choice # None THEN tx[s].served ELSE row
    /\ Close(s)
    /\ UNCHANGED catalog

\* The process dies, or the database refuses the commit: nothing is stored.
Crash(s) ==
    /\ Running(s)
    /\ Close(s)
    /\ UNCHANGED <<catalog, row>>

Step(s) ==
    \/ ReadRevision(s) \/ Serve(s) \/ Reject(s) \/ Lock(s) \/ LookAgain(s)
    \/ Delete(s) \/ Choose(s) \/ NothingToServe(s) \/ Insert(s) \/ Commit(s)

Next == Edit \/ \E s \in Requests : Begin(s) \/ Step(s) \/ Crash(s)

Spec == Init /\ [][Next]_vars

\* A handler that runs goes on; PostgreSQL gives a free lock to one that waits.
FairSpec == Spec /\ \A s \in Requests : WF_vars(Step(s))

-----------------------------------------------------------------------------
(* Properties *)

\* The variables keep their types.
TypeOK ==
    /\ status \in [Revisions -> Status]
    /\ current \in [Routes -> Revisions \cup {None}]
    /\ lapsed \subseteq Revisions
    /\ row \in Assignment \cup {None}
    /\ holder \in Requests \cup {None}
    /\ tx \in [Requests -> Local]
    /\ witness \in [Requests -> SUBSET Revisions]

\* One request at a time replaces the assignment: what it inserts never meets a row,
\* so the IntegrityError branch of _choose_revision is not taken on PostgreSQL.
InsertFindsFree == \A s \in Requests : tx[s].pc = "insert" => Free(s)

\* A puzzle is made of a revision that was current, published, verified and not yet
\* due at some moment of the request, although assignment, revision and route are read
\* one after another and revision and assignment may be old copies.
ServedWasEligible ==
    \A s \in Requests : tx[s].served # None => tx[s].served.revision \in witness[s]

\* A request that has seen the assignment it replaces replaces it only for cause: an
\* eligible puzzle is only lost to a request that had seen an earlier one.
ReplacedForCause ==
    [][\A s \in Requests :
         row # None /\ tx[s].pc = "commit" /\ tx'[s].pc = "done" /\ row' # row /\ Eligible(row.revision)
           => tx[s].held # None /\ tx[s].held # row]_vars

\* Every request that has begun comes to its end; none waits for the lock for ever.
RequestsEnd == \A s \in Requests : Running(s) ~> tx[s].pc = "done"
=============================================================================
