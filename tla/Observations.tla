---------------------------- MODULE Observations ----------------------------
(***************************************************************************)
(* Reports from API clients and their moderation: api/observations.py and  *)
(* the two observation endpoints of api/admin.py.  A submission carries an *)
(* idempotency key, unique for its client; moderators read the queue in    *)
(* pages, newest first, and decide each observation once.                  *)
(*                                                                         *)
(* ticket, payload, state and received are the committed rows, tx[s] is    *)
(* what session s holds in memory.  A reader of the queue keeps only the   *)
(* cursor it was given.                                                    *)
(***************************************************************************)
EXTENDS Integers, FiniteSets

CONSTANTS
    Clients,
    IdempotencyKeys,
    Payloads,      \* what payload hashes tell apart
    Rows,          \* the identifiers observations can be given, in their order
    Sessions,
    PageSize,      \* limit, from 1 to 100
    MaxTime,       \* bound of the model: the clock stops here
    None

Tickets == Clients \X IdempotencyKeys

ASSUME ConstantsAssumption ==
    /\ Rows \subseteq Nat
    /\ PageSize \in Nat \ {0} /\ MaxTime \in Nat
    /\ None \notin Tickets \cup Payloads \cup Rows

VARIABLES
    ticket,    \* client_id and idempotency_key of a row, None before the insert
    payload,   \* payload_hash
    state,     \* moderation_state
    received,  \* received_at
    audits,    \* how many "observation.moderated" audit rows a row has
    tx,        \* what each session has in memory and where it is
    receipts,  \* the receipts that were sent (history)
    now,
    paging,    \* whether the reader was given a next_cursor
    cursor,    \* the row the cursor was made from (received_at and id never change)
    listed,    \* what the pages of this pass have shown
    awaited    \* the rows queued when the pass began, and still (history)

rows == <<ticket, payload, state, received, audits>>
pass == <<paging, cursor, listed, awaited>>
vars == <<rows, tx, receipts, now, pass>>

States == {"absent", "queued", "accepted", "rejected"}
Decisions == {"accepted", "rejected"}

Receipt == [ticket : Tickets, payload : Payloads, row : Rows]

Local == [pc : {"idle", "insert", "inserted", "clash", "decide"},
          ticket : Tickets \cup {None}, payload : Payloads \cup {None},
          row : Rows \cup {None}, received : 0 .. MaxTime,
          decision : Decisions \cup {"none"}]

NoTx == [pc |-> "idle", ticket |-> None, payload |-> None, row |-> None, received |-> 0,
         decision |-> "none"]

At(s, pc) == tx[s].pc = pc
End(s) == tx' = [tx EXCEPT ![s] = NoTx]

Init ==
    /\ ticket = [o \in Rows |-> None]
    /\ payload = [o \in Rows |-> None]
    /\ state = [o \in Rows |-> "absent"]
    /\ received = [o \in Rows |-> 0]
    /\ audits = [o \in Rows |-> 0]
    /\ tx = [s \in Sessions |-> NoTx]
    /\ receipts = {}
    /\ now = 0
    /\ paging = FALSE /\ cursor = None /\ listed = {} /\ awaited = {}

-----------------------------------------------------------------------------
(* POST /observations: an unlocked look for the key, then an insert in a    *)
(* savepoint, which waits for whoever is inserting the same key; when that  *)
(* clashes, a second look.                                                  *)

Found(t) == {o \in Rows : ticket[o] = t}

\* A duplicate is answered with the existing row, another payload is a conflict.
Answers(t, p) ==
    {[ticket |-> t, payload |-> p, row |-> o] : o \in {x \in Found(t) : payload[x] = p}}

Submit(s, t, p) ==
    /\ At(s, "idle")
    /\ \/ /\ Found(t) # {}
          /\ receipts' = receipts \cup Answers(t, p)
          /\ UNCHANGED tx
       \/ /\ Found(t) = {}
          /\ tx' = [tx EXCEPT ![s] = [NoTx EXCEPT !.pc = "insert", !.ticket = t, !.payload = p,
                                                  !.received = now]]
          /\ UNCHANGED receipts
    /\ UNCHANGED <<rows, now, pass>>

\* Identifiers are random and never drawn twice.
Fresh(o) == /\ ticket[o] = None
            /\ \A s \in Sessions : tx[s].row # o
            /\ \A r \in receipts : r.row # o

\* Mutant: the unique constraint is dropped.
UnconstrainedInsert(s) ==
    LET t == tx[s].ticket
        p == tx[s].payload
    IN
    /\ At(s, "insert")
    /\ \E o \in Rows : /\ Fresh(o)
                       /\ tx' = [tx EXCEPT ![s].pc = "inserted", ![s].row = o]
                       /\ receipts' = receipts \cup {[ticket |-> t, payload |-> p, row |-> o]}
    /\ UNCHANGED <<rows, now, pass>>

\* The answer goes out before the commit.
Insert(s) ==
    LET t == tx[s].ticket
        p == tx[s].payload
    IN
    /\ At(s, "insert")
    /\ \A o \in Sessions \ {s} : At(o, "inserted") => tx[o].ticket # t
    /\ \/ /\ Found(t) # {}
          /\ tx' = [tx EXCEPT ![s].pc = "clash"]
          /\ UNCHANGED receipts
       \/ /\ Found(t) = {}
          /\ \E o \in Rows :
               /\ Fresh(o)
               /\ tx' = [tx EXCEPT ![s].pc = "inserted", ![s].row = o]
               /\ receipts' = receipts \cup {[ticket |-> t, payload |-> p, row |-> o]}
    /\ UNCHANGED <<rows, now, pass>>

LookAgain(s) ==
    /\ At(s, "clash")
    /\ receipts' = receipts \cup Answers(tx[s].ticket, tx[s].payload)
    /\ End(s)
    /\ UNCHANGED <<rows, now, pass>>

SubmitCommit(s) ==
    LET o == tx[s].row IN
    /\ At(s, "inserted")
    /\ ticket' = [ticket EXCEPT ![o] = tx[s].ticket]
    /\ payload' = [payload EXCEPT ![o] = tx[s].payload]
    /\ state' = [state EXCEPT ![o] = "queued"]
    /\ received' = [received EXCEPT ![o] = tx[s].received]
    /\ End(s)
    /\ UNCHANGED <<audits, receipts, now, pass>>

-----------------------------------------------------------------------------
(* POST /admin/observations/{id}/moderate.                                  *)

\* Mutant: with_for_update() forgotten.
RowUnguarded(s, o) == TRUE

RowFree(s, o) == \A x \in Sessions \ {s} : At(x, "decide") => tx[x].row # o

ModerateLock(s, o, d) ==
    /\ At(s, "idle")
    /\ RowFree(s, o)
    /\ state[o] = "queued"
    /\ tx' = [tx EXCEPT ![s] = [NoTx EXCEPT !.pc = "decide", !.row = o, !.decision = d]]
    /\ UNCHANGED <<rows, receipts, now, pass>>

ModerateCommit(s) ==
    LET o == tx[s].row IN
    /\ At(s, "decide")
    /\ state' = [state EXCEPT ![o] = tx[s].decision]
    /\ audits' = [audits EXCEPT ![o] = @ + 1]
    /\ awaited' = awaited \ {o}
    /\ End(s)
    /\ UNCHANGED <<ticket, payload, received, receipts, now, paging, cursor, listed>>

-----------------------------------------------------------------------------
(* GET /admin/observations: the queue in pages by received_at and id, both  *)
(* descending.                                                              *)

Queue == {o \in Rows : state[o] = "queued"}

Older(a, b) == received[a] < received[b] \/ (received[a] = received[b] /\ a < b)

\* Mutant: the cursor compares times only.
BehindCursorByTime(o) == received[o] < received[cursor]

BehindCursor(o) == Older(o, cursor)

\* The newest PageSize rows of E.
IsPage(P, E) ==
    /\ P \subseteq E
    /\ Cardinality(P) = IF Cardinality(E) < PageSize THEN Cardinality(E) ELSE PageSize
    /\ \A a \in P, b \in E \ P : Older(b, a)

\* A next_cursor is given when one row more was found than fits the page.
Continue(P, E) ==
    /\ paging' = (P # E)
    /\ \/ P = E /\ cursor' = None
       \/ P # E /\ \E o \in P : (\A a \in P \ {o} : Older(o, a)) /\ cursor' = o

ListFirst ==
    /\ awaited' = Queue
    /\ \E P \in SUBSET Queue : IsPage(P, Queue) /\ listed' = P /\ Continue(P, Queue)
    /\ UNCHANGED <<rows, tx, receipts, now>>

ListNext ==
    LET E == {o \in Queue : BehindCursor(o)} IN
    /\ paging
    /\ \E P \in SUBSET E : IsPage(P, E) /\ listed' = listed \cup P /\ Continue(P, E)
    /\ UNCHANGED <<rows, tx, receipts, now, awaited>>

-----------------------------------------------------------------------------
\* An error or a dying process, also after the answer.
Crash(s) ==
    /\ ~At(s, "idle")
    /\ End(s)
    /\ UNCHANGED <<rows, receipts, now, pass>>

Tick ==
    /\ now < MaxTime
    /\ now' = now + 1
    /\ UNCHANGED <<rows, tx, receipts, pass>>

Report(s) == (\E t \in Tickets, p \in Payloads : Submit(s, t, p))
             \/ Insert(s) \/ LookAgain(s) \/ SubmitCommit(s)
Moderate(s) == (\E o \in Rows, d \in Decisions : ModerateLock(s, o, d)) \/ ModerateCommit(s)
List == ListFirst \/ ListNext

Next == (\E s \in Sessions : Report(s) \/ Moderate(s) \/ Crash(s)) \/ List \/ Tick

Spec == Init /\ [][Next]_vars

-----------------------------------------------------------------------------
(* Properties.                                                              *)

\* The columns, the sessions, the receipts and the reader hold values of their types.
TypeOK ==
    /\ ticket \in [Rows -> Tickets \cup {None}]
    /\ payload \in [Rows -> Payloads \cup {None}]
    /\ state \in [Rows -> States]
    /\ received \in [Rows -> 0 .. MaxTime]
    /\ audits \in [Rows -> 0 .. 1]
    /\ tx \in [Sessions -> Local]
    /\ receipts \subseteq Receipt
    /\ now \in 0 .. MaxTime
    /\ paging \in BOOLEAN /\ cursor \in Rows \cup {None}
    /\ listed \subseteq Rows /\ awaited \subseteq Rows

\* However often a client sends an observation under one key, on however many
\* connections, one row comes of it (create_observation): a row that a receipt names is,
\* once committed, the only one of the sender's key, and has the payload that was sent.
ReceiptsAreTrue ==
    \A r \in receipts : ticket[r.row] # None =>
        /\ {o \in Rows : ticket[o] = r.ticket} = {r.row}
        /\ payload[r.row] = r.payload

\* The first decision about an observation stands (admin_moderate_observation).
FirstDecisionStands ==
    [][\A o \in Rows : state[o] \in Decisions => state'[o] = state[o]]_vars

\* A moderator who follows next_cursor to its end has been shown everything that was
\* queued from the beginning on, whatever was submitted and decided meanwhile.
PassIsComplete == ~paging => awaited \subseteq listed

\* The inductive invariant behind them.  Rows are filled in one commit ...
RowsSound ==
    \A o \in Rows :
        /\ ticket[o] = None <=> state[o] = "absent"
        /\ audits[o] = IF state[o] \in Decisions THEN 1 ELSE 0

\* ... no two of them have one key, and receipts name rows with their key and payload ...
OneRowPerKey == \A a, b \in Rows : ticket[a] # None /\ ticket[a] = ticket[b] => a = b
ReceiptsMatch ==
    \A r \in receipts : ticket[r.row] # None =>
        ticket[r.row] = r.ticket /\ payload[r.row] = r.payload

\* ... what a session has found still holds when it acts on it ...
Justified(t) ==
    /\ t.pc \in {"insert", "inserted", "clash"} => t.ticket \in Tickets /\ t.payload \in Payloads
    /\ t.pc = "inserted" =>
         /\ t.row \in Rows /\ ticket[t.row] = None /\ Found(t.ticket) = {}
         /\ \A r \in receipts : r.row = t.row => r.ticket = t.ticket /\ r.payload = t.payload
    /\ t.pc = "decide" => t.row \in Rows /\ state[t.row] = "queued" /\ t.decision \in Decisions
    /\ t.pc \notin {"inserted", "decide"} => t.row = None
SessionsJustified == \A s \in Sessions : Justified(tx[s])

\* ... no two sessions insert the same key, or have the same row ...
Apart(t, u) ==
    /\ t.pc = "inserted" /\ u.pc = "inserted" => t.ticket # u.ticket
    /\ t.row = u.row => t.row = None
SessionsApart == \A s, o \in Sessions : s # o => Apart(tx[s], tx[o])

\* ... and what a pass has not shown yet lies behind its cursor.
PassSound ==
    /\ awaited \subseteq Queue
    /\ paging => /\ cursor \in Rows /\ ticket[cursor] # None
                 /\ \A o \in awaited \ listed : BehindCursor(o)

ObservationsInv ==
    /\ TypeOK /\ RowsSound /\ SessionsJustified /\ SessionsApart
    /\ OneRowPerKey /\ ReceiptsMatch /\ PassSound /\ PassIsComplete
====
