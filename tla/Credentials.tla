---------------------------- MODULE Credentials ----------------------------
(***************************************************************************)
(* API clients, their keys and their minute quotas: services/auth.py and   *)
(* the credential endpoints of api/admin.py, as transactions of several    *)
(* statements at READ COMMITTED, and the clean-up of old windows in        *)
(* jobs.py.  Authentication is a transaction of its own, committed before  *)
(* the handler of the request begins.                                      *)
(*                                                                         *)
(* The variables are the committed rows; tx[s] is what session s holds in  *)
(* memory, and the row locks it holds follow from where it is.             *)
(***************************************************************************)
EXTENDS Integers, FiniteSets

CONSTANTS
    Clients,
    Keys,          \* the identifiers keys can be given
    Sessions,      \* request sessions
    Limit,         \* rate_limit_per_minute of a client, or the default of the settings
    Keep,          \* how many minutes jobs.py keeps a window for
    NoClient,
    NoKey,
    MaxTime,       \* bound of the model: the clock stops here
    MaxCount       \* bound of the model: a client with so many requests sends no more

ASSUME ConstantsAssumption ==
    /\ Limit \in [Clients -> Nat \ {0}]
    /\ Keep \in Nat /\ MaxTime \in Nat /\ MaxCount \in Nat
    /\ NoClient \notin Clients /\ NoKey \notin Keys

VARIABLES
    status,    \* api_clients.active, "absent" before the insert
    owner,     \* api_keys.client_id, NoClient before the insert
    revoked,   \* whether api_keys.revoked_at is set
    parent,    \* the key a rotation replaced by this one (the audit row's replacement_id)
    count,     \* rate_windows.request_count by client and minute, 0 without a row
    admitted,  \* requests let through in each minute (history)
    now,       \* the clock, in minutes
    tx         \* what each session has in memory and where it is

keyRows == <<status, owner, revoked, parent>>
vars == <<status, owner, revoked, parent, count, admitted, now, tx>>

Minutes == 0 .. MaxTime

Control == {"idle", "client", "count", "admit", "insert", "issued", "revoke", "deactivate"}

\* What a handler holds in memory: the client and the key it is about, the identifier
\* of a key it makes, its minute and the count it was given, the keys it will revoke.
\* welcome is history: whether the client was active when its request came.
Local == [pc : Control, client : Clients \cup {NoClient}, key : Keys \cup {NoKey},
          new : Keys \cup {NoKey}, minute : Nat, used : Nat, batch : SUBSET Keys,
          welcome : BOOLEAN]

Handling(pc, c, k) == [pc |-> pc, client |-> c, key |-> k, new |-> NoKey, minute |-> 0,
                       used |-> 0, batch |-> {}, welcome |-> TRUE]
NoTx == Handling("idle", NoClient, NoKey)

At(s, pc) == tx[s].pc = pc
Begin(s, local) == At(s, "idle") /\ tx' = [tx EXCEPT ![s] = local]
End(s) == tx' = [tx EXCEPT ![s] = NoTx]

Made(k) == owner[k] # NoClient
Live(k) == Made(k) /\ ~revoked[k]
KeysOf(c) == {k \in Keys : owner[k] = c}

-----------------------------------------------------------------------------
(* Row locks: FOR UPDATE on a key or a client, the upserted window, and the *)
(* KEY SHARE on the client an insert of a key or of a window takes.         *)

\* Mutant: last_used_at is flushed before the window is counted (autoflush on).
KeysLockedEarly(t) ==
    IF t.pc \in {"count", "admit", "insert", "issued", "revoke"} THEN {t.key} \ {NoKey} ELSE {}

\* A rotation holds the key it replaces; a creation has none.
KeysLocked(t) == IF t.pc \in {"insert", "issued", "revoke"} THEN {t.key} \ {NoKey} ELSE {}
ClientsLocked(t) == IF t.pc = "deactivate" THEN {t.client} ELSE {}
ClientsShared(t) == IF t.pc = "issued" \/ (t.pc = "admit" /\ t.used = 1) THEN {t.client} ELSE {}
WindowsLocked(t) == IF t.pc = "admit" THEN {<<t.client, t.minute>>} ELSE {}

\* Mutant: with_for_update() forgotten on the key.
KeyUnguarded(s, k) == TRUE

KeyFree(s, k) == \A o \in Sessions \ {s} : k \notin KeysLocked(tx[o])
ClientShareable(s, c) == \A o \in Sessions \ {s} : c \notin ClientsLocked(tx[o])
ClientFree(s, c) == /\ ClientShareable(s, c)
                    /\ \A o \in Sessions \ {s} : c \notin ClientsShared(tx[o])
WindowFree(s, c, m) == \A o \in Sessions \ {s} : <<c, m>> \notin WindowsLocked(tx[o])

-----------------------------------------------------------------------------
Init ==
    /\ status = [c \in Clients |-> "absent"]
    /\ owner = [k \in Keys |-> NoClient]
    /\ revoked = [k \in Keys |-> FALSE]
    /\ parent = [k \in Keys |-> NoKey]
    /\ count = [c \in Clients |-> [m \in Minutes |-> 0]]
    /\ admitted = [c \in Clients |-> [m \in Minutes |-> 0]]
    /\ now = 0
    /\ tx = [s \in Sessions |-> NoTx]

(* POST /admin/api-clients. *)
CreateClient(c) ==
    /\ status[c] = "absent"
    /\ status' = [status EXCEPT ![c] = "active"]
    /\ UNCHANGED <<owner, revoked, parent, count, admitted, now, tx>>

(* authenticate_api_key: the key and then its client are read without a     *)
(* lock; the window of the minute is upserted, which locks it; the commit   *)
(* first writes last_used_at, which waits for whoever has locked the key.   *)

PresentKey(s, k) ==
    /\ Live(k)
    /\ count[owner[k]][now] < MaxCount
    /\ Begin(s, [Handling("client", owner[k], k) EXCEPT !.welcome = (status[owner[k]] = "active")])
    /\ UNCHANGED <<keyRows, count, admitted, now>>

\* An exception ends the transaction of a request that is refused.
Refuse(s) == End(s) /\ UNCHANGED <<keyRows, count, admitted, now>>

\* Mutant: a key is enough.
CheckKeyOnly(s) ==
    /\ At(s, "client")
    /\ tx' = [tx EXCEPT ![s].pc = "count", ![s].minute = now]
    /\ UNCHANGED <<keyRows, count, admitted, now>>

CheckClient(s) ==
    /\ At(s, "client")
    /\ \/ /\ status[tx[s].client] = "active"
          /\ tx' = [tx EXCEPT ![s].pc = "count", ![s].minute = now]
          /\ UNCHANGED <<keyRows, count, admitted, now>>
       \/ status[tx[s].client] # "active" /\ Refuse(s)

\* Mutant: the count is read and then written, without an upsert.
UpsertByRead(s) ==
    LET c == tx[s].client
        m == tx[s].minute
    IN
    /\ At(s, "count")
    /\ tx' = [tx EXCEPT ![s].pc = "admit", ![s].used = count[c][m] + 1]
    /\ UNCHANGED <<keyRows, count, admitted, now>>

\* ON CONFLICT DO UPDATE adds to the committed count, under the lock of the row.
Upsert(s) ==
    LET c == tx[s].client
        m == tx[s].minute
    IN
    /\ At(s, "count")
    /\ WindowFree(s, c, m)
    /\ count[c][m] = 0 => ClientShareable(s, c)
    /\ tx' = [tx EXCEPT ![s].pc = "admit", ![s].used = count[c][m] + 1]
    /\ UNCHANGED <<keyRows, count, admitted, now>>

\* The count is committed whether or not the request is let through.
Admit(s) ==
    LET c == tx[s].client
        m == tx[s].minute
    IN
    /\ At(s, "admit")
    /\ KeyFree(s, tx[s].key)
    /\ count' = [count EXCEPT ![c][m] = tx[s].used]
    /\ admitted' = [admitted EXCEPT ![c][m] = IF tx[s].used > Limit[c] THEN @ ELSE @ + 1]
    /\ End(s)
    /\ UNCHANGED <<keyRows, now>>

(* POST /admin/api-clients/{id}/keys: the client is read without a lock;    *)
(* only the insert of the key waits for whoever has locked it.              *)

Fresh(n) == ~Made(n) /\ \A s \in Sessions : tx[s].new # n

CreateKey(s, c, n) ==
    /\ status[c] = "active"
    /\ Fresh(n)
    /\ Begin(s, [Handling("insert", c, NoKey) EXCEPT !.new = n])
    /\ UNCHANGED <<keyRows, count, admitted, now>>

(* POST /admin/api-keys/{id}/rotate: the key is locked and then looked at;  *)
(* whether the client is active is not.                                     *)

Rotate(s, k, n) ==
    /\ KeyFree(s, k)
    /\ Live(k)
    /\ Fresh(n)
    /\ Begin(s, [Handling("insert", owner[k], k) EXCEPT !.new = n])
    /\ UNCHANGED <<keyRows, count, admitted, now>>

\* Mutant: a key without a foreign key to its client.
IssueUnrelated(s) ==
    /\ At(s, "insert")
    /\ tx' = [tx EXCEPT ![s].pc = "issued"]
    /\ UNCHANGED <<keyRows, count, admitted, now>>

\* issue_api_key, for both of them: session.flush inserts the row.
IssueKey(s) ==
    /\ At(s, "insert")
    /\ ClientShareable(s, tx[s].client)
    /\ tx' = [tx EXCEPT ![s].pc = "issued"]
    /\ UNCHANGED <<keyRows, count, admitted, now>>

\* The replaced key is revoked in the transaction that makes the new one.
IssueCommit(s) ==
    LET n == tx[s].new
        k == tx[s].key
    IN
    /\ At(s, "issued")
    /\ owner' = [owner EXCEPT ![n] = tx[s].client]
    /\ parent' = [parent EXCEPT ![n] = k]
    /\ revoked' = [x \in Keys |-> IF x = k THEN TRUE ELSE revoked[x]]
    /\ End(s)
    /\ UNCHANGED <<status, count, admitted, now>>

(* DELETE /admin/api-keys/{id}. *)

RevokeLock(s, k) ==
    /\ KeyFree(s, k)
    /\ Live(k)
    /\ Begin(s, Handling("revoke", owner[k], k))
    /\ UNCHANGED <<keyRows, count, admitted, now>>

RevokeCommit(s) ==
    /\ At(s, "revoke")
    /\ revoked' = [revoked EXCEPT ![tx[s].key] = TRUE]
    /\ End(s)
    /\ UNCHANGED <<status, owner, parent, count, admitted, now>>

(* DELETE /admin/api-clients/{id}: the client is locked, then its keys are  *)
(* read without a lock; those not revoked are written at the commit.        *)

DeactivateLock(s, c) ==
    /\ ClientFree(s, c)
    /\ status[c] # "absent"
    /\ Begin(s, [Handling("deactivate", c, NoKey) EXCEPT !.batch = {k \in KeysOf(c) : Live(k)}])
    /\ UNCHANGED <<keyRows, count, admitted, now>>

DeactivateCommit(s) ==
    /\ At(s, "deactivate")
    /\ \A k \in tx[s].batch : KeyFree(s, k)
    /\ status' = [status EXCEPT ![tx[s].client] = "inactive"]
    /\ revoked' = [k \in Keys |-> IF k \in tx[s].batch THEN TRUE ELSE revoked[k]]
    /\ End(s)
    /\ UNCHANGED <<owner, parent, count, admitted, now>>

(* The worker deletes old windows with its freshness pass. *)

\* Mutant: the window of the minute before is thought to be over.
OldTooSoon == {m \in Minutes : m < now}

Old == {m \in Minutes : m < now - Keep}

Purge ==
    /\ \E c \in Clients, m \in Old : count[c][m] # 0
    /\ \A s \in Sessions, c \in Clients, m \in Old : <<c, m>> \notin WindowsLocked(tx[s])
    /\ count' = [c \in Clients |-> [m \in Minutes |-> IF m \in Old THEN 0 ELSE count[c][m]]]
    /\ UNCHANGED <<keyRows, admitted, now, tx>>

(* Aborts: errors, dying processes, and PostgreSQL breaking a cycle.        *)

Rollback(s) ==
    /\ ~At(s, "idle")
    /\ End(s)
    /\ UNCHANGED <<keyRows, count, admitted, now>>

Crash(s) == Rollback(s)

WaitsFor(s, o) ==
    LET t == tx[s] IN
    /\ s # o
    /\ \/ /\ t.pc = "count"
          /\ \/ <<t.client, t.minute>> \in WindowsLocked(tx[o])
             \/ count[t.client][t.minute] = 0 /\ t.client \in ClientsLocked(tx[o])
       \/ t.pc = "admit" /\ t.key \in KeysLocked(tx[o])
       \/ t.pc = "insert" /\ t.client \in ClientsLocked(tx[o])
       \/ t.pc = "deactivate" /\ t.batch \cap KeysLocked(tx[o]) # {}

Deadlocked(s) ==
    \E C \in SUBSET Sessions :
        /\ s \in C
        /\ \A a \in C : (\E b \in C : WaitsFor(a, b)) /\ (\E b \in C : WaitsFor(b, a))

DeadlockAbort(s) == Deadlocked(s) /\ Rollback(s)

\* No request spends the minutes a window is kept for between two statements.
Tick ==
    /\ now < MaxTime
    /\ \A s \in Sessions : tx[s].pc \in {"count", "admit"} => now < tx[s].minute + Keep
    /\ now' = now + 1
    /\ UNCHANGED <<keyRows, count, admitted, tx>>

-----------------------------------------------------------------------------
Authenticate(s) == (\E k \in Keys : PresentKey(s, k)) \/ CheckClient(s) \/ Upsert(s) \/ Admit(s)
Issue(s) == \/ \E n \in Keys : \/ \E c \in Clients : CreateKey(s, c, n)
                              \/ \E k \in Keys : Rotate(s, k, n)
            \/ IssueKey(s) \/ IssueCommit(s)
Revoke(s) == (\E k \in Keys : RevokeLock(s, k)) \/ RevokeCommit(s)
Deactivate(s) == (\E c \in Clients : DeactivateLock(s, c)) \/ DeactivateCommit(s)
Abort(s) == Crash(s) \/ DeadlockAbort(s)

Next == \/ \E c \in Clients : CreateClient(c)
        \/ \E s \in Sessions : \/ Authenticate(s) \/ Issue(s) \/ Revoke(s)
                               \/ Deactivate(s) \/ Abort(s)
        \/ Purge \/ Tick

Spec == Init /\ [][Next]_vars

-----------------------------------------------------------------------------
(* Properties.                                                              *)

\* The columns and the sessions hold values of their types.
TypeOK ==
    /\ status \in [Clients -> {"absent", "active", "inactive"}]
    /\ owner \in [Keys -> Clients \cup {NoClient}]
    /\ revoked \in [Keys -> BOOLEAN]
    /\ parent \in [Keys -> Keys \cup {NoKey}]
    /\ count \in [Clients -> [Minutes -> Nat]]
    /\ admitted \in [Clients -> [Minutes -> Nat]]
    /\ now \in Minutes
    /\ tx \in [Sessions -> Local]

\* No client gets more requests through in a minute than its limit, however many
\* replicas count them and although old windows are deleted.
QuotaHolds == \A c \in Clients, m \in Minutes : admitted[c][m] <= Limit[c]

\* While a window is kept, what was let through in it is what was counted, up to the
\* limit: no count is lost, and nothing is refused before the limit is reached.
AtMost(a, b) == IF a < b THEN a ELSE b
QuotaExact ==
    \A c \in Clients : \A m \in {x \in Minutes : x >= now - Keep} :
        admitted[c][m] = AtMost(count[c][m], Limit[c])

\* A replacement is made only of a key that is live until that very commit, which
\* revokes it (admin_rotate_key): no rotation, revocation or deactivation that comes
\* between its statements gives a key two successors, or a revoked key one.
ReplacedOnce ==
    [][\A k \in Keys : parent[k] = NoKey /\ parent'[k] # NoKey =>
          ~revoked[parent'[k]] /\ revoked'[parent'[k]]]_vars

\* When a deactivation commits, no key of the client is left live, not even one that
\* was being issued meanwhile (admin_deactivate_client).
DeactivationRevokesAll ==
    [][\A c \in Clients : status[c] = "active" /\ status'[c] = "inactive" =>
          \A k \in Keys : owner'[k] = c => revoked'[k]]_vars

\* A request that came after its client was deactivated is never counted or let
\* through, although a key issued too late may still be live.
OnlyWelcomeCounted == \A s \in Sessions : tx[s].pc \in {"count", "admit"} => tx[s].welcome

\* No authentication is the victim of a deadlock: it locks the window, then perhaps the
\* client, and the key last.  Only a rotation and a deactivation wait for each other.
ReadersNeverDeadlock ==
    \A s \in Sessions : Deadlocked(s) =>
        \/ tx[s].pc = "insert" /\ tx[s].key # NoKey
        \/ tx[s].pc = "deactivate"

\* The inductive invariant behind the invariants above.  No two sessions hold
\* conflicting locks or make the same key ...
Apart(t, u) ==
    /\ KeysLocked(t) \cap KeysLocked(u) = {}
    /\ ClientsLocked(t) \cap (ClientsLocked(u) \cup ClientsShared(u)) = {}
    /\ ClientsShared(t) \cap ClientsLocked(u) = {}
    /\ WindowsLocked(t) \cap WindowsLocked(u) = {}
    /\ t.new = u.new => t.new = NoKey
SessionsApart == \A s, o \in Sessions : s # o => Apart(tx[s], tx[o])

\* ... what a session read still holds where it goes on with it ...
Justified(t) ==
    /\ t.pc # "idle" => t.client \in Clients /\ status[t.client] # "absent"
    /\ t.pc = "client" /\ status[t.client] = "active" => t.welcome
    /\ t.pc \in {"count", "admit"} => t.welcome /\ t.minute \in Minutes /\ now <= t.minute + Keep
    /\ t.pc = "admit" => t.used = count[t.client][t.minute] + 1
    /\ t.pc \in {"insert", "issued"} => t.new \in Keys /\ ~Made(t.new)
    /\ t.pc \in {"insert", "issued"} /\ t.key # NoKey => Live(t.key)
    /\ t.pc = "deactivate" =>
         \A k \in Keys : owner[k] = t.client => revoked[k] \/ k \in t.batch
    /\ t.new # NoKey => t.pc \in {"insert", "issued"}
SessionsJustified == \A s \in Sessions : Justified(tx[s])

\* ... every key is of a client that was created, every replacement was made ...
KeysSound == \A k \in Keys : IF Made(k) THEN status[owner[k]] # "absent" ELSE parent[k] = NoKey

\* ... and a key that has a replacement is revoked and has no other.
OneReplacement ==
    \A a, b \in Keys : parent[a] # NoKey =>
        /\ revoked[parent[a]]
        /\ parent[b] = parent[a] => a = b

CredentialsInv ==
    /\ TypeOK /\ SessionsApart /\ SessionsJustified
    /\ KeysSound /\ OneReplacement /\ QuotaExact /\ QuotaHolds
=============================================================================
