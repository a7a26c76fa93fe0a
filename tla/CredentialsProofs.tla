------------------------- MODULE CredentialsProofs -------------------------
(***************************************************************************)
(* Proofs about Credentials, for any number of clients, keys and sessions  *)
(* and any limits, with requests that are aborted at any point.            *)
(***************************************************************************)
EXTENDS Credentials, TLAPS

LEMMA InitInv == Init => CredentialsInv
  <1> SUFFICES ASSUME Init PROVE CredentialsInv
    OBVIOUS
  <1> USE DEF Init
  <1>1. NoTx \in Local
    BY DEF NoTx, Handling, Local, Control
  <1>2. TypeOK
    BY <1>1, ConstantsAssumption DEF TypeOK, Minutes
  <1>3. SessionsApart
    BY DEF SessionsApart, Apart, KeysLocked, ClientsLocked, ClientsShared, WindowsLocked,
           NoTx, Handling
  <1>4. SessionsJustified
    BY DEF SessionsJustified, Justified, NoTx, Handling
  <1>5. KeysSound /\ OneReplacement
    BY DEF KeysSound, Made, OneReplacement
  <1>6. QuotaExact /\ QuotaHolds
    BY ConstantsAssumption DEF QuotaExact, QuotaHolds, AtMost
  <1> QED
    BY <1>2, <1>3, <1>4, <1>5, <1>6 DEF CredentialsInv

-----------------------------------------------------------------------------
(* A step of session s that leaves it with the local state t.               *)

Moves(s, t) ==
  /\ tx' = [tx EXCEPT ![s] = t]
  /\ \A o \in Sessions \ {s} : Apart(t, tx[o])

LEMMA ApartStep ==
  ASSUME TypeOK, SessionsApart, NEW s \in Sessions, NEW t \in Local, Moves(s, t)
  PROVE  SessionsApart'
  <1>1. \A o \in Sessions : tx'[o] = IF o = s THEN t ELSE tx[o]
    BY DEF TypeOK, Moves
  <1>2. \A a, b : Apart(a, b) <=> Apart(b, a)
    BY DEF Apart
  <1> SUFFICES ASSUME NEW a \in Sessions, NEW b \in Sessions, a # b
               PROVE  Apart(tx'[a], tx'[b])
    BY DEF SessionsApart, Apart, KeysLocked, ClientsLocked, ClientsShared, WindowsLocked
  <1>3. CASE a = s
    BY <1>1, <1>3 DEF Moves
  <1>4. CASE b = s
    BY <1>1, <1>2, <1>4 DEF Moves
  <1>5. CASE a # s /\ b # s
    BY <1>1, <1>5 DEF SessionsApart
  <1> QED
    BY <1>3, <1>4, <1>5

\* A step keeps the invariant if it keeps the types and the rows sound, leaves
\* session s justified, and takes the ground from no other session.
LEMMA SessionStep ==
  ASSUME CredentialsInv, NEW s \in Sessions, NEW t \in Local, Moves(s, t), TypeOK', Justified(t)',
         KeysSound', OneReplacement', QuotaExact', QuotaHolds',
         \A o \in Sessions \ {s} : Justified(tx[o]) /\ Apart(tx[s], tx[o]) => Justified(tx[o])'
  PROVE  CredentialsInv'
  <1>1. \A o \in Sessions : tx'[o] = IF o = s THEN t ELSE tx[o]
    BY DEF CredentialsInv, TypeOK, Moves
  <1>2. SessionsApart'
    BY ApartStep DEF CredentialsInv
  <1>3. \A o \in Sessions \ {s} : Justified(tx[o])'
    BY DEF CredentialsInv, SessionsApart, SessionsJustified
  <1>4. SessionsJustified'
    BY <1>1, <1>3 DEF SessionsJustified, Justified
  <1> QED
    BY <1>2, <1>4 DEF CredentialsInv

\* A step that changes no row.
LEMMA QuietStep ==
  ASSUME CredentialsInv, NEW s \in Sessions, NEW t \in Local, Moves(s, t), Justified(t),
         UNCHANGED <<keyRows, count, admitted, now>>
  PROVE  CredentialsInv'
  <1>1. TypeOK'
    BY DEF CredentialsInv, TypeOK, Moves, keyRows
  <1>2. KeysSound' /\ OneReplacement' /\ QuotaExact' /\ QuotaHolds'
    BY DEF CredentialsInv, KeysSound, OneReplacement, QuotaExact, QuotaHolds, keyRows, Made
  <1>3. Justified(t)'
    BY DEF Justified, keyRows, Made, Live
  <1>4. ASSUME NEW o \in Sessions \ {s}, Justified(tx[o])
        PROVE  Justified(tx[o])'
    <2>1. tx'[o] = tx[o]
      BY DEF Moves, CredentialsInv, TypeOK
    <2> QED
      BY <1>4, <2>1 DEF Justified, keyRows, Made, Live
  <1> QED
    BY <1>1, <1>2, <1>3, <1>4, SessionStep

LEMMA EndStep ==
  ASSUME NEW s \in Sessions, End(s)
  PROVE  NoTx \in Local /\ Moves(s, NoTx)
  BY DEF End, Moves, NoTx, Handling, Local, Control, Apart, KeysLocked, ClientsLocked,
         ClientsShared, WindowsLocked

LEMMA IdleJustified == Justified(NoTx) /\ Justified(NoTx)'
  BY DEF Justified, NoTx, Handling

-----------------------------------------------------------------------------
(* Steps that change no row.                                                *)

LEMMA PresentKeyInv ==
  ASSUME CredentialsInv, NEW s \in Sessions, NEW k \in Keys, PresentKey(s, k)
  PROVE  CredentialsInv'
  <1> DEFINE t == [Handling("client", owner[k], k)
                     EXCEPT !.welcome = (status[owner[k]] = "active")]
  <1>1. owner[k] \in Clients /\ status[owner[k]] # "absent"
    BY DEF PresentKey, Live, Made, CredentialsInv, TypeOK, KeysSound
  <1>2. t \in Local
    BY <1>1 DEF Handling, Local, Control
  <1>3. Justified(t)
    BY <1>1 DEF Justified, Handling
  <1>4. Moves(s, t)
    BY DEF Moves, PresentKey, Begin, Handling, Apart, KeysLocked, ClientsLocked, ClientsShared,
           WindowsLocked
  <1> QED
    BY <1>2, <1>3, <1>4, QuietStep DEF PresentKey

LEMMA RefuseInv ==
  ASSUME CredentialsInv, NEW s \in Sessions, Refuse(s)
  PROVE  CredentialsInv'
  BY EndStep, IdleJustified, QuietStep DEF Refuse

LEMMA RollbackInv ==
  ASSUME CredentialsInv, NEW s \in Sessions, Rollback(s)
  PROVE  CredentialsInv'
  BY EndStep, IdleJustified, QuietStep DEF Rollback

LEMMA CheckClientInv ==
  ASSUME CredentialsInv, NEW s \in Sessions, CheckClient(s)
  PROVE  CredentialsInv'
  <1>1. tx[s] \in Local /\ Justified(tx[s]) /\ tx[s].pc = "client"
    BY DEF CredentialsInv, TypeOK, SessionsJustified, CheckClient, At
  <1>2. CASE status[tx[s].client] # "active"
    BY <1>2, RefuseInv DEF CheckClient
  <1>3. CASE status[tx[s].client] = "active"
    <2> DEFINE t == [tx[s] EXCEPT !.pc = "count", !.minute = now]
    <2>1. now \in Minutes /\ now \in Nat /\ now <= now + Keep
      BY ConstantsAssumption DEF CredentialsInv, TypeOK, Minutes
    <2>2. t \in Local
      BY <1>1, <2>1 DEF Local, Control
    <2>3. Justified(t)
      BY <1>1, <1>3, <2>1 DEF Justified, Local
    <2>4. tx' = [tx EXCEPT ![s] = t]
      BY <1>3 DEF CheckClient, CredentialsInv, TypeOK
    <2>5. Moves(s, t)
      <3> SUFFICES ASSUME NEW o \in Sessions \ {s} PROVE Apart(t, tx[o])
        BY <2>4 DEF Moves
      <3>1. Apart(tx[s], tx[o])
        BY DEF CredentialsInv, SessionsApart
      <3> QED
        BY <1>1, <3>1 DEF Apart, KeysLocked, ClientsLocked, ClientsShared, WindowsLocked, Local
    <2> QED
      BY <1>3, <2>2, <2>3, <2>5, QuietStep DEF CheckClient
  <1> QED
    BY <1>2, <1>3

LEMMA UpsertInv ==
  ASSUME CredentialsInv, NEW s \in Sessions, Upsert(s)
  PROVE  CredentialsInv'
  <1> DEFINE c == tx[s].client
             m == tx[s].minute
             t == [tx[s] EXCEPT !.pc = "admit", !.used = count[c][m] + 1]
  <1>1. tx[s] \in Local /\ Justified(tx[s]) /\ tx[s].pc = "count"
    BY DEF CredentialsInv, TypeOK, SessionsJustified, Upsert, At
  <1>2. c \in Clients /\ m \in Minutes /\ count[c][m] \in Nat
    BY <1>1 DEF Justified, CredentialsInv, TypeOK
  <1>3. t \in Local
    <2>1. \A n \in Nat : [tx[s] EXCEPT !.pc = "admit", !.used = n] \in Local
      BY <1>1 DEF Local, Control
    <2>2. count[c][m] + 1 \in Nat
      BY <1>2
    <2> QED
      BY <2>1, <2>2
  <1>4. Justified(t)
    BY <1>1 DEF Justified, Local
  <1>5. tx' = [tx EXCEPT ![s] = t]
    BY DEF Upsert, CredentialsInv, TypeOK
  <1>6. ASSUME NEW o \in Sessions \ {s} PROVE Apart(t, tx[o])
    <2>1. Apart(tx[s], tx[o])
      BY DEF CredentialsInv, SessionsApart
    <2>2. WindowsLocked(t) \cap WindowsLocked(tx[o]) = {}
      BY <1>1 DEF Upsert, WindowFree, WindowsLocked, Local
    <2>3. ClientsShared(t) \cap ClientsLocked(tx[o]) = {}
      BY <1>1, <1>2 DEF Upsert, ClientShareable, ClientsShared, Local
    <2>4. KeysLocked(t) = {} /\ ClientsLocked(t) = {} /\ t.new = tx[s].new
      BY <1>1 DEF KeysLocked, ClientsLocked, Local
    <2> HIDE DEF t
    <2> QED
      BY <2>1, <2>2, <2>3, <2>4 DEF Apart
  <1> QED
    BY <1>3, <1>4, <1>5, <1>6, QuietStep DEF Upsert, Moves

LEMMA CreateKeyInv ==
  ASSUME CredentialsInv, NEW s \in Sessions, NEW c \in Clients, NEW n \in Keys, CreateKey(s, c, n)
  PROVE  CredentialsInv'
  <1> DEFINE t == [Handling("insert", c, NoKey) EXCEPT !.new = n]
  <1>1. t \in Local
    BY DEF Handling, Local, Control
  <1>2. Justified(t)
    BY ConstantsAssumption DEF CreateKey, Fresh, Justified, Handling
  <1>3. Moves(s, t)
    BY DEF Moves, CreateKey, Fresh, Begin, Handling, Apart, KeysLocked, ClientsLocked,
           ClientsShared, WindowsLocked
  <1> QED
    BY <1>1, <1>2, <1>3, QuietStep DEF CreateKey

LEMMA RotateInv ==
  ASSUME CredentialsInv, NEW s \in Sessions, NEW k \in Keys, NEW n \in Keys, Rotate(s, k, n)
  PROVE  CredentialsInv'
  <1> DEFINE t == [Handling("insert", owner[k], k) EXCEPT !.new = n]
  <1>1. owner[k] \in Clients /\ status[owner[k]] # "absent"
    BY DEF Rotate, Live, Made, CredentialsInv, TypeOK, KeysSound
  <1>2. t \in Local
    BY <1>1 DEF Handling, Local, Control
  <1>3. Justified(t)
    BY <1>1, ConstantsAssumption DEF Rotate, Fresh, Justified, Handling
  <1>4. Moves(s, t)
    BY DEF Moves, Rotate, Fresh, KeyFree, Begin, Handling, Apart, KeysLocked, ClientsLocked,
           ClientsShared, WindowsLocked
  <1> QED
    BY <1>2, <1>3, <1>4, QuietStep DEF Rotate

LEMMA IssueKeyInv ==
  ASSUME CredentialsInv, NEW s \in Sessions, IssueKey(s)
  PROVE  CredentialsInv'
  <1> DEFINE t == [tx[s] EXCEPT !.pc = "issued"]
  <1>1. tx[s] \in Local /\ Justified(tx[s]) /\ tx[s].pc = "insert"
    BY DEF CredentialsInv, TypeOK, SessionsJustified, IssueKey, At
  <1>2. t \in Local
    BY <1>1 DEF Local, Control
  <1>3. Justified(t)
    BY <1>1 DEF Justified, Local
  <1>4. tx' = [tx EXCEPT ![s] = t]
    BY DEF IssueKey, CredentialsInv, TypeOK
  <1>5. ASSUME NEW o \in Sessions \ {s} PROVE Apart(t, tx[o])
    <2>1. Apart(tx[s], tx[o])
      BY DEF CredentialsInv, SessionsApart
    <2>2. ClientsShared(t) \cap ClientsLocked(tx[o]) = {}
      BY <1>1 DEF IssueKey, ClientShareable, ClientsShared, Local
    <2>3. KeysLocked(t) = KeysLocked(tx[s]) /\ t.new = tx[s].new
      BY <1>1 DEF KeysLocked, Local
    <2>4. ClientsLocked(t) = {} /\ WindowsLocked(t) = {}
      BY <1>1 DEF ClientsLocked, WindowsLocked, Local
    <2> HIDE DEF t
    <2> QED
      BY <2>1, <2>2, <2>3, <2>4 DEF Apart
  <1> QED
    BY <1>2, <1>3, <1>4, <1>5, QuietStep DEF IssueKey, Moves

LEMMA RevokeLockInv ==
  ASSUME CredentialsInv, NEW s \in Sessions, NEW k \in Keys, RevokeLock(s, k)
  PROVE  CredentialsInv'
  <1> DEFINE t == Handling("revoke", owner[k], k)
  <1>1. owner[k] \in Clients /\ status[owner[k]] # "absent"
    BY DEF RevokeLock, Live, Made, CredentialsInv, TypeOK, KeysSound
  <1>2. t \in Local
    BY <1>1 DEF Handling, Local, Control
  <1>3. Justified(t)
    BY <1>1 DEF Justified, Handling
  <1>4. Moves(s, t)
    BY DEF Moves, RevokeLock, KeyFree, Begin, Handling, Apart, KeysLocked, ClientsLocked,
           ClientsShared, WindowsLocked
  <1> QED
    BY <1>2, <1>3, <1>4, QuietStep DEF RevokeLock

LEMMA DeactivateLockInv ==
  ASSUME CredentialsInv, NEW s \in Sessions, NEW c \in Clients, DeactivateLock(s, c)
  PROVE  CredentialsInv'
  <1> DEFINE B == {k \in KeysOf(c) : Live(k)}
             t == [Handling("deactivate", c, NoKey) EXCEPT !.batch = B]
  <1>1. B \subseteq Keys /\ \A k \in Keys : owner[k] = c => revoked[k] \/ k \in B
    BY ConstantsAssumption DEF KeysOf, Live, Made
  <1>2. Begin(s, t) /\ UNCHANGED <<keyRows, count, admitted, now>>
    BY DEF DeactivateLock
  <1> HIDE DEF B
  <1>3. t \in Local
    BY <1>1 DEF Handling, Local, Control
  <1>4. Justified(t)
    BY <1>1 DEF DeactivateLock, Justified, Handling
  <1>5. Moves(s, t)
    <2>1. /\ KeysLocked(t) = {} /\ ClientsLocked(t) = {c} /\ ClientsShared(t) = {}
          /\ WindowsLocked(t) = {} /\ t.new = NoKey
      BY DEF Handling, KeysLocked, ClientsLocked, ClientsShared, WindowsLocked
    <2>2. \A o \in Sessions \ {s} : c \notin ClientsLocked(tx[o]) \cup ClientsShared(tx[o])
      BY DEF DeactivateLock, ClientFree, ClientShareable
    <2> HIDE DEF t
    <2>3. \A o \in Sessions \ {s} : Apart(t, tx[o])
      BY <2>1, <2>2 DEF Apart
    <2> QED
      BY <1>2, <2>3 DEF Moves, Begin
  <1> QED
    BY <1>2, <1>3, <1>4, <1>5, QuietStep

-----------------------------------------------------------------------------
(* Commits.                                                                 *)

LEMMA AdmitInv ==
  ASSUME CredentialsInv, NEW s \in Sessions, Admit(s)
  PROVE  CredentialsInv'
  <1> DEFINE c == tx[s].client
             m == tx[s].minute
             n == tx[s].used
  <1>1. tx[s] \in Local /\ Justified(tx[s]) /\ tx[s].pc = "admit"
    BY DEF CredentialsInv, TypeOK, SessionsJustified, Admit, At
  <1>2. /\ c \in Clients /\ m \in Minutes /\ now <= m + Keep
        /\ n = count[c][m] + 1 /\ n \in Nat /\ Limit[c] \in Nat
    BY <1>1, ConstantsAssumption DEF Justified, Local
  <1>3. /\ count' = [count EXCEPT ![c][m] = n]
        /\ admitted' = [admitted EXCEPT ![c][m] = IF n > Limit[c] THEN @ ELSE @ + 1]
        /\ End(s) /\ UNCHANGED <<keyRows, now>>
    BY DEF Admit
  <1>4. WindowsLocked(tx[s]) = {<<c, m>>}
    BY <1>1 DEF WindowsLocked
  <1> HIDE DEF c, m, n
  <1>5. /\ count' \in [Clients -> [Minutes -> Nat]]
        /\ admitted' \in [Clients -> [Minutes -> Nat]]
    BY <1>2, <1>3 DEF CredentialsInv, TypeOK
  <1>6. TypeOK'
    BY <1>3, <1>5, EndStep DEF Moves, CredentialsInv, TypeOK, keyRows
  <1>7. KeysSound' /\ OneReplacement'
    BY <1>3 DEF CredentialsInv, KeysSound, OneReplacement, Made, keyRows
  <1>8. \A d \in Clients, x \in Minutes : d # c \/ x # m =>
          count'[d][x] = count[d][x] /\ admitted'[d][x] = admitted[d][x]
    BY <1>2, <1>3 DEF CredentialsInv, TypeOK
  <1>9. /\ count'[c][m] = n
        /\ admitted'[c][m] = IF n > Limit[c] THEN admitted[c][m] ELSE admitted[c][m] + 1
        /\ admitted[c][m] \in Nat /\ count[c][m] \in Nat
    BY <1>2, <1>3 DEF CredentialsInv, TypeOK
  <1>10. admitted[c][m] = AtMost(count[c][m], Limit[c])
    <2>1. m \in Int /\ now \in Int /\ Keep \in Int
      BY <1>2, ConstantsAssumption DEF CredentialsInv, TypeOK, Minutes
    <2>2. m >= now - Keep
      BY <1>2, <2>1
    <2> QED
      BY <1>2, <2>2 DEF CredentialsInv, QuotaExact
  <1>11. admitted'[c][m] = AtMost(count'[c][m], Limit[c]) /\ admitted'[c][m] <= Limit[c]
    BY <1>2, <1>9, <1>10 DEF AtMost
  <1>12. QuotaExact'
    BY <1>3, <1>8, <1>11 DEF CredentialsInv, QuotaExact
  <1>13. QuotaHolds'
    BY <1>8, <1>11 DEF CredentialsInv, QuotaHolds
  <1>14. ASSUME NEW o \in Sessions \ {s}, Justified(tx[o]), Apart(tx[s], tx[o])
         PROVE  Justified(tx[o])'
    <2> DEFINE u == tx[o]
    <2>1. tx'[o] = u
      BY <1>3 DEF End, CredentialsInv, TypeOK
    <2>2. u.pc = "admit" => u.client \in Clients /\ u.minute \in Minutes
      BY <1>14 DEF Justified
    <2>3. u.pc = "admit" => u.client # c \/ u.minute # m
      BY <1>4, <1>14 DEF Apart, WindowsLocked
    <2>4. u.pc = "admit" => count'[u.client][u.minute] = count[u.client][u.minute]
      BY <1>8, <2>2, <2>3
    <2> QED
      BY <1>3, <1>14, <2>1, <2>4 DEF Justified, Made, Live, keyRows
  <1> QED
    BY <1>3, <1>6, <1>7, <1>12, <1>13, <1>14, EndStep, IdleJustified, SessionStep

LEMMA IssueCommitInv ==
  ASSUME CredentialsInv, NEW s \in Sessions, IssueCommit(s)
  PROVE  CredentialsInv'
  <1> DEFINE n == tx[s].new
             k == tx[s].key
             c == tx[s].client
  <1>1. tx[s] \in Local /\ Justified(tx[s]) /\ tx[s].pc = "issued"
    BY DEF CredentialsInv, TypeOK, SessionsJustified, IssueCommit, At
  <1>2. /\ n \in Keys /\ ~Made(n) /\ c \in Clients /\ status[c] # "absent"
        /\ k \in Keys \cup {NoKey} /\ (k # NoKey => Live(k))
    BY <1>1 DEF Justified, Local
  <1>3. /\ owner' = [owner EXCEPT ![n] = c]
        /\ parent' = [parent EXCEPT ![n] = k]
        /\ revoked' = [x \in Keys |-> IF x = k THEN TRUE ELSE revoked[x]]
        /\ End(s) /\ UNCHANGED <<status, count, admitted, now>>
    BY DEF IssueCommit
  <1>4. KeysLocked(tx[s]) = {k} \ {NoKey} /\ ClientsShared(tx[s]) = {c}
    BY <1>1 DEF KeysLocked, ClientsShared
  <1>5. tx[s].new = n
    OBVIOUS
  <1> HIDE DEF n, k, c
  <1>6. TypeOK'
    BY <1>2, <1>3, EndStep DEF Moves, CredentialsInv, TypeOK
  <1>7. \A x \in Keys : /\ owner'[x] = IF x = n THEN c ELSE owner[x]
                        /\ parent'[x] = IF x = n THEN k ELSE parent[x]
                        /\ revoked'[x] = (x = k \/ revoked[x])
    BY <1>2, <1>3 DEF CredentialsInv, TypeOK
  <1>8. KeysSound'
    <2> SUFFICES ASSUME NEW x \in Keys
                 PROVE  IF owner'[x] # NoClient THEN status[owner'[x]] # "absent"
                                                ELSE parent'[x] = NoKey
      BY <1>3 DEF KeysSound, Made
    <2>1. IF owner[x] # NoClient THEN status[owner[x]] # "absent" ELSE parent[x] = NoKey
      BY DEF CredentialsInv, KeysSound, Made
    <2>2. c # NoClient
      BY <1>2, ConstantsAssumption
    <2> QED
      BY <1>2, <1>7, <2>1, <2>2
  <1>9. OneReplacement'
    <2> SUFFICES ASSUME NEW a \in Keys, NEW b \in Keys, parent'[a] # NoKey
                 PROVE  revoked'[parent'[a]] /\ (parent'[b] = parent'[a] => a = b)
      BY DEF OneReplacement
    <2>1. \A x, y \in Keys : parent[x] # NoKey =>
            revoked[parent[x]] /\ (parent[y] = parent[x] => x = y)
      BY DEF CredentialsInv, OneReplacement
    <2>2. \A x \in Keys : parent[x] \in Keys \cup {NoKey}
      BY DEF CredentialsInv, TypeOK
    <2>3. k # NoKey => ~revoked[k]
      BY <1>2 DEF Live
    <2>4. k # NoKey => \A x \in Keys : parent[x] # k
      BY <2>1, <2>3
    <2>5. CASE a = n
      BY <1>2, <1>7, <2>4, <2>5
    <2>6. CASE a # n
      <3>1. parent[a] # NoKey /\ parent[a] # k /\ parent'[a] = parent[a]
        BY <1>7, <2>4, <2>6
      <3>2. revoked'[parent'[a]]
        BY <1>7, <2>1, <2>2, <3>1
      <3>3. parent'[b] = parent'[a] => b # n
        BY <1>7, <3>1
      <3> QED
        BY <1>7, <2>1, <3>1, <3>2, <3>3
    <2> QED
      BY <2>5, <2>6
  <1>10. QuotaExact' /\ QuotaHolds'
    BY <1>3 DEF CredentialsInv, QuotaExact, QuotaHolds
  <1>11. ASSUME NEW o \in Sessions \ {s}, Justified(tx[o]), Apart(tx[s], tx[o])
         PROVE  Justified(tx[o])'
    <2> DEFINE u == tx[o]
    <2>1. tx'[o] = u
      BY <1>3 DEF End, CredentialsInv, TypeOK
    <2>2. u \in Local
      BY DEF CredentialsInv, TypeOK
    <2>3. u.pc \in {"insert", "issued"} => u.new \in Keys /\ u.new # n /\ ~Made(u.new)
      BY <1>2, <1>5, <1>11, ConstantsAssumption DEF Apart, Justified
    <2>4. u.pc \in {"insert", "issued"} => ~Made(u.new)'
      BY <1>7, <2>1, <2>3 DEF Made
    <2>5. u.pc \in {"insert", "issued"} /\ u.key # NoKey =>
            u.key \in Keys /\ u.key # k /\ u.key # n /\ Live(u.key)
      BY <1>2, <1>4, <1>11, <2>2 DEF Apart, KeysLocked, Justified, Local, Live
    <2>6. u.pc \in {"insert", "issued"} /\ u.key # NoKey => Live(u.key)'
      BY <1>7, <2>1, <2>5 DEF Live, Made
    <2>7. u.pc = "deactivate" => u.client # c
      BY <1>4, <1>11 DEF Apart, ClientsLocked
    <2>8. u.pc = "deactivate" =>
            \A x \in Keys : owner'[x] = u.client => revoked'[x] \/ x \in u.batch
      BY <1>7, <1>11, <2>7 DEF Justified
    <2> HIDE DEF u
    <2>9. Justified(u)'
      BY <1>3, <1>11, <2>1, <2>3, <2>4, <2>6, <2>8 DEF Justified, u
    <2> QED
      BY <2>9 DEF u
  <1> QED
    BY <1>3, <1>6, <1>8, <1>9, <1>10, <1>11, EndStep, IdleJustified, SessionStep

\* Revoking keys that no other session has locked takes the ground from none.
LEMMA RevokingStep ==
  ASSUME CredentialsInv, NEW s \in Sessions, NEW D \in SUBSET Keys, End(s),
         revoked' = [k \in Keys |-> k \in D \/ revoked[k]],
         \A o \in Sessions \ {s} : D \cap KeysLocked(tx[o]) = {},
         status' \in [Clients -> {"absent", "active", "inactive"}],
         \A c \in Clients : /\ status[c] # "absent" => status'[c] # "absent"
                            /\ status'[c] = "active" => status[c] = "active",
         UNCHANGED <<owner, parent, count, admitted, now>>
  PROVE  CredentialsInv'
  <1>1. TypeOK'
    BY EndStep DEF Moves, CredentialsInv, TypeOK
  <1>2. KeysSound'
    <2> SUFFICES ASSUME NEW k \in Keys
                 PROVE  IF owner[k] # NoClient THEN status'[owner[k]] # "absent"
                                               ELSE parent[k] = NoKey
      BY DEF KeysSound, Made
    <2>1. IF owner[k] # NoClient THEN status[owner[k]] # "absent" ELSE parent[k] = NoKey
      BY DEF CredentialsInv, KeysSound, Made
    <2>2. owner[k] \in Clients \cup {NoClient}
      BY DEF CredentialsInv, TypeOK
    <2> QED
      BY <2>1, <2>2
  <1>3. OneReplacement'
    BY DEF CredentialsInv, TypeOK, OneReplacement
  <1>4. QuotaExact' /\ QuotaHolds'
    BY DEF CredentialsInv, QuotaExact, QuotaHolds
  <1>5. ASSUME NEW o \in Sessions \ {s}, Justified(tx[o])
        PROVE  Justified(tx[o])'
    <2> DEFINE u == tx[o]
    <2>1. tx'[o] = u
      BY DEF End, CredentialsInv, TypeOK
    <2>2. u \in Local
      BY DEF CredentialsInv, TypeOK
    <2>3. u.pc \in {"insert", "issued"} /\ u.key # NoKey => u.key \in Keys \ D /\ Live(u.key)
      BY <1>5, <2>2 DEF KeysLocked, Justified, Local
    <2>4. u.pc \in {"insert", "issued"} /\ u.key # NoKey => Live(u.key)'
      BY <2>1, <2>3 DEF Live, Made
    <2>5. u.pc = "deactivate" =>
            \A k \in Keys : owner'[k] = u.client => revoked'[k] \/ k \in u.batch
      BY <1>5 DEF Justified
    <2>6. u.pc # "idle" => u.client \in Clients /\ status'[u.client] # "absent"
      BY <1>5 DEF Justified
    <2>7. u.pc = "client" /\ status'[u.client] = "active" => u.welcome
      BY <1>5, <2>6 DEF Justified
    <2> HIDE DEF u
    <2>8. Justified(u)'
      BY <1>5, <2>1, <2>4, <2>5, <2>6, <2>7 DEF Justified, Made, u
    <2> QED
      BY <2>8 DEF u
  <1> QED
    BY <1>1, <1>2, <1>3, <1>4, <1>5, EndStep, IdleJustified, SessionStep

LEMMA RevokeCommitInv ==
  ASSUME CredentialsInv, NEW s \in Sessions, RevokeCommit(s)
  PROVE  CredentialsInv'
  <1> DEFINE D == {tx[s].key} \cap Keys
  <1>1. revoked' = [k \in Keys |-> k \in D \/ revoked[k]]
    BY DEF RevokeCommit, CredentialsInv, TypeOK
  <1>2. \A o \in Sessions \ {s} : D \cap KeysLocked(tx[o]) = {}
    <2>1. D \subseteq KeysLocked(tx[s])
      BY ConstantsAssumption DEF RevokeCommit, At, KeysLocked
    <2> QED
      BY <2>1 DEF CredentialsInv, SessionsApart, Apart
  <1>3. D \in SUBSET Keys
    OBVIOUS
  <1> HIDE DEF D
  <1> QED
    BY <1>1, <1>2, <1>3, RevokingStep DEF RevokeCommit, CredentialsInv, TypeOK

LEMMA DeactivateCommitInv ==
  ASSUME CredentialsInv, NEW s \in Sessions, DeactivateCommit(s)
  PROVE  CredentialsInv'
  <1> DEFINE D == tx[s].batch
  <1>1. /\ tx[s] \in Local /\ tx[s].client \in Clients /\ status[tx[s].client] # "absent"
    BY DEF CredentialsInv, TypeOK, SessionsJustified, Justified, DeactivateCommit, At
  <1>2. D \in SUBSET Keys
    BY <1>1 DEF Local
  <1>3. revoked' = [k \in Keys |-> k \in D \/ revoked[k]]
    BY DEF DeactivateCommit, CredentialsInv, TypeOK
  <1>4. \A o \in Sessions \ {s} : D \cap KeysLocked(tx[o]) = {}
    BY DEF DeactivateCommit, KeyFree
  <1>5. /\ status' \in [Clients -> {"absent", "active", "inactive"}]
        /\ \A c \in Clients : /\ status[c] # "absent" => status'[c] # "absent"
                              /\ status'[c] = "active" => status[c] = "active"
    BY <1>1 DEF DeactivateCommit, CredentialsInv, TypeOK
  <1> HIDE DEF D
  <1> QED
    BY <1>2, <1>3, <1>4, <1>5, RevokingStep DEF DeactivateCommit

-----------------------------------------------------------------------------
(* Steps of no session.                                                     *)

LEMMA CreateClientInv ==
  ASSUME CredentialsInv, NEW c \in Clients, CreateClient(c)
  PROVE  CredentialsInv'
  <1>1. TypeOK'
    BY DEF CreateClient, CredentialsInv, TypeOK
  <1>2. \A d \in Clients : status[d] # "absent" => status'[d] = status[d]
    BY DEF CreateClient, CredentialsInv, TypeOK
  <1>3. SessionsApart'
    BY DEF CreateClient, CredentialsInv, SessionsApart, Apart, KeysLocked, ClientsLocked,
           ClientsShared, WindowsLocked
  <1>4. KeysSound'
    BY <1>2 DEF CreateClient, CredentialsInv, TypeOK, KeysSound, Made
  <1>5. OneReplacement' /\ QuotaExact' /\ QuotaHolds'
    BY DEF CreateClient, CredentialsInv, OneReplacement, QuotaExact, QuotaHolds
  <1>6. ASSUME NEW o \in Sessions PROVE Justified(tx[o])'
    <2>1. Justified(tx[o])
      BY DEF CredentialsInv, SessionsJustified
    <2> QED
      BY <1>2, <2>1 DEF CreateClient, Justified, Made, Live
  <1> QED
    BY <1>1, <1>3, <1>4, <1>5, <1>6 DEF CredentialsInv, SessionsJustified

LEMMA PurgeInv ==
  ASSUME CredentialsInv, Purge
  PROVE  CredentialsInv'
  <1>1. /\ count' = [c \in Clients |-> [m \in Minutes |-> IF m \in Old THEN 0 ELSE count[c][m]]]
        /\ UNCHANGED <<keyRows, admitted, now, tx>>
    BY DEF Purge
  <1>2. TypeOK'
    BY <1>1 DEF CredentialsInv, TypeOK, keyRows
  <1>3. SessionsApart' /\ KeysSound' /\ OneReplacement' /\ QuotaHolds'
    BY <1>1 DEF CredentialsInv, SessionsApart, Apart, KeysLocked, ClientsLocked, ClientsShared,
                WindowsLocked, KeysSound, Made, OneReplacement, QuotaHolds, keyRows
  <1>4. \A m \in Minutes : m >= now - Keep => m \notin Old
    BY ConstantsAssumption DEF CredentialsInv, TypeOK, Minutes, Old
  <1>5. QuotaExact'
    BY <1>1, <1>4 DEF CredentialsInv, QuotaExact
  <1>6. ASSUME NEW o \in Sessions PROVE Justified(tx[o])'
    <2>1. Justified(tx[o])
      BY DEF CredentialsInv, SessionsJustified
    <2>2. tx[o].pc = "admit" => tx[o].client \in Clients /\ tx[o].minute \in Minutes
      BY <2>1 DEF Justified
    <2>3. tx[o].pc = "admit" => tx[o].minute \notin Old
      BY <2>2 DEF Purge, WindowsLocked
    <2>4. tx[o].pc = "admit" =>
            count'[tx[o].client][tx[o].minute] = count[tx[o].client][tx[o].minute]
      BY <1>1, <2>2, <2>3
    <2> QED
      BY <1>1, <2>1, <2>4 DEF Justified, Made, Live, keyRows
  <1> QED
    BY <1>2, <1>3, <1>5, <1>6 DEF CredentialsInv, SessionsJustified

LEMMA TickInv ==
  ASSUME CredentialsInv, Tick
  PROVE  CredentialsInv'
  <1>1. now' = now + 1 /\ now < MaxTime /\ UNCHANGED <<keyRows, count, admitted, tx>>
    BY DEF Tick
  <1>2. now \in Minutes /\ now' \in Minutes /\ now \in Nat /\ Keep \in Nat
    BY <1>1, ConstantsAssumption DEF CredentialsInv, TypeOK, Minutes
  <1>3. TypeOK'
    BY <1>1, <1>2 DEF CredentialsInv, TypeOK, keyRows
  <1>4. SessionsApart' /\ KeysSound' /\ OneReplacement' /\ QuotaHolds'
    BY <1>1 DEF CredentialsInv, SessionsApart, Apart, KeysLocked, ClientsLocked, ClientsShared,
                WindowsLocked, KeysSound, Made, OneReplacement, QuotaHolds, keyRows
  <1>5. QuotaExact'
    <2>1. \A m \in Minutes : m >= now' - Keep => m >= now - Keep
      BY <1>1, <1>2 DEF Minutes
    <2> QED
      BY <1>1, <2>1 DEF CredentialsInv, QuotaExact
  <1>6. ASSUME NEW o \in Sessions PROVE Justified(tx[o])'
    <2>1. Justified(tx[o])
      BY DEF CredentialsInv, SessionsJustified
    <2>2. tx[o].pc \in {"count", "admit"} => tx[o].minute \in Minutes /\ now < tx[o].minute + Keep
      BY <2>1 DEF Tick, Justified
    <2>3. tx[o].pc \in {"count", "admit"} => now' <= tx[o].minute + Keep
      BY <1>1, <1>2, <2>2 DEF Minutes
    <2> QED
      BY <1>1, <2>1, <2>3 DEF Justified, Made, Live, keyRows
  <1> QED
    BY <1>3, <1>4, <1>5, <1>6 DEF CredentialsInv, SessionsJustified

-----------------------------------------------------------------------------
LEMMA SessionNext ==
  ASSUME CredentialsInv, NEW s \in Sessions,
         Authenticate(s) \/ Issue(s) \/ Revoke(s) \/ Deactivate(s) \/ Abort(s)
  PROVE  CredentialsInv'
  <1>1. CASE Authenticate(s)
    BY <1>1, PresentKeyInv, CheckClientInv, UpsertInv, AdmitInv DEF Authenticate
  <1>2. CASE Issue(s)
    BY <1>2, CreateKeyInv, RotateInv, IssueKeyInv, IssueCommitInv DEF Issue
  <1>3. CASE Revoke(s)
    BY <1>3, RevokeLockInv, RevokeCommitInv DEF Revoke
  <1>4. CASE Deactivate(s)
    BY <1>4, DeactivateLockInv, DeactivateCommitInv DEF Deactivate
  <1>5. CASE Abort(s)
    BY <1>5, RollbackInv DEF Abort, Crash, DeadlockAbort
  <1> QED
    BY <1>1, <1>2, <1>3, <1>4, <1>5

LEMMA StutterInv ==
  ASSUME CredentialsInv, UNCHANGED vars
  PROVE  CredentialsInv'
  <1>1. TypeOK'
    BY DEF vars, CredentialsInv, TypeOK
  <1>2. SessionsApart'
    BY DEF vars, CredentialsInv, SessionsApart, Apart, KeysLocked, ClientsLocked, ClientsShared,
           WindowsLocked
  <1>3. SessionsJustified'
    BY DEF vars, CredentialsInv, SessionsJustified, Justified, Made, Live
  <1>4. KeysSound' /\ OneReplacement' /\ QuotaExact' /\ QuotaHolds'
    BY DEF vars, CredentialsInv, KeysSound, Made, OneReplacement, QuotaExact, QuotaHolds
  <1> QED
    BY <1>1, <1>2, <1>3, <1>4 DEF CredentialsInv

LEMMA NextInv == CredentialsInv /\ [Next]_vars => CredentialsInv'
  <1> SUFFICES ASSUME CredentialsInv, [Next]_vars PROVE CredentialsInv'
    OBVIOUS
  <1>1. CASE \E c \in Clients : CreateClient(c)
    BY <1>1, CreateClientInv
  <1>2. CASE \E s \in Sessions : \/ Authenticate(s) \/ Issue(s) \/ Revoke(s)
                                 \/ Deactivate(s) \/ Abort(s)
    BY <1>2, SessionNext
  <1>3. CASE Purge \/ Tick
    BY <1>3, PurgeInv, TickInv
  <1>4. CASE UNCHANGED vars
    BY <1>4, StutterInv
  <1> QED
    BY <1>1, <1>2, <1>3, <1>4 DEF Next

\* The inductive invariant holds in every state: the locks of the endpoints keep the
\* sessions apart, and what each has read still holds when it acts on it.
THEOREM CredentialsInvariant == Spec => []CredentialsInv
  <1> QED
    BY InitInv, NextInv, PTL DEF Spec

\* Columns and sessions keep their types, whatever aborts.
THEOREM TypeCorrect == Spec => []TypeOK
  <1>1. CredentialsInv => TypeOK
    BY DEF CredentialsInv
  <1> QED
    BY <1>1, CredentialsInvariant, PTL

\* The upsert of _increment_rate_window, serialised by the row lock, never lets more
\* requests through in a minute than the client's limit.
THEOREM QuotaCorrect == Spec => []QuotaHolds
  <1>1. CredentialsInv => QuotaHolds
    BY DEF CredentialsInv
  <1> QED
    BY <1>1, CredentialsInvariant, PTL

\* The windows of auth.py lose no count while jobs.py keeps them: what was let through in
\* a minute is what was counted in it, up to the limit.
THEOREM QuotaIsExact == Spec => []QuotaExact
  <1>1. CredentialsInv => QuotaExact
    BY DEF CredentialsInv
  <1> QED
    BY <1>1, CredentialsInvariant, PTL

\* The lock admin_rotate_key takes on the key leaves it with one replacement at most, and
\* revoked by the time it has one.
THEOREM ReplacementUnique == Spec => []OneReplacement
  <1>1. CredentialsInv => OneReplacement
    BY DEF CredentialsInv
  <1> QED
    BY <1>1, CredentialsInvariant, PTL

\* Only the commit of admin_rotate_key or admin_create_key writes whose successor a key is.
LEMMA ParentStep ==
  ASSUME TypeOK, Next, NEW k \in Keys, parent'[k] # parent[k]
  PROVE  \E s \in Sessions : IssueCommit(s) /\ tx[s].new = k
  <1>1. \A s \in Sessions : IssueCommit(s) => tx[s].new = k
    BY DEF IssueCommit, TypeOK
  <1> SUFFICES ASSUME \A s \in Sessions : ~IssueCommit(s) PROVE FALSE
    BY <1>1
  <1>2. CASE \E c \in Clients : CreateClient(c)
    BY <1>2 DEF CreateClient
  <1>3. CASE \E s \in Sessions : Authenticate(s) \/ Abort(s)
    BY <1>3 DEF Authenticate, PresentKey, CheckClient, Refuse, Upsert, Admit, Abort, Crash,
                DeadlockAbort, Rollback, keyRows
  <1>4. CASE \E s \in Sessions : Issue(s)
    BY <1>4 DEF Issue, CreateKey, Rotate, IssueKey, keyRows
  <1>5. CASE \E s \in Sessions : Revoke(s) \/ Deactivate(s)
    BY <1>5 DEF Revoke, RevokeLock, RevokeCommit, Deactivate, DeactivateLock, DeactivateCommit,
                keyRows
  <1>6. CASE Purge \/ Tick
    BY <1>6 DEF Purge, Tick, keyRows
  <1> QED
    BY <1>2, <1>3, <1>4, <1>5, <1>6 DEF Next

\* The same lock makes the replacement in the commit that ends the life of the key: it was
\* live until then, so no key that was revoked gets a successor.
THEOREM RotationCorrect == Spec => ReplacedOnce
  <1>1. ASSUME CredentialsInv, [Next]_vars, NEW k \in Keys, parent[k] = NoKey, parent'[k] # NoKey
        PROVE  ~revoked[parent'[k]] /\ revoked'[parent'[k]]
    <2>1. Next /\ TypeOK
      BY <1>1 DEF vars, CredentialsInv
    <2>2. PICK s \in Sessions : IssueCommit(s) /\ tx[s].new = k
      BY <1>1, <2>1, ParentStep
    <2>3. tx[s] \in Local /\ Justified(tx[s]) /\ tx[s].pc = "issued"
      BY <1>1, <2>2 DEF CredentialsInv, TypeOK, SessionsJustified, IssueCommit, At
    <2>4. parent'[k] = tx[s].key
      BY <2>1, <2>2 DEF IssueCommit, TypeOK
    <2>5. tx[s].key \in Keys /\ Live(tx[s].key)
      BY <1>1, <2>3, <2>4 DEF Justified, Local
    <2> QED
      BY <2>2, <2>4, <2>5 DEF IssueCommit, Live
  <1>2. CredentialsInv /\ [Next]_vars =>
          [\A k \in Keys : parent[k] = NoKey /\ parent'[k] # NoKey =>
             ~revoked[parent'[k]] /\ revoked'[parent'[k]]]_vars
    BY <1>1
  <1> QED
    BY <1>2, CredentialsInvariant, PTL DEF Spec, ReplacedOnce

\* A request is counted only if its client was active when it came.
THEOREM WelcomeCorrect == Spec => []OnlyWelcomeCounted
  <1>1. CredentialsInv => OnlyWelcomeCounted
    BY DEF CredentialsInv, SessionsJustified, Justified, OnlyWelcomeCounted
  <1> QED
    BY <1>1, CredentialsInvariant, PTL

\* Where a session waits and where the one it waits for is: a window is waited for before
\* anything is locked, a key by those who lock none.
LEMMA WaitPlaces ==
  ASSUME NEW s \in Sessions, NEW o \in Sessions, WaitsFor(s, o)
  PROVE  \/ tx[s].pc = "count" /\ tx[o].pc \in {"admit", "deactivate"}
         \/ /\ tx[s].pc \in {"admit", "deactivate"}
            /\ tx[o].pc \in {"insert", "issued", "revoke"} /\ tx[o].key # NoKey
         \/ tx[s].pc = "insert" /\ tx[o].pc = "deactivate"
  <1>1. CASE tx[s].pc = "count"
    <2>1. WindowsLocked(tx[o]) # {} \/ ClientsLocked(tx[o]) # {}
      BY <1>1 DEF WaitsFor
    <2> QED
      BY <1>1, <2>1 DEF WindowsLocked, ClientsLocked
  <1>2. CASE tx[s].pc \in {"admit", "deactivate"}
    <2>1. KeysLocked(tx[o]) # {}
      BY <1>2 DEF WaitsFor
    <2> QED
      BY <1>2, <2>1 DEF KeysLocked
  <1>3. CASE tx[s].pc = "insert"
    <2>1. ClientsLocked(tx[o]) # {}
      BY <1>3 DEF WaitsFor
    <2> QED
      BY <1>3, <2>1 DEF ClientsLocked
  <1> QED
    BY <1>1, <1>2, <1>3 DEF WaitsFor

\* In a circle of waiting sessions none is at its window: nobody waits for one that has
\* locked nothing, so nobody in the circle waits for a window either.
LEMMA DeadlockPlaces == ReadersNeverDeadlock
  <1> SUFFICES ASSUME NEW s \in Sessions, Deadlocked(s)
               PROVE  \/ tx[s].pc = "insert" /\ tx[s].key # NoKey
                      \/ tx[s].pc = "deactivate"
    BY DEF ReadersNeverDeadlock
  <1>1. PICK C \in SUBSET Sessions :
          /\ s \in C
          /\ \A a \in C : (\E b \in C : WaitsFor(a, b)) /\ (\E b \in C : WaitsFor(b, a))
    BY DEF Deadlocked
  <1>2. \A a \in C : tx[a].pc # "count"
    <2> TAKE a \in C
    <2>1. PICK b \in C : WaitsFor(b, a)
      BY <1>1
    <2> QED
      BY <2>1, WaitPlaces
  <1>3. \A a \in C : tx[a].pc # "admit"
    <2> TAKE a \in C
    <2>1. PICK b \in C : WaitsFor(b, a)
      BY <1>1
    <2>2. tx[b].pc # "count"
      BY <1>2
    <2> QED
      BY <2>1, <2>2, WaitPlaces
  <1>4. tx[s].pc \in {"insert", "deactivate"}
    <2>1. PICK b \in C : WaitsFor(s, b)
      BY <1>1
    <2> QED
      BY <1>1, <1>2, <1>3, <2>1, WaitPlaces
  <1>5. tx[s].pc = "insert" => tx[s].key # NoKey
    <2>1. PICK b \in C : WaitsFor(b, s)
      BY <1>1
    <2> QED
      BY <2>1, WaitPlaces
  <1> QED
    BY <1>4, <1>5

\* authenticate_api_key is never the victim of a deadlock, nor is a creation or a
\* revocation of a key: only a rotation and a deactivation wait for each other.
THEOREM NoReaderDeadlocks == Spec => []ReadersNeverDeadlock
BY DeadlockPlaces, PTL

\* Only a deactivation changes what is in api_clients.active.
LEMMA StatusStep ==
  ASSUME Next, TypeOK, NEW c \in Clients, status[c] = "active", status'[c] = "inactive"
  PROVE  \E s \in Sessions : DeactivateCommit(s) /\ tx[s].client = c
  <1>1. ASSUME NEW d \in Clients, CreateClient(d) PROVE status'[c] = "active"
    BY <1>1 DEF CreateClient, TypeOK
  <1>2. ASSUME NEW s \in Sessions, Authenticate(s) \/ Issue(s) \/ Revoke(s) \/ Abort(s)
        PROVE  status' = status
    BY <1>2 DEF Authenticate, PresentKey, CheckClient, Refuse, Upsert, Admit, Issue, CreateKey,
                Rotate, IssueKey, IssueCommit, Revoke, RevokeLock, RevokeCommit, Abort, Crash,
                DeadlockAbort, Rollback, keyRows
  <1>3. ASSUME NEW s \in Sessions, Deactivate(s), ~DeactivateCommit(s) PROVE status' = status
    BY <1>3 DEF Deactivate, DeactivateLock, keyRows
  <1>4. ASSUME NEW s \in Sessions, DeactivateCommit(s) PROVE tx[s].client = c
    BY <1>4 DEF DeactivateCommit, TypeOK
  <1>5. Purge \/ Tick => status' = status
    BY DEF Purge, Tick, keyRows
  <1> QED
    BY <1>1, <1>2, <1>3, <1>4, <1>5 DEF Next

\* admin_deactivate_client leaves no key of the client live: a key that is being issued
\* holds the client by its foreign key, so the deactivation waits for it and then reads it.
THEOREM DeactivationCorrect == Spec => DeactivationRevokesAll
  <1>1. ASSUME CredentialsInv, [Next]_vars, NEW c \in Clients, NEW k \in Keys,
               status[c] = "active", status'[c] = "inactive", owner'[k] = c
        PROVE  revoked'[k]
    <2>1. Next /\ TypeOK
      BY <1>1 DEF vars, CredentialsInv
    <2>2. PICK s \in Sessions : DeactivateCommit(s) /\ tx[s].client = c
      BY <1>1, <2>1, StatusStep
    <2>3. Justified(tx[s]) /\ tx[s].pc = "deactivate" /\ owner[k] = c
      BY <1>1, <2>2 DEF CredentialsInv, SessionsJustified, DeactivateCommit, At
    <2>4. revoked[k] \/ k \in tx[s].batch
      BY <2>2, <2>3 DEF Justified
    <2> QED
      BY <2>2, <2>4 DEF DeactivateCommit
  <1>2. CredentialsInv /\ [Next]_vars =>
          [\A c \in Clients : status[c] = "active" /\ status'[c] = "inactive" =>
             \A k \in Keys : owner'[k] = c => revoked'[k]]_vars
    BY <1>1
  <1> QED
    BY <1>2, CredentialsInvariant, PTL DEF Spec, DeactivationRevokesAll
=============================================================================
