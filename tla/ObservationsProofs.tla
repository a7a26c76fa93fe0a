------------------------- MODULE ObservationsProofs -------------------------
(***************************************************************************)
(* Proofs about Observations, for any number of clients, keys, payloads,   *)
(* rows and sessions and any page size, with requests that are aborted at  *)
(* any point, also after their answer.                                     *)
(***************************************************************************)
EXTENDS Observations, TLAPS

LEMMA InitInv == Init => ObservationsInv
  <1> SUFFICES ASSUME Init PROVE ObservationsInv
    OBVIOUS
  <1> USE DEF Init
  <1>1. NoTx \in Local
    BY ConstantsAssumption DEF NoTx, Local
  <1>2. TypeOK
    <2>1. 0 \in 0 .. MaxTime /\ 0 \in 0 .. 1
      BY ConstantsAssumption
    <2>2. /\ ticket \in [Rows -> Tickets \cup {None}]
          /\ payload \in [Rows -> Payloads \cup {None}]
          /\ state \in [Rows -> States]
      BY DEF States
    <2>3. /\ received \in [Rows -> 0 .. MaxTime] /\ audits \in [Rows -> 0 .. 1]
          /\ now \in 0 .. MaxTime
      BY <2>1
    <2>4. tx \in [Sessions -> Local] /\ receipts \subseteq Receipt
      BY <1>1
    <2>5. paging \in BOOLEAN /\ cursor \in Rows \cup {None}
      OBVIOUS
    <2>6. listed \subseteq Rows /\ awaited \subseteq Rows
      OBVIOUS
    <2> QED
      BY <2>2, <2>3, <2>4, <2>5, <2>6 DEF TypeOK
  <1>3. RowsSound
    BY DEF RowsSound, Decisions
  <1>4. SessionsJustified /\ SessionsApart
    BY DEF SessionsJustified, Justified, SessionsApart, Apart, NoTx
  <1>5. OneRowPerKey /\ ReceiptsMatch /\ PassSound /\ PassIsComplete
    BY DEF OneRowPerKey, ReceiptsMatch, PassSound, PassIsComplete
  <1> QED
    BY <1>2, <1>3, <1>4, <1>5 DEF ObservationsInv

-----------------------------------------------------------------------------
(* Steps of one session.                                                    *)

\* A step of session s that leaves it with the local state t.
Moves(s, t) ==
  /\ tx' = [tx EXCEPT ![s] = t]
  /\ \A o \in Sessions \ {s} : Apart(t, tx[o])

\* The part of the invariant that is not about sessions.
RowsInv == RowsSound /\ OneRowPerKey /\ ReceiptsMatch /\ PassSound /\ PassIsComplete

\* A step keeps the invariant if it keeps types and rows, leaves session s justified, and
\* takes the ground from no other session.
LEMMA SessionStep ==
  ASSUME ObservationsInv, NEW s \in Sessions, NEW t \in Local, Moves(s, t), TypeOK', RowsInv',
         Justified(t)',
         \A o \in Sessions \ {s} : Justified(tx[o]) /\ Apart(tx[s], tx[o]) => Justified(tx[o])'
  PROVE  ObservationsInv'
  <1>1. \A o \in Sessions : tx'[o] = IF o = s THEN t ELSE tx[o]
    BY DEF ObservationsInv, TypeOK, Moves
  <1>2. SessionsApart'
    <2> SUFFICES ASSUME NEW a \in Sessions, NEW b \in Sessions, a # b
                 PROVE  Apart(tx'[a], tx'[b])
      BY DEF SessionsApart, Apart
    <2>1. \A x, y : Apart(x, y) <=> Apart(y, x)
      BY DEF Apart
    <2>2. CASE a = s
      BY <1>1, <2>2 DEF Moves
    <2>3. CASE b = s
      BY <1>1, <2>1, <2>3 DEF Moves
    <2>4. CASE a # s /\ b # s
      BY <1>1, <2>4 DEF ObservationsInv, SessionsApart
    <2> QED
      BY <2>2, <2>3, <2>4
  <1>3. \A o \in Sessions \ {s} : Justified(tx[o])'
    BY DEF ObservationsInv, SessionsApart, SessionsJustified
  <1>4. SessionsJustified'
    BY <1>1, <1>3 DEF SessionsJustified, Justified
  <1> QED
    BY <1>2, <1>4 DEF ObservationsInv, RowsInv

\* A step that changes no row.
LEMMA QuietStep ==
  ASSUME ObservationsInv, NEW s \in Sessions, NEW t \in Local, Moves(s, t), Justified(t),
         UNCHANGED <<rows, receipts, now, pass>>
  PROVE  ObservationsInv'
  <1>1. TypeOK'
    BY DEF ObservationsInv, TypeOK, Moves, rows, pass
  <1>2. RowsInv'
    BY DEF ObservationsInv, RowsInv, RowsSound, OneRowPerKey, ReceiptsMatch, PassSound,
           PassIsComplete, Queue, BehindCursor, Older, rows, pass
  <1>3. Justified(t)'
    BY DEF Justified, Found, rows
  <1>4. ASSUME NEW o \in Sessions \ {s}, Justified(tx[o])
        PROVE  Justified(tx[o])'
    <2>1. tx'[o] = tx[o]
      BY DEF Moves, ObservationsInv, TypeOK
    <2> QED
      BY <1>4, <2>1 DEF Justified, Found, rows
  <1> QED
    BY <1>1, <1>2, <1>3, <1>4, SessionStep

LEMMA EndStep ==
  ASSUME ObservationsInv, NEW s \in Sessions, End(s)
  PROVE  /\ NoTx \in Local /\ Moves(s, NoTx) /\ Justified(NoTx) /\ Justified(NoTx)'
         /\ tx' \in [Sessions -> Local]
         /\ \A o \in Sessions \ {s} : tx'[o] = tx[o]
  <1>1. NoTx \in Local
    BY ConstantsAssumption DEF NoTx, Local
  <1>2. Justified(NoTx) /\ Justified(NoTx)'
    BY DEF Justified, NoTx
  <1>3. Moves(s, NoTx)
    BY DEF End, Moves, Apart, NoTx
  <1> QED
    BY <1>1, <1>2, <1>3 DEF End, ObservationsInv, TypeOK

LEMMA CrashInv ==
  ASSUME ObservationsInv, NEW s \in Sessions, Crash(s)
  PROVE  ObservationsInv'
  BY EndStep, QuietStep DEF Crash

-----------------------------------------------------------------------------
(* Submissions.                                                             *)

\* Answering with rows that are committed disturbs nothing.
LEMMA AnswerStep ==
  ASSUME ObservationsInv, NEW t \in Tickets, NEW p \in Payloads,
         receipts' = receipts \cup Answers(t, p), UNCHANGED <<rows, now, pass>>
  PROVE  /\ RowsInv' /\ receipts' \subseteq Receipt
         /\ \A u : Justified(u) => /\ u.pc = "inserted" =>
                                        \A r \in receipts' : r.row = u.row =>
                                          r.ticket = u.ticket /\ r.payload = u.payload
  <1>1. \A r \in Answers(t, p) : /\ r \in Receipt /\ ticket[r.row] = t /\ ticket[r.row] # None
                                 /\ r.ticket = t /\ r.payload = p /\ payload[r.row] = p
    BY ConstantsAssumption DEF Answers, Found, Receipt
  <1>2. ReceiptsMatch'
    BY <1>1 DEF ObservationsInv, ReceiptsMatch, rows
  <1>3. RowsInv'
    BY <1>2 DEF ObservationsInv, RowsInv, RowsSound, OneRowPerKey, PassSound,
                PassIsComplete, Queue, BehindCursor, Older, rows, pass
  <1>4. receipts' \subseteq Receipt
    BY <1>1 DEF ObservationsInv, TypeOK
  <1>5. ASSUME NEW u, Justified(u), u.pc = "inserted", NEW r \in receipts', r.row = u.row
        PROVE  r.ticket = u.ticket /\ r.payload = u.payload
    <2>1. r \in receipts
      BY <1>1, <1>5 DEF Justified
    <2> QED
      BY <1>5, <2>1 DEF Justified
  <1> QED
    BY <1>3, <1>4, <1>5

LEMMA SubmitInv ==
  ASSUME ObservationsInv, NEW s \in Sessions, NEW t \in Tickets, NEW p \in Payloads,
         Submit(s, t, p)
  PROVE  ObservationsInv'
  <1>1. CASE Found(t) # {}
    <2>1. /\ receipts' = receipts \cup Answers(t, p) /\ UNCHANGED tx
          /\ UNCHANGED <<rows, now, pass>>
      BY <1>1 DEF Submit
    <2>2. RowsInv' /\ TypeOK'
      BY <2>1, AnswerStep DEF ObservationsInv, TypeOK, rows, pass
    <2>3. SessionsApart'
      BY <2>1 DEF ObservationsInv, SessionsApart, Apart
    <2>4. ASSUME NEW o \in Sessions PROVE Justified(tx[o])'
      <3>1. Justified(tx[o])
        BY DEF ObservationsInv, SessionsJustified
      <3>2. tx[o].pc = "inserted" =>
              \A r \in receipts' : r.row = tx[o].row =>
                r.ticket = tx[o].ticket /\ r.payload = tx[o].payload
        BY <2>1, <3>1, AnswerStep
      <3> QED
        BY <2>1, <3>1, <3>2 DEF Justified, Found, rows
    <2> QED
      BY <2>2, <2>3, <2>4 DEF ObservationsInv, RowsInv, SessionsJustified
  <1>2. CASE Found(t) = {}
    <2> DEFINE u == [NoTx EXCEPT !.pc = "insert", !.ticket = t, !.payload = p, !.received = now]
    <2>1. now \in 0 .. MaxTime
      BY DEF ObservationsInv, TypeOK
    <2>2. u \in Local
      BY <2>1 DEF NoTx, Local
    <2>3. Justified(u)
      BY DEF NoTx, Justified
    <2>4. Moves(s, u)
      BY <1>2 DEF Submit, Moves, Apart, NoTx
    <2> QED
      BY <1>2, <2>2, <2>3, <2>4, QuietStep DEF Submit
  <1> QED
    BY <1>1, <1>2

LEMMA LookAgainInv ==
  ASSUME ObservationsInv, NEW s \in Sessions, LookAgain(s)
  PROVE  ObservationsInv'
  <1> DEFINE t == tx[s].ticket
             p == tx[s].payload
  <1>1. t \in Tickets /\ p \in Payloads
    BY DEF LookAgain, At, ObservationsInv, SessionsJustified, Justified
  <1>2. receipts' = receipts \cup Answers(t, p) /\ End(s) /\ UNCHANGED <<rows, now, pass>>
    BY DEF LookAgain
  <1> HIDE DEF t, p
  <1>3. TypeOK' /\ RowsInv'
    BY <1>1, <1>2, AnswerStep, EndStep DEF ObservationsInv, TypeOK, rows, pass
  <1>4. ASSUME NEW o \in Sessions \ {s}, Justified(tx[o])
        PROVE  Justified(tx[o])'
    <2>1. tx'[o] = tx[o]
      BY <1>2, EndStep
    <2>2. tx[o].pc = "inserted" =>
            \A r \in receipts' : r.row = tx[o].row =>
              r.ticket = tx[o].ticket /\ r.payload = tx[o].payload
      BY <1>1, <1>2, <1>4, AnswerStep
    <2> QED
      BY <1>2, <1>4, <2>1, <2>2 DEF Justified, Found, rows
  <1> QED
    BY <1>2, <1>3, <1>4, EndStep, SessionStep

LEMMA InsertInv ==
  ASSUME ObservationsInv, NEW s \in Sessions, Insert(s)
  PROVE  ObservationsInv'
  <1> DEFINE t == tx[s].ticket
             p == tx[s].payload
  <1>1. /\ tx[s] \in Local /\ Justified(tx[s]) /\ tx[s].pc = "insert"
        /\ t \in Tickets /\ p \in Payloads /\ tx[s].row = None
    BY DEF Insert, At, ObservationsInv, TypeOK, SessionsJustified, Justified
  <1>2. \A o \in Sessions \ {s} : Apart(tx[s], tx[o])
    BY DEF ObservationsInv, SessionsApart
  <1>3. CASE Found(t) # {}
    <2> DEFINE u == [tx[s] EXCEPT !.pc = "clash"]
    <2>1. u \in Local
      BY <1>1 DEF Local
    <2>2. Justified(u)
      BY <1>1 DEF Justified, Local
    <2>3. tx' = [tx EXCEPT ![s] = u] /\ UNCHANGED <<rows, receipts, now, pass>>
      BY <1>3 DEF Insert, ObservationsInv, TypeOK
    <2>4. Moves(s, u)
      BY <1>1, <1>2, <2>3 DEF Moves, Apart, Local
    <2> QED
      BY <2>1, <2>2, <2>3, <2>4, QuietStep
  <1>4. CASE Found(t) = {}
    <2>1. PICK o \in Rows :
            /\ Fresh(o)
            /\ tx' = [tx EXCEPT ![s].pc = "inserted", ![s].row = o]
            /\ receipts' = receipts \cup {[ticket |-> t, payload |-> p, row |-> o]}
      BY <1>4 DEF Insert
    <2> DEFINE r0 == [ticket |-> t, payload |-> p, row |-> o]
    <2>2. [tx[s] EXCEPT !.pc = "inserted", !.row = o] \in Local
      BY <1>1 DEF Local
    <2>3. PICK u \in Local : u = [tx[s] EXCEPT !.pc = "inserted", !.row = o]
      BY <2>2
    <2>4. tx' = [tx EXCEPT ![s] = u] /\ UNCHANGED <<rows, now, pass>>
      BY <2>1, <2>3 DEF Insert, ObservationsInv, TypeOK
    <2>5. u.pc = "inserted" /\ u.row = o /\ u.ticket = t /\ u.payload = p
      BY <1>1, <2>3 DEF Local
    <2>6. \A x \in Sessions \ {s} : At(x, "inserted") => tx[x].ticket # t
      BY DEF Insert
    <2>7. /\ r0 \in Receipt /\ r0.row = o /\ r0.ticket = t /\ r0.payload = p
          /\ receipts' = receipts \cup {r0}
      BY <1>1, <2>1 DEF Receipt
    <2>8. ticket[o] = None /\ (\A x \in Sessions : tx[x].row # o) /\ \A r \in receipts : r.row # o
      BY <2>1 DEF Fresh
    <2> HIDE DEF r0, t, p
    <2>9. Moves(s, u)
      BY <2>4, <2>5, <2>6, <2>8 DEF Moves, Apart, At
    <2>10. TypeOK'
      BY <2>4, <2>7 DEF ObservationsInv, TypeOK, rows, pass
    <2>11. ReceiptsMatch'
      BY <2>4, <2>7, <2>8 DEF ObservationsInv, ReceiptsMatch, rows
    <2>12. RowsInv'
      BY <2>4, <2>11 DEF ObservationsInv, RowsInv, RowsSound, OneRowPerKey, PassSound,
                         PassIsComplete, Queue, BehindCursor, Older, rows, pass
    <2>13. Justified(u)'
      <3>1. ticket' = ticket /\ state' = state
        BY <2>4 DEF rows
      <3>2. \A r \in receipts' : r.row = o => r.ticket = u.ticket /\ r.payload = u.payload
        BY <2>5, <2>7, <2>8
      <3>3. \A y \in Rows : ticket'[y] # u.ticket
        BY <1>4, <2>5, <3>1 DEF Found
      <3> QED
        BY <1>1, <2>5, <2>8, <3>1, <3>2, <3>3 DEF Justified, Found
    <2>14. ASSUME NEW x \in Sessions \ {s}, Justified(tx[x])
           PROVE  Justified(tx[x])'
      <3>1. tx'[x] = tx[x]
        BY <2>4 DEF ObservationsInv, TypeOK
      <3>2. \A r \in receipts' : r.row = tx[x].row => r \in receipts
        BY <2>7, <2>8
      <3> QED
        BY <2>4, <2>14, <3>1, <3>2 DEF Justified, Found, rows
    <2> QED
      BY <2>9, <2>10, <2>12, <2>13, <2>14, SessionStep
  <1> QED
    BY <1>3, <1>4

LEMMA SubmitCommitInv ==
  ASSUME ObservationsInv, NEW s \in Sessions, SubmitCommit(s)
  PROVE  ObservationsInv'
  <1> DEFINE o == tx[s].row
             t == tx[s].ticket
             p == tx[s].payload
             at == tx[s].received
  <1>1. tx[s] \in Local /\ Justified(tx[s]) /\ tx[s].pc = "inserted"
    BY DEF SubmitCommit, At, ObservationsInv, TypeOK, SessionsJustified
  <1>2. /\ o \in Rows /\ ticket[o] = None /\ Found(t) = {} /\ t \in Tickets /\ p \in Payloads
        /\ at \in 0 .. MaxTime
        /\ \A r \in receipts : r.row = o => r.ticket = t /\ r.payload = p
    BY <1>1 DEF Justified, Local
  <1>3. /\ ticket' = [ticket EXCEPT ![o] = t] /\ payload' = [payload EXCEPT ![o] = p]
        /\ state' = [state EXCEPT ![o] = "queued"] /\ received' = [received EXCEPT ![o] = at]
        /\ End(s) /\ UNCHANGED <<audits, receipts, now, pass>>
    BY DEF SubmitCommit
  <1>4. \A x \in Sessions \ {s} : Apart(tx[s], tx[x]) =>
          tx[x].row # o /\ (tx[x].pc = "inserted" => tx[x].ticket # t)
    BY <1>1, <1>2, ConstantsAssumption DEF Apart
  <1> HIDE DEF o, t, p, at
  <1>5. /\ ticket' \in [Rows -> Tickets \cup {None}] /\ payload' \in [Rows -> Payloads \cup {None}]
        /\ state' \in [Rows -> States] /\ received' \in [Rows -> 0 .. MaxTime]
    BY <1>2, <1>3 DEF ObservationsInv, TypeOK, States
  <1>6. TypeOK'
    BY <1>3, <1>5, EndStep DEF ObservationsInv, TypeOK, pass
  <1>7. \A x \in Rows : /\ ticket'[x] = IF x = o THEN t ELSE ticket[x]
                        /\ payload'[x] = IF x = o THEN p ELSE payload[x]
                        /\ state'[x] = IF x = o THEN "queued" ELSE state[x]
                        /\ received'[x] = IF x = o THEN at ELSE received[x]
    BY <1>2, <1>3 DEF ObservationsInv, TypeOK
  <1>8. t # None /\ \A x \in Rows : ticket[x] # t
    BY <1>2, ConstantsAssumption DEF Found
  <1>9. RowsSound'
    <2>1. audits[o] = 0
      BY <1>2 DEF ObservationsInv, RowsSound, Decisions
    <2> QED
      BY <1>3, <1>7, <1>8, <2>1 DEF ObservationsInv, RowsSound, Decisions
  <1>10. OneRowPerKey'
    BY <1>7, <1>8 DEF ObservationsInv, OneRowPerKey
  <1>11. ReceiptsMatch'
    <2>1. \A r \in receipts : r.row \in Rows
      BY DEF ObservationsInv, TypeOK, Receipt
    <2> QED
      BY <1>2, <1>3, <1>7, <2>1 DEF ObservationsInv, ReceiptsMatch
  <1>12. PassSound' /\ PassIsComplete'
    <2>1. state[o] = "absent" /\ o \notin awaited
      BY <1>2 DEF ObservationsInv, RowsSound, PassSound, Queue
    <2>2. awaited \subseteq Queue'
      BY <1>7 DEF ObservationsInv, PassSound, Queue
    <2>3. ASSUME paging
          PROVE  /\ cursor \in Rows /\ ticket'[cursor] # None
                 /\ \A x \in awaited \ listed : BehindCursor(x)'
      <3>1. cursor \in Rows /\ cursor # o /\ ticket[cursor] # None
        BY <1>2, <2>3 DEF ObservationsInv, PassSound
      <3>2. \A x \in awaited : x \in Rows /\ x # o /\ received'[x] = received[x]
        BY <1>7, <2>1 DEF ObservationsInv, PassSound, Queue
      <3>3. received'[cursor] = received[cursor] /\ ticket'[cursor] = ticket[cursor]
        BY <1>7, <3>1
      <3>4. cursor' = cursor
        BY <1>3 DEF pass
      <3> QED
        BY <2>3, <3>1, <3>2, <3>3, <3>4 DEF ObservationsInv, PassSound, BehindCursor, Older
    <2> QED
      BY <1>3, <2>2, <2>3 DEF ObservationsInv, PassSound, PassIsComplete, pass
  <1>13. ASSUME NEW x \in Sessions \ {s}, Justified(tx[x]), Apart(tx[s], tx[x])
         PROVE  Justified(tx[x])'
    <2> DEFINE u == tx[x]
    <2>1. tx'[x] = u
      BY <1>3, EndStep
    <2>2. u.row # o /\ (u.pc = "inserted" => u.ticket # t)
      BY <1>4, <1>13
    <2>3. u.pc = "inserted" => u.row \in Rows /\ ticket'[u.row] = None
      BY <1>7, <1>13, <2>2 DEF Justified
    <2>4. u.pc = "inserted" => \A y \in Rows : ticket'[y] # u.ticket
      BY <1>7, <1>13, <2>2 DEF Justified, Found
    <2>5. u.pc = "decide" => u.row \in Rows /\ state'[u.row] = "queued"
      BY <1>7, <1>13, <2>2 DEF Justified
    <2> HIDE DEF u
    <2>6. Justified(u)'
      BY <1>3, <1>13, <2>1, <2>3, <2>4, <2>5 DEF Justified, Found, u
    <2> QED
      BY <2>6 DEF u
  <1> QED
    BY <1>3, <1>6, <1>9, <1>10, <1>11, <1>12, <1>13, EndStep, SessionStep DEF RowsInv

-----------------------------------------------------------------------------
(* Moderation.                                                              *)

LEMMA ModerateLockInv ==
  ASSUME ObservationsInv, NEW s \in Sessions, NEW o \in Rows, NEW d \in Decisions,
         ModerateLock(s, o, d)
  PROVE  ObservationsInv'
  <1> DEFINE u == [NoTx EXCEPT !.pc = "decide", !.row = o, !.decision = d]
  <1>1. u \in Local
    <2>1. 0 \in 0 .. MaxTime
      BY ConstantsAssumption
    <2> QED
      BY <2>1 DEF NoTx, Local
  <1>2. Justified(u)
    BY DEF ModerateLock, NoTx, Justified
  <1>3. u.pc = "decide" /\ u.row = o
    BY DEF NoTx
  <1>4. ASSUME NEW x \in Sessions \ {s} PROVE tx[x].row # o
    <2>1. Justified(tx[x])
      BY DEF ObservationsInv, SessionsJustified
    <2>2. state[o] = "queued" /\ ticket[o] # None
      BY DEF ModerateLock, ObservationsInv, RowsSound
    <2> QED
      BY <2>1, <2>2, ConstantsAssumption DEF ModerateLock, RowFree, At, Justified
  <1>5. tx' = [tx EXCEPT ![s] = u] /\ UNCHANGED <<rows, receipts, now, pass>>
    BY DEF ModerateLock
  <1> HIDE DEF u
  <1>6. Moves(s, u)
    BY <1>3, <1>4, <1>5 DEF Moves, Apart
  <1> QED
    BY <1>1, <1>2, <1>5, <1>6, QuietStep

LEMMA ModerateCommitInv ==
  ASSUME ObservationsInv, NEW s \in Sessions, ModerateCommit(s)
  PROVE  ObservationsInv'
  <1> DEFINE o == tx[s].row
             d == tx[s].decision
  <1>1. Justified(tx[s]) /\ tx[s].pc = "decide"
    BY DEF ModerateCommit, At, ObservationsInv, SessionsJustified
  <1>2. o \in Rows /\ state[o] = "queued" /\ d \in Decisions
    BY <1>1 DEF Justified
  <1>3. /\ state' = [state EXCEPT ![o] = d] /\ audits' = [audits EXCEPT ![o] = @ + 1]
        /\ awaited' = awaited \ {o} /\ End(s)
        /\ UNCHANGED <<ticket, payload, received, receipts, now, paging, cursor, listed>>
    BY DEF ModerateCommit
  <1>4. \A x \in Sessions \ {s} : Apart(tx[s], tx[x]) => tx[x].row # o
    BY <1>2, ConstantsAssumption DEF Apart
  <1> HIDE DEF o, d
  <1>5. audits[o] = 0 /\ ticket[o] # None
    BY <1>2 DEF ObservationsInv, RowsSound, Decisions
  <1>6. \A x \in Rows : /\ state'[x] = IF x = o THEN d ELSE state[x]
                        /\ audits'[x] = IF x = o THEN 1 ELSE audits[x]
    BY <1>2, <1>3, <1>5 DEF ObservationsInv, TypeOK
  <1>7. state' \in [Rows -> States] /\ audits' \in [Rows -> 0 .. 1]
    BY <1>2, <1>3, <1>5 DEF ObservationsInv, TypeOK, States, Decisions
  <1>8. TypeOK'
    BY <1>3, <1>7, EndStep DEF ObservationsInv, TypeOK
  <1>9. RowsSound'
    BY <1>2, <1>3, <1>5, <1>6 DEF ObservationsInv, RowsSound, Decisions
  <1>10. OneRowPerKey' /\ ReceiptsMatch'
    BY <1>3 DEF ObservationsInv, OneRowPerKey, ReceiptsMatch
  <1>11. PassSound' /\ PassIsComplete'
    <2>1. awaited' \subseteq Queue'
      BY <1>3, <1>6 DEF ObservationsInv, PassSound, Queue
    <2> QED
      BY <1>3, <2>1 DEF ObservationsInv, PassSound, PassIsComplete, BehindCursor, Older
  <1>12. ASSUME NEW x \in Sessions \ {s}, Justified(tx[x]), Apart(tx[s], tx[x])
         PROVE  Justified(tx[x])'
    <2>1. tx'[x] = tx[x] /\ tx[x].row # o
      BY <1>3, <1>4, <1>12, EndStep
    <2>2. tx[x].pc = "decide" => tx[x].row \in Rows /\ state'[tx[x].row] = "queued"
      BY <1>6, <1>12, <2>1 DEF Justified
    <2> QED
      BY <1>3, <1>12, <2>1, <2>2 DEF Justified, Found
  <1> QED
    BY <1>3, <1>8, <1>9, <1>10, <1>11, <1>12, EndStep, SessionStep DEF RowsInv

-----------------------------------------------------------------------------
(* Pages.                                                                   *)

\* What a page leaves out of E lies behind the cursor made from it.
LEMMA PageStep ==
  ASSUME ObservationsInv, NEW E \in SUBSET Rows, NEW P \in SUBSET E, IsPage(P, E),
         Continue(P, E), \A o \in E : ticket[o] # None, UNCHANGED rows
  PROVE  /\ paging' \in BOOLEAN /\ cursor' \in Rows \cup {None}
         /\ paging' => cursor' \in Rows /\ ticket'[cursor'] # None
         /\ paging' => \A o \in E \ P : BehindCursor(o)'
         /\ ~paging' => E = P
  <1>1. paging' <=> P # E
    BY DEF Continue
  <1>2. CASE P = E
    BY <1>1, <1>2 DEF Continue
  <1>3. CASE P # E
    <2>1. PICK c \in P : cursor' = c
      BY <1>3 DEF Continue
    <2>2. \A o \in E \ P : Older(o, c)
      BY DEF IsPage
    <2>3. \A o \in E \ P : BehindCursor(o)'
      BY <2>1, <2>2 DEF BehindCursor, Older, rows
    <2> QED
      BY <1>1, <1>3, <2>1, <2>3 DEF rows, Continue
  <1> QED
    BY <1>2, <1>3

LEMMA SessionsUndisturbed ==
  ASSUME ObservationsInv, UNCHANGED <<rows, tx, receipts>>
  PROVE  SessionsJustified' /\ SessionsApart' /\ RowsSound' /\ OneRowPerKey' /\ ReceiptsMatch'
  <1>1. SessionsJustified'
    BY DEF ObservationsInv, SessionsJustified, Justified, Found, rows
  <1>2. SessionsApart'
    BY DEF ObservationsInv, SessionsApart, Apart
  <1>3. RowsSound' /\ OneRowPerKey' /\ ReceiptsMatch'
    BY DEF ObservationsInv, RowsSound, OneRowPerKey, ReceiptsMatch, rows
  <1> QED
    BY <1>1, <1>2, <1>3

LEMMA ListFirstInv ==
  ASSUME ObservationsInv, ListFirst
  PROVE  ObservationsInv'
  <1>1. PICK P \in SUBSET Queue : IsPage(P, Queue) /\ listed' = P /\ Continue(P, Queue)
    BY DEF ListFirst
  <1>2. awaited' = Queue /\ UNCHANGED <<rows, tx, receipts, now>>
    BY DEF ListFirst
  <1>3. Queue \subseteq Rows /\ \A o \in Queue : ticket[o] # None
    BY DEF ObservationsInv, RowsSound, Queue
  <1>4. /\ paging' \in BOOLEAN /\ cursor' \in Rows \cup {None}
        /\ paging' => cursor' \in Rows /\ ticket'[cursor'] # None
        /\ paging' => \A o \in Queue \ P : BehindCursor(o)'
        /\ ~paging' => Queue = P
    BY <1>1, <1>2, <1>3, PageStep
  <1>5. TypeOK'
    BY <1>1, <1>2, <1>3, <1>4 DEF ObservationsInv, TypeOK, rows
  <1>6. Queue' = Queue
    BY <1>2 DEF Queue, rows
  <1>7. PassSound' /\ PassIsComplete'
    BY <1>1, <1>2, <1>4, <1>6 DEF PassSound, PassIsComplete
  <1> QED
    BY <1>2, <1>5, <1>7, SessionsUndisturbed DEF ObservationsInv

LEMMA ListNextInv ==
  ASSUME ObservationsInv, ListNext
  PROVE  ObservationsInv'
  <1> DEFINE E == {o \in Queue : BehindCursor(o)}
  <1>1. PICK P \in SUBSET E : IsPage(P, E) /\ listed' = listed \cup P /\ Continue(P, E)
    BY DEF ListNext
  <1>2. paging /\ UNCHANGED <<rows, tx, receipts, now, awaited>>
    BY DEF ListNext
  <1>3. E \subseteq Rows /\ \A o \in E : ticket[o] # None
    BY DEF ObservationsInv, RowsSound, Queue
  <1>4. awaited \subseteq Queue /\ \A o \in awaited \ listed : o \in E
    BY <1>2 DEF ObservationsInv, PassSound
  <1>5. /\ paging' \in BOOLEAN /\ cursor' \in Rows \cup {None}
        /\ paging' => cursor' \in Rows /\ ticket'[cursor'] # None
        /\ paging' => \A o \in E \ P : BehindCursor(o)'
        /\ ~paging' => E = P
    <2> HIDE DEF E
    <2> QED
      BY <1>1, <1>2, <1>3, PageStep
  <1>6. TypeOK'
    BY <1>1, <1>2, <1>3, <1>5 DEF ObservationsInv, TypeOK, rows
  <1>7. Queue' = Queue
    BY <1>2 DEF Queue, rows
  <1> HIDE DEF E
  <1>8. PassSound' /\ PassIsComplete'
    BY <1>1, <1>2, <1>4, <1>5, <1>7 DEF PassSound, PassIsComplete
  <1> QED
    BY <1>2, <1>6, <1>8, SessionsUndisturbed DEF ObservationsInv

-----------------------------------------------------------------------------
LEMMA TickInv ==
  ASSUME ObservationsInv, Tick \/ UNCHANGED vars
  PROVE  ObservationsInv'
  <1>1. UNCHANGED <<rows, tx, receipts, pass>>
    BY DEF Tick, vars
  <1>2. now' \in 0 .. MaxTime
    BY ConstantsAssumption DEF Tick, vars, ObservationsInv, TypeOK
  <1>3. TypeOK'
    BY <1>1, <1>2 DEF ObservationsInv, TypeOK, rows, pass
  <1>4. PassSound' /\ PassIsComplete'
    BY <1>1 DEF ObservationsInv, PassSound, PassIsComplete, Queue, BehindCursor, Older, rows, pass
  <1> QED
    BY <1>1, <1>3, <1>4, SessionsUndisturbed DEF ObservationsInv

LEMMA NextInv == ObservationsInv /\ [Next]_vars => ObservationsInv'
  <1> SUFFICES ASSUME ObservationsInv, [Next]_vars PROVE ObservationsInv'
    OBVIOUS
  <1>1. ASSUME NEW s \in Sessions, Report(s) PROVE ObservationsInv'
    BY <1>1, SubmitInv, InsertInv, LookAgainInv, SubmitCommitInv DEF Report
  <1>2. ASSUME NEW s \in Sessions, Moderate(s) PROVE ObservationsInv'
    BY <1>2, ModerateLockInv, ModerateCommitInv DEF Moderate
  <1>3. ASSUME NEW s \in Sessions, Crash(s) PROVE ObservationsInv'
    BY <1>3, CrashInv
  <1>4. CASE List
    BY <1>4, ListFirstInv, ListNextInv DEF List
  <1>5. CASE Tick \/ UNCHANGED vars
    BY <1>5, TickInv
  <1> QED
    BY <1>1, <1>2, <1>3, <1>4, <1>5 DEF Next

\* The inductive invariant holds in every state: the unique constraint and the row lock
\* keep the sessions apart, and what each has found still holds when it acts on it.
THEOREM ObservationsInvariant == Spec => []ObservationsInv
  <1> QED
    BY InitInv, NextInv, PTL DEF Spec

\* Columns, sessions, receipts and cursors keep their types, whatever aborts.
THEOREM TypeCorrect == Spec => []TypeOK
  <1>1. ObservationsInv => TypeOK
    BY DEF ObservationsInv
  <1> QED
    BY <1>1, ObservationsInvariant, PTL

\* create_observation is idempotent: the row a receipt names is, once committed, the only
\* one of its key, and has the payload the receipt was sent for.
THEOREM SubmissionIdempotent == Spec => []ReceiptsAreTrue
  <1>1. ASSUME ObservationsInv, NEW r \in receipts, ticket[r.row] # None
        PROVE  {o \in Rows : ticket[o] = r.ticket} = {r.row} /\ payload[r.row] = r.payload
    <2>1. r.row \in Rows
      BY <1>1 DEF ObservationsInv, TypeOK, Receipt
    <2>2. ticket[r.row] = r.ticket /\ payload[r.row] = r.payload
      BY <1>1 DEF ObservationsInv, ReceiptsMatch
    <2>3. \A o \in Rows : ticket[o] = r.ticket => o = r.row
      BY <1>1, <2>1, <2>2 DEF ObservationsInv, OneRowPerKey
    <2> QED
      BY <2>1, <2>2, <2>3
  <1>2. ObservationsInv => ReceiptsAreTrue
    BY <1>1 DEF ReceiptsAreTrue
  <1> QED
    BY <1>2, ObservationsInvariant, PTL

\* The cursor of admin_list_observations loses nothing that stays queued.
THEOREM PassCorrect == Spec => []PassIsComplete
  <1>1. ObservationsInv => PassIsComplete
    BY DEF ObservationsInv
  <1> QED
    BY <1>1, ObservationsInvariant, PTL

\* The lock admin_moderate_observation takes makes the first decision final.
THEOREM ModerationCorrect == Spec => FirstDecisionStands
  <1>1. ASSUME ObservationsInv, [Next]_vars, NEW o \in Rows, state[o] \in Decisions
        PROVE  state'[o] = state[o]
    <2>1. ASSUME NEW s \in Sessions, SubmitCommit(s) PROVE state'[o] = state[o]
      <3>1. tx[s].row \in Rows /\ ticket[tx[s].row] = None
        BY <1>1, <2>1 DEF SubmitCommit, At, ObservationsInv, SessionsJustified, Justified
      <3>2. tx[s].row # o
        BY <1>1, <3>1 DEF ObservationsInv, RowsSound, Decisions
      <3> QED
        BY <1>1, <2>1, <3>2 DEF SubmitCommit, ObservationsInv, TypeOK
    <2>2. ASSUME NEW s \in Sessions, ModerateCommit(s) PROVE state'[o] = state[o]
      <3>1. tx[s].row \in Rows /\ state[tx[s].row] = "queued"
        BY <1>1, <2>2 DEF ModerateCommit, At, ObservationsInv, SessionsJustified, Justified
      <3>2. tx[s].row # o
        BY <1>1, <3>1 DEF Decisions
      <3> QED
        BY <1>1, <2>2, <3>2 DEF ModerateCommit, ObservationsInv, TypeOK
    <2>3. ASSUME NEW s \in Sessions, Report(s) \/ Moderate(s) \/ Crash(s),
                 ~SubmitCommit(s), ~ModerateCommit(s)
          PROVE  state' = state
      BY <2>3 DEF Report, Submit, Insert, LookAgain, Moderate, ModerateLock, Crash, rows
    <2>4. CASE List \/ Tick \/ UNCHANGED vars
      BY <2>4 DEF List, ListFirst, ListNext, Tick, vars, rows
    <2> QED
      BY <1>1, <2>1, <2>2, <2>3, <2>4 DEF Next
  <1>2. ObservationsInv /\ [Next]_vars =>
          [\A o \in Rows : state[o] \in Decisions => state'[o] = state[o]]_vars
    BY <1>1
  <1> QED
    BY <1>2, ObservationsInvariant, PTL DEF Spec, FirstDecisionStands
=============================================================================
