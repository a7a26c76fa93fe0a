-------------------------- MODULE ChangeFeedProofs --------------------------
(***************************************************************************)
(* Proofs about ChangeFeed, for any number of transactions, events,        *)
(* subscriptions and rotations and any page size.  The three stories of    *)
(* the module touch different variables, and each has an invariant of its  *)
(* own on top of the types.                                                *)
(***************************************************************************)
EXTENDS ChangeFeed, SequenceTheorems, TLAPS

USE ConstantsAssumption

-----------------------------------------------------------------------------
(* Types *)

TxState == [pc : {"idle", "draw", "fanout", "committed", "rolledback"},
            began : Nat, todo : Seq(EventTypes), event : Nat]

Span == [throughout : SUBSET Subscriptions, sometime : SUBSET Subscriptions]

\* A writer that is about to write deliveries has an event that it writes them for.
Announcing == \A w \in Writers : tx[w].pc = "fanout" => tx[w].todo # <<>>

TypesInv == TypeOK /\ Announcing

\* What the steps of writer w do to its transaction, field by field.
LEMMA WriterStep ==
  ASSUME TypesInv, NEW w \in Writers, Announce(w)
  PROVE  /\ tx' \in [Writers -> TxState]
         /\ \A o \in Writers \ {w} : tx'[o] = tx[o]
         /\ \/ Begin(w) /\ tx'[w].pc = "draw"
            \/ /\ Draw(w) /\ tx'[w].pc = "fanout" /\ tx'[w].event = number + 1
               /\ tx'[w].todo = tx[w].todo /\ tx[w].todo # <<>>
               /\ Head(tx[w].todo) \in EventTypes
            \/ FanOut(w) /\ tx'[w].pc = "draw" /\ Head(tx[w].todo) \in EventTypes
            \/ Commit(w) /\ tx'[w].pc = "committed"
            \/ Rollback(w) /\ tx'[w].pc = "rolledback"
<1>0. /\ tx \in [Writers -> TxState] /\ tx[w] \in TxState /\ clock \in Nat /\ number \in Nat
      /\ tx[w].pc = "fanout" => tx[w].todo # <<>>
  BY DEF TypesInv, TypeOK, TxState, Announcing
<1>a. ASSUME NEW t \in TxState, tx' = [tx EXCEPT ![w] = t]
      PROVE  tx' \in [Writers -> TxState] /\ tx'[w] = t /\ \A o \in Writers \ {w} : tx'[o] = tx[o]
  BY <1>0, <1>a
<1>1. CASE Begin(w)
  <2>0. PICK n \in Nat : n = clock + 1
    BY <1>0
  <2>1. PICK t : t = [tx[w] EXCEPT !.pc = "draw", !.began = n]
    OBVIOUS
  <2>2. t \in TxState /\ t.pc = "draw"
    BY <1>0, <2>1 DEF TxState
  <2>3. tx' = [tx EXCEPT ![w] = t]
    BY <1>1, <2>0, <2>1 DEF Begin
  <2> QED BY <1>1, <1>a, <2>2, <2>3
<1>2. CASE Draw(w)
  <2>0. PICK n \in Nat : n = number + 1
    BY <1>0
  <2>1. PICK t : t = [tx[w] EXCEPT !.pc = "fanout", !.event = n]
    OBVIOUS
  <2>2. t \in TxState /\ t.pc = "fanout" /\ t.event = n /\ t.todo = tx[w].todo
    BY <1>0, <2>1 DEF TxState
  <2>3. tx' = [tx EXCEPT ![w] = t]
    BY <1>2, <2>0, <2>1 DEF Draw
  <2>4. tx[w].todo \in Seq(EventTypes) /\ tx[w].todo # <<>>
    BY <1>0, <1>2 DEF TxState, Draw
  <2>5. Head(tx[w].todo) \in EventTypes
    BY <2>4
  <2> QED BY <1>2, <1>a, <2>0, <2>2, <2>3, <2>4, <2>5
<1>3. CASE FanOut(w)
  <2>1. PICK t : t = [tx[w] EXCEPT !.pc = "draw", !.todo = Tail(tx[w].todo)]
    OBVIOUS
  <2>2. tx[w].todo \in Seq(EventTypes) /\ tx[w].todo # <<>>
    BY <1>0, <1>3 DEF TxState, FanOut
  <2>3. Tail(tx[w].todo) \in Seq(EventTypes) /\ Head(tx[w].todo) \in EventTypes
    BY <2>2
  <2>4. t \in TxState /\ t.pc = "draw"
    BY <1>0, <2>1, <2>3 DEF TxState
  <2>5. tx' = [tx EXCEPT ![w] = t]
    BY <1>3, <2>1 DEF FanOut
  <2> QED BY <1>3, <1>a, <2>3, <2>4, <2>5
<1>4. CASE Commit(w)
  <2>1. PICK t : t = [tx[w] EXCEPT !.pc = "committed"]
    OBVIOUS
  <2>2. t \in TxState /\ t.pc = "committed"
    BY <1>0, <2>1 DEF TxState
  <2>3. tx' = [tx EXCEPT ![w] = t]
    BY <1>4, <2>1 DEF Commit
  <2> QED BY <1>4, <1>a, <2>2, <2>3
<1>5. CASE Rollback(w)
  <2>1. PICK t : t = [tx[w] EXCEPT !.pc = "rolledback"]
    OBVIOUS
  <2>2. t \in TxState /\ t.pc = "rolledback"
    BY <1>0, <2>1 DEF TxState
  <2>3. tx' = [tx EXCEPT ![w] = t]
    BY <1>5, <2>1 DEF Rollback
  <2> QED BY <1>5, <1>a, <2>2, <2>3
<1> QED BY <1>1, <1>2, <1>3, <1>4, <1>5 DEF Announce

LEMMA RecordTypes ==
  ASSUME TypesInv
  PROVE  /\ reader.after \in Nat /\ reader.got \subseteq Nat /\ reader.overtaken \subseteq Nat
         /\ \A e \in events : e.number \in Nat /\ e.type \in EventTypes /\ e.by \in Writers
         /\ \A d \in deliveries : /\ d.to \in Subscriptions /\ d.event \in Nat
                                  /\ d.at \in Nat /\ d.by \in Writers /\ d \in Delivery
         /\ number \in Nat /\ clock \in Nat /\ tx \in [Writers -> TxState]
         /\ Visible \subseteq Nat /\ Uncommitted \subseteq Nat
<1>1. /\ reader \in [after : Nat, got : SUBSET Nat, overtaken : SUBSET Nat]
      /\ events \subseteq Event /\ deliveries \subseteq Delivery
  BY DEF TypesInv, TypeOK
<1>2. number \in Nat /\ clock \in Nat /\ tx \in [Writers -> TxState]
  BY DEF TypesInv, TypeOK, TxState
<1>3. \A e \in events : e.number \in Nat /\ e.type \in EventTypes /\ e.by \in Writers
  BY <1>1 DEF Event
<1>4. \A d \in deliveries : /\ d.to \in Subscriptions /\ d.event \in Nat
                            /\ d.at \in Nat /\ d.by \in Writers /\ d \in Delivery
  BY <1>1 DEF Delivery
<1>5. Visible \subseteq Nat /\ Uncommitted \subseteq Nat
  BY <1>3 DEF Visible, Uncommitted
<1> QED BY <1>1, <1>2, <1>3, <1>4, <1>5

\* The state of a walk, as Read leaves it.
Walk == [pc : {"more", "end"}, before : Nat, owed : SUBSET Delivery, edges : SUBSET Nat]

\* A page of deliveries that leaves rows out ends at a moment: those left are not later,
\* and the walk remembers it.
LEMMA ReadStep ==
  ASSUME TypesInv, NEW u \in Subscriptions, NEW S \in SUBSET deliveries, NEW t \in Walk,
         Read(u, S, t)
  PROVE  /\ walk' \in [Subscriptions -> Walk]
         /\ \A o \in Subscriptions \ {u} : walk'[o] = walk[o]
         /\ walk'[u].owed \subseteq t.owed
         /\ t.edges \subseteq walk'[u].edges
         /\ walk'[u].pc = "end" => walk'[u].owed \cap S = {}
         /\ walk'[u].pc = "more" =>
              \A d \in walk'[u].owed \cap S : d.at < walk'[u].before \/ d.at \in walk'[u].edges
<1>0. walk \in [Subscriptions -> Walk]
  BY DEF TypesInv, TypeOK, Walk
<1>1. \A d \in S : d.at \in Nat
  BY RecordTypes
<1>2. PICK P \in SUBSET S :
        /\ LatestPage(P, S)
        /\ IF P = S
           THEN walk' = [walk EXCEPT ![u] =
                  [t EXCEPT !.pc = "end", !.before = 0, !.owed = t.owed \ P]]
           ELSE \E last \in P :
                  /\ \A p \in P : last.at <= p.at
                  /\ walk' = [walk EXCEPT ![u] =
                       [t EXCEPT !.pc = "more", !.before = last.at, !.owed = t.owed \ P,
                                 !.edges = t.edges \cup {last.at}]]
  BY DEF Read
<1>3. CASE P = S
  <2>1. PICK v : v = [t EXCEPT !.pc = "end", !.before = 0, !.owed = t.owed \ P]
    OBVIOUS
  <2>2. v \in Walk /\ v.pc = "end" /\ v.owed = t.owed \ P /\ v.edges = t.edges
    BY <2>1 DEF Walk
  <2>3. walk' = [walk EXCEPT ![u] = v]
    BY <1>2, <1>3, <2>1
  <2>4. /\ walk'[u] = v /\ walk' \in [Subscriptions -> Walk]
        /\ \A o \in Subscriptions \ {u} : walk'[o] = walk[o]
    BY <1>0, <2>2, <2>3
  <2> QED BY <1>3, <2>2, <2>4
<1>4. CASE P # S
  <2>1. PICK last \in P :
          /\ \A p \in P : last.at <= p.at
          /\ walk' = [walk EXCEPT ![u] =
               [t EXCEPT !.pc = "more", !.before = last.at, !.owed = t.owed \ P,
                         !.edges = t.edges \cup {last.at}]]
    BY <1>2, <1>4
  <2>2. PICK n \in Nat : n = last.at
    BY <1>1
  <2>3. PICK v : v = [t EXCEPT !.pc = "more", !.before = n, !.owed = t.owed \ P,
                               !.edges = t.edges \cup {n}]
    OBVIOUS
  <2>4. /\ v \in Walk /\ v.pc = "more" /\ v.before = n /\ v.owed = t.owed \ P
        /\ v.edges = t.edges \cup {n}
    BY <2>3 DEF Walk
  <2>5. walk' = [walk EXCEPT ![u] = v]
    BY <2>1, <2>2, <2>3
  <2>6. /\ walk'[u] = v /\ walk' \in [Subscriptions -> Walk]
        /\ \A o \in Subscriptions \ {u} : walk'[o] = walk[o]
    BY <1>0, <2>4, <2>5
  <2>7. \A d \in S \ P : d.at <= n
    BY <1>2, <2>2 DEF LatestPage
  <2>8. \A d \in v.owed \cap S : d.at < n \/ d.at = n
    BY <1>1, <2>4, <2>7
  <2> QED BY <2>2, <2>4, <2>6, <2>8
<1> QED BY <1>3, <1>4

LEMMA TypesInit == Init => TypesInv
<1> SUFFICES ASSUME Init PROVE TypesInv
  OBVIOUS
<1>1. \A w \in Writers : NotBegun(w) \in TxState /\ NotBegun(w).pc = "idle"
  BY DEF NotBegun, TxState
<1>2. tx \in [Writers -> TxState] /\ Announcing
  BY <1>1 DEF Init, Announcing
<1>3. NoWalk \in Walk
  BY DEF NoWalk, Walk
<1>4. walk \in [Subscriptions -> Walk]
  BY <1>3 DEF Init
<1>5. reader \in [after : Nat, got : SUBSET Nat, overtaken : SUBSET Nat]
  BY DEF Init, FromStart
<1>6. span \in [Writers -> [throughout : SUBSET Subscriptions, sometime : SUBSET Subscriptions]]
  BY DEF Init
<1> QED BY <1>2, <1>4, <1>5, <1>6 DEF Init, TypesInv, TypeOK, TxState, Walk, Salts

LEMMA TypesNext == TypesInv /\ [Next]_vars => TypesInv'
<1> SUFFICES ASSUME TypesInv, [Next]_vars PROVE TypesInv'
  OBVIOUS
<1>0. TypeOK /\ Announcing
  BY DEF TypesInv
<1>1. ASSUME NEW w \in Writers, Announce(w) PROVE TypesInv'
  <2>1. tx' \in [Writers -> TxState] /\ Announcing'
    <3>1. tx'[w].pc = "fanout" => tx'[w].todo # <<>>
      BY <1>1, WriterStep
    <3>2. \A o \in Writers \ {w} : tx'[o] = tx[o]
      BY <1>1, WriterStep
    <3> QED BY <1>0, <1>1, <3>1, <3>2, WriterStep DEF Announcing
  <2>2. clock' \in Nat /\ number' \in Nat
    BY <1>1, RecordTypes DEF Announce, Begin, Draw, FanOut, Commit, Rollback
  <2>3. events' \subseteq Event
    <3>1. CASE Draw(w)
      <4>0. tx[w].todo \in Seq(EventTypes) /\ tx[w].todo # <<>>
        BY <3>1, RecordTypes DEF Draw, TxState
      <4>1. PICK e : e = [number |-> number + 1, type |-> Head(tx[w].todo), by |-> w]
        OBVIOUS
      <4>2. Head(tx[w].todo) \in EventTypes
        BY <4>0
      <4>3. e \in Event
        BY <4>1, <4>2, RecordTypes DEF Event
      <4> QED BY <1>0, <3>1, <4>1, <4>3 DEF Draw, TypeOK
    <3>2. CASE ~ Draw(w)
      BY <1>0, <1>1, <3>2 DEF Announce, Begin, FanOut, Commit, Rollback, TypeOK
    <3> QED BY <3>1, <3>2
  <2>4. deliveries' \subseteq Delivery
    <3>1. CASE FanOut(w)
      <4>1. tx[w].event \in Nat /\ tx[w].began \in Nat
        BY RecordTypes DEF TxState
      <4>2. \A u \in Subscriptions :
              [to |-> u, event |-> tx[w].event, at |-> tx[w].began, by |-> w] \in Delivery
        BY <4>1 DEF Delivery
      <4> QED BY <1>0, <3>1, <4>2 DEF FanOut, Recipients, Active, TypeOK
    <3>2. CASE ~ FanOut(w)
      BY <1>0, <1>1, <3>2 DEF Announce, Begin, Draw, Commit, Rollback, TypeOK
    <3> QED BY <3>1, <3>2
  <2>5. span' \in [Writers -> [throughout : SUBSET Subscriptions, sometime : SUBSET Subscriptions]]
    <3>1. span \in [Writers -> Span]
      BY <1>0 DEF TypeOK, Span
    <3>2. CASE Begin(w)
      <4>1. PICK v : v = [throughout |-> Active, sometime |-> Active]
        OBVIOUS
      <4>2. v \in Span
        BY <4>1 DEF Span, Active
      <4>3. span' = [span EXCEPT ![w] = v]
        BY <3>2, <4>1 DEF Begin
      <4> QED BY <3>1, <4>2, <4>3 DEF Span
    <3>3. CASE ~ Begin(w)
      BY <1>1, <3>1, <3>3 DEF Announce, Draw, FanOut, Commit, Rollback, subscribing, Span
    <3> QED BY <3>2, <3>3
  <2>6. UNCHANGED <<subscription, reader, walk, secrets>>
    BY <1>1 DEF Announce, Begin, Draw, FanOut, Commit, Rollback, subscribing
  <2> QED BY <1>0, <2>1, <2>2, <2>3, <2>4, <2>5, <2>6 DEF TypesInv, TypeOK, TxState, secrets
<1>2. ASSUME NEW u \in Subscriptions, CreateSubscription(u) \/ DeleteSubscription(u)
      PROVE  TypesInv'
  <2>1. UNCHANGED <<writing, reader, walk, rotation, salt>>
    BY <1>2 DEF CreateSubscription, DeleteSubscription, secrets
  <2>2. told' \in [Subscriptions -> SUBSET Salts]
    BY <1>0, <1>2 DEF CreateSubscription, DeleteSubscription, secrets, TypeOK, Salts
  <2>3. subscription' \in [Subscriptions -> {"absent", "active", "inactive"}]
    <3>1. subscription \in [Subscriptions -> {"absent", "active", "inactive"}]
      BY <1>0 DEF TypeOK
    <3> QED BY <1>2, <3>1 DEF CreateSubscription, DeleteSubscription
  <2>4. span' \in [Writers -> [throughout : SUBSET Subscriptions, sometime : SUBSET Subscriptions]]
    <3>1. ASSUME NEW v \in Span
          PROVE  [v EXCEPT !.sometime = @ \cup {u}] \in Span /\ [v EXCEPT !.throughout = @ \ {u}] \in Span
      BY DEF Span
    <3>2. \A w \in Writers : span[w] \in Span
      BY <1>0 DEF TypeOK, Span
    <3>3. CASE CreateSubscription(u)
      <4>1. span' = [w \in Writers |->
                       IF Open(w) THEN [span[w] EXCEPT !.sometime = @ \cup {u}] ELSE span[w]]
        BY <3>3 DEF CreateSubscription
      <4>2. span' \in [Writers -> Span]
        BY <3>1, <3>2, <4>1
      <4> QED BY <4>2 DEF Span
    <3>4. CASE DeleteSubscription(u)
      <4>1. span' = [w \in Writers |->
                       IF Open(w) THEN [span[w] EXCEPT !.throughout = @ \ {u}] ELSE span[w]]
        BY <3>4 DEF DeleteSubscription
      <4>2. span' \in [Writers -> Span]
        BY <3>1, <3>2, <4>1
      <4> QED BY <4>2 DEF Span
    <3> QED BY <1>2, <3>3, <3>4
  <2> QED BY <1>0, <2>1, <2>2, <2>3, <2>4 DEF TypesInv, TypeOK, Announcing, writing
<1>3. ASSUME NEW k \in Rotations, RotateSecret(k) PROVE TypesInv'
  <2>1. UNCHANGED <<writing, subscribing, reader, walk>>
    BY <1>3 DEF RotateSecret, Rotate, RotateCommit, RotateRollback
  <2>2. rotation' \in [Rotations -> {"idle", "told", "done"}]
    <3>1. rotation \in [Rotations -> {"idle", "told", "done"}]
      BY <1>0 DEF TypeOK
    <3> QED BY <1>3, <3>1 DEF RotateSecret, Rotate, RotateCommit, RotateRollback
  <2>3. salt' \in [Subscriptions -> Salts] /\ told' \in [Subscriptions -> SUBSET Salts]
    <3>1. RotationOf[k] \in Subscriptions /\ k \in Salts
      BY DEF Salts
    <3>2. salt \in [Subscriptions -> Salts] /\ told \in [Subscriptions -> SUBSET Salts]
      BY <1>0 DEF TypeOK
    <3>3. CASE Rotate(k)
      BY <3>1, <3>2, <3>3 DEF Rotate
    <3>4. CASE RotateCommit(k)
      BY <3>1, <3>2, <3>4 DEF RotateCommit
    <3>5. CASE RotateRollback(k)
      BY <3>2, <3>5 DEF RotateRollback
    <3> QED BY <1>3, <3>3, <3>4, <3>5 DEF RotateSecret
  <2> QED BY <1>0, <2>1, <2>2, <2>3 DEF TypesInv, TypeOK, Announcing, writing, subscribing
<1>4. ASSUME NEW u \in Subscriptions, ListFirst(u) \/ ListNext(u) PROVE TypesInv'
  <2>1. UNCHANGED <<writing, subscribing, reader, secrets>>
    BY <1>4 DEF ListFirst, ListNext
  <2>2. walk \in [Subscriptions -> Walk] /\ DeliveriesOf(u) \subseteq deliveries
    BY <1>0 DEF TypeOK, Walk, DeliveriesOf
  <2>3. walk' \in [Subscriptions -> Walk]
    <3>1. CASE ListFirst(u)
      <4>1. PICK t : t = [NoWalk EXCEPT !.owed = DeliveriesOf(u)]
        OBVIOUS
      <4>2. t \in Walk
        BY <2>2, <4>1, RecordTypes DEF NoWalk, Walk
      <4> QED BY <2>2, <3>1, <4>1, <4>2, ReadStep DEF ListFirst
    <3>2. CASE ListNext(u)
      BY <2>2, <3>2, ReadStep DEF ListNext
    <3> QED BY <1>4, <3>1, <3>2
  <2> QED BY <1>0, <2>1, <2>3 DEF TypesInv, TypeOK, Announcing, writing, subscribing, secrets, Walk
<1>5. CASE Poll \/ StartOver
  <2>1. UNCHANGED <<writing, subscribing, walk, secrets>>
    BY <1>5 DEF Poll, StartOver
  <2>2. reader' \in [after : Nat, got : SUBSET Nat, overtaken : SUBSET Nat]
    <3>1. CASE StartOver
      BY <3>1 DEF StartOver, FromStart
    <3>2. CASE Poll
      BY <3>2, RecordTypes DEF Poll, Ahead
    <3> QED BY <1>5, <3>1, <3>2
  <2> QED BY <1>0, <2>1, <2>2 DEF TypesInv, TypeOK, Announcing, writing, subscribing, secrets
<1>6. CASE UNCHANGED vars
  BY <1>0, <1>6 DEF vars, TypesInv, TypeOK, Announcing, writing, subscribing, secrets
<1> QED BY <1>1, <1>2, <1>3, <1>4, <1>5, <1>6 DEF Next, Manage

\* The variables keep their types.
THEOREM TypeCorrect == Spec => []TypeOK
<1>1. TypesInv => TypeOK
  BY DEF TypesInv
<1> QED BY <1>1, TypesInit, TypesNext, PTL DEF Spec

-----------------------------------------------------------------------------
(* The reader of the feed *)

\* Rows that exist are those of transactions that have committed or still may, and
\* no number is above the sequence's.
Stored ==
    \A e \in events : 0 < e.number /\ e.number <= number /\ (Committed(e.by) \/ Open(e.by))

\* What lies behind the cursor was overtaken, or is committed and was shown.
Behind ==
    \A e \in events : e.number <= reader.after =>
      e.number \in reader.overtaken \/ (Committed(e.by) /\ e.number \in reader.got)

ReaderInv == Stored /\ reader.after <= number /\ Behind

LEMMA ReaderInit == Init => ReaderInv
BY DEF Init, ReaderInv, Stored, Behind, FromStart

LEMMA WritersKeepReader ==
  ASSUME TypesInv, ReaderInv, NEW w \in Writers, Announce(w)
  PROVE  ReaderInv'
<1> USE DEF ReaderInv
<1>1. reader' = reader
  BY DEF Announce, Begin, Draw, FanOut, Commit, Rollback
<1>2. number' \in Nat /\ number <= number'
  BY RecordTypes DEF Announce, Begin, Draw, FanOut, Commit, Rollback
<1>3. \A o \in Writers \ {w} : (Open(o) => Open(o)') /\ (Committed(o) => Committed(o)')
  BY WriterStep DEF Open, Committed
<1>4. Committed(w) => FALSE
  BY DEF Committed, Announce, Begin, Draw, FanOut, Commit, Rollback, Open
<1>5. ASSUME NEW e \in events'
      PROVE  /\ 0 < e.number /\ e.number <= number' /\ (Committed(e.by)' \/ Open(e.by)')
             /\ e \in events \/ e.number = number + 1
  <2>1. CASE Draw(w)
    <3>1. e \in events \/ (e.number = number + 1 /\ e.by = w)
      BY <2>1 DEF Draw
    <3>2. number' = number + 1
      BY <2>1 DEF Draw
    <3>3. Open(w)'
      <4>1. tx'[w].pc \in {"draw", "fanout", "committed", "rolledback"}
        BY WriterStep
      <4>2. tx' = [tx EXCEPT ![w] = [tx[w] EXCEPT !.pc = "fanout", !.event = number + 1]]
        BY <2>1 DEF Draw
      <4>3. tx[w] \in TxState /\ tx \in [Writers -> TxState]
        BY RecordTypes
      <4> QED BY <4>2, <4>3 DEF Open, TxState
    <3>4. e \in events => Committed(e.by)' \/ Open(e.by)'
      BY <1>3, <1>4, <3>3, RecordTypes DEF Stored
    <3> QED BY <1>2, <3>1, <3>2, <3>3, <3>4, RecordTypes DEF Stored
  <2>2. CASE Rollback(w)
    <3>1. e \in events /\ e.by # w /\ number' = number
      BY <2>2 DEF Rollback
    <3> QED BY <1>3, <3>1, RecordTypes DEF Stored
  <2>3. CASE Begin(w) \/ FanOut(w) \/ Commit(w)
    <3>1. e \in events /\ number' = number
      BY <2>3 DEF Begin, FanOut, Commit
    <3>2. CASE e.by # w
      BY <1>3, <3>1, <3>2, RecordTypes DEF Stored
    <3>3. CASE e.by = w
      <4>1. Open(w)
        BY <1>4, <3>1, <3>3 DEF Stored
      <4>2. ~ Begin(w)
        BY <4>1 DEF Begin, Open
      <4>3. tx \in [Writers -> TxState]
        BY RecordTypes
      <4>4. tx'[w].pc \in {"draw", "committed"}
        BY <2>3, <4>2, <4>3 DEF FanOut, Commit, TxState
      <4> QED BY <3>1, <3>3, <4>4 DEF Open, Committed, Stored
    <3> QED BY <3>2, <3>3
  <2> QED BY <2>1, <2>2, <2>3 DEF Announce
<1>6. Stored'
  BY <1>5 DEF Stored
<1>7. reader'.after <= number'
  BY <1>1, <1>2, RecordTypes
<1>8. Behind'
  <2> SUFFICES ASSUME NEW e \in events', e.number <= reader.after
               PROVE  e.number \in reader.overtaken \/ (Committed(e.by)' /\ e.number \in reader.got)
    BY <1>1 DEF Behind
  <2>1. e \in events
    BY <1>5, RecordTypes
  <2>2. e.number \in reader.overtaken \/ (Committed(e.by) /\ e.number \in reader.got)
    BY <2>1 DEF Behind
  <2> QED BY <1>3, <1>4, <2>1, <2>2, RecordTypes
<1> QED BY <1>6, <1>7, <1>8

LEMMA PollKeepsReader ==
  ASSUME TypesInv, ReaderInv, Poll
  PROVE  ReaderInv'
<1> USE DEF ReaderInv
<1>0. PICK S : S = Ahead(reader.after)
  OBVIOUS
<1>1. PICK P \in SUBSET S, n \in S \cup {reader.after} :
        /\ Fills(P, S) /\ \A p \in P, q \in S \ P : p < q
        /\ IF P = S THEN n = reader.after ELSE Resumes(n, P, S)
        /\ reader' = [after |-> n, got |-> reader.got \cup P,
                      overtaken |-> reader.overtaken \cup {m \in Uncommitted : m <= n}]
  BY <1>0 DEF Poll
<1>2. S \subseteq Nat /\ \A m \in S : m \in Visible /\ m > reader.after
  BY <1>0, RecordTypes DEF Ahead
<1>3. UNCHANGED <<tx, events, number>>
  BY DEF Poll, writing
<1>4. /\ n \in Nat /\ reader'.after = n /\ reader'.got = reader.got \cup P
      /\ reader'.overtaken = reader.overtaken \cup {m \in Uncommitted : m <= n}
  <2>1. n \in Nat
    BY <1>1, <1>2, RecordTypes
  <2>2. PICK g, o : g = reader.got \cup P /\ o = reader.overtaken \cup {m \in Uncommitted : m <= n}
    OBVIOUS
  <2>3. reader' = [after |-> n, got |-> g, overtaken |-> o]
    BY <1>1, <2>2
  <2> QED BY <2>1, <2>2, <2>3
<1>5. reader.after <= n
  <2>1. reader.after \in Nat /\ n \in Nat
    BY <1>4, RecordTypes
  <2>2. n = reader.after \/ n \in S
    BY <1>1
  <2>3. n \in S => n > reader.after
    BY <1>2
  <2> QED BY <2>1, <2>2, <2>3
<1>6. n <= number
  <2>1. \A m \in Visible : m <= number
    BY DEF Visible, Stored
  <2> QED BY <1>1, <1>2, <2>1
<1>7. ASSUME NEW e \in events, e.number <= n
      PROVE  e.number \in reader'.overtaken \/ (Committed(e.by) /\ e.number \in reader'.got)
  <2>0. e.number \in Nat /\ reader.after \in Nat
    BY RecordTypes
  <2>1. CASE e.number <= reader.after
    BY <1>4, <2>1 DEF Behind
  <2>2. CASE ~ (e.number <= reader.after) /\ Open(e.by)
    <3>1. e.number \in Uncommitted
      BY <2>2 DEF Uncommitted
    <3>2. e.number \in {m \in Uncommitted : m <= n}
      <4>1. n \in Nat
        BY <1>4
      <4> QED BY <1>7, <2>0, <3>1, <4>1
    <3>3. PICK M : M = {m \in Uncommitted : m <= n}
      OBVIOUS
    <3>4. reader'.overtaken = reader.overtaken \cup M
      BY <1>4, <3>3
    <3>5. e.number \in M
      BY <3>2, <3>3
    <3> QED BY <3>4, <3>5
  <2>3. CASE ~ (e.number <= reader.after) /\ Committed(e.by)
    <3>1. e.number \in Visible
      BY <2>3 DEF Visible
    <3>2. e.number \in S
      BY <1>0, <2>0, <2>3, <3>1 DEF Ahead
    <3>3. CASE P = S
      BY <1>4, <2>3, <3>2, <3>3
    <3>4. CASE P # S
      <4>1. n \in P
        BY <1>1, <3>4 DEF Resumes
      <4>2. e.number \in P
        <5> SUFFICES ASSUME e.number \notin P PROVE FALSE
          OBVIOUS
        <5>1. n < e.number
          BY <1>1, <3>2, <4>1
        <5> QED BY <1>4, <1>7, <2>0, <5>1
      <4> QED BY <1>4, <2>3, <4>2
    <3> QED BY <3>3, <3>4
  <2> QED BY <2>1, <2>2, <2>3 DEF Stored
<1> QED BY <1>3, <1>4, <1>6, <1>7 DEF Stored, Behind, Committed, Open

LEMMA ReaderNext == TypesInv /\ ReaderInv /\ [Next]_vars => ReaderInv'
<1> SUFFICES ASSUME TypesInv, ReaderInv, [Next]_vars PROVE ReaderInv'
  OBVIOUS
<1>1. ASSUME NEW w \in Writers, Announce(w) PROVE ReaderInv'
  BY <1>1, WritersKeepReader
<1>2. CASE Poll
  BY <1>2, PollKeepsReader
<1>3. CASE StartOver
  <2>1. reader'.after = 0 /\ UNCHANGED <<tx, events, number>>
    BY <1>3 DEF StartOver, FromStart, writing
  <2>2. \A e \in events : ~ (e.number <= 0)
    BY RecordTypes DEF ReaderInv, Stored
  <2> QED BY <2>1, <2>2, RecordTypes DEF ReaderInv, Stored, Behind, Committed, Open
<1>4. ASSUME UNCHANGED <<tx, events, number, reader>> PROVE ReaderInv'
  BY <1>4 DEF ReaderInv, Stored, Behind, Committed, Open
<1>5. ASSUME NEW u \in Subscriptions, Manage(u) PROVE ReaderInv'
  BY <1>4, <1>5 DEF Manage, CreateSubscription, DeleteSubscription, ListFirst, ListNext, writing
<1>6. ASSUME NEW k \in Rotations, RotateSecret(k) PROVE ReaderInv'
  BY <1>4, <1>6 DEF RotateSecret, Rotate, RotateCommit, RotateRollback, writing
<1>7. CASE UNCHANGED vars
  BY <1>4, <1>7 DEF vars, writing
<1> QED BY <1>1, <1>2, <1>3, <1>5, <1>6, <1>7 DEF Next

\* A reader of the feed misses only what was uncommitted when the cursor passed it.
THEOREM FeedMissesOnlyUncommitted == Spec => []MissedWasUncommitted
<1>1. ReaderInv => MissedWasUncommitted
  BY DEF ReaderInv, Behind, MissedWasUncommitted, Visible
<1> QED BY <1>1, TypesInit, TypesNext, ReaderInit, ReaderNext, PTL DEF Spec

-----------------------------------------------------------------------------
(* The walk through a delivery history *)

\* What was there at the start of a walk stays, and is still ahead unless it was shown
\* or shares its moment with the end of a page.
WalkInv ==
    \A u \in Subscriptions :
      /\ walk[u].owed \subseteq DeliveriesOf(u)
      /\ walk[u].pc = "end" => \A d \in walk[u].owed : d.at \in walk[u].edges
      /\ walk[u].pc = "more" =>
           \A d \in walk[u].owed : d.at < walk[u].before \/ d.at \in walk[u].edges

LEMMA WalkInit == Init => WalkInv
BY DEF Init, WalkInv, NoWalk

LEMMA DeliveriesStay ==
  ASSUME TypesInv, NEW w \in Writers, Announce(w), NEW u \in Subscriptions
  PROVE  DeliveriesOf(u) \subseteq DeliveriesOf(u)'
<1> SUFFICES ASSUME NEW d \in deliveries, d.to = u, Committed(d.by)
             PROVE  d \in deliveries' /\ Committed(d.by)'
  BY DEF DeliveriesOf
<1>1. d.by # w
  BY DEF Committed, Announce, Begin, Draw, FanOut, Commit, Rollback, Open
<1>2. Committed(d.by)'
  BY <1>1, RecordTypes, WriterStep DEF Committed
<1>3. d \in deliveries'
  BY <1>1 DEF Announce, Begin, Draw, FanOut, Commit, Rollback
<1> QED BY <1>2, <1>3

LEMMA ListKeepsWalk ==
  ASSUME TypesInv, WalkInv, NEW u \in Subscriptions, ListFirst(u) \/ ListNext(u)
  PROVE  WalkInv'
<1>0. UNCHANGED <<tx, deliveries>> /\ walk \in [Subscriptions -> Walk]
  BY DEF ListFirst, ListNext, writing, TypesInv, TypeOK, Walk
<1>1. \A o \in Subscriptions : DeliveriesOf(o)' = DeliveriesOf(o) /\ DeliveriesOf(o) \subseteq deliveries
  BY <1>0 DEF DeliveriesOf, Committed
<1>2. /\ \A o \in Subscriptions \ {u} : walk'[o] = walk[o]
      /\ walk'[u].owed \subseteq DeliveriesOf(u)
      /\ walk'[u].pc = "end" => \A d \in walk'[u].owed : d.at \in walk'[u].edges
      /\ walk'[u].pc = "more" =>
           \A d \in walk'[u].owed : d.at < walk'[u].before \/ d.at \in walk'[u].edges
  <2>1. CASE ListFirst(u)
    <3>1. PICK t : t = [NoWalk EXCEPT !.owed = DeliveriesOf(u)]
      OBVIOUS
    <3>2. t \in Walk /\ t.owed = DeliveriesOf(u)
      BY <1>1, <3>1, RecordTypes DEF NoWalk, Walk
    <3>3. PICK S \in SUBSET deliveries : S = DeliveriesOf(u)
      BY <1>1
    <3>4. Read(u, S, t)
      BY <2>1, <3>1, <3>3 DEF ListFirst
    <3>5. /\ \A o \in Subscriptions \ {u} : walk'[o] = walk[o]
          /\ walk'[u].owed \subseteq t.owed
          /\ t.edges \subseteq walk'[u].edges
          /\ walk'[u].pc = "end" => walk'[u].owed \cap S = {}
          /\ walk'[u].pc = "more" =>
               \A d \in walk'[u].owed \cap S : d.at < walk'[u].before \/ d.at \in walk'[u].edges
      BY <3>2, <3>4, ReadStep
    <3> QED BY <3>2, <3>3, <3>5
  <2>2. CASE ListNext(u)
    <3>1. PICK S \in SUBSET deliveries : S = {d \in DeliveriesOf(u) : d.at < walk[u].before}
      BY <1>1
    <3>2. PICK t \in Walk : t = walk[u]
      BY <1>0
    <3>3. Read(u, S, t) /\ t.pc = "more"
      BY <2>2, <3>1, <3>2 DEF ListNext
    <3>4. \A d \in t.owed : d \in DeliveriesOf(u) /\ (d \in S \/ d.at \in t.edges)
      BY <3>1, <3>2, <3>3 DEF WalkInv
    <3>5. /\ \A o \in Subscriptions \ {u} : walk'[o] = walk[o]
          /\ walk'[u].owed \subseteq t.owed
          /\ t.edges \subseteq walk'[u].edges
          /\ walk'[u].pc = "end" => walk'[u].owed \cap S = {}
          /\ walk'[u].pc = "more" =>
               \A d \in walk'[u].owed \cap S : d.at < walk'[u].before \/ d.at \in walk'[u].edges
      BY <3>3, ReadStep
    <3>6. t.owed \subseteq DeliveriesOf(u)
      BY <3>4
    <3>7. \A d \in walk'[u].owed : d \in S \/ d.at \in walk'[u].edges
      BY <3>4, <3>5
    <3> QED BY <3>5, <3>6, <3>7
  <2> QED BY <2>1, <2>2
<1>3. ASSUME NEW o \in Subscriptions
      PROVE  /\ walk'[o].owed \subseteq DeliveriesOf(o)
             /\ walk'[o].pc = "end" => \A d \in walk'[o].owed : d.at \in walk'[o].edges
             /\ walk'[o].pc = "more" =>
                  \A d \in walk'[o].owed : d.at < walk'[o].before \/ d.at \in walk'[o].edges
  <2>1. CASE o = u
    BY <1>2, <2>1
  <2>2. CASE o # u
    BY <1>2, <2>2 DEF WalkInv
  <2> QED BY <2>1, <2>2
<1> QED BY <1>1, <1>3 DEF WalkInv

LEMMA WalkNext == TypesInv /\ WalkInv /\ [Next]_vars => WalkInv'
<1> SUFFICES ASSUME TypesInv, WalkInv, [Next]_vars PROVE WalkInv'
  OBVIOUS
<1>1. ASSUME NEW w \in Writers, Announce(w) PROVE WalkInv'
  <2>1. walk' = walk
    BY <1>1 DEF Announce, Begin, Draw, FanOut, Commit, Rollback
  <2> QED BY <1>1, <2>1, DeliveriesStay DEF WalkInv
<1>2. ASSUME NEW u \in Subscriptions, ListFirst(u) \/ ListNext(u) PROVE WalkInv'
  BY <1>2, ListKeepsWalk
<1>3. ASSUME UNCHANGED <<tx, deliveries, walk>> PROVE WalkInv'
  BY <1>3 DEF WalkInv, DeliveriesOf, Committed
<1>4. ASSUME NEW u \in Subscriptions, CreateSubscription(u) \/ DeleteSubscription(u) PROVE WalkInv'
  BY <1>3, <1>4 DEF CreateSubscription, DeleteSubscription, writing
<1>5. ASSUME NEW k \in Rotations, RotateSecret(k) PROVE WalkInv'
  BY <1>3, <1>5 DEF RotateSecret, Rotate, RotateCommit, RotateRollback, writing
<1>6. CASE Poll \/ StartOver
  BY <1>3, <1>6 DEF Poll, StartOver, writing
<1>7. CASE UNCHANGED vars
  BY <1>3, <1>7 DEF vars, writing
<1> QED BY <1>1, <1>2, <1>4, <1>5, <1>6, <1>7 DEF Next, Manage

\* A walk to the end has shown what was there, but for ties with the end of a page.
THEOREM HistoryComplete == Spec => []HistoryMissesOnlyTies
<1>1. WalkInv => HistoryMissesOnlyTies
  BY DEF WalkInv, HistoryMissesOnlyTies
<1> QED BY <1>1, TypesInit, TypesNext, WalkInit, WalkNext, PTL DEF Spec

-----------------------------------------------------------------------------
(* The secrets *)

SecretsInv ==
    /\ \A u \in Subscriptions :
         IF subscription[u] = "absent" THEN salt[u] = FirstSalt ELSE salt[u] \in told[u]
    /\ \A k \in Rotations :
         /\ subscription[RotationOf[k]] = "absent" => rotation[k] = "idle"
         /\ rotation[k] = "told" => k \in told[RotationOf[k]]

LEMMA SecretsInit == Init => SecretsInv
BY DEF Init, SecretsInv

LEMMA SecretsNext == TypesInv /\ SecretsInv /\ [Next]_vars => SecretsInv'
<1> SUFFICES ASSUME TypesInv, SecretsInv, [Next]_vars PROVE SecretsInv'
  OBVIOUS
<1>0. /\ rotation \in [Rotations -> {"idle", "told", "done"}]
      /\ salt \in [Subscriptions -> Salts] /\ told \in [Subscriptions -> SUBSET Salts]
      /\ subscription \in [Subscriptions -> {"absent", "active", "inactive"}]
  BY DEF TypesInv, TypeOK
<1>1. ASSUME UNCHANGED <<subscription, secrets>> PROVE SecretsInv'
  BY <1>1 DEF SecretsInv, secrets
<1>2. ASSUME NEW w \in Writers, Announce(w) PROVE SecretsInv'
  BY <1>1, <1>2 DEF Announce, Begin, Draw, FanOut, Commit, Rollback, subscribing
<1>3. CASE Poll \/ StartOver \/ UNCHANGED vars
  BY <1>1, <1>3 DEF Poll, StartOver, vars, subscribing
<1>4. ASSUME NEW u \in Subscriptions, Manage(u) PROVE SecretsInv'
  <2>1. CASE ListFirst(u) \/ ListNext(u)
    BY <1>1, <2>1 DEF ListFirst, ListNext, subscribing
  <2>2. CASE CreateSubscription(u)
    BY <1>0, <2>2 DEF CreateSubscription, SecretsInv
  <2>3. CASE DeleteSubscription(u)
    BY <1>0, <2>3 DEF DeleteSubscription, SecretsInv, secrets
  <2> QED BY <1>4, <2>1, <2>2, <2>3 DEF Manage
<1>5. ASSUME NEW k \in Rotations, RotateSecret(k) PROVE SecretsInv'
  <2>1. RotationOf[k] \in Subscriptions /\ k \in Salts
    BY DEF Salts
  <2>2. CASE Rotate(k)
    BY <1>0, <2>1, <2>2 DEF Rotate, SecretsInv, subscribing
  <2>3. CASE RotateCommit(k)
    BY <1>0, <2>1, <2>3 DEF RotateCommit, SecretsInv, subscribing
  <2>4. CASE RotateRollback(k)
    BY <1>0, <2>1, <2>4 DEF RotateRollback, SecretsInv, subscribing
  <2> QED BY <1>5, <2>2, <2>3, <2>4 DEF RotateSecret
<1> QED BY <1>2, <1>3, <1>4, <1>5 DEF Next

\* The secret in effect is one that was sent to the client.
THEOREM SecretsAreTold == Spec => []SigningSecretKnown
<1>1. SecretsInv => SigningSecretKnown
  BY DEF SecretsInv, SigningSecretKnown
<1> QED BY <1>1, TypesInit, TypesNext, SecretsInit, SecretsNext, PTL DEF Spec

-----------------------------------------------------------------------------
(* The announcements *)

Unique == \A e, f \in events : e.number = f.number => e = f

\* A delivery is for an event of its own transaction.
ForEvents == \A d \in deliveries : \E e \in events : e.number = d.event /\ e.by = d.by

\* The event that a writer is about to announce has no deliveries yet.
Fresh(w) ==
    /\ \E e \in events : e.number = tx[w].event /\ e.by = w /\ e.type = Head(tx[w].todo)
    /\ \A d \in deliveries : d.event # tx[w].event

SpanSound(w) == span[w].throughout \subseteq Active /\ Active \subseteq span[w].sometime

Announcement(e) ==
    /\ \A u \in span[e.by].throughout :
         e.type \in Wanted[u] => \E d \in deliveries : d.event = e.number /\ d.to = u
    /\ \A d \in deliveries : d.event = e.number =>
         d.to \in span[e.by].sometime /\ e.type \in Wanted[d.to]

Upcoming(e) == tx[e.by].pc = "fanout" /\ tx[e.by].event = e.number

AnnouncedInv ==
    /\ Unique /\ ForEvents
    /\ \A w \in Writers : (tx[w].pc = "fanout" => Fresh(w)) /\ (Open(w) => SpanSound(w))
    /\ \A e \in events : Upcoming(e) \/ Announcement(e)

LEMMA AnnouncedInit == Init => AnnouncedInv
BY DEF Init, AnnouncedInv, Unique, ForEvents, NotBegun, Open

\* What a step of w leaves of the others' transactions.
LEMMA OthersAnnounced ==
  ASSUME TypesInv, ReaderInv, AnnouncedInv, NEW w \in Writers, Announce(w),
         NEW o \in Writers \ {w}, span'[o] = span[o],
         \A e \in events : e.by = o => e \in events',
         \A d \in deliveries' : d \in deliveries \/ d.by = w,
         \A d \in deliveries : d.by = o => d \in deliveries',
         \A d \in deliveries' \ deliveries : \E e \in events : e.number = d.event /\ e.by = w
  PROVE  /\ tx[o].pc = "fanout" => Fresh(o)'
         /\ Open(o) => SpanSound(o)'
         /\ \A e \in events : e.by = o => (Upcoming(e) => Upcoming(e)') /\ (Announcement(e) => Announcement(e)')
<1>1. tx'[o] = tx[o] /\ subscription' = subscription
  BY WriterStep DEF Announce, Begin, Draw, FanOut, Commit, Rollback, subscribing
<1>2. \A d \in deliveries' : \A e \in events : e.by = o /\ d.event = e.number => d \in deliveries
  BY DEF AnnouncedInv, Unique
<1>3. ASSUME tx[o].pc = "fanout" PROVE Fresh(o)'
  <2>1. PICK e \in events : e.number = tx[o].event /\ e.by = o /\ e.type = Head(tx[o].todo)
    BY <1>3 DEF AnnouncedInv, Fresh
  <2>2. \A d \in deliveries' : d.event # tx[o].event
    BY <1>2, <1>3, <2>1 DEF AnnouncedInv, Fresh
  <2> QED BY <1>1, <2>1, <2>2 DEF Fresh
<1>4. ASSUME Open(o) PROVE SpanSound(o)'
  <2>1. SpanSound(o)
    BY <1>4 DEF AnnouncedInv
  <2> QED BY <1>1, <2>1 DEF SpanSound, Active
<1>5. ASSUME NEW e \in events, e.by = o, Announcement(e) PROVE Announcement(e)'
  <2>1. \A d \in deliveries : d.event = e.number => d \in deliveries'
    BY <1>5 DEF AnnouncedInv, ForEvents, Unique
  <2> QED BY <1>2, <1>5, <2>1 DEF Announcement
<1>6. \A e \in events : e.by = o /\ Upcoming(e) => Upcoming(e)'
  BY <1>1 DEF Upcoming
<1> QED BY <1>3, <1>4, <1>5, <1>6

LEMMA BeginAnnounces ==
  ASSUME TypesInv, ReaderInv, AnnouncedInv, NEW w \in Writers, Begin(w)
  PROVE  AnnouncedInv'
<1>1. UNCHANGED <<events, deliveries, subscription>> /\ tx[w].pc = "idle" /\ tx'[w].pc = "draw"
  <2>1. tx' = [tx EXCEPT ![w] = [tx[w] EXCEPT !.pc = "draw", !.began = clock + 1]]
    BY DEF Begin
  <2>2. tx \in [Writers -> TxState]
    BY RecordTypes
  <2> QED BY <2>1, <2>2 DEF Begin, TxState
<1>2. \A e \in events : e.by # w
  BY <1>1 DEF ReaderInv, Stored, Open, Committed
<1>3. span' = [span EXCEPT ![w] = [throughout |-> Active, sometime |-> Active]]
  BY DEF Begin
<1>4. span \in [Writers -> Span]
  BY DEF TypesInv, TypeOK, Span
<1>5. SpanSound(w)'
  BY <1>1, <1>3, <1>4 DEF SpanSound, Active
<1>6. ASSUME NEW o \in Writers \ {w}
      PROVE  /\ tx[o].pc = "fanout" => Fresh(o)'
             /\ Open(o) => SpanSound(o)'
             /\ \A e \in events : e.by = o => (Upcoming(e) => Upcoming(e)') /\ (Announcement(e) => Announcement(e)')
  BY <1>1, <1>3, <1>4, OthersAnnounced DEF Announce
<1>7. \A o \in Writers \ {w} : tx'[o] = tx[o]
  BY WriterStep DEF Announce
<1>8. \A e \in events : Upcoming(e)' \/ Announcement(e)'
  BY <1>2, <1>6, RecordTypes DEF AnnouncedInv
<1> QED BY <1>1, <1>5, <1>6, <1>7, <1>8 DEF AnnouncedInv, Unique, ForEvents, Open

LEMMA DrawAnnounces ==
  ASSUME TypesInv, ReaderInv, AnnouncedInv, NEW w \in Writers, Draw(w)
  PROVE  AnnouncedInv'
<1>1. PICK n \in Nat : n = number + 1
  BY RecordTypes
<1>2. PICK a : a = [number |-> n, type |-> Head(tx[w].todo), by |-> w]
  OBVIOUS
<1>3. /\ events' = events \cup {a} /\ deliveries' = deliveries /\ span' = span
      /\ subscription' = subscription /\ tx[w].pc = "draw"
  BY <1>1, <1>2 DEF Draw, subscribing
<1>4. a.number = n /\ a.by = w /\ a.type = Head(tx[w].todo)
  BY <1>2
<1>5. /\ tx'[w].pc = "fanout" /\ tx'[w].event = n /\ tx'[w].todo = tx[w].todo
      /\ \A o \in Writers \ {w} : tx'[o] = tx[o]
  <2>1. tx' = [tx EXCEPT ![w] = [tx[w] EXCEPT !.pc = "fanout", !.event = n]]
    BY <1>1 DEF Draw
  <2>2. tx \in [Writers -> TxState]
    BY RecordTypes
  <2> QED BY <2>1, <2>2 DEF TxState
<1>6. \A e \in events : e.number # n
  BY <1>1, RecordTypes DEF ReaderInv, Stored
<1>7. \A d \in deliveries : d.event # n
  BY <1>6 DEF AnnouncedInv, ForEvents
<1>8. Unique' /\ ForEvents'
  BY <1>3, <1>4, <1>6 DEF AnnouncedInv, Unique, ForEvents
<1>9. ASSUME NEW o \in Writers \ {w}
      PROVE  /\ tx[o].pc = "fanout" => Fresh(o)'
             /\ Open(o) => SpanSound(o)'
             /\ \A e \in events : e.by = o => (Upcoming(e) => Upcoming(e)') /\ (Announcement(e) => Announcement(e)')
  BY <1>3, OthersAnnounced DEF Announce
<1>10. Fresh(w)'
  BY <1>3, <1>4, <1>5, <1>7 DEF Fresh
<1>11. SpanSound(w)'
  <2>1. SpanSound(w)
    BY <1>3 DEF AnnouncedInv, Open
  <2> QED BY <1>3, <2>1 DEF SpanSound, Active
<1>12. ASSUME NEW e \in events' PROVE Upcoming(e)' \/ Announcement(e)'
  <2>1. CASE e = a
    BY <1>4, <1>5, <2>1 DEF Upcoming
  <2>2. CASE e # a /\ e.by = w
    <3>1. e \in events /\ ~ Upcoming(e)
      BY <1>3, <2>2 DEF Upcoming
    <3>2. Announcement(e)
      BY <3>1 DEF AnnouncedInv
    <3> QED BY <1>3, <3>2 DEF Announcement
  <2>3. CASE e # a /\ e.by # w
    BY <1>3, <1>9, <2>3, RecordTypes DEF AnnouncedInv
  <2> QED BY <2>1, <2>2, <2>3
<1> QED BY <1>5, <1>8, <1>9, <1>10, <1>11, <1>12 DEF AnnouncedInv, Open

LEMMA FanOutAnnounces ==
  ASSUME TypesInv, ReaderInv, AnnouncedInv, NEW w \in Writers, FanOut(w)
  PROVE  AnnouncedInv'
<1>1. /\ UNCHANGED <<events, span, subscription>> /\ tx[w].pc = "fanout"
      /\ deliveries' = deliveries \cup
           {[to |-> u, event |-> tx[w].event, at |-> tx[w].began, by |-> w] :
              u \in Recipients(Head(tx[w].todo))}
  BY DEF FanOut, subscribing
<1>2. tx'[w].pc = "draw" /\ \A o \in Writers \ {w} : tx'[o] = tx[o]
  <2>1. tx' = [tx EXCEPT ![w] = [tx[w] EXCEPT !.pc = "draw", !.todo = Tail(tx[w].todo)]]
    BY DEF FanOut
  <2>2. tx \in [Writers -> TxState]
    BY RecordTypes
  <2> QED BY <2>1, <2>2 DEF TxState
<1>3. PICK a \in events : a.number = tx[w].event /\ a.by = w /\ a.type = Head(tx[w].todo)
  BY <1>1 DEF AnnouncedInv, Fresh
<1>4. \A d \in deliveries : d.event # a.number
  BY <1>1, <1>3 DEF AnnouncedInv, Fresh
<1>5. \A d \in deliveries' \ deliveries :
        d.event = a.number /\ d.by = w /\ d.to \in Recipients(a.type)
  BY <1>1, <1>3
<1>6. \A u \in Recipients(a.type) : \E d \in deliveries' : d.event = a.number /\ d.to = u
  <2> TAKE u \in Recipients(a.type)
  <2>1. PICK d : d = [to |-> u, event |-> tx[w].event, at |-> tx[w].began, by |-> w]
    OBVIOUS
  <2>2. d \in deliveries' /\ d.event = a.number /\ d.to = u
    BY <1>1, <1>3, <2>1
  <2> QED BY <2>2
<1>7. Unique' /\ ForEvents'
  <2>1. deliveries \subseteq deliveries'
    BY <1>1
  <2> QED BY <1>1, <1>3, <1>5, <2>1 DEF AnnouncedInv, Unique, ForEvents
<1>8. ASSUME NEW o \in Writers \ {w}
      PROVE  /\ tx[o].pc = "fanout" => Fresh(o)'
             /\ Open(o) => SpanSound(o)'
             /\ \A e \in events : e.by = o => (Upcoming(e) => Upcoming(e)') /\ (Announcement(e) => Announcement(e)')
  <2>1. \A d \in deliveries' : d \in deliveries \/ d.by = w
    BY <1>5
  <2>2. \A d \in deliveries' \ deliveries : \E e \in events : e.number = d.event /\ e.by = w
    BY <1>3, <1>5
  <2>3. deliveries \subseteq deliveries'
    BY <1>1
  <2> QED BY <1>1, <2>1, <2>2, <2>3, OthersAnnounced DEF Announce
<1>9. SpanSound(w)
  BY <1>1 DEF AnnouncedInv, Open
<1>10. SpanSound(w)'
  BY <1>1, <1>9 DEF SpanSound, Active
<1>11. Announcement(a)'
  <2>1. \A u \in span[w].throughout : a.type \in Wanted[u] => u \in Recipients(a.type)
    BY <1>9 DEF SpanSound, Recipients
  <2>2. \A u \in Recipients(a.type) : u \in span[w].sometime /\ a.type \in Wanted[u]
    BY <1>9 DEF SpanSound, Recipients
  <2>3. \A d \in deliveries' : d.event = a.number => d.to \in Recipients(a.type)
    BY <1>4, <1>5
  <2> QED BY <1>1, <1>3, <1>6, <2>1, <2>2, <2>3 DEF Announcement
<1>12. ASSUME NEW e \in events PROVE Upcoming(e)' \/ Announcement(e)'
  <2>1. CASE e = a
    BY <1>11, <2>1
  <2>2. CASE e # a /\ e.by = w
    <3>1. e.number # a.number
      BY <2>2 DEF AnnouncedInv, Unique
    <3>2. Announcement(e)
      BY <1>3, <2>2, <3>1 DEF AnnouncedInv, Upcoming
    <3>3. \A d \in deliveries' : d.event = e.number => d \in deliveries
      BY <1>5, <3>1
    <3>4. deliveries \subseteq deliveries'
      BY <1>1
    <3> QED BY <1>1, <3>2, <3>3, <3>4 DEF Announcement
  <2>3. CASE e.by # w
    BY <1>8, <2>3, RecordTypes DEF AnnouncedInv
  <2> QED BY <2>1, <2>2, <2>3
<1> QED BY <1>1, <1>2, <1>7, <1>8, <1>10, <1>12 DEF AnnouncedInv, Open

LEMMA EndAnnounces ==
  ASSUME TypesInv, ReaderInv, AnnouncedInv, NEW w \in Writers, Commit(w) \/ Rollback(w)
  PROVE  AnnouncedInv'
<1>1. /\ UNCHANGED <<span, subscription>>
      /\ tx'[w].pc \in {"committed", "rolledback"} /\ \A o \in Writers \ {w} : tx'[o] = tx[o]
  <2>1. \/ tx' = [tx EXCEPT ![w] = [tx[w] EXCEPT !.pc = "committed"]]
        \/ tx' = [tx EXCEPT ![w] = [tx[w] EXCEPT !.pc = "rolledback"]]
    BY DEF Commit, Rollback
  <2>2. tx \in [Writers -> TxState]
    BY RecordTypes
  <2>3. UNCHANGED <<span, subscription>>
    BY DEF Commit, Rollback, subscribing
  <2> QED BY <2>1, <2>2, <2>3 DEF TxState
<1>2. /\ events' \subseteq events /\ deliveries' \subseteq deliveries
      /\ \A e \in events : e.by # w => e \in events'
      /\ \A d \in deliveries : d.by # w => d \in deliveries'
  BY DEF Commit, Rollback
<1>3. Unique'
  BY <1>2 DEF AnnouncedInv, Unique
<1>4. ForEvents'
  <2>1. CASE Commit(w)
    BY <2>1 DEF Commit, AnnouncedInv, ForEvents
  <2>2. CASE Rollback(w)
    BY <2>2 DEF Rollback, AnnouncedInv, ForEvents
  <2> QED BY <2>1, <2>2
<1>5. ASSUME NEW o \in Writers \ {w}
      PROVE  /\ tx[o].pc = "fanout" => Fresh(o)'
             /\ Open(o) => SpanSound(o)'
             /\ \A e \in events : e.by = o => (Upcoming(e) => Upcoming(e)') /\ (Announcement(e) => Announcement(e)')
  BY <1>1, <1>2, OthersAnnounced DEF Announce
<1>6. ASSUME NEW e \in events' PROVE Upcoming(e)' \/ Announcement(e)'
  <2>1. CASE e.by = w
    <3>1. Commit(w)
      BY <2>1 DEF Rollback
    <3>2. Announcement(e)
      BY <1>2, <2>1, <3>1 DEF Commit, AnnouncedInv, Upcoming
    <3> QED BY <3>1, <3>2 DEF Commit, subscribing, Announcement
  <2>2. CASE e.by # w
    BY <1>2, <1>5, <2>2, RecordTypes DEF AnnouncedInv
  <2> QED BY <2>1, <2>2
<1> QED BY <1>1, <1>3, <1>4, <1>5, <1>6 DEF AnnouncedInv, Open

LEMMA SubscriptionsAnnounced ==
  ASSUME TypesInv, ReaderInv, AnnouncedInv, NEW u \in Subscriptions,
         CreateSubscription(u) \/ DeleteSubscription(u)
  PROVE  AnnouncedInv'
<1>1. UNCHANGED <<tx, events, deliveries>>
  BY DEF CreateSubscription, DeleteSubscription, writing
<1>2. span \in [Writers -> Span] /\ subscription \in [Subscriptions -> {"absent", "active", "inactive"}]
  BY DEF TypesInv, TypeOK, Span
<1>3. ASSUME NEW w \in Writers
      PROVE  /\ span'[w].throughout \subseteq span[w].throughout
             /\ span[w].sometime \subseteq span'[w].sometime
             /\ Open(w) /\ SpanSound(w) => SpanSound(w)'
  <2>0. PICK v \in Span : v = span[w]
    BY <1>2
  <2>1. CASE CreateSubscription(u)
    <3>1. span'[w] = IF Open(w) THEN [v EXCEPT !.sometime = @ \cup {u}] ELSE v
      BY <2>0, <2>1 DEF CreateSubscription
    <3>2. Active' = Active \cup {u}
      BY <1>2, <2>1 DEF CreateSubscription, Active
    <3> QED BY <2>0, <3>1, <3>2 DEF Span, SpanSound
  <2>2. CASE DeleteSubscription(u)
    <3>1. span'[w] = IF Open(w) THEN [v EXCEPT !.throughout = @ \ {u}] ELSE v
      BY <2>0, <2>2 DEF DeleteSubscription
    <3>2. Active' = Active \ {u}
      BY <1>2, <2>2 DEF DeleteSubscription, Active
    <3> QED BY <2>0, <3>1, <3>2 DEF Span, SpanSound
  <2> QED BY <2>1, <2>2
<1>4. \A e \in events : Announcement(e) => Announcement(e)'
  BY <1>1, <1>3, RecordTypes DEF Announcement
<1> QED BY <1>1, <1>3, <1>4 DEF AnnouncedInv, Unique, ForEvents, Fresh, Open, Upcoming

LEMMA AnnouncedNext == TypesInv /\ ReaderInv /\ AnnouncedInv /\ [Next]_vars => AnnouncedInv'
<1> SUFFICES ASSUME TypesInv, ReaderInv, AnnouncedInv, [Next]_vars PROVE AnnouncedInv'
  OBVIOUS
<1>1. ASSUME NEW w \in Writers, Announce(w) PROVE AnnouncedInv'
  BY <1>1, BeginAnnounces, DrawAnnounces, FanOutAnnounces, EndAnnounces DEF Announce
<1>2. ASSUME NEW u \in Subscriptions, CreateSubscription(u) \/ DeleteSubscription(u)
      PROVE  AnnouncedInv'
  BY <1>2, SubscriptionsAnnounced
<1>3. ASSUME UNCHANGED <<tx, events, deliveries, subscription, span>> PROVE AnnouncedInv'
  BY <1>3 DEF AnnouncedInv, Unique, ForEvents, Fresh, SpanSound, Active, Open, Upcoming, Announcement
<1>4. ASSUME NEW u \in Subscriptions, ListFirst(u) \/ ListNext(u) PROVE AnnouncedInv'
  BY <1>3, <1>4 DEF ListFirst, ListNext, writing, subscribing
<1>5. ASSUME NEW k \in Rotations, RotateSecret(k) PROVE AnnouncedInv'
  BY <1>3, <1>5 DEF RotateSecret, Rotate, RotateCommit, RotateRollback, writing, subscribing
<1>6. CASE Poll \/ StartOver
  BY <1>3, <1>6 DEF Poll, StartOver, writing, subscribing
<1>7. CASE UNCHANGED vars
  BY <1>3, <1>7 DEF vars, writing, subscribing
<1> QED BY <1>1, <1>2, <1>4, <1>5, <1>6, <1>7 DEF Next, Manage

\* A committed event is announced to whoever was active throughout its transaction, and
\* to nobody who was not active during it or did not ask for it.
THEOREM AnnouncedCorrectly == Spec => []AnnouncedToSubscribers
<1>1. TypesInv /\ AnnouncedInv => AnnouncedToSubscribers
  <2> SUFFICES ASSUME TypesInv, AnnouncedInv, NEW e \in events, Committed(e.by)
               PROVE  LET asked == {u \in Subscriptions : e.type \in Wanted[u]}
                          told_of == {d.to : d \in {f \in deliveries : f.event = e.number}}
                      IN  /\ span[e.by].throughout \cap asked \subseteq told_of
                          /\ told_of \subseteq span[e.by].sometime \cap asked
    BY DEF AnnouncedToSubscribers
  <2>1. Announcement(e)
    BY DEF AnnouncedInv, Upcoming, Committed
  <2> DEFINE asked == {u \in Subscriptions : e.type \in Wanted[u]}
             told_of == {d.to : d \in {f \in deliveries : f.event = e.number}}
  <2>2. \A d \in deliveries : d.to \in Subscriptions
    BY RecordTypes
  <2>3. span[e.by].throughout \cap asked \subseteq told_of
    BY <2>1 DEF Announcement
  <2>4. told_of \subseteq span[e.by].sometime \cap asked
    BY <2>1, <2>2 DEF Announcement
  <2> QED BY <2>3, <2>4
<1> QED BY <1>1, TypesInit, TypesNext, ReaderInit, ReaderNext, AnnouncedInit, AnnouncedNext, PTL DEF Spec
=============================================================================
