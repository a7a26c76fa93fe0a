-------------------------- MODULE EditorialProofs --------------------------
(***************************************************************************)
(* Proofs about Editorial, for any number of routes, revisions, sessions   *)
(* and workers, with public readers and with crashes at any point; the     *)
(* version's count and the refinement of Catalog without public readers.   *)
(***************************************************************************)
EXTENDS Editorial, FiniteSetTheorems, TLAPS

LEMMA InitInv == Init => LifecycleInv
  <1> SUFFICES ASSUME Init PROVE LifecycleInv
    OBVIOUS
  <1> USE DEF Init
  <1>1. NoTx \in Local
    BY DEF NoTx, Handling, Local, Control
  <1>2. TypeOK
    BY <1>1, ConstantsAssumption DEF TypeOK, PublicationState, TrustState, EventType
  <1>3. LocksCompatible
    BY DEF LocksCompatible, Compatible, RowsLocked, RoutesLocked, RoutesShared, NoTx, Handling
  <1>4. HandlersJustified
    BY DEF HandlersJustified, Justified, NoTx, Handling
  <1>5. CurrentIsPublished
    BY ConstantsAssumption DEF CurrentIsPublished
  <1> QED
    BY <1>2, <1>3, <1>4, <1>5 DEF LifecycleInv

-----------------------------------------------------------------------------
(* A step of session s that leaves it with the local state t.               *)

LEMMA LocksStep ==
  ASSUME TypeOK, LocksCompatible, NEW s \in Sessions, NEW t \in Local,
         tx' = [tx EXCEPT ![s] = t],
         \A o \in Sessions \ {s} : Compatible(t, tx[o])
  PROVE  LocksCompatible'
  <1>1. \A o \in Sessions : tx'[o] = IF o = s THEN t ELSE tx[o]
    BY DEF TypeOK
  <1>2. \A a, b : Compatible(a, b) <=> Compatible(b, a)
    BY DEF Compatible
  <1> SUFFICES ASSUME NEW a \in Sessions, NEW b \in Sessions, a # b
               PROVE  Compatible(tx'[a], tx'[b])
    BY DEF LocksCompatible, Compatible, RowsLocked, RoutesLocked, RoutesShared
  <1>3. CASE a = s
    BY <1>1, <1>3
  <1>4. CASE b = s
    BY <1>1, <1>2, <1>4
  <1>5. CASE a # s /\ b # s
    BY <1>1, <1>5 DEF LocksCompatible
  <1> QED
    BY <1>3, <1>4, <1>5

LEMMA HandlersStep ==
  ASSUME TypeOK, NEW s \in Sessions, NEW t \in Local,
         tx' = [tx EXCEPT ![s] = t],
         Justified(t)', \A o \in Sessions \ {s} : Justified(tx[o])'
  PROVE  HandlersJustified'
  <1>1. \A o \in Sessions : tx'[o] = IF o = s THEN t ELSE tx[o]
    BY DEF TypeOK
  <1> QED
    BY <1>1 DEF HandlersJustified, Justified

\* Session s moves to local state t, which is justified and locks nothing that
\* another session has locked.
Moves(s, t) ==
  /\ tx' = [tx EXCEPT ![s] = t]
  /\ Justified(t)
  /\ \A o \in Sessions \ {s} : Compatible(t, tx[o])

\* A step that changes no row.
LEMMA QuietStep ==
  ASSUME LifecycleInv, NEW s \in Sessions, \E t \in Local : Moves(s, t),
         UNCHANGED rowVars, owed' \subseteq Revisions, now' \in Nat
  PROVE  LifecycleInv'
  <1> PICK t \in Local : Moves(s, t)
    OBVIOUS
  <1>1. TypeOK'
    BY DEF LifecycleInv, TypeOK, rowVars, Moves
  <1>2. LocksCompatible'
    BY LocksStep DEF LifecycleInv, Moves
  <1>3. HandlersJustified'
    <2>1. \A o \in Sessions : tx'[o] = IF o = s THEN t ELSE tx[o]
      BY DEF LifecycleInv, TypeOK, Moves
    <2>2. \A o \in Sessions : Justified(tx[o])
      BY DEF LifecycleInv, HandlersJustified
    <2> QED
      BY <2>1, <2>2 DEF Justified, HandlersJustified, rowVars, Moves
  <1>4. CurrentIsPublished'
    BY DEF LifecycleInv, CurrentIsPublished, rowVars
  <1> QED
    BY <1>1, <1>2, <1>3, <1>4 DEF LifecycleInv

LEMMA CreateLockInv ==
  ASSUME LifecycleInv, NEW s \in Sessions, NEW r \in Revisions, CreateLock(s, r)
  PROVE  LifecycleInv'
  <1>1. \E t \in Local : Moves(s, t)
    <2>1. PICK n \in Numbers(RouteOf[r]) :
            Begin(s, [Handling("createInsert", r) EXCEPT !.base = n + 1])
      BY DEF CreateLock
    <2> DEFINE t == [Handling("createInsert", r) EXCEPT !.base = n + 1]
    <2>2. n \in Nat
      BY DEF Numbers, LifecycleInv, TypeOK
    <2>3. t \in Local
      BY <2>2 DEF NoTx, Handling, Local, Control
    <2>4. Justified(t)
      BY DEF Justified, CreateLock, NoTx, Handling
    <2>5. \A o \in Sessions \ {s} : Compatible(t, tx[o])
      BY DEF CreateLock, RouteFree, RouteShareable, Compatible, NoTx, Handling,
             RowsLocked, RoutesLocked, RoutesShared
    <2> QED
      BY <2>1, <2>3, <2>4, <2>5 DEF Moves, Begin, NoTx, Handling
  <1> QED
    BY <1>1, QuietStep DEF CreateLock, LifecycleInv, TypeOK

LEMMA PublishFlushInv ==
  ASSUME LifecycleInv, NEW s \in Sessions, PublishFlush(s)
  PROVE  LifecycleInv'
  <1>1. tx[s] \in Local /\ Justified(tx[s])
    BY DEF LifecycleInv, TypeOK, HandlersJustified
  <1>2. \E t \in Local : Moves(s, t)
    <2> DEFINE t == [tx[s] EXCEPT !.pc = "publishCommit"]
    <2>1. t \in Local /\ tx' = [tx EXCEPT ![s] = t]
      BY <1>1 DEF PublishFlush, Goto, Local, Control
    <2>2. Justified(t)
      BY <1>1 DEF Justified, PublishFlush, At, Local
    <2>3. \A o \in Sessions \ {s} : Compatible(t, tx[o])
      <3> SUFFICES ASSUME NEW o \in Sessions \ {s} PROVE Compatible(t, tx[o])
        OBVIOUS
      <3>1. Compatible(tx[s], tx[o])
        BY DEF LifecycleInv, LocksCompatible
      <3> QED
        BY <1>1, <3>1, ConstantsAssumption DEF PublishFlush, At, RowFree, Compatible, Local,
                          RowsLocked, RoutesLocked, RoutesShared
    <2> QED
      BY <2>1, <2>2, <2>3 DEF Moves
  <1>3. UNCHANGED rowVars /\ owed' \subseteq Revisions /\ now' \in Nat
    BY <1>1 DEF PublishFlush, At, Justified, LifecycleInv, TypeOK
  <1> QED
    BY <1>2, <1>3, QuietStep

LEMMA VerifyReadInv ==
  ASSUME LifecycleInv, NEW s \in Sessions, NEW r \in Revisions, NEW p \in Reports, VerifyRead(s, r, p)
  PROVE  LifecycleInv'
  <1>1. \E t \in Local : Moves(s, t)
    <2> DEFINE t == [Handling("verifyInsert", r) EXCEPT !.report = p]
    <2>1. t \in Local /\ tx' = [tx EXCEPT ![s] = t]
      BY DEF VerifyRead, Begin, Handling, Local, Control, LifecycleInv, TypeOK
    <2>2. Justified(t)
      BY DEF Justified, VerifyRead, Handling
    <2>3. \A o \in Sessions \ {s} : Compatible(t, tx[o])
      BY DEF VerifyRead, Handling, Compatible, RowsLocked, RoutesLocked, RoutesShared
    <2> QED
      BY <2>1, <2>2, <2>3 DEF Moves
  <1> QED
    BY <1>1, QuietStep DEF VerifyRead, LifecycleInv, TypeOK

LEMMA WithdrawLockInv ==
  ASSUME LifecycleInv, NEW s \in Sessions, NEW r \in Revisions, WithdrawLock(s, r)
  PROVE  LifecycleInv'
  <1>1. \E t \in Local : Moves(s, t)
    <2> DEFINE t == Handling("withdrawRoute", r)
    <2>1. t \in Local /\ tx' = [tx EXCEPT ![s] = t]
      BY DEF WithdrawLock, Begin, Handling, Local, Control, LifecycleInv, TypeOK
    <2>2. Justified(t)
      BY DEF Justified, WithdrawLock, Handling
    <2>3. \A o \in Sessions \ {s} : Compatible(t, tx[o])
      BY DEF WithdrawLock, RowFree, Handling, Compatible, RowsLocked, RoutesLocked, RoutesShared
    <2> QED
      BY <2>1, <2>2, <2>3 DEF Moves
  <1> QED
    BY <1>1, QuietStep DEF WithdrawLock, LifecycleInv, TypeOK

LEMMA StaleLockInv ==
  ASSUME LifecycleInv, NEW s \in Sessions, NEW r \in Revisions, StaleLock(s, r)
  PROVE  LifecycleInv'
  <1>1. \E t \in Local : Moves(s, t)
    <2> DEFINE t == [Handling("staleEmit", r) EXCEPT !.base = version[r]]
    <2>1. t \in Local /\ tx' = [tx EXCEPT ![s] = t]
      BY DEF StaleLock, Begin, Handling, Local, Control, LifecycleInv, TypeOK
    <2>2. Justified(t)
      BY DEF Justified, StaleLock, Handling
    <2>3. \A o \in Sessions \ {s} : Compatible(t, tx[o])
      BY DEF StaleLock, RowFree, Handling, Compatible, RowsLocked, RoutesLocked, RoutesShared
    <2> QED
      BY <2>1, <2>2, <2>3 DEF Moves
  <1> QED
    BY <1>1, QuietStep DEF StaleLock, LifecycleInv, TypeOK

LEMMA ReadRevisionInv ==
  ASSUME LifecycleInv, NEW s \in Sessions, NEW r \in Revisions, ReadRevision(s, r)
  PROVE  LifecycleInv'
  <1>1. \E t \in Local : Moves(s, t)
    <2> DEFINE t == Handling("present", r)
    <2>1. t \in Local /\ tx' = [tx EXCEPT ![s] = t]
      BY DEF ReadRevision, Begin, Handling, Local, Control, LifecycleInv, TypeOK
    <2>2. Justified(t)
      BY DEF Justified, ReadRevision, Handling
    <2>3. \A o \in Sessions \ {s} : Compatible(t, tx[o])
      BY DEF ReadRevision, Handling, Compatible, RowsLocked, RoutesLocked, RoutesShared
    <2> QED
      BY <2>1, <2>2, <2>3 DEF Moves
  <1> QED
    BY <1>1, QuietStep DEF ReadRevision, LifecycleInv, TypeOK

LEMMA WithdrawRouteInv ==
  ASSUME LifecycleInv, NEW s \in Sessions, WithdrawRoute(s)
  PROVE  LifecycleInv'
  <1>1. tx[s] \in Local /\ Justified(tx[s])
    BY DEF LifecycleInv, TypeOK, HandlersJustified
  <1>2. \E t \in Local : Moves(s, t)
    <2> DEFINE t == [tx[s] EXCEPT !.pc = "withdrawCommit"]
    <2>1. t \in Local /\ tx' = [tx EXCEPT ![s] = t]
      BY <1>1 DEF WithdrawRoute, Goto, Local, Control
    <2>2. Justified(t)
      BY <1>1 DEF Justified, WithdrawRoute, At, Local
    <2>3. ASSUME NEW o \in Sessions \ {s} PROVE Compatible(t, tx[o])
      <3>1. Compatible(tx[s], tx[o])
        BY DEF LifecycleInv, LocksCompatible
      <3> QED
        BY <1>1, <3>1, ConstantsAssumption DEF WithdrawRoute, At, RouteFree, RouteShareable, Compatible, Local,
           RowsLocked, RoutesLocked, RoutesShared
    <2> QED
      BY <2>1, <2>2, <2>3 DEF Moves
  <1> QED
    BY <1>2, QuietStep DEF WithdrawRoute, LifecycleInv, TypeOK

LEMMA StaleEmitInv ==
  ASSUME LifecycleInv, NEW s \in Sessions, StaleEmit(s)
  PROVE  LifecycleInv'
  <1>1. tx[s] \in Local /\ Justified(tx[s])
    BY DEF LifecycleInv, TypeOK, HandlersJustified
  <1>2. \E t \in Local : Moves(s, t)
    <2> DEFINE t == [tx[s] EXCEPT !.pc = "staleCommit"]
    <2>1. t \in Local /\ tx' = [tx EXCEPT ![s] = t]
      BY <1>1 DEF StaleEmit, Goto, Local, Control
    <2>2. Justified(t)
      BY <1>1 DEF Justified, StaleEmit, At, Local
    <2>3. ASSUME NEW o \in Sessions \ {s} PROVE Compatible(t, tx[o])
      <3>1. Compatible(tx[s], tx[o])
        BY DEF LifecycleInv, LocksCompatible
      <3> QED
        BY <1>1, <3>1, ConstantsAssumption DEF StaleEmit, At, RouteShareable, Compatible, Local,
           RowsLocked, RoutesLocked, RoutesShared
    <2> QED
      BY <2>1, <2>2, <2>3 DEF Moves
  <1> QED
    BY <1>2, QuietStep DEF StaleEmit, LifecycleInv, TypeOK

LEMMA FreshenLockInv ==
  ASSUME LifecycleInv, NEW s \in Sessions, FreshenLock(s)
  PROVE  LifecycleInv'
  <1>1. tx[s] \in Local /\ Justified(tx[s])
    BY DEF LifecycleInv, TypeOK, HandlersJustified
  <1>2. \E t \in Local : Moves(s, t)
    <2> DEFINE t == [tx[s] EXCEPT !.pc = "staleEmit"]
    <2>1. t \in Local /\ tx' = [tx EXCEPT ![s] = t]
      BY <1>1 DEF FreshenLock, Goto, Local, Control
    <2>2. Justified(t)
      BY <1>1 DEF Justified, FreshenLock, At, Local
    <2>3. ASSUME NEW o \in Sessions \ {s} PROVE Compatible(t, tx[o])
      <3>1. Compatible(tx[s], tx[o])
        BY DEF LifecycleInv, LocksCompatible
      <3> QED
        BY <1>1, <3>1, ConstantsAssumption DEF FreshenLock, At, RowFree, Compatible, Local,
           RowsLocked, RoutesLocked, RoutesShared
    <2> QED
      BY <2>1, <2>2, <2>3 DEF Moves
  <1> QED
    BY <1>2, QuietStep DEF FreshenLock, LifecycleInv, TypeOK

LEMMA PublishLockInv ==
  ASSUME LifecycleInv, NEW s \in Sessions, NEW r \in Revisions, PublishLock(s, r)
  PROVE  LifecycleInv'
  <1>1. \E t \in Local : Moves(s, t)
    <2>1. PICK d \in ReviewDates(evidence[r]) :
            Begin(s, [Handling("publishRoute", r) EXCEPT !.due = d])
      BY DEF PublishLock
    <2> DEFINE t == [Handling("publishRoute", r) EXCEPT !.due = d]
    <2>2. d \in Nat
      BY ConstantsAssumption DEF ReviewDates, LifecycleInv, TypeOK
    <2>3. t \in Local /\ tx' = [tx EXCEPT ![s] = t]
      BY <2>1, <2>2 DEF Begin, Handling, Local, Control
    <2>4. Justified(t)
      BY DEF Justified, PublishLock, Handling
    <2>5. \A o \in Sessions \ {s} : Compatible(t, tx[o])
      BY DEF PublishLock, RowFree, Handling, Compatible, RowsLocked, RoutesLocked, RoutesShared
    <2> QED
      BY <2>3, <2>4, <2>5 DEF Moves
  <1> QED
    BY <1>1, QuietStep DEF PublishLock, LifecycleInv, TypeOK

LEMMA PublishRouteInv ==
  ASSUME LifecycleInv, NEW s \in Sessions, PublishRoute(s)
  PROVE  LifecycleInv'
  <1>1. tx[s] \in Local /\ Justified(tx[s]) /\ tx[s].pc = "publishRoute"
    BY DEF LifecycleInv, TypeOK, HandlersJustified, PublishRoute, At
  <1>2. \E t \in Local : Moves(s, t)
    <2> DEFINE q == RouteOf[tx[s].rev]
               v == IF current[q] = NoRev THEN 0 ELSE version[current[q]]
               t == [pc |-> "publishFlush", rev |-> tx[s].rev, due |-> tx[s].due,
                     prev |-> current[q], base |-> v,
                     report |-> NoReport, batch |-> {}, marked |-> {}]
    <2>1. q \in Routes /\ current[q] \in Revisions \cup {NoRev} /\ v \in Nat
      BY <1>1, ConstantsAssumption DEF Justified, LifecycleInv, TypeOK
    <2>2. t \in Local
      BY <1>1, <2>1 DEF Local, Control
    <2>3. tx' = [tx EXCEPT ![s] = t]
      BY DEF PublishRoute
    <2>4. Justified(t)
      BY <1>1 DEF Justified
    <2>5. ASSUME NEW o \in Sessions \ {s} PROVE Compatible(t, tx[o])
      <3>1. Compatible(tx[s], tx[o])
        BY DEF LifecycleInv, LocksCompatible
      <3> QED
        BY <1>1, <3>1 DEF PublishRoute, RouteFree, RouteShareable, Compatible,
                          RowsLocked, RoutesLocked, RoutesShared
    <2> HIDE DEF t
    <2> QED
      BY <2>2, <2>3, <2>4, <2>5 DEF Moves
  <1> QED
    BY <1>2, QuietStep DEF PublishRoute, LifecycleInv, TypeOK

LEMMA ReadCurrentInv ==
  ASSUME LifecycleInv, NEW s \in Sessions, NEW q \in Routes, ReadCurrent(s, q)
  PROVE  LifecycleInv'
  <1>1. \E t \in Local : Moves(s, t)
    <2> DEFINE r == current[q]
               c == IF Overdue(r) THEN "freshen" ELSE "present"
               t == [Handling(c, r) EXCEPT !.base = version[r]]
    <2>1. r \in Revisions /\ version[r] \in Nat
      BY DEF ReadCurrent, LifecycleInv, TypeOK
    <2>2. c \in {"freshen", "present"}
      OBVIOUS
    <2>3. tx' = [tx EXCEPT ![s] = t]
      BY DEF ReadCurrent, Begin
    <2> HIDE DEF c, r
    <2>4. t \in Local
      BY <2>1, <2>2 DEF Handling, Local, Control
    <2>5. Justified(t)
      BY <2>1, <2>2 DEF Justified, Handling
    <2>6. \A o \in Sessions \ {s} : Compatible(t, tx[o])
      BY <2>2 DEF Handling, Compatible, RowsLocked, RoutesLocked, RoutesShared
    <2> QED
      BY <2>3, <2>4, <2>5, <2>6 DEF Moves
  <1> QED
    BY <1>1, QuietStep DEF ReadCurrent, LifecycleInv, TypeOK

LEMMA SweepLeaseInv ==
  ASSUME LifecycleInv, NEW s \in Sessions, SweepLease(s)
  PROVE  LifecycleInv'
  <1>1. \E t \in Local : Moves(s, t)
    <2>1. PICK B \in SUBSET Unswept(s) :
            Begin(s, [Handling("sweep", NoRev) EXCEPT !.batch = B])
      BY DEF SweepLease
    <2> DEFINE t == [Handling("sweep", NoRev) EXCEPT !.batch = B]
    <2>2. B \subseteq Revisions /\ \A r \in B : RowFree(s, r)
      BY DEF Unswept
    <2>3. t \in Local /\ tx' = [tx EXCEPT ![s] = t]
      BY <2>1, <2>2 DEF Begin, Handling, Local, Control
    <2>4. Justified(t)
      BY DEF Justified, Handling
    <2>5. \A o \in Sessions \ {s} : Compatible(t, tx[o])
      BY <2>2 DEF RowFree, Handling, Compatible, RowsLocked, RoutesLocked, RoutesShared
    <2> QED
      BY <2>3, <2>4, <2>5 DEF Moves
  <1> QED
    BY <1>1, QuietStep DEF SweepLease, LifecycleInv, TypeOK

LEMMA SweepMarkInv ==
  ASSUME LifecycleInv, NEW s \in Sessions, SweepMark(s)
  PROVE  LifecycleInv'
  <1>1. tx[s] \in Local /\ Justified(tx[s]) /\ tx[s].pc = "sweep"
    BY DEF LifecycleInv, TypeOK, HandlersJustified, SweepMark, At
  <1>2. \E t \in Local : Moves(s, t)
    <2>1. PICK r \in NextSwept(tx[s]) :
            /\ RouteShareable(s, RouteOf[r])
            /\ tx' = [tx EXCEPT ![s].marked = @ \cup {r}]
      BY DEF SweepMark
    <2> DEFINE t == [tx[s] EXCEPT !.marked = @ \cup {r}]
    <2>2. r \in tx[s].batch
      BY DEF NextSwept
    <2>3. t \in Local /\ tx' = [tx EXCEPT ![s] = t]
      BY <1>1, <2>1, <2>2 DEF Local
    <2>4. Justified(t)
      BY <1>1, <2>2 DEF Justified, Local
    <2>5. ASSUME NEW o \in Sessions \ {s} PROVE Compatible(t, tx[o])
      <3>1. Compatible(tx[s], tx[o])
        BY DEF LifecycleInv, LocksCompatible
      <3> QED
        BY <1>1, <2>1, <3>1 DEF RouteShareable, Compatible, Local,
                                RowsLocked, RoutesLocked, RoutesShared
    <2> QED
      BY <2>3, <2>4, <2>5 DEF Moves
  <1> QED
    BY <1>2, QuietStep DEF SweepMark, LifecycleInv, TypeOK

-----------------------------------------------------------------------------
(* A handler that ends, with or without a commit.                           *)

LEMMA EndStep ==
  ASSUME NEW s \in Sessions, End(s)
  PROVE  NoTx \in Local /\ Moves(s, NoTx)
  BY DEF End, Moves, NoTx, Handling, Local, Control, Justified,
         Compatible, RowsLocked, RoutesLocked, RoutesShared

LEMMA RollbackInv ==
  ASSUME LifecycleInv, NEW s \in Sessions, Rollback(s)
  PROVE  LifecycleInv'
  BY EndStep, QuietStep DEF Rollback, LifecycleInv, TypeOK

LEMMA PresentInv ==
  ASSUME LifecycleInv, NEW s \in Sessions, Present(s)
  PROVE  LifecycleInv'
  BY EndStep, QuietStep DEF Present, LifecycleInv, TypeOK

\* A commit keeps the invariant if it keeps the types and the link between route
\* and revision, and takes the ground from no other handler.
LEMMA CommitStep ==
  ASSUME LifecycleInv, NEW s \in Sessions, End(s), TypeOK', CurrentIsPublished',
         \A o \in Sessions \ {s} :
            Justified(tx[o]) /\ Compatible(tx[s], tx[o]) => Justified(tx[o])'
  PROVE  LifecycleInv'
  <1>1. NoTx \in Local /\ Moves(s, NoTx)
    BY EndStep
  <1>2. LocksCompatible'
    BY <1>1, LocksStep DEF LifecycleInv, Moves
  <1>3. Justified(NoTx)'
    BY DEF Justified, NoTx, Handling
  <1>4. \A o \in Sessions \ {s} : Justified(tx[o])'
    BY DEF LifecycleInv, LocksCompatible, HandlersJustified
  <1>5. HandlersJustified'
    BY <1>1, <1>3, <1>4, HandlersStep DEF LifecycleInv, Moves
  <1> QED
    BY <1>2, <1>5 DEF LifecycleInv

LEMMA CreateCommitInv ==
  ASSUME LifecycleInv, NEW s \in Sessions, CreateCommit(s)
  PROVE  LifecycleInv'
  <1>1. tx[s] \in Local /\ Justified(tx[s]) /\ tx[s].pc = "createInsert"
    BY DEF LifecycleInv, TypeOK, HandlersJustified, CreateCommit, At
  <1>2. NoTx \in Local /\ Moves(s, NoTx)
    BY EndStep DEF CreateCommit
  <1>3. TypeOK'
    BY <1>1, <1>2 DEF TypeOK, LifecycleInv, CreateCommit, Moves, Local, Justified, PublicationState
  <1>4. CurrentIsPublished'
    BY <1>1, ConstantsAssumption DEF CreateCommit, CurrentIsPublished, LifecycleInv, TypeOK, Justified, Local
  <1>5. ASSUME NEW o \in Sessions \ {s}, Justified(tx[o]), Compatible(tx[s], tx[o])
        PROVE  Justified(tx[o])'
    <2>1. tx'[o] = tx[o] /\ tx[o] \in Local
      BY <1>2 DEF Moves, LifecycleInv, TypeOK
    <2>2. /\ pub[tx[s].rev] = "absent" /\ pub'[tx[s].rev] = "draft" /\ current' = current
          /\ \A x \in Revisions \ {tx[s].rev} : pub'[x] = pub[x]
      BY <1>1 DEF CreateCommit, Justified, LifecycleInv, TypeOK
    <2>3. tx[o].pc = "createInsert" => tx[o].rev \in Revisions \ {tx[s].rev}
      <3>1. CASE tx[o].pc = "createInsert"
        <4>1. /\ tx[o].rev \in Revisions /\ tx[s].rev \in Revisions
              /\ RouteOf[tx[s].rev] \in Routes
          BY <1>1, <1>5, <3>1, ConstantsAssumption DEF Justified
        <4>2. RouteOf[tx[s].rev] \in RoutesLocked(tx[s])
          BY <1>1, <4>1 DEF RoutesLocked
        <4>3. RouteOf[tx[s].rev] \notin RoutesLocked(tx[o])
          BY <1>5, <4>2 DEF Compatible
        <4> QED BY <3>1, <4>1, <4>3 DEF RoutesLocked
      <3> QED BY <3>1
    <2> QED
      BY <1>5, <2>1, <2>2, <2>3 DEF Justified
  <1> QED
    BY <1>3, <1>4, <1>5, CommitStep DEF CreateCommit

LEMMA VerifyInsertInv ==
  ASSUME LifecycleInv, NEW s \in Sessions, VerifyInsert(s)
  PROVE  LifecycleInv'
  <1>1. tx[s] \in Local /\ Justified(tx[s]) /\ tx[s].pc = "verifyInsert"
    BY DEF LifecycleInv, TypeOK, HandlersJustified, VerifyInsert, At
  <1>2. NoTx \in Local /\ Moves(s, NoTx)
    BY EndStep DEF VerifyInsert
  <1>3. TypeOK'
    BY <1>1, <1>2 DEF TypeOK, LifecycleInv, VerifyInsert, Moves, Local, Justified
  <1>4. CurrentIsPublished'
    BY <1>1, ConstantsAssumption DEF VerifyInsert, CurrentIsPublished, LifecycleInv, TypeOK, Justified, Local
  <1>5. ASSUME NEW o \in Sessions \ {s}, Justified(tx[o]), Compatible(tx[s], tx[o])
        PROVE  Justified(tx[o])'
    <2>1. tx'[o] = tx[o] /\ tx[o] \in Local
      BY <1>2 DEF Moves, LifecycleInv, TypeOK
    <2> QED
      BY <1>1, <1>5, <2>1, ConstantsAssumption
      DEF VerifyInsert, Justified, Compatible, RowsLocked, RoutesLocked, RoutesShared, Local,
          LifecycleInv, TypeOK
  <1> QED
    BY <1>3, <1>4, <1>5, CommitStep DEF VerifyInsert

LEMMA WithdrawCommitInv ==
  ASSUME LifecycleInv, NEW s \in Sessions, WithdrawCommit(s)
  PROVE  LifecycleInv'
  <1>1. tx[s] \in Local /\ Justified(tx[s]) /\ tx[s].pc = "withdrawCommit"
    BY DEF LifecycleInv, TypeOK, HandlersJustified, WithdrawCommit, At
  <1>2. NoTx \in Local /\ Moves(s, NoTx)
    BY EndStep DEF WithdrawCommit
  <1> DEFINE r == tx[s].rev
             q == RouteOf[r]
  <1>a. /\ r \in Revisions /\ q \in Routes
        /\ pub[r] = "published" /\ current[q] = r
    BY <1>1, ConstantsAssumption DEF Justified, LifecycleInv, CurrentIsPublished
  <1>b. /\ pub' = [pub EXCEPT ![r] = "withdrawn"]
        /\ current' = [current EXCEPT ![q] = NoRev]
        /\ version' = [version EXCEPT ![r] = @ + 1]
        /\ emitted' = Emit(emitted, r, "withdrawn")
        /\ UNCHANGED <<trust, number, due, evidence, owed, now>>
    BY <1>a DEF WithdrawCommit, LifecycleInv, TypeOK
  <1> HIDE DEF r, q
  <1>c. emitted' \in [Revisions -> [EventType -> Nat]]
    <2>1. emitted \in [Revisions -> [EventType -> Nat]] /\ "withdrawn" \in EventType
      BY DEF LifecycleInv, TypeOK, EventType
    <2> QED
      BY <1>a, <1>b, <2>1 DEF Emit
  <1>3. TypeOK'
    <2>1. tx' \in [Sessions -> Local]
      BY <1>2 DEF Moves, LifecycleInv, TypeOK
    <2> QED
      BY <1>a, <1>b, <1>c, <2>1 DEF LifecycleInv, TypeOK, PublicationState
  <1>4. CurrentIsPublished'
    BY <1>a, <1>b, ConstantsAssumption DEF CurrentIsPublished, LifecycleInv, TypeOK, q
  <1>5. ASSUME NEW o \in Sessions \ {s}, Justified(tx[o]), Compatible(tx[s], tx[o])
        PROVE  Justified(tx[o])'
    <2>1. tx'[o] = tx[o] /\ tx[o] \in Local
      BY <1>2 DEF Moves, LifecycleInv, TypeOK
    <2> QED
      BY <1>1, <1>5, <2>1, ConstantsAssumption
      DEF WithdrawCommit, Justified, Compatible, RowsLocked, RoutesLocked, RoutesShared, Local,
          LifecycleInv, TypeOK
  <1> QED
    BY <1>3, <1>4, <1>5, CommitStep DEF WithdrawCommit

LEMMA StaleCommitInv ==
  ASSUME LifecycleInv, NEW s \in Sessions, StaleCommit(s)
  PROVE  LifecycleInv'
  <1>1. tx[s] \in Local /\ Justified(tx[s]) /\ tx[s].pc = "staleCommit"
    BY DEF LifecycleInv, TypeOK, HandlersJustified, StaleCommit, At
  <1>2. NoTx \in Local /\ Moves(s, NoTx)
    BY EndStep DEF StaleCommit
  <1>3. TypeOK'
    BY <1>1, <1>2 DEF TypeOK, LifecycleInv, StaleCommit, Moves, Local, Justified, TrustState, Emit, EventType
  <1>4. CurrentIsPublished'
    BY <1>1, ConstantsAssumption DEF StaleCommit, CurrentIsPublished, LifecycleInv, TypeOK, Justified, Local
  <1>5. ASSUME NEW o \in Sessions \ {s}, Justified(tx[o]), Compatible(tx[s], tx[o])
        PROVE  Justified(tx[o])'
    <2>1. tx'[o] = tx[o] /\ tx[o] \in Local
      BY <1>2 DEF Moves, LifecycleInv, TypeOK
    <2> QED
      BY <1>1, <1>5, <2>1, ConstantsAssumption
      DEF StaleCommit, Justified, Compatible, RowsLocked, RoutesLocked, RoutesShared, Local,
          LifecycleInv, TypeOK
  <1> QED
    BY <1>3, <1>4, <1>5, CommitStep DEF StaleCommit

LEMMA SweepCommitInv ==
  ASSUME LifecycleInv, NEW s \in Sessions, SweepCommit(s)
  PROVE  LifecycleInv'
  <1>1. tx[s] \in Local /\ Justified(tx[s]) /\ tx[s].pc = "sweep"
    BY DEF LifecycleInv, TypeOK, HandlersJustified, SweepCommit, At
  <1>2. NoTx \in Local /\ Moves(s, NoTx)
    BY EndStep DEF SweepCommit
  <1>3. TypeOK'
    BY <1>1, <1>2 DEF TypeOK, LifecycleInv, SweepCommit, Moves, Local, Justified, TrustState, EventType
  <1>4. CurrentIsPublished'
    BY <1>1, ConstantsAssumption DEF SweepCommit, CurrentIsPublished, LifecycleInv, TypeOK, Justified, Local
  <1>5. ASSUME NEW o \in Sessions \ {s}, Justified(tx[o]), Compatible(tx[s], tx[o])
        PROVE  Justified(tx[o])'
    <2>1. tx'[o] = tx[o] /\ tx[o] \in Local
      BY <1>2 DEF Moves, LifecycleInv, TypeOK
    <2> QED
      BY <1>1, <1>5, <2>1, ConstantsAssumption
      DEF SweepCommit, Justified, Compatible, RowsLocked, RoutesLocked, RoutesShared, Local,
          LifecycleInv, TypeOK
  <1> QED
    BY <1>3, <1>4, <1>5, CommitStep DEF SweepCommit

LEMMA PublishCommitInv ==
  ASSUME LifecycleInv, NEW s \in Sessions, PublishCommit(s)
  PROVE  LifecycleInv'
  <1> DEFINE r == tx[s].rev
             p == tx[s].prev
             q == RouteOf[r]
  <1>1. tx[s] \in Local /\ Justified(tx[s]) /\ tx[s].pc = "publishCommit"
    BY DEF LifecycleInv, TypeOK, HandlersJustified, PublishCommit, At
  <1>2. NoTx \in Local /\ Moves(s, NoTx)
    BY EndStep DEF PublishCommit
  <1>a. /\ r \in Revisions /\ q \in Routes /\ pub[r] = "draft"
        /\ p \in Revisions \cup {NoRev} /\ p = current[q]
        /\ tx[s].base \in Nat /\ tx[s].due \in Nat
    BY <1>1, ConstantsAssumption DEF Justified, Local
  <1>b. p # NoRev => p # r /\ RouteOf[p] = q /\ pub[p] = "published"
    BY <1>a DEF LifecycleInv, CurrentIsPublished
  <1>c. /\ pub' = [Supersede(pub, p, "superseded") EXCEPT ![r] = "published"]
        /\ trust' = [trust EXCEPT ![r] = "verified"]
        /\ version' = [Supersede(version, p, tx[s].base + 1) EXCEPT ![r] = @ + 1]
        /\ due' = [due EXCEPT ![r] = tx[s].due]
        /\ current' = [current EXCEPT ![q] = r]
        /\ emitted' = Emit(IF p = NoRev THEN emitted ELSE Emit(emitted, p, "superseded"),
                           r, "published")
        /\ owed' = owed \ {r}
        /\ UNCHANGED <<number, evidence, now>>
    BY DEF PublishCommit
  <1>d. TypeOK'
    <2>1. \A f \in [Revisions -> [EventType -> Nat]], x \in Revisions, e \in EventType :
             Emit(f, x, e) \in [Revisions -> [EventType -> Nat]]
      BY DEF Emit, EventType
    <2>2. emitted' \in [Revisions -> [EventType -> Nat]]
      BY <1>a, <1>c, <2>1 DEF LifecycleInv, TypeOK, EventType
    <2>3. pub' \in [Revisions -> PublicationState] /\ version' \in [Revisions -> Nat]
      <3>1. pub \in [Revisions -> PublicationState] /\ version \in [Revisions -> Nat]
        BY DEF LifecycleInv, TypeOK
      <3> DEFINE b == tx[s].base + 1
      <3>2. /\ Supersede(pub, p, "superseded") \in [Revisions -> PublicationState]
            /\ Supersede(version, p, b) \in [Revisions -> Nat]
        BY <1>a, <3>1 DEF Supersede, PublicationState
      <3>3. /\ pub' = [Supersede(pub, p, "superseded") EXCEPT ![r] = "published"]
            /\ version' = [Supersede(version, p, b) EXCEPT ![r] = @ + 1]
        BY <1>c
      <3> DEFINE v == Supersede(version, p, b)
                 w == Supersede(pub, p, "superseded")
      <3> HIDE DEF v, w, r, p, q
      <3>4. v \in [Revisions -> Nat] /\ version' = [v EXCEPT ![r] = @ + 1]
        BY <3>2, <3>3 DEF v
      <3>5. w \in [Revisions -> PublicationState] /\ pub' = [w EXCEPT ![r] = "published"]
        BY <3>2, <3>3 DEF w
      <3>6. version' \in [Revisions -> Nat]
        <4>1. \A x \in Revisions : v[x] \in Nat /\ v[x] + 1 \in Nat
          BY <3>4
        <4>2. version' = [x \in Revisions |-> IF x = r THEN v[x] + 1 ELSE v[x]]
          BY <3>4
        <4> QED BY <4>1, <4>2
      <3>7. pub' \in [Revisions -> PublicationState]
        BY <3>5 DEF PublicationState
      <3> QED BY <3>6, <3>7
    <2>4. tx' \in [Sessions -> Local]
      BY <1>2 DEF Moves, LifecycleInv, TypeOK
    <2> HIDE DEF r, p, q
    <2>5. trust' \in [Revisions -> TrustState] /\ due' \in [Revisions -> Nat]
      BY <1>a, <1>c DEF LifecycleInv, TypeOK, TrustState
    <2>6. current' \in [Routes -> Revisions \cup {NoRev}]
      BY <1>a, <1>c DEF LifecycleInv, TypeOK
    <2> QED
      BY <1>c, <2>2, <2>3, <2>4, <2>5, <2>6 DEF LifecycleInv, TypeOK
  <1>e. \A x \in Revisions : pub'[x] = IF x = r THEN "published"
                                     ELSE IF x = p THEN "superseded" ELSE pub[x]
    <2>1. pub \in [Revisions -> PublicationState]
      BY DEF LifecycleInv, TypeOK
    <2>2. /\ r \in Revisions /\ p \in Revisions \cup {NoRev} /\ NoRev \notin Revisions
          /\ pub' = [Supersede(pub, p, "superseded") EXCEPT ![r] = "published"]
      BY <1>a, <1>c, ConstantsAssumption
    <2> HIDE DEF r, p, q
    <2>3. CASE p = NoRev
      <3>1. pub' = [pub EXCEPT ![r] = "published"]
        BY <2>2, <2>3 DEF Supersede
      <3> QED BY <2>1, <2>2, <2>3, <3>1
    <2>4. CASE p # NoRev
      <3>1. pub' = [[pub EXCEPT ![p] = "superseded"] EXCEPT ![r] = "published"]
        BY <2>2, <2>4 DEF Supersede
      <3> QED BY <2>1, <2>2, <2>4, <3>1
    <2> QED BY <2>3, <2>4
  <1>f. \A y \in Routes : current'[y] = IF y = q THEN r ELSE current[y]
    BY <1>a, <1>c DEF LifecycleInv, TypeOK
  <1> HIDE DEF p
  <1>g. CurrentIsPublished'
    <2>1. ASSUME NEW x \in Revisions
          PROVE  pub'[x] = "published" <=> current'[RouteOf[x]] = x
      <3>1. RouteOf[x] \in Routes
        BY ConstantsAssumption
      <3>2. pub[x] = "published" <=> current[RouteOf[x]] = x
        BY DEF LifecycleInv, CurrentIsPublished
      <3>3. CASE x = r
        BY <1>a, <1>e, <1>f, <3>1, <3>3
      <3>4. CASE x # r /\ x = p
        BY <1>a, <1>b, <1>e, <1>f, <3>4, ConstantsAssumption
      <3>5. CASE x # r /\ x # p
        BY <1>a, <1>e, <1>f, <3>1, <3>2, <3>5
      <3> QED
        BY <3>3, <3>4, <3>5
    <2>2. ASSUME NEW y \in Routes, current'[y] # NoRev
          PROVE  RouteOf[current'[y]] = y
      BY <1>a, <1>f, <2>2 DEF LifecycleInv, CurrentIsPublished
    <2> QED
      BY <2>1, <2>2 DEF CurrentIsPublished
  <1>h. ASSUME NEW o \in Sessions \ {s}, Justified(tx[o]), Compatible(tx[s], tx[o])
        PROVE  Justified(tx[o])'
    <2>1. tx'[o] = tx[o] /\ tx[o] \in Local
      BY <1>2 DEF Moves, LifecycleInv, TypeOK
    <2> DEFINE u == tx[o]
    <2>2. u.pc \notin {"idle", "sweep"} => u.rev \in Revisions /\ RouteOf[u.rev] \in Routes
      BY <1>h, ConstantsAssumption DEF Justified
    <2>3. u.pc \in {"publishRoute", "publishFlush", "publishCommit", "withdrawRoute",
                    "withdrawCommit"} => u.rev # r /\ u.rev # p
      BY <1>1, <1>a, <1>h, <2>2, ConstantsAssumption DEF Compatible, RowsLocked, p
    <2>4. u.pc \in {"createInsert", "publishFlush", "publishCommit"} => RouteOf[u.rev] # q
      BY <1>1, <1>a, <1>h, <2>2 DEF Compatible, RoutesLocked
    <2>5. u.pc = "createInsert" => u.rev # r /\ u.rev # p
      BY <1>b, <2>2, <2>4, ConstantsAssumption
    <2> HIDE DEF r, q
    <2> QED
      BY <1>h, <1>e, <1>f, <2>1, <2>2, <2>3, <2>4, <2>5 DEF Justified
  <1> QED
    BY <1>d, <1>g, <1>h, CommitStep DEF PublishCommit

-----------------------------------------------------------------------------
LEMMA NextInv == LifecycleInv /\ [Next]_vars => LifecycleInv'
  <1> SUFFICES ASSUME LifecycleInv, [Next]_vars PROVE LifecycleInv'
    OBVIOUS
  <1>0. Editors \subseteq Sessions /\ Readers \subseteq Sessions /\ Workers \subseteq Sessions
    BY DEF Sessions
  <1>1. CASE Create
    BY <1>0, <1>1, CreateLockInv, CreateCommitInv DEF Create
  <1>2. CASE Verify
    BY <1>0, <1>2, VerifyReadInv, VerifyInsertInv DEF Verify
  <1>3. CASE Publish
    BY <1>0, <1>3, PublishLockInv, PublishRouteInv, PublishFlushInv, PublishCommitInv DEF Publish
  <1>4. CASE Withdraw
    BY <1>0, <1>4, WithdrawLockInv, WithdrawRouteInv, WithdrawCommitInv DEF Withdraw
  <1>5. CASE MarkStale
    BY <1>0, <1>5, StaleLockInv, StaleEmitInv, StaleCommitInv DEF MarkStale
  <1>6. CASE Read
    BY <1>0, <1>6, ReadCurrentInv, ReadRevisionInv, FreshenLockInv, StaleEmitInv,
       StaleCommitInv, PresentInv DEF Read
  <1>7. CASE Sweep
    BY <1>0, <1>7, SweepLeaseInv, SweepMarkInv, SweepCommitInv DEF Sweep
  <1>8. CASE Abort
    BY <1>8, RollbackInv DEF Abort, Crash, DeadlockAbort
  <1>9. CASE Tick
    BY <1>9 DEF Tick, rowVars, LifecycleInv, TypeOK, LocksCompatible, Compatible, RowsLocked,
                RoutesLocked, RoutesShared, HandlersJustified, Justified, CurrentIsPublished
  <1>10. CASE UNCHANGED vars
    BY <1>10 DEF vars, LifecycleInv, TypeOK, LocksCompatible, Compatible, RowsLocked,
                 RoutesLocked, RoutesShared, HandlersJustified, Justified, CurrentIsPublished
  <1> QED
    BY <1>1, <1>2, <1>3, <1>4, <1>5, <1>6, <1>7, <1>8, <1>9, <1>10 DEF Next

\* In every state the row locks are compatible, what each handler has decided on still
\* holds, and a route points at its published revision.
THEOREM LifecycleInvariant == Spec => []LifecycleInv
  BY InitInv, NextInv, PTL DEF Spec

\* Every column and every session keeps its type.
THEOREM TypeCorrect == Spec => []TypeOK
  BY LifecycleInvariant, PTL DEF LifecycleInv

\* Whatever interleaves, crashes or deadlocks, a route points at its one published
\* revision.
THEOREM OnePublishedRevision == Spec => []CurrentIsPublished
  BY LifecycleInvariant, PTL DEF LifecycleInv
-----------------------------------------------------------------------------
(* Who can be in a deadlock.  Locks are taken revision first and route     *)
(* second; the publication that goes on to the previous revision of the    *)
(* route is the only one to go back.                                       *)

\* Everyone in C waits for one of C and is waited for by one of C, which is what
\* Deadlocked asks of a set of sessions.
Circle(C) == \A a \in C : (\E b \in C : WaitsFor(a, b)) /\ (\E b \in C : WaitsFor(b, a))

\* Only these handlers ask for a lock while they may hold one.
LEMMA Waiters ==
  ASSUME NEW a, NEW b, WaitsFor(a, b)
  PROVE  tx[a].pc \in {"publishFlush", "freshen", "publishRoute", "withdrawRoute",
                       "staleEmit", "sweep"}
  BY DEF WaitsFor

\* A reader on its way to a row holds nothing yet.
LEMMA NobodyWaitsForFreshen ==
  ASSUME NEW a, NEW b, WaitsFor(a, b)
  PROVE  tx[b].pc # "freshen"
  BY DEF WaitsFor, RowsLocked, RoutesLocked, RoutesShared

\* A publisher on its way to the route holds its draft alone, which is nobody's
\* previous revision: that one is published.
LEMMA DraftsAreWaitedForByReaders ==
  ASSUME LifecycleInv, NEW a \in Sessions, NEW b \in Sessions, WaitsFor(a, b),
         tx[b].pc = "publishRoute"
  PROVE  tx[a].pc = "freshen"
  <1>1. Justified(tx[a]) /\ Justified(tx[b])
    BY DEF LifecycleInv, HandlersJustified
  <1>2. RoutesLocked(tx[b]) = {} /\ RoutesShared(tx[b]) = {} /\ RowsLocked(tx[b]) \subseteq {tx[b].rev}
    BY DEF RowsLocked, RoutesLocked, RoutesShared
  <1>3. tx[b].rev \in Revisions /\ pub[tx[b].rev] = "draft"
    BY <1>1 DEF Justified
  <1>4. ASSUME tx[a].pc = "publishFlush", tx[a].prev \in RowsLocked(tx[b])
        PROVE  FALSE
    <2>1. tx[a].prev = tx[b].rev /\ tx[a].rev \in Revisions
      BY <1>1, <1>2, <1>4 DEF Justified
    <2>2. current[RouteOf[tx[a].rev]] = tx[b].rev /\ RouteOf[tx[a].rev] \in Routes
      BY <1>1, <1>4, <2>1, ConstantsAssumption DEF Justified
    <2>3. RouteOf[tx[b].rev] = RouteOf[tx[a].rev]
      BY <1>3, <2>2, ConstantsAssumption DEF LifecycleInv, CurrentIsPublished
    <2> QED
      BY <1>3, <2>2, <2>3 DEF LifecycleInv, CurrentIsPublished
  <1> QED
    BY <1>2, <1>4 DEF WaitsFor

\* A change event, of a request or of a pass, waits for the FOR UPDATE of a route.
LEMMA EmittersWaitFor ==
  ASSUME NEW a, NEW b, WaitsFor(a, b), tx[a].pc \in {"staleEmit", "sweep"}
  PROVE  tx[b].pc \in {"createInsert", "publishFlush", "publishCommit", "withdrawCommit"}
  BY DEF WaitsFor, RoutesLocked

\* A withdrawal waits for that, or for the KEY SHARE of a change event.
LEMMA WithdrawersWaitFor ==
  ASSUME NEW a, NEW b, WaitsFor(a, b), tx[a].pc = "withdrawRoute"
  PROVE  tx[b].pc \in {"createInsert", "publishFlush", "publishCommit", "withdrawCommit",
                       "staleCommit", "sweep"}
  BY DEF WaitsFor, RoutesLocked, RoutesShared

\* Every circle of waits goes through a publication that holds its route and
\* wants the previous revision; the others in it are withdrawals, change events
\* and passes.  Creations, reports and publications that wait for their route are
\* never a part of one, and neither are the readers before they hold a revision:
\* without publish_revision's last UPDATE the admin API could not deadlock.
THEOREM DeadlocksArePublications ==
  Spec => [](\A C \in SUBSET Sessions : C # {} /\ Circle(C) =>
               /\ \A a \in C : tx[a].pc \in {"publishFlush", "withdrawRoute", "staleEmit", "sweep"}
               /\ \E a \in C : tx[a].pc = "publishFlush")
<1> DEFINE Cause(C) == /\ \A a \in C : tx[a].pc \in {"publishFlush", "withdrawRoute",
                                                     "staleEmit", "sweep"}
                       /\ \E a \in C : tx[a].pc = "publishFlush"
<1>1. ASSUME LifecycleInv, NEW C \in SUBSET Sessions, C # {}, Circle(C)
      PROVE  Cause(C)
  <2>1. ASSUME NEW a \in C
        PROVE  tx[a].pc \in {"publishFlush", "withdrawRoute", "staleEmit", "sweep"}
    <3>1. PICK b \in C : WaitsFor(b, a)
      BY <1>1 DEF Circle
    <3>2. PICK c \in C : WaitsFor(c, b)
      BY <1>1 DEF Circle
    <3>3. PICK d \in C : WaitsFor(a, d)
      BY <1>1 DEF Circle
    <3>4. tx[a].pc # "freshen" /\ tx[b].pc # "freshen"
      BY <3>1, <3>2, NobodyWaitsForFreshen
    <3>5. tx[a].pc # "publishRoute"
      BY <1>1, <3>1, <3>4, DraftsAreWaitedForByReaders
    <3> QED
      BY <3>3, <3>4, <3>5, Waiters
  <2>2. ASSUME \A a \in C : tx[a].pc # "publishFlush"
        PROVE  FALSE
    <3>1. ASSUME NEW a \in C, tx[a].pc \in {"staleEmit", "sweep"}
          PROVE  FALSE
      <4>1. PICK b \in C : WaitsFor(a, b)
        BY <1>1 DEF Circle
      <4> QED
        BY <2>1, <2>2, <3>1, <4>1, EmittersWaitFor
    <3>2. ASSUME NEW a \in C, tx[a].pc = "withdrawRoute"
          PROVE  FALSE
      <4>1. PICK b \in C : WaitsFor(a, b)
        BY <1>1 DEF Circle
      <4> QED
        BY <2>1, <2>2, <3>1, <3>2, <4>1, WithdrawersWaitFor
    <3> QED
      BY <1>1, <2>1, <2>2, <3>1, <3>2
  <2> QED
    BY <2>1, <2>2
<1>2. LifecycleInv => \A C \in SUBSET Sessions : C # {} /\ Circle(C) => Cause(C)
  BY <1>1
<1> QED
  BY <1>2, LifecycleInvariant, PTL

-----------------------------------------------------------------------------
(* What was published has its evidence.                                     *)

Publishing == {"publishRoute", "publishFlush", "publishCommit"}
InReview == {"absent", "draft"}

\* A publisher's decision stands, because evidence is only added.
EvidenceInv ==
    /\ \A r \in Revisions : IsFiniteSet(evidence[r])
    /\ \A s \in Sessions : tx[s].pc \in Publishing => Sufficient(evidence[tx[s].rev])
    /\ \A r \in Revisions : pub[r] \notin InReview => Sufficient(evidence[r])

LEMMA SufficientGrows ==
  ASSUME NEW S, NEW T, S \subseteq T, Sufficient(S)
  PROVE  Sufficient(T)
  BY DEF Sufficient, Passed

\* What a step does to the evidence, to the sessions that publish and to the
\* revisions that are out of review.
EvidenceStep ==
    /\ \A r \in Revisions : \/ evidence'[r] = evidence[r]
                            \/ \E p \in Reports : evidence'[r] = evidence[r] \cup {p}
    /\ \A s \in Sessions : tx'[s].pc \in Publishing =>
         \/ tx[s].pc \in Publishing /\ tx'[s].rev = tx[s].rev
         \/ tx'[s].rev \in Revisions /\ Sufficient(evidence[tx'[s].rev])
    /\ \A r \in Revisions : pub'[r] \notin InReview =>
         \/ pub[r] \notin InReview
         \/ \E s \in Sessions : tx[s].pc \in Publishing /\ tx[s].rev = r

\* A session that begins, or goes on with, something else than a publication.
LEMMA OtherHandlers ==
  ASSUME LifecycleInv, NEW s \in Sessions, NEW t,
         tx' = [tx EXCEPT ![s] = t], t.pc \notin Publishing
  PROVE  \A o \in Sessions : tx'[o].pc \in Publishing =>
            tx[o].pc \in Publishing /\ tx'[o].rev = tx[o].rev
  BY DEF LifecycleInv, TypeOK

LEMMA CreateEvidence ==
  ASSUME LifecycleInv, NEW s \in Sessions,
         (\E r \in Revisions : CreateLock(s, r)) \/ CreateCommit(s)
  PROVE  EvidenceStep
<1>1. CASE \E r \in Revisions : CreateLock(s, r)
  BY <1>1, OtherHandlers DEF CreateLock, Begin, Handling, rowVars, EvidenceStep, Publishing
<1>2. CASE CreateCommit(s)
  <2>1. tx[s].rev \in Revisions
    BY <1>2 DEF CreateCommit, At, LifecycleInv, HandlersJustified, Justified
  <2>2. \A o \in Sessions : tx'[o].pc \in Publishing =>
            tx[o].pc \in Publishing /\ tx'[o].rev = tx[o].rev
    BY <1>2, OtherHandlers DEF CreateCommit, End, NoTx, Handling, Publishing
  <2>3. \A x \in Revisions : pub'[x] \notin InReview => pub[x] \notin InReview
    BY <1>2, <2>1 DEF CreateCommit, LifecycleInv, TypeOK, InReview
  <2> QED BY <1>2, <2>2, <2>3 DEF CreateCommit, EvidenceStep
<1> QED BY <1>1, <1>2

LEMMA VerifyEvidence ==
  ASSUME LifecycleInv, NEW s \in Sessions,
         (\E r \in Revisions, p \in Reports : VerifyRead(s, r, p)) \/ VerifyInsert(s)
  PROVE  EvidenceStep
<1>1. CASE \E r \in Revisions, p \in Reports : VerifyRead(s, r, p)
  BY <1>1, OtherHandlers DEF VerifyRead, Begin, Handling, rowVars, EvidenceStep, Publishing
<1>2. CASE VerifyInsert(s)
  <2>1. tx[s].rev \in Revisions /\ tx[s].report \in Reports
    BY <1>2 DEF VerifyInsert, At, LifecycleInv, HandlersJustified, Justified
  <2>2. \A o \in Sessions : tx'[o].pc \in Publishing =>
            tx[o].pc \in Publishing /\ tx'[o].rev = tx[o].rev
    BY <1>2, OtherHandlers DEF VerifyInsert, End, NoTx, Handling, Publishing
  <2>3. \A x \in Revisions :
          evidence'[x] = IF x = tx[s].rev THEN evidence[x] \cup {tx[s].report} ELSE evidence[x]
    BY <1>2, <2>1 DEF VerifyInsert, LifecycleInv, TypeOK
  <2> QED BY <1>2, <2>1, <2>2, <2>3 DEF VerifyInsert, EvidenceStep
<1> QED BY <1>1, <1>2

LEMMA PublishEvidence ==
  ASSUME LifecycleInv, NEW s \in Sessions,
         \/ \E r \in Revisions : PublishLock(s, r)
         \/ PublishRoute(s) \/ PublishFlush(s) \/ PublishCommit(s)
  PROVE  EvidenceStep
<1>0. tx \in [Sessions -> Local]
  BY DEF LifecycleInv, TypeOK
<1>1. CASE \E r \in Revisions : PublishLock(s, r)
  <2>1. PICK r \in Revisions : PublishLock(s, r)
    BY <1>1
  <2>2. PICK d : tx' = [tx EXCEPT ![s] = [Handling("publishRoute", r) EXCEPT !.due = d]]
    BY <2>1 DEF PublishLock, Begin
  <2>3. tx'[s].rev = r /\ Sufficient(evidence[r])
    BY <1>0, <2>1, <2>2 DEF PublishLock, Handling
  <2>4. \A o \in Sessions \ {s} : tx'[o] = tx[o]
    BY <1>0, <2>2
  <2>5. evidence' = evidence /\ pub' = pub
    BY <2>1 DEF PublishLock, rowVars
  <2> QED BY <2>3, <2>4, <2>5 DEF EvidenceStep
<1>2. CASE PublishRoute(s)
  <2>1. \A o \in Sessions \ {s} : tx'[o] = tx[o]
    BY <1>0, <1>2 DEF PublishRoute
  <2>2. tx[s].pc \in Publishing /\ tx'[s].rev = tx[s].rev
    BY <1>0, <1>2 DEF PublishRoute, At, Publishing
  <2> QED BY <1>2, <2>1, <2>2 DEF PublishRoute, rowVars, EvidenceStep
<1>3. CASE PublishFlush(s)
  <2>1. \A o \in Sessions \ {s} : tx'[o] = tx[o]
    BY <1>0, <1>3 DEF PublishFlush, Goto
  <2>2. tx[s].pc \in Publishing /\ tx'[s].rev = tx[s].rev
    BY <1>0, <1>3 DEF PublishFlush, Goto, At, Publishing, Local
  <2> QED BY <1>3, <2>1, <2>2 DEF PublishFlush, rowVars, EvidenceStep
<1>4. CASE PublishCommit(s)
  <2> DEFINE r == tx[s].rev
             p == tx[s].prev
  <2>1. r \in Revisions /\ p = current[RouteOf[r]] /\ tx[s].pc \in Publishing
    BY <1>4 DEF PublishCommit, At, LifecycleInv, HandlersJustified, Justified, Publishing
  <2>2. p # NoRev => p \in Revisions /\ pub[p] = "published"
    BY <2>1, ConstantsAssumption DEF LifecycleInv, TypeOK, CurrentIsPublished
  <2>3. \A x \in Revisions \ {r} : pub'[x] = pub[x] \/ (x = p /\ p # NoRev)
    BY <1>4, <2>1 DEF PublishCommit, Supersede, LifecycleInv, TypeOK
  <2>4. \A o \in Sessions : tx'[o].pc \in Publishing =>
            tx[o].pc \in Publishing /\ tx'[o].rev = tx[o].rev
    BY <1>4, OtherHandlers DEF PublishCommit, End, NoTx, Handling, Publishing
  <2>5. ASSUME NEW x \in Revisions, pub'[x] \notin InReview
        PROVE  \/ pub[x] \notin InReview
               \/ \E o \in Sessions : tx[o].pc \in Publishing /\ tx[o].rev = x
    BY <2>1, <2>2, <2>3, <2>5 DEF InReview
  <2>6. evidence' = evidence
    BY <1>4 DEF PublishCommit
  <2> QED BY <2>4, <2>5, <2>6 DEF EvidenceStep
<1> QED BY <1>1, <1>2, <1>3, <1>4

LEMMA WithdrawEvidence ==
  ASSUME LifecycleInv, NEW s \in Sessions,
         \/ \E r \in Revisions : WithdrawLock(s, r)
         \/ WithdrawRoute(s) \/ WithdrawCommit(s)
  PROVE  EvidenceStep
<1>1. CASE \E r \in Revisions : WithdrawLock(s, r)
  BY <1>1, OtherHandlers DEF WithdrawLock, Begin, Handling, rowVars, EvidenceStep, Publishing
<1>2. CASE WithdrawRoute(s)
  <2>1. tx' = [tx EXCEPT ![s] = [tx[s] EXCEPT !.pc = "withdrawCommit"]]
    BY <1>2 DEF WithdrawRoute, Goto
  <2>2. [tx[s] EXCEPT !.pc = "withdrawCommit"].pc \notin Publishing
    BY DEF LifecycleInv, TypeOK, Local, Publishing
  <2> QED BY <1>2, <2>1, <2>2, OtherHandlers DEF WithdrawRoute, rowVars, EvidenceStep
<1>3. CASE WithdrawCommit(s)
  <2>1. tx[s].rev \in Revisions /\ pub[tx[s].rev] = "published"
    BY <1>3 DEF WithdrawCommit, At, LifecycleInv, HandlersJustified, Justified
  <2>2. \A o \in Sessions : tx'[o].pc \in Publishing =>
            tx[o].pc \in Publishing /\ tx'[o].rev = tx[o].rev
    BY <1>3, OtherHandlers DEF WithdrawCommit, End, NoTx, Handling, Publishing
  <2>3. \A x \in Revisions : pub'[x] \notin InReview => pub[x] \notin InReview
    BY <1>3, <2>1 DEF WithdrawCommit, LifecycleInv, TypeOK, InReview
  <2> QED BY <1>3, <2>2, <2>3 DEF WithdrawCommit, EvidenceStep
<1> QED BY <1>1, <1>2, <1>3

LEMMA StaleEvidence ==
  ASSUME LifecycleInv, NEW s \in Sessions,
         \/ \E r \in Revisions : StaleLock(s, r)
         \/ StaleEmit(s) \/ StaleCommit(s) \/ FreshenLock(s)
  PROVE  EvidenceStep
<1>1. CASE \E r \in Revisions : StaleLock(s, r)
  <2>1. PICK r \in Revisions : StaleLock(s, r)
    BY <1>1
  <2>2. [Handling("staleEmit", r) EXCEPT !.base = version[r]].pc \notin Publishing
    BY DEF Handling, Publishing
  <2> QED BY <2>1, <2>2, OtherHandlers DEF StaleLock, Begin, rowVars, EvidenceStep
<1>2. CASE StaleEmit(s)
  <2>1. tx' = [tx EXCEPT ![s] = [tx[s] EXCEPT !.pc = "staleCommit"]]
    BY <1>2 DEF StaleEmit, Goto
  <2>2. [tx[s] EXCEPT !.pc = "staleCommit"].pc \notin Publishing
    BY DEF LifecycleInv, TypeOK, Local, Publishing
  <2> QED BY <1>2, <2>1, <2>2, OtherHandlers DEF StaleEmit, rowVars, EvidenceStep
<1>3. CASE StaleCommit(s)
  BY <1>3, OtherHandlers DEF StaleCommit, End, NoTx, Handling, Publishing, EvidenceStep
<1>4. CASE FreshenLock(s)
  <2>1. tx' = [tx EXCEPT ![s] = [tx[s] EXCEPT !.pc = "staleEmit"]]
    BY <1>4 DEF FreshenLock, Goto
  <2>2. [tx[s] EXCEPT !.pc = "staleEmit"].pc \notin Publishing
    BY DEF LifecycleInv, TypeOK, Local, Publishing
  <2> QED BY <1>4, <2>1, <2>2, OtherHandlers DEF FreshenLock, rowVars, EvidenceStep
<1> QED BY <1>1, <1>2, <1>3, <1>4

LEMMA ReadEvidence ==
  ASSUME LifecycleInv, NEW s \in Sessions,
         \/ \E q \in Routes : ReadCurrent(s, q)
         \/ \E r \in Revisions : ReadRevision(s, r)
         \/ Present(s)
  PROVE  EvidenceStep
<1>1. CASE \E q \in Routes : ReadCurrent(s, q)
  <2>1. PICK q \in Routes : ReadCurrent(s, q)
    BY <1>1
  <2> DEFINE c == IF Overdue(current[q]) THEN "freshen" ELSE "present"
             t == [Handling(c, current[q]) EXCEPT !.base = version[current[q]]]
  <2>2. tx' = [tx EXCEPT ![s] = t] /\ evidence' = evidence /\ pub' = pub
    BY <2>1 DEF ReadCurrent, Begin, rowVars
  <2>3. c \in {"freshen", "present"}
    OBVIOUS
  <2> HIDE DEF c
  <2>4. t.pc \notin Publishing
    BY <2>3 DEF Handling, Publishing
  <2> HIDE DEF t
  <2> QED BY <2>2, <2>4, OtherHandlers DEF EvidenceStep
<1>2. CASE \E r \in Revisions : ReadRevision(s, r)
  BY <1>2, OtherHandlers DEF ReadRevision, Begin, Handling, rowVars, EvidenceStep, Publishing
<1>3. CASE Present(s)
  BY <1>3, OtherHandlers DEF Present, End, NoTx, Handling, rowVars, EvidenceStep, Publishing
<1> QED BY <1>1, <1>2, <1>3

LEMMA SweepEvidence ==
  ASSUME LifecycleInv, NEW s \in Sessions, SweepLease(s) \/ SweepMark(s) \/ SweepCommit(s)
  PROVE  EvidenceStep
<1>1. CASE SweepLease(s)
  <2>1. PICK B : tx' = [tx EXCEPT ![s] = [Handling("sweep", NoRev) EXCEPT !.batch = B]]
    BY <1>1 DEF SweepLease, Begin
  <2>2. [Handling("sweep", NoRev) EXCEPT !.batch = B].pc \notin Publishing
    BY DEF Handling, Publishing
  <2> QED BY <1>1, <2>1, <2>2, OtherHandlers DEF SweepLease, rowVars, EvidenceStep
<1>2. CASE SweepMark(s)
  <2>1. PICK r : tx' = [tx EXCEPT ![s] = [tx[s] EXCEPT !.marked = @ \cup {r}]]
    BY <1>2 DEF SweepMark
  <2>2. [tx[s] EXCEPT !.marked = @ \cup {r}].pc \notin Publishing
    BY <1>2 DEF SweepMark, At, LifecycleInv, TypeOK, Local, Publishing
  <2> QED BY <1>2, <2>1, <2>2, OtherHandlers DEF SweepMark, rowVars, EvidenceStep
<1>3. CASE SweepCommit(s)
  BY <1>3, OtherHandlers DEF SweepCommit, End, NoTx, Handling, EvidenceStep, Publishing
<1> QED BY <1>1, <1>2, <1>3

LEMMA EvidenceNext ==
  ASSUME LifecycleInv, [Next]_vars PROVE EvidenceStep
<1>0. Editors \subseteq Sessions /\ Readers \subseteq Sessions /\ Workers \subseteq Sessions
  BY DEF Sessions
<1>1. CASE Create
  BY <1>0, <1>1, CreateEvidence DEF Create
<1>2. CASE Verify
  BY <1>0, <1>2, VerifyEvidence DEF Verify
<1>3. CASE Publish
  BY <1>0, <1>3, PublishEvidence DEF Publish
<1>4. CASE Withdraw
  BY <1>0, <1>4, WithdrawEvidence DEF Withdraw
<1>5. CASE MarkStale
  BY <1>0, <1>5, StaleEvidence DEF MarkStale
<1>6. CASE Read
  BY <1>0, <1>6, ReadEvidence, StaleEvidence DEF Read
<1>7. CASE Sweep
  BY <1>0, <1>7, SweepEvidence DEF Sweep
<1>8. CASE Abort
  BY <1>8, OtherHandlers
  DEF Abort, Crash, DeadlockAbort, Rollback, End, NoTx, Handling, rowVars, EvidenceStep, Publishing
<1>9. CASE Tick \/ UNCHANGED vars
  BY <1>9 DEF Tick, vars, rowVars, EvidenceStep
<1> QED BY <1>1, <1>2, <1>3, <1>4, <1>5, <1>6, <1>7, <1>8, <1>9 DEF Next

\* Two different values make a set of at least two.
LEMMA TwoAtLeast ==
  ASSUME NEW S, IsFiniteSet(S), NEW a \in S, NEW b \in S, a # b
  PROVE  Cardinality(S) >= 2
<1>1. IsFiniteSet({a}) /\ Cardinality({a}) = 1
  BY FS_Singleton
<1>2. IsFiniteSet({a} \cup {b}) /\ Cardinality({a} \cup {b}) = 2
  <2>1. b \notin {a} /\ 1 + 1 = 2
    OBVIOUS
  <2> QED BY <1>1, <2>1, FS_AddElement
<1>3. {a} \cup {b} \subseteq S
  OBVIOUS
<1>4. Cardinality({a} \cup {b}) <= Cardinality(S)
  BY <1>3, FS_Subset
<1>5. Cardinality(S) \in Nat
  BY FS_CardinalityType
<1> QED BY <1>2, <1>4, <1>5

LEMMA EnoughEvidence ==
  ASSUME NEW S, IsFiniteSet(S), Sufficient(S)
  PROVE  /\ Cardinality({p.verifier : p \in Passed(S)}) >= 2
         /\ Cardinality({p.environment : p \in Passed(S)}) >= 2
<1>1. IsFiniteSet(Passed(S))
  BY FS_Subset DEF Passed
<1>2. /\ IsFiniteSet({p.verifier : p \in Passed(S)})
      /\ IsFiniteSet({p.environment : p \in Passed(S)})
  <2> DEFINE T == Passed(S)
             V == {p.verifier : p \in T}
             E == {p.environment : p \in T}
  <2> HIDE DEF T
  <2>1. [p \in T |-> p.verifier] \in Surjection(T, V)
    BY DEF Surjection
  <2>2. [p \in T |-> p.environment] \in Surjection(T, E)
    BY DEF Surjection
  <2>3. IsFiniteSet(T)
    BY <1>1 DEF T
  <2> HIDE DEF V, E
  <2>4. IsFiniteSet(V)
    BY <2>1, <2>3, FS_Surjection
  <2>5. IsFiniteSet(E)
    BY <2>2, <2>3, FS_Surjection
  <2> QED BY <2>4, <2>5 DEF T, V, E
<1>3. PICK p \in Passed(S), q \in Passed(S) : p.verifier # q.verifier
  BY DEF Sufficient
<1>4. PICK u \in Passed(S), w \in Passed(S) : u.environment # w.environment
  BY DEF Sufficient
<1>5. Cardinality({x.verifier : x \in Passed(S)}) >= 2
  BY <1>2, <1>3, TwoAtLeast
<1>6. Cardinality({x.environment : x \in Passed(S)}) >= 2
  BY <1>2, <1>4, TwoAtLeast
<1> QED BY <1>5, <1>6

\* However publications, verifications and crashes interleave, what is published
\* has the two independent passed sessions that the policy asks for.
THEOREM PublishedHasEvidence == Spec => []EvidenceBehindPublication
<1>1. Init => EvidenceInv
  BY FS_EmptySet DEF Init, EvidenceInv, NoTx, Handling, Publishing, InReview
<1>2. LifecycleInv /\ EvidenceInv /\ [Next]_vars => EvidenceInv'
  <2> SUFFICES ASSUME LifecycleInv, EvidenceInv, [Next]_vars PROVE EvidenceInv'
    OBVIOUS
  <2>1. EvidenceStep
    BY EvidenceNext
  <2>2. ASSUME NEW r \in Revisions PROVE IsFiniteSet(evidence'[r]) /\ evidence[r] \subseteq evidence'[r]
    BY <2>1, FS_AddElement DEF EvidenceStep, EvidenceInv
  <2>3. ASSUME NEW r \in Revisions, Sufficient(evidence[r]) PROVE Sufficient(evidence'[r])
    BY <2>2, <2>3, SufficientGrows
  <2>4. \A s \in Sessions : tx[s].pc \in Publishing => tx[s].rev \in Revisions
    BY DEF LifecycleInv, HandlersJustified, Justified, Publishing
  <2>5. \A s \in Sessions : tx'[s].pc \in Publishing => Sufficient(evidence'[tx'[s].rev])
    BY <2>1, <2>3, <2>4 DEF EvidenceStep, EvidenceInv
  <2>6. \A r \in Revisions : pub'[r] \notin InReview => Sufficient(evidence'[r])
    BY <2>1, <2>3 DEF EvidenceStep, EvidenceInv
  <2> QED BY <2>2, <2>5, <2>6 DEF EvidenceInv, Sufficient, Passed
<1>3. EvidenceInv => EvidenceBehindPublication
  BY EnoughEvidence DEF EvidenceInv, EvidenceBehindPublication, InReview
<1> QED BY LifecycleInvariant, <1>1, <1>2, <1>3, PTL DEF Spec
-----------------------------------------------------------------------------
(* What a step does to the rows, and what a session holds after it.         *)

Announcing == {"freshen", "staleEmit", "staleCommit"}

RowsStep ==
    \/ UNCHANGED rowVars
    \/ \E s \in Sessions : \/ CreateCommit(s) \/ VerifyInsert(s) \/ PublishCommit(s)
                           \/ WithdrawCommit(s) \/ StaleCommit(s) \/ SweepCommit(s)

LEMMA RowsNext == [Next]_vars => RowsStep
<1> SUFFICES ASSUME [Next]_vars PROVE RowsStep
  OBVIOUS
<1>0. Editors \subseteq Sessions /\ Readers \subseteq Sessions /\ Workers \subseteq Sessions
  BY DEF Sessions
<1>1. CASE Create
  BY <1>0, <1>1 DEF Create, CreateLock, RowsStep
<1>2. CASE Verify
  BY <1>0, <1>2 DEF Verify, VerifyRead, RowsStep
<1>3. CASE Publish
  BY <1>0, <1>3 DEF Publish, PublishLock, PublishRoute, PublishFlush, RowsStep
<1>4. CASE Withdraw
  BY <1>0, <1>4 DEF Withdraw, WithdrawLock, WithdrawRoute, RowsStep
<1>5. CASE MarkStale
  BY <1>0, <1>5 DEF MarkStale, StaleLock, StaleEmit, RowsStep
<1>6. CASE Read
  BY <1>0, <1>6 DEF Read, ReadCurrent, ReadRevision, FreshenLock, StaleEmit, Present, RowsStep
<1>7. CASE Sweep
  BY <1>0, <1>7 DEF Sweep, SweepLease, SweepMark, RowsStep
<1>8. CASE Abort \/ Tick \/ UNCHANGED vars
  BY <1>8 DEF Abort, Crash, DeadlockAbort, Rollback, Tick, vars, rowVars, RowsStep
<1> QED BY <1>1, <1>2, <1>3, <1>4, <1>5, <1>6, <1>7, <1>8 DEF Next

\* A session that may mark revisions stale does so to revisions out of review, and
\* only CreateLock gives a session a number to insert.
Holds(s) ==
    \/ tx'[s] \in {tx[s], NoTx}
    \/ \E r \in Revisions : CreateLock(s, r)
    \/ tx'[s].pc \notin {"createInsert", "sweep"} \cup Announcing
    \/ /\ tx'[s].pc \in Announcing
       /\ \/ tx[s].pc \in Announcing /\ tx'[s].rev = tx[s].rev
          \/ tx'[s].rev \in Revisions /\ pub[tx'[s].rev] \notin InReview
    \/ /\ tx'[s].pc = "sweep"
       /\ \/ tx[s].pc = "sweep" /\ tx'[s].batch = tx[s].batch
          \/ \A r \in tx'[s].batch : pub[r] \notin InReview

\* A step of session s alone.
LEMMA HoldsStep ==
  ASSUME LifecycleInv, NEW s \in Sessions, NEW t, tx' = [tx EXCEPT ![s] = t], Holds(s)
  PROVE  \A o \in Sessions : Holds(o)
  BY DEF LifecycleInv, TypeOK, Holds

LEMMA HoldsEnd ==
  ASSUME LifecycleInv, NEW s \in Sessions, End(s)
  PROVE  \A o \in Sessions : Holds(o)
  BY DEF LifecycleInv, TypeOK, End, Holds

\* A step of session s to a state that neither creates nor announces.
LEMMA HoldsOther ==
  ASSUME LifecycleInv, NEW s \in Sessions, NEW t, tx' = [tx EXCEPT ![s] = t],
         t.pc \notin {"createInsert", "sweep"} \cup Announcing
  PROVE  \A o \in Sessions : Holds(o)
  BY DEF LifecycleInv, TypeOK, Holds

LEMMA HoldsEditing ==
  ASSUME LifecycleInv, NEW s \in Sessions,
         \/ \E r \in Revisions : CreateLock(s, r)
         \/ \E r \in Revisions, p \in Reports : VerifyRead(s, r, p)
         \/ \E r \in Revisions : PublishLock(s, r)
         \/ PublishRoute(s) \/ PublishFlush(s)
         \/ \E r \in Revisions : WithdrawLock(s, r)
         \/ WithdrawRoute(s)
  PROVE  \A o \in Sessions : Holds(o)
<1>0. tx \in [Sessions -> Local]
  BY DEF LifecycleInv, TypeOK
<1>1. CASE \E r \in Revisions : CreateLock(s, r)
  BY <1>1, HoldsStep DEF CreateLock, Begin, Holds
<1>2. CASE \E r \in Revisions, p \in Reports : VerifyRead(s, r, p)
  BY <1>2, HoldsOther DEF VerifyRead, Begin, Handling, Announcing
<1>3. CASE \E r \in Revisions : PublishLock(s, r)
  <2>1. PICK r, d : tx' = [tx EXCEPT ![s] = [Handling("publishRoute", r) EXCEPT !.due = d]]
    BY <1>3 DEF PublishLock, Begin
  <2>2. [Handling("publishRoute", r) EXCEPT !.due = d].pc = "publishRoute"
    BY DEF Handling
  <2> QED BY <2>1, <2>2, HoldsOther DEF Announcing
<1>4. CASE PublishRoute(s)
  <2>1. tx'[s].pc = "publishFlush"
    BY <1>0, <1>4 DEF PublishRoute
  <2>2. tx' = [tx EXCEPT ![s] = tx'[s]]
    BY <1>0, <1>4 DEF PublishRoute
  <2> QED BY <2>1, <2>2, HoldsOther DEF Announcing
<1>5. CASE PublishFlush(s)
  <2>1. tx' = [tx EXCEPT ![s] = [tx[s] EXCEPT !.pc = "publishCommit"]]
    BY <1>5 DEF PublishFlush, Goto
  <2>2. [tx[s] EXCEPT !.pc = "publishCommit"].pc = "publishCommit"
    BY <1>0 DEF Local
  <2> QED BY <2>1, <2>2, HoldsOther DEF Announcing
<1>6. CASE \E r \in Revisions : WithdrawLock(s, r)
  BY <1>6, HoldsOther DEF WithdrawLock, Begin, Handling, Announcing
<1>7. CASE WithdrawRoute(s)
  <2>1. tx' = [tx EXCEPT ![s] = [tx[s] EXCEPT !.pc = "withdrawCommit"]]
    BY <1>7 DEF WithdrawRoute, Goto
  <2>2. [tx[s] EXCEPT !.pc = "withdrawCommit"].pc = "withdrawCommit"
    BY <1>0 DEF Local
  <2> QED BY <2>1, <2>2, HoldsOther DEF Announcing
<1> QED BY <1>1, <1>2, <1>3, <1>4, <1>5, <1>6, <1>7

LEMMA HoldsAging ==
  ASSUME LifecycleInv, NEW s \in Sessions,
         \/ \E r \in Revisions : StaleLock(s, r)
         \/ StaleEmit(s) \/ FreshenLock(s)
         \/ \E q \in Routes : ReadCurrent(s, q)
         \/ \E r \in Revisions : ReadRevision(s, r)
         \/ SweepLease(s) \/ SweepMark(s)
  PROVE  \A o \in Sessions : Holds(o)
<1>0. tx \in [Sessions -> Local]
  BY DEF LifecycleInv, TypeOK
<1>1. CASE \E r \in Revisions : StaleLock(s, r)
  <2>1. PICK r \in Revisions : StaleLock(s, r)
    BY <1>1
  <2> DEFINE t == [Handling("staleEmit", r) EXCEPT !.base = version[r]]
  <2>2. tx' = [tx EXCEPT ![s] = t] /\ pub[r] = "published"
    BY <2>1 DEF StaleLock, Begin
  <2>3. t.pc = "staleEmit" /\ t.rev = r
    BY DEF Handling
  <2> HIDE DEF t
  <2>4. tx'[s] = t
    BY <1>0, <2>2
  <2>5. Holds(s)
    BY <2>2, <2>3, <2>4 DEF Holds, Announcing, InReview
  <2> QED BY <2>2, <2>5, HoldsStep
<1>2. CASE StaleEmit(s) \/ FreshenLock(s)
  <2>1. PICK c \in {"staleEmit", "staleCommit"} : tx' = [tx EXCEPT ![s] = [tx[s] EXCEPT !.pc = c]]
    BY <1>2 DEF StaleEmit, FreshenLock, Goto
  <2>2. tx'[s].pc = c /\ tx'[s].rev = tx[s].rev
    BY <1>0, <2>1 DEF Local
  <2>3. tx[s].pc \in Announcing
    BY <1>2 DEF StaleEmit, FreshenLock, At, Announcing
  <2>4. Holds(s)
    BY <2>2, <2>3 DEF Holds, Announcing
  <2> QED BY <2>1, <2>4, HoldsStep
<1>3. CASE \E q \in Routes : ReadCurrent(s, q)
  <2>1. PICK q \in Routes : ReadCurrent(s, q)
    BY <1>3
  <2> DEFINE c == IF Overdue(current[q]) THEN "freshen" ELSE "present"
             t == [Handling(c, current[q]) EXCEPT !.base = version[current[q]]]
  <2>2. /\ tx' = [tx EXCEPT ![s] = t]
        /\ current[q] \in Revisions /\ pub[current[q]] = "published"
    BY <2>1 DEF ReadCurrent, Begin, LifecycleInv, TypeOK
  <2>3. c \in {"freshen", "present"}
    OBVIOUS
  <2> HIDE DEF c
  <2>4. t.pc = c /\ t.rev = current[q]
    BY DEF Handling
  <2> HIDE DEF t
  <2>5. tx'[s] = t
    BY <1>0, <2>2
  <2>6. Holds(s)
    BY <2>2, <2>3, <2>4, <2>5 DEF Holds, Announcing, InReview
  <2> QED BY <2>2, <2>6, HoldsStep
<1>4. CASE \E r \in Revisions : ReadRevision(s, r)
  BY <1>4, HoldsOther DEF ReadRevision, Begin, Handling, Announcing
<1>5. CASE SweepLease(s)
  <2>1. PICK B \in SUBSET Unswept(s) :
          tx' = [tx EXCEPT ![s] = [Handling("sweep", NoRev) EXCEPT !.batch = B]]
    BY <1>5 DEF SweepLease, Begin
  <2>2. tx'[s].pc = "sweep" /\ tx'[s].batch = B
    BY <1>0, <2>1 DEF Handling
  <2>3. \A r \in B : pub[r] \notin InReview
    BY DEF Unswept, InReview
  <2> QED BY <2>1, <2>2, <2>3, HoldsStep DEF Holds
<1>6. CASE SweepMark(s)
  <2>1. PICK r : tx' = [tx EXCEPT ![s] = [tx[s] EXCEPT !.marked = @ \cup {r}]]
    BY <1>6 DEF SweepMark
  <2>2. tx[s].pc = "sweep" /\ tx'[s].pc = "sweep" /\ tx'[s].batch = tx[s].batch
    BY <1>0, <1>6, <2>1 DEF SweepMark, At, Local
  <2> QED BY <2>1, <2>2, HoldsStep DEF Holds
<1> QED BY <1>1, <1>2, <1>3, <1>4, <1>5, <1>6

LEMMA HoldsNext ==
  ASSUME LifecycleInv, [Next]_vars
  PROVE  \A s \in Sessions : Holds(s)
<1>0. Editors \subseteq Sessions /\ Readers \subseteq Sessions /\ Workers \subseteq Sessions
  BY DEF Sessions
<1>1. CASE Create
  BY <1>0, <1>1, HoldsEditing, HoldsEnd DEF Create, CreateCommit
<1>2. CASE Verify
  BY <1>0, <1>2, HoldsEditing, HoldsEnd DEF Verify, VerifyInsert
<1>3. CASE Publish
  BY <1>0, <1>3, HoldsEditing, HoldsEnd DEF Publish, PublishCommit
<1>4. CASE Withdraw
  BY <1>0, <1>4, HoldsEditing, HoldsEnd DEF Withdraw, WithdrawCommit
<1>5. CASE MarkStale
  BY <1>0, <1>5, HoldsAging, HoldsEnd DEF MarkStale, StaleCommit
<1>6. CASE Read
  BY <1>0, <1>6, HoldsAging, HoldsEnd DEF Read, StaleCommit, Present
<1>7. CASE Sweep
  BY <1>0, <1>7, HoldsAging, HoldsEnd DEF Sweep, SweepCommit
<1>8. CASE Abort
  BY <1>8, HoldsEnd DEF Abort, Crash, DeadlockAbort, Rollback
<1>9. CASE Tick \/ UNCHANGED vars
  BY <1>9 DEF Tick, vars, Holds
<1> QED BY <1>1, <1>2, <1>3, <1>4, <1>5, <1>6, <1>7, <1>8, <1>9 DEF Next
-----------------------------------------------------------------------------
(* The change feed tells what happened.                                     *)

\* A revision is provisional as long as it is in review, and only what is out of
\* review is being marked stale.
FeedInv ==
    /\ FeedTellsHistory
    /\ \A r \in Revisions : pub[r] \in InReview <=> trust[r] = "provisional"
    /\ \A s \in Sessions : tx[s].pc \in Announcing => pub[tx[s].rev] \notin InReview
    /\ \A s \in Sessions : tx[s].pc = "sweep" => \A r \in tx[s].batch : pub[r] \notin InReview

\* What FeedTellsHistory says of one revision, and of its label.
Truthful(r) ==
    /\ Told(r, "published", pub[r] \in {"published", "superseded", "withdrawn"})
    /\ Told(r, "superseded", pub[r] = "superseded")
    /\ Told(r, "withdrawn", pub[r] = "withdrawn")
    /\ (emitted[r]["stale"] > 0) <=> (trust[r] = "stale")
    /\ pub[r] \in InReview <=> trust[r] = "provisional"

\* What a change event adds to the counts.
LEMMA EmitCounts ==
  ASSUME NEW f \in [Revisions -> [EventType -> Nat]], NEW r \in Revisions, NEW e \in EventType
  PROVE  /\ Emit(f, r, e) \in [Revisions -> [EventType -> Nat]]
         /\ \A x \in Revisions \ {r} : Emit(f, r, e)[x] = f[x]
         /\ \A k \in EventType : Emit(f, r, e)[r][k] = IF k = e THEN f[r][k] + 1 ELSE f[r][k]
  BY DEF Emit

LEMMA PublishTells ==
  ASSUME LifecycleInv, FeedInv, NEW s \in Sessions, PublishCommit(s), NEW x \in Revisions
  PROVE  Truthful(x)' /\ (pub[x] \notin InReview => pub'[x] \notin InReview)
<1> DEFINE r == tx[s].rev
           p == tx[s].prev
           mid == IF p = NoRev THEN emitted ELSE Emit(emitted, p, "superseded")
<1>1. r \in Revisions /\ pub[r] = "draft" /\ p = current[RouteOf[r]]
  BY DEF PublishCommit, At, LifecycleInv, HandlersJustified, Justified
<1>2. p # NoRev => p \in Revisions /\ pub[p] = "published"
  BY <1>1, ConstantsAssumption DEF LifecycleInv, TypeOK, CurrentIsPublished
<1>3. /\ pub' = [Supersede(pub, p, "superseded") EXCEPT ![r] = "published"]
      /\ trust' = [trust EXCEPT ![r] = "verified"]
      /\ emitted' = Emit(mid, r, "published")
  BY DEF PublishCommit
<1>4. /\ emitted \in [Revisions -> [EventType -> Nat]]
      /\ pub \in [Revisions -> PublicationState] /\ trust \in [Revisions -> TrustState]
  BY DEF LifecycleInv, TypeOK
<1>5. Truthful(r) /\ Truthful(x) /\ (p # NoRev => Truthful(p))
  BY <1>1, <1>2 DEF FeedInv, FeedTellsHistory, Truthful
<1>6. {"published", "superseded", "stale", "withdrawn"} \subseteq EventType
  BY DEF EventType
<1> HIDE DEF r, p, mid
<1>7. mid \in [Revisions -> [EventType -> Nat]]
  BY <1>2, <1>4, <1>6, EmitCounts DEF mid
<1>8. ASSUME NEW y \in Revisions, y # p PROVE mid[y] = emitted[y]
  <2>1. CASE p = NoRev
    BY <2>1 DEF mid
  <2>2. CASE p # NoRev
    <3>1. \A z \in Revisions \ {p} : Emit(emitted, p, "superseded")[z] = emitted[z]
      BY <1>2, <1>4, <1>6, <2>2, EmitCounts
    <3> QED BY <1>8, <2>2, <3>1 DEF mid
  <2> QED BY <2>1, <2>2
<1>9. \A y \in Revisions \ {r} : emitted'[y] = mid[y]
  BY <1>1, <1>3, <1>6, <1>7, EmitCounts
<1>10. \A k \in EventType : emitted'[r][k] = IF k = "published" THEN mid[r][k] + 1 ELSE mid[r][k]
  BY <1>1, <1>3, <1>6, <1>7, EmitCounts
<1>11. CASE x = r
  <2>1. mid[r] = emitted[r]
    BY <1>1, <1>2, <1>8, ConstantsAssumption
  <2>2. pub'[r] = "published" /\ trust'[r] = "verified"
    BY <1>1, <1>2, <1>3, <1>4 DEF Supersede
  <2>3. /\ emitted[r]["published"] = 0 /\ emitted[r]["superseded"] = 0
        /\ emitted[r]["withdrawn"] = 0 /\ ~ (emitted[r]["stale"] > 0)
    BY <1>1, <1>5 DEF Truthful, Told, InReview
  <2>4. /\ emitted'[r]["published"] = 1 /\ emitted'[r]["superseded"] = 0
        /\ emitted'[r]["withdrawn"] = 0 /\ ~ (emitted'[r]["stale"] > 0)
    BY <1>6, <1>10, <2>1, <2>3
  <2> QED BY <1>11, <2>2, <2>4 DEF Truthful, Told, InReview
<1>12. CASE x # r /\ x = p
  <2>1. x \in Revisions /\ pub[x] = "published" /\ p # NoRev
    BY <1>2, <1>12, ConstantsAssumption
  <2>2. pub'[x] = "superseded" /\ trust'[x] = trust[x]
    BY <1>3, <1>4, <1>12, <2>1 DEF Supersede
  <2>3. mid = Emit(emitted, x, "superseded")
    BY <1>12, <2>1 DEF mid
  <2>4. \A k \in EventType : emitted'[x][k] = IF k = "superseded" THEN emitted[x][k] + 1 ELSE emitted[x][k]
    BY <1>4, <1>6, <1>9, <1>12, <2>3, EmitCounts
  <2>5. /\ emitted[x]["published"] = 1 /\ emitted[x]["superseded"] = 0
        /\ emitted[x]["withdrawn"] = 0 /\ ((emitted[x]["stale"] > 0) <=> trust[x] = "stale")
    BY <1>5, <2>1 DEF Truthful, Told
  <2>6. /\ emitted'[x]["published"] = 1 /\ emitted'[x]["superseded"] = 1
        /\ emitted'[x]["withdrawn"] = 0 /\ ((emitted'[x]["stale"] > 0) <=> trust[x] = "stale")
    BY <1>6, <2>4, <2>5
  <2> QED BY <1>5, <2>1, <2>2, <2>6 DEF Truthful, Told, InReview
<1>13. CASE x # r /\ x # p
  <2>1. pub'[x] = pub[x] /\ trust'[x] = trust[x]
    BY <1>1, <1>2, <1>3, <1>4, <1>13 DEF Supersede
  <2>2. emitted'[x] = emitted[x]
    BY <1>8, <1>9, <1>13
  <2> QED BY <1>5, <2>1, <2>2 DEF Truthful, Told
<1> QED BY <1>11, <1>12, <1>13

LEMMA WithdrawTells ==
  ASSUME LifecycleInv, FeedInv, NEW s \in Sessions, WithdrawCommit(s), NEW x \in Revisions
  PROVE  Truthful(x)' /\ (pub[x] \notin InReview => pub'[x] \notin InReview)
<1> DEFINE r == tx[s].rev
<1>1. r \in Revisions /\ pub[r] = "published"
  BY DEF WithdrawCommit, At, LifecycleInv, HandlersJustified, Justified
<1>2. /\ pub' = [pub EXCEPT ![r] = "withdrawn"] /\ trust' = trust
      /\ emitted' = Emit(emitted, r, "withdrawn")
  BY DEF WithdrawCommit
<1>3. emitted \in [Revisions -> [EventType -> Nat]] /\ pub \in [Revisions -> PublicationState]
  BY DEF LifecycleInv, TypeOK
<1>4. Truthful(x)
  BY DEF FeedInv, FeedTellsHistory, Truthful
<1>5. {"published", "superseded", "stale", "withdrawn"} \subseteq EventType
  BY DEF EventType
<1> HIDE DEF r
<1>6. CASE x = r
  <2>1. \A k \in EventType : emitted'[x][k] = IF k = "withdrawn" THEN emitted[x][k] + 1 ELSE emitted[x][k]
    BY <1>2, <1>3, <1>5, <1>6, EmitCounts
  <2>2. /\ emitted[x]["published"] = 1 /\ emitted[x]["superseded"] = 0
        /\ emitted[x]["withdrawn"] = 0 /\ ((emitted[x]["stale"] > 0) <=> trust[x] = "stale")
    BY <1>1, <1>4, <1>6 DEF Truthful, Told
  <2>3. /\ emitted'[x]["published"] = 1 /\ emitted'[x]["superseded"] = 0
        /\ emitted'[x]["withdrawn"] = 1 /\ ((emitted'[x]["stale"] > 0) <=> trust[x] = "stale")
    BY <1>5, <2>1, <2>2
  <2>4. pub'[x] = "withdrawn"
    BY <1>1, <1>2, <1>3, <1>6
  <2> QED BY <1>1, <1>2, <1>4, <1>6, <2>3, <2>4 DEF Truthful, Told, InReview
<1>7. CASE x # r
  <2>1. pub'[x] = pub[x] /\ emitted'[x] = emitted[x]
    BY <1>1, <1>2, <1>3, <1>5, <1>7, EmitCounts
  <2> QED BY <1>2, <1>4, <2>1 DEF Truthful, Told
<1> QED BY <1>6, <1>7

\* A revision that goes stale gets one more event of that type.
LEMMA StaleTells ==
  ASSUME LifecycleInv, FeedInv, NEW x \in Revisions, pub'[x] = pub[x], pub[x] \notin InReview,
         trust'[x] = "stale", emitted'[x] = [emitted[x] EXCEPT !["stale"] = @ + 1]
  PROVE  Truthful(x)'
<1>1. emitted[x] \in [EventType -> Nat] /\ Truthful(x)
  BY DEF LifecycleInv, TypeOK, FeedInv, FeedTellsHistory, Truthful
<1>2. /\ emitted'[x]["published"] = emitted[x]["published"]
      /\ emitted'[x]["superseded"] = emitted[x]["superseded"]
      /\ emitted'[x]["withdrawn"] = emitted[x]["withdrawn"]
      /\ emitted'[x]["stale"] > 0
  BY <1>1 DEF EventType
<1> QED BY <1>1, <1>2 DEF Truthful, Told

LEMMA RowsTell ==
  ASSUME LifecycleInv, FeedInv, RowsStep, NEW x \in Revisions
  PROVE  Truthful(x)' /\ (pub[x] \notin InReview => pub'[x] \notin InReview)
<1>0. Truthful(x)
  BY DEF FeedInv, FeedTellsHistory, Truthful
<1>1. CASE UNCHANGED rowVars
  BY <1>0, <1>1 DEF rowVars, Truthful, Told
<1>2. CASE \E s \in Sessions : CreateCommit(s)
  <2>1. PICK s \in Sessions : CreateCommit(s)
    BY <1>2
  <2>2. tx[s].rev \in Revisions /\ pub[tx[s].rev] = "absent"
    BY <2>1 DEF CreateCommit, At, LifecycleInv, HandlersJustified, Justified
  <2>3. pub'[x] = IF x = tx[s].rev THEN "draft" ELSE pub[x]
    BY <2>1 DEF CreateCommit, LifecycleInv, TypeOK
  <2> QED BY <1>0, <2>1, <2>2, <2>3 DEF CreateCommit, Truthful, Told, InReview
<1>3. CASE \E s \in Sessions : VerifyInsert(s)
  BY <1>0, <1>3 DEF VerifyInsert, Truthful, Told
<1>4. CASE \E s \in Sessions : PublishCommit(s)
  BY <1>4, PublishTells
<1>5. CASE \E s \in Sessions : WithdrawCommit(s)
  BY <1>5, WithdrawTells
<1>6. CASE \E s \in Sessions : StaleCommit(s)
  <2>1. PICK s \in Sessions : StaleCommit(s)
    BY <1>6
  <2>2. tx[s].rev \in Revisions /\ pub[tx[s].rev] \notin InReview
    BY <2>1 DEF StaleCommit, At, LifecycleInv, HandlersJustified, Justified, FeedInv, Announcing
  <2>3. pub' = pub
    BY <2>1 DEF StaleCommit
  <2>4. CASE x = tx[s].rev
    <3>1. /\ trust'[x] = "stale"
          /\ emitted'[x] = [emitted[x] EXCEPT !["stale"] = @ + 1]
      BY <2>1, <2>2, <2>4 DEF StaleCommit, Emit, LifecycleInv, TypeOK
    <3> QED BY <2>2, <2>3, <2>4, <3>1, StaleTells
  <2>5. CASE x # tx[s].rev
    <3>1. trust'[x] = trust[x] /\ emitted'[x] = emitted[x]
      BY <2>1, <2>5 DEF StaleCommit, Emit, LifecycleInv, TypeOK
    <3> QED BY <1>0, <2>3, <3>1 DEF Truthful, Told
  <2> QED BY <2>3, <2>4, <2>5
<1>7. CASE \E s \in Sessions : SweepCommit(s)
  <2>1. PICK s \in Sessions : SweepCommit(s)
    BY <1>7
  <2>2. x \in tx[s].batch => pub[x] \notin InReview
    BY <2>1 DEF SweepCommit, At, FeedInv
  <2>3. pub' = pub
    BY <2>1 DEF SweepCommit
  <2>4. CASE x \in tx[s].batch
    <3>1. /\ trust'[x] = "stale"
          /\ emitted'[x] = [emitted[x] EXCEPT !["stale"] = @ + 1]
      BY <2>1, <2>4 DEF SweepCommit
    <3> QED BY <2>2, <2>3, <2>4, <3>1, StaleTells
  <2>5. CASE x \notin tx[s].batch
    <3>1. trust'[x] = trust[x] /\ emitted'[x] = emitted[x]
      BY <2>1, <2>5 DEF SweepCommit
    <3> QED BY <1>0, <2>3, <3>1 DEF Truthful, Told
  <2> QED BY <2>3, <2>4, <2>5
<1> QED BY <1>1, <1>2, <1>3, <1>4, <1>5, <1>6, <1>7 DEF RowsStep

LEMMA FeedInvariant == Spec => [](LifecycleInv /\ FeedInv)
<1>1. Init => FeedInv
  BY DEF Init, FeedInv, FeedTellsHistory, Told, NoTx, Handling, Announcing, EventType, InReview
<1>2. LifecycleInv /\ FeedInv /\ [Next]_vars => FeedInv'
  <2> SUFFICES ASSUME LifecycleInv, FeedInv, [Next]_vars PROVE FeedInv'
    OBVIOUS
  <2>1. \A x \in Revisions : Truthful(x)' /\ (pub[x] \notin InReview => pub'[x] \notin InReview)
    BY RowsNext, RowsTell
  <2>2. \A s \in Sessions : Holds(s)
    BY HoldsNext
  <2>3. ASSUME NEW s \in Sessions
        PROVE  /\ tx'[s].pc \in Announcing => pub'[tx'[s].rev] \notin InReview
               /\ tx'[s].pc = "sweep" => \A r \in tx'[s].batch : pub'[r] \notin InReview
    <3>1. /\ tx[s].pc \in Announcing => tx[s].rev \in Revisions /\ pub[tx[s].rev] \notin InReview
          /\ tx[s].batch \subseteq Revisions
          /\ tx[s].pc = "sweep" => \A r \in tx[s].batch : pub[r] \notin InReview
      BY DEF FeedInv, LifecycleInv, TypeOK, Local, HandlersJustified, Justified, Announcing
    <3>2. tx'[s].batch \subseteq Revisions
      <4>1. LifecycleInv'
        BY NextInv
      <4> QED BY <4>1 DEF LifecycleInv, TypeOK, Local
    <3>3. CASE tx'[s] \in {tx[s], NoTx}
      BY <2>1, <3>1, <3>3 DEF NoTx, Handling, Announcing
    <3>4. CASE \E r \in Revisions : CreateLock(s, r)
      <4>1. tx'[s].pc = "createInsert"
        BY <3>4 DEF CreateLock, Begin, Handling, LifecycleInv, TypeOK
      <4> QED BY <4>1 DEF Announcing
    <3>5. CASE ~ (tx'[s] \in {tx[s], NoTx} \/ \E r \in Revisions : CreateLock(s, r))
      BY <2>1, <2>2, <3>1, <3>2, <3>5 DEF Holds, Announcing
    <3> QED BY <3>3, <3>4, <3>5
  <2> QED BY <2>1, <2>3 DEF FeedInv, FeedTellsHistory, Truthful, Told
<1> QED BY LifecycleInvariant, <1>1, <1>2, PTL DEF Spec

\* The change feed tells each publication, supersession and withdrawal exactly once
\* and staleness at least once, of exactly the revisions it happened to.
THEOREM FeedIsTrue == Spec => []FeedTellsHistory
<1>1. FeedInv => FeedTellsHistory
  BY DEF FeedInv
<1> QED BY FeedInvariant, <1>1, PTL

LEMMA PublishForward ==
  ASSUME LifecycleInv, FeedInv, NEW s \in Sessions, PublishCommit(s), NEW x \in Revisions
  PROVE  Forward(x)
<1>1. PICK r \in Revisions, p \in Revisions \cup {NoRev} :
        r = tx[s].rev /\ p = tx[s].prev /\ pub[r] = "draft" /\ p = current[RouteOf[r]]
  BY DEF PublishCommit, At, LifecycleInv, TypeOK, Local, HandlersJustified, Justified
<1>2. p # NoRev => p \in Revisions /\ pub[p] = "published"
  BY <1>1, ConstantsAssumption DEF LifecycleInv, TypeOK, CurrentIsPublished
<1>3. trust[r] = "provisional"
  BY <1>1 DEF FeedInv, InReview
<1>4. /\ pub' = [Supersede(pub, p, "superseded") EXCEPT ![r] = "published"]
      /\ trust' = [trust EXCEPT ![r] = "verified"]
      /\ due' = [due EXCEPT ![r] = tx[s].due]
  BY <1>1 DEF PublishCommit
<1>5. pub'[x] = IF x = r THEN "published" ELSE IF x = p THEN "superseded" ELSE pub[x]
  BY <1>1, <1>2, <1>4, ConstantsAssumption DEF Supersede, LifecycleInv, TypeOK
<1>6. /\ trust'[x] = IF x = r THEN "verified" ELSE trust[x]
      /\ due'[x] = IF x = r THEN tx[s].due ELSE due[x]
  BY <1>1, <1>4 DEF LifecycleInv, TypeOK
<1>7. CASE x = r
  BY <1>1, <1>3, <1>5, <1>6, <1>7 DEF Forward
<1>8. CASE x # r /\ x = p
  BY <1>2, <1>5, <1>6, <1>8, ConstantsAssumption DEF Forward
<1>9. CASE x # r /\ x # p
  BY <1>5, <1>6, <1>9 DEF Forward
<1> QED BY <1>7, <1>8, <1>9

LEMMA RowsForward ==
  ASSUME LifecycleInv, FeedInv, RowsStep, NEW x \in Revisions
  PROVE  Forward(x)
<1>1. CASE UNCHANGED rowVars \/ \E s \in Sessions : VerifyInsert(s)
  BY <1>1 DEF rowVars, VerifyInsert, Forward
<1>2. CASE \E s \in Sessions : CreateCommit(s)
  <2>1. PICK s \in Sessions, r \in Revisions :
          pub' = [pub EXCEPT ![r] = "draft"] /\ pub[r] = "absent" /\ trust' = trust /\ due' = due
    BY <1>2 DEF CreateCommit, At, LifecycleInv, HandlersJustified, Justified
  <2> QED BY <2>1 DEF Forward, LifecycleInv, TypeOK
<1>3. CASE \E s \in Sessions : WithdrawCommit(s)
  <2>1. PICK s \in Sessions, r \in Revisions :
          /\ pub' = [pub EXCEPT ![r] = "withdrawn"] /\ pub[r] = "published"
          /\ trust' = trust /\ due' = due
    BY <1>3 DEF WithdrawCommit, At, LifecycleInv, HandlersJustified, Justified
  <2> QED BY <2>1 DEF Forward, LifecycleInv, TypeOK
<1>4. CASE \E s \in Sessions : PublishCommit(s)
  BY <1>4, PublishForward
<1>5. CASE \E s \in Sessions : StaleCommit(s) \/ SweepCommit(s)
  <2>1. PICK B \in SUBSET Revisions :
          /\ trust' = [r \in Revisions |-> IF r \in B THEN "stale" ELSE trust[r]]
          /\ \A r \in B : pub[r] \notin InReview
          /\ pub' = pub /\ due' = due
    <3>1. ASSUME NEW s \in Sessions, StaleCommit(s)
          PROVE  /\ trust' = [r \in Revisions |-> IF r \in {tx[s].rev} THEN "stale" ELSE trust[r]]
                 /\ tx[s].rev \in Revisions /\ pub[tx[s].rev] \notin InReview
                 /\ pub' = pub /\ due' = due
      <4>1. tx[s].rev \in Revisions /\ pub[tx[s].rev] \notin InReview
        BY <3>1 DEF StaleCommit, At, LifecycleInv, HandlersJustified, Justified, FeedInv, Announcing
      <4> QED BY <3>1, <4>1 DEF StaleCommit, LifecycleInv, TypeOK
    <3>2. CASE \E s \in Sessions : StaleCommit(s)
      <4>1. PICK s \in Sessions : StaleCommit(s)
        BY <3>2
      <4>2. {tx[s].rev} \in SUBSET Revisions
        BY <3>1, <4>1
      <4> QED BY <3>1, <4>1, <4>2
    <3>3. CASE \E s \in Sessions : SweepCommit(s)
      BY <3>3 DEF SweepCommit, At, FeedInv, LifecycleInv, TypeOK, Local
    <3> QED BY <1>5, <3>2, <3>3
  <2>2. x \in B => trust[x] \in {"verified", "stale"}
    BY <2>1 DEF FeedInv, LifecycleInv, TypeOK, TrustState
  <2> QED BY <2>1, <2>2 DEF Forward
<1> QED BY <1>1, <1>2, <1>3, <1>4, <1>5 DEF RowsStep

\* No step brings back an earlier publication state or a lost label, and none moves
\* the review date of a published revision.
THEOREM OnlyForward == Spec => LifecycleForward
<1>1. LifecycleInv /\ FeedInv /\ [Next]_vars => [\A r \in Revisions : Forward(r)]_vars
  BY RowsNext, RowsForward
<1> QED BY FeedInvariant, <1>1, PTL DEF Spec, LifecycleForward
-----------------------------------------------------------------------------
(* The numbers of a route's revisions.                                      *)

Made(q) == {r \in Revisions : RouteOf[r] = q /\ pub[r] # "absent"}

\* Who is about to insert has counted the revisions of the route, because the
\* route's row is locked from the count to the insert.
NumberInv ==
    /\ \A q \in Routes : /\ IsFiniteSet(Made(q))
                         /\ {number[r] : r \in Made(q)} = 1 .. Cardinality(Made(q))
    /\ \A r \in Revisions : pub[r] = "absent" => number[r] = 0
    /\ \A s \in Sessions, q \in Routes : tx[s].pc = "createInsert" /\ q = RouteOf[tx[s].rev] =>
         tx[s].base = Cardinality(Made(q)) + 1

\* The number that a new revision gets.
LEMMA NextNumber ==
  ASSUME LifecycleInv, NumberInv, NEW q \in Routes, NEW n \in Numbers(q),
         \A m \in Numbers(q) : m <= n
  PROVE  n = Cardinality(Made(q))
<1> DEFINE k == Cardinality(Made(q))
<1>1. k \in Nat
  BY FS_CardinalityType DEF NumberInv
<1>2. {number[r] : r \in Made(q)} = 1 .. k
  BY DEF NumberInv
<1>3. k \in Numbers(q)
  <2>1. CASE k = 0
    BY <2>1 DEF Numbers
  <2>2. CASE k # 0
    <3>1. k \in 1 .. k
      BY <1>1, <2>2
    <3>2. PICK r \in Made(q) : number[r] = k
      BY <1>2, <3>1
    <3> QED BY <3>2 DEF Made, Numbers
  <2> QED BY <2>1, <2>2
<1>4. n \in Nat /\ n <= k
  <2>1. CASE n = 0
    BY <1>1, <2>1
  <2>2. CASE n # 0
    <3>1. PICK r \in Revisions : RouteOf[r] = q /\ number[r] = n
      BY <2>2 DEF Numbers
    <3>2. r \in Made(q)
      BY <2>2, <3>1 DEF NumberInv, Made
    <3>3. n \in 1 .. k
      BY <1>2, <3>1, <3>2
    <3> QED BY <1>1, <3>3
  <2> QED BY <2>1, <2>2
<1> QED BY <1>1, <1>3, <1>4

\* A commit other than a creation makes no revision and numbers none.
LEMMA OthersNumberNone ==
  ASSUME LifecycleInv, RowsStep, ~ \E s \in Sessions : CreateCommit(s)
  PROVE  number' = number /\ \A r \in Revisions : pub'[r] = "absent" <=> pub[r] = "absent"
<1>1. CASE UNCHANGED rowVars
  BY <1>1 DEF rowVars
<1>2. CASE \E s \in Sessions : PublishCommit(s)
  <2>1. PICK s \in Sessions : PublishCommit(s)
    BY <1>2
  <2> DEFINE r == tx[s].rev
             p == tx[s].prev
  <2>2. r \in Revisions /\ p = current[RouteOf[r]] /\ pub[r] = "draft"
    BY <2>1 DEF PublishCommit, At, LifecycleInv, HandlersJustified, Justified
  <2>3. p # NoRev => p \in Revisions /\ pub[p] = "published"
    BY <2>2, ConstantsAssumption DEF LifecycleInv, TypeOK, CurrentIsPublished
  <2>4. pub' = [Supersede(pub, p, "superseded") EXCEPT ![r] = "published"] /\ number' = number
    BY <2>1 DEF PublishCommit
  <2> HIDE DEF r, p
  <2> QED BY <2>2, <2>3, <2>4 DEF Supersede, LifecycleInv, TypeOK
<1>3. CASE \E s \in Sessions : WithdrawCommit(s)
  <2>1. PICK s \in Sessions : WithdrawCommit(s)
    BY <1>3
  <2>2. tx[s].rev \in Revisions /\ pub[tx[s].rev] = "published"
    BY <2>1 DEF WithdrawCommit, At, LifecycleInv, HandlersJustified, Justified
  <2> QED BY <2>1, <2>2 DEF WithdrawCommit, LifecycleInv, TypeOK
<1>4. CASE \E s \in Sessions : VerifyInsert(s) \/ StaleCommit(s) \/ SweepCommit(s)
  BY <1>4 DEF VerifyInsert, StaleCommit, SweepCommit
<1> QED BY <1>1, <1>2, <1>3, <1>4 DEF RowsStep

\* The insert of session s adds the next number to its route and to no other.
LEMMA CreationNumbers ==
  ASSUME LifecycleInv, NumberInv, NEW s \in Sessions, CreateCommit(s)
  PROVE  /\ \A q \in Routes : /\ IsFiniteSet(Made(q)')
                              /\ {number'[r] : r \in Made(q)'} = 1 .. Cardinality(Made(q)')
         /\ \A q \in Routes : q # RouteOf[tx[s].rev] => Made(q)' = Made(q)
         /\ \A r \in Revisions : pub'[r] = "absent" => number'[r] = 0
<1>1. PICK x \in Revisions : /\ x = tx[s].rev /\ pub[x] = "absent"
                             /\ pub' = [pub EXCEPT ![x] = "draft"]
                             /\ number' = [number EXCEPT ![x] = tx[s].base]
  BY DEF CreateCommit, At, LifecycleInv, HandlersJustified, Justified
<1>2. PICK q0 \in Routes : q0 = RouteOf[x]
  BY ConstantsAssumption
<1>3. PICK k \in Nat : k = Cardinality(Made(q0)) /\ tx[s].base = k + 1
  BY <1>1, <1>2, FS_CardinalityType DEF CreateCommit, At, NumberInv
<1>4. /\ \A r \in Revisions : pub'[r] = IF r = x THEN "draft" ELSE pub[r]
      /\ \A r \in Revisions : number'[r] = IF r = x THEN k + 1 ELSE number[r]
  BY <1>1, <1>3 DEF LifecycleInv, TypeOK
<1>5. ASSUME NEW q \in Routes
      PROVE  /\ q # q0 => Made(q)' = Made(q)
             /\ q = q0 => Made(q)' = Made(q) \cup {x} /\ x \notin Made(q)
             /\ \A r \in Made(q) : number'[r] = number[r]
  BY <1>1, <1>2, <1>4 DEF Made
<1>6. ASSUME NEW q \in Routes
      PROVE  /\ IsFiniteSet(Made(q)')
             /\ {number'[r] : r \in Made(q)'} = 1 .. Cardinality(Made(q)')
  <2>1. IsFiniteSet(Made(q)) /\ {number[r] : r \in Made(q)} = 1 .. Cardinality(Made(q))
    BY DEF NumberInv
  <2>2. {number'[r] : r \in Made(q)} = {number[r] : r \in Made(q)}
    BY <1>5
  <2>3. CASE q # q0
    BY <1>5, <2>1, <2>2, <2>3
  <2>4. CASE q = q0
    <3>1. Made(q)' = Made(q) \cup {x} /\ x \notin Made(q)
      BY <1>5, <2>4
    <3>2. IsFiniteSet(Made(q)') /\ Cardinality(Made(q)') = k + 1
      BY <1>3, <2>1, <2>4, <3>1, FS_AddElement
    <3>3. number'[x] = k + 1
      BY <1>4
    <3>4. {number'[r] : r \in Made(q)'} = {number'[r] : r \in Made(q)} \cup {k + 1}
      BY <3>1, <3>3
    <3>5. (1 .. k) \cup {k + 1} = 1 .. k + 1
      OBVIOUS
    <3> QED BY <1>3, <2>1, <2>2, <2>4, <3>2, <3>4, <3>5
  <2> QED BY <2>3, <2>4
<1>7. ASSUME NEW r \in Revisions, pub'[r] = "absent" PROVE number'[r] = 0
  BY <1>4, <1>7 DEF NumberInv
<1> QED BY <1>1, <1>2, <1>5, <1>6, <1>7

\* However many editors create at once, the revisions of a route are numbered
\* 1, 2, ... without gap or repetition.
THEOREM NumbersContiguous == Spec => []NumbersAreContiguous
<1>1. Init => NumberInv
  <2> SUFFICES ASSUME Init PROVE NumberInv
    OBVIOUS
  <2>1. \A q \in Routes : Made(q) = {}
    BY DEF Init, Made
  <2>2. IsFiniteSet({}) /\ Cardinality({}) = 0 /\ 1 .. 0 = {}
    BY FS_EmptySet
  <2>3. \A q \in Routes : /\ IsFiniteSet(Made(q))
                          /\ {number[r] : r \in Made(q)} = 1 .. Cardinality(Made(q))
    BY <2>1, <2>2
  <2> QED BY <2>3 DEF Init, NumberInv, NoTx, Handling
<1>2. LifecycleInv /\ NumberInv /\ [Next]_vars => NumberInv'
  <2> SUFFICES ASSUME LifecycleInv, NumberInv, [Next]_vars PROVE NumberInv'
    OBVIOUS
  <2>1. RowsStep /\ LifecycleInv'
    BY RowsNext, NextInv
  <2>2. \A s \in Sessions : Holds(s)
    BY HoldsNext
  \* A session that is about to insert was already, or has just counted.
  <2>3. ASSUME NEW s \in Sessions, tx'[s].pc = "createInsert"
        PROVE  /\ tx'[s].rev \in Revisions /\ RouteOf[tx'[s].rev] \in Routes
               /\ \A q \in Routes : q = RouteOf[tx'[s].rev] => tx'[s].base = Cardinality(Made(q)) + 1
               /\ ~ CreateCommit(s)
    <3>1. tx'[s].rev \in Revisions /\ RouteOf[tx'[s].rev] \in Routes
      BY <2>1, <2>3, ConstantsAssumption DEF LifecycleInv, HandlersJustified, Justified
    <3>2. ~ CreateCommit(s)
      BY <2>3 DEF CreateCommit, End, NoTx, Handling, LifecycleInv, TypeOK
    <3>3. CASE tx'[s] = tx[s]
      BY <2>3, <3>1, <3>2, <3>3 DEF NumberInv
    <3>4. CASE \E r \in Revisions : CreateLock(s, r)
      <4>1. PICK r \in Revisions : CreateLock(s, r)
        BY <3>4
      <4>2. PICK n \in Numbers(RouteOf[r]) :
              /\ \A m \in Numbers(RouteOf[r]) : m <= n
              /\ tx' = [tx EXCEPT ![s] = [Handling("createInsert", r) EXCEPT !.base = n + 1]]
        BY <4>1 DEF CreateLock, Begin
      <4>3. tx'[s].rev = r /\ tx'[s].base = n + 1
        BY <4>2 DEF Handling, LifecycleInv, TypeOK
      <4>4. n = Cardinality(Made(RouteOf[r]))
        BY <4>2, NextNumber, ConstantsAssumption
      <4> QED BY <3>1, <3>2, <4>3, <4>4
    <3>5. tx'[s] # NoTx
      BY <2>3 DEF NoTx, Handling
    <3> QED BY <2>2, <2>3, <3>3, <3>4, <3>5 DEF Holds, Announcing
  <2>4. CASE ~ \E s \in Sessions : CreateCommit(s)
    <3>1. number' = number /\ \A r \in Revisions : pub'[r] = "absent" <=> pub[r] = "absent"
      BY <2>1, <2>4, OthersNumberNone
    <3>2. \A q : Made(q)' = Made(q)
      BY <3>1 DEF Made
    <3>3. \A q \in Routes : /\ IsFiniteSet(Made(q)')
                            /\ {number'[r] : r \in Made(q)'} = 1 .. Cardinality(Made(q)')
      BY <3>1, <3>2 DEF NumberInv
    <3>4. \A r \in Revisions : pub'[r] = "absent" => number'[r] = 0
      BY <3>1 DEF NumberInv
    <3> QED BY <2>3, <3>2, <3>3, <3>4 DEF NumberInv
  <2>5. CASE \E s \in Sessions : CreateCommit(s)
    <3>1. PICK s \in Sessions : CreateCommit(s)
      BY <2>5
    <3>2. ASSUME NEW o \in Sessions, tx'[o].pc = "createInsert",
                 NEW q \in Routes, q = RouteOf[tx'[o].rev]
          PROVE  tx'[o].base = Cardinality(Made(q)') + 1
      <4>1. o # s
        BY <2>3, <3>1, <3>2
      <4>2. tx'[o] = tx[o]
        BY <3>1, <4>1 DEF CreateCommit, End, LifecycleInv, TypeOK
      <4>3. RouteOf[tx[o].rev] # RouteOf[tx[s].rev]
        <5>1. Compatible(tx[s], tx[o])
          BY <4>1 DEF LifecycleInv, LocksCompatible
        <5>2. tx[s].pc = "createInsert" /\ tx[o].pc = "createInsert"
          BY <3>1, <3>2, <4>2 DEF CreateCommit, At
        <5>3. RouteOf[tx[s].rev] \in Routes
          BY <5>2, ConstantsAssumption DEF LifecycleInv, HandlersJustified, Justified
        <5> QED BY <5>1, <5>2, <5>3 DEF Compatible, RoutesLocked
      <4>4. Made(q)' = Made(q)
        BY <3>1, <3>2, <4>2, <4>3, CreationNumbers
      <4> QED BY <2>3, <3>2, <4>4
    <3> QED BY <3>1, <3>2, CreationNumbers DEF NumberInv
  <2> QED BY <2>4, <2>5
<1>3. NumberInv => NumbersAreContiguous
  BY DEF NumberInv, NumbersAreContiguous, Made
<1> QED BY LifecycleInvariant, <1>1, <1>2, <1>3, PTL DEF Spec
-----------------------------------------------------------------------------
(* Without public readers no increment of a status_version is lost: the     *)
(* previous revision's version is read before its row is locked, but the    *)
(* route's lock keeps out whoever would change it.                          *)

Counted(r) == version[r] = 1 + emitted[r]["published"] + emitted[r]["superseded"]
                             + emitted[r]["stale"] + emitted[r]["withdrawn"]

\* What session s read is still so: the version of the revision it will write, and
\* that what it will mark stale is published and verified.
Ripe(r) == pub[r] = "published" /\ trust[r] = "verified"
Fresh(s) ==
    /\ tx[s].pc \in {"staleEmit", "staleCommit"} => Ripe(tx[s].rev)
    /\ tx[s].pc = "sweep" => \A r \in tx[s].batch : Ripe(r)
    /\ tx[s].pc \in {"staleEmit", "staleCommit"} => tx[s].base = version[tx[s].rev]
    /\ tx[s].pc \in {"publishFlush", "publishCommit"} /\ tx[s].prev # NoRev =>
         tx[s].base = version[tx[s].prev]

VersionInv == (\A r \in Revisions : Counted(r)) /\ \A s \in Sessions : Fresh(s)

\* One more event and one more on the version.
LEMMA CountOneMore ==
  ASSUME LifecycleInv, NEW r \in Revisions, Counted(r), NEW k \in EventType,
         version'[r] = version[r] + 1, emitted'[r] = [emitted[r] EXCEPT ![k] = @ + 1]
  PROVE  Counted(r)'
<1>1. emitted[r] \in [EventType -> Nat] /\ version[r] \in Nat
  BY DEF LifecycleInv, TypeOK
<1> QED BY <1>1 DEF Counted, EventType

\* What a commit of session s does: it makes a revision, or it gives revisions one
\* more on the version, each with its event, whose rows it has locked and whose
\* routes it has locked or shares.
Increments(s) ==
    \A r \in Revisions :
        \/ /\ version'[r] = version[r] /\ emitted'[r] = emitted[r] /\ trust'[r] = trust[r]
           /\ pub'[r] = pub[r] \/ pub[r] = "absent"
        \/ /\ version'[r] = version[r] + 1
           /\ \E k \in EventType : emitted'[r] = [emitted[r] EXCEPT ![k] = @ + 1]
           /\ r \in RowsLocked(tx[s])
           /\ RouteOf[r] \in RoutesLocked(tx[s]) \cup RoutesShared(tx[s])

LEMMA PublishIncrements ==
  ASSUME LifecycleInv, VersionInv, NEW s \in Sessions, PublishCommit(s)
  PROVE  Increments(s)
<1>1. PICK r \in Revisions, p \in Revisions \cup {NoRev} :
        /\ r = tx[s].rev /\ p = tx[s].prev /\ tx[s].pc = "publishCommit"
        /\ pub[r] = "draft" /\ p = current[RouteOf[r]]
  BY DEF PublishCommit, At, LifecycleInv, TypeOK, Local, HandlersJustified, Justified
<1>2. p # NoRev => /\ p \in Revisions /\ pub[p] = "published" /\ RouteOf[p] = RouteOf[r]
                   /\ tx[s].base = version[p]
  <2> SUFFICES ASSUME p # NoRev
               PROVE  /\ p \in Revisions /\ pub[p] = "published" /\ RouteOf[p] = RouteOf[r]
                      /\ tx[s].base = version[p]
    OBVIOUS
  <2>1. RouteOf[r] \in Routes
    BY ConstantsAssumption
  <2>2. RouteOf[p] = RouteOf[r] /\ pub[p] = "published"
    BY <1>1, <2>1 DEF LifecycleInv, CurrentIsPublished
  <2>3. tx[s].base = version[p]
    BY <1>1 DEF VersionInv, Fresh
  <2> QED BY <2>2, <2>3
<1>3. RouteOf[r] \in Routes /\ RouteOf[r] \in RoutesLocked(tx[s])
  BY <1>1, ConstantsAssumption DEF RoutesLocked
<1>4. r \in RowsLocked(tx[s]) /\ (p # NoRev => p \in RowsLocked(tx[s]))
  BY <1>1, <1>2 DEF RowsLocked
<1>5. /\ version' = [Supersede(version, p, tx[s].base + 1) EXCEPT ![r] = @ + 1]
      /\ emitted' = Emit(IF p = NoRev THEN emitted ELSE Emit(emitted, p, "superseded"),
                         r, "published")
  BY <1>1 DEF PublishCommit
<1>6. version \in [Revisions -> Nat] /\ emitted \in [Revisions -> [EventType -> Nat]]
  BY DEF LifecycleInv, TypeOK
<1>7. \A x \in Revisions :
        version'[x] = IF x = r \/ x = p THEN version[x] + 1 ELSE version[x]
  <2>1. CASE p = NoRev
    BY <1>1, <1>5, <1>6, <2>1, ConstantsAssumption DEF Supersede
  <2>2. CASE p # NoRev
    BY <1>1, <1>2, <1>5, <1>6, <2>2 DEF Supersede
  <2> QED BY <2>1, <2>2
<1>8. ASSUME NEW x \in Revisions
      PROVE  emitted'[x] = IF x = r THEN [emitted[x] EXCEPT !["published"] = @ + 1]
                           ELSE IF x = p THEN [emitted[x] EXCEPT !["superseded"] = @ + 1]
                           ELSE emitted[x]
  <2>1. CASE p = NoRev
    BY <1>1, <1>5, <1>6, <2>1, ConstantsAssumption DEF Emit
  <2>2. CASE p # NoRev
    <3>1. p # r
      BY <1>1, <1>2, <2>2
    <3>2. \A y \in Revisions :
            Emit(emitted, p, "superseded")[y] =
              IF y = p THEN [emitted[y] EXCEPT !["superseded"] = @ + 1] ELSE emitted[y]
      BY <1>6 DEF Emit
    <3>3. DOMAIN Emit(emitted, p, "superseded") = Revisions
      BY <1>6 DEF Emit
    <3>4. emitted' = Emit(Emit(emitted, p, "superseded"), r, "published")
      BY <1>5, <2>2
    <3>5. emitted'[x] = IF x = r THEN [Emit(emitted, p, "superseded")[x] EXCEPT !["published"] = @ + 1]
                        ELSE Emit(emitted, p, "superseded")[x]
      <4> DEFINE f == Emit(emitted, p, "superseded")
      <4>1. DOMAIN f = Revisions /\ emitted' = Emit(f, r, "published")
        BY <3>3, <3>4
      <4> HIDE DEF f
      <4>2. emitted'[x] = IF x = r THEN [f[x] EXCEPT !["published"] = @ + 1] ELSE f[x]
        BY <4>1 DEF Emit
      <4> QED BY <4>2 DEF f
    <3> QED BY <2>2, <3>1, <3>2, <3>5
  <2> QED BY <2>1, <2>2
<1>9. "published" \in EventType /\ "superseded" \in EventType
  BY DEF EventType
<1>12. \A x \in Revisions : x # r /\ x # p => trust'[x] = trust[x] /\ pub'[x] = pub[x]
  <2>1. /\ pub' = [Supersede(pub, p, "superseded") EXCEPT ![r] = "published"]
        /\ trust' = [trust EXCEPT ![r] = "verified"]
    BY <1>1 DEF PublishCommit
  <2> QED BY <2>1 DEF Supersede, LifecycleInv, TypeOK
<1> SUFFICES ASSUME NEW x \in Revisions, x = r \/ x = p
             PROVE  /\ version'[x] = version[x] + 1
                    /\ \E k \in EventType : emitted'[x] = [emitted[x] EXCEPT ![k] = @ + 1]
                    /\ x \in RowsLocked(tx[s]) /\ RouteOf[x] \in RoutesLocked(tx[s])
  BY <1>7, <1>8, <1>12 DEF Increments
<1>10. \E k \in EventType : emitted'[x] = [emitted[x] EXCEPT ![k] = @ + 1]
  BY <1>8, <1>9
<1>11. x \in RowsLocked(tx[s]) /\ RouteOf[x] \in RoutesLocked(tx[s])
  BY <1>2, <1>3, <1>4, ConstantsAssumption
<1> QED BY <1>7, <1>10, <1>11

LEMMA OtherIncrements ==
  ASSUME LifecycleInv, VersionInv, NEW s \in Sessions,
         \/ CreateCommit(s) \/ VerifyInsert(s) \/ WithdrawCommit(s)
         \/ StaleCommit(s) \/ SweepCommit(s)
  PROVE  Increments(s)
<1>0. /\ version \in [Revisions -> Nat] /\ emitted \in [Revisions -> [EventType -> Nat]]
      /\ pub \in [Revisions -> PublicationState] /\ trust \in [Revisions -> TrustState]
      /\ "stale" \in EventType /\ "withdrawn" \in EventType
      /\ \A r \in Revisions : RouteOf[r] \in Routes
  BY ConstantsAssumption DEF LifecycleInv, TypeOK, EventType
<1>1. CASE CreateCommit(s) \/ VerifyInsert(s)
  <2>1. CASE VerifyInsert(s)
    BY <2>1 DEF VerifyInsert, Increments
  <2>2. CASE CreateCommit(s)
    <3>1. PICK r \in Revisions : pub[r] = "absent" /\ pub' = [pub EXCEPT ![r] = "draft"]
      BY <2>2 DEF CreateCommit, At, LifecycleInv, HandlersJustified, Justified
    <3> QED BY <1>0, <2>2, <3>1 DEF CreateCommit, Increments
  <2> QED BY <1>1, <2>1, <2>2
<1>2. CASE WithdrawCommit(s)
  <2>1. PICK r \in Revisions : r = tx[s].rev /\ tx[s].pc = "withdrawCommit"
    BY <1>2 DEF WithdrawCommit, At, LifecycleInv, HandlersJustified, Justified
  <2>2. /\ version' = [version EXCEPT ![r] = @ + 1]
        /\ emitted' = [emitted EXCEPT ![r]["withdrawn"] = @ + 1]
        /\ pub' = [pub EXCEPT ![r] = "withdrawn"] /\ trust' = trust
    BY <1>2, <2>1 DEF WithdrawCommit, Emit
  <2>3. r \in RowsLocked(tx[s]) /\ RouteOf[r] \in RoutesLocked(tx[s])
    BY <1>0, <2>1 DEF RowsLocked, RoutesLocked
  <2> QED BY <1>0, <2>2, <2>3 DEF Increments
<1>3. CASE StaleCommit(s)
  <2>1. PICK r \in Revisions : r = tx[s].rev /\ tx[s].pc = "staleCommit" /\ tx[s].base = version[r]
    BY <1>3 DEF StaleCommit, At, LifecycleInv, HandlersJustified, Justified, VersionInv, Fresh
  <2>2. /\ version' = [version EXCEPT ![r] = version[r] + 1]
        /\ emitted' = [emitted EXCEPT ![r]["stale"] = @ + 1]
        /\ trust' = [trust EXCEPT ![r] = "stale"] /\ pub' = pub
    BY <1>3, <2>1 DEF StaleCommit, Emit
  <2>3. r \in RowsLocked(tx[s]) /\ RouteOf[r] \in RoutesShared(tx[s])
    BY <1>0, <2>1 DEF RowsLocked, RoutesShared
  <2> QED BY <1>0, <2>2, <2>3 DEF Increments
<1>4. CASE SweepCommit(s)
  <2>1. tx[s].pc = "sweep" /\ tx[s].marked = tx[s].batch
    BY <1>4 DEF SweepCommit, At
  <2>2. \A r \in Revisions : r \in tx[s].batch =>
          r \in RowsLocked(tx[s]) /\ RouteOf[r] \in RoutesShared(tx[s])
    BY <1>0, <2>1 DEF RowsLocked, RoutesShared
  <2> QED BY <1>0, <1>4, <2>2 DEF SweepCommit, Increments
<1> QED BY <1>1, <1>2, <1>3, <1>4

\* What a session at work has read stays fresh while another one commits.
LEMMA StaysFresh ==
  ASSUME LifecycleInv, VersionInv, NEW s \in Sessions, NEW o \in Sessions, o # s,
         Increments(s), tx'[o] = tx[o]
  PROVE  Fresh(o)'
<1>1. Compatible(tx[o], tx[s]) /\ Fresh(o) /\ Justified(tx[o]) /\ tx[o] \in Local
  BY DEF LifecycleInv, LocksCompatible, VersionInv, HandlersJustified, TypeOK
<1>2. ASSUME tx[o].pc \in {"staleEmit", "staleCommit"}
      PROVE  tx[o].base = version'[tx[o].rev] /\ Ripe(tx[o].rev)'
  <2>1. tx[o].rev \in Revisions /\ tx[o].rev \in RowsLocked(tx[o])
    BY <1>1, <1>2 DEF Justified, RowsLocked
  <2>2. Ripe(tx[o].rev) /\ tx[o].base = version[tx[o].rev] /\ tx[o].rev \notin RowsLocked(tx[s])
    BY <1>1, <1>2, <2>1 DEF Fresh, Compatible
  <2> QED BY <2>1, <2>2 DEF Increments, Ripe
<1>3. ASSUME tx[o].pc \in {"publishFlush", "publishCommit"}, tx[o].prev # NoRev
      PROVE  tx[o].base = version'[tx[o].prev]
  <2>1. /\ tx[o].prev \in Revisions /\ tx[o].rev \in Revisions
        /\ tx[o].prev = current[RouteOf[tx[o].rev]] /\ RouteOf[tx[o].rev] \in Routes
    BY <1>1, <1>3, ConstantsAssumption DEF Justified, Local
  <2>2. RouteOf[tx[o].prev] = RouteOf[tx[o].rev]
    BY <1>3, <2>1 DEF LifecycleInv, CurrentIsPublished
  <2>3. RouteOf[tx[o].prev] \in RoutesLocked(tx[o])
    BY <1>3, <2>1, <2>2 DEF RoutesLocked
  <2> QED BY <1>1, <1>3, <2>1, <2>3 DEF Increments, Compatible, Fresh
<1>4. ASSUME tx[o].pc = "sweep", NEW r \in tx[o].batch PROVE Ripe(r)'
  <2>1. r \in Revisions /\ r \in RowsLocked(tx[o])
    BY <1>1, <1>4 DEF Local, RowsLocked
  <2>2. Ripe(r) /\ r \notin RowsLocked(tx[s])
    BY <1>1, <1>4, <2>1 DEF Fresh, Compatible
  <2> QED BY <2>1, <2>2 DEF Increments, Ripe
<1> QED BY <1>2, <1>3, <1>4 DEF Fresh, Ripe
\* What a session without readers about it has read is fresh when it has read it,
\* and stays so for the rest of its transaction.
LEMMA FreshNext ==
  ASSUME LifecycleInv, FeedInv, VersionInv, [Next]_vars, Readers = {}, UNCHANGED rowVars,
         NEW s \in Sessions
  PROVE  Fresh(s)'
<1>0. /\ tx \in [Sessions -> Local] /\ Fresh(s)
      /\ version' = version /\ pub' = pub /\ trust' = trust
  BY DEF LifecycleInv, TypeOK, VersionInv, rowVars
<1>1. CASE tx'[s] = tx[s]
  BY <1>0, <1>1 DEF Fresh, Ripe
<1>2. CASE tx'[s].pc \notin {"staleEmit", "staleCommit", "publishFlush", "publishCommit", "sweep"}
  BY <1>2 DEF Fresh
<1>3. ASSUME NEW o \in Sessions, PublishRoute(o) PROVE Fresh(s)'
  <2>1. CASE s # o
    BY <1>0, <1>1, <1>3, <2>1 DEF PublishRoute
  <2>2. CASE s = o
    BY <1>0, <1>3, <2>2 DEF PublishRoute, Fresh
  <2> QED BY <2>1, <2>2
<1>4. ASSUME NEW o \in Sessions, PublishFlush(o) PROVE Fresh(s)'
  <2>1. CASE s # o
    BY <1>0, <1>1, <1>4, <2>1 DEF PublishFlush, Goto
  <2>2. CASE s = o
    BY <1>0, <1>4, <2>2 DEF PublishFlush, Goto, At, Local, Fresh
  <2> QED BY <2>1, <2>2
<1>5. ASSUME NEW o \in Sessions, NEW r \in Revisions, StaleLock(o, r) PROVE Fresh(s)'
  <2>1. CASE s # o
    BY <1>0, <1>1, <1>5, <2>1 DEF StaleLock, Begin
  <2>2. CASE s = o
    <3>1. Ripe(r)
      BY <1>5 DEF StaleLock, Ripe, FeedInv, InReview, LifecycleInv, TypeOK, TrustState
    <3>2. tx'[s].pc = "staleEmit" /\ tx'[s].rev = r /\ tx'[s].base = version[r]
      BY <1>0, <1>5, <2>2 DEF StaleLock, Begin, Handling
    <3> QED BY <1>0, <3>1, <3>2 DEF Fresh, Ripe
  <2> QED BY <2>1, <2>2
<1>6. ASSUME NEW o \in Sessions, StaleEmit(o) PROVE Fresh(s)'
  <2>1. CASE s # o
    BY <1>0, <1>1, <1>6, <2>1 DEF StaleEmit, Goto
  <2>2. CASE s = o
    BY <1>0, <1>6, <2>2 DEF StaleEmit, Goto, At, Local, Fresh, Ripe
  <2> QED BY <2>1, <2>2
\* Every other step leaves a session as it is, or where it has read no version.
<1>7. CASE \/ \E o \in Editors, r \in Revisions : CreateLock(o, r) \/ WithdrawLock(o, r)
           \/ \E o \in Editors, r \in Revisions, p \in Reports : VerifyRead(o, r, p)
  <2>1. CASE \E o \in Editors, r \in Revisions : CreateLock(o, r)
    <3>1. PICK o \in Sessions, r \in Revisions :
            \E n : tx' = [tx EXCEPT ![o] = [Handling("createInsert", r) EXCEPT !.base = n]]
      BY <2>1 DEF CreateLock, Begin, Sessions
    <3>2. PICK n : tx' = [tx EXCEPT ![o] = [Handling("createInsert", r) EXCEPT !.base = n]]
      BY <3>1
    <3>3. [Handling("createInsert", r) EXCEPT !.base = n].pc = "createInsert"
      BY DEF Handling
    <3> QED BY <1>0, <1>1, <1>2, <3>2, <3>3
  <2>2. CASE \E o \in Editors, r \in Revisions : WithdrawLock(o, r)
    BY <1>0, <1>1, <1>2, <2>2 DEF WithdrawLock, Begin, Handling, Sessions
  <2>3. CASE \E o \in Editors, r \in Revisions, p \in Reports : VerifyRead(o, r, p)
    BY <1>0, <1>1, <1>2, <2>3 DEF VerifyRead, Begin, Handling, Sessions
  <2> QED BY <1>7, <2>1, <2>2, <2>3
<1>8. CASE \E o \in Editors, r \in Revisions : PublishLock(o, r)
  <2>1. PICK o \in Sessions, r \in Revisions :
          \E d : tx' = [tx EXCEPT ![o] = [Handling("publishRoute", r) EXCEPT !.due = d]]
    BY <1>8 DEF PublishLock, Begin, Sessions
  <2>2. PICK d : tx' = [tx EXCEPT ![o] = [Handling("publishRoute", r) EXCEPT !.due = d]]
    BY <2>1
  <2>3. [Handling("publishRoute", r) EXCEPT !.due = d].pc = "publishRoute"
    BY DEF Handling
  <2> QED BY <1>0, <1>1, <1>2, <2>2, <2>3
<1>9. CASE \E o \in Editors : WithdrawRoute(o)
  BY <1>0, <1>1, <1>2, <1>9 DEF WithdrawRoute, Goto, Sessions, Local
<1>10. ASSUME NEW o \in Sessions, SweepLease(o) PROVE Fresh(s)'
  <2>1. PICK B \in SUBSET Unswept(o) :
          tx' = [tx EXCEPT ![o] = [Handling("sweep", NoRev) EXCEPT !.batch = B]]
    BY <1>10 DEF SweepLease, Begin
  <2>2. CASE s # o
    BY <1>0, <1>1, <2>1, <2>2
  <2>3. CASE s = o
    <3>1. tx'[s].pc = "sweep" /\ tx'[s].batch = B
      BY <1>0, <2>1, <2>3 DEF Handling
    <3>2. \A r \in B : Ripe(r)
      BY DEF Unswept, Overdue, Ripe
    <3> QED BY <1>0, <3>1, <3>2 DEF Fresh, Ripe
  <2> QED BY <2>2, <2>3
<1>11. ASSUME NEW o \in Sessions, SweepMark(o) PROVE Fresh(s)'
  <2>1. PICK r : tx' = [tx EXCEPT ![o] = [tx[o] EXCEPT !.marked = @ \cup {r}]]
    BY <1>11 DEF SweepMark
  <2>2. CASE s # o
    BY <1>0, <1>1, <2>1, <2>2
  <2>3. CASE s = o
    <3>1. tx'[s].pc = "sweep" /\ tx[s].pc = "sweep" /\ tx'[s].batch = tx[s].batch
      BY <1>0, <1>11, <2>1, <2>3 DEF SweepMark, At, Local
    <3> QED BY <1>0, <3>1 DEF Fresh, Ripe
  <2> QED BY <2>2, <2>3
<1>12. CASE \E o \in Sessions : End(o)
  BY <1>0, <1>1, <1>2, <1>12 DEF End, NoTx, Handling
<1>13. CASE Tick \/ UNCHANGED vars
  BY <1>1, <1>13 DEF Tick, vars
<1>14. Editors \subseteq Sessions /\ Workers \subseteq Sessions /\ ~ Read
  BY DEF Sessions, Read
<1> QED
  <2>1. CASE Create
    BY <1>7, <1>12, <1>14, <2>1 DEF Create, CreateCommit
  <2>2. CASE Verify
    BY <1>7, <1>12, <1>14, <2>2 DEF Verify, VerifyInsert
  <2>3. CASE Publish
    BY <1>3, <1>4, <1>8, <1>12, <1>14, <2>3 DEF Publish, PublishCommit
  <2>4. CASE Withdraw
    BY <1>7, <1>9, <1>12, <1>14, <2>4 DEF Withdraw, WithdrawCommit
  <2>5. CASE MarkStale
    BY <1>5, <1>6, <1>12, <1>14, <2>5 DEF MarkStale, StaleCommit
  <2>6. CASE Sweep
    BY <1>10, <1>11, <1>12, <1>14, <2>6 DEF Sweep, SweepCommit
  <2>7. CASE Abort
    BY <1>12, <2>7 DEF Abort, Crash, DeadlockAbort, Rollback
  <2> QED BY <1>13, <1>14, <2>1, <2>2, <2>3, <2>4, <2>5, <2>6, <2>7 DEF Next

LEMMA VersionNext ==
  ASSUME LifecycleInv, FeedInv, VersionInv, [Next]_vars, Readers = {}
  PROVE  VersionInv'
<1>1. CASE UNCHANGED rowVars
  BY <1>1, FreshNext DEF VersionInv, Counted, rowVars
<1>2. ASSUME NEW s \in Sessions,
             \/ CreateCommit(s) \/ VerifyInsert(s) \/ PublishCommit(s)
             \/ WithdrawCommit(s) \/ StaleCommit(s) \/ SweepCommit(s)
      PROVE  VersionInv'
  <2>1. Increments(s)
    BY <1>2, PublishIncrements, OtherIncrements
  <2>2. tx' = [tx EXCEPT ![s] = NoTx] /\ tx \in [Sessions -> Local]
    BY <1>2 DEF CreateCommit, VerifyInsert, PublishCommit, WithdrawCommit, StaleCommit,
                SweepCommit, End, LifecycleInv, TypeOK
  <2>3. ASSUME NEW o \in Sessions PROVE Fresh(o)'
    <3>1. CASE o = s
      BY <2>2, <3>1 DEF Fresh, NoTx, Handling
    <3>2. CASE o # s
      BY <2>1, <2>2, <3>2, StaysFresh
    <3> QED BY <3>1, <3>2
  <2>4. ASSUME NEW r \in Revisions PROVE Counted(r)'
    <3>1. Counted(r)
      BY DEF VersionInv
    <3>2. CASE version'[r] = version[r] /\ emitted'[r] = emitted[r]
      BY <3>1, <3>2 DEF Counted
    <3>3. CASE /\ version'[r] = version[r] + 1
               /\ \E k \in EventType : emitted'[r] = [emitted[r] EXCEPT ![k] = @ + 1]
      BY <3>1, <3>3, CountOneMore
    <3> QED BY <2>1, <3>2, <3>3 DEF Increments
  <2> QED BY <2>3, <2>4 DEF VersionInv
<1> QED BY <1>1, <1>2, RowsNext DEF RowsStep

LEMMA VersionInvariant ==
  ASSUME Readers = {}
  PROVE  Spec => [](LifecycleInv /\ FeedInv /\ VersionInv)
<1>1. Init => VersionInv
  BY DEF Init, VersionInv, Counted, Fresh, NoTx, Handling, EventType
<1>2. LifecycleInv /\ FeedInv /\ VersionInv /\ [Next]_vars => VersionInv'
  BY VersionNext
<1> QED BY FeedInvariant, <1>1, <1>2, PTL DEF Spec

\* Where no public read marks revisions stale, status_version counts the announced
\* changes: no increment is lost and no change goes unannounced.
THEOREM VersionsCount ==
  ASSUME Readers = {}
  PROVE  Spec => []VersionCountsEvents
<1>1. VersionInv => VersionCountsEvents
  BY DEF VersionInv, Counted, VersionCountsEvents
<1> QED BY VersionInvariant, <1>1, PTL
-----------------------------------------------------------------------------
(* The refinement.  A transaction takes effect when it commits; every other *)
(* step leaves the catalog.                                                 *)

LEMMA CreateDrafts ==
  ASSUME LifecycleInv, NEW s \in Sessions, CreateCommit(s)
  PROVE  CatalogOf!Next
<1>1. PICK r \in Revisions : r = tx[s].rev /\ pub[r] = "absent"
  BY DEF CreateCommit, At, LifecycleInv, HandlersJustified, Justified
<1>2. CatalogOf!Draft(r)
  BY <1>1 DEF CreateCommit, CatalogOf!Draft
<1> QED BY <1>2 DEF CatalogOf!Next

LEMMA PublishPublishes ==
  ASSUME LifecycleInv, VersionInv, NEW s \in Sessions, PublishCommit(s)
  PROVE  CatalogOf!Next
<1>1. PICK r \in Revisions, p \in Revisions \cup {NoRev} :
        r = tx[s].rev /\ p = tx[s].prev /\ pub[r] = "draft" /\ p = current[RouteOf[r]]
  BY DEF PublishCommit, At, LifecycleInv, TypeOK, Local, HandlersJustified, Justified
<1>2. p # NoRev => p \in Revisions /\ pub[p] = "published" /\ tx[s].base = version[p]
  <2>1. RouteOf[r] \in Routes
    BY ConstantsAssumption
  <2>2. p # NoRev => pub[p] = "published"
    BY <1>1, <2>1 DEF LifecycleInv, CurrentIsPublished
  <2>3. p # NoRev => tx[s].base = version[p]
    BY <1>1 DEF PublishCommit, At, VersionInv, Fresh
  <2> QED BY <2>2, <2>3
<1>3. /\ pub' = [Supersede(pub, p, "superseded") EXCEPT ![r] = "published"]
      /\ trust' = [trust EXCEPT ![r] = "verified"]
      /\ version' = [Supersede(version, p, tx[s].base + 1) EXCEPT ![r] = @ + 1]
      /\ current' = [current EXCEPT ![RouteOf[r]] = r]
  BY <1>1 DEF PublishCommit
<1>4. /\ pub \in [Revisions -> PublicationState] /\ version \in [Revisions -> Nat]
  BY DEF LifecycleInv, TypeOK
<1> DEFINE old == {current[RouteOf[r]]} \ {NoRev}
<1>5. pub' = [x \in Revisions |-> IF x = r THEN "published"
                                  ELSE IF x \in old THEN "superseded" ELSE pub[x]]
  <2>1. CASE p = NoRev
    BY <1>1, <1>3, <1>4, <2>1 DEF Supersede
  <2>2. CASE p # NoRev
    BY <1>1, <1>2, <1>3, <1>4, <2>2 DEF Supersede
  <2> QED BY <2>1, <2>2
<1>6. version' = [x \in Revisions |-> IF x \in {r} \cup old THEN version[x] + 1 ELSE version[x]]
  <2>1. CASE p = NoRev
    BY <1>1, <1>3, <1>4, <2>1 DEF Supersede
  <2>2. CASE p # NoRev
    BY <1>1, <1>2, <1>3, <1>4, <2>2 DEF Supersede
  <2> QED BY <2>1, <2>2
<1>7. CatalogOf!Publish(r)
  BY <1>1, <1>3, <1>5, <1>6 DEF CatalogOf!Publish, CatalogOf!Changed
<1> QED BY <1>7 DEF CatalogOf!Next

LEMMA WithdrawWithdraws ==
  ASSUME LifecycleInv, NEW s \in Sessions, WithdrawCommit(s)
  PROVE  CatalogOf!Next
<1>1. PICK r \in Revisions : r = tx[s].rev /\ pub[r] = "published"
  BY DEF WithdrawCommit, At, LifecycleInv, HandlersJustified, Justified
<1>2. current[RouteOf[r]] = r /\ RouteOf[r] \in Routes
  BY <1>1, ConstantsAssumption DEF LifecycleInv, CurrentIsPublished
<1>3. /\ current \in [Routes -> Revisions \cup {NoRev}] /\ version \in [Revisions -> Nat]
  BY DEF LifecycleInv, TypeOK
<1>4. current' = [current EXCEPT ![RouteOf[r]] = NoRev]
  BY <1>1, <1>2, <1>3 DEF WithdrawCommit
<1>5. version' = [x \in Revisions |-> IF x \in {r} THEN version[x] + 1 ELSE version[x]]
  BY <1>1, <1>3 DEF WithdrawCommit
<1>6. CatalogOf!Withdraw(r)
  BY <1>1, <1>4, <1>5 DEF WithdrawCommit, CatalogOf!Withdraw, CatalogOf!Changed
<1> QED BY <1>6 DEF CatalogOf!Next

\* One transaction, or one pass, marks the revisions in R.
LEMMA MarksStale ==
  ASSUME LifecycleInv, NEW R \in SUBSET Revisions, \A r \in R : Ripe(r),
         trust' = [r \in Revisions |-> IF r \in R THEN "stale" ELSE trust[r]],
         version' = [r \in Revisions |-> IF r \in R THEN version[r] + 1 ELSE version[r]],
         UNCHANGED <<pub, current>>
  PROVE  [CatalogOf!Next]_(CatalogOf!vars)
<1>1. CASE R = {}
  <2>1. trust' = trust /\ version' = version
    BY <1>1 DEF LifecycleInv, TypeOK
  <2> QED BY <2>1 DEF CatalogOf!vars
<1>2. CASE R # {}
  <2>1. CatalogOf!MarkStale(R)
    BY <1>2 DEF CatalogOf!MarkStale, CatalogOf!Changed, Ripe
  <2> QED BY <2>1 DEF CatalogOf!Next
<1> QED BY <1>1, <1>2

LEMMA StaleMarks ==
  ASSUME LifecycleInv, VersionInv, NEW s \in Sessions, StaleCommit(s) \/ SweepCommit(s)
  PROVE  [CatalogOf!Next]_(CatalogOf!vars)
<1>1. CASE StaleCommit(s)
  <2>1. PICK r \in Revisions : r = tx[s].rev /\ Ripe(r) /\ tx[s].base = version[r]
    BY <1>1 DEF StaleCommit, At, LifecycleInv, HandlersJustified, Justified, VersionInv, Fresh
  <2>2. /\ trust' = [x \in Revisions |-> IF x \in {r} THEN "stale" ELSE trust[x]]
        /\ version' = [x \in Revisions |-> IF x \in {r} THEN version[x] + 1 ELSE version[x]]
    BY <1>1, <2>1 DEF StaleCommit, LifecycleInv, TypeOK
  <2>3. UNCHANGED <<pub, current>> /\ {r} \in SUBSET Revisions
    BY <1>1 DEF StaleCommit
  <2> QED BY <2>1, <2>2, <2>3, MarksStale
<1>2. CASE SweepCommit(s)
  <2>1. tx[s].batch \in SUBSET Revisions /\ \A r \in tx[s].batch : Ripe(r)
    BY <1>2 DEF SweepCommit, At, LifecycleInv, TypeOK, Local, VersionInv, Fresh
  <2>2. /\ trust' = [r \in Revisions |-> IF r \in tx[s].batch THEN "stale" ELSE trust[r]]
        /\ version' = [r \in Revisions |-> IF r \in tx[s].batch THEN version[r] + 1 ELSE version[r]]
        /\ UNCHANGED <<pub, current>>
    BY <1>2 DEF SweepCommit
  <2> QED BY <2>1, <2>2, MarksStale
<1> QED BY <1>1, <1>2

\* Where no public read marks revisions stale, every transaction, whatever
\* interleaves with its statements, has the effect of one atomic operation.
THEOREM CatalogImplemented ==
  ASSUME Readers = {}
  PROVE  Spec => ImplementsCatalog
<1>1. Init => CatalogOf!Init
  BY DEF Init, CatalogOf!Init
<1>2. LifecycleInv /\ FeedInv /\ VersionInv /\ [Next]_vars => [CatalogOf!Next]_(CatalogOf!vars)
  <2> SUFFICES ASSUME LifecycleInv, FeedInv, VersionInv, [Next]_vars
               PROVE  [CatalogOf!Next]_(CatalogOf!vars)
    OBVIOUS
  <2>1. CASE UNCHANGED rowVars \/ \E s \in Sessions : VerifyInsert(s)
    BY <2>1 DEF rowVars, VerifyInsert, CatalogOf!vars
  <2>2. CASE ~ (UNCHANGED rowVars \/ \E s \in Sessions : VerifyInsert(s))
    BY <2>2, RowsNext, CreateDrafts, PublishPublishes, WithdrawWithdraws, StaleMarks DEF RowsStep
  <2> QED BY <2>1, <2>2
<1> QED BY VersionInvariant, <1>1, <1>2, PTL DEF Spec, ImplementsCatalog, CatalogOf!Spec
=============================================================================
