--------------------------- MODULE ChallengeProofs ---------------------------
(***************************************************************************)
(* Proofs about Challenge, for any number of concurrent requests, any      *)
(* catalog and any order of edits, crashes and commits.                    *)
(***************************************************************************)
EXTENDS Challenge, LeastNumber, FiniteSetTheorems, TLAPS

USE ConstantsAssumption

-----------------------------------------------------------------------------
(* The candidate that the seed picks exists *)

Below(S, r) == {q \in S : q < r}

\* A finite set of numbers has, for every k below its size, a member with k
\* smaller ones.
LEMMA MemberOfEachRank ==
  ASSUME NEW S \in SUBSET Nat, IsFiniteSet(S), NEW k \in Nat, k < Cardinality(S)
  PROVE  \E r \in S : Cardinality(Below(S, r)) = k
<1> DEFINE T == {j \in Nat : j < Cardinality(S) /\ ~ \E r \in S : Cardinality(Below(S, r)) = j}
<1>0. Cardinality(S) \in Nat
  BY FS_CardinalityType
<1>1. T = {}
  <2> SUFFICES ASSUME T # {} PROVE FALSE
    OBVIOUS
  <2>1. PICK j \in T : \A y \in T : j <= y
    <3>1. T \in SUBSET Nat
      OBVIOUS
    <3> HIDE DEF T
    <3> QED BY <3>1, LeastElement
  <2>2. j \in Nat /\ j < Cardinality(S) /\ ~ \E r \in S : Cardinality(Below(S, r)) = j
    BY <2>1
  <2>3. CASE j = 0
    <3>1. S # {}
      BY <2>2, <2>3, FS_EmptySet
    <3>2. PICK r \in S : \A q \in S : r <= q
      BY <3>1, LeastElement
    <3>3. Below(S, r) = {}
      <4>1. \A q \in S : ~ (q < r)
        BY <3>2
      <4> QED BY <4>1 DEF Below
    <3> QED BY <2>2, <2>3, <3>3, FS_EmptySet
  <2>4. CASE j # 0
    <3>1. j - 1 \in Nat /\ j - 1 < Cardinality(S) /\ ~ (j <= j - 1)
      BY <1>0, <2>2, <2>4
    <3>2. PICK r \in S : Cardinality(Below(S, r)) = j - 1
      BY <2>1, <3>1
    <3>3. IsFiniteSet(Below(S, r)) /\ r \notin Below(S, r)
      BY FS_Subset DEF Below
    <3>4. /\ IsFiniteSet(Below(S, r) \cup {r})
          /\ Cardinality(Below(S, r) \cup {r}) = j
      <4>1. Cardinality(Below(S, r) \cup {r}) = Cardinality(Below(S, r)) + 1
        BY <3>3, FS_AddElement
      <4> QED BY <2>2, <3>2, <3>3, <4>1, FS_AddElement
    <3>5. S \ (Below(S, r) \cup {r}) # {}
      <4> SUFFICES ASSUME S \ (Below(S, r) \cup {r}) = {} PROVE FALSE
        OBVIOUS
      <4>1. S = Below(S, r) \cup {r}
        BY DEF Below
      <4> QED BY <2>2, <3>4, <4>1
    <3>6. PICK m \in S \ (Below(S, r) \cup {r}) :
            \A q \in S \ (Below(S, r) \cup {r}) : m <= q
      <4>1. S \ (Below(S, r) \cup {r}) \in SUBSET Nat
        OBVIOUS
      <4> QED BY <3>5, <4>1, LeastElement
    <3>7. Below(S, m) = Below(S, r) \cup {r}
      <4>1. r < m
        BY <3>6 DEF Below
      <4>2. ASSUME NEW q \in S, q < m PROVE q \in Below(S, r) \cup {r}
        BY <3>6, <4>2
      <4>3. ASSUME NEW q \in Below(S, r) \cup {r} PROVE q \in S /\ q < m
        BY <4>1 DEF Below
      <4> QED BY <4>2, <4>3 DEF Below
    <3> QED BY <2>2, <3>4, <3>6, <3>7
  <2> QED BY <2>3, <2>4
<1> QED BY <1>1

LEMMA ChosenIsCandidate ==
  ASSUME Candidates # {}
  PROVE  Chosen \in Candidates
<1> DEFINE k == Seed % Cardinality(Candidates)
<1>1. Candidates \in SUBSET Nat /\ IsFiniteSet(Candidates)
  BY FS_Subset DEF Candidates
<1>2. Cardinality(Candidates) \in Nat /\ Cardinality(Candidates) # 0
  BY <1>1, FS_CardinalityType, FS_EmptySet
<1>3. k \in Nat /\ k < Cardinality(Candidates)
  BY <1>2
<1> HIDE DEF k
<1>4. \E r \in Candidates : Cardinality(Below(Candidates, r)) = k
  BY <1>1, <1>3, MemberOfEachRank
<1>5. \E r \in Candidates : Cardinality({q \in Candidates : q < r}) = k
  BY <1>4 DEF Below
<1> QED BY <1>5 DEF Chosen, k

-----------------------------------------------------------------------------
(* The inductive invariant *)

Locked == {"again", "delete", "choose", "insert"}

\* s is about to replace, or has replaced, the row that it has removed.
Replacing(t) == t.pc \in {"choose", "insert"} \/ t.choice # None

\* What request s relies on when it is in the state t.
Sound(s, t) ==
    /\ t.pc \in Locked => holder = s
    /\ t.choice # None => /\ t.pc \in {"insert", "commit"} /\ holder = s
                         /\ t.choice \in witness[s] /\ status[t.choice] # "draft"
    /\ t.pc = "insert" => t.choice # None
    /\ t.removed = IF Replacing(t) THEN row ELSE None
    /\ Replacing(t) /\ t.held = None => t.removed = None
    /\ t.pc \in {"revision", "judge", "delete"} => t.held # None
    /\ t.held # None => status[t.held.revision] # "draft"
    /\ t.held # None /\ t.pc \in {"judge", "lock"} =>
         /\ t.seen # "verified" => status[t.held.revision] # "verified"
         /\ t.seen = "verified" /\ t.held.revision \notin lapsed => t.held.revision \in witness[s]
    /\ t.held # None /\ (t.pc \in {"lock", "delete"} \/ Replacing(t)) => ~ Eligible(t.held.revision)
    /\ t.served # None => /\ t.pc = "commit" /\ t.served.revision \in witness[s]
                         /\ status[t.served.revision] # "draft"

\* Only a published revision is current, and is its route's.
CatalogSound ==
    /\ \A r \in Revisions : status[r] \in {"verified", "stale"} <=> current[RouteOf[r]] = r
    /\ \A rt \in Routes : current[rt] # None => RouteOf[current[rt]] = rt
    /\ row # None => status[row.revision] # "draft"

WitnessSound ==
    \A s \in Requests : Running(s) => \A r \in Revisions : Eligible(r) => r \in witness[s]

RequestsSound == \A s \in Requests : Sound(s, tx[s])

ChallengeInv == TypeOK /\ CatalogSound /\ WitnessSound /\ RequestsSound

LEMMA InitInv == Init => ChallengeInv
<1> SUFFICES ASSUME Init PROVE ChallengeInv
  OBVIOUS
<1> USE DEF Init
<1>1. NewRequest \in Local
  BY DEF NewRequest, Local
<1>2. \A rt \in Routes : current[rt] \in Revisions \cup {None}
                         /\ (current[rt] # None => current[rt] \in Published /\ RouteOf[current[rt]] = rt)
  <2> TAKE rt \in Routes
  <2>1. CASE \E r \in Published : RouteOf[r] = rt
    BY <2>1
  <2>2. CASE ~ \E r \in Published : RouteOf[r] = rt
    BY <2>2
  <2> QED BY <2>1, <2>2
<1>3. row \in Assignment \cup {None} /\ (row # None => row.revision \in Published)
  BY DEF Assignment
<1>4. TypeOK
  <2>1. current \in [Routes -> Revisions \cup {None}]
    BY <1>2
  <2> QED BY <1>1, <1>3, <2>1 DEF TypeOK, Status
<1>5. CatalogSound
  <2>1. ASSUME NEW r \in Published PROVE current[RouteOf[r]] = r
    <3>1. RouteOf[r] \in Routes
      OBVIOUS
    <3>2. current[RouteOf[r]] = CHOOSE q \in Published : RouteOf[q] = RouteOf[r]
      BY <3>1
    <3> QED BY <3>2
  <2>2. ASSUME NEW r \in Revisions, current[RouteOf[r]] = r PROVE r \in Published
    BY <1>2, <2>2
  <2> QED BY <1>3, <2>1, <2>2 DEF CatalogSound
<1>6. WitnessSound /\ RequestsSound
  BY DEF WitnessSound, RequestsSound, Running, Sound, NewRequest, Locked, Replacing
<1> QED BY <1>4, <1>5, <1>6 DEF ChallengeInv

\* What one request does leaves the others' reasons alone.
LEMMA OthersKeep ==
  ASSUME ChallengeInv, NEW s \in Requests, NEW o \in Requests, o # s,
         UNCHANGED catalog, tx'[o] = tx[o], witness'[o] = witness[o],
         \/ holder' = holder \/ holder = None \/ holder = s,
         row' = row \/ holder = s
  PROVE  Sound(o, tx[o])'
<1>1. Sound(o, tx[o])
  BY DEF ChallengeInv, RequestsSound
<1>2. ASSUME holder = o PROVE holder' = o /\ row' = row
  BY <1>2
<1>3. Replacing(tx[o]) => holder = o
  BY <1>1 DEF Sound, Replacing, Locked
<1> QED BY <1>1, <1>2, <1>3 DEF Sound, catalog, Eligible, Replacing, Locked

\* A step of request s to the state t.
LEMMA RequestStep ==
  ASSUME ChallengeInv, NEW s \in Requests, NEW t \in Local, Go(s, t),
         UNCHANGED catalog, \A o \in Requests \ {s} : witness'[o] = witness[o],
         \/ holder' = holder \/ holder = None \/ holder = s,
         row' = row \/ holder = s,
         Sound(s, t)', holder' \in Requests \cup {None},
         row' \in Assignment \cup {None}, row' # None => status[row'.revision] # "draft",
         witness' \in [Requests -> SUBSET Revisions],
         t.pc \notin {"idle", "done"} => \A r \in Revisions : Eligible(r) => r \in witness'[s]
  PROVE  ChallengeInv'
<1> USE DEF ChallengeInv
<1>1. tx' \in [Requests -> Local] /\ tx'[s] = t /\ \A o \in Requests \ {s} : tx'[o] = tx[o]
  BY DEF Go, TypeOK
<1>2. TypeOK'
  BY <1>1 DEF TypeOK, catalog
<1>3. CatalogSound'
  BY DEF CatalogSound, catalog
<1>4. WitnessSound'
  BY <1>1 DEF WitnessSound, Running, Eligible, catalog
<1>5. RequestsSound'
  <2> SUFFICES ASSUME NEW o \in Requests PROVE Sound(o, tx[o])'
    BY DEF RequestsSound
  <2>1. CASE o = s
    BY <1>1, <2>1 DEF Sound, Replacing, Locked
  <2>2. CASE o # s
    BY <1>1, <2>2, OthersKeep
  <2> QED BY <2>1, <2>2
<1> QED BY <1>2, <1>3, <1>4, <1>5

-----------------------------------------------------------------------------
(* The steps of a request *)

\* What RequestStep asks of the parts that a step leaves alone.
LEMMA Standing ==
  ASSUME ChallengeInv, NEW s \in Requests
  PROVE  /\ tx[s] \in Local /\ Sound(s, tx[s])
         /\ holder \in Requests \cup {None} /\ row \in Assignment \cup {None}
         /\ row # None => row.revision \in Revisions /\ status[row.revision] # "draft"
         /\ witness \in [Requests -> SUBSET Revisions] /\ witness[s] \subseteq Revisions
         /\ Running(s) => \A r \in Revisions : Eligible(r) => r \in witness[s]
         /\ status \in [Revisions -> Status]
         /\ \A r \in Revisions : status[r] \in {"verified", "stale"} <=> current[RouteOf[r]] = r
BY DEF ChallengeInv, TypeOK, RequestsSound, CatalogSound, WitnessSound, Assignment

LEMMA BeginKeeps ==
  ASSUME ChallengeInv, NEW s \in Requests, Begin(s)
  PROVE  ChallengeInv'
<1>0. PICK t : t = [tx[s] EXCEPT !.held = row, !.pc = IF row = None THEN "lock" ELSE "revision"]
  OBVIOUS
<1>1. /\ tx[s].pc = "idle" /\ Go(s, t) /\ UNCHANGED catalog /\ holder' = holder /\ row' = row
      /\ witness' = [witness EXCEPT ![s] = {r \in Revisions : Eligible(r)}]
  BY <1>0 DEF Begin
<1>2. tx[s] \in Local /\ Sound(s, tx[s])
  BY Standing
<1>3. /\ t.held = row /\ t.pc = (IF row = None THEN "lock" ELSE "revision")
      /\ t.choice = tx[s].choice /\ t.served = tx[s].served /\ t.seen = tx[s].seen
      /\ t.removed = tx[s].removed /\ t \in Local
  <2>1. row \in Assignment \cup {None}
    BY Standing
  <2> QED BY <1>0, <1>2, <2>1 DEF Local
<1>4. /\ witness' \in [Requests -> SUBSET Revisions] /\ witness'[s] = {r \in Revisions : Eligible(r)}
      /\ \A o \in Requests \ {s} : witness'[o] = witness[o]
  BY <1>1, Standing
<1>5. Sound(s, t)'
  BY <1>1, <1>2, <1>3, Standing DEF Sound, Locked, Replacing, catalog
<1> QED BY <1>1, <1>3, <1>4, <1>5, Standing, RequestStep

LEMMA ReadRevisionKeeps ==
  ASSUME ChallengeInv, NEW s \in Requests, ReadRevision(s)
  PROVE  ChallengeInv'
<1>a. PICK r : r = tx[s].held.revision
  OBVIOUS
<1>0. PICK t : t = [tx[s] EXCEPT !.seen = status[r], !.pc = "judge"]
  OBVIOUS
<1>1. /\ tx[s].pc = "revision" /\ Go(s, t) /\ UNCHANGED catalog /\ holder' = holder
      /\ row' = row /\ witness' = witness
  BY <1>0, <1>a DEF ReadRevision
<1>2. tx[s] \in Local /\ Sound(s, tx[s]) /\ Running(s)
  BY <1>1, Standing DEF Running
<1>3. tx[s].held # None /\ r \in Revisions /\ status[r] \in Status
  BY <1>1, <1>2, <1>a, Standing DEF Sound, Local, Assignment
<1>4. /\ t.held = tx[s].held /\ t.pc = "judge" /\ t.seen = status[r]
      /\ t.choice = tx[s].choice /\ t.served = tx[s].served /\ t.removed = tx[s].removed
      /\ t \in Local
  BY <1>0, <1>2, <1>3, Standing DEF Local
<1>5. status[r] = "verified" /\ r \notin lapsed => r \in witness[s]
  BY <1>2, <1>3, Standing DEF Eligible
<1>6. /\ t.choice = None /\ t.served = None /\ t.held # None /\ t.held.revision = r
      /\ t.removed = None /\ status[r] # "draft"
  BY <1>1, <1>2, <1>3, <1>4, <1>a DEF Sound, Replacing
<1>7. Sound(s, t)'
  BY <1>1, <1>4, <1>5, <1>6 DEF Sound, Locked, Replacing, catalog
<1> QED BY <1>1, <1>2, <1>4, <1>7, Standing, RequestStep

LEMMA ServeKeeps ==
  ASSUME ChallengeInv, NEW s \in Requests, Serve(s)
  PROVE  ChallengeInv'
<1>0. PICK t : t = [tx[s] EXCEPT !.served = tx[s].held, !.pc = "commit"]
  OBVIOUS
<1>1. /\ tx[s].pc = "judge" /\ Approved(tx[s]) /\ Go(s, t) /\ UNCHANGED catalog
      /\ holder' = holder /\ row' = row /\ witness' = witness
  BY <1>0 DEF Serve
<1>2. tx[s] \in Local /\ Sound(s, tx[s]) /\ Running(s)
  BY <1>1, Standing DEF Running
<1>3. /\ t.held = tx[s].held /\ t.pc = "commit" /\ t.served = tx[s].held
      /\ t.choice = tx[s].choice /\ t.removed = tx[s].removed /\ t \in Local
  BY <1>0, <1>2 DEF Local
<1>4. tx[s].held.revision \in witness[s]
  BY <1>1, <1>2 DEF Sound, Approved
<1>5. Sound(s, t)'
  BY <1>1, <1>2, <1>3, <1>4 DEF Sound, Locked, Replacing, catalog, Eligible
<1> QED BY <1>1, <1>2, <1>3, <1>5, Standing, RequestStep

LEMMA RejectKeeps ==
  ASSUME ChallengeInv, NEW s \in Requests, Reject(s)
  PROVE  ChallengeInv'
<1>0. PICK t : t = [tx[s] EXCEPT !.pc = IF holder = s THEN "delete" ELSE "lock"]
  OBVIOUS
<1>1. /\ tx[s].pc = "judge" /\ ~ Approved(tx[s]) /\ Go(s, t) /\ UNCHANGED catalog
      /\ holder' = holder /\ row' = row /\ witness' = witness
  BY <1>0 DEF Reject
<1>2. tx[s] \in Local /\ Sound(s, tx[s]) /\ Running(s)
  BY <1>1, Standing DEF Running
<1>3. /\ t.held = tx[s].held /\ t.seen = tx[s].seen
      /\ t.pc = (IF holder = s THEN "delete" ELSE "lock")
      /\ t.served = tx[s].served /\ t.choice = tx[s].choice /\ t.removed = tx[s].removed
      /\ t \in Local
  BY <1>0, <1>2 DEF Local
<1>4. ~ Eligible(tx[s].held.revision)
  BY <1>1, <1>2 DEF Sound, Approved, Eligible
<1>5. Sound(s, t)'
  BY <1>1, <1>2, <1>3, <1>4 DEF Sound, Locked, Replacing, catalog, Eligible
<1> QED BY <1>1, <1>2, <1>3, <1>5, Standing, RequestStep

LEMMA LockKeeps ==
  ASSUME ChallengeInv, NEW s \in Requests, Lock(s)
  PROVE  ChallengeInv'
<1>0. PICK t : t = [tx[s] EXCEPT !.pc = AfterLock(tx[s])]
  OBVIOUS
<1>1. /\ tx[s].pc = "lock" /\ holder = None /\ holder' = s /\ Go(s, t) /\ UNCHANGED catalog
      /\ row' = row /\ witness' = witness
  BY <1>0 DEF Lock
<1>2. tx[s] \in Local /\ Sound(s, tx[s]) /\ Running(s)
  BY <1>1, Standing DEF Running
<1>3. /\ t.held = tx[s].held /\ t.seen = tx[s].seen
      /\ t.pc = (IF tx[s].held = None THEN "again" ELSE "judge")
      /\ t.served = tx[s].served /\ t.choice = tx[s].choice /\ t.removed = tx[s].removed
      /\ t \in Local
  BY <1>0, <1>2 DEF Local, AfterLock
<1>5. Sound(s, t)'
  BY <1>1, <1>2, <1>3 DEF Sound, Locked, Replacing, catalog, Eligible
<1> QED BY <1>1, <1>2, <1>3, <1>5, Standing, RequestStep

LEMMA LookAgainKeeps ==
  ASSUME ChallengeInv, NEW s \in Requests, LookAgain(s)
  PROVE  ChallengeInv'
<1>0. PICK t : t = [tx[s] EXCEPT !.held = row, !.pc = IF row = None THEN "choose" ELSE "revision"]
  OBVIOUS
<1>1. /\ tx[s].pc = "again" /\ Go(s, t) /\ UNCHANGED catalog /\ holder' = holder
      /\ row' = row /\ witness' = witness
  BY <1>0 DEF LookAgain
<1>2. tx[s] \in Local /\ Sound(s, tx[s]) /\ Running(s)
  BY <1>1, Standing DEF Running
<1>3. /\ t.held = row /\ t.pc = (IF row = None THEN "choose" ELSE "revision")
      /\ t.served = tx[s].served /\ t.choice = tx[s].choice /\ t.removed = tx[s].removed
      /\ t \in Local
  <2>1. row \in Assignment \cup {None}
    BY Standing
  <2> QED BY <1>0, <1>2, <2>1 DEF Local
<1>4. /\ t.choice = None /\ t.served = None /\ t.removed = None /\ holder = s
  BY <1>1, <1>2, <1>3 DEF Sound, Locked, Replacing
<1>5. Sound(s, t)'
  BY <1>1, <1>3, <1>4, Standing DEF Sound, Locked, Replacing, catalog
<1> QED BY <1>1, <1>2, <1>3, <1>5, Standing, RequestStep

LEMMA DeleteKeeps ==
  ASSUME ChallengeInv, NEW s \in Requests, Delete(s)
  PROVE  ChallengeInv'
<1>0. PICK t : t = [tx[s] EXCEPT !.removed = row, !.pc = "choose"]
  OBVIOUS
<1>1. /\ tx[s].pc = "delete" /\ Go(s, t) /\ UNCHANGED catalog /\ holder' = holder
      /\ row' = row /\ witness' = witness
  BY <1>0 DEF Delete
<1>2. tx[s] \in Local /\ Sound(s, tx[s]) /\ Running(s)
  BY <1>1, Standing DEF Running
<1>3. /\ t.held = tx[s].held /\ t.pc = "choose" /\ t.removed = row
      /\ t.served = tx[s].served /\ t.choice = tx[s].choice /\ t \in Local
  BY <1>0, <1>2, Standing DEF Local
<1>4. Sound(s, t)'
  BY <1>1, <1>2, <1>3 DEF Sound, Locked, Replacing, catalog, Eligible
<1> QED BY <1>1, <1>2, <1>3, <1>4, Standing, RequestStep

LEMMA ChooseKeeps ==
  ASSUME ChallengeInv, NEW s \in Requests, Choose(s)
  PROVE  ChallengeInv'
<1>a. PICK r \in Candidates : r = Chosen
  BY ChosenIsCandidate DEF Choose
<1>0. PICK t : t = [tx[s] EXCEPT !.choice = r, !.pc = "insert"]
  OBVIOUS
<1>1. /\ tx[s].pc = "choose" /\ Go(s, t) /\ UNCHANGED catalog /\ holder' = holder
      /\ row' = row /\ witness' = witness
  BY <1>0, <1>a DEF Choose
<1>2. tx[s] \in Local /\ Sound(s, tx[s]) /\ Running(s)
  BY <1>1, Standing DEF Running
<1>3. r \in Revisions /\ r \in witness[s] /\ status[r] # "draft"
  BY <1>2, Standing DEF Candidates, Eligible
<1>4. /\ t.held = tx[s].held /\ t.pc = "insert" /\ t.choice = r
      /\ t.served = tx[s].served /\ t.removed = tx[s].removed /\ t \in Local
  BY <1>0, <1>2, <1>3 DEF Local
<1>5. /\ holder = s /\ t.removed = row /\ t.served = None
      /\ t.held # None => status[t.held.revision] # "draft" /\ ~ Eligible(t.held.revision)
      /\ t.held = None => t.removed = None
  BY <1>1, <1>2, <1>4 DEF Sound, Locked, Replacing
<1>6. Sound(s, t)'
  BY <1>1, <1>3, <1>4, <1>5 DEF Sound, Locked, Replacing, catalog, Eligible
<1> QED BY <1>1, <1>2, <1>4, <1>6, Standing, RequestStep

LEMMA InsertKeeps ==
  ASSUME ChallengeInv, NEW s \in Requests, Insert(s)
  PROVE  ChallengeInv'
<1>a. PICK a : a = [id |-> s, revision |-> tx[s].choice]
  OBVIOUS
<1>0. PICK t : t = [tx[s] EXCEPT !.served = a, !.pc = "commit"]
  OBVIOUS
<1>1. /\ tx[s].pc = "insert" /\ Go(s, t) /\ UNCHANGED catalog /\ holder' = holder
      /\ row' = row /\ witness' = witness
  BY <1>0, <1>a DEF Insert
<1>2. tx[s] \in Local /\ Sound(s, tx[s]) /\ Running(s)
  BY <1>1, Standing DEF Running
<1>3. a \in Assignment /\ a.revision = tx[s].choice /\ tx[s].choice # None
  BY <1>1, <1>2, <1>a, Standing DEF Sound, Local, Assignment
<1>4. /\ t.held = tx[s].held /\ t.pc = "commit" /\ t.choice = tx[s].choice
      /\ t.served = a /\ t.removed = tx[s].removed /\ t \in Local
  BY <1>0, <1>2, <1>3 DEF Local
<1>5. Sound(s, t)'
  BY <1>1, <1>2, <1>3, <1>4 DEF Sound, Locked, Replacing, catalog, Eligible
<1> QED BY <1>1, <1>2, <1>4, <1>5, Standing, RequestStep

\* A session that is closed relies on nothing.
LEMMA CloseKeeps ==
  ASSUME ChallengeInv, NEW s \in Requests, Close(s), UNCHANGED catalog,
         row' = row \/ holder = s, row' \in Assignment \cup {None},
         row' # None => status[row'.revision] # "draft"
  PROVE  ChallengeInv'
<1>0. PICK t : t = [NewRequest EXCEPT !.pc = "done"]
  OBVIOUS
<1>1. /\ Go(s, t) /\ witness' = [witness EXCEPT ![s] = {}]
      /\ holder' = IF holder = s THEN None ELSE holder
  BY <1>0 DEF Close
<1>2. /\ t.pc = "done" /\ t.held = None /\ t.choice = None /\ t.served = None
      /\ t.removed = None /\ t \in Local
  BY <1>0 DEF NewRequest, Local
<1>3. /\ witness' \in [Requests -> SUBSET Revisions]
      /\ \A o \in Requests \ {s} : witness'[o] = witness[o]
  BY <1>1, Standing
<1>4. Sound(s, t)'
  BY <1>2 DEF Sound, Locked, Replacing
<1>5. \/ holder' = holder \/ holder = None \/ holder = s
  BY <1>1
<1>6. holder' \in Requests \cup {None}
  BY <1>1, Standing
<1> QED BY <1>1, <1>2, <1>3, <1>4, <1>5, <1>6, RequestStep

LEMMA EndKeeps ==
  ASSUME ChallengeInv, NEW s \in Requests, NothingToServe(s) \/ Commit(s) \/ Crash(s)
  PROVE  ChallengeInv'
<1>1. CASE NothingToServe(s) \/ Crash(s)
  <2>1. Close(s) /\ UNCHANGED catalog /\ row' = row
    BY <1>1 DEF NothingToServe, Crash
  <2> QED BY <2>1, Standing, CloseKeeps
<1>2. CASE Commit(s)
  <2>1. /\ Close(s) /\ UNCHANGED catalog /\ tx[s].pc = "commit"
        /\ row' = IF tx[s].choice # None THEN tx[s].served ELSE row
    BY <1>2 DEF Commit
  <2>2. tx[s] \in Local /\ Sound(s, tx[s])
    BY Standing
  <2>3. row' = row \/ holder = s
    BY <2>1, <2>2 DEF Sound
  <2>4. row' \in Assignment \cup {None} /\ (row' # None => status[row'.revision] # "draft")
    BY <2>1, <2>2, Standing DEF Sound, Local
  <2> QED BY <2>1, <2>3, <2>4, CloseKeeps
<1> QED BY <1>1, <1>2

-----------------------------------------------------------------------------
(* The steps of the catalog *)

\* An edit that makes no revision eligible but a draft, and tells the requests.
LEMMA SoundAfterEdit ==
  ASSUME ChallengeInv, UNCHANGED <<row, holder, tx>>,
         \A s \in Requests : witness[s] \subseteq witness'[s],
         \A r \in Revisions : status[r] # "draft" =>
           /\ status'[r] # "draft"
           /\ status[r] # "verified" => status'[r] # "verified"
           /\ r \notin lapsed' => r \notin lapsed
           /\ ~ Eligible(r) => ~ Eligible(r)'
  PROVE  RequestsSound'
<1> SUFFICES ASSUME NEW s \in Requests PROVE Sound(s, tx[s])'
  BY DEF RequestsSound
<1>1. PICK t \in Local : t = tx[s]
  BY Standing
<1>2. Sound(s, t) /\ tx'[s] = t /\ holder' = holder /\ row' = row /\ witness[s] \subseteq witness'[s]
  BY <1>1, Standing
<1>3. t.held # None => t.held.revision \in Revisions
  BY DEF Local, Assignment
<1>4. t.served # None => t.served.revision \in Revisions
  BY DEF Local, Assignment
<1>5. t.choice # None => t.choice \in Revisions
  BY DEF Local
<1>6. Sound(s, t)'
  BY <1>2, <1>3, <1>4, <1>5 DEF Sound, Locked, Replacing
<1> QED BY <1>1, <1>2, <1>6

LEMMA EditKeeps ==
  ASSUME ChallengeInv, Edit
  PROVE  ChallengeInv'
<1> PICK r \in Revisions : Publish(r) \/ Withdraw(r) \/ MarkStale(r) \/ Lapse(r)
  BY DEF Edit
<1>1. TypeOK /\ CatalogSound /\ WitnessSound
  BY DEF ChallengeInv
<1>2. \A q \in Revisions : status[q] \in Status /\ RouteOf[q] \in Routes
                          /\ (status[q] \in {"verified", "stale"} <=> current[RouteOf[q]] = q)
                          /\ \A rt \in Routes : current[rt] = q => RouteOf[q] = rt
  <2> TAKE q \in Revisions
  <2>1. \A rt \in Routes : current[rt] # None => RouteOf[current[rt]] = rt
    BY <1>1 DEF CatalogSound
  <2>2. \A rt \in Routes : current[rt] = q => RouteOf[q] = rt
    BY <2>1
  <2>3. status[q] \in Status /\ RouteOf[q] \in Routes
    BY <1>1 DEF TypeOK
  <2>4. status[q] \in {"verified", "stale"} <=> current[RouteOf[q]] = q
    BY <1>1 DEF CatalogSound
  <2> QED BY <2>2, <2>3, <2>4
<1>3. row # None => row.revision \in Revisions /\ status[row.revision] # "draft"
  BY <1>1 DEF CatalogSound, TypeOK, Assignment
<1>4. /\ UNCHANGED <<row, holder, tx>>
      /\ \A s \in Requests : witness[s] \subseteq witness'[s]
      /\ witness' \in [Requests -> SUBSET Revisions]
  BY <1>1 DEF Publish, Withdraw, MarkStale, Lapse, TypeOK
<1>5. /\ status' \in [Revisions -> Status]
      /\ current' \in [Routes -> Revisions \cup {None}]
      /\ lapsed' \subseteq Revisions
  <2>1. CASE Publish(r)
    BY <1>1, <1>2, <2>1 DEF Publish, TypeOK, Status
  <2>2. CASE Withdraw(r)
    BY <1>1, <2>2 DEF Withdraw, TypeOK, Status
  <2>3. CASE MarkStale(r)
    BY <1>1, <2>3 DEF MarkStale, TypeOK, Status
  <2>4. CASE Lapse(r)
    BY <1>1, <2>4 DEF Lapse, TypeOK
  <2> QED BY <2>1, <2>2, <2>3, <2>4
<1>6. TypeOK'
  BY <1>1, <1>4, <1>5 DEF TypeOK
<1>7. \A q \in Revisions : status'[q] \in {"verified", "stale"} <=> current'[RouteOf[q]] = q
  <2> TAKE q \in Revisions
  <2>1. CASE Publish(r)
    BY <1>1, <1>2, <2>1 DEF Publish, TypeOK
  <2>2. CASE Withdraw(r)
    BY <1>1, <1>2, <2>2 DEF Withdraw, TypeOK
  <2>3. CASE MarkStale(r)
    BY <1>1, <1>2, <2>3 DEF MarkStale, TypeOK
  <2>4. CASE Lapse(r)
    BY <1>1, <1>2, <2>4 DEF Lapse, TypeOK
  <2> QED BY <2>1, <2>2, <2>3, <2>4
<1>c. \A rt \in Routes : current'[rt] # None => RouteOf[current'[rt]] = rt
  BY <1>1 DEF CatalogSound, Publish, Withdraw, MarkStale, Lapse, TypeOK
<1>8. \A q \in Revisions : status[q] # "draft" =>
           /\ status'[q] # "draft"
           /\ status[q] # "verified" => status'[q] # "verified"
           /\ q \notin lapsed' => q \notin lapsed
           /\ ~ Eligible(q) => ~ Eligible(q)'
  <2> SUFFICES ASSUME NEW q \in Revisions, status[q] # "draft"
               PROVE  /\ status'[q] # "draft"
                      /\ status[q] # "verified" => status'[q] # "verified"
                      /\ q \notin lapsed' => q \notin lapsed
    BY <1>2, <1>7 DEF Eligible
  <2>1. CASE Publish(r)
    BY <1>1, <2>1 DEF Publish, TypeOK
  <2>2. CASE Withdraw(r)
    BY <1>1, <2>2 DEF Withdraw, TypeOK
  <2>3. CASE MarkStale(r)
    BY <1>1, <2>3 DEF MarkStale, TypeOK
  <2>4. CASE Lapse(r)
    BY <1>1, <2>4 DEF Lapse, TypeOK
  <2> QED BY <2>1, <2>2, <2>3, <2>4
<1>9. CatalogSound'
  BY <1>3, <1>4, <1>7, <1>8, <1>c DEF CatalogSound
<1>10. WitnessSound'
  <2> SUFFICES ASSUME NEW s \in Requests, Running(s), NEW q \in Revisions, Eligible(q)'
               PROVE  q \in witness'[s]
    BY <1>4 DEF WitnessSound, Running
  <2>1. CASE status[q] # "draft"
    BY <1>1, <1>4, <1>8, <2>1 DEF WitnessSound
  <2>2. CASE status[q] = "draft"
    <3>1. status'[q] = "verified"
      BY DEF Eligible
    <3>2. Publish(r) /\ q = r
      BY <1>1, <2>2, <3>1 DEF Publish, Withdraw, MarkStale, Lapse, TypeOK
    <3> QED BY <3>2 DEF Publish
  <2> QED BY <2>1, <2>2
<1>11. RequestsSound'
  BY <1>4, <1>8, SoundAfterEdit
<1> QED BY <1>6, <1>9, <1>10, <1>11 DEF ChallengeInv

LEMMA StutterKeeps == ChallengeInv /\ UNCHANGED vars => ChallengeInv'
BY DEF vars, ChallengeInv, TypeOK, CatalogSound, WitnessSound, RequestsSound, Sound,
       Running, Eligible, Replacing, Locked

LEMMA NextKeeps == ChallengeInv /\ [Next]_vars => ChallengeInv'
<1> SUFFICES ASSUME ChallengeInv, [Next]_vars PROVE ChallengeInv'
  OBVIOUS
<1>1. CASE Edit
  BY <1>1, EditKeeps
<1>2. ASSUME NEW s \in Requests, Begin(s) \/ Step(s) \/ Crash(s) PROVE ChallengeInv'
  BY <1>2, BeginKeeps, ReadRevisionKeeps, ServeKeeps, RejectKeeps, LockKeeps, LookAgainKeeps,
     DeleteKeeps, ChooseKeeps, InsertKeeps, EndKeeps DEF Step
<1>3. CASE UNCHANGED vars
  BY <1>3, StutterKeeps
<1> QED BY <1>1, <1>2, <1>3 DEF Next

-----------------------------------------------------------------------------
(* The theorems *)

\* The inductive invariant holds in every state.
THEOREM ChallengeInvariant == Spec => []ChallengeInv
BY InitInv, NextKeeps, PTL DEF Spec

\* The variables keep their types.
THEOREM TypeCorrect == Spec => []TypeOK
<1>1. ChallengeInv => TypeOK
  BY DEF ChallengeInv
<1> QED BY <1>1, ChallengeInvariant, PTL

\* Under the advisory lock the INSERT never meets a row of another request, in any
\* interleaving of any number of requests.
THEOREM InsertsFindFree == Spec => []InsertFindsFree
<1>1. ChallengeInv => InsertFindsFree
  <2> SUFFICES ASSUME ChallengeInv, NEW s \in Requests, tx[s].pc = "insert" PROVE Free(s)
    BY DEF InsertFindsFree
  <2>1. Sound(s, tx[s])
    BY Standing
  <2>2. holder = s /\ row = tx[s].removed
    BY <2>1 DEF Sound, Locked, Replacing
  <2>3. \A o \in Requests \ {s} : tx[o].choice = None
    BY <2>2, Standing DEF Sound
  <2> QED BY <2>2, <2>3 DEF Free
<1> QED BY <1>1, ChallengeInvariant, PTL

\* What is served was eligible at some moment of the request that serves it.
THEOREM ServedEligible == Spec => []ServedWasEligible
<1>1. ChallengeInv => ServedWasEligible
  <2> SUFFICES ASSUME ChallengeInv, NEW s \in Requests, tx[s].served # None
               PROVE  tx[s].served.revision \in witness[s]
    BY DEF ServedWasEligible
  <2> QED BY Standing DEF Sound
<1> QED BY <1>1, ChallengeInvariant, PTL

\* A request that replaces a puzzle still eligible had judged an earlier one.
THEOREM ReplacementHasCause == Spec => ReplacedForCause
<1>1. ASSUME ChallengeInv, [Next]_vars, NEW s \in Requests, row # None,
             tx[s].pc = "commit", tx'[s].pc = "done", row' # row, Eligible(row.revision)
      PROVE  tx[s].held # None /\ tx[s].held # row
  <2>1. PICK o \in Requests : Commit(o)
    BY <1>1 DEF vars, Next, Edit, Publish, Withdraw, MarkStale, Lapse, Step, Begin, ReadRevision,
       Serve, Reject, Lock, LookAgain, Delete, Choose, NothingToServe, Insert, Crash
  <2>2. tx[o].choice # None /\ row' = tx[o].served
    BY <1>1, <2>1 DEF Commit
  <2>3. tx'[s] # tx[s]
    BY <1>1
  <2>4. o = s
    BY <1>1, <2>1, <2>3, Standing DEF Commit, Close, Go, ChallengeInv, TypeOK
  <2>5. tx[s].removed = row /\ (tx[s].held = None => tx[s].removed = None)
        /\ (tx[s].held # None => ~ Eligible(tx[s].held.revision))
    BY <1>1, <2>2, <2>4, Standing DEF Sound, Replacing
  <2> QED BY <1>1, <2>5
<1>2. ChallengeInv /\ [Next]_vars =>
        [\A s \in Requests :
           row # None /\ tx[s].pc = "commit" /\ tx'[s].pc = "done" /\ row' # row /\ Eligible(row.revision)
             => tx[s].held # None /\ tx[s].held # row]_vars
  BY <1>1
<1> QED BY <1>2, ChallengeInvariant, PTL DEF Spec, ReplacedForCause
-----------------------------------------------------------------------------
(* That every request ends: what RequestsEnd rests on besides the fairness *)
(* of the steps                                                            *)

\* Who holds the lock is past it and has not ended.
HolderPlaces == holder # None => tx[holder].pc \in Locked \cup {"revision", "judge", "commit"}

LEMMA HolderStep == TypeOK /\ HolderPlaces /\ [Next]_vars => HolderPlaces'
<1> SUFFICES ASSUME TypeOK, HolderPlaces, [Next]_vars, holder' # None
             PROVE  tx'[holder'].pc \in Locked \cup {"revision", "judge", "commit"}
  BY DEF HolderPlaces
<1>1. CASE Edit \/ UNCHANGED vars
  BY <1>1 DEF HolderPlaces, Edit, Publish, Withdraw, MarkStale, Lapse, vars
<1>2. ASSUME NEW s \in Requests, Begin(s) \/ Step(s) \/ Crash(s)
      PROVE  tx'[holder'].pc \in Locked \cup {"revision", "judge", "commit"}
  <2>1. ASSUME Lock(s) PROVE tx'[holder'].pc \in Locked \cup {"revision", "judge", "commit"}
    BY <2>1 DEF Lock, Go, AfterLock, TypeOK, Locked
  <2>2. ASSUME NothingToServe(s) \/ Commit(s) \/ Crash(s)
        PROVE  tx'[holder'].pc \in Locked \cup {"revision", "judge", "commit"}
    BY <2>2 DEF NothingToServe, Commit, Crash, Close, Go, TypeOK, HolderPlaces
  <2>3. ASSUME \/ Begin(s) \/ ReadRevision(s) \/ Serve(s) \/ Reject(s)
               \/ LookAgain(s) \/ Delete(s) \/ Choose(s) \/ Insert(s)
        PROVE  tx'[holder'].pc \in Locked \cup {"revision", "judge", "commit"}
    <3>1. holder' = holder /\ holder \in Requests
      BY <2>3 DEF Begin, ReadRevision, Serve, Reject, LookAgain, Delete, Choose, Insert, TypeOK
    <3>2. CASE holder # s
      BY <2>3, <3>1, <3>2
         DEF Begin, ReadRevision, Serve, Reject, LookAgain, Delete, Choose, Insert, Go,
             TypeOK, HolderPlaces
    <3>3. CASE holder = s
      <4>1. tx[s] \in Local /\ tx[s].pc \notin {"idle", "lock", "done"}
        BY <3>1, <3>3 DEF HolderPlaces, TypeOK, Locked
      <4>2. ASSUME ReadRevision(s) PROVE tx'[s].pc = "judge"
        BY <4>1, <4>2 DEF ReadRevision, Go, TypeOK, Local
      <4>3. ASSUME Serve(s) PROVE tx'[s].pc = "commit"
        BY <4>1, <4>3 DEF Serve, Go, TypeOK, Local
      <4>4. ASSUME Reject(s) PROVE tx'[s].pc = "delete"
        BY <3>3, <4>1, <4>4 DEF Reject, Go, TypeOK, Local
      <4>5. ASSUME LookAgain(s) PROVE tx'[s].pc \in {"choose", "revision"}
        BY <4>1, <4>5 DEF LookAgain, Go, TypeOK, Local
      <4>6. ASSUME Delete(s) PROVE tx'[s].pc = "choose"
        BY <4>1, <4>6 DEF Delete, Go, TypeOK, Local
      <4>7. ASSUME Choose(s) PROVE tx'[s].pc = "insert"
        BY <4>1, <4>7 DEF Choose, Go, TypeOK, Local
      <4>8. ASSUME Insert(s) PROVE tx'[s].pc = "commit"
        BY <4>1, <4>8 DEF Insert, Go, TypeOK, Local
      <4>9. ~ Begin(s)
        BY <4>1 DEF Begin
      <4> QED
        BY <2>3, <3>1, <3>3, <4>2, <4>3, <4>4, <4>5, <4>6, <4>7, <4>8, <4>9 DEF Locked
    <3> QED BY <3>2, <3>3
  <2> QED BY <1>2, <2>1, <2>2, <2>3 DEF Step
<1> QED BY <1>1, <1>2 DEF Next

\* The advisory lock belongs to a request that is still running and does not wait for
\* it again: pg_advisory_xact_lock is released however the transaction ends.
THEOREM HolderGoesOn == Spec => []HolderPlaces
<1>1. Init => HolderPlaces
  BY DEF Init, HolderPlaces
<1> QED BY <1>1, HolderStep, TypeCorrect, PTL DEF Spec

\* How many statements a request at pc has still before it, at most, with or without
\* the lock.
StepsFrom(pc, holds) ==
    CASE pc = "idle" -> 11
      [] pc = "revision" -> IF holds THEN 6 ELSE 10
      [] pc = "judge" -> IF holds THEN 5 ELSE 9
      [] pc = "lock" -> 8
      [] pc = "again" -> 7
      [] pc = "delete" -> 4
      [] pc = "choose" -> 3
      [] pc = "insert" -> 2
      [] pc = "commit" -> 1
      [] OTHER -> 0
StepsLeft(s) == StepsFrom(tx[s].pc, holder = s)

\* A request never goes back: it judges at most twice, before it has the lock and after,
\* and nothing that the others do makes its way longer.
Onward(s) ==
    /\ StepsLeft(s)' <= StepsLeft(s)
    /\ tx'[s] # tx[s] => StepsLeft(s)' < StepsLeft(s)

LEMMA OwnStep ==
  ASSUME ChallengeInv, NEW s \in Requests, Begin(s) \/ Step(s) \/ Crash(s)
  PROVE  StepsLeft(s)' < StepsLeft(s)
<1>0. TypeOK /\ tx[s] \in Local
  BY DEF ChallengeInv, TypeOK
<1>1. ASSUME Begin(s) PROVE StepsLeft(s)' < StepsLeft(s)
  <2>1. tx[s].pc = "idle" /\ tx'[s].pc \in {"lock", "revision"}
    BY <1>0, <1>1 DEF Begin, Go, TypeOK, Local
  <2> QED BY <2>1 DEF StepsLeft, StepsFrom
<1>2. ASSUME ReadRevision(s) PROVE StepsLeft(s)' < StepsLeft(s)
  <2>1. tx[s].pc = "revision" /\ tx'[s].pc = "judge" /\ holder' = holder
    BY <1>0, <1>2 DEF ReadRevision, Go, TypeOK, Local
  <2> QED BY <2>1 DEF StepsLeft, StepsFrom
<1>3. ASSUME Serve(s) PROVE StepsLeft(s)' < StepsLeft(s)
  <2>1. tx[s].pc = "judge" /\ tx'[s].pc = "commit"
    BY <1>0, <1>3 DEF Serve, Go, TypeOK, Local
  <2> QED BY <2>1 DEF StepsLeft, StepsFrom
<1>4. ASSUME Reject(s) PROVE StepsLeft(s)' < StepsLeft(s)
  <2>1. tx[s].pc = "judge" /\ tx'[s].pc = IF holder = s THEN "delete" ELSE "lock"
    BY <1>0, <1>4 DEF Reject, Go, TypeOK, Local
  <2> QED BY <2>1 DEF StepsLeft, StepsFrom
<1>5. ASSUME Lock(s) PROVE StepsLeft(s)' < StepsLeft(s)
  <2>1. tx[s].pc = "lock" /\ tx'[s].pc \in {"again", "judge"} /\ holder' = s
    BY <1>0, <1>5 DEF Lock, AfterLock, Go, TypeOK, Local
  <2> QED BY <2>1 DEF StepsLeft, StepsFrom
<1>6. ASSUME LookAgain(s) PROVE StepsLeft(s)' < StepsLeft(s)
  <2>1. tx[s].pc = "again" /\ tx'[s].pc \in {"choose", "revision"} /\ holder' = s
    <3>1. tx[s].pc = "again" /\ tx'[s].pc \in {"choose", "revision"} /\ holder' = holder
      BY <1>0, <1>6 DEF LookAgain, Go, TypeOK, Local
    <3> QED BY <3>1, Standing DEF Sound, Locked
  <2> QED BY <2>1 DEF StepsLeft, StepsFrom
<1>7. ASSUME Delete(s) \/ Choose(s) \/ Insert(s) PROVE StepsLeft(s)' < StepsLeft(s)
  <2>1. Delete(s) => tx[s].pc = "delete" /\ tx'[s].pc = "choose"
    BY <1>0 DEF Delete, Go, TypeOK, Local
  <2>2. Choose(s) => tx[s].pc = "choose" /\ tx'[s].pc = "insert"
    BY <1>0 DEF Choose, Go, TypeOK, Local
  <2>3. Insert(s) => tx[s].pc = "insert" /\ tx'[s].pc = "commit"
    BY <1>0 DEF Insert, Go, TypeOK, Local
  <2> QED BY <1>7, <2>1, <2>2, <2>3 DEF StepsLeft, StepsFrom
<1>8. ASSUME NothingToServe(s) \/ Commit(s) \/ Crash(s) PROVE StepsLeft(s)' < StepsLeft(s)
  <2>1. tx[s].pc \notin {"idle", "done"} /\ tx'[s].pc = "done"
    BY <1>0, <1>8 DEF NothingToServe, Commit, Crash, Running, Close, Go, NewRequest, TypeOK, Local
  <2> QED BY <1>0, <2>1 DEF StepsLeft, StepsFrom, Local
<1> QED
  BY <1>1, <1>2, <1>3, <1>4, <1>5, <1>6, <1>7, <1>8 DEF Step

\* The lock changes hands from none to the one who takes it, and back.
LEMMA OthersStep ==
  ASSUME TypeOK, NEW s \in Requests, NEW o \in Requests, o # s, Begin(o) \/ Step(o) \/ Crash(o)
  PROVE  tx'[s] = tx[s] /\ StepsLeft(s)' = StepsLeft(s)
<1>1. tx'[s] = tx[s]
  BY DEF Begin, Step, Crash, ReadRevision, Serve, Reject, Lock, LookAgain, Delete, Choose,
         NothingToServe, Insert, Commit, Close, Go, TypeOK
<1>2. holder' = s <=> holder = s
  BY DEF Begin, Step, Crash, ReadRevision, Serve, Reject, Lock, LookAgain, Delete, Choose,
         NothingToServe, Insert, Commit, Close
<1> QED BY <1>1, <1>2 DEF StepsLeft

LEMMA StepsAreNumbers ==
  ASSUME NEW s
  PROVE  StepsLeft(s) \in Nat
BY DEF StepsLeft, StepsFrom

\* A request never goes back, whatever the editors and the other requests do.
THEOREM RequestsGoOnward == Spec => [][\A s \in Requests : Onward(s)]_vars
<1>1. ASSUME ChallengeInv, [Next]_vars, NEW s \in Requests PROVE Onward(s)
  <2>1. CASE Edit \/ UNCHANGED vars
    <3>1. tx' = tx /\ holder' = holder
      BY <2>1 DEF Edit, Publish, Withdraw, MarkStale, Lapse, vars
    <3>2. StepsLeft(s)' = StepsLeft(s)
      BY <3>1 DEF StepsLeft
    <3> QED BY <3>1, <3>2, StepsAreNumbers DEF Onward
  <2>2. ASSUME NEW o \in Requests, Begin(o) \/ Step(o) \/ Crash(o) PROVE Onward(s)
    <3>1. CASE o = s
      <4>1. StepsLeft(s)' < StepsLeft(s)
        BY <1>1, <2>2, <3>1, OwnStep
      <4>2. StepsLeft(s) \in Nat /\ StepsLeft(s)' \in Nat
        BY StepsAreNumbers DEF StepsLeft, StepsFrom
      <4> QED BY <4>1, <4>2 DEF Onward
    <3>2. CASE o # s
      BY <1>1, <2>2, <3>2, OthersStep, StepsAreNumbers DEF Onward, ChallengeInv
    <3> QED BY <3>1, <3>2
  <2> QED BY <1>1, <2>1, <2>2 DEF Next
<1>2. ChallengeInv /\ [Next]_vars => [\A s \in Requests : Onward(s)]_vars
  BY <1>1
<1> QED BY <1>2, ChallengeInvariant, PTL DEF Spec
=============================================================================
