---------------------------- MODULE DossiersProofs ----------------------------
(***************************************************************************)
(* What TLAPS proves of dossiers, their sections and their contents, for   *)
(* every set of them and of requests.                                      *)
(*                                                                         *)
(* Dossiers.  What was sent, is examined or decided has its snapshot,      *)
(* however requests overlap (SubmittedIsSnapshotted), and the dossiers     *)
(* follow DossierLifecycle when they do not (FollowsDossierLifecycle).     *)
(* A request writes what it decided from a row it read before, so the      *)
(* invariant speaks of the requests in flight: the row a move is about     *)
(* exists, and what the move needs of a snapshot it takes or the row has   *)
(* (MovesSnapshot).  Both outlast the writes of the others, because no     *)
(* request takes a row or a snapshot away.  The life cycle needs more, and *)
(* has it only while requests come one by one: the row is still the one    *)
(* the move was decided from (MovesAreCurrent).                            *)
(*                                                                         *)
(* DossierSections.  Without overlap a request writes the sections it read *)
(* and changes but its own (OnlyItsSectionChanges).                        *)
(*                                                                         *)
(* DossierContents.  The requests that lock a checklist read it again      *)
(* under the lock, so that whoever holds it has read its last version: no  *)
(* item refers to a document that is gone (ItemsHaveDocuments), and no     *)
(* item but its own changes (OnlyItsItemChanges).                          *)
(***************************************************************************)
EXTENDS Dossiers, DossierSections, DossierContents, TLAPS

Sent == Submissions \cup {"under_review", "accepted", "rejected"}

MoveRequests == [op : {"move"}, on : DossierIds, to : Statuses, snap : BOOLEAN]
DossierWork == [op : {"create"}, keyed : BOOLEAN] \cup [op : {"delete"}] \cup MoveRequests
               \cup {NoDossierRequest}
Moving(r) == dossierReq[r].op = "move"

DossierTypes ==
    /\ dossier \in [DossierIds -> DossierRows]
    /\ catalogue \in Versions
    /\ dossierReq \in [DossierRequests -> DossierWork]

MovesSnapshot ==
    \A r \in DossierRequests : Moving(r) =>
        LET q == dossierReq[r] IN
        /\ dossier[q.on] # NoDossier
        /\ q.to \in Sent => q.snap \/ dossier[q.on].snap # "none"

DossierInv == DossierTypes /\ MovesSnapshot /\ SubmittedIsSnapshotted

-----------------------------------------------------------------------------
(* The transitions *)

\* Only what was sent is examined, and only what is examined is decided.
LEMMA SentComesFromSubmission ==
    \A s \in Statuses, t \in Sent : <<s, t>> \in Transitions => t \in Submissions \/ s \in Sent
  BY DEF Transitions, Statuses, Sent, Submissions

LEMMA StatusFacts == "absent" \notin Statuses /\ "draft" \in Statuses /\ "draft" \notin Sent
                     /\ \A s, t : <<s, t>> \in Transitions => s \in Statuses /\ t \in Statuses
  BY DEF Transitions, Statuses, Sent, Submissions

LEMMA RequestFacts ==
    ASSUME DossierTypes, NEW r \in DossierRequests, Moving(r)
    PROVE  dossierReq[r] \in MoveRequests
<1>1. dossierReq[r] \in DossierWork
  BY DEF DossierTypes
<1>2. \A q \in DossierWork : q.op = "move" => q \in MoveRequests
  BY DEF DossierWork, MoveRequests, NoDossierRequest
<1>3. QED BY <1>1, <1>2 DEF Moving

Rows == [st : Statuses, keyed : BOOLEAN, snap : {"none"} \cup Versions]

LEMMA RowFacts ==
    ASSUME DossierTypes, NEW d \in DossierIds
    PROVE  /\ dossier[d] # NoDossier <=> dossier[d].st \in Statuses
           /\ dossier[d] # NoDossier => dossier[d] \in Rows
           /\ dossier[d] = NoDossier => dossier[d].st = "absent" /\ dossier[d].snap = "none"
<1>1. dossier[d] \in Rows \cup {NoDossier}
  BY DEF DossierTypes, DossierRows, Rows
<1>2. NoDossier.st = "absent" /\ NoDossier.snap = "none"
  BY DEF NoDossier
<1>3. \A row \in Rows : row.st \in Statuses
  BY DEF Rows
<1>4. QED BY <1>1, <1>2, <1>3, StatusFacts

-----------------------------------------------------------------------------
(* What each request writes *)

\* The row a creation writes, and the row a move writes.
LEMMA CreationWrites ==
    ASSUME DossierInv, NEW r \in DossierRequests, NEW d \in DossierIds, FinishCreate(r, d)
    PROVE  /\ dossier[d] = NoDossier
           /\ dossier'[d] \in [st : {"draft"}, keyed : BOOLEAN, snap : {"none"}]
           /\ \A x \in DossierIds \ {d} : dossier'[x] = dossier[x]
           /\ dossier' \in [DossierIds -> DossierRows]
<1>1. dossierReq[r].op = "create" /\ dossierReq[r] \in DossierWork
  BY DEF FinishCreate, EndDossier, DossierInv, DossierTypes
<1>2. dossierReq[r].keyed \in BOOLEAN
  <2>1. \A q \in DossierWork : q.op = "create" => q.keyed \in BOOLEAN
    BY DEF DossierWork, MoveRequests, NoDossierRequest
  <2>2. QED BY <1>1, <2>1
<1> DEFINE row == [st |-> "draft", keyed |-> dossierReq[r].keyed, snap |-> "none"]
<1>3. row \in [st : {"draft"}, keyed : BOOLEAN, snap : {"none"}] /\ row \in DossierRows
  BY <1>2, StatusFacts DEF DossierRows
<1>4. dossier' = [dossier EXCEPT ![d] = row] /\ dossier[d] = NoDossier
  BY DEF FinishCreate
<1> HIDE DEF row
<1>5. QED BY <1>3, <1>4 DEF DossierInv, DossierTypes

LEMMA MoveWrites ==
    ASSUME DossierInv, NEW r \in DossierRequests, FinishMove(r)
    PROVE  LET q == dossierReq[r] IN
           /\ q \in MoveRequests /\ q.on \in DossierIds /\ q.to \in Statuses
           /\ dossier[q.on] # NoDossier
           /\ dossier'[q.on] = [st |-> q.to, keyed |-> dossier[q.on].keyed,
                                snap |-> IF q.snap THEN catalogue ELSE dossier[q.on].snap]
           /\ \A x \in DossierIds \ {q.on} : dossier'[x] = dossier[x]
           /\ dossier' \in [DossierIds -> DossierRows]
<1> DEFINE q == dossierReq[r]
<1>1. Moving(r) /\ q \in MoveRequests
  BY RequestFacts DEF FinishMove, EndDossier, Moving, DossierInv
<1>2. q.on \in DossierIds /\ q.to \in Statuses /\ dossier[q.on] # NoDossier
  BY <1>1 DEF MoveRequests, DossierInv, MovesSnapshot
<1> DEFINE old == dossier[q.on]
           row == [st |-> q.to, keyed |-> old.keyed, snap |-> IF q.snap THEN catalogue ELSE old.snap]
<1>3. old \in Rows
  BY <1>2, RowFacts DEF DossierInv
<1>4. row \in DossierRows
  BY <1>2, <1>3 DEF Rows, DossierRows, DossierInv, DossierTypes
<1>7. dossier' = [dossier EXCEPT ![q.on] = row]
  BY DEF FinishMove
<1> HIDE DEF row, old
<1>8. dossier'[q.on] = row /\ \A x \in DossierIds \ {q.on} : dossier'[x] = dossier[x]
  BY <1>2, <1>7 DEF DossierInv, DossierTypes
<1>9. dossier' \in [DossierIds -> DossierRows]
  BY <1>2, <1>4, <1>7 DEF DossierInv, DossierTypes
<1>10. QED BY <1>1, <1>2, <1>8, <1>9 DEF row, old

-----------------------------------------------------------------------------
(* However requests overlap *)

\* What every step keeps of a row: it stays, it keeps its snapshot, and it is sent with
\* one.
LEMMA MovesSnapshotKept ==
    ASSUME DossierInv, NEW r \in DossierRequests, dossierReq'[r] = dossierReq[r],
           DossierTypes',
           \A x \in DossierIds : /\ dossier[x] # NoDossier => dossier'[x] # NoDossier
                                 /\ dossier[x].snap # "none" => dossier'[x].snap # "none",
           Moving(r)
    PROVE  LET q == dossierReq'[r] IN
           /\ dossier'[q.on] # NoDossier
           /\ q.to \in Sent => q.snap \/ dossier'[q.on].snap # "none"
<1>1. dossierReq[r] \in MoveRequests
  BY RequestFacts DEF DossierInv
<1>2. QED BY <1>1 DEF MoveRequests, DossierInv, MovesSnapshot

LEMMA DossierInit == InitDossiers => DossierInv
<1>1. SUFFICES ASSUME InitDossiers PROVE DossierInv
  OBVIOUS
<1>2. DossierTypes
  BY <1>1 DEF InitDossiers, DossierTypes, DossierRows, DossierWork, Versions
<1>3. MovesSnapshot
  BY <1>1 DEF InitDossiers, MovesSnapshot, Moving, NoDossierRequest
<1>4. SubmittedIsSnapshotted
  BY <1>1 DEF InitDossiers, SubmittedIsSnapshotted, Submissions, NoDossier
<1>5. QED BY <1>2, <1>3, <1>4 DEF DossierInv

\* A request begins: no row changes.
LEMMA BeginKeeps ==
    ASSUME DossierInv, NEW r \in DossierRequests, NEW what \in DossierWork,
           BeginDossier(r, what),
           what.op = "move" => /\ dossier[what.on] # NoDossier
                               /\ what.to \in Sent => what.snap \/ dossier[what.on].snap # "none"
    PROVE  DossierInv'
<1>1. /\ dossierReq'[r] = what
      /\ \A p \in DossierRequests \ {r} : dossierReq'[p] = dossierReq[p]
      /\ dossierReq' \in [DossierRequests -> DossierWork]
      /\ UNCHANGED <<dossier, catalogue>>
  BY DEF BeginDossier, DossierInv, DossierTypes
<1>2. DossierTypes'
  BY <1>1 DEF DossierInv, DossierTypes
<1>3. MovesSnapshot'
  BY <1>1 DEF DossierInv, MovesSnapshot, Moving
<1>4. QED BY <1>1, <1>2, <1>3 DEF DossierInv, SubmittedIsSnapshotted

\* A request ends: the others stay, and the rows they are about keep what they need.
LEMMA EndKeeps ==
    ASSUME DossierInv, NEW r \in DossierRequests, NEW op, EndDossier(r, op),
           dossier' \in [DossierIds -> DossierRows],
           SubmittedIsSnapshotted',
           \A x \in DossierIds : /\ dossier[x] # NoDossier => dossier'[x] # NoDossier
                                 /\ dossier[x].snap # "none" => dossier'[x].snap # "none"
    PROVE  DossierInv'
<1>1. /\ dossierReq'[r] = NoDossierRequest
      /\ \A p \in DossierRequests \ {r} : dossierReq'[p] = dossierReq[p]
      /\ dossierReq' \in [DossierRequests -> DossierWork]
      /\ UNCHANGED catalogue
  BY DEF EndDossier, DossierInv, DossierTypes, DossierWork
<1>2. DossierTypes'
  BY <1>1 DEF DossierInv, DossierTypes
<1>3. MovesSnapshot'
  <2>1. SUFFICES ASSUME NEW p \in DossierRequests, Moving(p)'
                 PROVE  LET q == dossierReq'[p] IN
                        /\ dossier'[q.on] # NoDossier
                        /\ q.to \in Sent => q.snap \/ dossier'[q.on].snap # "none"
    BY DEF MovesSnapshot
  <2>2. p # r
    BY <1>1, <2>1 DEF Moving, NoDossierRequest
  <2>3. dossierReq'[p] = dossierReq[p] /\ Moving(p)
    BY <1>1, <2>1, <2>2 DEF Moving
  <2>4. QED BY <1>2, <2>3, MovesSnapshotKept
<1>4. QED BY <1>2, <1>3 DEF DossierInv

LEMMA CreationKeeps ==
    ASSUME DossierInv, NEW r \in DossierRequests, NEW d \in DossierIds, FinishCreate(r, d)
    PROVE  DossierInv'
<1>1. /\ dossier[d] = NoDossier
      /\ dossier'[d] \in [st : {"draft"}, keyed : BOOLEAN, snap : {"none"}]
      /\ \A x \in DossierIds \ {d} : dossier'[x] = dossier[x]
      /\ dossier' \in [DossierIds -> DossierRows]
  BY CreationWrites
<1>2. dossier'[d].st = "draft" /\ dossier'[d] # NoDossier /\ dossier[d].snap = "none"
  BY <1>1 DEF NoDossier
<1>3. SubmittedIsSnapshotted'
  BY <1>1, <1>2, StatusFacts DEF DossierInv, SubmittedIsSnapshotted, Sent
<1>4. EndDossier(r, "create")
  BY DEF FinishCreate
<1>5. QED BY <1>1, <1>2, <1>3, <1>4, EndKeeps

LEMMA MoveKeeps ==
    ASSUME DossierInv, NEW r \in DossierRequests, FinishMove(r)
    PROVE  DossierInv'
<1> DEFINE q == dossierReq[r]
<1>1. /\ q \in MoveRequests /\ q.on \in DossierIds /\ q.to \in Statuses
      /\ dossier[q.on] # NoDossier
      /\ dossier'[q.on] = [st |-> q.to, keyed |-> dossier[q.on].keyed,
                           snap |-> IF q.snap THEN catalogue ELSE dossier[q.on].snap]
      /\ \A x \in DossierIds \ {q.on} : dossier'[x] = dossier[x]
      /\ dossier' \in [DossierIds -> DossierRows]
  BY MoveWrites
<1>2. EndDossier(r, "move") /\ Moving(r)
  BY DEF FinishMove, EndDossier, Moving
<1>3. q.to \in Sent => q.snap \/ dossier[q.on].snap # "none"
  BY <1>2 DEF DossierInv, MovesSnapshot
<1>4. catalogue # "none"
  BY DEF DossierInv, DossierTypes, Versions
<1> HIDE DEF q
<1>5. /\ dossier'[q.on].st = q.to
      /\ dossier[q.on].snap # "none" => dossier'[q.on].snap # "none"
      /\ q.to \in Sent => dossier'[q.on].snap # "none"
  BY <1>1, <1>3, <1>4
<1>6. dossier'[q.on] # NoDossier
  BY <1>1, <1>5, StatusFacts DEF NoDossier
<1>7. SubmittedIsSnapshotted'
  BY <1>1, <1>5 DEF DossierInv, SubmittedIsSnapshotted, Sent
<1>8. QED BY <1>1, <1>2, <1>5, <1>6, <1>7, EndKeeps

LEMMA DossierStep == DossierInv /\ [NextDossiers]_dossierVars => DossierInv'
<1> SUFFICES ASSUME DossierInv, [NextDossiers]_dossierVars PROVE DossierInv'
  OBVIOUS
<1>1. CASE UNCHANGED dossierVars
  BY <1>1 DEF dossierVars, DossierInv, DossierTypes, MovesSnapshot, Moving,
              SubmittedIsSnapshotted
<1>2. ASSUME NEW r \in DossierRequests, NEW keyed \in BOOLEAN, StartCreate(r, keyed)
      PROVE  DossierInv'
  <2> DEFINE what == [op |-> "create", keyed |-> keyed]
  <2>1. what \in DossierWork /\ what.op # "move"
    BY DEF DossierWork
  <2>2. BeginDossier(r, what)
    BY <1>2 DEF StartCreate
  <2> HIDE DEF what
  <2>3. QED BY <2>1, <2>2, BeginKeeps
<1>3. ASSUME NEW r \in DossierRequests, NEW force \in BOOLEAN, StartDeleteProject(r, force)
      PROVE  DossierInv'
  <2> DEFINE what == [op |-> "delete"]
  <2>1. what \in DossierWork /\ what.op # "move"
    BY DEF DossierWork
  <2>2. BeginDossier(r, what)
    BY <1>3 DEF StartDeleteProject
  <2> HIDE DEF what
  <2>3. QED BY <2>1, <2>2, BeginKeeps
<1>4. ASSUME NEW r \in DossierRequests, NEW d \in DossierIds, NEW to \in Statuses,
             StartMove(r, d, to)
      PROVE  DossierInv'
  <2> DEFINE what == [op |-> "move", on |-> d, to |-> to, snap |-> TakesSnapshot(d, to)]
  <2>1. TakesSnapshot(d, to) \in BOOLEAN
    BY DEF TakesSnapshot
  <2>2. what \in DossierWork /\ what.on = d /\ what.to = to /\ what.snap = TakesSnapshot(d, to)
    BY <2>1 DEF DossierWork, MoveRequests
  <2>3. BeginDossier(r, what) /\ <<dossier[d].st, to>> \in Transitions
    BY <1>4 DEF StartMove
  <2>4. dossier[d] # NoDossier /\ dossier[d].st \in Statuses
    BY <2>3, StatusFacts, RowFacts DEF DossierInv
  <2>5. to \in Sent => TakesSnapshot(d, to) \/ dossier[d].snap # "none"
    BY <2>3, <2>4, SentComesFromSubmission
    DEF TakesSnapshot, DossierInv, SubmittedIsSnapshotted, Sent
  <2> HIDE DEF what
  <2>6. QED BY <2>2, <2>3, <2>4, <2>5, BeginKeeps
<1>5. ASSUME NEW r \in DossierRequests, FinishDeleteProject(r) PROVE DossierInv'
  <2>1. EndDossier(r, "delete") /\ UNCHANGED dossier
    BY <1>5 DEF FinishDeleteProject
  <2>2. SubmittedIsSnapshotted' /\ dossier' \in [DossierIds -> DossierRows]
    BY <2>1 DEF DossierInv, DossierTypes, SubmittedIsSnapshotted
  <2>3. QED BY <2>1, <2>2, EndKeeps
<1>6. CASE ReopenProject \/ ChangeCatalogue
  BY <1>6 DEF ReopenProject, ChangeCatalogue, DossierInv, DossierTypes, MovesSnapshot, Moving,
              SubmittedIsSnapshotted
<1>7. QED
  BY <1>1, <1>2, <1>3, <1>4, <1>5, <1>6, CreationKeeps, MoveKeeps DEF NextDossiers

\* A dossier that was sent, is examined or decided has its snapshot, however
\* requests overlap.
THEOREM SentIsSnapshotted == SpecDossiers => []SubmittedIsSnapshotted
<1>1. DossierInv => SubmittedIsSnapshotted
  BY DEF DossierInv
<1>2. QED BY <1>1, DossierInit, DossierStep, PTL DEF SpecDossiers

-----------------------------------------------------------------------------
(* When requests come one by one *)

Idle(r) == dossierReq[r] = NoDossierRequest

\* The row is the one the move was decided from.
MovesAreCurrent ==
    \A r \in DossierRequests : Moving(r) =>
        LET q == dossierReq[r] IN
        /\ <<dossier[q.on].st, q.to>> \in Transitions
        /\ q.snap = TakesSnapshot(q.on, q.to)

OneByOne ==
    ~ dossierOverlap =>
        /\ \A r, p \in DossierRequests : Idle(r) \/ Idle(p) \/ r = p
        /\ MovesAreCurrent

LEMMA OneByOneInit == InitDossiers => OneByOne
  BY DEF InitDossiers, OneByOne, Idle, MovesAreCurrent, Moving, NoDossierRequest

LEMMA BeginOneByOne ==
    ASSUME DossierInv, OneByOne, NEW r \in DossierRequests, NEW what, BeginDossier(r, what),
           what.op = "move" => /\ <<dossier[what.on].st, what.to>> \in Transitions
                               /\ what.snap = TakesSnapshot(what.on, what.to)
    PROVE  OneByOne'
<1> SUFFICES ASSUME ~ dossierOverlap
             PROVE  /\ \A q, p \in DossierRequests : Idle(q)' \/ Idle(p)' \/ q = p
                    /\ MovesAreCurrent'
  BY DEF OneByOne, BeginDossier
<1>1. /\ dossierReq'[r] = what
      /\ \A p \in DossierRequests \ {r} : dossierReq'[p] = NoDossierRequest
      /\ UNCHANGED dossier
  BY DEF BeginDossier, DossierInv, DossierTypes
<1>2. \A q, p \in DossierRequests : Idle(q)' \/ Idle(p)' \/ q = p
  BY <1>1 DEF Idle
<1>3. MovesAreCurrent'
  BY <1>1 DEF MovesAreCurrent, Moving, NoDossierRequest, TakesSnapshot
<1>4. QED BY <1>2, <1>3

LEMMA EndOneByOne ==
    ASSUME DossierInv, OneByOne, NEW r \in DossierRequests, NEW op, op # "none",
           EndDossier(r, op)
    PROVE  OneByOne'
<1> SUFFICES ASSUME ~ dossierOverlap
             PROVE  /\ \A q, p \in DossierRequests : Idle(q)' \/ Idle(p)' \/ q = p
                    /\ MovesAreCurrent'
  BY DEF OneByOne, EndDossier
<1>1. ~ Idle(r)
  BY DEF EndDossier, Idle, NoDossierRequest
<1>2. \A p \in DossierRequests : dossierReq'[p] = NoDossierRequest
  BY <1>1 DEF OneByOne, Idle, EndDossier, DossierInv, DossierTypes
<1>3. QED BY <1>2 DEF Idle, MovesAreCurrent, Moving, NoDossierRequest

LEMMA OneByOneStep ==
    DossierInv /\ OneByOne /\ [NextDossiers]_dossierVars => OneByOne'
<1> SUFFICES ASSUME DossierInv, OneByOne, [NextDossiers]_dossierVars PROVE OneByOne'
  OBVIOUS
<1>1. CASE UNCHANGED dossierVars
  BY <1>1 DEF dossierVars, OneByOne, Idle, MovesAreCurrent, Moving, TakesSnapshot
<1>2. ASSUME NEW r \in DossierRequests, NEW keyed \in BOOLEAN, StartCreate(r, keyed)
      PROVE  OneByOne'
  <2> DEFINE what == [op |-> "create", keyed |-> keyed]
  <2>1. what.op # "move" /\ BeginDossier(r, what)
    BY <1>2 DEF StartCreate
  <2> HIDE DEF what
  <2>2. QED BY <2>1, BeginOneByOne
<1>3. ASSUME NEW r \in DossierRequests, NEW force \in BOOLEAN, StartDeleteProject(r, force)
      PROVE  OneByOne'
  <2> DEFINE what == [op |-> "delete"]
  <2>1. what.op # "move" /\ BeginDossier(r, what)
    BY <1>3 DEF StartDeleteProject
  <2> HIDE DEF what
  <2>2. QED BY <2>1, BeginOneByOne
<1>4. ASSUME NEW r \in DossierRequests, NEW d \in DossierIds, NEW to \in Statuses,
             StartMove(r, d, to)
      PROVE  OneByOne'
  <2> DEFINE what == [op |-> "move", on |-> d, to |-> to, snap |-> TakesSnapshot(d, to)]
  <2>1. what.on = d /\ what.to = to /\ what.snap = TakesSnapshot(d, to)
    OBVIOUS
  <2>2. BeginDossier(r, what) /\ <<dossier[d].st, to>> \in Transitions
    BY <1>4 DEF StartMove
  <2> HIDE DEF what
  <2>3. QED BY <2>1, <2>2, BeginOneByOne
<1>5. ASSUME NEW r \in DossierRequests,
             (\E d \in DossierIds : FinishCreate(r, d)) \/ FinishMove(r) \/ FinishDeleteProject(r)
      PROVE  OneByOne'
  <2>1. PICK op \in {"create", "move", "delete"} : EndDossier(r, op)
    BY <1>5 DEF FinishCreate, FinishMove, FinishDeleteProject
  <2>2. QED BY <2>1, EndOneByOne
<1>6. CASE ReopenProject \/ ChangeCatalogue
  BY <1>6 DEF ReopenProject, ChangeCatalogue, OneByOne, Idle, MovesAreCurrent, Moving,
              TakesSnapshot
<1>7. QED BY <1>1, <1>2, <1>3, <1>4, <1>5, <1>6 DEF NextDossiers

-----------------------------------------------------------------------------
(* The life cycle *)

\* Every transition of the code is a step of the life cycle.
LEMMA TransitionsArePhases ==
    \A s, t : <<s, t>> \in Transitions =>
        /\ <<PhaseOf(s), PhaseOf(t)>> \in Lifecycle!Steps
        /\ PhaseOf(t) \in {"intermediary", "fund"} <=> t \in Submissions
  BY DEF Transitions, PhaseOf, Lifecycle!Steps, Submissions

\* A dossier is created in preparation.
LEMMA CreationIsAPhase ==
    ASSUME DossierInv, NEW r \in DossierRequests, NEW d \in DossierIds, FinishCreate(r, d)
    PROVE  Lifecycle!Next
<1>1. /\ dossier[d] = NoDossier
      /\ dossier'[d] \in [st : {"draft"}, keyed : BOOLEAN, snap : {"none"}]
      /\ \A x \in DossierIds \ {d} : dossier'[x] = dossier[x]
  BY CreationWrites
<1>2. /\ dossier[d].st = "absent" /\ dossier'[d].st = "draft"
      /\ dossier[d].snap = "none" /\ dossier'[d].snap = "none"
  BY <1>1 DEF NoDossier
<1>3. PhaseOf("absent") = "absent" /\ PhaseOf("draft") = "prepared"
  BY DEF PhaseOf
<1>4. <<"absent", "prepared">> \in Lifecycle!Steps
  BY DEF Lifecycle!Steps
<1>5. QED BY <1>1, <1>2, <1>3, <1>4 DEF Lifecycle!Next, Lifecycle!Step

\* A move that is current is a step of its dossier.
LEMMA MoveIsAPhase ==
    ASSUME DossierInv, MovesAreCurrent, NEW r \in DossierRequests, FinishMove(r)
    PROVE  Lifecycle!Next
<1> DEFINE q == dossierReq[r]
<1>1. /\ q.on \in DossierIds
      /\ dossier'[q.on] = [st |-> q.to, keyed |-> dossier[q.on].keyed,
                           snap |-> IF q.snap THEN catalogue ELSE dossier[q.on].snap]
      /\ \A x \in DossierIds \ {q.on} : dossier'[x] = dossier[x]
  BY MoveWrites
<1>2. <<dossier[q.on].st, q.to>> \in Transitions /\ q.snap = TakesSnapshot(q.on, q.to)
  BY DEF MovesAreCurrent, FinishMove, EndDossier, Moving
<1>3. catalogue # "none"
  BY DEF DossierInv, DossierTypes, Versions
<1> HIDE DEF q
<1>4. /\ dossier'[q.on].st = q.to
      /\ dossier'[q.on].snap = IF q.snap THEN catalogue ELSE dossier[q.on].snap
  BY <1>1
<1>5. /\ <<PhaseOf(dossier[q.on].st), PhaseOf(q.to)>> \in Lifecycle!Steps
      /\ PhaseOf(q.to) \in {"intermediary", "fund"} <=> q.to \in Submissions
  BY <1>2, TransitionsArePhases
<1>6. IF PhaseOf(q.to) \in {"intermediary", "fund"} /\ dossier[q.on].snap = "none"
      THEN dossier'[q.on].snap # "none"
      ELSE dossier'[q.on].snap = dossier[q.on].snap
  BY <1>2, <1>3, <1>4, <1>5 DEF TakesSnapshot
<1>7. QED BY <1>1, <1>4, <1>5, <1>6 DEF Lifecycle!Next, Lifecycle!Step

\* The dossiers follow the promised life cycle, and a snapshot never changes, when
\* requests do not overlap.
THEOREM DossiersFollowLifecycle == SpecDossiers => FollowsDossierLifecycle
<1>1. InitDossiers => Lifecycle!Init
  BY DEF InitDossiers, Lifecycle!Init, PhaseOf, NoDossier
<1>2. DossierInv /\ OneByOne /\ [NextDossiers]_dossierVars
      => [~ dossierOverlap => Lifecycle!Next]_dossier
  <2>1. SUFFICES ASSUME DossierInv, OneByOne, NextDossiers, dossier' # dossier,
                        ~ dossierOverlap
                 PROVE  Lifecycle!Next
    BY DEF dossierVars
  <2>2. PICK r \in DossierRequests :
            (\E d \in DossierIds : FinishCreate(r, d)) \/ FinishMove(r)
    BY <2>1 DEF NextDossiers, StartCreate, StartMove, StartDeleteProject, BeginDossier,
                FinishDeleteProject, ReopenProject, ChangeCatalogue
  <2>3. QED BY <2>1, <2>2, CreationIsAPhase, MoveIsAPhase DEF OneByOne
<1>3. QED
  BY <1>1, <1>2, DossierInit, DossierStep, OneByOneInit, OneByOneStep, PTL
  DEF SpecDossiers, FollowsDossierLifecycle

-----------------------------------------------------------------------------
(* Sections *)

SectionRows == [text : Texts, st : SectionStatuses]
Columns == [SectionKeys -> SectionRows]
SectionWork == [op : {"edit", "generate"}, key : SectionKeys, value : Columns]

SectionShape ==
    /\ sectionOverlap \in BOOLEAN
    /\ section \in Columns
    /\ sectionReq \in [SectionRequests -> SectionWork \cup {NoSectionRequest}]

\* One by one, a request writes back what it read but for its section.
SectionsAreCurrent ==
    ~ sectionOverlap =>
        \A r \in SectionRequests : sectionReq[r] # NoSectionRequest =>
            /\ \A q \in SectionRequests : sectionReq[q] # NoSectionRequest => q = r
            /\ \A s \in SectionKeys : s # sectionReq[r].key => sectionReq[r].value[s] = section[s]

SectionInv == SectionShape /\ SectionsAreCurrent

LEMMA SectionInit == InitSections => SectionInv
<1> SUFFICES ASSUME InitSections PROVE SectionInv
    OBVIOUS
<1>1. EmptySections \in Columns
    BY DEF EmptySections, Columns, SectionRows, Texts, SectionStatuses
<1> QED
    BY <1>1 DEF InitSections, SectionInv, SectionShape, SectionsAreCurrent

\* A request that begins holds the column it read, with its section replaced.
LEMMA SectionBegins ==
    ASSUME SectionInv, NEW r \in SectionRequests, NEW op \in {"edit", "generate"},
           NEW s \in SectionKeys, NEW text \in Texts, NEW st \in SectionStatuses,
           StartSectionRequest(r, op, s, text, st)
    PROVE  SectionInv'
<1> DEFINE value == WithSection(section, s, text, st)
           what == [op |-> op, key |-> s, value |-> value]
<1>1. value \in Columns /\ \A k \in SectionKeys : k # s => value[k] = section[k]
    <2>1. [text |-> text, st |-> st] \in SectionRows
        BY DEF SectionRows
    <2> QED
        BY <2>1 DEF WithSection, SectionInv, SectionShape, Columns
<1> HIDE DEF value
<1>2. what \in SectionWork /\ what.key = s /\ what.value = value
    BY <1>1 DEF SectionWork
<1> HIDE DEF what
<1>3. /\ sectionReq[r] = NoSectionRequest /\ sectionReq' = [sectionReq EXCEPT ![r] = what]
      /\ sectionOverlap \/ \A q \in SectionRequests : sectionReq[q] = NoSectionRequest
      /\ UNCHANGED <<sectionOverlap, section>>
    BY DEF StartSectionRequest, what, value
<1>4. SectionShape'
    BY <1>2, <1>3 DEF SectionInv, SectionShape
<1>5. \A q \in SectionRequests : sectionReq'[q] = IF q = r THEN what ELSE sectionReq[q]
    BY <1>3 DEF SectionInv, SectionShape
<1>6. SectionsAreCurrent'
    BY <1>1, <1>2, <1>3, <1>5 DEF SectionsAreCurrent
<1> QED
    BY <1>4, <1>6 DEF SectionInv

\* A request that ends writes its column, or nothing.
LEMMA SectionEnds ==
    ASSUME SectionInv, NEW r \in SectionRequests, FinishSection(r) \/ FailGenerate(r)
    PROVE  SectionInv'
<1>1. /\ sectionReq[r] # NoSectionRequest /\ sectionReq[r] \in SectionWork
      /\ sectionReq' = [sectionReq EXCEPT ![r] = NoSectionRequest]
      /\ section' \in {section, sectionReq[r].value}
      /\ sectionOverlap' = sectionOverlap
    BY DEF FinishSection, FailGenerate, NoSectionRequest, SectionInv, SectionShape
<1>2. SectionShape'
    BY <1>1 DEF SectionInv, SectionShape, SectionWork
<1>3. \A q \in SectionRequests : sectionReq'[q] = IF q = r THEN NoSectionRequest ELSE sectionReq[q]
    BY <1>1 DEF SectionInv, SectionShape
<1>4. SectionsAreCurrent'
    BY <1>1, <1>3 DEF SectionInv, SectionsAreCurrent
<1> QED
    BY <1>2, <1>4 DEF SectionInv

LEMMA SectionStep == SectionInv /\ [NextSections]_sectionVars => SectionInv'
<1> SUFFICES ASSUME SectionInv, [NextSections]_sectionVars PROVE SectionInv'
    OBVIOUS
<1>1. ASSUME NEW r \in SectionRequests, NEW s \in SectionKeys, NEW text \in Texts,
             NEW st \in SectionStatuses, StartEdit(r, s, text, st)
      PROVE  SectionInv'
    BY <1>1, SectionBegins DEF StartEdit
<1>2. ASSUME NEW r \in SectionRequests, NEW s \in SectionKeys, StartGenerate(r, s)
      PROVE  SectionInv'
    <2>1. "model" \in Texts /\ "generated" \in SectionStatuses
        BY DEF Texts, SectionStatuses
    <2> QED
        BY <1>2, <2>1, SectionBegins DEF StartGenerate
<1>3. CASE UNCHANGED sectionVars
    BY <1>3 DEF sectionVars, SectionInv, SectionShape, SectionsAreCurrent
<1> QED
    BY <1>1, <1>2, <1>3, SectionEnds DEF NextSections

LEMMA SectionInvariant == SpecSections => []SectionInv
<1> QED
    BY SectionInit, SectionStep, PTL DEF SpecSections

\* A section only changes when a request for this section commits, as long as
\* requests do not overlap, although every request writes all the sections.
THEOREM OthersSectionsStay == SpecSections => OnlyItsSectionChanges
<1> DEFINE ItsSection ==
        ~sectionOverlap => \A s \in SectionKeys :
            section'[s] # section[s] =>
                \E r \in SectionRequests :
                    /\ sectionReq[r] # NoSectionRequest /\ sectionReq'[r] = NoSectionRequest
                    /\ sectionReq[r].key = s
<1>1. ASSUME SectionInv, NextSections PROVE ItsSection
    <2>1. CASE section' = section
        BY <2>1
    <2>2. ASSUME NEW r \in SectionRequests, FinishSection(r) PROVE ItsSection
        BY <1>1, <2>2 DEF FinishSection, SectionInv, SectionShape, SectionsAreCurrent
    <2> QED
        BY <1>1, <2>1, <2>2
        DEF NextSections, StartEdit, StartGenerate, StartSectionRequest, FailGenerate
<1>2. SectionInv /\ [NextSections]_sectionVars => [ItsSection]_sectionVars
    BY <1>1
<1> QED
    BY <1>2, SectionInit, SectionStep, PTL DEF SpecSections, OnlyItsSectionChanges

-----------------------------------------------------------------------------
(* Checklists and documents *)

Checklists == [Items -> Documents \cup {Nothing}]
DocumentRows == [st : {"uploaded", "processing", "analyzed", "error"}, path : Paths]

ItemWork == [op : {"item"}, on : Folders, key : Items, value : Checklists]
NewWork == [op : {"upload", "export"}, on : Documents, path : Paths]
AnalysisWork == [op : {"analysis"}, on : Documents, found : BOOLEAN]
DeleteWork == [op : {"delete"}, on : Documents, value : [Folders -> Checklists]]
FileWork == ItemWork \cup NewWork \cup AnalysisWork \cup DeleteWork \cup {NoFileRequest}

FileShape ==
    /\ item \in [Folders -> Checklists]
    /\ held \subseteq Folders
    /\ doc \in [Documents -> DocumentRows \cup {NoDocument}]
    /\ analysed \subseteq Documents
    /\ file \subseteq Paths
    /\ fileReq \in [FileRequests -> FileWork]

\* The requests that write checklists have locked them: nobody else does until
\* they end.  Without a dossier there is nothing to lock.
WritersHaveLocks ==
    \A r \in FileRequests :
        /\ fileReq[r].op = "item" =>
            /\ fileReq[r].on \in held
            /\ \A q \in FileRequests : fileReq[q].op = "delete" => Folders = {}
            /\ \A q \in FileRequests :
                 fileReq[q].op = "item" /\ fileReq[q].on = fileReq[r].on => q = r
        /\ fileReq[r].op = "delete" =>
            /\ Folders \subseteq held
            /\ \A q \in FileRequests : fileReq[q].op = "delete" => q = r \/ Folders = {}

\* What they are going to write is what is there, but for what they change.
WritesAreCurrent ==
    \A r \in FileRequests :
        /\ fileReq[r].op = "item" => \A i \in Items :
            /\ fileReq[r].value[i] # Nothing => Stored(fileReq[r].value[i])
            /\ i # fileReq[r].key => fileReq[r].value[i] = item[fileReq[r].on][i]
        /\ fileReq[r].op = "delete" => \A d \in Folders, i \in Items :
            fileReq[r].value[d][i] =
                IF item[d][i] = fileReq[r].on THEN Nothing ELSE item[d][i]

AnalysedAreStored ==
    \A r \in FileRequests : fileReq[r].op = "analysis" => Stored(fileReq[r].on)

FileInv ==
    FileShape /\ WritersHaveLocks /\ WritesAreCurrent /\ AnalysedAreStored /\ ItemsHaveDocuments


LEMMA FileInit == InitFiles => FileInv
<1> SUFFICES ASSUME InitFiles PROVE FileInv
    OBVIOUS
<1>1. FileShape
    BY DEF InitFiles, FileShape, Checklists, FileWork
<1>2. \A r \in FileRequests : fileReq[r].op = "none"
    BY DEF InitFiles, NoFileRequest
<1>3. WritersHaveLocks /\ WritesAreCurrent /\ AnalysedAreStored
    BY <1>2 DEF WritersHaveLocks, WritesAreCurrent, AnalysedAreStored
<1> QED
    BY <1>1, <1>3 DEF FileInv, InitFiles, ItemsHaveDocuments

\* What a request carries, by what it does.
LEMMA FileRequestFacts ==
    ASSUME FileShape, NEW r \in FileRequests
    PROVE  /\ fileReq[r] # NoFileRequest <=> fileReq[r].op # "none"
           /\ fileReq[r].op \in {"none", "item", "upload", "export", "analysis", "delete"}
           /\ fileReq[r].op = "item" => fileReq[r] \in ItemWork
           /\ fileReq[r].op \in {"upload", "export"} => fileReq[r] \in NewWork
           /\ fileReq[r].op = "analysis" => fileReq[r] \in AnalysisWork
           /\ fileReq[r].op = "delete" => fileReq[r] \in DeleteWork
<1> DEFINE q == fileReq[r]
<1>1. q \in FileWork
    BY DEF FileShape
<1>2. NoFileRequest.op = "none"
    BY DEF NoFileRequest
<1>3. q \in ItemWork => q.op = "item"
    BY DEF ItemWork
<1>4. q \in NewWork => q.op \in {"upload", "export"}
    BY DEF NewWork
<1>5. q \in AnalysisWork => q.op = "analysis"
    BY DEF AnalysisWork
<1>6. q \in DeleteWork => q.op = "delete"
    BY DEF DeleteWork
<1> HIDE DEF q
<1>7. /\ q # NoFileRequest <=> q.op # "none"
      /\ q.op \in {"none", "item", "upload", "export", "analysis", "delete"}
      /\ q.op = "item" => q \in ItemWork
      /\ q.op \in {"upload", "export"} => q \in NewWork
      /\ q.op = "analysis" => q \in AnalysisWork
      /\ q.op = "delete" => q \in DeleteWork
    BY <1>1, <1>2, <1>3, <1>4, <1>5, <1>6 DEF FileWork
<1> QED
    BY <1>7 DEF q

LEMMA RowsAreStored == ASSUME NEW row \in DocumentRows PROVE row # NoDocument
<1> QED
    BY DEF DocumentRows, NoDocument

\* A request begins that does not touch a checklist: an upload, an export or an analysis.
LEMMA DocumentRequestBegins ==
    ASSUME FileInv, NEW r \in FileRequests, NEW what \in NewWork \cup AnalysisWork, BeginFile(r, what),
           what.op = "analysis" => Stored(what.on),
           UNCHANGED held, file' \subseteq Paths
    PROVE  FileInv'
<1>1. what \in FileWork /\ what.op \in {"upload", "export", "analysis"}
    BY DEF FileWork, NewWork, AnalysisWork
<1>2. FileShape'
    BY <1>1 DEF BeginFile, FileInv, FileShape
<1>3. \A q \in FileRequests : fileReq'[q] = IF q = r THEN what ELSE fileReq[q]
    BY DEF BeginFile, FileInv, FileShape
<1>4. UNCHANGED <<item, doc, held>>
    BY DEF BeginFile
<1>5. WritersHaveLocks'
    BY <1>1, <1>3, <1>4 DEF FileInv, WritersHaveLocks
<1>6. WritesAreCurrent'
    BY <1>1, <1>3, <1>4 DEF FileInv, WritesAreCurrent, Stored
<1>7. AnalysedAreStored'
    BY <1>1, <1>3, <1>4 DEF FileInv, AnalysedAreStored, Stored
<1>8. ItemsHaveDocuments'
    BY <1>4 DEF FileInv, ItemsHaveDocuments, Stored
<1> QED
    BY <1>2, <1>5, <1>6, <1>7, <1>8 DEF FileInv

\* A request ends that changed no checklist, and no document goes away.
LEMMA DocumentRequestEnds ==
    ASSUME FileInv, NEW r \in FileRequests, fileReq' = [fileReq EXCEPT ![r] = NoFileRequest],
           fileReq[r].op \in {"upload", "export", "analysis"},
           doc' \in [Documents -> DocumentRows \cup {NoDocument}],
           \A x \in Documents : Stored(x) => doc'[x] # NoDocument,
           analysed' \subseteq Documents, UNCHANGED <<item, held, file>>
    PROVE  FileInv'
<1>1. FileShape'
    BY DEF FileInv, FileShape, FileWork
<1>2. \A q \in FileRequests : fileReq'[q] = IF q = r THEN NoFileRequest ELSE fileReq[q]
    BY DEF FileInv, FileShape
<1>3. NoFileRequest.op = "none"
    BY DEF NoFileRequest
<1>4. WritersHaveLocks'
    BY <1>2, <1>3 DEF FileInv, WritersHaveLocks
<1>5. \A q \in FileRequests : fileReq[q].op = "analysis" => fileReq[q].on \in Documents
    BY FileRequestFacts DEF FileInv, AnalysisWork
<1>6. \A q \in FileRequests, i \in Items : fileReq[q].op = "item" =>
            fileReq[q].value[i] \in Documents \cup {Nothing}
    BY FileRequestFacts DEF FileInv, ItemWork, Checklists
<1>7. WritesAreCurrent'
    BY <1>2, <1>3, <1>6 DEF FileInv, WritesAreCurrent, Stored
<1>8. AnalysedAreStored'
    BY <1>2, <1>3, <1>5 DEF FileInv, AnalysedAreStored, Stored
<1>9. ItemsHaveDocuments'
    BY DEF FileInv, FileShape, Checklists, ItemsHaveDocuments, Stored
<1> QED
    BY <1>1, <1>4, <1>7, <1>8, <1>9 DEF FileInv

\* An attachment begins: it holds the lock of its dossier, which nobody held.
LEMMA ItemBegins ==
    ASSUME FileInv, NEW r \in FileRequests, NEW d \in Folders, NEW i \in Items,
           NEW x \in Documents \cup {Nothing}, StartItem(r, d, i, x)
    PROVE  FileInv'
<1> DEFINE value == [item[d] EXCEPT ![i] = x]
           what == [op |-> "item", on |-> d, key |-> i, value |-> value]
<1>1. item[d] \in Checklists
    BY DEF FileInv, FileShape
<1>2. value \in Checklists /\ \A j \in Items : value[j] = IF j = i THEN x ELSE item[d][j]
    BY <1>1 DEF Checklists
<1>3. /\ fileReq[r] = NoFileRequest /\ fileReq' = [fileReq EXCEPT ![r] = what]
      /\ UNCHANGED <<item, doc, analysed, file>>
      /\ d \notin held /\ held' = held \cup {d}
      /\ x # Nothing => Stored(x)
    BY DEF StartItem, BeginFile, LockDossiers
<1> HIDE DEF value
<1>4. what \in FileWork /\ what.op = "item" /\ what.on = d /\ what.key = i /\ what.value = value
    BY <1>2 DEF FileWork, ItemWork
<1> HIDE DEF what
<1>5. \A q \in FileRequests : fileReq'[q] = IF q = r THEN what ELSE fileReq[q]
    BY <1>3 DEF FileInv, FileShape
<1>6. FileShape'
    BY <1>3, <1>4 DEF FileInv, FileShape
<1>7. \A q \in FileRequests : /\ fileReq[q].op # "delete"
                              /\ fileReq[q].op = "item" => fileReq[q].on # d
    BY <1>3 DEF FileInv, WritersHaveLocks
<1>8. WritersHaveLocks'
    BY <1>3, <1>4, <1>5, <1>7 DEF FileInv, WritersHaveLocks
<1>9. WritesAreCurrent'
    BY <1>2, <1>3, <1>4, <1>5, <1>7 DEF FileInv, WritesAreCurrent, ItemsHaveDocuments, Stored
<1>10. AnalysedAreStored' /\ ItemsHaveDocuments'
    BY <1>3, <1>4, <1>5 DEF FileInv, AnalysedAreStored, ItemsHaveDocuments, Stored
<1> QED
    BY <1>6, <1>8, <1>9, <1>10 DEF FileInv

LEMMA ItemEnds ==
    ASSUME FileInv, NEW r \in FileRequests, FinishItem(r)
    PROVE  /\ FileInv'
           /\ \A d \in Folders, i \in Items : item'[d][i] # item[d][i] =>
                fileReq[r].on = d /\ fileReq[r].key = i
<1> DEFINE q == fileReq[r]
<1>1. /\ q.op = "item" /\ q \in ItemWork
      /\ fileReq' = [fileReq EXCEPT ![r] = NoFileRequest]
      /\ item' = [item EXCEPT ![q.on] = q.value] /\ held' = held \ {q.on}
      /\ UNCHANGED <<doc, analysed, file>>
    BY FileRequestFacts DEF FinishItem, EndFile, FileInv
<1>2. q.on \in Folders /\ q.key \in Items /\ q.value \in Checklists
    BY <1>1 DEF ItemWork
<1>3. /\ \A d \in Folders : item'[d] = IF d = q.on THEN q.value ELSE item[d]
      /\ \A p \in FileRequests : fileReq'[p] = IF p = r THEN NoFileRequest ELSE fileReq[p]
    BY <1>1, <1>2 DEF FileInv, FileShape
<1>4. FileShape'
    BY <1>1, <1>2 DEF FileInv, FileShape, FileWork
<1>5. \A p \in FileRequests : /\ fileReq[p].op # "delete"
                              /\ fileReq[p].op = "item" /\ p # r => fileReq[p].on # q.on
    BY <1>1, <1>2 DEF FileInv, WritersHaveLocks
<1>6. NoFileRequest.op = "none"
    BY DEF NoFileRequest
<1>7. WritersHaveLocks'
    BY <1>1, <1>3, <1>5, <1>6 DEF FileInv, WritersHaveLocks
<1>8. \A p \in FileRequests : fileReq[p].op = "item" => fileReq[p].on \in Folders
    BY FileRequestFacts DEF FileInv, ItemWork
<1>9. WritesAreCurrent'
    BY <1>1, <1>3, <1>5, <1>6, <1>8 DEF FileInv, WritesAreCurrent, Stored
<1>10. \A i \in Items : /\ q.value[i] # Nothing => Stored(q.value[i])
                        /\ i # q.key => q.value[i] = item[q.on][i]
    BY <1>1 DEF FileInv, WritesAreCurrent
<1>11. AnalysedAreStored'
    BY <1>1, <1>3, <1>6 DEF FileInv, AnalysedAreStored, Stored
<1>12. ItemsHaveDocuments'
    BY <1>1, <1>3, <1>10 DEF FileInv, ItemsHaveDocuments, Stored
<1> QED
    BY <1>3, <1>4, <1>7, <1>9, <1>10, <1>11, <1>12 DEF FileInv


\* A deletion begins: it holds the locks of all dossiers.
LEMMA DeleteBegins ==
    ASSUME FileInv, NEW r \in FileRequests, NEW x \in Documents, StartDelete(r, x)
    PROVE  FileInv'
<1> DEFINE value == Cleared(x)
           what == [op |-> "delete", on |-> x, value |-> value]
<1>1. /\ value \in [Folders -> Checklists]
      /\ \A d \in Folders, i \in Items : value[d][i] = IF item[d][i] = x THEN Nothing ELSE item[d][i]
    BY DEF Cleared, FileInv, FileShape, Checklists
<1>2. /\ fileReq[r] = NoFileRequest /\ fileReq' = [fileReq EXCEPT ![r] = what]
      /\ UNCHANGED <<item, doc, analysed>>
      /\ Folders \cap held = {} /\ held' = held \cup Folders
      /\ file' = file \ {doc[x].path}
    BY DEF StartDelete, BeginFile, LockDossiers
<1> HIDE DEF value
<1>3. what \in FileWork /\ what.op = "delete" /\ what.on = x /\ what.value = value
    BY <1>1 DEF FileWork, DeleteWork
<1> HIDE DEF what
<1>4. \A q \in FileRequests : fileReq'[q] = IF q = r THEN what ELSE fileReq[q]
    BY <1>2 DEF FileInv, FileShape
<1>5. FileShape'
    BY <1>2, <1>3 DEF FileInv, FileShape
<1>6. \A q \in FileRequests : fileReq[q].op = "item" => fileReq[q].on \in Folders
    BY FileRequestFacts DEF FileInv, ItemWork
<1>7. \A q \in FileRequests : /\ fileReq[q].op # "item"
                              /\ fileReq[q].op = "delete" => Folders = {}
    BY <1>2, <1>6 DEF FileInv, WritersHaveLocks
<1>8. WritersHaveLocks'
    BY <1>2, <1>3, <1>4, <1>7 DEF FileInv, WritersHaveLocks
<1>9. WritesAreCurrent'
    BY <1>1, <1>2, <1>3, <1>4, <1>7 DEF FileInv, WritesAreCurrent, Stored
<1>10. AnalysedAreStored' /\ ItemsHaveDocuments'
    BY <1>2, <1>3, <1>4 DEF FileInv, AnalysedAreStored, ItemsHaveDocuments, Stored
<1> QED
    BY <1>5, <1>8, <1>9, <1>10 DEF FileInv

\* A deletion ends, with the document or without.
LEMMA DeleteEnds ==
    ASSUME FileInv, NEW r \in FileRequests, FinishDelete(r) \/ FailDelete(r)
    PROVE  /\ FileInv'
           /\ \A d \in Folders, i \in Items : item'[d][i] # item[d][i] => fileReq[r].on = item[d][i]
<1> DEFINE q == fileReq[r]
<1>1. /\ q.op = "delete" /\ q \in DeleteWork
      /\ fileReq' = [fileReq EXCEPT ![r] = NoFileRequest]
      /\ held' = held \ Folders /\ file' = file
      /\ \/ /\ ~ BeingAnalysed(q.on)
            /\ item' = q.value /\ doc' = [doc EXCEPT ![q.on] = NoDocument]
            /\ analysed' = analysed \ {q.on}
         \/ UNCHANGED <<item, doc, analysed>>
    BY FileRequestFacts DEF FinishDelete, FailDelete, EndFile, FileInv
<1>2. q.on \in Documents /\ q.value \in [Folders -> Checklists]
    BY <1>1 DEF DeleteWork
<1>3. /\ \A p \in FileRequests : fileReq'[p] = IF p = r THEN NoFileRequest ELSE fileReq[p]
      /\ \A x \in Documents : x # q.on => doc'[x] = doc[x]
    BY <1>1, <1>2 DEF FileInv, FileShape
<1>4. FileShape'
    BY <1>1, <1>2 DEF FileInv, FileShape, FileWork
<1>5. NoFileRequest.op = "none"
    BY DEF NoFileRequest
<1>6. \A p \in FileRequests : fileReq[p].op = "item" => fileReq[p].on \in Folders
    BY FileRequestFacts DEF FileInv, ItemWork
<1>7. \A p \in FileRequests : /\ fileReq[p].op # "item"
                              /\ fileReq[p].op = "delete" /\ p # r => Folders = {}
    BY <1>1, <1>6 DEF FileInv, WritersHaveLocks
<1>8. WritersHaveLocks'
    BY <1>3, <1>5, <1>7 DEF FileInv, WritersHaveLocks
<1>9. WritesAreCurrent'
    BY <1>3, <1>5, <1>7 DEF WritesAreCurrent
<1>10. AnalysedAreStored'
    <2>1. ASSUME NEW p \in FileRequests, fileReq[p].op = "analysis" PROVE doc'[fileReq[p].on] # NoDocument
        <3>1. fileReq[p].on \in Documents /\ doc[fileReq[p].on] # NoDocument
            BY <2>1, FileRequestFacts DEF FileInv, AnalysedAreStored, Stored, AnalysisWork
        <3>2. ~ BeingAnalysed(q.on) => fileReq[p].on # q.on
            BY <2>1 DEF BeingAnalysed
        <3> QED
            BY <1>1, <1>3, <3>1, <3>2
    <2> QED
        BY <1>3, <1>5, <2>1 DEF AnalysedAreStored, Stored
<1>11. \A d \in Folders, i \in Items : q.value[d][i] = IF item[d][i] = q.on THEN Nothing ELSE item[d][i]
    BY <1>1 DEF FileInv, WritesAreCurrent
<1>12. \A d \in Folders, i \in Items : item[d][i] \in Documents \cup {Nothing}
    BY DEF FileInv, FileShape, Checklists
<1>13. ItemsHaveDocuments'
    BY <1>1, <1>3, <1>11, <1>12 DEF FileInv, ItemsHaveDocuments, Stored
<1> QED
    BY <1>1, <1>4, <1>8, <1>9, <1>10, <1>11, <1>13 DEF FileInv

\* A step keeps the invariant, and an item changes by a request of its own only.
LEMMA FileStep ==
    FileInv /\ [NextFiles]_fileVars =>
        /\ FileInv'
        /\ \A d \in Folders, i \in Items : item'[d][i] # item[d][i] =>
            \E r \in FileRequests :
                /\ fileReq'[r] = NoFileRequest
                /\ \/ fileReq[r].op = "item" /\ fileReq[r].on = d /\ fileReq[r].key = i
                   \/ fileReq[r].op = "delete" /\ fileReq[r].on = item[d][i]
<1> DEFINE ItsItem ==
        \A d \in Folders, i \in Items : item'[d][i] # item[d][i] =>
            \E r \in FileRequests :
                /\ fileReq'[r] = NoFileRequest
                /\ \/ fileReq[r].op = "item" /\ fileReq[r].on = d /\ fileReq[r].key = i
                   \/ fileReq[r].op = "delete" /\ fileReq[r].on = item[d][i]
<1> SUFFICES ASSUME FileInv, [NextFiles]_fileVars PROVE FileInv' /\ ItsItem
    OBVIOUS
<1>1. ASSUME NEW r \in FileRequests, NEW d \in Folders, NEW i \in Items,
             NEW x \in Documents \cup {Nothing}, StartItem(r, d, i, x)
      PROVE  FileInv' /\ ItsItem
    <2>1. item' = item
        BY <1>1 DEF StartItem, BeginFile
    <2> QED
        BY <1>1, <2>1, ItemBegins
<1>2. ASSUME NEW r \in FileRequests, NEW x \in Documents, StartUpload(r, x) PROVE FileInv' /\ ItsItem
    <2> DEFINE what == [op |-> "upload", on |-> x, path |-> x]
    <2>1. what \in NewWork /\ what.op = "upload"
        BY DEF NewWork, Paths
    <2>2. BeginFile(r, what) /\ UNCHANGED held /\ file' \subseteq Paths
        BY <1>2 DEF StartUpload, FileInv, FileShape, Paths
    <2> HIDE DEF what
    <2>3. FileInv'
        BY <2>1, <2>2, DocumentRequestBegins
    <2> QED
        BY <2>2, <2>3 DEF BeginFile
<1>3. ASSUME NEW r \in FileRequests, NEW x \in Documents, NEW d \in Folders, StartExport(r, d, x)
      PROVE  FileInv' /\ ItsItem
    <2> DEFINE what == [op |-> "export", on |-> x, path |-> d]
    <2>1. what \in NewWork /\ what.op = "export"
        BY DEF NewWork, Paths
    <2>2. BeginFile(r, what) /\ UNCHANGED held /\ file' \subseteq Paths
        BY <1>3 DEF StartExport, FileInv, FileShape, Paths
    <2> HIDE DEF what
    <2>3. FileInv'
        BY <2>1, <2>2, DocumentRequestBegins
    <2> QED
        BY <2>2, <2>3 DEF BeginFile
<1>4. ASSUME NEW r \in FileRequests, NEW x \in Documents, StartAnalysis(r, x) PROVE FileInv' /\ ItsItem
    <2> DEFINE what == [op |-> "analysis", on |-> x, found |-> doc[x].path \in file]
    <2>1. what \in AnalysisWork /\ what.on = x
        BY DEF AnalysisWork
    <2>2. BeginFile(r, what) /\ UNCHANGED held /\ file' \subseteq Paths /\ Stored(x)
        BY <1>4 DEF StartAnalysis, FileInv, FileShape
    <2> HIDE DEF what
    <2>3. FileInv'
        BY <2>1, <2>2, DocumentRequestBegins
    <2> QED
        BY <2>2, <2>3 DEF BeginFile
<1>5. ASSUME NEW r \in FileRequests, NEW x \in Documents, StartDelete(r, x) PROVE FileInv' /\ ItsItem
    <2>1. item' = item
        BY <1>5 DEF StartDelete, BeginFile
    <2> QED
        BY <1>5, <2>1, DeleteBegins
<1>6. ASSUME NEW r \in FileRequests, FinishItem(r) PROVE FileInv' /\ ItsItem
    <2>1. fileReq[r].op = "item" /\ fileReq'[r] = NoFileRequest
        BY <1>6 DEF FinishItem, EndFile, FileInv, FileShape
    <2> QED
        BY <1>6, <2>1, ItemEnds
<1>7. ASSUME NEW r \in FileRequests, FinishNew(r) \/ FailNew(r) PROVE FileInv' /\ ItsItem
    <2> DEFINE q == fileReq[r]
               row == [st |-> IF q.op = "upload" THEN "uploaded" ELSE "analyzed", path |-> q.path]
    <2>1. /\ q.op \in {"upload", "export"} /\ q \in NewWork
          /\ fileReq' = [fileReq EXCEPT ![r] = NoFileRequest]
          /\ doc' \in {doc, [doc EXCEPT ![q.on] = row]} /\ UNCHANGED <<item, held, analysed, file>>
        BY <1>7, FileRequestFacts DEF FinishNew, FailNew, EndFile, FileInv
    <2>2. q.on \in Documents /\ row \in DocumentRows
        BY <2>1 DEF NewWork, DocumentRows
    <2> HIDE DEF row
    <2>3. /\ doc' \in [Documents -> DocumentRows \cup {NoDocument}]
          /\ \A x \in Documents : Stored(x) => doc'[x] # NoDocument
        BY <2>1, <2>2, RowsAreStored DEF FileInv, FileShape, Stored
    <2>4. analysed' \subseteq Documents
        BY <2>1 DEF FileInv, FileShape
    <2> QED
        BY <2>1, <2>3, <2>4, DocumentRequestEnds
<1>8. ASSUME NEW r \in FileRequests, NEW done \in BOOLEAN, FinishAnalysis(r, done)
      PROVE  FileInv' /\ ItsItem
    <2> DEFINE x == fileReq[r].on
               row == [doc[x] EXCEPT !.st = IF done THEN "analyzed" ELSE "error"]
    <2>1. fileReq[r].op = "analysis" /\ x \in Documents /\ Stored(x)
        BY <1>8, FileRequestFacts DEF FinishAnalysis, EndFile, FileInv, AnalysedAreStored, AnalysisWork
    <2>2. row \in DocumentRows
        BY <2>1 DEF FileInv, FileShape, Stored, DocumentRows
    <2> HIDE DEF row
    <2>3. /\ fileReq' = [fileReq EXCEPT ![r] = NoFileRequest]
          /\ doc' \in {doc, [doc EXCEPT ![x] = row]} /\ analysed' \in {analysed, analysed \cup {x}}
          /\ UNCHANGED <<item, held, file>>
        BY <1>8 DEF FinishAnalysis, EndFile, row
    <2>4. /\ doc' \in [Documents -> DocumentRows \cup {NoDocument}]
          /\ \A y \in Documents : Stored(y) => doc'[y] # NoDocument
          /\ analysed' \subseteq Documents
        BY <2>1, <2>2, <2>3, RowsAreStored DEF FileInv, FileShape, Stored
    <2> QED
        BY <2>1, <2>3, <2>4, DocumentRequestEnds
<1>9. ASSUME NEW r \in FileRequests, FinishDelete(r) \/ FailDelete(r) PROVE FileInv' /\ ItsItem
    <2>1. fileReq[r].op = "delete" /\ fileReq'[r] = NoFileRequest
        BY <1>9 DEF FinishDelete, FailDelete, EndFile, FileInv, FileShape
    <2> QED
        BY <1>9, <2>1, DeleteEnds
<1>10. ASSUME NEW x \in Documents, Reanalyse(x) PROVE FileInv' /\ ItsItem
    <2> DEFINE row == [doc[x] EXCEPT !.st = "processing"]
    <2>1. row \in DocumentRows
        BY <1>10 DEF Reanalyse, FileInv, FileShape, Stored, DocumentRows
    <2> HIDE DEF row
    <2>2. doc' = [doc EXCEPT ![x] = row] /\ UNCHANGED <<item, held, analysed, file, fileReq>>
        BY <1>10 DEF Reanalyse, row
    <2>3. FileShape' /\ \A y \in Documents : Stored(y) => doc'[y] # NoDocument
        BY <2>1, <2>2, RowsAreStored DEF FileInv, FileShape, Stored
    <2>4. WritersHaveLocks'
        BY <2>2 DEF FileInv, WritersHaveLocks
    <2>5. \A q \in FileRequests : fileReq[q].op = "analysis" => fileReq[q].on \in Documents
        BY FileRequestFacts DEF FileInv, AnalysisWork
    <2>6. \A q \in FileRequests, i \in Items : fileReq[q].op = "item" =>
                fileReq[q].value[i] \in Documents \cup {Nothing}
        BY FileRequestFacts DEF FileInv, ItemWork, Checklists
    <2>7. WritesAreCurrent'
        BY <2>2, <2>3, <2>6 DEF FileInv, WritesAreCurrent, Stored
    <2>8. AnalysedAreStored'
        BY <2>2, <2>3, <2>5 DEF FileInv, AnalysedAreStored, Stored
    <2>9. ItemsHaveDocuments'
        BY <2>2, <2>3 DEF FileInv, FileShape, Checklists, ItemsHaveDocuments, Stored
    <2> QED
        BY <2>2, <2>3, <2>4, <2>7, <2>8, <2>9 DEF FileInv
<1>11. CASE UNCHANGED fileVars
    BY <1>11 DEF fileVars, FileInv, FileShape, WritersHaveLocks, WritesAreCurrent, AnalysedAreStored,
                 ItemsHaveDocuments, Stored
<1> QED
    BY <1>1, <1>2, <1>3, <1>4, <1>5, <1>6, <1>7, <1>8, <1>9, <1>10, <1>11
    DEF NextFiles, StartFile, FinishFile

LEMMA FileInvariant == SpecFiles => []FileInv
<1> QED
    BY FileInit, FileStep, PTL DEF SpecFiles

\* SC-005: an item of a checklist refers to a document that exists, however
\* attachments, deletions and analyses overlap.
THEOREM ItemsKeepTheirDocuments == SpecFiles => []ItemsHaveDocuments
<1>1. FileInv => ItemsHaveDocuments
    BY DEF FileInv
<1> QED
    BY <1>1, FileInvariant, PTL

\* FR-021: an item only changes when a request for this item commits, or the
\* deletion of its document, although every request writes the whole checklist.
THEOREM OthersItemsStay == SpecFiles => OnlyItsItemChanges
<1> DEFINE ItsItem ==
        \A d \in Folders, i \in Items : item'[d][i] # item[d][i] =>
            \E r \in FileRequests :
                /\ fileReq'[r] = NoFileRequest
                /\ \/ fileReq[r].op = "item" /\ fileReq[r].on = d /\ fileReq[r].key = i
                   \/ fileReq[r].op = "delete" /\ fileReq[r].on = item[d][i]
<1>1. FileInv /\ [NextFiles]_fileVars => [ItsItem]_fileVars
    BY FileStep
<1> QED
    BY <1>1, FileInvariant, PTL DEF SpecFiles, OnlyItsItemChanges


-----------------------------------------------------------------------------
(* The types of every variable *)

LEMMA DossiersTyped == SpecDossiers => []DossierTypeOK
<1> DEFINE Rest == dossierOverlap \in BOOLEAN /\ project \in {"live", "cancelled"}
<1>1. InitDossiers => Rest
  BY DEF InitDossiers
<1>2. Rest /\ [NextDossiers]_dossierVars => Rest'
  BY DEF NextDossiers, StartCreate, FinishCreate, StartMove, FinishMove, StartDeleteProject,
         FinishDeleteProject, ReopenProject, ChangeCatalogue, BeginDossier, EndDossier, dossierVars
<1>3. DossierInv /\ Rest => DossierTypeOK
  BY DEF DossierInv, DossierTypes, DossierTypeOK, DossierWork, MoveRequests
<1>4. QED BY <1>1, <1>2, <1>3, DossierInit, DossierStep, PTL DEF SpecDossiers

LEMMA SectionsTyped == SectionInv => SectionTypeOK
<1>1. SectionInv => section \in [SectionKeys -> [text : Texts, st : SectionStatuses]]
  BY DEF SectionInv, SectionShape, Columns, SectionRows
<1>2. ASSUME SectionInv, NEW r \in SectionRequests, sectionReq[r] # NoSectionRequest
      PROVE  /\ sectionReq[r].op \in {"edit", "generate"} /\ sectionReq[r].key \in SectionKeys
             /\ DOMAIN sectionReq[r].value = SectionKeys
  BY <1>2 DEF SectionInv, SectionShape, SectionWork, Columns
<1>3. QED BY <1>1, <1>2 DEF SectionTypeOK, SectionInv, SectionShape

LEMMA FilesTyped == FileInv => FileTypeOK
  BY DEF FileInv, FileShape, FileTypeOK, Checklists, DocumentRows

=============================================================================
