------------------------------ MODULE Dossiers ------------------------------
(***************************************************************************)
(* The dossiers of one user for one project: their creation, their status  *)
(* and their snapshot (backend/app/modules/applications/service.py and     *)
(* snapshot.py), and the deletion of the project                           *)
(* (backend/app/modules/projects/service.py).                              *)
(*                                                                         *)
(* A request reads and decides when it starts, and writes the columns it   *)
(* changed, by id, when it commits.  The assistant's tools call the same   *)
(* services.                                                               *)
(***************************************************************************)
EXTENDS Naturals, FiniteSets

CONSTANTS
    DossierIds,      \* identifiers for the rows of fund_applications
    DossierRequests  \* slots for the requests in flight

VARIABLES
    dossierOverlap, \* whether requests may overlap; it never changes
    dossier,        \* fund_applications
    project,        \* the status of the project
    catalogue,      \* the version of the fund, its documents and the scores
    dossierReq      \* the requests in flight

dossierVars == <<dossierOverlap, dossier, project, catalogue, dossierReq>>

Transitions ==
    { <<"draft", "preparing_documents">>,
      <<"preparing_documents", "in_progress">>,
      <<"in_progress", "review">>,
      <<"review", "ready_for_intermediary">>, <<"review", "ready_for_fund">>,
      <<"review", "in_progress">>,
      <<"ready_for_intermediary", "submitted_to_intermediary">>,
      <<"ready_for_intermediary", "review">>,
      <<"ready_for_fund", "submitted_to_fund">>, <<"ready_for_fund", "review">>,
      <<"submitted_to_intermediary", "submitted_to_fund">>,
      <<"submitted_to_intermediary", "review">>,
      <<"submitted_to_fund", "under_review">>,
      <<"under_review", "accepted">>, <<"under_review", "rejected">> }

Statuses == {t[1] : t \in Transitions} \cup {t[2] : t \in Transitions}
Submissions == {"submitted_to_intermediary", "submitted_to_fund"}
Versions == {"v1", "v2"}

NoDossier == [st |-> "absent", keyed |-> FALSE, snap |-> "none"]
NoDossierRequest == [op |-> "none"]

DossierRows == [st : Statuses, keyed : BOOLEAN, snap : {"none"} \cup Versions]
               \cup {NoDossier}

DossierTypeOK ==
    /\ dossierOverlap \in BOOLEAN
    /\ dossier \in [DossierIds -> DossierRows]
    /\ project \in {"live", "cancelled"}
    /\ catalogue \in Versions
    /\ dossierReq \in [DossierRequests ->
            [op : {"create"}, keyed : BOOLEAN] \cup [op : {"delete"}]
            \cup [op : {"move"}, on : DossierIds, to : Statuses, snap : BOOLEAN]
            \cup {NoDossierRequest}]

InitDossiers ==
    /\ dossierOverlap \in BOOLEAN
    /\ dossier = [d \in DossierIds |-> NoDossier]
    /\ project = "live"
    /\ catalogue = "v1"
    /\ dossierReq = [r \in DossierRequests |-> NoDossierRequest]

BeginDossier(r, what) ==
    /\ dossierReq[r] = NoDossierRequest
    /\ dossierOverlap \/ \A q \in DossierRequests : dossierReq[q] = NoDossierRequest
    /\ dossierReq' = [dossierReq EXCEPT ![r] = what]
    /\ UNCHANGED <<dossierOverlap, dossier, project, catalogue>>

EndDossier(r, op) ==
    /\ dossierReq[r].op = op
    /\ dossierReq' = [dossierReq EXCEPT ![r] = NoDossierRequest]
    /\ UNCHANGED <<dossierOverlap, catalogue>>

-----------------------------------------------------------------------------
(* Creation *)

Drafts == {d \in DossierIds : dossier[d].st = "draft" /\ dossier[d].keyed}

\* A creation for an offer and a project looks for a draft first: one is
\* returned, several are an error (scalar_one_or_none), neither writes.
Found(keyed) == keyed /\ Drafts # {}

\* The status of the project is not read.  The number of rows is a bound of the
\* model.
StartCreate(r, keyed) ==
    /\ Cardinality({d \in DossierIds : dossier[d] = NoDossier})
       > Cardinality({q \in DossierRequests : dossierReq[q].op = "create"})
    /\ ~Found(keyed)
    /\ BeginDossier(r, [op |-> "create", keyed |-> keyed])

FinishCreate(r, d) ==
    /\ EndDossier(r, "create")
    /\ dossier[d] = NoDossier
    /\ dossier' = [dossier EXCEPT ![d] = [st |-> "draft", keyed |-> dossierReq[r].keyed,
                                          snap |-> "none"]]
    /\ UNCHANGED project

-----------------------------------------------------------------------------
(* Status *)

\* Mutation of TakesSnapshot: at every submission.
TakesAnotherSnapshot(d, to) == to \in Submissions

\* Mutation of TakesSnapshot: only for a submission to the fund.
TakesFundSnapshot(d, to) == to = "submitted_to_fund" /\ dossier[d].snap = "none"

\* _create_snapshot is called by a submission that finds no snapshot.
TakesSnapshot(d, to) == to \in Submissions /\ dossier[d].snap = "none"

StartMove(r, d, to) ==
    /\ <<dossier[d].st, to>> \in Transitions
    /\ BeginDossier(r, [op |-> "move", on |-> d, to |-> to, snap |-> TakesSnapshot(d, to)])

\* validate_immutable compares with the snapshot that was read.
FinishMove(r) ==
    LET q == dossierReq[r] IN
    /\ EndDossier(r, "move")
    /\ dossier' = [dossier EXCEPT ![q.on] =
                    [st |-> q.to, keyed |-> @.keyed,
                     snap |-> IF q.snap THEN catalogue ELSE @.snap]]
    /\ UNCHANGED project

-----------------------------------------------------------------------------
(* The project and the catalogue *)

Inactive == {"absent", "accepted", "rejected"}

\* soft_delete_project: refused for a project with active dossiers, unless
\* it is forced.
StartDeleteProject(r, force) ==
    /\ force \/ \A d \in DossierIds : dossier[d].st \in Inactive
    /\ BeginDossier(r, [op |-> "delete"])

FinishDeleteProject(r) ==
    /\ EndDossier(r, "delete")
    /\ project' = "cancelled"
    /\ UNCHANGED dossier

\* update_project accepts any status, and takes a cancelled project back.
ReopenProject ==
    /\ project' = "live"
    /\ UNCHANGED <<dossierOverlap, dossier, catalogue, dossierReq>>

ChangeCatalogue ==
    /\ catalogue' \in Versions
    /\ UNCHANGED <<dossierOverlap, dossier, project, dossierReq>>

-----------------------------------------------------------------------------

NextDossiers ==
    \/ \E r \in DossierRequests :
        \/ \E keyed \in BOOLEAN : StartCreate(r, keyed)
        \/ \E d \in DossierIds : FinishCreate(r, d) \/ \E to \in Statuses : StartMove(r, d, to)
        \/ FinishMove(r)
        \/ \E force \in BOOLEAN : StartDeleteProject(r, force)
        \/ FinishDeleteProject(r)
    \/ ReopenProject
    \/ ChangeCatalogue

SpecDossiers == InitDossiers /\ [][NextDossiers]_dossierVars

-----------------------------------------------------------------------------
(* Properties *)

\* A dossier that was sent, is examined or decided has the snapshot its score
\* is computed from again, however requests overlap.
SubmittedIsSnapshotted ==
    \A d \in DossierIds :
        dossier[d].st \in Submissions \cup {"under_review", "accepted", "rejected"}
        => dossier[d].snap # "none"

PhaseOf(st) ==
    CASE st = "absent" -> "absent"
      [] st = "submitted_to_intermediary" -> "intermediary"
      [] st = "submitted_to_fund" -> "fund"
      [] st = "under_review" -> "examined"
      [] st \in {"accepted", "rejected"} -> "decided"
      [] OTHER -> "prepared"

Lifecycle == INSTANCE DossierLifecycle WITH
    phase <- [d \in DossierIds |-> PhaseOf(dossier[d].st)],
    frozen <- [d \in DossierIds |-> dossier[d].snap]

\* The dossiers follow the promised life cycle, and a snapshot never changes,
\* when requests do not overlap.
FollowsDossierLifecycle ==
    Lifecycle!Init /\ [][~dossierOverlap => Lifecycle!Next]_dossier
=============================================================================
