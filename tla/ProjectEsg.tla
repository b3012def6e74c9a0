----------------------------- MODULE ProjectEsg -----------------------------
(***************************************************************************)
(* The ESG assessments of one project: the answers to the criteria of a    *)
(* referential, their finalisation, the score copied to the project and    *)
(* the report (backend/app/modules/esg/project_service.py,                 *)
(* project_scoring.py, project_listener.py, project_report.py; the         *)
(* assistant's project_esg_tools.py call the same services).               *)
(*                                                                         *)
(* A request reads and decides when it starts and writes when it commits.  *)
(* A finalisation has a step in between: the flush that updates the row    *)
(* fires the listener, and the task the listener creates runs in a session *)
(* of its own, before or after the commit.                                 *)
(***************************************************************************)
EXTENDS Integers, FiniteSets, Sequences, SequencesExt

CONSTANTS
    Assessments,   \* identifiers for the rows of project_esg_assessments
    Referentials,  \* the published referentials
    EsgCriteria,   \* the criteria of a referential that apply to a project
    Required,      \* those that must be answered
    EsgRequests    \* slots for the requests in flight

ASSUME RequiredAssumption == Required \subseteq EsgCriteria
ASSUME EsgCriteriaAssumption == IsFiniteSet(EsgCriteria)

VARIABLES
    esgOverlap,    \* whether requests may overlap; it never changes
    assessment,    \* the rows and the answers that hang from them
    finalised,     \* the finalised assessments, oldest first
    projectScore,  \* projects.project_esg_score
    syncPending,   \* a task of the listener is waiting to run
    recent,        \* the listener ran for this project within the window
    esgReq         \* the requests in flight

esgVars == <<esgOverlap, assessment, finalised, projectScore, syncPending, recent, esgReq>>

Answers == [EsgCriteria -> {"none", "yes", "no"}]
Scores == 0..100
NoScore == -1
Manual == 101     \* a score typed by the user, told apart from the computed ones

NoAssessment == [st |-> "absent"]
NoEsgRequest == [op |-> "none"]

EsgTypeOK ==
    /\ esgOverlap \in BOOLEAN
    /\ \A a \in Assessments :
          assessment[a] = NoAssessment
          \/ assessment[a] \in [st : {"draft", "finalized"}, ref : Referentials,
                 answers : Answers, score : Scores \cup {NoScore}, report : Scores \cup {NoScore}]
    /\ Range(finalised) = {a \in Assessments : assessment[a].st = "finalized"}
    /\ Len(finalised) = Cardinality(Range(finalised))
    /\ projectScore \in Scores \cup {NoScore, Manual}
    /\ syncPending \in BOOLEAN /\ recent \in BOOLEAN
    /\ \A r \in EsgRequests :
          esgReq[r].op \in {"none", "create", "answer", "finalize", "flushed", "delete",
                            "report", "manual"}

InitProjectEsg ==
    /\ esgOverlap \in BOOLEAN
    /\ assessment = [a \in Assessments |-> NoAssessment]
    /\ finalised = <<>>
    /\ projectScore = NoScore
    /\ syncPending = FALSE
    /\ recent = FALSE
    /\ esgReq = [r \in EsgRequests |-> NoEsgRequest]

Rows(st) == {a \in Assessments : assessment[a].st = st}

Answered(answers) == {c \in EsgCriteria : answers[c] # "none"}

\* Mutation of ScoreOf: the rounded quotient is taken for a percentage twice
\* as large.
ScoreOfDoubled(answers) ==
    LET d == Cardinality(Answered(answers))
        n == Cardinality({c \in EsgCriteria : answers[c] = "yes"})
    IN  IF d = 0 THEN 0 ELSE (200 * n + d) \div d

\* compute_score with equal weights: yes counts 1 and no counts 0.
ScoreOf(answers) ==
    LET d == Cardinality(Answered(answers))
        n == Cardinality({c \in EsgCriteria : answers[c] = "yes"})
    IN  IF d = 0 THEN 0 ELSE (200 * n + d) \div (2 * d)

BeginEsg(r, what) ==
    /\ esgReq[r] = NoEsgRequest
    /\ esgOverlap \/ \A q \in EsgRequests : esgReq[q] = NoEsgRequest
    /\ esgReq' = [esgReq EXCEPT ![r] = what]
    /\ UNCHANGED <<esgOverlap, assessment, finalised, projectScore, syncPending, recent>>

EndEsg(r, op) ==
    /\ esgReq[r].op = op
    /\ esgReq' = [esgReq EXCEPT ![r] = NoEsgRequest]
    /\ UNCHANGED esgOverlap

\* The row is locked by a finalisation that has flushed and not committed.
RowLocked(a) == \E q \in EsgRequests : esgReq[q].op = "flushed" /\ esgReq[q].on = a

-----------------------------------------------------------------------------
(* Drafts and answers *)

\* create_project_esg_assessment: no second draft for the same referential.
\* The number of rows is a bound of the model.
StartAssessment(r, ref) ==
    /\ Cardinality(Rows("absent")) > Cardinality({q \in EsgRequests : esgReq[q].op = "create"})
    /\ \A a \in Rows("draft") : assessment[a].ref # ref
    /\ BeginEsg(r, [op |-> "create", ref |-> ref])

FinishAssessment(r) ==
    /\ EndEsg(r, "create")
    /\ \E a \in Rows("absent") :
          assessment' = [assessment EXCEPT ![a] =
              [st |-> "draft", ref |-> esgReq[r].ref,
               answers |-> [c \in EsgCriteria |-> "none"],
               score |-> NoScore, report |-> NoScore]]
    /\ UNCHANGED <<finalised, projectScore, syncPending, recent>>

\* Mutation of MayAnswer: a finalised assessment can be answered again.
MayAnswerAny(a) == assessment[a].st # "absent"

\* save_project_esg_criterion_response: a finalised assessment is immutable.
MayAnswer(a) == assessment[a].st = "draft"

\* The request remembers whether it found a row for the criterion.
StartAnswer(r, a, c, v) ==
    /\ MayAnswer(a)
    /\ BeginEsg(r, [op |-> "answer", on |-> a, crit |-> c, val |-> v,
                    found |-> assessment[a].answers[c] # "none"])

\* It updates the row it found, or inserts one, which fails when another
\* request inserted it first or the assessment is gone.
FinishAnswer(r) ==
    LET q == esgReq[r] IN
    /\ EndEsg(r, "answer")
    /\ assessment' =
          IF assessment[q.on].st # "absent"
             /\ q.found = (assessment[q.on].answers[q.crit] # "none")
          THEN [assessment EXCEPT ![q.on].answers[q.crit] = q.val]
          ELSE assessment
    /\ UNCHANGED <<finalised, projectScore, syncPending, recent>>

-----------------------------------------------------------------------------
(* Finalisation and deletion *)

\* finalize_project_esg_assessment: the checks and compute_score.
StartFinalize(r, a) ==
    /\ assessment[a].st = "draft"
    /\ Required \subseteq Answered(assessment[a].answers)
    /\ BeginEsg(r, [op |-> "finalize", on |-> a, score |-> ScoreOf(assessment[a].answers)])

\* uq_pea_finalized_active_per_ref: no other finalised row of this referential;
\* superseded_at, which would take a row out of the index, is never set.
OnlyOfItsReferential(a) ==
    \A b \in Rows("finalized") \ {a} : assessment[b].ref # assessment[a].ref

\* db.flush: the row is updated and _on_insert_or_update fires; _should_debounce
\* skips the task when one was created less than 30 s ago.
FlushFinalize(r) ==
    LET a == esgReq[r].on IN
    /\ esgReq[r].op = "finalize"
    /\ ~ RowLocked(a)
    /\ assessment[a].st # "absent"
    /\ \A q \in EsgRequests :
          esgReq[q].op = "flushed" => assessment[esgReq[q].on].ref # assessment[a].ref
    /\ OnlyOfItsReferential(a)
    /\ esgReq' = [esgReq EXCEPT ![r].op = "flushed"]
    /\ syncPending' = (syncPending \/ ~ recent)
    /\ recent' = TRUE
    /\ UNCHANGED <<esgOverlap, assessment, finalised, projectScore>>

\* The index or the missing row refuses the update; nothing was fired.
RefuseFinalize(r) ==
    LET a == esgReq[r].on IN
    /\ EndEsg(r, "finalize")
    /\ ~ RowLocked(a)
    /\ assessment[a].st # "absent" => ~ OnlyOfItsReferential(a)
    /\ UNCHANGED <<assessment, finalised, projectScore, syncPending, recent>>

\* finalized_at is rewritten when two finalisations of one row both pass the
\* checks: the row becomes the latest.
CommitFinalize(r) ==
    LET a == esgReq[r].on IN
    /\ EndEsg(r, "flushed")
    /\ assessment' = [assessment EXCEPT ![a].st = "finalized", ![a].score = esgReq[r].score]
    /\ finalised' = Append(RemoveFirst(finalised, a), a)
    /\ UNCHANGED <<projectScore, syncPending, recent>>

\* The assistant's turn is rolled back after the flush.
AbortFinalize(r) ==
    /\ EndEsg(r, "flushed")
    /\ UNCHANGED <<assessment, finalised, projectScore, syncPending, recent>>

StartDeleteEsg(r, a) ==
    /\ assessment[a].st # "absent"
    /\ BeginEsg(r, [op |-> "delete", on |-> a])

\* delete_project_esg_assessment: the answers go with the row, the report file
\* stays; there is no listener for deletions.
FinishDeleteEsg(r) ==
    LET a == esgReq[r].on IN
    /\ EndEsg(r, "delete")
    /\ ~ RowLocked(a)
    /\ assessment' = [assessment EXCEPT ![a] = NoAssessment]
    /\ finalised' = RemoveFirst(finalised, a)
    /\ UNCHANGED <<projectScore, syncPending, recent>>

-----------------------------------------------------------------------------
(* The copy on the project, and the report *)

\* sync_snapshot_now: the score of the latest finalised assessment, or none.
Sync ==
    /\ syncPending
    /\ syncPending' = FALSE
    /\ projectScore' = IF finalised = <<>> THEN NoScore ELSE assessment[Last(finalised)].score
    /\ UNCHANGED <<esgOverlap, assessment, finalised, recent, esgReq>>

\* 30 s pass: a task does not wait that long.
WindowPasses ==
    /\ recent /\ ~ syncPending
    /\ recent' = FALSE
    /\ UNCHANGED <<esgOverlap, assessment, finalised, projectScore, syncPending, esgReq>>

\* update_project refuses a score once an assessment is finalised.
StartManual(r) ==
    /\ finalised = <<>>
    /\ BeginEsg(r, [op |-> "manual"])

FinishManual(r) ==
    /\ EndEsg(r, "manual")
    /\ projectScore' = Manual
    /\ UNCHANGED <<assessment, finalised, syncPending, recent>>

\* _load_finalized_assessment and _collect_context.
StartEsia(r, a) ==
    /\ assessment[a].st = "finalized"
    /\ BeginEsg(r, [op |-> "report", on |-> a, score |-> assessment[a].score])

FinishEsia(r) ==
    LET a == esgReq[r].on IN
    /\ EndEsg(r, "report")
    /\ assessment' = IF assessment[a].st = "absent" THEN assessment
                     ELSE [assessment EXCEPT ![a].report = esgReq[r].score]
    /\ UNCHANGED <<finalised, projectScore, syncPending, recent>>

FinishEsg(r) ==
    \/ FinishAssessment(r) \/ FinishAnswer(r)
    \/ FlushFinalize(r) \/ RefuseFinalize(r) \/ CommitFinalize(r)
    \/ FinishDeleteEsg(r) \/ FinishManual(r) \/ FinishEsia(r)

NextProjectEsg ==
    \/ \E r \in EsgRequests :
        \/ \E ref \in Referentials : StartAssessment(r, ref)
        \/ \E a \in Assessments :
            \/ \E c \in EsgCriteria, v \in {"yes", "no"} : StartAnswer(r, a, c, v)
            \/ StartFinalize(r, a)
            \/ StartDeleteEsg(r, a)
            \/ StartEsia(r, a)
        \/ StartManual(r)
        \/ FinishEsg(r)
        \/ AbortFinalize(r)
    \/ Sync
    \/ WindowPasses

SpecProjectEsg == InitProjectEsg /\ [][NextProjectEsg]_esgVars

-----------------------------------------------------------------------------

\* What a finalised assessment says is what was answered: the score stored with
\* it and the one of its report are those of its answers, and the required
\* criteria are answered; as long as requests do not overlap, since an answer
\* that found a draft is written whatever became of the assessment meanwhile.
FinalisedIsFrozen ==
    ~ esgOverlap =>
        \A a \in Rows("finalized") :
            /\ Required \subseteq Answered(assessment[a].answers)
            /\ assessment[a].score = ScoreOf(assessment[a].answers)
            /\ assessment[a].report \in {NoScore, assessment[a].score}

\* A finalised assessment is corrected by a new one against the same referential
\* (the message of save_project_esg_criterion_response): its finalisation is not
\* refused once its answers have been accepted.
CorrectionIsFinalised ==
    [][\A r \in EsgRequests :
          ~ esgOverlap /\ esgReq[r].op = "finalize" /\ esgReq'[r] = NoEsgRequest
          => assessment'[esgReq[r].on].st = "finalized"]_esgVars
=============================================================================
