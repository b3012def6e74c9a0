----------------------------- MODULE CompanyEsg -----------------------------
(***************************************************************************)
(* The ESG evaluations of a company: the scores of the criteria, the       *)
(* finalisation against one or several referentials, the recomputations    *)
(* and the report (backend/app/modules/esg/service.py,                     *)
(* multi_referential_service.py, router.py, reports/service.py and         *)
(* backend/app/graph/tools/esg_tools.py).                                  *)
(*                                                                         *)
(* The scores are one JSON column, read when a request starts and written  *)
(* as a whole when it commits.  The version of a referential never changes *)
(* in this code, so a row of referential_scores is updated in place.       *)
(***************************************************************************)
EXTENDS Integers, FiniteSets, FiniteSetsExt

CONSTANTS
    Evaluations,        \* identifiers for the rows of esg_assessments
    Environment, Social, Governance,  \* the criteria of the three pillars
    ScoreRefs,          \* the published referentials
    Mefali,             \* the one whose score is also the evaluation's
    ScoreRequests       \* slots for the requests in flight

Graded == Environment \cup Social \cup Governance

ASSUME MefaliAssumption == Mefali \in ScoreRefs
ASSUME GradedAssumption == IsFiniteSet(Graded)
ASSUME PillarsAssumption ==
    Environment \cap Social = {} /\ Environment \cap Governance = {} /\ Social \cap Governance = {}

VARIABLES
    scoreOverlap,  \* whether requests may overlap; it never changes
    evaluation,    \* esg_assessments
    refScore,      \* referential_scores: the current row of each referential
    esgReport,     \* the last completed report of each evaluation
    scoreReq       \* the requests in flight

scoreVars == <<scoreOverlap, evaluation, refScore, esgReport, scoreReq>>

Ungraded == -1
Unscored == -1
Grades == {0, 10}

Gradings == [Graded -> Grades \cup {Ungraded}]
NoEvaluation == [st |-> "absent"]
NoReport == [score |-> Unscored, of |-> [c \in Graded |-> Ungraded]]
NoScoreRequest == [op |-> "none"]

ScoreTypeOK ==
    /\ scoreOverlap \in BOOLEAN
    /\ \A e \in Evaluations :
          evaluation[e] = NoEvaluation
          \/ evaluation[e] \in [st : {"draft", "in_progress", "completed"},
                                grades : Gradings, score : Unscored..1000]
    /\ refScore \in [Evaluations -> [ScoreRefs -> Unscored..1000]]
    /\ esgReport \in [Evaluations -> [score : Unscored..1000, of : Gradings]]
    /\ \A r \in ScoreRequests :
          scoreReq[r].op \in {"none", "save", "finalize", "multi", "recompute", "report"}

InitCompanyEsg ==
    /\ scoreOverlap \in BOOLEAN
    /\ evaluation = [e \in Evaluations |-> NoEvaluation]
    /\ refScore = [e \in Evaluations |-> [f \in ScoreRefs |-> Unscored]]
    /\ esgReport = [e \in Evaluations |-> NoReport]
    /\ scoreReq = [r \in ScoreRequests |-> NoScoreRequest]

-----------------------------------------------------------------------------
(* Scores, in tenths of a point *)

GradedIn(grades, pillar) == {c \in pillar : grades[c] # Ungraded}

\* compute_pillar_score with equal weights: what is not graded is left out.
PillarScore(grades, pillar) ==
    LET in == GradedIn(grades, pillar)
    IN  IF in = {} THEN 0
        ELSE (100 * MapThenSumSet(LAMBDA c : grades[c], in)) \div Cardinality(in)

\* compute_overall_score: the mean of the three pillars, empty ones included.
OverallScore(grades) ==
    (PillarScore(grades, Environment) + PillarScore(grades, Social)
     + PillarScore(grades, Governance)) \div 3

\* compute_score_for_referential: the mean of the pillars that have a grade, and
\* no score when there is none; Mefali's is the overall score.
ScoreFor(f, grades) ==
    LET with == {p \in {Environment, Social, Governance} : GradedIn(grades, p) # {}}
        sum == PillarScore(grades, Environment) + PillarScore(grades, Social)
               + PillarScore(grades, Governance)
    IN  IF f = Mefali THEN OverallScore(grades)
        ELSE IF with = {} THEN Unscored ELSE sum \div Cardinality(with)

-----------------------------------------------------------------------------
(* Requests *)

BeginScore(r, e, what) ==
    /\ scoreReq[r] = NoScoreRequest
    /\ scoreOverlap \/ \A q \in ScoreRequests : scoreReq[q] = NoScoreRequest
    /\ evaluation[e].st # "absent"
    /\ scoreReq' = [scoreReq EXCEPT ![r] = what]
    /\ UNCHANGED <<scoreOverlap, evaluation, refScore, esgReport>>

EndScore(r, op) ==
    /\ scoreReq[r].op = op
    /\ scoreReq' = [scoreReq EXCEPT ![r] = NoScoreRequest]
    /\ UNCHANGED scoreOverlap

\* create_assessment: an evaluation in progress does not prevent another.
CreateEvaluation(e) ==
    /\ evaluation[e].st = "absent"
    /\ evaluation' = [evaluation EXCEPT ![e] =
          [st |-> "draft", grades |-> [c \in Graded |-> Ungraded], score |-> Unscored]]
    /\ UNCHANGED <<scoreOverlap, refScore, esgReport, scoreReq>>

\* save_esg_criterion_score and batch_save_esg_criteria: the same grade for some
\* criteria, in a copy of the column.
StartSave(r, e, cs, g) ==
    BeginScore(r, e, [op |-> "save", on |-> e,
        grades |-> [c \in Graded |-> IF c \in cs THEN g ELSE evaluation[e].grades[c]]])

\* Mutation of SavedStatus: a finalised evaluation stays finalised.
SavedStatusKept(e) == evaluation[e].st

\* A finalised evaluation is in progress again; its scores stay.
SavedStatus(e) == "in_progress"

FinishSave(r) ==
    LET e == scoreReq[r].on IN
    /\ EndScore(r, "save")
    /\ evaluation' = [evaluation EXCEPT ![e].grades = scoreReq[r].grades,
                                        ![e].st = SavedStatus(e)]
    /\ UNCHANGED <<refScore, esgReport>>

\* finalize_assessment_with_benchmark, whatever is graded: the scores and the
\* grades they come from are written together.
StartFinalizeEsg(r, e) ==
    BeginScore(r, e, [op |-> "finalize", on |-> e, grades |-> evaluation[e].grades])

FinishFinalizeEsg(r) ==
    LET e == scoreReq[r].on IN
    /\ EndScore(r, "finalize")
    /\ evaluation' = [evaluation EXCEPT ![e] =
          [st |-> "completed", grades |-> scoreReq[r].grades,
           score |-> OverallScore(scoreReq[r].grades)]]
    /\ UNCHANGED <<refScore, esgReport>>

\* finalize_esg_assessment_multi_ref and compute_all_referential_scores: a row
\* for each referential, and Mefali's score in the evaluation.
StartMulti(r, e) ==
    BeginScore(r, e, [op |-> "multi", on |-> e, grades |-> evaluation[e].grades])

FinishMulti(r) ==
    LET e == scoreReq[r].on IN
    /\ EndScore(r, "multi")
    /\ evaluation' = [evaluation EXCEPT ![e].st = "completed",
                                        ![e].score = ScoreFor(Mefali, scoreReq[r].grades)]
    /\ refScore' = [refScore EXCEPT ![e] = [f \in ScoreRefs |-> ScoreFor(f, scoreReq[r].grades)]]
    /\ UNCHANGED esgReport

\* recompute_score, recompute_score_async and compute_referential_score_for_offer:
\* one row, and nothing in the evaluation.
StartRecompute(r, e, f) ==
    BeginScore(r, e, [op |-> "recompute", on |-> e, ref |-> f,
                      score |-> ScoreFor(f, evaluation[e].grades)])

FinishRecompute(r) ==
    /\ EndScore(r, "recompute")
    /\ refScore' = [refScore EXCEPT ![scoreReq[r].on][scoreReq[r].ref] = scoreReq[r].score]
    /\ UNCHANGED <<evaluation, esgReport>>

\* generate_report: the row of another generation is not committed before its
\* end, so that what holds this one back is the unique index
\* uq_one_generating_per_assessment, and not the test before it.
StartReport(r, e) ==
    /\ evaluation[e].st = "completed"
    /\ \A q \in ScoreRequests : scoreReq[q].op = "report" => scoreReq[q].on # e
    /\ BeginScore(r, e, [op |-> "report", on |-> e,
                         score |-> evaluation[e].score, grades |-> evaluation[e].grades])

FinishReport(r) ==
    /\ EndScore(r, "report")
    /\ esgReport' = [esgReport EXCEPT ![scoreReq[r].on] =
          [score |-> scoreReq[r].score, of |-> scoreReq[r].grades]]
    /\ UNCHANGED <<evaluation, refScore>>

\* The rendering raises, or a request is interrupted: nothing is kept, the row
\* of a failed report included.
FailScore(r) ==
    /\ scoreReq[r] # NoScoreRequest
    /\ scoreReq' = [scoreReq EXCEPT ![r] = NoScoreRequest]
    /\ UNCHANGED <<scoreOverlap, evaluation, refScore, esgReport>>

NextCompanyEsg ==
    \/ \E e \in Evaluations : CreateEvaluation(e)
    \/ \E r \in ScoreRequests :
        \/ \E e \in Evaluations :
            \/ \E cs \in SUBSET Graded \ {{}}, g \in Grades : StartSave(r, e, cs, g)
            \/ StartFinalizeEsg(r, e)
            \/ StartMulti(r, e)
            \/ \E f \in ScoreRefs : StartRecompute(r, e, f)
            \/ StartReport(r, e)
        \/ FinishSave(r) \/ FinishFinalizeEsg(r) \/ FinishMulti(r)
        \/ FinishRecompute(r) \/ FinishReport(r)
        \/ FailScore(r)

SpecCompanyEsg == InitCompanyEsg /\ [][NextCompanyEsg]_scoreVars

-----------------------------------------------------------------------------

\* The score of a finalised evaluation, and of every report, is that of the
\* grades beside it, however often the evaluation was reopened, finalised one
\* way or the other and recomputed; as long as requests do not overlap, since
\* finalize_esg_assessment_multi_ref writes the score and leaves the grades.
ScoresAreOfTheirGrades ==
    ~ scoreOverlap =>
        \A e \in Evaluations :
            /\ evaluation[e].st = "completed" =>
                  evaluation[e].score = OverallScore(evaluation[e].grades)
            /\ esgReport[e] # NoReport => esgReport[e].score = OverallScore(esgReport[e].of)
=============================================================================
