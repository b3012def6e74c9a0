---------------------------- MODULE CreditScores ----------------------------
(***************************************************************************)
(* The green credit scores of one user                                     *)
(* (backend/app/modules/credit/service.py, router.py and                   *)
(* backend/app/graph/tools/credit_tools.py).                               *)
(*                                                                         *)
(* A generation is refused while a score of the last ten seconds exists,   *)
(* which the code calls a lock. It does not see a generation in progress:  *)
(* two that start together both go on, and only the unique version of a    *)
(* user's scores stands between them.  The clock ticks once in ten seconds.*)
(***************************************************************************)
EXTENDS Naturals, FiniteSets

CONSTANTS
    CreditRows,      \* identifiers for the rows of credit_scores
    CreditRequests,  \* slots for the generations in flight
    LastTick         \* bound: where the clock of the model stops

ASSUME CreditRowsAssumption == IsFiniteSet(CreditRows)
ASSUME LastTickAssumption == LastTick \in Nat

VARIABLES
    creditOverlap,  \* whether generations may overlap; it never changes
    creditClock,    \* the time
    creditScore,    \* credit_scores: the version and generated_at of each row
    creditReq       \* the generations in flight

creditVars == <<creditOverlap, creditClock, creditScore, creditReq>>

NoScoreRow == [version |-> 0]
NoGeneration == [op |-> "none"]

Ticks == 0 .. LastTick
VersionNumbers == 1 .. Cardinality(CreditRows) + 1

CreditTypeOK ==
    /\ creditOverlap \in BOOLEAN
    /\ creditClock \in Ticks
    /\ creditScore \in [CreditRows -> [version : VersionNumbers, at : Ticks] \cup {NoScoreRow}]
    /\ creditReq \in [CreditRequests ->
            [op : {"collect"}] \cup [op : {"number"}, at : Ticks]
            \cup [op : {"insert"}, at : Ticks, version : VersionNumbers] \cup {NoGeneration}]

InitCredit ==
    /\ creditOverlap \in BOOLEAN
    /\ creditClock = 0
    /\ creditScore = [s \in CreditRows |-> NoScoreRow]
    /\ creditReq = [r \in CreditRequests |-> NoGeneration]

Generated == {s \in CreditRows : creditScore[s] # NoScoreRow}

-----------------------------------------------------------------------------

\* is_generation_in_progress: a score of the last ten seconds.
GenerationInProgress == \E s \in Generated : creditScore[s].at = creditClock

\* The user has a company profile, and the generation is not refused (409).
StartScore(r) ==
    /\ creditReq[r] = NoGeneration
    /\ creditOverlap \/ \A q \in CreditRequests : creditReq[q] = NoGeneration
    /\ ~GenerationInProgress
    /\ creditReq' = [creditReq EXCEPT ![r] = [op |-> "collect"]]
    /\ UNCHANGED <<creditOverlap, creditClock, creditScore>>

\* The data points are collected and the scores computed before the clock is
\* read.
StampScore(r) ==
    /\ creditReq[r].op = "collect"
    /\ creditReq' = [creditReq EXCEPT ![r] = [op |-> "number", at |-> creditClock]]
    /\ UNCHANGED <<creditOverlap, creditClock, creditScore>>

\* get_next_version
NextVersion ==
    LET versions == {creditScore[s].version : s \in Generated}
    IN  IF versions = {} THEN 1
        ELSE (CHOOSE v \in versions : \A w \in versions : w <= v) + 1

NumberScore(r) ==
    /\ creditReq[r].op = "number"
    /\ creditReq' = [creditReq EXCEPT ![r] = [op |-> "insert", at |-> creditReq[r].at,
                                              version |-> NextVersion]]
    /\ UNCHANGED <<creditOverlap, creditClock, creditScore>>

\* Mutation of MayInsertVersion: the constraint is missing.
MayInsertAnyVersion(version) == TRUE

\* uq_credit_score_user_version
MayInsertVersion(version) == \A s \in Generated : creditScore[s].version # version

\* The insertion that the constraint refuses is an error 500, and the tool's is a
\* message to the model.
FinishScore(r) ==
    LET q == creditReq[r] IN
    /\ q.op = "insert"
    /\ creditReq' = [creditReq EXCEPT ![r] = NoGeneration]
    /\ IF MayInsertVersion(q.version)
       THEN \E s \in CreditRows \ Generated :
                creditScore' = [creditScore EXCEPT ![s] = [version |-> q.version, at |-> q.at]]
       ELSE UNCHANGED creditScore
    /\ UNCHANGED <<creditOverlap, creditClock>>

\* A query or the process fails: nothing was written.
ScoreFails(r) ==
    /\ creditReq[r] # NoGeneration
    /\ creditReq' = [creditReq EXCEPT ![r] = NoGeneration]
    /\ UNCHANGED <<creditOverlap, creditClock, creditScore>>

TenSeconds ==
    /\ creditClock < LastTick
    /\ creditClock' = creditClock + 1
    /\ UNCHANGED <<creditOverlap, creditScore, creditReq>>

NextCredit ==
    \/ \E r \in CreditRequests :
        StartScore(r) \/ StampScore(r) \/ NumberScore(r) \/ FinishScore(r) \/ ScoreFails(r)
    \/ TenSeconds

SpecCredit == InitCredit /\ [][NextCredit]_creditVars

-----------------------------------------------------------------------------
(* Properties *)

\* The versions of a user's scores number them without a gap, also when
\* generations overlap and some fail.  Without overlap get_latest_score, which
\* takes the last generated_at, finds the last version; with it, a generation
\* that read the clock first may be numbered last.
ScoresInOrder ==
    /\ {creditScore[s].version : s \in Generated} = 1 .. Cardinality(Generated)
    /\ ~creditOverlap =>
        \A s, t \in Generated :
            creditScore[s].version < creditScore[t].version => creditScore[s].at < creditScore[t].at
=============================================================================
