---------------------------- MODULE OfferMatches ----------------------------
(***************************************************************************)
(* The matches of one project with the offers of the catalogue, the        *)
(* subscription to their alerts and the alerts                             *)
(* (backend/app/modules/financing/matching_service.py, matching_router.py, *)
(* alerts_service.py, backend/app/graph/tools/matching_tools.py and the    *)
(* listener of backend/app/modules/projects/service.py).                   *)
(*                                                                         *)
(* A batch computes one match after the other and commits at the end; it   *)
(* runs in the background after a request or a change of the project, or   *)
(* in a request, and nothing keeps two of them apart but the rows they     *)
(* lock.  The catalogue is an input.  Of a match the model keeps whether   *)
(* its global_score reaches the thresholds that are used: "low" < "high".  *)
(***************************************************************************)
EXTENDS Naturals, FiniteSets

CONSTANTS
    Offers,          \* the offers of the catalogue
    MatchBatches,    \* slots for the batches in flight
    RecomputeCap     \* RECOMPUTE_OFFER_CAP

ASSUME RecomputeCapAssumption == RecomputeCap \in Nat

VARIABLES
    offerMatch,    \* offer_matches
    subscription,  \* match_alerts_subscriptions
    alerts,        \* the number of reminders new_offer_alert for each offer
    debounced,     \* a recompute was started for this project in the last 30 s
    matchBatch,    \* the batches in flight
    alertJob       \* the run of notify_new_offer_matches in progress

matchVars == <<offerMatch, subscription, alerts, debounced, matchBatch, alertJob>>

Levels == {"low", "high"}
AtLeast(level) == IF level = "low" THEN Levels ELSE {"high"}

NoMatch == [level |-> "none"]
NoSubscription == [active |-> FALSE, min |-> "none"]
NoBatch == [todo |-> {}, next |-> {}, found |-> FALSE, wrote |-> <<>>, runs |-> FALSE]

MatchTypeOK ==
    /\ offerMatch \in [Offers -> [level : Levels, fresh : BOOLEAN, notified : BOOLEAN] \cup {NoMatch}]
    /\ subscription \in [active : BOOLEAN, min : Levels] \cup {NoSubscription}
    /\ alerts \in [Offers -> 0 .. 2]
    /\ debounced \in BOOLEAN
    /\ \A b \in MatchBatches :
        /\ matchBatch[b].todo \subseteq Offers
        /\ matchBatch[b].next \subseteq Offers /\ Cardinality(matchBatch[b].next) <= 1
        /\ DOMAIN matchBatch[b].wrote \subseteq Offers \ matchBatch[b].todo
        /\ matchBatch[b].runs \/ matchBatch[b] = NoBatch
    /\ alertJob \in [runs : BOOLEAN, found : SUBSET Offers]

InitMatches ==
    /\ offerMatch = [o \in Offers |-> NoMatch]
    /\ subscription = NoSubscription
    /\ alerts = [o \in Offers |-> 0]
    /\ debounced = FALSE
    /\ matchBatch = [b \in MatchBatches |-> NoBatch]
    /\ alertJob = [runs |-> FALSE, found |-> {}]

-----------------------------------------------------------------------------
(* The batches: execute_recompute_batch, match_funds_for_project and          *)
(* compare_offers_for_fund                                                    *)

SetBatch(b, batch) == matchBatch' = [matchBatch EXCEPT ![b] = batch]

\* The offers that are published now are read once, those of one fund for a
\* comparison.
BatchStarts(b, todo) ==
    /\ ~matchBatch[b].runs
    /\ SetBatch(b, [NoBatch EXCEPT !.todo = todo, !.runs = TRUE])
    /\ UNCHANGED <<offerMatch, subscription, alerts, alertJob>>

\* In the order of the ids in the background, in any order for
\* match_funds_for_project.
StartRecompute(b, todo) ==
    /\ Cardinality(todo) <= RecomputeCap
    /\ BatchStarts(b, todo)
    /\ UNCHANGED debounced

StartCompare(b, todo) ==
    /\ BatchStarts(b, todo)
    /\ UNCHANGED debounced

\* The listener after_update of Project, at the flush of a change of a field that
\* matters: nothing is started within 30 seconds of the last one.
ProjectChanges(b, todo) ==
    /\ ~debounced
    /\ debounced' = TRUE
    /\ Cardinality(todo) <= RecomputeCap
    /\ BatchStarts(b, todo)

\* The 30 seconds pass, or the process restarts.
DebounceEnds ==
    /\ debounced
    /\ debounced' = FALSE
    /\ UNCHANGED <<offerMatch, subscription, alerts, matchBatch, alertJob>>

\* compute_offer_match looks for the row among the committed ones.  One offer
\* that fails before it writes is logged and left out.
LookForMatch(b, o) ==
    /\ matchBatch[b].next = {}
    /\ o \in matchBatch[b].todo
    /\ \/ SetBatch(b, [matchBatch[b] EXCEPT !.todo = @ \ {o}, !.next = {o},
                                            !.found = offerMatch[o] # NoMatch])
       \/ SetBatch(b, [matchBatch[b] EXCEPT !.todo = @ \ {o}])
    /\ UNCHANGED <<offerMatch, subscription, alerts, debounced, alertJob>>

\* Rows that other transactions have written and not committed.
Locked(b) == UNION {DOMAIN matchBatch[a].wrote : a \in MatchBatches \ {b}}

\* The flush waits for a lock.  It inserts what was not found: when it is there
\* by now uq_offer_matches_project_offer refuses it, the session is rolled back,
\* and every later statement and the commit of the batch fail.
WriteMatch(b, level) ==
    \E o \in matchBatch[b].next :
        /\ o \notin Locked(b)
        /\ IF matchBatch[b].found \/ offerMatch[o] = NoMatch
           THEN SetBatch(b, [matchBatch[b] EXCEPT !.next = {},
                        !.wrote = [x \in DOMAIN @ \cup {o} |-> IF x = o THEN level ELSE @[x]]])
           ELSE SetBatch(b, NoBatch)
        /\ UNCHANGED <<offerMatch, subscription, alerts, debounced, alertJob>>

\* Mutation of Written: a recomputed match is new again.
WrittenAnew(o, level) == [level |-> level, fresh |-> TRUE, notified |-> FALSE]

\* Only the changed columns are written: last_notified_at is not among them.
Written(o, level) ==
    [level |-> level, fresh |-> TRUE,
     notified |-> IF offerMatch[o] = NoMatch THEN FALSE ELSE offerMatch[o].notified]

CommitBatch(b) ==
    LET wrote == matchBatch[b].wrote IN
    /\ matchBatch[b].runs /\ matchBatch[b].todo = {} /\ matchBatch[b].next = {}
    /\ offerMatch' = [o \in Offers |-> IF o \in DOMAIN wrote THEN Written(o, wrote[o])
                                       ELSE offerMatch[o]]
    /\ SetBatch(b, NoBatch)
    /\ UNCHANGED <<subscription, alerts, debounced, alertJob>>

\* The process dies, or the batch is the victim of a deadlock of two batches that
\* lock the same rows in different orders.
BatchFails(b) ==
    /\ matchBatch[b].runs
    /\ SetBatch(b, NoBatch)
    /\ UNCHANGED <<offerMatch, subscription, alerts, debounced, alertJob>>

-----------------------------------------------------------------------------
(* The subscription *)

\* update_subscription creates one that is missing, with the threshold given
\* or 60, and active unless it is told not to be.
UpdateSubscription(min, active) ==
    /\ min \in Levels /\ active \in BOOLEAN
    /\ subscription' = [active |-> active, min |-> min]
    /\ UNCHANGED <<offerMatch, alerts, debounced, matchBatch, alertJob>>

-----------------------------------------------------------------------------
(* The alerts *)

\* Per subscription that is active: the rows that are committed, not notified,
\* not expired and reach the threshold.
StartAlerts ==
    /\ ~alertJob.runs
    /\ alertJob' = [runs |-> TRUE,
                    found |-> {o \in Offers : /\ subscription.active
                                              /\ offerMatch[o] # NoMatch
                                              /\ ~offerMatch[o].notified /\ offerMatch[o].fresh
                                              /\ offerMatch[o].level \in AtLeast(subscription.min)}]
    /\ UNCHANGED <<offerMatch, subscription, alerts, debounced, matchBatch>>

\* The reminders are inserted and the rows marked in one transaction, which
\* waits for the batches that hold one of them.
FinishAlerts ==
    /\ alertJob.runs
    /\ \A b \in MatchBatches : DOMAIN matchBatch[b].wrote \cap alertJob.found = {}
    /\ alerts' = [o \in Offers |-> IF o \in alertJob.found THEN alerts[o] + 1 ELSE alerts[o]]
    /\ offerMatch' = [o \in Offers |-> IF o \in alertJob.found
                                       THEN [offerMatch[o] EXCEPT !.notified = TRUE]
                                       ELSE offerMatch[o]]
    /\ alertJob' = [runs |-> FALSE, found |-> {}]
    /\ UNCHANGED <<subscription, debounced, matchBatch>>

AlertsFail ==
    /\ alertJob.runs
    /\ alertJob' = [runs |-> FALSE, found |-> {}]
    /\ UNCHANGED <<offerMatch, subscription, alerts, debounced, matchBatch>>

-----------------------------------------------------------------------------
(* The surroundings *)

\* MATCH_TTL_DAYS pass for a match.
MatchExpires(o) ==
    /\ offerMatch[o] # NoMatch /\ offerMatch[o].fresh
    /\ offerMatch' = [offerMatch EXCEPT ![o].fresh = FALSE]
    /\ UNCHANGED <<subscription, alerts, debounced, matchBatch, alertJob>>

NextMatches ==
    \/ \E b \in MatchBatches :
        \/ \E todo \in SUBSET Offers :
            StartRecompute(b, todo) \/ StartCompare(b, todo) \/ ProjectChanges(b, todo)
        \/ \E o \in Offers : LookForMatch(b, o)
        \/ \E level \in Levels : WriteMatch(b, level)
        \/ CommitBatch(b) \/ BatchFails(b)
    \/ DebounceEnds
    \/ \E min \in Levels, active \in BOOLEAN : UpdateSubscription(min, active)
    \/ StartAlerts \/ FinishAlerts \/ AlertsFail
    \/ \E o \in Offers : MatchExpires(o)

SpecMatches == InitMatches /\ [][NextMatches]_matchVars

-----------------------------------------------------------------------------
(* Properties *)

\* A user is told of a match once: a row is marked exactly when one reminder was
\* created for it, although batches rewrite the row while the job holds what it
\* read of it, the row expires and comes back, and batch and job may fail.
AlertedOnce ==
    \A o \in Offers :
        alerts[o] = IF offerMatch[o] # NoMatch /\ offerMatch[o].notified THEN 1 ELSE 0
=============================================================================
