----------------------------- MODULE ActionPlan -----------------------------
(***************************************************************************)
(* The action plans of one user and the badges their progress earns        *)
(* (backend/app/modules/action_plan/service.py, badges.py, router.py and   *)
(* backend/app/graph/tools/action_plan_tools.py).                          *)
(*                                                                         *)
(* The requests of this module commit several times: the old plan is       *)
(* archived in a transaction before the one that inserts the new plan, and *)
(* the badges come after the action is committed.  A request may fail, or  *)
(* the process die, between any two of their steps.  Reminders are left    *)
(* out, no other operation reads them.                                     *)
(***************************************************************************)
EXTENDS Naturals, FiniteSets

CONSTANTS
    Plans,        \* identifiers for the rows of action_plans
    PlanActions,  \* the actions of a plan; every plan of the model has them all
    Contacts,     \* those of the category intermediary_contact
    Elsewhere,    \* the badges that are earned in other modules
    PlanRequests  \* slots for the requests in flight

ASSUME PlanActionsAssumption == IsFiniteSet(PlanActions)
ASSUME ElsewhereAssumption == "full_journey" \notin Elsewhere

VARIABLES
    planOverlap,  \* whether requests may overlap; it never changes
    plan,         \* action_plans and their action_items
    achieved,     \* the conditions of the badges of Elsewhere that hold
    badges,       \* the badges
    planReq       \* the requests in flight

planVars == <<planOverlap, plan, achieved, badges, planReq>>

\* VALID_STATUS_TRANSITIONS
ActionMoves ==
    { <<"todo", "in_progress">>, <<"todo", "cancelled">>,
      <<"in_progress", "completed">>, <<"in_progress", "on_hold">>, <<"in_progress", "cancelled">>,
      <<"on_hold", "in_progress">>, <<"on_hold", "cancelled">> }

ActionStatuses == {m[1] : m \in ActionMoves} \cup {m[2] : m \in ActionMoves}

\* BADGE_CONDITION_NAMES
SingleBadges == Elsewhere \cup {"first_intermediary_contact"}

NoPlan == [st |-> "absent"]
NoPlanRequest == [op |-> "none"]

PlanTypeOK ==
    /\ planOverlap \in BOOLEAN
    /\ plan \in [Plans ->
            [st : {"active", "archived"}, action : [PlanActions -> ActionStatuses],
             completed : 0..Cardinality(PlanActions)] \cup {NoPlan}]
    /\ achieved \subseteq Elsewhere
    /\ badges \subseteq SingleBadges \cup {"full_journey"}
    /\ planReq \in [PlanRequests ->
            [op : {"generate", "insert", "badges"}]
            \cup [op : {"move"}, on : Plans, action : PlanActions, to : ActionStatuses]
            \cup [op : {"count"}, on : Plans, action : PlanActions, to : ActionStatuses,
                  completed : 0..Cardinality(PlanActions)]
            \cup [op : {"award"}, new : SUBSET (SingleBadges \cup {"full_journey"})]
            \cup {NoPlanRequest}]

InitActionPlan ==
    /\ planOverlap \in BOOLEAN
    /\ plan = [p \in Plans |-> NoPlan]
    /\ achieved = {}
    /\ badges = {}
    /\ planReq = [r \in PlanRequests |-> NoPlanRequest]

BeginPlan(r, what) ==
    /\ planReq[r] = NoPlanRequest
    /\ planOverlap \/ \A q \in PlanRequests : planReq[q] = NoPlanRequest
    /\ planReq' = [planReq EXCEPT ![r] = what]
    /\ UNCHANGED <<planOverlap, plan, achieved, badges>>

\* The request r goes from the step op to the step `next`.
StepPlan(r, op, next) ==
    /\ planReq[r].op = op
    /\ planReq' = [planReq EXCEPT ![r] = next]
    /\ UNCHANGED <<planOverlap, achieved>>

-----------------------------------------------------------------------------
(* Generation *)

ActivePlans == {p \in Plans : plan[p].st = "active"}

\* generate_action_plan reads the context and calls the model.
StartGenerate(r) == BeginPlan(r, [op |-> "generate"])

\* The model has answered with actions: what was active is archived, and this is
\* committed.
ArchivePlan(r) ==
    /\ StepPlan(r, "generate", [op |-> "insert"])
    /\ plan' = [p \in Plans |-> IF p \in ActivePlans THEN [plan[p] EXCEPT !.st = "archived"]
                                ELSE plan[p]]
    /\ UNCHANGED badges

\* Mutation of MayBeActive: the index is missing, as it is under SQLite.
MayAlwaysBeActive == TRUE

\* uq_active_plan_per_user
MayBeActive == ActivePlans = {}

\* The new plan; an insertion that the index refuses is an error 500.
FinishGenerate(r) ==
    /\ StepPlan(r, "insert", NoPlanRequest)
    /\ IF MayBeActive
       THEN \E p \in Plans :
                /\ plan[p] = NoPlan
                /\ plan' = [plan EXCEPT ![p] = [st |-> "active", completed |-> 0,
                                                action |-> [a \in PlanActions |-> "todo"]]]
       ELSE UNCHANGED plan
    /\ UNCHANGED badges

-----------------------------------------------------------------------------
(* Progress *)

\* update_action_item checks the transition on the status it reads, in a plan of
\* any status.
StartMove(r, p, a, to) ==
    /\ plan[p] # NoPlan
    /\ <<plan[p].action[a], to>> \in ActionMoves
    /\ BeginPlan(r, [op |-> "move", on |-> p, action |-> a, to |-> to])

Completed(actions) == Cardinality({a \in PlanActions : actions[a] = "completed"})

\* _update_plan_counters counts the committed rows and the request's own.
Recounted(p, a, to) == Completed([plan[p].action EXCEPT ![a] = to])

\* The flush locks the row of the action until the commit.
CountActions(r) ==
    LET q == planReq[r] IN
    /\ q.op = "move"
    /\ ~\E s \in PlanRequests : /\ planReq[s].op = "count"
                                /\ planReq[s].on = q.on /\ planReq[s].action = q.action
    /\ StepPlan(r, "move", [op |-> "count", on |-> q.on, action |-> q.action, to |-> q.to,
                            completed |-> Recounted(q.on, q.action, q.to)])
    /\ UNCHANGED <<plan, badges>>

FinishMove(r) ==
    LET q == planReq[r] IN
    /\ StepPlan(r, "count", [op |-> "badges"])
    /\ plan' = [plan EXCEPT ![q.on] =
                    [st |-> @.st, action |-> [@.action EXCEPT ![q.action] = q.to],
                     completed |-> q.completed]]
    /\ UNCHANGED badges

-----------------------------------------------------------------------------
(* Badges *)

\* _has_completed_intermediary_contact looks at the plans of any status.
ContactMade == \E p \in Plans, a \in Contacts : plan[p] # NoPlan /\ plan[p].action[a] = "completed"

\* The conditions of the badges that hold.
Earned == achieved \cup {b \in {"first_intermediary_contact"} : ContactMade}

\* Mutation of NewBadges: the journey is full without the badges of Elsewhere.
NewBadgesEarly == (Earned \ badges) \cup ({"full_journey"} \ badges)

\* full_journey comes with the last of the others.
NewBadges ==
    (Earned \ badges)
    \cup {b \in {"full_journey"} \ badges : SingleBadges \subseteq badges \cup Earned}

ReadBadges(r) ==
    /\ StepPlan(r, "badges",
                IF NewBadges = {} THEN NoPlanRequest ELSE [op |-> "award", new |-> NewBadges])
    /\ UNCHANGED <<plan, badges>>

\* uq_user_badge: one badge that exists by now and none of them is inserted; the
\* exception is only logged.
AwardBadges(r) ==
    /\ StepPlan(r, "award", NoPlanRequest)
    /\ badges' = IF planReq[r].new \cap badges = {} THEN badges \cup planReq[r].new ELSE badges
    /\ UNCHANGED plan

\* A carbon assessment is completed, a dossier exists, the score of an evaluation
\* passes 50 or, when it is computed again, falls.
ConditionChanges(b) ==
    /\ achieved' = IF b \in achieved THEN achieved \ {b} ELSE achieved \cup {b}
    /\ UNCHANGED <<planOverlap, plan, badges, planReq>>

\* The model fails or answers nothing that can be read, the database fails, the
\* process dies: what was committed stays.
PlanRequestFails(r) ==
    /\ planReq[r] # NoPlanRequest
    /\ planReq' = [planReq EXCEPT ![r] = NoPlanRequest]
    /\ UNCHANGED <<planOverlap, plan, achieved, badges>>

NextActionPlan ==
    \/ \E r \in PlanRequests :
        \/ StartGenerate(r) \/ ArchivePlan(r) \/ FinishGenerate(r)
        \/ \E p \in Plans, a \in PlanActions, to \in ActionStatuses : StartMove(r, p, a, to)
        \/ CountActions(r) \/ FinishMove(r)
        \/ ReadBadges(r) \/ AwardBadges(r)
        \/ PlanRequestFails(r)
    \/ \E b \in Elsewhere : ConditionChanges(b)

SpecActionPlan == InitActionPlan /\ [][NextActionPlan]_planVars

-----------------------------------------------------------------------------
(* Properties *)

\* A user has at most one active plan, however generations interleave or fail
\* half-way (they may leave none), and a plan shows the number of its completed
\* actions.  When requests overlap, two completions count without each other.
OneCountedPlan ==
    /\ \A p, q \in ActivePlans : p = q
    /\ ~planOverlap => \A p \in Plans \ {x \in Plans : plan[x] = NoPlan} :
            plan[p].completed = Completed(plan[p].action)

\* Whoever has the badge of the full journey has every other badge, although the
\* badges of one request are all lost to another one's, and the conditions are
\* read before both insert.
JourneyIsFull == "full_journey" \in badges => SingleBadges \subseteq badges
=============================================================================
