-------------------------- MODULE AssessmentsProofs --------------------------
(***************************************************************************)
(* What TLAPS proves of the assessments of a company and of its projects,  *)
(* for any number of them, of criteria and of requests: what is finalised  *)
(* and what its reports show is what was answered, graded or entered; the  *)
(* versions of the credit scores have no gap; a user has at most one       *)
(* active plan whose counter is right, and the badge of the full journey   *)
(* comes with all the others; a list of finalised assessments names each of *)
(* them once, the scores of a company stay between zero and a hundred, and *)
(* with MigrationsProofs every variable of the composition in its type.    *)
(***************************************************************************)
EXTENDS MCAssessments, MigrationsProofs, SequenceTheorems

-----------------------------------------------------------------------------
(* Action plans *)

PlanRows == [st : {"active", "archived"}, action : [PlanActions -> ActionStatuses],
         completed : 0..Cardinality(PlanActions)]
AllBadges == SingleBadges \cup {"full_journey"}
Moving == [op : {"move"}, on : Plans, action : PlanActions, to : ActionStatuses]
Counting == [op : {"count"}, on : Plans, action : PlanActions, to : ActionStatuses,
             completed : 0..Cardinality(PlanActions)]
Flights == [op : {"generate", "insert", "badges"}] \cup Moving \cup Counting
           \cup [op : {"award"}, new : SUBSET AllBadges] \cup {NoPlanRequest}

\* A request that moves an action has its plan, which is never deleted.
MovesHavePlans ==
    \A r \in PlanRequests : planReq[r].op \in {"move", "count"} => plan[planReq[r].on] # NoPlan

PlanFields ==
    /\ planOverlap \in BOOLEAN
    /\ plan \in [Plans -> PlanRows \cup {NoPlan}]
    /\ achieved \subseteq Elsewhere
    /\ badges \subseteq AllBadges
    /\ planReq \in [PlanRequests -> Flights]

LEMMA TypesAreTypeOK == PlanFields <=> PlanTypeOK
<1> QED
    BY DEF PlanFields, PlanTypeOK, PlanRows, Flights, Moving, Counting, AllBadges

\* What a plan counts fits its counter.
LEMMA CompletedType ==
    ASSUME NEW f PROVE Completed(f) \in 0..Cardinality(PlanActions)
<1> DEFINE S == {a \in PlanActions : f[a] = "completed"}
<1>1. S \in SUBSET PlanActions
    OBVIOUS
<1>2. /\ IsFiniteSet(S)
      /\ Cardinality(S) <= Cardinality(PlanActions)
    BY <1>1, PlanActionsAssumption, FS_Subset
<1>3. Cardinality(S) \in Nat /\ Cardinality(PlanActions) \in Nat
    BY <1>2, PlanActionsAssumption, FS_CardinalityType
<1> QED
    BY <1>2, <1>3 DEF Completed

PlanShape == PlanFields /\ MovesHavePlans

LEMMA ShapeInit == InitActionPlan => PlanShape
<1> SUFFICES ASSUME InitActionPlan PROVE PlanShape
    OBVIOUS
<1>1. PlanFields
    BY DEF InitActionPlan, Flights, PlanFields
<1>2. MovesHavePlans
    BY DEF InitActionPlan, MovesHavePlans, NoPlanRequest
<1> QED
    BY <1>1, <1>2 DEF PlanShape

\* A request that begins or goes on with something of its type.
LEMMA FlightStep ==
    ASSUME PlanShape, NEW r \in PlanRequests, NEW next \in Flights,
           planReq' = [planReq EXCEPT ![r] = next],
           next.op \in {"move", "count"} => plan'[next.on] # NoPlan,
           \A p \in Plans : plan[p] # NoPlan => plan'[p] # NoPlan
    PROVE  planReq' \in [PlanRequests -> Flights] /\ MovesHavePlans'
<1> USE DEF PlanShape, PlanFields
<1>1. planReq' \in [PlanRequests -> Flights]
    OBVIOUS
<1>2. ASSUME NEW s \in PlanRequests, planReq'[s].op \in {"move", "count"}
      PROVE  plan'[planReq'[s].on] # NoPlan
    <2>1. CASE s = r
        BY <1>2, <2>1
    <2>2. CASE s # r
        <3>1. planReq'[s] = planReq[s]
            BY <2>2
        <3>2. planReq[s].on \in Plans /\ plan[planReq[s].on] # NoPlan
            BY <1>2, <3>1 DEF MovesHavePlans, Flights, Moving, Counting, NoPlanRequest
        <3> QED
            BY <3>1, <3>2
    <2> QED
        BY <2>1, <2>2
<1> QED
    BY <1>1, <1>2 DEF MovesHavePlans

\* A request that is given up or over.
LEMMA OverStep ==
    ASSUME PlanShape, NEW r \in PlanRequests,
           planReq' = [planReq EXCEPT ![r] = NoPlanRequest],
           \A p \in Plans : plan[p] # NoPlan => plan'[p] # NoPlan
    PROVE  planReq' \in [PlanRequests -> Flights] /\ MovesHavePlans'
<1>1. NoPlanRequest \in Flights /\ NoPlanRequest.op \notin {"move", "count"}
    BY DEF Flights, NoPlanRequest
<1> QED
    BY <1>1, FlightStep

\* The step that each action takes keeps the shape.
LEMMA ShapeStep == PlanShape /\ [NextActionPlan]_planVars => PlanShape'
<1> SUFFICES ASSUME PlanShape, [NextActionPlan]_planVars PROVE PlanShape'
    OBVIOUS
<1> USE DEF PlanFields
<1>0. PlanFields /\ MovesHavePlans
    BY DEF PlanShape
<1>1. ASSUME NEW r \in PlanRequests, StartGenerate(r) PROVE PlanShape'
    <2>1. [op |-> "generate"] \in Flights
        BY DEF Flights
    <2>2. planReq' \in [PlanRequests -> Flights] /\ MovesHavePlans'
        BY <1>1, <2>1, FlightStep DEF StartGenerate, BeginPlan
    <2> QED
        BY <1>0, <1>1, <2>2 DEF StartGenerate, BeginPlan, PlanShape
<1>2. ASSUME NEW r \in PlanRequests, ArchivePlan(r) PROVE PlanShape'
    <2>1. [op |-> "insert"] \in Flights
        BY DEF Flights
    <2>2. plan' \in [Plans -> PlanRows \cup {NoPlan}]
        <3>1. ASSUME NEW p \in ActivePlans PROVE [plan[p] EXCEPT !.st = "archived"] \in PlanRows
            BY <1>0 DEF ActivePlans, NoPlan, PlanRows
        <3> QED
            BY <1>0, <1>2, <3>1 DEF ArchivePlan
    <2>3. ASSUME NEW p \in Plans, plan[p] # NoPlan PROVE plan'[p] # NoPlan
        BY <1>0, <1>2, <2>3 DEF ArchivePlan, ActivePlans, NoPlan, PlanRows
    <2>4. planReq' \in [PlanRequests -> Flights] /\ MovesHavePlans'
        BY <1>2, <2>1, <2>3, FlightStep DEF ArchivePlan, StepPlan
    <2> QED
        BY <1>0, <1>2, <2>2, <2>4 DEF ArchivePlan, StepPlan, PlanShape
<1>3. ASSUME NEW r \in PlanRequests, FinishGenerate(r) PROVE PlanShape'
    <2> DEFINE new == [st |-> "active", completed |-> 0, action |-> [a \in PlanActions |-> "todo"]]
    <2>1. new \in PlanRows /\ new # NoPlan
        <3>1. "todo" \in ActionStatuses
            BY DEF ActionStatuses, ActionMoves
        <3>2. 0 \in 0..Cardinality(PlanActions)
            BY PlanActionsAssumption, FS_CardinalityType
        <3> QED
            BY <3>1, <3>2 DEF PlanRows, NoPlan
    <2>2. CASE MayBeActive
        <3> PICK p \in Plans : plan[p] = NoPlan /\ plan' = [plan EXCEPT ![p] = new]
            BY <1>3, <2>2 DEF FinishGenerate
        <3>1. plan' \in [Plans -> PlanRows \cup {NoPlan}]
            BY <1>0, <2>1
        <3>2. \A x \in Plans : plan[x] # NoPlan => plan'[x] # NoPlan
            BY <1>0
        <3>3. planReq' \in [PlanRequests -> Flights] /\ MovesHavePlans'
            BY <1>3, <3>2, OverStep DEF FinishGenerate, StepPlan
        <3> QED
            BY <1>0, <1>3, <3>1, <3>3 DEF FinishGenerate, StepPlan, PlanShape
    <2>3. CASE ~ MayBeActive
        <3>1. UNCHANGED plan
            BY <1>3, <2>3 DEF FinishGenerate
        <3>2. planReq' \in [PlanRequests -> Flights] /\ MovesHavePlans'
            BY <1>3, <3>1, OverStep DEF FinishGenerate, StepPlan
        <3> QED
            BY <1>0, <1>3, <3>1, <3>2 DEF FinishGenerate, StepPlan, PlanShape
    <2> QED
        BY <2>2, <2>3
<1>4. ASSUME NEW r \in PlanRequests, NEW p \in Plans, NEW a \in PlanActions,
             NEW to \in ActionStatuses, StartMove(r, p, a, to)
      PROVE  PlanShape'
    <2> DEFINE next == [op |-> "move", on |-> p, action |-> a, to |-> to]
    <2>1. next \in Flights
        BY DEF Flights, Moving
    <2>2. plan' = plan /\ plan[p] # NoPlan
        BY <1>4 DEF StartMove, BeginPlan
    <2>3. planReq' = [planReq EXCEPT ![r] = next]
        BY <1>4 DEF StartMove, BeginPlan
    <2>4. planReq' \in [PlanRequests -> Flights] /\ MovesHavePlans'
        BY <2>1, <2>2, <2>3, FlightStep
    <2> QED
        BY <1>0, <1>4, <2>2, <2>4 DEF StartMove, BeginPlan, PlanShape
<1>5. ASSUME NEW r \in PlanRequests, CountActions(r) PROVE PlanShape'
    <2> DEFINE q == planReq[r]
               next == [op |-> "count", on |-> q.on, action |-> q.action, to |-> q.to,
                        completed |-> Recounted(q.on, q.action, q.to)]
    <2>1. q \in Moving
        BY <1>0, <1>5 DEF CountActions, Flights, Moving, Counting, NoPlanRequest
    <2>2. next \in Flights
        <3>1. Recounted(q.on, q.action, q.to) \in 0..Cardinality(PlanActions)
            BY CompletedType DEF Recounted
        <3> QED
            BY <2>1, <3>1 DEF Flights, Moving, Counting
    <2>3. plan' = plan /\ plan[q.on] # NoPlan
        BY <1>0, <1>5 DEF CountActions, MovesHavePlans
    <2>4. planReq' = [planReq EXCEPT ![r] = next]
        BY <1>5 DEF CountActions, StepPlan
    <2> HIDE DEF next
    <2>5. next.on = q.on
        BY DEF next
    <2>6. planReq' \in [PlanRequests -> Flights] /\ MovesHavePlans'
        BY <2>2, <2>3, <2>4, <2>5, FlightStep
    <2> QED
        BY <1>0, <1>5, <2>3, <2>6 DEF CountActions, StepPlan, PlanShape
<1>6. ASSUME NEW r \in PlanRequests, FinishMove(r) PROVE PlanShape'
    <2> DEFINE q == planReq[r]
    <2>1. q \in Counting /\ plan[q.on] \in PlanRows
        BY <1>0, <1>6 DEF FinishMove, StepPlan, Flights, Moving, Counting, NoPlanRequest, MovesHavePlans
    <2>2. plan' = [plan EXCEPT ![q.on] =
                [st |-> plan[q.on].st, action |-> [plan[q.on].action EXCEPT ![q.action] = q.to],
                 completed |-> q.completed]]
        BY <1>6 DEF FinishMove
    <2>3. plan' \in [Plans -> PlanRows \cup {NoPlan}] /\ plan'[q.on] # NoPlan
        BY <1>0, <2>1, <2>2 DEF Counting, PlanRows, NoPlan
    <2>4. \A x \in Plans : plan[x] # NoPlan => plan'[x] # NoPlan
        BY <1>0, <2>1, <2>2, <2>3 DEF Counting
    <2>5. [op |-> "badges"] \in Flights
        BY DEF Flights
    <2>6. planReq' \in [PlanRequests -> Flights] /\ MovesHavePlans'
        BY <1>6, <2>4, <2>5, FlightStep DEF FinishMove, StepPlan
    <2> QED
        BY <1>0, <1>6, <2>3, <2>6 DEF FinishMove, StepPlan, PlanShape
<1>7. ASSUME NEW r \in PlanRequests, ReadBadges(r) PROVE PlanShape'
    <2>1. NewBadges \in SUBSET AllBadges
        BY <1>0 DEF NewBadges, Earned, SingleBadges, AllBadges
    <2>2. [op |-> "award", new |-> NewBadges] \in Flights
        BY <2>1 DEF Flights
    <2>3. planReq' \in [PlanRequests -> Flights] /\ MovesHavePlans'
        <3>1. CASE NewBadges = {}
            BY <1>7, <3>1, OverStep DEF ReadBadges, StepPlan
        <3>2. CASE NewBadges # {}
            BY <1>7, <2>2, <3>2, FlightStep DEF ReadBadges, StepPlan
        <3> QED
            BY <3>1, <3>2
    <2> QED
        BY <1>0, <1>7, <2>3 DEF ReadBadges, StepPlan, PlanShape
<1>8. ASSUME NEW r \in PlanRequests, AwardBadges(r) PROVE PlanShape'
    <2>1. planReq[r].new \in SUBSET AllBadges
        BY <1>0, <1>8 DEF AwardBadges, StepPlan, Flights, Moving, Counting, NoPlanRequest
    <2>2. badges' \in SUBSET AllBadges
        BY <1>0, <1>8, <2>1 DEF AwardBadges
    <2>3. planReq' \in [PlanRequests -> Flights] /\ MovesHavePlans'
        BY <1>8, OverStep DEF AwardBadges, StepPlan
    <2> QED
        BY <1>0, <1>8, <2>2, <2>3 DEF AwardBadges, StepPlan, PlanShape
<1>9. ASSUME NEW r \in PlanRequests, PlanRequestFails(r) PROVE PlanShape'
    <2>1. planReq' \in [PlanRequests -> Flights] /\ MovesHavePlans'
        BY <1>9, OverStep DEF PlanRequestFails
    <2> QED
        BY <1>0, <1>9, <2>1 DEF PlanRequestFails, PlanShape
<1>10. ASSUME NEW b \in Elsewhere, ConditionChanges(b) PROVE PlanShape'
    BY <1>0, <1>10 DEF ConditionChanges, PlanShape, MovesHavePlans
<1>11. CASE UNCHANGED planVars
    BY <1>0, <1>11 DEF planVars, PlanShape, MovesHavePlans
<1> QED
    BY <1>1, <1>2, <1>3, <1>4, <1>5, <1>6, <1>7, <1>8, <1>9, <1>10, <1>11 DEF NextActionPlan

\* Every variable of the plans stays in its type, and a request that moves an
\* action has its plan.
THEOREM PlanTypes == SpecActionPlan => [](PlanTypeOK /\ MovesHavePlans)
<1>1. PlanShape => PlanTypeOK /\ MovesHavePlans
    BY TypesAreTypeOK DEF PlanShape
<1> QED
    BY <1>1, ShapeInit, ShapeStep, PTL DEF SpecActionPlan
-----------------------------------------------------------------------------
(* The active plan and its counter *)

\* Without overlap one request is in flight, and what it counted is still so.
Serial ==
    ~ planOverlap =>
        \A r, s \in PlanRequests : planReq[r] # NoPlanRequest /\ planReq[s] # NoPlanRequest => r = s
OneActive == \A p, q \in ActivePlans : p = q
Counted == ~ planOverlap => \A p \in Plans : plan[p] # NoPlan => plan[p].completed = Completed(plan[p].action)
CountIsRight ==
    ~ planOverlap =>
        \A r \in PlanRequests : planReq[r].op = "count" =>
            planReq[r].completed = Recounted(planReq[r].on, planReq[r].action, planReq[r].to)

PlanInv == PlanShape /\ Serial /\ OneActive /\ Counted /\ CountIsRight

LEMMA PlanInvInit == InitActionPlan => PlanInv
<1> SUFFICES ASSUME InitActionPlan PROVE PlanInv
    OBVIOUS
<1>1. Serial /\ CountIsRight
    BY DEF InitActionPlan, Serial, CountIsRight, NoPlanRequest
<1>2. OneActive /\ Counted
    BY DEF InitActionPlan, OneActive, ActivePlans, Counted, NoPlan
<1> QED
    BY <1>1, <1>2, ShapeInit DEF PlanInv

\* A request begins only when, without overlap, no other is in flight.
LEMMA SerialStep == PlanShape /\ Serial /\ [NextActionPlan]_planVars => Serial'
<1> SUFFICES ASSUME PlanShape, Serial, [NextActionPlan]_planVars, ~ planOverlap'
             PROVE  \A r, s \in PlanRequests : planReq'[r] # NoPlanRequest /\ planReq'[s] # NoPlanRequest => r = s
    BY DEF Serial
<1> USE DEF PlanShape, PlanFields
<1>1. ASSUME NEW r \in PlanRequests, NEW next,
             planReq' = [planReq EXCEPT ![r] = next], ~ planOverlap,
             \/ planReq[r] # NoPlanRequest
             \/ \A q \in PlanRequests : planReq[q] = NoPlanRequest
      PROVE  \A x, y \in PlanRequests : planReq'[x] # NoPlanRequest /\ planReq'[y] # NoPlanRequest => x = y
    BY <1>1 DEF Serial
<1>2. ASSUME NEW r \in PlanRequests, NEW what, BeginPlan(r, what)
      PROVE  \A x, y \in PlanRequests : planReq'[x] # NoPlanRequest /\ planReq'[y] # NoPlanRequest => x = y
    BY <1>1, <1>2 DEF BeginPlan
<1>4. ASSUME NEW r \in PlanRequests, StartGenerate(r) \/ \E p \in Plans, a \in PlanActions, to \in ActionStatuses : StartMove(r, p, a, to)
      PROVE  \A x, y \in PlanRequests : planReq'[x] # NoPlanRequest /\ planReq'[y] # NoPlanRequest => x = y
    BY <1>2, <1>4 DEF StartGenerate, StartMove
<1>5. ASSUME NEW r \in PlanRequests,
             ArchivePlan(r) \/ FinishGenerate(r) \/ CountActions(r) \/ FinishMove(r) \/ ReadBadges(r) \/ AwardBadges(r)
      PROVE  \A x, y \in PlanRequests : planReq'[x] # NoPlanRequest /\ planReq'[y] # NoPlanRequest => x = y
    <2> USE DEF ArchivePlan, FinishGenerate, CountActions, FinishMove, ReadBadges, AwardBadges, StepPlan
    <2>1. planReq[r] # NoPlanRequest
        BY <1>5 DEF NoPlanRequest
    <2>2. planReq' = [planReq EXCEPT ![r] = planReq'[r]] /\ planOverlap' = planOverlap
        BY <1>5
    <2> QED
        BY <1>1, <2>1, <2>2
<1>6. ASSUME NEW r \in PlanRequests, PlanRequestFails(r)
      PROVE  \A x, y \in PlanRequests : planReq'[x] # NoPlanRequest /\ planReq'[y] # NoPlanRequest => x = y
    BY <1>1, <1>6 DEF PlanRequestFails
<1>7. CASE planReq' = planReq /\ planOverlap' = planOverlap
    BY <1>7 DEF Serial
<1>8. ASSUME NEW b \in Elsewhere, ConditionChanges(b) PROVE planReq' = planReq /\ planOverlap' = planOverlap
    BY <1>8 DEF ConditionChanges
<1>9. CASE UNCHANGED planVars
    BY <1>7, <1>9 DEF planVars
<1> QED
    BY <1>4, <1>5, <1>6, <1>7, <1>8, <1>9 DEF NextActionPlan

LEMMA TodoCountsNothing == Completed([a \in PlanActions |-> "todo"]) = 0
<1> DEFINE f == [a \in PlanActions |-> "todo"]
<1>1. {a \in PlanActions : f[a] = "completed"} = {}
    OBVIOUS
<1> QED
    BY <1>1, FS_EmptySet DEF Completed

\* One active plan: the index refuses a second, and only a generation makes one.
LEMMA OneActiveStep == PlanShape /\ OneActive /\ [NextActionPlan]_planVars => OneActive'
<1> SUFFICES ASSUME PlanShape, OneActive, [NextActionPlan]_planVars PROVE OneActive'
    OBVIOUS
<1> USE DEF PlanShape, PlanFields
<1>1. ASSUME NEW r \in PlanRequests, ArchivePlan(r) PROVE OneActive'
    <2>1. ActivePlans' = {}
        BY <1>1 DEF ArchivePlan, ActivePlans, PlanRows, NoPlan
    <2> QED
        BY <2>1 DEF OneActive
<1>2. ASSUME NEW r \in PlanRequests, FinishGenerate(r) PROVE OneActive'
    <2>1. CASE MayBeActive
        <3> DEFINE new == [st |-> "active", completed |-> 0, action |-> [a \in PlanActions |-> "todo"]]
        <3>1. PICK p \in Plans : plan[p] = NoPlan /\ plan' = [plan EXCEPT ![p] = new]
            BY <1>2, <2>1 DEF FinishGenerate
        <3>2. ActivePlans' \subseteq {p}
            BY <2>1, <3>1 DEF ActivePlans, MayBeActive
        <3> QED
            BY <3>2 DEF OneActive
    <2> QED
        BY <1>2, <2>1 DEF FinishGenerate, OneActive, ActivePlans
<1>3. ASSUME NEW r \in PlanRequests, FinishMove(r) PROVE OneActive'
    <2> DEFINE q == planReq[r]
    <2>1. q \in Counting /\ plan[q.on] \in PlanRows
        BY <1>3 DEF FinishMove, StepPlan, Flights, Moving, Counting, NoPlanRequest, MovesHavePlans
    <2>2. \A p \in Plans : plan'[p].st = plan[p].st
        BY <1>3, <2>1 DEF FinishMove, Counting
    <2>3. ActivePlans' = ActivePlans
        BY <2>2 DEF ActivePlans
    <2> QED
        BY <2>3 DEF OneActive
<1>4. CASE plan' = plan
    BY <1>4 DEF OneActive, ActivePlans
<1> QED
    BY <1>1, <1>2, <1>3, <1>4
    DEF NextActionPlan, StartGenerate, StartMove, BeginPlan, CountActions, StepPlan, ReadBadges,
        AwardBadges, PlanRequestFails, ConditionChanges, planVars
\* Without overlap, what a request counted is what its commit writes.
LEMMA CountStep ==
    ASSUME PlanInv, [NextActionPlan]_planVars
    PROVE  Counted' /\ CountIsRight'
<1> USE DEF PlanShape, PlanFields
<1>0. PlanShape /\ Serial /\ Counted /\ CountIsRight
    BY DEF PlanInv
<1>1. planOverlap' = planOverlap
    BY DEF NextActionPlan, StartGenerate, ArchivePlan, FinishGenerate, StartMove, CountActions,
           FinishMove, ReadBadges, AwardBadges, StepPlan, BeginPlan, PlanRequestFails,
           ConditionChanges, planVars
<1> SUFFICES ASSUME ~ planOverlap PROVE Counted' /\ CountIsRight'
    BY <1>1 DEF Counted, CountIsRight
<1>2. ASSUME NEW r \in PlanRequests, NEW next, next.op # "count",
             planReq' = [planReq EXCEPT ![r] = next], plan' = plan
      PROVE  Counted' /\ CountIsRight'
    BY <1>0, <1>1, <1>2 DEF Counted, CountIsRight, Recounted
<1>3. ASSUME NEW r \in PlanRequests, planReq[r] # NoPlanRequest,
             NEW next, next.op # "count", planReq' = [planReq EXCEPT ![r] = next]
      PROVE  CountIsRight'
    <2>1. \A s \in PlanRequests : s # r => planReq'[s] = NoPlanRequest
        BY <1>0, <1>3 DEF Serial
    <2> QED
        BY <1>0, <1>3, <2>1 DEF CountIsRight, NoPlanRequest
<1>4. ASSUME NEW r \in PlanRequests, ArchivePlan(r) PROVE Counted' /\ CountIsRight'
    <2>1. planReq[r] # NoPlanRequest /\ planReq' = [planReq EXCEPT ![r] = [op |-> "insert"]]
        BY <1>4 DEF ArchivePlan, StepPlan, NoPlanRequest
    <2>2. ASSUME NEW p \in Plans, plan'[p] # NoPlan
          PROVE  /\ plan[p] # NoPlan
                 /\ plan'[p].completed = plan[p].completed /\ plan'[p].action = plan[p].action
        BY <1>0, <1>4, <2>2 DEF ArchivePlan, ActivePlans, PlanRows, NoPlan
    <2>3. Counted'
        BY <1>0, <2>2 DEF Counted
    <2> QED
        BY <1>3, <2>1, <2>3
<1>5. ASSUME NEW r \in PlanRequests, FinishGenerate(r) PROVE Counted' /\ CountIsRight'
    <2>1. planReq[r] # NoPlanRequest /\ planReq' = [planReq EXCEPT ![r] = NoPlanRequest]
        BY <1>5 DEF FinishGenerate, StepPlan, NoPlanRequest
    <2>2. CountIsRight'
        BY <1>3, <2>1 DEF NoPlanRequest
    <2>3. CASE MayBeActive
        <3> DEFINE new == [st |-> "active", completed |-> 0, action |-> [a \in PlanActions |-> "todo"]]
        <3>1. PICK p \in Plans : plan[p] = NoPlan /\ plan' = [plan EXCEPT ![p] = new]
            BY <1>5, <2>3 DEF FinishGenerate
        <3>2. new.completed = Completed(new.action)
            BY TodoCountsNothing
        <3> HIDE DEF new
        <3>3. ASSUME NEW x \in Plans, plan'[x] # NoPlan PROVE plan'[x].completed = Completed(plan'[x].action)
            BY <1>0, <3>1, <3>2, <3>3 DEF Counted
        <3> QED
            BY <2>2, <3>3 DEF Counted
    <2>4. CASE ~ MayBeActive
        BY <1>0, <1>5, <2>2, <2>4 DEF FinishGenerate, Counted
    <2> QED
        BY <2>3, <2>4
<1>6. ASSUME NEW r \in PlanRequests, CountActions(r) PROVE Counted' /\ CountIsRight'
    <2> DEFINE q == planReq[r]
               next == [op |-> "count", on |-> q.on, action |-> q.action, to |-> q.to,
                        completed |-> Recounted(q.on, q.action, q.to)]
    <2>1. plan' = plan /\ planReq' = [planReq EXCEPT ![r] = next]
        BY <1>6 DEF CountActions, StepPlan
    <2>2. next.completed = Recounted(next.on, next.action, next.to)
        OBVIOUS
    <2> HIDE DEF next
    <2>3. \A s \in PlanRequests : planReq'[s].op = "count" =>
            planReq'[s].completed = Recounted(planReq'[s].on, planReq'[s].action, planReq'[s].to)
        BY <1>0, <2>1, <2>2 DEF CountIsRight
    <2> QED
        BY <1>0, <2>1, <2>3 DEF Counted, CountIsRight, Recounted
<1>7. ASSUME NEW r \in PlanRequests, FinishMove(r) PROVE Counted' /\ CountIsRight'
    <2> DEFINE q == planReq[r]
               row == [st |-> plan[q.on].st, action |-> [plan[q.on].action EXCEPT ![q.action] = q.to],
                       completed |-> q.completed]
    <2>1. q.op = "count" /\ q \in Counting
        BY <1>0, <1>7 DEF FinishMove, StepPlan, Flights, Moving, Counting, NoPlanRequest
    <2>2. plan' = [plan EXCEPT ![q.on] = row]
        BY <1>7 DEF FinishMove
    <2>3. row.completed = Completed(row.action)
        BY <1>0, <2>1 DEF CountIsRight, Recounted
    <2> HIDE DEF row
    <2>4. Counted'
        BY <1>0, <2>2, <2>3 DEF Counted
    <2>5. planReq[r] # NoPlanRequest /\ planReq' = [planReq EXCEPT ![r] = [op |-> "badges"]]
        BY <1>7 DEF FinishMove, StepPlan, NoPlanRequest
    <2> QED
        BY <1>3, <2>4, <2>5
<1>8. ASSUME NEW r \in PlanRequests,
             \/ StartGenerate(r)
             \/ \E p \in Plans, a \in PlanActions, to \in ActionStatuses : StartMove(r, p, a, to)
             \/ ReadBadges(r) \/ AwardBadges(r) \/ PlanRequestFails(r)
      PROVE  Counted' /\ CountIsRight'
    <2>1. CASE StartGenerate(r)
        BY <1>2, <2>1 DEF StartGenerate, BeginPlan
    <2>2. ASSUME NEW p \in Plans, NEW a \in PlanActions, NEW to \in ActionStatuses, StartMove(r, p, a, to)
          PROVE  Counted' /\ CountIsRight'
        BY <1>2, <2>2 DEF StartMove, BeginPlan
    <2>3. CASE ReadBadges(r)
        BY <1>2, <2>3 DEF ReadBadges, StepPlan, NoPlanRequest
    <2>4. CASE AwardBadges(r) \/ PlanRequestFails(r)
        BY <1>2, <2>4 DEF AwardBadges, StepPlan, PlanRequestFails, NoPlanRequest
    <2> QED
        BY <1>8, <2>1, <2>2, <2>3, <2>4
<1>9. CASE plan' = plan /\ planReq' = planReq
    BY <1>0, <1>1, <1>9 DEF Counted, CountIsRight, Recounted
<1> QED
    BY <1>4, <1>5, <1>6, <1>7, <1>8, <1>9 DEF NextActionPlan, ConditionChanges, planVars

\* However generations interleave, are refused or stop between their two
\* commits, one plan at most is active; and without overlap a plan shows the
\* number of its completed actions.
THEOREM PlanIsOneAndCounted == SpecActionPlan => []OneCountedPlan
<1>1. PlanInv /\ [NextActionPlan]_planVars => PlanInv'
    BY ShapeStep, SerialStep, OneActiveStep, CountStep DEF PlanInv
<1>2. PlanInv => OneCountedPlan
    BY DEF PlanInv, OneActive, Counted, OneCountedPlan
<1> QED
    BY PlanInvInit, <1>1, <1>2, PTL DEF SpecActionPlan

-----------------------------------------------------------------------------
(* The badges *)

\* Badges are never taken back, so that what is still to be inserted with the
\* badge of the full journey completes what is there.
AwardsAreFull ==
    \A r \in PlanRequests :
        planReq[r].op = "award" /\ "full_journey" \in planReq[r].new =>
            SingleBadges \subseteq badges \cup planReq[r].new

JourneyInv == PlanShape /\ JourneyIsFull /\ AwardsAreFull

LEMMA JourneyStep == JourneyInv /\ [NextActionPlan]_planVars => JourneyInv'
<1> SUFFICES ASSUME JourneyInv, [NextActionPlan]_planVars PROVE JourneyIsFull' /\ AwardsAreFull'
    BY ShapeStep DEF JourneyInv
<1> USE DEF PlanShape, PlanFields
<1>0. PlanShape /\ JourneyIsFull /\ AwardsAreFull
    BY DEF JourneyInv
<1>1. ASSUME NEW r \in PlanRequests, NEW next, next.op # "award",
             planReq' = [planReq EXCEPT ![r] = next], badges' = badges
      PROVE  JourneyIsFull' /\ AwardsAreFull'
    BY <1>0, <1>1 DEF JourneyIsFull, AwardsAreFull, SingleBadges
<1>2. ASSUME NEW r \in PlanRequests, ReadBadges(r) PROVE JourneyIsFull' /\ AwardsAreFull'
    <2>1. CASE NewBadges = {}
        BY <1>1, <1>2, <2>1 DEF ReadBadges, StepPlan, NoPlanRequest
    <2>2. CASE NewBadges # {}
        <3> DEFINE next == [op |-> "award", new |-> NewBadges]
        <3>1. badges' = badges /\ planReq' = [planReq EXCEPT ![r] = next]
            BY <1>2, <2>2 DEF ReadBadges, StepPlan
        <3>2. "full_journey" \in NewBadges => SingleBadges \subseteq badges \cup NewBadges
            BY <1>0, ElsewhereAssumption DEF NewBadges, Earned, SingleBadges
        <3> QED
            BY <1>0, <3>1, <3>2 DEF JourneyIsFull, AwardsAreFull, SingleBadges
    <2> QED
        BY <2>1, <2>2
<1>3. ASSUME NEW r \in PlanRequests, AwardBadges(r) PROVE JourneyIsFull' /\ AwardsAreFull'
    <2>1. planReq[r].op = "award" /\ planReq' = [planReq EXCEPT ![r] = NoPlanRequest]
        BY <1>3 DEF AwardBadges, StepPlan
    <2>2. badges' = badges \/ badges' = badges \cup planReq[r].new
        BY <1>3 DEF AwardBadges
    <2>3. JourneyIsFull'
        BY <1>0, <2>1, <2>2 DEF JourneyIsFull, AwardsAreFull, SingleBadges
    <2>4. AwardsAreFull'
        BY <1>0, <2>1, <2>2 DEF AwardsAreFull, SingleBadges, NoPlanRequest
    <2> QED
        BY <2>3, <2>4
<1>4. ASSUME NEW r \in PlanRequests,
             ArchivePlan(r) \/ FinishGenerate(r) \/ CountActions(r) \/ FinishMove(r) \/ PlanRequestFails(r)
      PROVE  JourneyIsFull' /\ AwardsAreFull'
    BY <1>1, <1>4 DEF ArchivePlan, FinishGenerate, CountActions, FinishMove, PlanRequestFails, StepPlan, NoPlanRequest
<1>5. ASSUME NEW r \in PlanRequests,
             \/ StartGenerate(r)
             \/ \E p \in Plans, a \in PlanActions, to \in ActionStatuses : StartMove(r, p, a, to)
      PROVE  JourneyIsFull' /\ AwardsAreFull'
    BY <1>1, <1>5 DEF StartGenerate, StartMove, BeginPlan
<1>6. CASE badges' = badges /\ planReq' = planReq
    BY <1>0, <1>6 DEF JourneyIsFull, AwardsAreFull, SingleBadges
<1> QED
    BY <1>2, <1>3, <1>4, <1>5, <1>6 DEF NextActionPlan, ConditionChanges, planVars

\* The badge of the full journey is never without one of the others, although
\* two requests compute their badges before either inserts them, and the
\* conditions may have ceased to hold in between.
THEOREM JourneyComesLast == SpecActionPlan => []JourneyIsFull
<1>1. InitActionPlan => JourneyInv
    BY ShapeInit DEF InitActionPlan, JourneyInv, JourneyIsFull, AwardsAreFull, NoPlanRequest
<1>2. JourneyInv => JourneyIsFull
    BY DEF JourneyInv
<1> QED
    BY <1>1, <1>2, JourneyStep, PTL DEF SpecActionPlan

-----------------------------------------------------------------------------
(* Credit scores *)

ScoreRows == [version : Nat, at : Ticks]
Generations == [op : {"collect"}] \cup [op : {"number"}, at : Ticks]
               \cup [op : {"insert"}, at : Ticks, version : Nat] \cup {NoGeneration}
Count == Cardinality(Generated)

CreditShape ==
    /\ creditOverlap \in BOOLEAN
    /\ creditClock \in Ticks
    /\ creditScore \in [CreditRows -> ScoreRows \cup {NoScoreRow}]
    /\ creditReq \in [CreditRequests -> Generations]

\* The versions are the first numbers, and one that a request holds is the next
\* one or is taken.
Numbered ==
    /\ {creditScore[s].version : s \in Generated} = 1 .. Count
    /\ \A r \in CreditRequests : creditReq[r].op = "insert" => creditReq[r].version \in 1 .. Count + 1

CreditInv == CreditShape /\ Numbered

LEMMA CountType == IsFiniteSet(Generated) /\ Count \in Nat
<1>1. Generated \in SUBSET CreditRows
    BY DEF Generated
<1> QED
    BY <1>1, CreditRowsAssumption, FS_Subset, FS_CardinalityType DEF Count

LEMMA CreditInit == InitCredit => CreditInv
<1> SUFFICES ASSUME InitCredit PROVE CreditInv
    OBVIOUS
<1>1. CreditShape
    BY LastTickAssumption DEF InitCredit, CreditShape, Generations, Ticks
<1>2. Generated = {}
    BY DEF InitCredit, Generated
<1>3. Count = 0
    BY <1>2, FS_EmptySet DEF Count
<1>4. Numbered
    BY <1>2, <1>3 DEF InitCredit, Numbered, NoGeneration
<1> QED
    BY <1>1, <1>4 DEF CreditInv

\* What get_next_version finds is one more than the number of the scores.
LEMMA NextVersionIsNext == CreditInv => NextVersion = Count + 1
<1> SUFFICES ASSUME CreditInv PROVE NextVersion = Count + 1
    OBVIOUS
<1> DEFINE versions == {creditScore[s].version : s \in Generated}
<1>1. versions = 1 .. Count /\ Count \in Nat
    BY CountType DEF CreditInv, Numbered
<1>2. CASE versions = {}
    <2>1. Count = 0
        <3>1. 1 .. Count = {}
            BY <1>1, <1>2
        <3> QED
            BY <1>1, <3>1
    <2> QED
        BY <1>2, <2>1 DEF NextVersion
<1>3. CASE versions # {}
    <2>1. Count \in versions /\ \A w \in versions : w <= Count
        BY <1>1, <1>3
    <2> DEFINE last == CHOOSE v \in versions : \A w \in versions : w <= v
    <2>2. last \in versions /\ \A w \in versions : w <= last
        BY <2>1
    <2>3. last = Count
        BY <1>1, <2>1, <2>2
    <2>4. NextVersion = last + 1
        BY <1>3 DEF NextVersion
    <2> QED
        BY <2>3, <2>4
<1> QED
    BY <1>2, <1>3

\* A row that the constraint lets in has the next version.
LEMMA Inserted ==
    ASSUME CreditInv, NEW r \in CreditRequests, NEW s \in CreditRows \ Generated,
           creditReq[r].op = "insert", MayInsertVersion(creditReq[r].version),
           creditScore' = [creditScore EXCEPT ![s] = [version |-> creditReq[r].version,
                                                      at |-> creditReq[r].at]]
    PROVE  /\ creditReq[r].version = Count + 1 /\ creditReq[r].at \in Ticks
           /\ Generated' = Generated \cup {s} /\ Count' = Count + 1
           /\ creditScore' \in [CreditRows -> ScoreRows \cup {NoScoreRow}]
           /\ {creditScore'[x].version : x \in Generated'} = 1 .. Count'
<1> DEFINE q == creditReq[r]
<1>1. q \in [op : {"insert"}, at : Ticks, version : Nat]
    BY DEF CreditInv, CreditShape, Generations, NoGeneration
<1>2. Count \in Nat /\ IsFiniteSet(Generated)
    BY CountType
<1>3. q.version = Count + 1
    <2>1. q.version \in 1 .. Count + 1 /\ q.version \notin {creditScore[x].version : x \in Generated}
        BY DEF CreditInv, Numbered, MayInsertVersion
    <2> QED
        BY <1>2, <2>1 DEF CreditInv, Numbered
<1>4. creditScore' \in [CreditRows -> ScoreRows \cup {NoScoreRow}]
    BY <1>1 DEF CreditInv, CreditShape, ScoreRows
<1>5. creditScore'[s] = [version |-> q.version, at |-> q.at] /\ creditScore'[s] # NoScoreRow
    <2>1. creditScore'[s] = [version |-> q.version, at |-> q.at]
        BY DEF CreditInv, CreditShape
    <2>2. creditScore'[s].version = Count + 1 /\ NoScoreRow.version = 0
        BY <1>3, <2>1 DEF NoScoreRow
    <2> QED
        BY <1>2, <2>1, <2>2
<1>6. Generated' = Generated \cup {s}
    BY <1>5 DEF CreditInv, CreditShape, Generated
<1>7. Count' = Count + 1
    BY <1>2, <1>6, FS_AddElement DEF Count
<1>8. {creditScore'[x].version : x \in Generated'}
        = {creditScore[x].version : x \in Generated} \cup {Count + 1}
    <2>1. \A x \in Generated : creditScore'[x] = creditScore[x]
        BY DEF Generated
    <2>2. creditScore'[s].version = Count + 1
        BY <1>3, <1>5
    <2> QED
        BY <1>6, <2>1, <2>2
<1>9. {creditScore'[x].version : x \in Generated'} = 1 .. Count'
    <2>1. (1 .. Count) \cup {Count + 1} = 1 .. Count + 1
        BY <1>2
    <2> QED
        BY <1>7, <1>8, <2>1 DEF CreditInv, Numbered
<1> QED
    BY <1>1, <1>3, <1>4, <1>6, <1>7, <1>9
-----------------------------------------------------------------------------
(* The steps *)

\* A step that writes no row.
LEMMA SameRows ==
    ASSUME CreditInv, CreditShape', creditScore' = creditScore,
           \A r \in CreditRequests : creditReq'[r].op = "insert" =>
               creditReq'[r] = creditReq[r] \/ creditReq'[r].version = Count + 1
    PROVE  CreditInv'
<1>1. Generated' = Generated /\ Count' = Count
    BY DEF Generated, Count
<1>2. Count + 1 \in 1 .. Count + 1
    BY CountType
<1> QED
    BY <1>1, <1>2 DEF CreditInv, Numbered

LEMMA CreditStep == CreditInv /\ [NextCredit]_creditVars => CreditInv'
<1> SUFFICES ASSUME CreditInv, [NextCredit]_creditVars PROVE CreditInv'
    OBVIOUS
<1>0. CreditShape
    BY DEF CreditInv
<1>1. ASSUME NEW r \in CreditRequests, NEW next \in Generations,
             creditReq' = [creditReq EXCEPT ![r] = next],
             next.op = "insert" => next.version = Count + 1,
             UNCHANGED <<creditOverlap, creditClock, creditScore>>
      PROVE  CreditInv'
    <2>1. CreditShape'
        BY <1>0, <1>1 DEF CreditShape
    <2> QED
        BY <1>0, <1>1, <2>1, SameRows DEF CreditShape
<1>2. ASSUME NEW r \in CreditRequests, StartScore(r) PROVE CreditInv'
    <2>1. [op |-> "collect"] \in Generations
        BY DEF Generations
    <2> QED
        BY <1>1, <1>2, <2>1 DEF StartScore
<1>3. ASSUME NEW r \in CreditRequests, StampScore(r) PROVE CreditInv'
    <2>1. [op |-> "number", at |-> creditClock] \in Generations
        BY <1>0 DEF Generations, CreditShape
    <2> QED
        BY <1>1, <1>3, <2>1 DEF StampScore
<1>4. ASSUME NEW r \in CreditRequests, NumberScore(r) PROVE CreditInv'
    <2> DEFINE next == [op |-> "insert", at |-> creditReq[r].at, version |-> NextVersion]
    <2>1. creditReq[r].at \in Ticks
        BY <1>0, <1>4 DEF NumberScore, CreditShape, Generations, NoGeneration
    <2>2. NextVersion = Count + 1 /\ NextVersion \in Nat
        BY NextVersionIsNext, CountType
    <2>3. next \in Generations
        BY <2>1, <2>2 DEF Generations
    <2>4. next.version = Count + 1
        BY <2>2
    <2>5. /\ creditReq' = [creditReq EXCEPT ![r] = next]
          /\ UNCHANGED <<creditOverlap, creditClock, creditScore>>
        BY <1>4 DEF NumberScore
    <2> HIDE DEF next
    <2> QED
        BY <1>1, <2>3, <2>4, <2>5
<1>5. ASSUME NEW r \in CreditRequests, FinishScore(r) PROVE CreditInv'
    <2> DEFINE q == creditReq[r]
    <2>1. CASE MayInsertVersion(q.version)
        <3>1. PICK s \in CreditRows \ Generated :
                creditScore' = [creditScore EXCEPT ![s] = [version |-> q.version, at |-> q.at]]
            BY <1>5, <2>1 DEF FinishScore
        <3>2. q.op = "insert"
            BY <1>5 DEF FinishScore
        <3>3. /\ Count' = Count + 1
              /\ creditScore' \in [CreditRows -> ScoreRows \cup {NoScoreRow}]
              /\ {creditScore'[x].version : x \in Generated'} = 1 .. Count'
            BY <2>1, <3>1, <3>2, Inserted
        <3>4. creditReq' = [creditReq EXCEPT ![r] = NoGeneration] /\ UNCHANGED <<creditOverlap, creditClock>>
            BY <1>5 DEF FinishScore
        <3>5. CreditShape'
            BY <1>0, <3>3, <3>4 DEF CreditShape, Generations
        <3>6. ASSUME NEW p \in CreditRequests, creditReq'[p].op = "insert"
              PROVE  creditReq'[p].version \in 1 .. Count' + 1
            <4>1. creditReq'[p] = creditReq[p]
                BY <1>0, <3>4, <3>6 DEF CreditShape, NoGeneration
            <4>2. creditReq[p].version \in 1 .. Count + 1
                BY <3>6, <4>1 DEF CreditInv, Numbered
            <4> QED
                BY <3>3, <4>1, <4>2, CountType
        <3> QED
            BY <3>3, <3>5, <3>6 DEF CreditInv, Numbered
    <2>2. CASE ~ MayInsertVersion(q.version)
        <3>1. NoGeneration \in Generations /\ NoGeneration.op # "insert"
            BY DEF Generations, NoGeneration
        <3> QED
            BY <1>1, <1>5, <2>2, <3>1 DEF FinishScore
    <2> QED
        BY <2>1, <2>2
<1>6. ASSUME NEW r \in CreditRequests, ScoreFails(r) PROVE CreditInv'
    <2>1. NoGeneration \in Generations /\ NoGeneration.op # "insert"
        BY DEF Generations, NoGeneration
    <2> QED
        BY <1>1, <1>6, <2>1 DEF ScoreFails
<1>7. CASE TenSeconds
    <2>1. CreditShape'
        BY <1>0, <1>7, LastTickAssumption DEF TenSeconds, CreditShape, Ticks, ScoreRows, Generations
    <2> QED
        BY <1>7, <2>1, SameRows DEF TenSeconds
<1>8. CASE UNCHANGED creditVars
    <2>1. CreditShape'
        BY <1>0, <1>8 DEF creditVars, CreditShape
    <2> QED
        BY <1>8, <2>1, SameRows DEF creditVars
<1> QED
    BY <1>2, <1>3, <1>4, <1>5, <1>6, <1>7, <1>8 DEF NextCredit
-----------------------------------------------------------------------------
(* The order of the dates *)

\* Without overlap one generation is in flight, and it reads the clock when
\* every score that exists is of an earlier time.
Alone ==
    \A r, q \in CreditRequests : creditReq[r] # NoGeneration /\ creditReq[q] # NoGeneration => r = q
Past ==
    /\ \A s \in Generated : creditScore[s].at <= creditClock
    /\ \A r \in CreditRequests : creditReq[r].op \in {"number", "insert"} => creditReq[r].at <= creditClock
Later ==
    \A r \in CreditRequests, s \in Generated :
        /\ creditReq[r].op = "collect" => creditScore[s].at < creditClock
        /\ creditReq[r].op \in {"number", "insert"} => creditScore[s].at < creditReq[r].at
Sorted ==
    \A s, t \in Generated :
        creditScore[s].version < creditScore[t].version => creditScore[s].at < creditScore[t].at

OrderInv == CreditInv /\ (~ creditOverlap => Alone /\ Past /\ Later /\ Sorted)

LEMMA TimesAreNumbers ==
    ASSUME CreditShape
    PROVE  /\ creditClock \in Nat
           /\ \A s \in Generated : creditScore[s] \in ScoreRows /\ creditScore[s].at \in Nat
           /\ \A r \in CreditRequests : creditReq[r].op \in {"number", "insert"} => creditReq[r].at \in Nat
<1>1. Ticks \subseteq Nat
    BY LastTickAssumption DEF Ticks
<1>2. \A s \in Generated : creditScore[s] \in ScoreRows /\ creditScore[s].at \in Ticks
    BY DEF CreditShape, Generated, ScoreRows
<1>3. ASSUME NEW r \in CreditRequests, creditReq[r].op \in {"number", "insert"}
      PROVE  creditReq[r].at \in Ticks
    BY <1>3 DEF CreditShape, Generations, NoGeneration
<1> QED
    BY <1>1, <1>2, <1>3 DEF CreditShape

LEMMA OrderStep == OrderInv /\ [NextCredit]_creditVars => OrderInv'
<1> SUFFICES ASSUME OrderInv, [NextCredit]_creditVars, ~ creditOverlap'
             PROVE  Alone' /\ Past' /\ Later' /\ Sorted'
    BY CreditStep DEF OrderInv
<1>0. CreditShape /\ ~ creditOverlap
    BY DEF OrderInv, CreditInv, NextCredit, StartScore, StampScore, NumberScore, FinishScore,
           ScoreFails, TenSeconds, creditVars
<1>1. Alone /\ Past /\ Later /\ Sorted
    BY <1>0 DEF OrderInv
<1> USE TimesAreNumbers
<1>2. CASE creditScore' = creditScore
    <2> USE <1>2
    <2>0. Generated' = Generated /\ Sorted'
        BY <1>1 DEF Generated, Sorted
    <2>1. ASSUME NEW r \in CreditRequests, StartScore(r) PROVE Alone' /\ Past' /\ Later'
        <3>1. Alone'
            BY <1>0, <2>1 DEF StartScore, CreditShape, Alone
        <3>2. Past'
            BY <1>0, <1>1, <2>0, <2>1 DEF StartScore, CreditShape, Past
        <3>3. \A s \in Generated : creditScore[s].at < creditClock
            BY <1>0, <1>1, <2>1 DEF StartScore, GenerationInProgress, Past
        <3>4. Later'
            BY <1>0, <1>1, <2>0, <2>1, <3>3 DEF StartScore, CreditShape, Later
        <3> QED
            BY <3>1, <3>2, <3>4
    <2>2. ASSUME NEW r \in CreditRequests, StampScore(r) PROVE Alone' /\ Past' /\ Later'
        <3>1. Alone'
            BY <1>0, <1>1, <2>2 DEF StampScore, CreditShape, Alone, NoGeneration
        <3>2. Past'
            BY <1>0, <1>1, <2>0, <2>2 DEF StampScore, CreditShape, Past
        <3>3. Later'
            BY <1>0, <1>1, <2>0, <2>2 DEF StampScore, CreditShape, Later
        <3> QED
            BY <3>1, <3>2, <3>3
    <2>3. ASSUME NEW r \in CreditRequests, NumberScore(r) PROVE Alone' /\ Past' /\ Later'
        <3> DEFINE next == [op |-> "insert", at |-> creditReq[r].at, version |-> NextVersion]
        <3>1. /\ creditReq[r].op = "number" /\ creditReq' = [creditReq EXCEPT ![r] = next]
              /\ creditClock' = creditClock
              /\ next.op = "insert" /\ next.at = creditReq[r].at
            BY <2>3 DEF NumberScore
        <3> HIDE DEF next
        <3>2. Alone'
            BY <1>0, <1>1, <3>1 DEF CreditShape, Alone, NoGeneration
        <3>3. Past'
            BY <1>0, <1>1, <2>0, <3>1 DEF CreditShape, Past
        <3>4. Later'
            BY <1>0, <1>1, <2>0, <3>1 DEF CreditShape, Later
        <3> QED
            BY <3>2, <3>3, <3>4
    <2>4. ASSUME NEW r \in CreditRequests, FinishScore(r) \/ ScoreFails(r) PROVE Alone' /\ Past' /\ Later'
        <3>1. creditReq' = [creditReq EXCEPT ![r] = NoGeneration] /\ creditClock' = creditClock
            BY <2>4 DEF FinishScore, ScoreFails
        <3> QED
            BY <1>0, <1>1, <2>0, <3>1 DEF CreditShape, Alone, Past, Later, NoGeneration
    <2>5. CASE TenSeconds
        <3>1. creditReq' = creditReq /\ creditClock' = creditClock + 1
            BY <2>5 DEF TenSeconds
        <3> QED
            BY <1>0, <1>1, <2>0, <3>1 DEF Alone, Past, Later
    <2>6. CASE UNCHANGED creditVars
        BY <1>1, <2>0, <2>6 DEF creditVars, Alone, Past, Later
    <2> QED
        BY <2>0, <2>1, <2>2, <2>3, <2>4, <2>5, <2>6 DEF NextCredit
<1>3. ASSUME NEW r \in CreditRequests, FinishScore(r), creditScore' # creditScore
      PROVE  Alone' /\ Past' /\ Later' /\ Sorted'
    <2> DEFINE q == creditReq[r]
    <2>1. /\ q.op = "insert" /\ MayInsertVersion(q.version)
          /\ creditReq' = [creditReq EXCEPT ![r] = NoGeneration] /\ creditClock' = creditClock
        BY <1>3 DEF FinishScore
    <2>2. PICK s \in CreditRows \ Generated :
            creditScore' = [creditScore EXCEPT ![s] = [version |-> q.version, at |-> q.at]]
        BY <1>3, <2>1 DEF FinishScore
    <2>3. q.version = Count + 1 /\ Generated' = Generated \cup {s}
        BY <2>1, <2>2, Inserted DEF OrderInv
    <2>4. /\ \A t \in Generated : creditScore'[t] = creditScore[t]
          /\ creditScore'[s].at = q.at /\ creditScore'[s].version = Count + 1
        BY <1>0, <2>2, <2>3 DEF CreditShape, Generated
    <2>5. \A t \in Generated : creditScore[t].version \in 1 .. Count
        BY DEF OrderInv, CreditInv, Numbered
    <2>6. \A p \in CreditRequests : creditReq'[p] = NoGeneration
        BY <1>0, <1>1, <2>1 DEF Alone, CreditShape, NoGeneration
    <2>7. Alone' /\ Later'
        BY <2>6 DEF Alone, Later, NoGeneration
    <2>8. Past'
        BY <1>0, <1>1, <2>1, <2>3, <2>4, <2>6 DEF Past, NoGeneration
    <2>9. Sorted'
        BY <1>0, <1>1, <2>1, <2>3, <2>4, <2>5, CountType DEF Sorted, Later
    <2> QED
        BY <2>7, <2>8, <2>9
<1>4. creditScore' = creditScore \/ \E r \in CreditRequests : FinishScore(r)
    BY DEF NextCredit, StartScore, StampScore, NumberScore, ScoreFails, TenSeconds, creditVars
<1> QED
    BY <1>2, <1>3, <1>4

\* The versions have no gap, also when generations overlap or fail; without
\* overlap the score with the last date is the one with the last version,
\* which is what get_latest_score takes it for.
THEOREM VersionsAreInOrder == SpecCredit => []ScoresInOrder
<1>1. InitCredit => OrderInv
    <2> SUFFICES ASSUME InitCredit PROVE OrderInv
        OBVIOUS
    <2>1. Generated = {} /\ \A r \in CreditRequests : creditReq[r] = NoGeneration
        BY DEF InitCredit, Generated
    <2> QED
        BY <2>1, CreditInit DEF OrderInv, Alone, Past, Later, Sorted, NoGeneration
<1>2. OrderInv => ScoresInOrder
    BY DEF OrderInv, CreditInv, Numbered, Count, Sorted, ScoresInOrder
<1> QED
    BY <1>1, <1>2, OrderStep, PTL DEF SpecCredit

LEMMA CreditInvariant == SpecCredit => []CreditInv
<1> QED
    BY CreditInit, CreditStep, PTL DEF SpecCredit

\* Every variable of the credit scores stays in its type: no generation gets a
\* version beyond the one that follows the last row.
THEOREM CreditTyped == SpecCredit => []CreditTypeOK
<1>1. ASSUME CreditInv PROVE CreditTypeOK
    <2>1. Count \in Nat /\ Cardinality(CreditRows) \in Nat /\ Count <= Cardinality(CreditRows)
        <3>1. Generated \subseteq CreditRows
            BY DEF Generated
        <3> QED
            BY <3>1, CountType, CreditRowsAssumption, FS_Subset, FS_CardinalityType DEF Count
    <2>2. ASSUME NEW s \in CreditRows, creditScore[s] # NoScoreRow
          PROVE  creditScore[s] \in [version : VersionNumbers, at : Ticks]
        <3>1. creditScore[s] \in ScoreRows /\ creditScore[s].version \in 1 .. Count
            BY <1>1, <2>2 DEF CreditInv, CreditShape, Numbered, Generated
        <3> QED
            BY <2>1, <3>1 DEF ScoreRows, VersionNumbers
    <2>3. ASSUME NEW r \in CreditRequests
          PROVE  creditReq[r] \in [op : {"collect"}] \cup [op : {"number"}, at : Ticks]
                    \cup [op : {"insert"}, at : Ticks, version : VersionNumbers] \cup {NoGeneration}
        <3>1. creditReq[r] \in Generations
            BY <1>1 DEF CreditInv, CreditShape
        <3>2. creditReq[r].op = "insert" => creditReq[r].version \in VersionNumbers
            BY <1>1, <2>1 DEF CreditInv, Numbered, VersionNumbers
        <3> QED
            BY <3>1, <3>2 DEF Generations
    <2> QED
        BY <1>1, <2>2, <2>3 DEF CreditInv, CreditShape, CreditTypeOK
<1> QED
    BY <1>1, CreditInvariant, PTL

-----------------------------------------------------------------------------
(* The evaluations of a company *)

\* A score is the overall score of some grades, whatever it amounts to.
OverallScores == {OverallScore(g) : g \in Gradings} \cup {Unscored}
RefScores == {ScoreFor(f, g) : f \in ScoreRefs, g \in Gradings} \cup {Unscored}
EvaluationRows ==
    [st : {"draft", "in_progress", "completed"}, grades : Gradings, score : OverallScores]
EsgReports == [score : OverallScores, of : Gradings]

GradeWork == [op : {"save", "finalize", "multi"}, on : Evaluations, grades : Gradings]
RecomputeWork == [op : {"recompute"}, on : Evaluations, ref : ScoreRefs, score : RefScores]
ReportWork == [op : {"report"}, on : Evaluations, score : OverallScores, grades : Gradings]
ScoreWork == GradeWork \cup RecomputeWork \cup ReportWork \cup {NoScoreRequest}

ScoreShape ==
    /\ scoreOverlap \in BOOLEAN
    /\ evaluation \in [Evaluations -> EvaluationRows \cup {NoEvaluation}]
    /\ refScore \in [Evaluations -> [ScoreRefs -> RefScores]]
    /\ esgReport \in [Evaluations -> EsgReports]
    /\ scoreReq \in [ScoreRequests -> ScoreWork]

\* A request is about an evaluation that exists.
EvaluationsAreThere ==
    \A r \in ScoreRequests : scoreReq[r] # NoScoreRequest => evaluation[scoreReq[r].on] # NoEvaluation

\* What a request is going to write of an evaluation or of its report is of the
\* grades that will be beside it.
IsOfItsGrades(q) ==
    /\ q.op = "multi" => q.grades = evaluation[q.on].grades
    /\ q.op = "report" => q.score = OverallScore(q.grades)

\* Without overlap one request is in flight, and it was decided on what is there.
GradesAreCurrent ==
    ~ scoreOverlap =>
        /\ \A r, q \in ScoreRequests :
              scoreReq[r] # NoScoreRequest /\ scoreReq[q] # NoScoreRequest => r = q
        /\ \A r \in ScoreRequests : IsOfItsGrades(scoreReq[r])

ScoreInv == ScoreShape /\ EvaluationsAreThere /\ GradesAreCurrent /\ ScoresAreOfTheirGrades

\* What a request is, by what it does.
LEMMA ScoreWorkFacts ==
    ASSUME NEW q \in ScoreWork
    PROVE  /\ q = NoScoreRequest <=> q.op = "none"
           /\ q # NoScoreRequest => q.on \in Evaluations
           /\ q.op \in {"save", "finalize", "multi"} => q.grades \in Gradings
           /\ q.op = "recompute" => q.ref \in ScoreRefs /\ q.score \in RefScores
           /\ q.op = "report" => q.score \in OverallScores /\ q.grades \in Gradings
BY DEF ScoreWork, GradeWork, RecomputeWork, ReportWork, NoScoreRequest

LEMMA RowsAreEvaluations ==
    /\ NoEvaluation.st = "absent"
    /\ \A row \in EvaluationRows : row # NoEvaluation /\ row.st # "absent"
BY DEF EvaluationRows, NoEvaluation

LEMMA UngradedScores ==
    /\ [c \in Graded |-> Ungraded] \in Gradings
    /\ NoReport \in EsgReports
    /\ \A g \in Gradings : OverallScore(g) \in OverallScores /\ ScoreFor(Mefali, g) = OverallScore(g)
BY DEF Gradings, NoReport, EsgReports, OverallScores, ScoreFor

LEMMA ScoreInit == InitCompanyEsg => ScoreInv
<1> SUFFICES ASSUME InitCompanyEsg PROVE ScoreInv
    OBVIOUS
<1>1. ScoreShape
    BY UngradedScores DEF InitCompanyEsg, ScoreShape, ScoreWork, RefScores
<1>2. EvaluationsAreThere /\ GradesAreCurrent
    BY DEF InitCompanyEsg, EvaluationsAreThere, GradesAreCurrent, IsOfItsGrades, NoScoreRequest
<1>3. ScoresAreOfTheirGrades
    BY DEF InitCompanyEsg, ScoresAreOfTheirGrades, NoEvaluation
<1> QED
    BY <1>1, <1>2, <1>3 DEF ScoreInv

\* A request that begins.
LEMMA ScoreBegins ==
    ASSUME ScoreInv, NEW r \in ScoreRequests, NEW what \in ScoreWork, NEW e \in Evaluations,
           what # NoScoreRequest, what.on = e, BeginScore(r, e, what),
           ~ scoreOverlap => IsOfItsGrades(what)
    PROVE  ScoreInv'
<1>1. /\ scoreReq[r] = NoScoreRequest
      /\ scoreOverlap \/ \A q \in ScoreRequests : scoreReq[q] = NoScoreRequest
      /\ evaluation[e] # NoEvaluation
      /\ scoreReq' = [scoreReq EXCEPT ![r] = what]
      /\ UNCHANGED <<scoreOverlap, evaluation, refScore, esgReport>>
    BY RowsAreEvaluations DEF BeginScore
<1>2. ScoreShape' /\ \A q \in ScoreRequests : scoreReq'[q] = IF q = r THEN what ELSE scoreReq[q]
    BY <1>1 DEF ScoreInv, ScoreShape
<1>3. EvaluationsAreThere'
    BY <1>1, <1>2 DEF ScoreInv, EvaluationsAreThere
<1>4. GradesAreCurrent'
    BY <1>1, <1>2 DEF ScoreInv, GradesAreCurrent, IsOfItsGrades
<1>5. ScoresAreOfTheirGrades'
    BY <1>1 DEF ScoreInv, ScoresAreOfTheirGrades
<1> QED
    BY <1>2, <1>3, <1>4, <1>5 DEF ScoreInv

\* A request that ends or is interrupted: without overlap, none is left.
LEMMA ScoreEnds ==
    ASSUME ScoreInv, NEW r \in ScoreRequests, scoreReq[r] # NoScoreRequest,
           scoreReq' = [scoreReq EXCEPT ![r] = NoScoreRequest], scoreOverlap' = scoreOverlap,
           \A e \in Evaluations : evaluation[e] # NoEvaluation => evaluation'[e] # NoEvaluation
    PROVE  /\ scoreReq' \in [ScoreRequests -> ScoreWork]
           /\ EvaluationsAreThere' /\ GradesAreCurrent'
<1>1. \A q \in ScoreRequests : scoreReq'[q] = IF q = r THEN NoScoreRequest ELSE scoreReq[q]
    BY DEF ScoreInv, ScoreShape
<1>2. scoreReq' \in [ScoreRequests -> ScoreWork]
    BY DEF ScoreInv, ScoreShape, ScoreWork
<1>3. EvaluationsAreThere'
    BY <1>1, ScoreWorkFacts DEF ScoreInv, ScoreShape, EvaluationsAreThere
<1>4. ~ scoreOverlap => \A q \in ScoreRequests : scoreReq'[q] = NoScoreRequest
    BY <1>1 DEF ScoreInv, GradesAreCurrent
<1>5. GradesAreCurrent'
    BY <1>4 DEF GradesAreCurrent, IsOfItsGrades, NoScoreRequest
<1> QED
    BY <1>2, <1>3, <1>5

\* A request that writes an evaluation.
LEMMA EvaluationWritten ==
    ASSUME ScoreInv, NEW r \in ScoreRequests, scoreReq[r] # NoScoreRequest,
           scoreReq' = [scoreReq EXCEPT ![r] = NoScoreRequest], scoreOverlap' = scoreOverlap,
           NEW row \in EvaluationRows, evaluation' = [evaluation EXCEPT ![scoreReq[r].on] = row],
           ~ scoreOverlap => (row.st = "completed" => row.score = OverallScore(row.grades)),
           refScore' \in [Evaluations -> [ScoreRefs -> RefScores]], esgReport' = esgReport
    PROVE  ScoreInv'
<1>1. \A e \in Evaluations : evaluation'[e] = IF e = scoreReq[r].on THEN row ELSE evaluation[e]
    BY DEF ScoreInv, ScoreShape
<1>2. /\ scoreReq' \in [ScoreRequests -> ScoreWork]
      /\ EvaluationsAreThere' /\ GradesAreCurrent'
    BY <1>1, ScoreEnds, RowsAreEvaluations
<1>3. ScoreShape'
    BY <1>2 DEF ScoreInv, ScoreShape
<1>4. ScoresAreOfTheirGrades'
    BY <1>1 DEF ScoreInv, ScoresAreOfTheirGrades
<1> QED
    BY <1>2, <1>3, <1>4 DEF ScoreInv

\* The step that each request begins with.
LEMMA ScoreStarts ==
    ASSUME ScoreInv, NEW r \in ScoreRequests, NEW e \in Evaluations,
           \/ \E cs \in SUBSET Graded \ {{}}, g \in Grades : StartSave(r, e, cs, g)
           \/ StartFinalizeEsg(r, e)
           \/ StartMulti(r, e)
           \/ \E f \in ScoreRefs : StartRecompute(r, e, f)
           \/ StartReport(r, e)
    PROVE  ScoreInv'
<1>0. evaluation[e].st # "absent" => evaluation[e] \in EvaluationRows /\ evaluation[e].grades \in Gradings
    BY RowsAreEvaluations DEF ScoreInv, ScoreShape, EvaluationRows
<1>1. ASSUME NEW cs \in SUBSET Graded \ {{}}, NEW g \in Grades, StartSave(r, e, cs, g) PROVE ScoreInv'
    <2> DEFINE new == [c \in Graded |-> IF c \in cs THEN g ELSE evaluation[e].grades[c]]
               what == [op |-> "save", on |-> e, grades |-> new]
    <2>1. BeginScore(r, e, what)
        BY <1>1 DEF StartSave
    <2>2. new \in Gradings
        BY <1>0, <2>1 DEF BeginScore, Gradings
    <2>3. what \in ScoreWork /\ what.op = "save" /\ what.on = e
        BY <2>2 DEF ScoreWork, GradeWork
    <2> HIDE DEF what
    <2> QED
        BY <2>1, <2>3, ScoreBegins, ScoreWorkFacts DEF IsOfItsGrades
<1>2. ASSUME StartFinalizeEsg(r, e) \/ StartMulti(r, e) PROVE ScoreInv'
    <2>1. PICK op \in {"finalize", "multi"} :
            BeginScore(r, e, [op |-> op, on |-> e, grades |-> evaluation[e].grades])
        BY <1>2 DEF StartFinalizeEsg, StartMulti
    <2> DEFINE what == [op |-> op, on |-> e, grades |-> evaluation[e].grades]
    <2>2. what \in ScoreWork /\ what.op = op /\ what.on = e /\ what.grades = evaluation[e].grades
        BY <1>0, <2>1 DEF ScoreWork, GradeWork, BeginScore
    <2>3. BeginScore(r, e, what)
        BY <2>1
    <2> HIDE DEF what
    <2> QED
        BY <2>2, <2>3, ScoreBegins, ScoreWorkFacts DEF IsOfItsGrades
<1>3. ASSUME NEW f \in ScoreRefs, StartRecompute(r, e, f) PROVE ScoreInv'
    <2> DEFINE what == [op |-> "recompute", on |-> e, ref |-> f,
                        score |-> ScoreFor(f, evaluation[e].grades)]
    <2>1. BeginScore(r, e, what)
        BY <1>3 DEF StartRecompute
    <2>2. ScoreFor(f, evaluation[e].grades) \in RefScores
        BY <1>0, <2>1 DEF BeginScore, RefScores
    <2>3. what \in ScoreWork /\ what.op = "recompute" /\ what.on = e
        BY <2>2 DEF ScoreWork, RecomputeWork
    <2> HIDE DEF what
    <2> QED
        BY <2>1, <2>3, ScoreBegins, ScoreWorkFacts DEF IsOfItsGrades
<1>4. ASSUME StartReport(r, e) PROVE ScoreInv'
    <2> DEFINE what == [op |-> "report", on |-> e,
                        score |-> evaluation[e].score, grades |-> evaluation[e].grades]
    <2>1. BeginScore(r, e, what) /\ evaluation[e].st = "completed"
        BY <1>4 DEF StartReport
    <2>2. what \in ScoreWork /\ what.op = "report" /\ what.on = e
          /\ what.score = evaluation[e].score /\ what.grades = evaluation[e].grades
        BY <1>0, <2>1 DEF ScoreWork, ReportWork, EvaluationRows
    <2>3. ~ scoreOverlap => what.score = OverallScore(what.grades)
        BY <2>1, <2>2 DEF ScoreInv, ScoresAreOfTheirGrades
    <2> HIDE DEF what
    <2> QED
        BY <2>1, <2>2, <2>3, ScoreBegins, ScoreWorkFacts DEF IsOfItsGrades
<1> QED
    BY <1>1, <1>2, <1>3, <1>4

LEMMA ScoreStep == ScoreInv /\ [NextCompanyEsg]_scoreVars => ScoreInv'
<1> SUFFICES ASSUME ScoreInv, [NextCompanyEsg]_scoreVars PROVE ScoreInv'
    OBVIOUS
<1>0. /\ \A r \in ScoreRequests : scoreReq[r] \in ScoreWork
      /\ \A e \in Evaluations : evaluation[e] # NoEvaluation => evaluation[e] \in EvaluationRows
      /\ \A r \in ScoreRequests :
            scoreReq[r] # NoScoreRequest =>
                evaluation[scoreReq[r].on] \in EvaluationRows /\ scoreReq[r].on \in Evaluations
    BY ScoreWorkFacts DEF ScoreInv, ScoreShape, EvaluationsAreThere
<1>1. ASSUME NEW e \in Evaluations, CreateEvaluation(e) PROVE ScoreInv'
    <2> DEFINE row == [st |-> "draft", grades |-> [c \in Graded |-> Ungraded], score |-> Unscored]
    <2>1. row \in EvaluationRows /\ row.st = "draft"
        BY UngradedScores DEF EvaluationRows, OverallScores
    <2>2. /\ evaluation[e] = NoEvaluation /\ evaluation' = [evaluation EXCEPT ![e] = row]
          /\ UNCHANGED <<scoreOverlap, refScore, esgReport, scoreReq>>
        BY <1>0, <1>1, RowsAreEvaluations DEF CreateEvaluation
    <2> HIDE DEF row
    <2>3. \A x \in Evaluations : evaluation'[x] = IF x = e THEN row ELSE evaluation[x]
        BY <2>2 DEF ScoreInv, ScoreShape
    <2>4. ScoreShape'
        BY <2>1, <2>2 DEF ScoreInv, ScoreShape
    <2>5. EvaluationsAreThere'
        BY <1>0, <2>1, <2>2, <2>3, RowsAreEvaluations DEF ScoreInv, EvaluationsAreThere
    <2>6. GradesAreCurrent'
        <3>1. \A r \in ScoreRequests : scoreReq[r] # NoScoreRequest => scoreReq[r].on # e
            BY <2>2 DEF ScoreInv, EvaluationsAreThere
        <3> QED
            BY <1>0, <2>2, <2>3, <3>1 DEF ScoreInv, GradesAreCurrent, IsOfItsGrades, NoScoreRequest
    <2>7. ScoresAreOfTheirGrades'
        BY <2>1, <2>2, <2>3 DEF ScoreInv, ScoresAreOfTheirGrades
    <2> QED
        BY <2>4, <2>5, <2>6, <2>7 DEF ScoreInv
<1>2. ASSUME NEW r \in ScoreRequests, FinishSave(r) PROVE ScoreInv'
    <2> DEFINE q == scoreReq[r]
               row == [evaluation[q.on] EXCEPT !.grades = q.grades, !.st = "in_progress"]
    <2>1. q.op = "save" /\ q # NoScoreRequest /\ q.grades \in Gradings
        BY <1>0, <1>2, ScoreWorkFacts DEF FinishSave, EndScore
    <2>2. row \in EvaluationRows /\ row.st = "in_progress"
        BY <1>0, <2>1 DEF EvaluationRows
    <2>3. /\ evaluation' = [evaluation EXCEPT ![q.on] = row] /\ UNCHANGED <<refScore, esgReport>>
          /\ scoreReq' = [scoreReq EXCEPT ![r] = NoScoreRequest] /\ scoreOverlap' = scoreOverlap
        BY <1>2 DEF FinishSave, EndScore, SavedStatus
    <2> HIDE DEF row
    <2> QED
        BY <2>1, <2>2, <2>3, EvaluationWritten DEF ScoreInv, ScoreShape
<1>3. ASSUME NEW r \in ScoreRequests, FinishFinalizeEsg(r) PROVE ScoreInv'
    <2> DEFINE q == scoreReq[r]
               row == [st |-> "completed", grades |-> q.grades, score |-> OverallScore(q.grades)]
    <2>1. q.op = "finalize" /\ q # NoScoreRequest /\ q.grades \in Gradings
        BY <1>0, <1>3, ScoreWorkFacts DEF FinishFinalizeEsg, EndScore
    <2>2. row \in EvaluationRows /\ row.score = OverallScore(row.grades)
        BY <2>1, UngradedScores DEF EvaluationRows
    <2>3. /\ evaluation' = [evaluation EXCEPT ![q.on] = row] /\ UNCHANGED <<refScore, esgReport>>
          /\ scoreReq' = [scoreReq EXCEPT ![r] = NoScoreRequest] /\ scoreOverlap' = scoreOverlap
        BY <1>3 DEF FinishFinalizeEsg, EndScore
    <2> HIDE DEF row
    <2> QED
        BY <2>1, <2>2, <2>3, EvaluationWritten DEF ScoreInv, ScoreShape
<1>4. ASSUME NEW r \in ScoreRequests, FinishMulti(r) PROVE ScoreInv'
    <2> DEFINE q == scoreReq[r]
               row == [evaluation[q.on] EXCEPT !.st = "completed", !.score = ScoreFor(Mefali, q.grades)]
    <2>1. q.op = "multi" /\ q # NoScoreRequest /\ q.grades \in Gradings /\ q.on \in Evaluations
        BY <1>0, <1>4, ScoreWorkFacts DEF FinishMulti, EndScore
    <2>2. row \in EvaluationRows /\ row.score = OverallScore(q.grades) /\ row.grades = evaluation[q.on].grades
        BY <1>0, <2>1, UngradedScores DEF EvaluationRows
    <2>3. ~ scoreOverlap => q.grades = evaluation[q.on].grades
        BY <2>1 DEF ScoreInv, GradesAreCurrent, IsOfItsGrades
    <2>4. /\ evaluation' = [evaluation EXCEPT ![q.on] = row] /\ UNCHANGED esgReport
          /\ refScore' = [refScore EXCEPT ![q.on] = [f \in ScoreRefs |-> ScoreFor(f, q.grades)]]
          /\ scoreReq' = [scoreReq EXCEPT ![r] = NoScoreRequest] /\ scoreOverlap' = scoreOverlap
        BY <1>4 DEF FinishMulti, EndScore
    <2>5. refScore' \in [Evaluations -> [ScoreRefs -> RefScores]]
        <3>1. [f \in ScoreRefs |-> ScoreFor(f, q.grades)] \in [ScoreRefs -> RefScores]
            BY <2>1 DEF RefScores
        <3> QED
            BY <2>4, <3>1 DEF ScoreInv, ScoreShape
    <2> HIDE DEF row
    <2> QED
        BY <2>1, <2>2, <2>3, <2>4, <2>5, EvaluationWritten
<1>5. ASSUME NEW r \in ScoreRequests, FinishRecompute(r) \/ FinishReport(r) \/ FailScore(r) PROVE ScoreInv'
    <2> DEFINE q == scoreReq[r]
    <2>1. /\ scoreReq' = [scoreReq EXCEPT ![r] = NoScoreRequest] /\ UNCHANGED <<scoreOverlap, evaluation>>
          /\ q # NoScoreRequest
        BY <1>0, <1>5, ScoreWorkFacts DEF FinishRecompute, FinishReport, FailScore, EndScore
    <2>2. scoreReq' \in [ScoreRequests -> ScoreWork] /\ EvaluationsAreThere' /\ GradesAreCurrent'
        BY <2>1, ScoreEnds
    <2>3. refScore' \in [Evaluations -> [ScoreRefs -> RefScores]]
        BY <1>0, <1>5, ScoreWorkFacts DEF FinishRecompute, FinishReport, FailScore, EndScore, ScoreInv, ScoreShape
    <2>4. \/ esgReport' = esgReport
          \/ /\ q.op = "report"
             /\ esgReport' = [esgReport EXCEPT ![q.on] = [score |-> q.score, of |-> q.grades]]
        BY <1>5 DEF FinishRecompute, FinishReport, FailScore, EndScore
    <2>5. esgReport' \in [Evaluations -> EsgReports]
        BY <1>0, <2>4, ScoreWorkFacts DEF ScoreInv, ScoreShape, EsgReports
    <2>6. ScoresAreOfTheirGrades'
        <3>1. ~ scoreOverlap => (q.op = "report" => q.score = OverallScore(q.grades))
            BY DEF ScoreInv, GradesAreCurrent, IsOfItsGrades
        <3>2. \A e \in Evaluations :
                \/ esgReport'[e] = esgReport[e]
                \/ q.op = "report" /\ esgReport'[e].score = q.score /\ esgReport'[e].of = q.grades
            BY <2>4 DEF ScoreInv, ScoreShape
        <3> QED
            BY <2>1, <3>1, <3>2 DEF ScoreInv, ScoresAreOfTheirGrades
    <2> QED
        BY <2>1, <2>2, <2>3, <2>5, <2>6 DEF ScoreInv, ScoreShape
<1>6. CASE UNCHANGED scoreVars
    BY <1>6 DEF scoreVars, ScoreInv, ScoreShape, EvaluationsAreThere, GradesAreCurrent, IsOfItsGrades,
                ScoresAreOfTheirGrades
<1> QED
    BY <1>1, <1>2, <1>3, <1>4, <1>5, <1>6, ScoreStarts DEF NextCompanyEsg

LEMMA ScoreInvariant == SpecCompanyEsg => []ScoreInv
<1> QED
    BY ScoreInit, ScoreStep, PTL DEF SpecCompanyEsg

\* The score of a finalised evaluation and of every report is that of the grades
\* beside it, whatever the grades and however often it was reopened, finalised
\* one way or the other and recomputed, as long as requests do not overlap.
THEOREM ScoresKeepTheirGrades == SpecCompanyEsg => []ScoresAreOfTheirGrades
<1>1. ScoreInv => ScoresAreOfTheirGrades
    BY DEF ScoreInv
<1> QED
    BY <1>1, ScoreInvariant, PTL

-----------------------------------------------------------------------------
(* The bounds of the scores of a company *)

\* What a sum over the subsets of S is, when pick names the element taken out.
Adds(sum, grades, pick, D) ==
    sum = [s \in D |-> IF s = {} THEN 0 ELSE grades[pick[s]] + sum[s \ {pick[s]}]]

LEMMA SumExists ==
    ASSUME NEW S, IsFiniteSet(S), NEW grades, NEW pick, \A s \in SUBSET S : s # {} => pick[s] \in s
    PROVE  \E sum : Adds(sum, grades, pick, SUBSET S)
<1> DEFINE Upto(n) == {s \in SUBSET S : Cardinality(s) <= n}
           Good == {n \in Nat : \E sum : Adds(sum, grades, pick, Upto(n))}
<1>1. \A s \in SUBSET S : IsFiniteSet(s) /\ Cardinality(s) \in Nat /\ Cardinality(s) <= Cardinality(S)
    BY FS_Subset, FS_CardinalityType
<1>2. \A s \in SUBSET S : s # {} =>
          s \ {pick[s]} \in SUBSET S /\ Cardinality(s \ {pick[s]}) = Cardinality(s) - 1
    BY <1>1, FS_RemoveElement
<1>3. \A s \in SUBSET S : Cardinality(s) <= 0 <=> s = {}
    BY <1>1, FS_EmptySet
<1>4. Adds([s \in Upto(0) |-> 0], grades, pick, Upto(0))
    BY <1>3 DEF Adds
<1>5. 0 \in Good
    BY <1>4
<1>6. ASSUME NEW n \in Nat, n \in Good PROVE n + 1 \in Good
    <2>1. PICK low : Adds(low, grades, pick, Upto(n))
        BY <1>6
    <2> DEFINE sum == [s \in Upto(n + 1) |-> IF s = {} THEN 0 ELSE grades[pick[s]] + low[s \ {pick[s]}]]
    <2>2. \A s \in Upto(n) : s \in Upto(n + 1)
        BY <1>1
    <2>3. \A s \in Upto(n + 1) : s # {} => s \ {pick[s]} \in Upto(n)
        BY <1>1, <1>2
    <2> DEFINE low_ == Upto(n)
             high == Upto(n + 1)
    <2>4. \A s \in low_ : low[s] = IF s = {} THEN 0 ELSE grades[pick[s]] + low[s \ {pick[s]}]
        BY <2>1 DEF Adds
    <2>5. \A s \in high : sum[s] = IF s = {} THEN 0 ELSE grades[pick[s]] + low[s \ {pick[s]}]
        OBVIOUS
    <2>6. DOMAIN sum = high /\ sum = [s \in high |-> sum[s]]
        OBVIOUS
    <2> HIDE DEF sum, Upto
    <2>7. \A s \in low_ : sum[s] = low[s]
        BY <2>2, <2>4, <2>5
    <2>8. \A s \in high : sum[s] = IF s = {} THEN 0 ELSE grades[pick[s]] + sum[s \ {pick[s]}]
        BY <2>3, <2>5, <2>7
    <2>9. sum = [s \in high |-> IF s = {} THEN 0 ELSE grades[pick[s]] + sum[s \ {pick[s]}]]
        BY <2>6, <2>8
    <2> QED
        BY <2>9 DEF Adds
<1>7. Cardinality(S) \in Good
    <2> HIDE DEF Good
    <2> QED
        BY <1>1, <1>5, <1>6, CountingUp
<1>8. Upto(Cardinality(S)) = SUBSET S
    BY <1>1
<1>9. \E sum : Adds(sum, grades, pick, Upto(Cardinality(S)))
    BY <1>7
<1> QED
    BY <1>8, <1>9

Total(grades, S) == MapThenSumSet(LAMBDA c : grades[c], S)

LEMMA SumBound ==
    ASSUME NEW S, IsFiniteSet(S), NEW grades, \A c \in S : grades[c] \in {0, 10}
    PROVE  Total(grades, S) \in 0..10 * Cardinality(S)
<1> DEFINE pick == [s \in SUBSET S |-> CHOOSE x \in s : TRUE]
           Recurs(f) == f = [s \in SUBSET S |->
                IF s = {} THEN 0
                ELSE LET x == CHOOSE x \in s : TRUE IN grades[x] + f[s \ {x}]]
           sum == CHOOSE f : Recurs(f)
<1>1. Total(grades, S) = sum[S]
    BY DEF Total, MapThenSumSet, MapThenFoldSet
<1>2. \A s \in SUBSET S : s # {} => pick[s] \in s
    OBVIOUS
<1>3. \A f : Recurs(f) <=> Adds(f, grades, pick, SUBSET S)
    BY DEF Adds
<1> HIDE DEF pick, Recurs
<1>4. Adds(sum, grades, pick, SUBSET S)
    BY <1>2, <1>3, SumExists
<1> HIDE DEF sum
<1>5. \A s \in SUBSET S : s # {} => sum[s] = grades[pick[s]] + sum[s \ {pick[s]}]
    BY <1>4 DEF Adds
<1>6. sum[{}] = 0
    BY <1>4 DEF Adds
<1> DEFINE Good == {n \in Nat : \A s \in SUBSET S : Cardinality(s) = n => sum[s] \in 0..10 * n}
<1>7. \A s \in SUBSET S : IsFiniteSet(s) /\ Cardinality(s) \in Nat
    BY FS_Subset, FS_CardinalityType
<1>8. 0 \in Good
    BY <1>6, <1>7, FS_EmptySet
<1>9. ASSUME NEW n \in Nat, n \in Good PROVE n + 1 \in Good
    <2> SUFFICES ASSUME NEW s \in SUBSET S, Cardinality(s) = n + 1
               PROVE  sum[s] \in 0..10 * (n + 1)
        OBVIOUS
    <2>1. s # {}
        BY <1>7, FS_EmptySet
    <2>2. pick[s] \in s /\ pick[s] \in S /\ s \ {pick[s]} \in SUBSET S
        BY <1>2, <2>1
    <2>7. IsFiniteSet(s)
        BY <1>7
    <2>8. Cardinality(s \ {pick[s]}) = Cardinality(s) - 1
        BY <2>2, <2>7, FS_RemoveElement
    <2>5. Cardinality(s \ {pick[s]}) = n
        BY <2>8
    <2>3. sum[s \ {pick[s]}] \in 0..10 * n
        BY <1>9, <2>2, <2>5
    <2>4. grades[pick[s]] \in {0, 10}
        BY <2>2
    <2>6. sum[s] = grades[pick[s]] + sum[s \ {pick[s]}]
        BY <1>5, <2>1
    <2> QED
        BY <2>3, <2>4, <2>6
<1>10. Cardinality(S) \in Good
    <2> HIDE DEF Good
    <2> QED
        BY <1>7, <1>8, <1>9, CountingUp
<1> QED
    BY <1>1, <1>10

\* compute_pillar_score is a score out of 100, in tenths of a point.
LEMMA PillarBound ==
    ASSUME NEW g \in Gradings, NEW pillar \in SUBSET Graded
    PROVE  /\ PillarScore(g, pillar) \in 0..1000
           /\ GradedIn(g, pillar) = {} => PillarScore(g, pillar) = 0
<1> DEFINE in == GradedIn(g, pillar)
           n == Total(g, in)
           d == Cardinality(in)
<1>1. in \in SUBSET Graded /\ \A c \in in : g[c] \in {0, 10}
    BY DEF GradedIn, Gradings, Grades
<1>2. IsFiniteSet(in) /\ d \in Nat /\ (in # {} => d # 0)
    BY <1>1, GradedAssumption, FS_Subset, FS_CardinalityType, FS_EmptySet
<1>3. n \in 0..10 * d
    BY <1>1, <1>2, SumBound
<1>4. PillarScore(g, pillar) = IF in = {} THEN 0 ELSE (100 * n) \div d
    BY DEF PillarScore, Total
<1> HIDE DEF in, n, d
<1>5. CASE in # {}
    <2>1. 100 * n \in Nat /\ d \in Nat /\ d > 0 /\ 100 * n < 1001 * d
        BY <1>2, <1>3, <1>5
    <2>2. \A k, m \in Nat : m > 0 /\ k < 1001 * m => k \div m \in 0..1000
        OBVIOUS
    <2>3. (100 * n) \div d \in 0..1000
        BY <2>1, <2>2
    <2> QED
        BY <1>4, <1>5, <2>3 DEF in
<1> QED
    BY <1>4, <1>5 DEF in

LEMMA AtLeastThree ==
    ASSUME NEW W, IsFiniteSet(W)
    PROVE  /\ Cardinality(W) \in Nat
           /\ W # {} => Cardinality(W) >= 1
           /\ \A x, y \in W : x # y => Cardinality(W) >= 2
           /\ \A x, y, z \in W : x # y /\ x # z /\ y # z => Cardinality(W) >= 3
<1>1. Cardinality(W) \in Nat /\ (W # {} => Cardinality(W) >= 1)
    BY FS_CardinalityType, FS_EmptySet
<1>2. ASSUME NEW x, NEW y, x # y
      PROVE  IsFiniteSet({x, y}) /\ Cardinality({x, y}) = 2
    <2>1. IsFiniteSet({x}) /\ Cardinality({x}) = 1
        BY FS_Singleton
    <2>2. y \notin {x} /\ {x, y} = {x} \cup {y}
        BY <1>2
    <2>3. IsFiniteSet({x} \cup {y}) /\ Cardinality({x} \cup {y}) = Cardinality({x}) + 1
        BY <2>1, <2>2, FS_AddElement
    <2> QED
        BY <2>1, <2>2, <2>3
<1>3. ASSUME NEW x, NEW y, NEW z, x # y, x # z, y # z
      PROVE  Cardinality({x, y, z}) = 3
    <2>1. IsFiniteSet({x, y}) /\ Cardinality({x, y}) = 2
        BY <1>2, <1>3
    <2>2. z \notin {x, y} /\ {x, y, z} = {x, y} \cup {z}
        BY <1>3
    <2>3. Cardinality({x, y} \cup {z}) = Cardinality({x, y}) + 1
        BY <2>1, <2>2, FS_AddElement
    <2> QED
        BY <2>1, <2>2, <2>3
<1>4. \A S \in SUBSET W : Cardinality(S) <= Cardinality(W)
    BY FS_Subset
<1>5. ASSUME NEW x \in W, NEW y \in W, x # y PROVE Cardinality(W) >= 2
    <2>1. Cardinality({x, y}) = 2 /\ {x, y} \in SUBSET W
        BY <1>2, <1>5
    <2> QED
        BY <1>1, <1>4, <2>1
<1>6. ASSUME NEW x \in W, NEW y \in W, NEW z \in W, x # y, x # z, y # z
      PROVE  Cardinality(W) >= 3
    <2>1. Cardinality({x, y, z}) = 3 /\ {x, y, z} \in SUBSET W
        BY <1>3, <1>6
    <2> QED
        BY <1>1, <1>4, <2>1
<1> QED
    BY <1>1, <1>5, <1>6

\* compute_overall_score and compute_score_for_referential.
LEMMA ScoreForBound ==
    ASSUME NEW g \in Gradings, NEW f
    PROVE  OverallScore(g) \in 0..1000 /\ ScoreFor(f, g) \in Unscored..1000
<1> DEFINE a == PillarScore(g, Environment)
           b == PillarScore(g, Social)
           c == PillarScore(g, Governance)
           with == {p \in {Environment, Social, Governance} : GradedIn(g, p) # {}}
           n == Cardinality(with)
<1>1. /\ a \in 0..1000 /\ (a # 0 => Environment \in with)
      /\ b \in 0..1000 /\ (b # 0 => Social \in with)
      /\ c \in 0..1000 /\ (c # 0 => Governance \in with)
    BY PillarBound DEF Graded
<1>2. OverallScore(g) = (a + b + c) \div 3
    BY DEF OverallScore
<1>3. ScoreFor(f, g) = IF f = Mefali THEN OverallScore(g)
                       ELSE IF with = {} THEN Unscored ELSE (a + b + c) \div n
    BY DEF ScoreFor
<1>4. /\ Environment \in with /\ Social \in with => Environment # Social
      /\ Environment \in with /\ Governance \in with => Environment # Governance
      /\ Social \in with /\ Governance \in with => Social # Governance
    BY PillarsAssumption DEF GradedIn
<1>5. IsFiniteSet(with)
    <2>1. {Environment, Social, Governance} = ({Environment} \cup {Social}) \cup {Governance}
        OBVIOUS
    <2>2. IsFiniteSet({Environment}) /\ IsFiniteSet({Social}) /\ IsFiniteSet({Governance})
        BY FS_Singleton
    <2>3. IsFiniteSet({Environment} \cup {Social})
        BY <2>2, FS_Union
    <2>4. IsFiniteSet(({Environment} \cup {Social}) \cup {Governance})
        BY <2>2, <2>3, FS_Union
    <2>5. with \in SUBSET {Environment, Social, Governance}
        OBVIOUS
    <2> QED
        BY <2>1, <2>4, <2>5, FS_Subset
<1> HIDE DEF a, b, c, with
<1>6. n \in Nat /\ a + b + c <= 1000 * n /\ (with # {} => n > 0)
    BY <1>1, <1>4, <1>5, AtLeastThree
<1>7. OverallScore(g) \in 0..1000
    BY <1>1, <1>2
<1>8. with # {} => (a + b + c) \div n \in 0..1000
    <2>1. \A k, m \in Nat : m > 0 /\ k <= 1000 * m => k \div m \in 0..1000
        OBVIOUS
    <2>2. a + b + c \in Nat
        BY <1>1
    <2> HIDE DEF n
    <2> QED
        BY <1>6, <2>1, <2>2
<1> QED
    BY <1>3, <1>7, <1>8 DEF Unscored

\* Every score, stored, reported or on its way, is one out of 100, however many
\* criteria a pillar has and however they are graded.
THEOREM CompanyScoresTyped == SpecCompanyEsg => []ScoreTypeOK
<1>1. ScoreInv => ScoreTypeOK
    <2> SUFFICES ASSUME ScoreInv PROVE ScoreTypeOK
        OBVIOUS
    <2>0. 0..1000 \subseteq Unscored..1000 /\ Unscored \in Unscored..1000
        BY DEF Unscored
    <2>1. OverallScores \subseteq Unscored..1000
        <3>1. ASSUME NEW g \in Gradings PROVE OverallScore(g) \in Unscored..1000
            <4>1. OverallScore(g) \in 0..1000 /\ ScoreFor(Mefali, g) \in Unscored..1000
                BY ScoreForBound
            <4> QED
                BY <2>0, <4>1
        <3> QED
            BY <2>0, <3>1 DEF OverallScores
    <2>5. RefScores \subseteq Unscored..1000
        <3>1. \A f \in ScoreRefs, g \in Gradings : ScoreFor(f, g) \in Unscored..1000
            BY ScoreForBound
        <3> QED
            BY <2>0, <3>1 DEF RefScores
    <2> DEFINE Tenths == Unscored..1000
    <2>6. OverallScores \subseteq Tenths /\ RefScores \subseteq Tenths
        BY <2>1, <2>5
    <2> HIDE DEF Tenths
    <2>7. EvaluationRows \subseteq [st : {"draft", "in_progress", "completed"},
                                    grades : Gradings, score : Tenths]
        BY <2>6 DEF EvaluationRows
    <2>8. EsgReports \subseteq [score : Tenths, of : Gradings]
        BY <2>6 DEF EsgReports
    <2>2. \A e \in Evaluations :
            evaluation[e] = NoEvaluation
            \/ evaluation[e] \in [st : {"draft", "in_progress", "completed"},
                                  grades : Gradings, score : Tenths]
        <3>1. \A e \in Evaluations : evaluation[e] \in EvaluationRows \cup {NoEvaluation}
            BY DEF ScoreInv, ScoreShape
        <3> QED
            BY <2>7, <3>1
    <2>3. /\ refScore \in [Evaluations -> [ScoreRefs -> Tenths]]
          /\ esgReport \in [Evaluations -> [score : Tenths, of : Gradings]]
        <3>1. [ScoreRefs -> RefScores] \subseteq [ScoreRefs -> Tenths]
            BY <2>6
        <3>2. /\ refScore \in [Evaluations -> [ScoreRefs -> RefScores]]
              /\ esgReport \in [Evaluations -> EsgReports]
            BY DEF ScoreInv, ScoreShape
        <3> QED
            BY <2>8, <3>1, <3>2
    <2>4. \A r \in ScoreRequests :
            scoreReq[r].op \in {"none", "save", "finalize", "multi", "recompute", "report"}
        BY DEF ScoreInv, ScoreShape, ScoreWork, GradeWork, RecomputeWork, ReportWork, NoScoreRequest
    <2> QED
        BY <2>2, <2>3, <2>4 DEF ScoreInv, ScoreShape, ScoreTypeOK, Tenths
<1> QED
    BY <1>1, ScoreInvariant, PTL

-----------------------------------------------------------------------------
(* The carbon footprints *)

BilanRows == [st : {"in_progress", "completed"}, entries : Amounts, total : Amounts]
CarbonReportRows == [st : {"generating", "completed", "failed"}, on : Years, shows : Amounts]
YearWork == [op : {"open", "report"}, on : Years]
TotalWork == [op : {"add", "close"}, on : Years, total : Amounts]
CarbonWork == YearWork \cup TotalWork \cup {NoCarbonRequest}

CarbonShape ==
    /\ carbonOverlap \in BOOLEAN
    /\ bilan \in [Years -> BilanRows \cup {NoBilan}]
    /\ carbonReport \in [CarbonReports -> CarbonReportRows \cup {NoCarbonReport}]
    /\ rendering \subseteq CarbonReports
    /\ carbonReq \in [CarbonRequests -> CarbonWork]

\* An assessment is never deleted nor opened again: what adds to one or closes it
\* has it, and what reports on one, or did, has it completed.
BilansAreThere ==
    /\ \A r \in CarbonRequests :
          /\ carbonReq[r].op \in {"add", "close"} => bilan[carbonReq[r].on] # NoBilan
          /\ carbonReq[r].op = "report" => bilan[carbonReq[r].on].st = "completed"
    /\ \A p \in CarbonReports :
          carbonReport[p] # NoCarbonReport => bilan[carbonReport[p].on].st = "completed"
    /\ \A p \in rendering : carbonReport[p] # NoCarbonReport

\* The entries of a year and those on their way to it, which none of them counts.
Adding(y) == {r \in CarbonRequests : carbonReq[r].op = "add" /\ carbonReq[r].on = y}
EntriesFit ==
    \A y \in Years :
        bilan[y].entries + Cardinality(Adding(y)) <= MaxEntries + Cardinality(CarbonRequests)

\* Without overlap one request is in flight, and its total is the one to write.
TotalIsCurrent(q) ==
    /\ q.op = "add" => bilan[q.on].st = "in_progress" /\ q.total = bilan[q.on].entries + 1
    /\ q.op = "close" => q.total = bilan[q.on].entries
TotalsAreCurrent ==
    ~ carbonOverlap =>
        /\ \A r, q \in CarbonRequests :
              carbonReq[r] # NoCarbonRequest /\ carbonReq[q] # NoCarbonRequest => r = q
        /\ \A r \in CarbonRequests : TotalIsCurrent(carbonReq[r])

CarbonInv ==
    CarbonShape /\ BilansAreThere /\ EntriesFit /\ TotalsAreCurrent /\ ReportsShowTheEntries

LEMMA AmountsFacts ==
    /\ Cardinality(CarbonRequests) \in Nat
    /\ 0 \in Amounts /\ Amounts \subseteq Nat
    /\ \A n \in Nat : n <= MaxEntries => n \in Amounts
BY MaxEntriesAssumption, CarbonRequestsAssumption, FS_CardinalityType DEF Amounts

\* What a request is, by what it does.
LEMMA CarbonWorkFacts ==
    ASSUME NEW q \in CarbonWork
    PROVE  /\ q = NoCarbonRequest <=> q.op = "none"
           /\ q.op \in {"none", "open", "report", "add", "close"}
           /\ q # NoCarbonRequest => q.on \in Years
           /\ q.op \in {"add", "close"} => q.total \in Amounts
BY DEF CarbonWork, YearWork, TotalWork, NoCarbonRequest

LEMMA BilanFacts ==
    /\ NoBilan.st = "absent" /\ NoBilan.entries = 0 /\ NoBilan.total = 0
    /\ \A b \in BilanRows : b # NoBilan /\ b.st \in {"in_progress", "completed"}
                            /\ b.entries \in Amounts /\ b.total \in Amounts
    /\ NoCarbonReport.st = "absent"
    /\ \A p \in CarbonReportRows : p # NoCarbonReport /\ p.on \in Years
BY DEF NoBilan, BilanRows, NoCarbonReport, CarbonReportRows

\* What is on its way to a year: finite, one less when one of it ends.
LEMMA AddingFacts ==
    ASSUME NEW y
    PROVE  /\ IsFiniteSet(Adding(y)) /\ Cardinality(Adding(y)) \in Nat
           /\ Cardinality(Adding(y)) <= Cardinality(CarbonRequests)
           /\ \A S : S \subseteq Adding(y) => Cardinality(S) \in Nat /\ Cardinality(S) <= Cardinality(Adding(y))
           /\ \A r \in Adding(y) : Cardinality(Adding(y) \ {r}) = Cardinality(Adding(y)) - 1
<1>1. Adding(y) \subseteq CarbonRequests
    BY DEF Adding
<1>2. IsFiniteSet(Adding(y)) /\ Cardinality(Adding(y)) <= Cardinality(CarbonRequests)
    BY <1>1, CarbonRequestsAssumption, FS_Subset
<1> QED
    BY <1>2, FS_CardinalityType, FS_Subset, FS_RemoveElement

LEMMA CarbonInit == InitCarbon => CarbonInv
<1> SUFFICES ASSUME InitCarbon PROVE CarbonInv
    OBVIOUS
<1>1. CarbonShape
    BY DEF InitCarbon, CarbonShape, CarbonWork
<1>2. BilansAreThere /\ TotalsAreCurrent
    BY DEF InitCarbon, BilansAreThere, TotalsAreCurrent, TotalIsCurrent, NoCarbonRequest
<1>3. EntriesFit
    <2>1. \A y \in Years : bilan[y].entries = 0
        BY DEF InitCarbon, NoBilan
    <2> QED
        BY <2>1, AddingFacts, AmountsFacts, MaxEntriesAssumption DEF EntriesFit
<1>4. ReportsShowTheEntries
    BY DEF InitCarbon, ReportsShowTheEntries, NoBilan, NoCarbonReport
<1> QED
    BY <1>1, <1>2, <1>3, <1>4 DEF CarbonInv

\* A request that begins; an entry begins while there is room for it.
LEMMA CarbonBegins ==
    ASSUME CarbonInv, NEW r \in CarbonRequests, NEW what \in CarbonWork, what # NoCarbonRequest,
           BeginCarbon(r, what),
           what.op \in {"add", "close"} => bilan[what.on] # NoBilan,
           what.op = "report" => bilan[what.on].st = "completed",
           what.op = "add" => bilan[what.on].entries < MaxEntries,
           TotalIsCurrent(what)
    PROVE  CarbonInv'
<1>1. /\ carbonReq[r] = NoCarbonRequest
      /\ carbonOverlap \/ \A q \in CarbonRequests : carbonReq[q] = NoCarbonRequest
      /\ carbonReq' = [carbonReq EXCEPT ![r] = what]
      /\ UNCHANGED <<carbonOverlap, bilan, carbonReport, rendering>>
    BY DEF BeginCarbon
<1>2. CarbonShape' /\ \A q \in CarbonRequests : carbonReq'[q] = IF q = r THEN what ELSE carbonReq[q]
    BY <1>1 DEF CarbonInv, CarbonShape
<1>3. BilansAreThere'
    BY <1>1, <1>2 DEF CarbonInv, BilansAreThere
<1>4. EntriesFit'
    <2> SUFFICES ASSUME NEW y \in Years
                 PROVE  bilan[y].entries + Cardinality(Adding(y)') <= MaxEntries + Cardinality(CarbonRequests)
        BY <1>1 DEF EntriesFit
    <2>1. bilan[y].entries \in Nat
        BY AmountsFacts, BilanFacts DEF CarbonInv, CarbonShape
    <2>2. CASE what.op = "add" /\ what.on = y
        <3>1. (Adding(y)') \subseteq CarbonRequests
            BY DEF Adding
        <3>2. Cardinality(Adding(y)') \in Nat /\ Cardinality(Adding(y)') <= Cardinality(CarbonRequests)
            BY <3>1, CarbonRequestsAssumption, FS_Subset, FS_CardinalityType
        <3> QED
            BY <2>1, <2>2, <3>2, AmountsFacts, MaxEntriesAssumption
    <2>3. CASE ~ (what.op = "add" /\ what.on = y)
        <3>1. (Adding(y)') \subseteq Adding(y)
            BY <1>1, <1>2, <2>3 DEF Adding
        <3> QED
            BY <2>1, <3>1, AddingFacts, AmountsFacts, MaxEntriesAssumption DEF CarbonInv, EntriesFit
    <2> QED
        BY <2>2, <2>3
<1>5. TotalsAreCurrent'
    BY <1>1, <1>2 DEF CarbonInv, TotalsAreCurrent, TotalIsCurrent
<1>6. ReportsShowTheEntries'
    BY <1>1 DEF CarbonInv, ReportsShowTheEntries
<1> QED
    BY <1>2, <1>3, <1>4, <1>5, <1>6 DEF CarbonInv

\* A request that ends or is rolled back: without overlap, none is left.
LEMMA CarbonEnds ==
    ASSUME CarbonInv, NEW r \in CarbonRequests, carbonReq[r] # NoCarbonRequest,
           carbonReq' = [carbonReq EXCEPT ![r] = NoCarbonRequest], carbonOverlap' = carbonOverlap
    PROVE  /\ carbonReq' \in [CarbonRequests -> CarbonWork] /\ TotalsAreCurrent'
           /\ \A q \in CarbonRequests : carbonReq'[q] = NoCarbonRequest \/ carbonReq'[q] = carbonReq[q]
           /\ \A y \in Years : (Adding(y)') = Adding(y) \ {r}
<1>1. \A q \in CarbonRequests : carbonReq'[q] = IF q = r THEN NoCarbonRequest ELSE carbonReq[q]
    BY DEF CarbonInv, CarbonShape
<1>2. carbonReq' \in [CarbonRequests -> CarbonWork]
    BY DEF CarbonInv, CarbonShape, CarbonWork
<1>3. ~ carbonOverlap => \A q \in CarbonRequests : carbonReq'[q] = NoCarbonRequest
    BY <1>1 DEF CarbonInv, TotalsAreCurrent
<1>4. TotalsAreCurrent'
    BY <1>3 DEF TotalsAreCurrent, TotalIsCurrent, NoCarbonRequest
<1>5. \A y \in Years : (Adding(y)') = Adding(y) \ {r}
    BY <1>1 DEF Adding, NoCarbonRequest
<1> QED
    BY <1>1, <1>2, <1>4, <1>5

\* A request that writes the assessment of its year.
LEMMA BilanWritten ==
    ASSUME CarbonInv, NEW r \in CarbonRequests, carbonReq[r] # NoCarbonRequest,
           carbonReq' = [carbonReq EXCEPT ![r] = NoCarbonRequest], carbonOverlap' = carbonOverlap,
           UNCHANGED <<carbonReport, rendering>>,
           NEW row \in BilanRows, bilan' = [bilan EXCEPT ![carbonReq[r].on] = row],
           bilan[carbonReq[r].on].st = "completed" => row.st = "completed",
           row.entries = bilan[carbonReq[r].on].entries + IF carbonReq[r].op = "add" THEN 1 ELSE 0,
           ~ carbonOverlap => row.total = row.entries,
           ~ carbonOverlap => row.entries = bilan[carbonReq[r].on].entries
                              \/ bilan[carbonReq[r].on].st = "in_progress"
    PROVE  CarbonInv'
<1> DEFINE y == carbonReq[r].on
<1>0. y \in Years
    BY CarbonWorkFacts DEF CarbonInv, CarbonShape
<1>1. \A z \in Years : bilan'[z] = IF z = y THEN row ELSE bilan[z]
    BY DEF CarbonInv, CarbonShape
<1>2. /\ carbonReq' \in [CarbonRequests -> CarbonWork] /\ TotalsAreCurrent'
      /\ \A q \in CarbonRequests : carbonReq'[q] = NoCarbonRequest \/ carbonReq'[q] = carbonReq[q]
      /\ \A z \in Years : (Adding(z)') = Adding(z) \ {r}
    BY CarbonEnds
<1>3. CarbonShape'
    BY <1>2 DEF CarbonInv, CarbonShape
<1>4. BilansAreThere'
    BY <1>0, <1>1, <1>2, BilanFacts DEF CarbonInv, BilansAreThere, CarbonShape, NoCarbonRequest
<1>5. EntriesFit'
    <2> SUFFICES ASSUME NEW z \in Years
                 PROVE  bilan'[z].entries + Cardinality(Adding(z) \ {r}) <= MaxEntries + Cardinality(CarbonRequests)
        BY <1>2 DEF EntriesFit
    <2>1. bilan[z].entries \in Nat /\ bilan[z].entries + Cardinality(Adding(z)) <= MaxEntries + Cardinality(CarbonRequests)
        BY AmountsFacts, BilanFacts DEF CarbonInv, CarbonShape, EntriesFit
    <2>2. Adding(z) \ {r} \subseteq Adding(z)
        OBVIOUS
    <2>3. CASE z = y /\ carbonReq[r].op = "add"
        <3>1. r \in Adding(z) /\ bilan'[z].entries = bilan[z].entries + 1
            BY <1>1, <2>3 DEF Adding
        <3> QED
            BY <2>1, <3>1, AddingFacts, AmountsFacts, MaxEntriesAssumption
    <2>4. CASE ~ (z = y /\ carbonReq[r].op = "add")
        <3>1. bilan'[z].entries = bilan[z].entries
            BY <1>1, <2>1, <2>4
        <3> QED
            BY <2>1, <2>2, <3>1, AddingFacts, AmountsFacts, MaxEntriesAssumption
    <2> QED
        BY <2>3, <2>4
<1>6. ReportsShowTheEntries'
    <2> SUFFICES ASSUME ~ carbonOverlap
                 PROVE  /\ \A z \in Years : bilan'[z].total = bilan'[z].entries
                        /\ \A p \in CarbonReports : carbonReport[p].st = "completed" =>
                              carbonReport[p].shows = bilan'[carbonReport[p].on].entries
        BY DEF ReportsShowTheEntries
    <2>1. \A z \in Years : bilan'[z].total = bilan'[z].entries
        BY <1>1 DEF CarbonInv, ReportsShowTheEntries
    <2>2. ASSUME NEW p \in CarbonReports, carbonReport[p].st = "completed"
          PROVE  carbonReport[p].shows = bilan'[carbonReport[p].on].entries
        <3>1. carbonReport[p].on \in Years /\ bilan[carbonReport[p].on].st = "completed"
            BY <2>2, BilanFacts DEF CarbonInv, CarbonShape, BilansAreThere
        <3>2. carbonReport[p].shows = bilan[carbonReport[p].on].entries
            BY <2>2 DEF CarbonInv, ReportsShowTheEntries
        <3> QED
            BY <1>1, <3>1, <3>2
    <2> QED
        BY <2>1, <2>2
<1> QED
    BY <1>2, <1>3, <1>4, <1>5, <1>6 DEF CarbonInv

\* A step on the reports alone: those that change are of completed assessments,
\* and one that is completed by it shows the total.
LEMMA ReportsWritten ==
    ASSUME CarbonInv, UNCHANGED <<carbonOverlap, bilan>>,
           carbonReq' \in [CarbonRequests -> CarbonWork], TotalsAreCurrent',
           \A q \in CarbonRequests : carbonReq'[q] = NoCarbonRequest \/ carbonReq'[q] = carbonReq[q],
           carbonReport' \in [CarbonReports -> CarbonReportRows \cup {NoCarbonReport}],
           rendering' \subseteq CarbonReports,
           \A p \in rendering' : carbonReport'[p] # NoCarbonReport,
           \A p \in CarbonReports : carbonReport'[p] # NoCarbonReport =>
                /\ bilan[carbonReport'[p].on].st = "completed"
                /\ carbonReport'[p].st = "completed" =>
                     \/ carbonReport'[p] = carbonReport[p]
                     \/ carbonReport'[p].shows = bilan[carbonReport'[p].on].total
    PROVE  CarbonInv'
<1>1. BilansAreThere'
    BY DEF CarbonInv, BilansAreThere, NoCarbonRequest
<1>2. EntriesFit'
    <2> SUFFICES ASSUME NEW y \in Years
                 PROVE  bilan[y].entries + Cardinality(Adding(y)') <= MaxEntries + Cardinality(CarbonRequests)
        BY DEF EntriesFit
    <2>1. (Adding(y)') \subseteq Adding(y)
        BY DEF Adding, NoCarbonRequest
    <2>2. bilan[y].entries \in Nat
        BY AmountsFacts, BilanFacts DEF CarbonInv, CarbonShape
    <2> QED
        BY <2>1, <2>2, AddingFacts, AmountsFacts, MaxEntriesAssumption DEF CarbonInv, EntriesFit
<1>3. ReportsShowTheEntries'
    <2> SUFFICES ASSUME ~ carbonOverlap
                 PROVE  /\ \A z \in Years : bilan[z].total = bilan[z].entries
                        /\ \A p \in CarbonReports : carbonReport'[p].st = "completed" =>
                              carbonReport'[p].shows = bilan[carbonReport'[p].on].entries
        BY DEF ReportsShowTheEntries
    <2>1. \A z \in Years : bilan[z].total = bilan[z].entries
        BY DEF CarbonInv, ReportsShowTheEntries
    <2>2. ASSUME NEW p \in CarbonReports, carbonReport'[p].st = "completed"
          PROVE  carbonReport'[p].shows = bilan[carbonReport'[p].on].entries
        <3>1. carbonReport'[p] # NoCarbonReport /\ carbonReport'[p].on \in Years
            BY <2>2, BilanFacts
        <3> QED
            BY <2>1, <2>2, <3>1 DEF CarbonInv, ReportsShowTheEntries
    <2> QED
        BY <2>1, <2>2
<1> QED
    BY <1>1, <1>2, <1>3 DEF CarbonInv, CarbonShape

\* The step that each request begins with.
LEMMA CarbonStarts ==
    ASSUME CarbonInv, NEW r \in CarbonRequests, NEW y \in Years,
           StartBilan(r, y) \/ StartEntry(r, y) \/ StartClose(r, y) \/ StartCarbonReport(r, y)
    PROVE  CarbonInv'
<1>0. bilan[y].st # "absent" => bilan[y] \in BilanRows /\ bilan[y].entries \in Amounts /\ bilan[y] # NoBilan
    BY BilanFacts DEF CarbonInv, CarbonShape
<1>1. ASSUME NEW op \in {"open", "report"}, BeginCarbon(r, [op |-> op, on |-> y]),
             op = "report" => bilan[y].st = "completed"
      PROVE  CarbonInv'
    <2> DEFINE what == [op |-> op, on |-> y]
    <2>1. what \in CarbonWork /\ what.op = op /\ what.on = y /\ BeginCarbon(r, what)
        BY <1>1 DEF CarbonWork, YearWork
    <2> HIDE DEF what
    <2> QED
        BY <1>1, <2>1, CarbonBegins, CarbonWorkFacts DEF TotalIsCurrent
<1>2. ASSUME StartEntry(r, y) PROVE CarbonInv'
    <2> DEFINE what == [op |-> "add", on |-> y, total |-> bilan[y].entries + 1]
    <2>1. bilan[y].st = "in_progress" /\ bilan[y].entries < MaxEntries /\ BeginCarbon(r, what)
        BY <1>2 DEF StartEntry, MayAddEntry
    <2>2. bilan[y].entries + 1 \in Amounts
        BY <1>0, <2>1, AmountsFacts, MaxEntriesAssumption
    <2>3. what \in CarbonWork /\ what.op = "add" /\ what.on = y /\ what.total = bilan[y].entries + 1
        BY <2>2 DEF CarbonWork, TotalWork
    <2> HIDE DEF what
    <2> QED
        BY <1>0, <2>1, <2>3, CarbonBegins, CarbonWorkFacts DEF TotalIsCurrent
<1>3. ASSUME StartClose(r, y) PROVE CarbonInv'
    <2> DEFINE what == [op |-> "close", on |-> y, total |-> bilan[y].entries]
    <2>1. bilan[y].st = "in_progress" /\ BeginCarbon(r, what)
        BY <1>3 DEF StartClose
    <2>2. what \in CarbonWork /\ what.op = "close" /\ what.on = y /\ what.total = bilan[y].entries
        BY <1>0, <2>1 DEF CarbonWork, TotalWork
    <2> HIDE DEF what
    <2> QED
        BY <1>0, <2>1, <2>2, CarbonBegins, CarbonWorkFacts DEF TotalIsCurrent
<1> QED
    BY <1>1, <1>2, <1>3 DEF StartBilan, StartCarbonReport

\* The step that writes an assessment.
LEMMA BilanSteps ==
    ASSUME CarbonInv, NEW r \in CarbonRequests, FinishBilan(r) \/ FinishEntry(r) \/ FinishClose(r)
    PROVE  CarbonInv'
<1> DEFINE q == carbonReq[r]
           old == bilan[q.on]
<1>0. /\ q \in CarbonWork /\ q.op \in {"open", "add", "close"} /\ q # NoCarbonRequest /\ q.on \in Years
      /\ q.op \in {"add", "close"} => q.total \in Amounts
      /\ carbonReq' = [carbonReq EXCEPT ![r] = NoCarbonRequest] /\ carbonOverlap' = carbonOverlap
      /\ UNCHANGED <<carbonReport, rendering>>
    BY CarbonWorkFacts DEF CarbonInv, CarbonShape, FinishBilan, FinishEntry, FinishClose, EndCarbon
<1>1. /\ old \in BilanRows \cup {NoBilan}
      /\ q.op \in {"add", "close"} => old \in BilanRows
      /\ old.entries \in Nat /\ bilan \in [Years -> BilanRows \cup {NoBilan}]
      /\ ~ carbonOverlap => old.total = old.entries /\ TotalIsCurrent(q)
    BY <1>0, BilanFacts, AmountsFacts
       DEF CarbonInv, CarbonShape, BilansAreThere, ReportsShowTheEntries, TotalsAreCurrent
<1>2. CASE FinishBilan(r)
    <2> DEFINE new == [st |-> "in_progress", entries |-> 0, total |-> 0]
               row == IF old = NoBilan THEN new ELSE old
    <2>1. /\ row \in BilanRows /\ row.entries = old.entries /\ row.total = old.total
          /\ old.st = "completed" => row.st = "completed"
        <3>1. new \in BilanRows /\ new.entries = 0 /\ new.total = 0
            BY AmountsFacts DEF BilanRows
        <3> HIDE DEF new
        <3> QED
            BY <1>1, <3>1, BilanFacts
    <2>2. q.op = "open"
        BY <1>2 DEF FinishBilan, EndCarbon
    <2>3. bilan' = [bilan EXCEPT ![q.on] = row]
        <3>1. [NoBilan EXCEPT !.st = "in_progress"] = new
            BY DEF NoBilan
        <3>2. bilan' = IF old = NoBilan THEN [bilan EXCEPT ![q.on].st = "in_progress"] ELSE bilan
            BY <1>2 DEF FinishBilan
        <3>3. CASE old = NoBilan
            BY <3>1, <3>2, <3>3
        <3>4. CASE old # NoBilan
            BY <1>0, <1>1, <3>2, <3>4
        <3> QED
            BY <3>3, <3>4
    <2> HIDE DEF row
    <2>4. /\ row.entries = old.entries + IF q.op = "add" THEN 1 ELSE 0
          /\ ~ carbonOverlap => row.total = row.entries
        BY <1>1, <2>1, <2>2
    <2> QED
        BY <1>0, <2>1, <2>3, <2>4, BilanWritten
<1>3. CASE FinishEntry(r)
    <2> DEFINE row == [old EXCEPT !.entries = @ + 1, !.total = q.total]
    <2>1. q.op = "add" /\ bilan' = [bilan EXCEPT ![q.on] = row]
        BY <1>3 DEF FinishEntry, EndCarbon
    <2>2. old.entries + 1 \in Amounts
        <3>1. r \in Adding(q.on) /\ Adding(q.on) \ {r} \subseteq Adding(q.on)
            BY <2>1 DEF Adding
        <3>2. Cardinality(Adding(q.on)) \in Nat /\ Cardinality(Adding(q.on)) - 1 \in Nat
            BY <3>1, AddingFacts
        <3> QED
            BY <1>0, <1>1, <3>2, AmountsFacts, MaxEntriesAssumption DEF CarbonInv, EntriesFit, Amounts
    <2>3. row \in BilanRows /\ row.st = old.st /\ row.entries = old.entries + 1 /\ row.total = q.total
        BY <1>0, <1>1, <2>1, <2>2 DEF BilanRows
    <2> HIDE DEF row
    <2> QED
        BY <1>0, <1>1, <2>1, <2>3, BilanWritten DEF TotalIsCurrent
<1>4. CASE FinishClose(r)
    <2> DEFINE row == [old EXCEPT !.st = "completed", !.total = q.total]
    <2>1. q.op = "close" /\ bilan' = [bilan EXCEPT ![q.on] = row]
        BY <1>4 DEF FinishClose, EndCarbon
    <2>2. row \in BilanRows /\ row.st = "completed" /\ row.entries = old.entries /\ row.total = q.total
        BY <1>0, <1>1, <2>1 DEF BilanRows
    <2> HIDE DEF row
    <2>3. /\ row.entries = old.entries + IF q.op = "add" THEN 1 ELSE 0
          /\ ~ carbonOverlap => row.total = row.entries
        BY <1>1, <2>1, <2>2 DEF TotalIsCurrent
    <2> QED
        BY <1>0, <2>1, <2>2, <2>3, BilanWritten
<1> QED
    BY <1>2, <1>3, <1>4

LEMMA CarbonStep == CarbonInv /\ [NextCarbon]_carbonVars => CarbonInv'
<1> SUFFICES ASSUME CarbonInv, [NextCarbon]_carbonVars PROVE CarbonInv'
    OBVIOUS
<1>0. /\ CarbonShape /\ TotalsAreCurrent
      /\ \A p \in CarbonReports : carbonReport[p] # NoCarbonReport =>
            /\ carbonReport[p] \in CarbonReportRows /\ carbonReport[p].on \in Years
            /\ bilan[carbonReport[p].on].st = "completed"
      /\ \A p \in rendering : p \in CarbonReports /\ carbonReport[p] # NoCarbonReport
    BY BilanFacts DEF CarbonInv, CarbonShape, BilansAreThere
<1>1. ASSUME NEW r \in CarbonRequests, FinishCarbonReport(r) PROVE CarbonInv'
    <2> DEFINE y == carbonReq[r].on
               row == [st |-> "generating", on |-> y, shows |-> 0]
    <2>1. /\ carbonReq[r].op = "report" /\ carbonReq[r] # NoCarbonRequest
          /\ carbonReq' = [carbonReq EXCEPT ![r] = NoCarbonRequest]
          /\ UNCHANGED <<carbonOverlap, bilan>>
        BY <1>1 DEF FinishCarbonReport, EndCarbon, NoCarbonRequest
    <2>2. y \in Years /\ bilan[y].st = "completed"
        BY <1>0, <2>1, CarbonWorkFacts DEF CarbonInv, CarbonShape, BilansAreThere
    <2>3. /\ carbonReq' \in [CarbonRequests -> CarbonWork] /\ TotalsAreCurrent'
          /\ \A q \in CarbonRequests : carbonReq'[q] = NoCarbonRequest \/ carbonReq'[q] = carbonReq[q]
        BY <2>1, CarbonEnds
    <2>4. CASE UNCHANGED <<carbonReport, rendering>>
        BY <1>0, <2>1, <2>3, <2>4, ReportsWritten DEF CarbonShape
    <2>5. ASSUME NEW p \in CarbonReports, carbonReport' = [carbonReport EXCEPT ![p] = row],
                 rendering' = rendering \cup {p}
          PROVE  CarbonInv'
        <3>1. row \in CarbonReportRows /\ row.on = y /\ row.st = "generating" /\ row # NoCarbonReport
            BY <2>2, AmountsFacts DEF CarbonReportRows, NoCarbonReport
        <3> HIDE DEF row
        <3>2. \A x \in CarbonReports : carbonReport'[x] = IF x = p THEN row ELSE carbonReport[x]
            BY <1>0, <2>5 DEF CarbonShape
        <3>3. /\ carbonReport' \in [CarbonReports -> CarbonReportRows \cup {NoCarbonReport}]
              /\ rendering' \subseteq CarbonReports
            BY <1>0, <2>5, <3>1 DEF CarbonShape
        <3> QED
            BY <1>0, <2>1, <2>2, <2>3, <2>5, <3>1, <3>2, <3>3, ReportsWritten
    <2> QED
        BY <1>1, <2>4, <2>5 DEF FinishCarbonReport
<1>2. ASSUME NEW p \in CarbonReports, NEW done \in BOOLEAN, Render(p, done) PROVE CarbonInv'
    <2> DEFINE old == carbonReport[p]
               row == [old EXCEPT !.st = IF done THEN "completed" ELSE "failed",
                                  !.shows = IF done THEN bilan[old.on].total ELSE 0]
    <2>1. /\ p \in rendering /\ rendering' = rendering \ {p}
          /\ carbonReport' = [carbonReport EXCEPT ![p] = row]
          /\ UNCHANGED <<carbonOverlap, bilan, carbonReq>>
        BY <1>2 DEF Render
    <2>2. old \in CarbonReportRows /\ bilan[old.on].st = "completed" /\ bilan[old.on].total \in Amounts
        BY <1>0, <2>1, BilanFacts DEF CarbonShape
    <2>3. /\ row \in CarbonReportRows /\ row.on = old.on /\ row # NoCarbonReport
          /\ row.st = "completed" => row.shows = bilan[row.on].total
        BY <2>2, AmountsFacts DEF CarbonReportRows, NoCarbonReport
    <2> HIDE DEF row
    <2>4. \A x \in CarbonReports : carbonReport'[x] = IF x = p THEN row ELSE carbonReport[x]
        BY <1>0, <2>1 DEF CarbonShape
    <2>5. carbonReport' \in [CarbonReports -> CarbonReportRows \cup {NoCarbonReport}]
        BY <1>0, <2>1, <2>3 DEF CarbonShape
    <2>6. TotalsAreCurrent'
        BY <1>0, <2>1 DEF TotalsAreCurrent, TotalIsCurrent
    <2> QED
        BY <1>0, <2>1, <2>2, <2>3, <2>4, <2>5, <2>6, ReportsWritten DEF CarbonShape
<1>3. CASE CarbonCrash
    <2>1. /\ carbonReq' = [r \in CarbonRequests |-> NoCarbonRequest] /\ rendering' = {}
          /\ UNCHANGED <<carbonOverlap, bilan, carbonReport>>
        BY <1>3 DEF CarbonCrash
    <2>2. TotalsAreCurrent' /\ carbonReq' \in [CarbonRequests -> CarbonWork]
        BY <2>1 DEF TotalsAreCurrent, TotalIsCurrent, NoCarbonRequest, CarbonWork
    <2> QED
        BY <1>0, <2>1, <2>2, ReportsWritten DEF CarbonShape
<1>4. CASE UNCHANGED carbonVars
    <2>1. TotalsAreCurrent'
        BY <1>0, <1>4 DEF carbonVars, TotalsAreCurrent, TotalIsCurrent
    <2> QED
        BY <1>0, <1>4, <2>1, ReportsWritten DEF carbonVars, CarbonShape
<1> QED
    BY <1>1, <1>2, <1>3, <1>4, CarbonStarts, BilanSteps DEF NextCarbon

LEMMA CarbonInvariant == SpecCarbon => []CarbonInv
<1> QED
    BY CarbonInit, CarbonStep, PTL DEF SpecCarbon

\* A completed assessment and each of its completed reports give the sum of the
\* entries, whatever a crash interrupts, as long as requests do not overlap.
THEOREM FootprintsAddUp == SpecCarbon => []ReportsShowTheEntries
<1>1. CarbonInv => ReportsShowTheEntries
    BY DEF CarbonInv
<1> QED
    BY <1>1, CarbonInvariant, PTL

\* Every variable of the footprints stays in its type; the bound of the entries
\* is the one that StartEntry names, although the entries that are on their way
\* do not count against it.
THEOREM CarbonTyped == SpecCarbon => []CarbonTypeOK
<1>1. CarbonInv => CarbonTypeOK
    BY DEF CarbonInv, CarbonShape, CarbonTypeOK, BilanRows, CarbonReportRows, CarbonWork, YearWork, TotalWork
<1> QED
    BY <1>1, CarbonInvariant, PTL

-----------------------------------------------------------------------------
(* The assessments of a project *)

EsgRows == [st : {"draft", "finalized"}, ref : Referentials, answers : Answers,
            score : Scores \cup {NoScore}, report : Scores \cup {NoScore}]
DraftWork == [op : {"create"}, ref : Referentials]
AnswerWork == [op : {"answer"}, on : Assessments, crit : EsgCriteria, val : {"yes", "no"}, found : BOOLEAN]
FinalWork == [op : {"finalize", "flushed"}, on : Assessments, score : Scores]
EsiaWork == [op : {"report"}, on : Assessments, score : Scores \cup {NoScore}]
EsgWork == DraftWork \cup AnswerWork \cup FinalWork \cup EsiaWork
           \cup [op : {"delete"}, on : Assessments] \cup [op : {"manual"}] \cup {NoEsgRequest}

EsgShape ==
    /\ esgOverlap \in BOOLEAN
    /\ assessment \in [Assessments -> EsgRows \cup {NoAssessment}]
    /\ esgReq \in [EsgRequests -> EsgWork]

\* The row that a finalisation has flushed is locked, and is there when it commits.
FlushedAreThere ==
    \A r \in EsgRequests : esgReq[r].op = "flushed" => assessment[esgReq[r].on] # NoAssessment

\* A finalised row is one of its answers; the report of a draft is still to come.
IsFrozen(row) ==
    /\ row.st = "finalized" =>
          /\ Required \subseteq Answered(row.answers)
          /\ row.score = ScoreOf(row.answers)
          /\ row.report \in {NoScore, row.score}
    /\ row.st = "draft" => row.report = NoScore

\* What a request was decided on is what the row says.
IsCurrent(q) ==
    /\ q.op \in {"answer", "finalize", "flushed"} => assessment[q.on].st = "draft"
    /\ q.op \in {"finalize", "flushed"} =>
          /\ Required \subseteq Answered(assessment[q.on].answers)
          /\ q.score = ScoreOf(assessment[q.on].answers)
    /\ q.op = "report" => assessment[q.on].st = "finalized" /\ q.score = assessment[q.on].score

RowsAreFrozen ==
    ~ esgOverlap =>
        /\ \A r, q \in EsgRequests : esgReq[r] # NoEsgRequest /\ esgReq[q] # NoEsgRequest => r = q
        /\ \A r \in EsgRequests : IsCurrent(esgReq[r])
        /\ \A a \in Assessments : IsFrozen(assessment[a])

EsgInv == EsgShape /\ FlushedAreThere /\ RowsAreFrozen

\* compute_score is a percentage: the quotient is rounded, and no criterion
\* counts more than once.
LEMMA ScoreIsAPercentage == ASSUME NEW answers \in Answers PROVE ScoreOf(answers) \in Scores
<1> DEFINE in == Answered(answers)
           yes == {c \in EsgCriteria : answers[c] = "yes"}
           d == Cardinality(in)
           n == Cardinality(yes)
<1>1. yes \subseteq in /\ in \subseteq EsgCriteria
    BY DEF Answered
<1>2. IsFiniteSet(in) /\ IsFiniteSet(yes) /\ n <= d
    BY <1>1, EsgCriteriaAssumption, FS_Subset
<1>3. d \in Nat /\ n \in Nat
    BY <1>2, FS_CardinalityType
<1> HIDE DEF in, yes, d, n
<1>4. CASE d = 0
    BY <1>4 DEF ScoreOf, Scores, d, in
<1>5. CASE d # 0
    <2> DEFINE x == 200 * n + d
               y == 2 * d
    <2>1. x \in Nat /\ y \in Nat /\ y > 0 /\ x < 101 * y
        BY <1>2, <1>3, <1>5
    <2>2. \A k, m \in Nat : m > 0 /\ k < 101 * m => k \div m \in 0 .. 100
        OBVIOUS
    <2>3. x \div y \in 0 .. 100
        BY <2>1, <2>2
    <2> QED
        BY <1>5, <2>3 DEF ScoreOf, Scores, d, n, in, yes
<1> QED
    BY <1>4, <1>5

\* What a request is, by what it does.
LEMMA EsgWorkFacts ==
    ASSUME NEW q \in EsgWork
    PROVE  /\ q = NoEsgRequest <=> q.op = "none"
           /\ q.op \in {"answer", "finalize", "flushed", "report", "delete"} => q.on \in Assessments
           /\ q.op = "create" => q.ref \in Referentials
           /\ q.op = "answer" => q.crit \in EsgCriteria /\ q.val \in {"yes", "no"}
           /\ q.op \in {"finalize", "flushed"} => q.score \in Scores
           /\ q.op = "report" => q.score \in Scores \cup {NoScore}
<1>1. \/ q \in DraftWork \/ q \in AnswerWork \/ q \in FinalWork \/ q \in EsiaWork
      \/ q \in [op : {"delete"}, on : Assessments] \/ q \in [op : {"manual"}] \/ q = NoEsgRequest
    BY DEF EsgWork
<1>2. CASE q \in AnswerWork
    <2>1. q.op = "answer" /\ q.on \in Assessments /\ q.crit \in EsgCriteria /\ q.val \in {"yes", "no"}
        BY <1>2, Zenon DEF AnswerWork
    <2> QED
        BY <2>1 DEF NoEsgRequest
<1> QED
    BY <1>1, <1>2 DEF DraftWork, FinalWork, EsiaWork, NoEsgRequest

LEMMA AssessmentFacts ==
    /\ NoAssessment.st = "absent"
    /\ \A row \in EsgRows :
          /\ row # NoAssessment /\ row.st \in {"draft", "finalized"} /\ row.answers \in Answers
          /\ row.score \in Scores \cup {NoScore}
BY DEF EsgRows, NoAssessment

LEMMA EsgInit == InitProjectEsg => EsgInv
<1> SUFFICES ASSUME InitProjectEsg PROVE EsgInv
    OBVIOUS
<1>1. EsgShape
    <2>1. NoEsgRequest \in EsgWork
        BY DEF EsgWork
    <2> QED
        BY <2>1 DEF InitProjectEsg, EsgShape
<1>2. FlushedAreThere /\ RowsAreFrozen
    BY DEF InitProjectEsg, FlushedAreThere, RowsAreFrozen, IsCurrent, IsFrozen, NoEsgRequest, NoAssessment
<1> QED
    BY <1>1, <1>2 DEF EsgInv

\* A request that begins.
LEMMA EsgBegins ==
    ASSUME EsgInv, NEW r \in EsgRequests, NEW what \in EsgWork, what # NoEsgRequest,
           BeginEsg(r, what), what.op # "flushed", IsCurrent(what)
    PROVE  EsgInv'
<1>1. /\ esgReq[r] = NoEsgRequest
      /\ esgOverlap \/ \A q \in EsgRequests : esgReq[q] = NoEsgRequest
      /\ esgReq' = [esgReq EXCEPT ![r] = what]
      /\ UNCHANGED <<esgOverlap, assessment>>
    BY DEF BeginEsg
<1>2. EsgShape' /\ \A q \in EsgRequests : esgReq'[q] = IF q = r THEN what ELSE esgReq[q]
    BY <1>1 DEF EsgInv, EsgShape
<1>3. FlushedAreThere'
    BY <1>1, <1>2 DEF EsgInv, FlushedAreThere
<1>4. RowsAreFrozen'
    BY <1>1, <1>2 DEF EsgInv, RowsAreFrozen, IsCurrent
<1> QED
    BY <1>2, <1>3, <1>4 DEF EsgInv

\* A request that ends and leaves the rows, or changes that of one assessment.
LEMMA EsgEnds ==
    ASSUME EsgInv, NEW r \in EsgRequests, esgReq[r] # NoEsgRequest,
           esgReq' = [esgReq EXCEPT ![r] = NoEsgRequest], esgOverlap' = esgOverlap,
           \/ assessment' = assessment
           \/ \E a \in Assessments, row \in EsgRows \cup {NoAssessment} :
                /\ assessment' = [assessment EXCEPT ![a] = row]
                /\ row = NoAssessment => ~ RowLocked(a)
                /\ ~ esgOverlap => IsFrozen(row)
    PROVE  EsgInv'
<1>1. \A q \in EsgRequests : esgReq'[q] = IF q = r THEN NoEsgRequest ELSE esgReq[q]
    BY DEF EsgInv, EsgShape
<1>2. ~ esgOverlap => \A q \in EsgRequests : esgReq'[q] = NoEsgRequest
    BY <1>1 DEF EsgInv, RowsAreFrozen
<1>3. esgReq' \in [EsgRequests -> EsgWork]
    <2>1. NoEsgRequest \in EsgWork
        BY DEF EsgWork
    <2> QED
        BY <2>1 DEF EsgInv, EsgShape
<1>4. CASE assessment' = assessment
    <2>1. FlushedAreThere'
        BY <1>1, <1>4 DEF EsgInv, FlushedAreThere, NoEsgRequest
    <2>2. RowsAreFrozen'
        BY <1>2, <1>4 DEF EsgInv, RowsAreFrozen, IsCurrent, IsFrozen, NoEsgRequest
    <2> QED
        BY <1>3, <1>4, <2>1, <2>2 DEF EsgInv, EsgShape
<1>5. ASSUME NEW a \in Assessments, NEW row \in EsgRows \cup {NoAssessment},
             assessment' = [assessment EXCEPT ![a] = row],
             row = NoAssessment => ~ RowLocked(a), ~ esgOverlap => IsFrozen(row)
      PROVE  EsgInv'
    <2>1. \A b \in Assessments : assessment'[b] = IF b = a THEN row ELSE assessment[b]
        BY <1>5 DEF EsgInv, EsgShape
    <2>2. FlushedAreThere'
        <3>1. \A q \in EsgRequests : esgReq[q].op = "flushed" => esgReq[q].on \in Assessments
            BY EsgWorkFacts DEF EsgInv, EsgShape
        <3> QED
            BY <1>1, <1>5, <2>1, <3>1 DEF EsgInv, FlushedAreThere, RowLocked, NoEsgRequest
    <2>3. RowsAreFrozen'
        BY <1>2, <1>5, <2>1 DEF EsgInv, RowsAreFrozen, IsCurrent, IsFrozen, NoEsgRequest
    <2> QED
        BY <1>3, <1>5, <2>2, <2>3 DEF EsgInv, EsgShape
<1> QED
    BY <1>4, <1>5

LEMMA AnswersAreWork ==
    \A a \in Assessments, c \in EsgCriteria, v \in {"yes", "no"}, found \in BOOLEAN :
        /\ [op |-> "answer", on |-> a, crit |-> c, val |-> v, found |-> found] \in AnswerWork
        /\ [op |-> "answer", on |-> a, crit |-> c, val |-> v, found |-> found].op = "answer"
        /\ [op |-> "answer", on |-> a, crit |-> c, val |-> v, found |-> found].on = a
BY Zenon DEF AnswerWork

\* The step that each request about an assessment begins with.
LEMMA EsgStarts ==
    ASSUME EsgInv, NEW r \in EsgRequests, NEW a \in Assessments,
           \/ \E c \in EsgCriteria, v \in {"yes", "no"} : StartAnswer(r, a, c, v)
           \/ StartFinalize(r, a) \/ StartDeleteEsg(r, a) \/ StartEsia(r, a)
    PROVE  EsgInv'
<1>0. assessment[a].st # "absent" =>
        assessment[a] \in EsgRows /\ assessment[a].answers \in Answers
        /\ assessment[a].score \in Scores \cup {NoScore}
    BY AssessmentFacts DEF EsgInv, EsgShape
<1>1. ASSUME NEW c \in EsgCriteria, NEW v \in {"yes", "no"}, StartAnswer(r, a, c, v) PROVE EsgInv'
    <2>1. assessment[a].st = "draft"
        BY <1>1 DEF StartAnswer, MayAnswer
    <2>2. PICK found \in BOOLEAN :
            BeginEsg(r, [op |-> "answer", on |-> a, crit |-> c, val |-> v, found |-> found])
        BY <1>1, Zenon DEF StartAnswer
    <2> DEFINE what == [op |-> "answer", on |-> a, crit |-> c, val |-> v, found |-> found]
    <2>3. what \in AnswerWork /\ what.op = "answer" /\ what.on = a
        BY AnswersAreWork, Zenon
    <2>4. BeginEsg(r, what)
        BY <2>2
    <2> HIDE DEF what
    <2>5. what \in EsgWork /\ what # NoEsgRequest /\ IsCurrent(what)
        BY <2>1, <2>3 DEF EsgWork, NoEsgRequest, IsCurrent
    <2> QED
        BY <2>3, <2>4, <2>5, EsgBegins
<1>2. ASSUME StartFinalize(r, a) PROVE EsgInv'
    <2> DEFINE what == [op |-> "finalize", on |-> a, score |-> ScoreOf(assessment[a].answers)]
    <2>1. /\ assessment[a].st = "draft" /\ Required \subseteq Answered(assessment[a].answers)
          /\ BeginEsg(r, what)
        BY <1>2 DEF StartFinalize
    <2>2. ScoreOf(assessment[a].answers) \in Scores
        BY <1>0, <2>1, ScoreIsAPercentage
    <2>3. /\ what \in EsgWork /\ what # NoEsgRequest /\ what.op = "finalize" /\ what.on = a
          /\ what.score = ScoreOf(assessment[a].answers)
        BY <2>2 DEF EsgWork, FinalWork, NoEsgRequest
    <2> HIDE DEF what
    <2> QED
        BY <2>1, <2>3, EsgBegins DEF IsCurrent
<1>3. ASSUME StartDeleteEsg(r, a) PROVE EsgInv'
    <2> DEFINE what == [op |-> "delete", on |-> a]
    <2>1. BeginEsg(r, what)
        BY <1>3 DEF StartDeleteEsg
    <2>2. what \in EsgWork /\ what # NoEsgRequest /\ what.op = "delete"
        BY DEF EsgWork, NoEsgRequest
    <2> HIDE DEF what
    <2> QED
        BY <2>1, <2>2, EsgBegins DEF IsCurrent
<1>4. ASSUME StartEsia(r, a) PROVE EsgInv'
    <2> DEFINE what == [op |-> "report", on |-> a, score |-> assessment[a].score]
    <2>1. assessment[a].st = "finalized" /\ BeginEsg(r, what)
        BY <1>4 DEF StartEsia
    <2>2. /\ what \in EsgWork /\ what # NoEsgRequest /\ what.op = "report" /\ what.on = a
          /\ what.score = assessment[a].score
        BY <1>0, <2>1 DEF EsgWork, EsiaWork, NoEsgRequest
    <2> HIDE DEF what
    <2> QED
        BY <2>1, <2>2, EsgBegins DEF IsCurrent
<1> QED
    BY <1>1, <1>2, <1>3, <1>4

\* An answer to a draft is written in it; what is written of a finalised row,
\* when requests overlap, is still a row.
LEMMA AnswerStep ==
    ASSUME EsgInv, NEW r \in EsgRequests, FinishAnswer(r)
    PROVE  EsgInv'
<1> DEFINE q == esgReq[r]
           old == assessment[q.on]
           row == [old EXCEPT !.answers[q.crit] = q.val]
<1>1. /\ q.op = "answer" /\ q # NoEsgRequest /\ q.on \in Assessments
      /\ q.crit \in EsgCriteria /\ q.val \in {"yes", "no"}
      /\ esgReq' = [esgReq EXCEPT ![r] = NoEsgRequest] /\ esgOverlap' = esgOverlap
    BY EsgWorkFacts DEF FinishAnswer, EndEsg, EsgInv, EsgShape
<1>2. CASE assessment' = assessment
    BY <1>1, <1>2, EsgEnds
<1>3. CASE assessment' # assessment
    <2>1. old.st # "absent" /\ assessment' = [assessment EXCEPT ![q.on] = row]
        BY <1>3 DEF FinishAnswer
    <2>2. old \in EsgRows /\ old.answers \in Answers
        BY <1>1, <2>1, AssessmentFacts DEF EsgInv, EsgShape
    <2>3. row \in EsgRows /\ row.st = old.st /\ row.report = old.report
        BY <1>1, <2>2 DEF EsgRows, Answers
    <2>4. ~ esgOverlap => IsFrozen(row)
        BY <1>1, <2>3 DEF EsgInv, RowsAreFrozen, IsCurrent, IsFrozen
    <2>5. row # NoAssessment
        BY <2>3, AssessmentFacts
    <2> HIDE DEF row
    <2> QED
        BY <1>1, <2>1, <2>3, <2>4, <2>5, EsgEnds
<1> QED
    BY <1>2, <1>3

\* The flush of a finalisation: nothing of the row is committed yet.
LEMMA FlushStep ==
    ASSUME EsgInv, NEW r \in EsgRequests, FlushFinalize(r)
    PROVE  EsgInv'
<1> DEFINE q == esgReq[r]
<1>1. /\ q.op = "finalize" /\ assessment[q.on].st # "absent"
      /\ esgReq' = [esgReq EXCEPT ![r] = [q EXCEPT !.op = "flushed"]] /\ UNCHANGED <<esgOverlap, assessment>>
    BY DEF FlushFinalize
<1>2. q \in FinalWork /\ q # NoEsgRequest
    BY <1>1 DEF EsgInv, EsgShape, EsgWork, DraftWork, AnswerWork, EsiaWork, NoEsgRequest
<1>3. PICK what \in FinalWork :
        /\ esgReq' = [esgReq EXCEPT ![r] = what]
        /\ what.op = "flushed" /\ what.on = q.on /\ what.score = q.score
    <2>1. /\ [q EXCEPT !.op = "flushed"] \in FinalWork
          /\ [q EXCEPT !.op = "flushed"].op = "flushed"
          /\ [q EXCEPT !.op = "flushed"].on = q.on /\ [q EXCEPT !.op = "flushed"].score = q.score
        BY <1>2 DEF FinalWork
    <2> QED
        BY <1>1, <2>1
<1>4. \A p \in EsgRequests : esgReq'[p] = IF p = r THEN what ELSE esgReq[p]
    BY <1>3 DEF EsgInv, EsgShape
<1>5. EsgShape'
    BY <1>1, <1>3 DEF EsgInv, EsgShape, EsgWork
<1>6. FlushedAreThere'
    BY <1>1, <1>3, <1>4, AssessmentFacts DEF EsgInv, FlushedAreThere
<1>7. RowsAreFrozen'
    <2>1. ~ esgOverlap => IsCurrent(what)'
        BY <1>1, <1>3 DEF EsgInv, RowsAreFrozen, IsCurrent
    <2>2. what # NoEsgRequest
        BY <1>3 DEF NoEsgRequest
    <2> QED
        BY <1>1, <1>2, <1>4, <2>1, <2>2 DEF EsgInv, RowsAreFrozen, IsCurrent, IsFrozen
<1> QED
    BY <1>5, <1>6, <1>7 DEF EsgInv

\* The commit of a finalisation.
LEMMA CommitStep ==
    ASSUME EsgInv, NEW r \in EsgRequests, CommitFinalize(r)
    PROVE  EsgInv'
<1> DEFINE q == esgReq[r]
           old == assessment[q.on]
           row == [old EXCEPT !.st = "finalized", !.score = q.score]
<1>1. /\ q.op = "flushed" /\ q # NoEsgRequest /\ q.on \in Assessments /\ q.score \in Scores
      /\ esgReq' = [esgReq EXCEPT ![r] = NoEsgRequest] /\ esgOverlap' = esgOverlap
      /\ assessment' = [assessment EXCEPT ![q.on] = row]
    BY EsgWorkFacts DEF CommitFinalize, EndEsg, EsgInv, EsgShape
<1>2. old \in EsgRows
    BY <1>1 DEF EsgInv, EsgShape, FlushedAreThere
<1>3. /\ row \in EsgRows /\ row.st = "finalized" /\ row.score = q.score
      /\ row.answers = old.answers /\ row.report = old.report
    BY <1>1, <1>2 DEF EsgRows
<1>4. ~ esgOverlap => IsFrozen(row)
    BY <1>1, <1>3 DEF EsgInv, RowsAreFrozen, IsCurrent, IsFrozen
<1>5. row # NoAssessment
    BY <1>3, AssessmentFacts
<1> HIDE DEF row
<1> QED
    BY <1>1, <1>3, <1>4, <1>5, EsgEnds

\* The report of an assessment: the score it had when it was asked for.
LEMMA EsiaStep ==
    ASSUME EsgInv, NEW r \in EsgRequests, FinishEsia(r)
    PROVE  EsgInv'
<1> DEFINE q == esgReq[r]
           old == assessment[q.on]
           row == [old EXCEPT !.report = q.score]
<1>1. /\ q.op = "report" /\ q # NoEsgRequest /\ q.on \in Assessments /\ q.score \in Scores \cup {NoScore}
      /\ esgReq' = [esgReq EXCEPT ![r] = NoEsgRequest] /\ esgOverlap' = esgOverlap
    BY EsgWorkFacts DEF FinishEsia, EndEsg, EsgInv, EsgShape
<1>2. CASE old.st = "absent"
    BY <1>1, <1>2, EsgEnds DEF FinishEsia
<1>3. CASE old.st # "absent"
    <2>1. old \in EsgRows /\ assessment' = [assessment EXCEPT ![q.on] = row]
        BY <1>1, <1>3, AssessmentFacts DEF FinishEsia, EsgInv, EsgShape
    <2>2. /\ row \in EsgRows /\ row.st = old.st /\ row.score = old.score
          /\ row.answers = old.answers /\ row.report = q.score
        BY <1>1, <2>1 DEF EsgRows
    <2>3. ~ esgOverlap => IsFrozen(row)
        BY <1>1, <2>2 DEF EsgInv, RowsAreFrozen, IsCurrent, IsFrozen
    <2>4. row # NoAssessment
        BY <2>2, AssessmentFacts
    <2> HIDE DEF row
    <2> QED
        BY <1>1, <2>1, <2>2, <2>3, <2>4, EsgEnds
<1> QED
    BY <1>2, <1>3

LEMMA EsgStep == EsgInv /\ [NextProjectEsg]_esgVars => EsgInv'
<1> SUFFICES ASSUME EsgInv, [NextProjectEsg]_esgVars PROVE EsgInv'
    OBVIOUS
<1>0. \A r \in EsgRequests : esgReq[r] \in EsgWork
    BY DEF EsgInv, EsgShape
<1>1. ASSUME NEW r \in EsgRequests, NEW ref \in Referentials, StartAssessment(r, ref) PROVE EsgInv'
    <2> DEFINE what == [op |-> "create", ref |-> ref]
    <2>1. BeginEsg(r, what)
        BY <1>1 DEF StartAssessment
    <2>2. what \in EsgWork /\ what # NoEsgRequest /\ what.op = "create"
        BY DEF EsgWork, DraftWork, NoEsgRequest
    <2> HIDE DEF what
    <2> QED
        BY <2>1, <2>2, EsgBegins DEF IsCurrent
<1>2. ASSUME NEW r \in EsgRequests, StartManual(r) PROVE EsgInv'
    <2> DEFINE what == [op |-> "manual"]
    <2>1. BeginEsg(r, what)
        BY <1>2 DEF StartManual
    <2>2. what \in EsgWork /\ what # NoEsgRequest /\ what.op = "manual"
        BY DEF EsgWork, NoEsgRequest
    <2> HIDE DEF what
    <2> QED
        BY <2>1, <2>2, EsgBegins DEF IsCurrent
<1>3. ASSUME NEW r \in EsgRequests, FinishAssessment(r) PROVE EsgInv'
    <2> DEFINE row == [st |-> "draft", ref |-> esgReq[r].ref, answers |-> [c \in EsgCriteria |-> "none"],
                       score |-> NoScore, report |-> NoScore]
    <2>1. PICK a \in Assessments : assessment' = [assessment EXCEPT ![a] = row]
        BY <1>3 DEF FinishAssessment, Rows
    <2>2. /\ esgReq[r].op = "create" /\ esgReq[r] # NoEsgRequest /\ esgReq[r].ref \in Referentials
          /\ esgReq' = [esgReq EXCEPT ![r] = NoEsgRequest] /\ esgOverlap' = esgOverlap
        BY <1>0, <1>3, EsgWorkFacts DEF FinishAssessment, EndEsg
    <2>3. row \in EsgRows /\ row.st = "draft" /\ row.report = NoScore /\ row # NoAssessment
        BY <2>2 DEF EsgRows, Answers, NoAssessment
    <2> HIDE DEF row
    <2> QED
        BY <2>1, <2>2, <2>3, EsgEnds DEF IsFrozen
<1>4. ASSUME NEW r \in EsgRequests, RefuseFinalize(r) \/ AbortFinalize(r) \/ FinishManual(r) PROVE EsgInv'
    <2>1. /\ esgReq[r] # NoEsgRequest /\ esgReq' = [esgReq EXCEPT ![r] = NoEsgRequest]
          /\ UNCHANGED <<esgOverlap, assessment>>
        BY <1>4 DEF RefuseFinalize, AbortFinalize, FinishManual, EndEsg, NoEsgRequest
    <2> QED
        BY <2>1, EsgEnds
<1>5. ASSUME NEW r \in EsgRequests, FinishDeleteEsg(r) PROVE EsgInv'
    <2> DEFINE a == esgReq[r].on
    <2>1. /\ a \in Assessments /\ esgReq[r] # NoEsgRequest
          /\ esgReq' = [esgReq EXCEPT ![r] = NoEsgRequest] /\ esgOverlap' = esgOverlap
          /\ ~ RowLocked(a) /\ assessment' = [assessment EXCEPT ![a] = NoAssessment]
        BY <1>0, <1>5, EsgWorkFacts DEF FinishDeleteEsg, EndEsg
    <2>2. IsFrozen(NoAssessment)
        BY DEF IsFrozen, NoAssessment
    <2> QED
        BY <2>1, <2>2, EsgEnds
<1>6. CASE UNCHANGED <<esgOverlap, assessment, esgReq>>
    BY <1>6 DEF EsgInv, EsgShape, FlushedAreThere, RowsAreFrozen, IsCurrent, IsFrozen
<1> QED
    BY <1>1, <1>2, <1>3, <1>4, <1>5, <1>6, EsgStarts, AnswerStep, FlushStep, CommitStep, EsiaStep
       DEF NextProjectEsg, FinishEsg, Sync, WindowPasses, esgVars

LEMMA EsgInvariant == SpecProjectEsg => []EsgInv
<1> QED
    BY EsgInit, EsgStep, PTL DEF SpecProjectEsg

\* What a finalised assessment says is what was answered, whatever the criteria
\* and however often rows were deleted, refused and finalised again, as long as
\* requests do not overlap.
THEOREM FinalisedStaysAnswered == SpecProjectEsg => []FinalisedIsFrozen
<1>1. EsgInv => FinalisedIsFrozen
    BY DEF EsgInv, RowsAreFrozen, IsFrozen, FinalisedIsFrozen, Rows
<1> QED
    BY <1>1, EsgInvariant, PTL

-----------------------------------------------------------------------------
(* The list of the finalised assessments of a project *)

\* A sequence that holds nothing twice, and what a sequence holds.
Distinct(s) == \A i, j \in 1..Len(s) : s[i] = s[j] => i = j
Among(s) == {s[i] : i \in 1..Len(s)}

\* RemoveFirst, on a sequence that holds nothing twice.
LEMMA Removed ==
    ASSUME NEW S, NEW s \in Seq(S), NEW a, Distinct(s)
    PROVE  /\ RemoveFirst(s, a) \in Seq(S)
           /\ Distinct(RemoveFirst(s, a))
           /\ Among(RemoveFirst(s, a)) = Among(s) \ {a}
<1> DEFINE t == RemoveFirst(s, a)
<1>0. Len(s) \in Nat /\ \A i \in 1..Len(s) : s[i] \in S
    BY LenProperties, ElementOfSeq
<1>1. CASE ~ \E i \in 1..Len(s) : s[i] = a
    <2>1. t = s
        BY <1>1 DEF RemoveFirst
    <2>2. Among(s) \ {a} = Among(s)
        BY <1>1 DEF Among
    <2> HIDE DEF t
    <2>3. t \in Seq(S) /\ Distinct(t) /\ Among(t) = Among(s) \ {a}
        BY <2>1, <2>2
    <2> QED
        BY <2>3 DEF t
<1>2. ASSUME NEW k \in 1..Len(s), s[k] = a
      PROVE  t \in Seq(S) /\ Distinct(t) /\ Among(t) = Among(s) \ {a}
    <2>1. t = RemoveAt(s, k)
        <3> DEFINE I == {i \in 1..Len(s) : s[i] = a}
        <3>1. I = {k}
            BY <1>2 DEF Distinct
        <3>2. Min({k}) = k
            BY <1>0 DEF Min
        <3>3. t = RemoveAt(s, IF I # {} THEN Min(I) ELSE 0)
            BY <1>2 DEF RemoveFirst, SelectInSeq
        <3> HIDE DEF I, t
        <3> QED
            BY <3>1, <3>2, <3>3
    <2> DEFINE u == SubSeq(s, 1, k - 1)
               v == SubSeq(s, k + 1, Len(s))
    <2>2. /\ u \in Seq(S) /\ Len(u) = k - 1 /\ \A i \in 1..k - 1 : u[i] = s[i]
        BY <1>0, SMTT(30)
    <2>3. /\ v \in Seq(S) /\ Len(v) = Len(s) - k /\ \A i \in 1..Len(s) - k : v[i] = s[i + k]
        BY <1>0, SMTT(30)
    <2>4. t = u \o v
        BY <2>1 DEF RemoveAt
    <2> HIDE DEF u, v, t
    <2>5. /\ t \in Seq(S) /\ Len(t) = Len(s) - 1
          /\ \A i \in 1..Len(t) : t[i] = IF i < k THEN s[i] ELSE s[i + 1]
        <3>1. /\ t \in Seq(S) /\ Len(t) = Len(u) + Len(v)
              /\ \A i \in 1..Len(u) + Len(v) : t[i] = IF i <= Len(u) THEN u[i] ELSE v[i - Len(u)]
            BY <2>2, <2>3, <2>4, ConcatProperties
        <3>2. Len(t) = Len(s) - 1
            BY <1>0, <2>2, <2>3, <3>1
        <3>3. ASSUME NEW i \in 1..Len(t) PROVE t[i] = IF i < k THEN s[i] ELSE s[i + 1]
            <4>1. CASE i < k
                BY <1>0, <2>2, <2>3, <3>1, <3>2, <4>1
            <4>2. CASE ~ i < k
                <5>1. i - (k - 1) \in 1..Len(s) - k /\ i - (k - 1) + k = i + 1
                    BY <1>0, <3>2, <4>2
                <5>3. Len(u) = k - 1 /\ i \in 1..Len(u) + Len(v) /\ ~ i <= Len(u)
                    BY <1>0, <2>2, <2>3, <3>1, <4>2
                <5>4. t[i] = v[i - Len(u)]
                    BY <3>1, <5>3
                <5>2. t[i] = v[i - (k - 1)]
                    BY <5>3, <5>4
                <5> QED
                    BY <2>3, <4>2, <5>1, <5>2
            <4> QED
                BY <4>1, <4>2
        <3> QED
            BY <3>1, <3>2, <3>3
    <2>6. Distinct(t)
        <3> SUFFICES ASSUME NEW i \in 1..Len(t), NEW j \in 1..Len(t), t[i] = t[j] PROVE i = j
            BY DEF Distinct
        <3>1. i \in 1..Len(s) /\ i + 1 \in 1..Len(s) /\ j \in 1..Len(s) /\ j + 1 \in 1..Len(s)
            BY <1>0, <2>5
        <3> QED
            BY <1>0, <2>5, <3>1 DEF Distinct
    <2>7. \A i \in 1..Len(t) : t[i] \in Among(s) \ {a}
        <3> SUFFICES ASSUME NEW i \in 1..Len(t) PROVE t[i] \in Among(s) \ {a}
            OBVIOUS
        <3>1. i \in 1..Len(s) /\ i + 1 \in 1..Len(s)
            BY <1>0, <2>5
        <3> QED
            BY <1>0, <1>2, <2>5, <3>1 DEF Distinct, Among
    <2>8. ASSUME NEW i \in 1..Len(s), s[i] # a PROVE s[i] \in Among(t)
        <3>1. CASE i < k
            <4>1. i \in 1..Len(t) /\ t[i] = s[i]
                BY <1>0, <2>5, <3>1
            <4> QED
                BY <4>1 DEF Among
        <3>2. CASE i > k
            <4>1. i - 1 \in 1..Len(t) /\ ~ (i - 1 < k) /\ i - 1 + 1 = i
                BY <1>0, <2>5, <3>2
            <4>2. t[i - 1] = s[i]
                BY <2>5, <4>1
            <4> QED
                BY <4>1, <4>2 DEF Among
        <3> QED
            BY <1>2, <2>8, <3>1, <3>2
    <2> QED
        BY <2>5, <2>6, <2>7, <2>8 DEF Among
<1> QED
    BY <1>1, <1>2

\* A sequence that holds nothing twice is as long as the set of what it holds.
LEMMA DistinctLength ==
    ASSUME NEW S, NEW s \in Seq(S), Distinct(s)
    PROVE  Range(s) = Among(s) /\ Len(s) = Cardinality(Range(s))
<1>0. Len(s) \in Nat /\ DOMAIN s = 1..Len(s) /\ s \in [1..Len(s) -> S]
    BY LenProperties
<1>1. Range(s) = Among(s)
    BY <1>0 DEF Range, Among
<1>2. s \in Bijection(1..Len(s), Among(s))
    BY <1>0 DEF Bijection, Injection, Surjection, IsInjective, Among, Distinct
<1>3. IsFiniteSet(1..Len(s)) /\ Cardinality(1..Len(s)) = Len(s)
    BY <1>0, FS_Interval
<1>4. Cardinality(1..Len(s)) = Cardinality(Among(s))
    BY <1>2, <1>3, FS_Bijection DEF ExistsBijection
<1> QED
    BY <1>1, <1>3, <1>4

\* The finalised assessments, each once, and the copy on the project.
FinalisedAreListed ==
    /\ finalised \in Seq(Assessments)
    /\ Distinct(finalised)
    /\ Among(finalised) = Rows("finalized")

CopyShape ==
    /\ projectScore \in Scores \cup {NoScore, Manual}
    /\ syncPending \in BOOLEAN /\ recent \in BOOLEAN

EsgListInv == EsgInv /\ FinalisedAreListed /\ CopyShape

LEMMA EsgListInit == InitProjectEsg => EsgListInv
<1> SUFFICES ASSUME InitProjectEsg PROVE EsgListInv
    OBVIOUS
<1>1. EsgInv
    BY EsgInit
<1>2. FinalisedAreListed
    <2>1. finalised = <<>> /\ Rows("finalized") = {}
        BY DEF InitProjectEsg, Rows, NoAssessment
    <2>2. Distinct(finalised) /\ Among(finalised) = {} /\ finalised \in Seq(Assessments)
        BY <2>1 DEF Distinct, Among
    <2> QED
        BY <2>1, <2>2 DEF FinalisedAreListed
<1>3. CopyShape
    BY DEF InitProjectEsg, CopyShape
<1> QED
    BY <1>1, <1>2, <1>3 DEF EsgListInv

\* A row that is written keeps its status, except when it is created, finalised
\* or deleted.
LEMMA FinalisedRowsStay ==
    ASSUME EsgInv, NEW r \in EsgRequests,
           FinishAssessment(r) \/ FinishAnswer(r) \/ FinishEsia(r)
    PROVE  Rows("finalized")' = Rows("finalized") /\ UNCHANGED <<finalised, projectScore, syncPending, recent>>
<1>1. \A a \in Assessments : assessment[a].st # "absent" => assessment[a] \in EsgRows
    BY AssessmentFacts DEF EsgInv, EsgShape
<1>2. assessment \in [Assessments -> EsgRows \cup {NoAssessment}] /\ esgReq[r] \in EsgWork
    BY DEF EsgInv, EsgShape
<1>3. CASE FinishAssessment(r)
    <2>1. PICK a \in Rows("absent") :
            assessment' = [assessment EXCEPT ![a] =
              [st |-> "draft", ref |-> esgReq[r].ref,
               answers |-> [c \in EsgCriteria |-> "none"],
               score |-> NoScore, report |-> NoScore]]
        BY <1>3 DEF FinishAssessment
    <2>2. \A b \in Assessments : (assessment'[b].st = "finalized") <=> (assessment[b].st = "finalized")
        BY <1>2, <2>1 DEF Rows
    <2> QED
        BY <1>3, <2>2 DEF FinishAssessment, Rows
<1>4. CASE FinishAnswer(r)
    <2> DEFINE q == esgReq[r]
    <2>1. q.on \in Assessments
        BY <1>2, <1>4, EsgWorkFacts DEF FinishAnswer, EndEsg
    <2>2. CASE assessment' = assessment
        BY <1>4, <2>2 DEF FinishAnswer, Rows
    <2>3. CASE assessment' # assessment
        <3>1. /\ assessment[q.on].st # "absent"
              /\ assessment' = [assessment EXCEPT ![q.on].answers[q.crit] = q.val]
            BY <1>4, <2>3 DEF FinishAnswer
        <3>2. assessment[q.on] \in EsgRows
            BY <1>1, <2>1, <3>1
        <3>3. \A b \in Assessments : assessment'[b].st = assessment[b].st
            BY <1>2, <2>1, <3>1, <3>2 DEF EsgRows
        <3> QED
            BY <1>4, <3>3 DEF FinishAnswer, Rows
    <2> QED
        BY <2>2, <2>3
<1>5. CASE FinishEsia(r)
    <2> DEFINE q == esgReq[r]
    <2>1. q.on \in Assessments
        BY <1>2, <1>5, EsgWorkFacts DEF FinishEsia, EndEsg
    <2>2. CASE assessment[q.on].st = "absent"
        BY <1>5, <2>2 DEF FinishEsia, Rows
    <2>3. CASE assessment[q.on].st # "absent"
        <3>1. assessment' = [assessment EXCEPT ![q.on].report = q.score]
            BY <1>5, <2>3 DEF FinishEsia
        <3>2. assessment[q.on] \in EsgRows
            BY <1>1, <2>1, <2>3
        <3>3. \A b \in Assessments : assessment'[b].st = assessment[b].st
            BY <1>2, <2>1, <3>1, <3>2 DEF EsgRows
        <3> QED
            BY <1>5, <3>3 DEF FinishEsia, Rows
    <2> QED
        BY <2>2, <2>3
<1> QED
    BY <1>3, <1>4, <1>5

\* The list without one assessment, and with it at its end.
LEMMA ListSteps ==
    ASSUME EsgListInv, NEW a \in Assessments
    PROVE  LET left == RemoveFirst(finalised, a)
           IN  /\ left \in Seq(Assessments) /\ Append(left, a) \in Seq(Assessments)
               /\ Distinct(left) /\ Distinct(Append(left, a))
               /\ Among(left) = Rows("finalized") \ {a}
               /\ Among(Append(left, a)) = Rows("finalized") \cup {a}
<1> DEFINE left == RemoveFirst(finalised, a)
           all == Append(left, a)
<1>1. left \in Seq(Assessments) /\ Distinct(left) /\ Among(left) = Rows("finalized") \ {a}
    BY Removed DEF EsgListInv, FinalisedAreListed
<1> HIDE DEF left
<1>2. /\ all \in Seq(Assessments) /\ Len(all) = Len(left) + 1 /\ Len(left) \in Nat
      /\ \A i \in 1..Len(left) : all[i] = left[i]
      /\ all[Len(left) + 1] = a
    BY <1>1, AppendProperties, LenProperties
<1> HIDE DEF all
<1>3. \A i \in 1..Len(all) : i \in 1..Len(left) \/ i = Len(left) + 1
    BY <1>2
<1>4. Distinct(all)
    <2>1. \A i \in 1..Len(left) : left[i] # a
        BY <1>1 DEF Among
    <2> QED
        BY <1>1, <1>2, <1>3, <2>1 DEF Distinct
<1>5. Among(all) = Among(left) \cup {a}
    <2>1. Among(all) \subseteq Among(left) \cup {a}
        BY <1>2, <1>3 DEF Among
    <2>2. \A i \in 1..Len(left) : i \in 1..Len(all)
        BY <1>2
    <2>3. Len(left) + 1 \in 1..Len(all)
        BY <1>2
    <2> QED
        BY <1>2, <2>1, <2>2, <2>3 DEF Among
<1>6. (Rows("finalized") \ {a}) \cup {a} = Rows("finalized") \cup {a}
    OBVIOUS
<1> QED
    BY <1>1, <1>2, <1>4, <1>5, <1>6 DEF left, all

LEMMA EsgListStep == EsgListInv /\ [NextProjectEsg]_esgVars => EsgListInv'
<1> SUFFICES ASSUME EsgListInv, [NextProjectEsg]_esgVars PROVE EsgListInv'
    OBVIOUS
<1>0. EsgInv /\ EsgInv'
    BY EsgStep DEF EsgListInv
<1> SUFFICES FinalisedAreListed' /\ CopyShape'
    BY <1>0 DEF EsgListInv
<1>1. assessment \in [Assessments -> EsgRows \cup {NoAssessment}] /\ \A r \in EsgRequests : esgReq[r] \in EsgWork
    BY <1>0 DEF EsgInv, EsgShape
<1>2. ASSUME UNCHANGED finalised, Rows("finalized")' = Rows("finalized") PROVE FinalisedAreListed'
    BY <1>2 DEF EsgListInv, FinalisedAreListed, Distinct, Among
<1>list. ASSUME NEW list \in Seq(Assessments), finalised' = list, Distinct(list),
              Among(list) = Rows("finalized")', UNCHANGED <<projectScore, syncPending, recent>>
       PROVE  FinalisedAreListed' /\ CopyShape'
    BY <1>list DEF EsgListInv, FinalisedAreListed, CopyShape, Distinct, Among
<1>3. CASE UNCHANGED <<assessment, finalised, projectScore, syncPending, recent>>
    BY <1>2, <1>3 DEF EsgListInv, CopyShape, Rows
<1>4. ASSUME NEW r \in EsgRequests, FinishAssessment(r) \/ FinishAnswer(r) \/ FinishEsia(r)
      PROVE  FinalisedAreListed' /\ CopyShape'
    <2>1. Rows("finalized")' = Rows("finalized") /\ UNCHANGED <<finalised, projectScore, syncPending, recent>>
        BY <1>0, <1>4, FinalisedRowsStay
    <2> QED
        BY <1>2, <2>1 DEF EsgListInv, CopyShape
<1>5. ASSUME NEW r \in EsgRequests, FlushFinalize(r) PROVE FinalisedAreListed' /\ CopyShape'
    BY <1>2, <1>5 DEF FlushFinalize, EsgListInv, CopyShape, Rows
<1>6. ASSUME NEW r \in EsgRequests, CommitFinalize(r) PROVE FinalisedAreListed' /\ CopyShape'
    <2> DEFINE a == esgReq[r].on
    <2>1. a \in Assessments /\ assessment[a] \in EsgRows
        <3>1. esgReq[r].op = "flushed"
            BY <1>6 DEF CommitFinalize, EndEsg
        <3>2. a \in Assessments
            BY <1>1, <3>1, EsgWorkFacts
        <3> QED
            BY <1>0, <1>1, <3>1, <3>2 DEF EsgInv, FlushedAreThere
    <2>2. /\ assessment' = [assessment EXCEPT ![a].st = "finalized", ![a].score = esgReq[r].score]
          /\ finalised' = Append(RemoveFirst(finalised, a), a)
          /\ UNCHANGED <<projectScore, syncPending, recent>>
        BY <1>6 DEF CommitFinalize
    <2>3. \A b \in Assessments : assessment'[b].st = IF b = a THEN "finalized" ELSE assessment[b].st
        BY <1>1, <2>1, <2>2 DEF EsgRows
    <2>4. Rows("finalized")' = Rows("finalized") \cup {a}
        BY <2>1, <2>3 DEF Rows
    <2> HIDE DEF a
    <2> QED
        BY <1>list, <2>1, <2>2, <2>4, ListSteps
<1>7. ASSUME NEW r \in EsgRequests, FinishDeleteEsg(r) PROVE FinalisedAreListed' /\ CopyShape'
    <2> DEFINE a == esgReq[r].on
    <2>1. a \in Assessments
        BY <1>1, <1>7, EsgWorkFacts DEF FinishDeleteEsg, EndEsg
    <2>2. /\ assessment' = [assessment EXCEPT ![a] = NoAssessment]
          /\ finalised' = RemoveFirst(finalised, a)
          /\ UNCHANGED <<projectScore, syncPending, recent>>
        BY <1>7 DEF FinishDeleteEsg
    <2>3. Rows("finalized")' = Rows("finalized") \ {a}
        BY <1>1, <2>1, <2>2 DEF Rows, NoAssessment
    <2> HIDE DEF a
    <2> QED
        BY <1>list, <2>1, <2>2, <2>3, ListSteps
<1>8. ASSUME NEW r \in EsgRequests, FinishManual(r) PROVE FinalisedAreListed' /\ CopyShape'
    BY <1>2, <1>8 DEF FinishManual, EsgListInv, CopyShape, Rows
<1>9. CASE Sync
    <2>1. finalised # <<>> => assessment[Last(finalised)].score \in Scores \cup {NoScore}
        <3> SUFFICES ASSUME finalised # <<>> PROVE assessment[Last(finalised)].score \in Scores \cup {NoScore}
            OBVIOUS
        <3>1. finalised \in Seq(Assessments)
            BY DEF EsgListInv, FinalisedAreListed
        <3>2. Len(finalised) \in 1..Len(finalised)
            BY <3>1, LenProperties, EmptySeq
        <3>3. Last(finalised) \in Rows("finalized")
            BY <3>2 DEF EsgListInv, FinalisedAreListed, Among, Last
        <3>4. assessment[Last(finalised)] \in EsgRows
            BY <1>1, <3>3, AssessmentFacts DEF Rows
        <3> QED
            BY <3>4 DEF EsgRows
    <2>2. projectScore' \in Scores \cup {NoScore}
        BY <1>9, <2>1 DEF Sync
    <2> QED
        BY <1>2, <1>9, <2>2 DEF Sync, EsgListInv, CopyShape, Rows
<1>10. CASE WindowPasses
    BY <1>2, <1>10 DEF WindowPasses, EsgListInv, CopyShape, Rows
<1>11. ASSUME NEW r \in EsgRequests, RefuseFinalize(r) \/ AbortFinalize(r)
       PROVE  FinalisedAreListed' /\ CopyShape'
    BY <1>3, <1>11 DEF RefuseFinalize, AbortFinalize
<1>12. ASSUME NEW r \in EsgRequests, NEW a \in Assessments,
              \/ \E c \in EsgCriteria, v \in {"yes", "no"} : StartAnswer(r, a, c, v)
              \/ StartFinalize(r, a) \/ StartDeleteEsg(r, a) \/ StartEsia(r, a)
       PROVE  FinalisedAreListed' /\ CopyShape'
    BY <1>3, <1>12, Zenon DEF StartAnswer, StartFinalize, StartDeleteEsg, StartEsia, BeginEsg
<1>13. ASSUME NEW r \in EsgRequests, (\E ref \in Referentials : StartAssessment(r, ref)) \/ StartManual(r)
       PROVE  FinalisedAreListed' /\ CopyShape'
    BY <1>3, <1>13 DEF StartAssessment, StartManual, BeginEsg
<1> QED
    BY <1>3, <1>4, <1>5, <1>6, <1>7, <1>8, <1>9, <1>10, <1>11, <1>12, <1>13
       DEF NextProjectEsg, FinishEsg, esgVars

\* The list of the finalised assessments holds each of them once, although one
\* row may be finalised twice by requests that overlap; every score, stored,
\* reported or copied to the project, is a percentage, or typed by the user.
THEOREM ProjectEsgTyped == SpecProjectEsg => []EsgTypeOK
<1>1. SpecProjectEsg => []EsgListInv
    BY EsgListInit, EsgListStep, PTL DEF SpecProjectEsg
<1>2. EsgListInv => EsgTypeOK
    <2> SUFFICES ASSUME EsgListInv PROVE EsgTypeOK
        OBVIOUS
    <2>1. Range(finalised) = Rows("finalized") /\ Len(finalised) = Cardinality(Range(finalised))
        BY DistinctLength DEF EsgListInv, FinalisedAreListed
    <2>2. \A r \in EsgRequests :
            esgReq[r].op \in {"none", "create", "answer", "finalize", "flushed", "delete",
                              "report", "manual"}
        <3>1. \A q \in AnswerWork : q.op = "answer"
            BY Zenon DEF AnswerWork
        <3> QED
            BY <3>1 DEF EsgListInv, EsgInv, EsgShape, EsgWork, DraftWork, FinalWork, EsiaWork, NoEsgRequest
    <2>3. \A a \in Assessments : assessment[a] = NoAssessment \/ assessment[a] \in EsgRows
        BY DEF EsgListInv, EsgInv, EsgShape
    <2>4. esgOverlap \in BOOLEAN /\ CopyShape
        BY DEF EsgListInv, EsgInv, EsgShape
    <2> QED
        BY <2>1, <2>2, <2>3, <2>4 DEF EsgTypeOK, EsgRows, Rows, CopyShape
<1> QED
    BY <1>1, <1>2, PTL

-----------------------------------------------------------------------------
(* The composition *)

\* A step of the composition is a step, or none, of every module of it.
LEMMA EveryAssessmentSteps ==
    ASSUME [Next]_assessmentVars
    PROVE  /\ [NextProjectEsg]_esgVars /\ [NextCompanyEsg]_scoreVars /\ [NextCarbon]_carbonVars
           /\ [NextCredit]_creditVars /\ [NextActionPlan]_planVars /\ [NextMigrations]_schemaVars
<1>1. CASE UNCHANGED assessmentVars
    BY <1>1 DEF assessmentVars
<1>2. CASE Next
    BY <1>2 DEF Next, Moves, Stays
<1> QED
    BY <1>1, <1>2

\* Every behaviour of the composition is one of each module, so that all that is
\* proved of the assessments, the scores and the plans holds in it.
THEOREM AssessmentsImplementTheirParts ==
    Spec => /\ SpecProjectEsg /\ SpecCompanyEsg /\ SpecCarbon
            /\ SpecCredit /\ SpecActionPlan /\ SpecMigrations
<1>1. Init => /\ InitProjectEsg /\ InitCompanyEsg /\ InitCarbon
              /\ InitCredit /\ InitActionPlan /\ InitMigrations
    BY DEF Init
<1> QED
    BY <1>1, EveryAssessmentSteps, PTL DEF Spec, SpecProjectEsg, SpecCompanyEsg, SpecCarbon, SpecCredit,
       SpecActionPlan, SpecMigrations

\* Every variable of every module stays in its type, in every behaviour of the
\* composition.
THEOREM AssessmentsTyped == Spec => []AssessmentsTypeOK
<1>1. EsgTypeOK /\ ScoreTypeOK /\ CarbonTypeOK /\ CreditTypeOK /\ PlanTypeOK /\ MigrationsTypeOK
        => AssessmentsTypeOK
    BY DEF AssessmentsTypeOK
<1>2. SpecActionPlan => []PlanTypeOK
    BY PlanTypes, PTL
<1> QED
    BY <1>1, <1>2, AssessmentsImplementTheirParts, ProjectEsgTyped, CompanyScoresTyped, CarbonTyped,
       CreditTyped, MigrationsTyped, PTL

=============================================================================
