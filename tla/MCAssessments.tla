---------------------------- MODULE MCAssessments ----------------------------
(***************************************************************************)
(* The assessments of a company and of its projects, the scores and the    *)
(* plan that are drawn from them, and the schema below them, for TLC. As   *)
(* in MCServices, every behaviour moves one part; they share no state.     *)
(* Before it starts, TLC evaluates what SchemaBounds says of the revisions. *)
(***************************************************************************)
EXTENDS ProjectEsg, CompanyEsg, Carbon, CreditScores, ActionPlan, SchemaBounds

VARIABLE part  \* the service that moves; it never changes

assessmentVars == <<part, esgVars, scoreVars, carbonVars, creditVars, planVars, schemaVars>>

Init ==
    /\ part \in {"project", "company", "carbon", "credit", "plan", "schema"}
    /\ InitProjectEsg /\ (part # "project" => ~ esgOverlap)
    /\ InitCompanyEsg /\ (part # "company" => ~ scoreOverlap)
    /\ InitCarbon /\ (part # "carbon" => ~ carbonOverlap)
    /\ InitCredit /\ (part # "credit" => ~ creditOverlap)
    /\ InitActionPlan /\ (part # "plan" => ~ planOverlap)
    /\ InitMigrations /\ (part # "schema" => db.heads = {})

Stays(name, vars) == IF part = name THEN TRUE ELSE UNCHANGED vars

Moves(name, next) ==
    /\ part = name
    /\ next
    /\ UNCHANGED part
    /\ Stays("project", esgVars)
    /\ Stays("company", scoreVars)
    /\ Stays("carbon", carbonVars)
    /\ Stays("credit", creditVars)
    /\ Stays("plan", planVars)
    /\ Stays("schema", schemaVars)

Next ==
    \/ Moves("project", NextProjectEsg)
    \/ Moves("company", NextCompanyEsg)
    \/ Moves("carbon", NextCarbon)
    \/ Moves("credit", NextCredit)
    \/ Moves("plan", NextActionPlan)
    \/ Moves("schema", NextMigrations)

Spec == Init /\ [][Next]_assessmentVars

\* Every variable of every service stays in its type.
AssessmentsTypeOK == EsgTypeOK /\ ScoreTypeOK /\ CarbonTypeOK /\ CreditTypeOK /\ PlanTypeOK /\ MigrationsTypeOK

\* The services share the model values of their requests and of their rows.
Interchangeable ==
    Permutations(EsgRequests) \cup Permutations(Assessments) \cup Permutations(Referentials)
===============================================================================
