------------------------------- MODULE Carbon -------------------------------
(***************************************************************************)
(* The carbon assessments of one user, their entries and their reports     *)
(* (backend/app/modules/carbon, backend/app/modules/reports/carbon and     *)
(* backend/app/graph/tools/carbon_tools.py).                               *)
(*                                                                         *)
(* A request reads and decides when it starts and writes when it commits.  *)
(* A report is a row that is committed as generating, and a task of the    *)
(* process that renders it in a session of its own; the process may die,   *)
(* and nothing takes its tasks up again.                                   *)
(***************************************************************************)
EXTENDS Naturals, FiniteSets

CONSTANTS
    Years,           \* a user has one assessment per year
    CarbonReports,   \* identifiers for the rows of reports
    CarbonRequests,  \* slots for the requests in flight
    MaxEntries       \* bound of the model: the entries of one assessment

ASSUME MaxEntriesAssumption == MaxEntries \in Nat
ASSUME CarbonRequestsAssumption == IsFiniteSet(CarbonRequests)

VARIABLES
    carbonOverlap,  \* whether requests may overlap; it never changes
    bilan,          \* carbon_assessments and the number of their entries
    carbonReport,   \* reports, of type carbon
    rendering,      \* the reports whose task has not ended
    carbonReq       \* the requests in flight

carbonVars == <<carbonOverlap, bilan, carbonReport, rendering, carbonReq>>

\* Every entry emits one unit, so that the total of an assessment is the number
\* of its entries when nothing was lost.
Amounts == 0..(MaxEntries + Cardinality(CarbonRequests))

NoBilan == [st |-> "absent", entries |-> 0, total |-> 0]
NoCarbonReport == [st |-> "absent"]
NoCarbonRequest == [op |-> "none"]

CarbonTypeOK ==
    /\ carbonOverlap \in BOOLEAN
    /\ bilan \in [Years -> [st : {"in_progress", "completed"},
                            entries : Amounts, total : Amounts] \cup {NoBilan}]
    /\ carbonReport \in [CarbonReports ->
            [st : {"generating", "completed", "failed"}, on : Years, shows : Amounts]
            \cup {NoCarbonReport}]
    /\ rendering \subseteq CarbonReports
    /\ carbonReq \in [CarbonRequests ->
            [op : {"open", "report"}, on : Years]
            \cup [op : {"add", "close"}, on : Years, total : Amounts]
            \cup {NoCarbonRequest}]

InitCarbon ==
    /\ carbonOverlap \in BOOLEAN
    /\ bilan = [y \in Years |-> NoBilan]
    /\ carbonReport = [p \in CarbonReports |-> NoCarbonReport]
    /\ rendering = {}
    /\ carbonReq = [r \in CarbonRequests |-> NoCarbonRequest]

BeginCarbon(r, what) ==
    /\ carbonReq[r] = NoCarbonRequest
    /\ carbonOverlap \/ \A q \in CarbonRequests : carbonReq[q] = NoCarbonRequest
    /\ carbonReq' = [carbonReq EXCEPT ![r] = what]
    /\ UNCHANGED <<carbonOverlap, bilan, carbonReport, rendering>>

EndCarbon(r, op) ==
    /\ carbonReq[r].op = op
    /\ carbonReq' = [carbonReq EXCEPT ![r] = NoCarbonRequest]
    /\ UNCHANGED carbonOverlap

-----------------------------------------------------------------------------
(* Assessments and entries *)

\* create_assessment, from the REST endpoint or the tool.
StartBilan(r, y) ==
    /\ bilan[y] = NoBilan
    /\ BeginCarbon(r, [op |-> "open", on |-> y])

\* The user and the year are unique: the later of two insertions fails.
FinishBilan(r) ==
    LET y == carbonReq[r].on IN
    /\ EndCarbon(r, "open")
    /\ bilan' = IF bilan[y] = NoBilan THEN [bilan EXCEPT ![y].st = "in_progress"] ELSE bilan
    /\ UNCHANGED <<carbonReport, rendering>>

\* Mutation of MayAddEntry: a completed assessment takes entries.
MayAddAnyEntry(y) == bilan[y] # NoBilan

\* add_entries refuses a completed assessment.
MayAddEntry(y) == bilan[y].st = "in_progress"

\* The total is the sum of the committed entries and of the request's own.
StartEntry(r, y) ==
    /\ MayAddEntry(y)
    /\ bilan[y].entries < MaxEntries
    /\ BeginCarbon(r, [op |-> "add", on |-> y, total |-> bilan[y].entries + 1])

FinishEntry(r) ==
    LET y == carbonReq[r].on IN
    /\ EndCarbon(r, "add")
    /\ bilan' = [bilan EXCEPT ![y].entries = @ + 1, ![y].total = carbonReq[r].total]
    /\ UNCHANGED <<carbonReport, rendering>>

\* finalize_carbon_assessment: complete_assessment sums the entries again.
StartClose(r, y) ==
    /\ bilan[y].st = "in_progress"
    /\ BeginCarbon(r, [op |-> "close", on |-> y, total |-> bilan[y].entries])

FinishClose(r) ==
    LET y == carbonReq[r].on IN
    /\ EndCarbon(r, "close")
    /\ bilan' = [bilan EXCEPT ![y].st = "completed", ![y].total = carbonReq[r].total]
    /\ UNCHANGED <<carbonReport, rendering>>

-----------------------------------------------------------------------------
(* Reports *)

Generating(y) ==
    {p \in CarbonReports : carbonReport[p].st = "generating" /\ carbonReport[p].on = y}

\* _load_assessment and _check_no_concurrent_generation.
StartCarbonReport(r, y) ==
    /\ bilan[y].st = "completed"
    /\ Generating(y) = {}
    /\ BeginCarbon(r, [op |-> "report", on |-> y])

\* The row is committed, then the task is created; uq_one_generating_per_assessment
\* makes the later of two insertions fail.
FinishCarbonReport(r) ==
    LET y == carbonReq[r].on IN
    /\ EndCarbon(r, "report")
    /\ \/ /\ Generating(y) = {}
          /\ \E p \in CarbonReports :
                /\ carbonReport[p] = NoCarbonReport
                /\ carbonReport' = [carbonReport EXCEPT ![p] =
                                        [st |-> "generating", on |-> y, shows |-> 0]]
                /\ rendering' = rendering \cup {p}
       \/ /\ Generating(y) # {} \/ \A p \in CarbonReports : carbonReport[p] # NoCarbonReport
          /\ UNCHANGED <<carbonReport, rendering>>
    /\ UNCHANGED bilan

\* _render_pdf_async shows the total it reads, or fails.
Render(p, done) ==
    /\ p \in rendering
    /\ rendering' = rendering \ {p}
    /\ carbonReport' =
          [carbonReport EXCEPT ![p].st = IF done THEN "completed" ELSE "failed",
                               ![p].shows = IF done THEN bilan[carbonReport[p].on].total ELSE 0]
    /\ UNCHANGED <<carbonOverlap, bilan, carbonReq>>

\* The process is restarted: requests are rolled back, tasks are lost.
CarbonCrash ==
    /\ carbonReq' = [r \in CarbonRequests |-> NoCarbonRequest]
    /\ rendering' = {}
    /\ UNCHANGED <<carbonOverlap, bilan, carbonReport>>

NextCarbon ==
    \/ \E r \in CarbonRequests :
        \/ \E y \in Years : \/ StartBilan(r, y) \/ StartEntry(r, y) \/ StartClose(r, y)
                            \/ StartCarbonReport(r, y)
        \/ FinishBilan(r) \/ FinishEntry(r) \/ FinishClose(r) \/ FinishCarbonReport(r)
    \/ \E p \in CarbonReports, done \in BOOLEAN : Render(p, done)
    \/ CarbonCrash

SpecCarbon == InitCarbon /\ [][NextCarbon]_carbonVars

-----------------------------------------------------------------------------
(* Properties *)

\* A completed assessment and each of its completed reports give the sum of the
\* entries, whatever was interrupted by a crash, when requests do not overlap.
\* Otherwise the total of the request that commits last counts, and an entry
\* may land in an assessment that was completed meanwhile.
ReportsShowTheEntries ==
    ~ carbonOverlap =>
        /\ \A y \in Years : bilan[y].total = bilan[y].entries
        /\ \A p \in CarbonReports : carbonReport[p].st = "completed" =>
              carbonReport[p].shows = bilan[carbonReport[p].on].entries
=============================================================================
