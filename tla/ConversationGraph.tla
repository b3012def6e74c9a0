-------------------------- MODULE ConversationGraph --------------------------
(***************************************************************************)
(* The LangGraph graph behind one conversation                             *)
(* (backend/app/graph/graph.py, nodes.py and tool_selector.py): a router   *)
(* chooses a node for the message, the node asks the model, its tool calls *)
(* go to the ToolNode of the node and come back to it.                     *)
(*                                                                         *)
(* Of a turn only active_module outlives it, in the checkpoint: the caller *)
(* (backend/app/api/chat.py) starts every turn with tool_call_count = 0    *)
(* and no assessment.  A tool is known by its family, the list of          *)
(* backend/app/graph/tools it is in.  What the detectors of the router     *)
(* find in the text is an input, any set of modules.                       *)
(***************************************************************************)
EXTENDS Naturals

CONSTANT
    RecursionLimit  \* super-steps that LangGraph runs for one turn

ASSUME RecursionAssumption == RecursionLimit \in Nat \ {0}

VARIABLES
    activeModule,  \* active_module of the checkpoint
    carbonBilan,   \* the carbon assessment a carbon turn would find
    graphTurn      \* the turn in progress

graphVars == <<activeModule, carbonBilan, graphTurn>>

MaxToolCallsPerTurn == 5

Modules == {"esg_scoring", "carbon", "financing", "application", "credit", "action_plan"}
Nodes == Modules \cup {"chat", "document"}

\* An ESG question answered within ten minutes counts as a request for the
\* evaluation, see HasWidgetSignal.
Requests == Modules \cup {"widget"}

Families ==
    Modules \cup {"profile", "reading", "documents", "interactive", "tour", "sourcing",
                  "projects", "project_esg", "visual", "reports", "dossier_status",
                  "dossier_discovery", "create_dossier", "simulation", "memory", "resources"}

NoTurn == [at |-> "idle"]

GraphTypeOK ==
    /\ activeModule \in Modules \cup {"none", "project_esg_scoring"}
    /\ carbonBilan \in {"none", "in_progress", "completed"}
    /\ graphTurn \in
         [at : Nodes, asked : SUBSET Requests, page : {"project", "other"},
          carbon : {"none", "in_progress", "completed"}, calls : SUBSET Families,
          count : 0 .. MaxToolCallsPerTurn - 1, steps : 0 .. RecursionLimit, rounds : 0 .. RecursionLimit]
         \cup {NoTurn}

InitGraph ==
    /\ activeModule = "none"
    /\ carbonBilan = "none"
    /\ graphTurn = NoTurn

-----------------------------------------------------------------------------
(* The router *)

\* Mutation of Forgets: the guard of the other modules is missing.
ForgetsForEsg(asked) ==
    /\ activeModule # "none"
    /\ activeModule # "esg_scoring" /\ "esg_scoring" \in asked

\* A request for another module than the active one is not left to the model:
\* the active module is forgotten.
Forgets(asked) ==
    /\ activeModule # "none"
    /\ (asked \cap Modules) \ {activeModule} # {}

\* The flags of a new classification.  No assessment is in the state of a turn
\* that starts, so that has_active_esg and has_active_carbon are false.  A
\* request for credit hides those for ESG and for financing, which its words
\* trigger too; the answered ESG question only counts as the message itself.
Flags(asked) ==
    {m \in asked \cap Modules : m \in {"esg_scoring", "financing"} => "credit" \notin asked}
    \cup {m \in {"esg_scoring"} : "widget" \in asked /\ "credit" \notin asked}

\* _route_after_router
Priority == <<"action_plan", "esg_scoring", "carbon", "financing", "application", "credit">>

RouteAfterRouter(flags, document) ==
    IF flags = {} THEN IF document THEN "document" ELSE "chat"
    ELSE LET first == CHOOSE i \in 1 .. 6 : /\ Priority[i] \in flags
                                            /\ \A j \in 1 .. i - 1 : Priority[j] \notin flags
         IN  Priority[first]

\* Otherwise _is_topic_continuation asks the model whether the message continues
\* the active module, and a failure means that it does.  A continuation sets the
\* flag of the active module, which project_esg_scoring does not have.
RouterNode(asked, document, page, continues) ==
    LET stays == activeModule # "none" /\ ~Forgets(asked) /\ continues
        flags == IF stays THEN {activeModule} \cap Modules ELSE Flags(asked)
    IN  /\ graphTurn = NoTurn
        /\ activeModule' = IF stays THEN activeModule ELSE "none"
        /\ graphTurn' = [at |-> RouteAfterRouter(flags, document), asked |-> asked,
                         page |-> page, carbon |-> "none", calls |-> {}, count |-> 0,
                         steps |-> 1, rounds |-> 0]
        /\ UNCHANGED carbonBilan

-----------------------------------------------------------------------------
(* Tools: the families a node offers to the model, and those its ToolNode has *)

Widgets == {"interactive", "tour"}

\* select_tools_for_node keeps a tool of every family of the catalogue of a
\* node, because MODULE_TOOL_MAPPING or GLOBAL_WHITELIST names one.
Offered(node, page) ==
    CASE node = "chat" ->
            Widgets \cup {"profile", "reading", "documents", "sourcing", "projects", "project_esg",
                          "visual", "dossier_status", "reports"}
      [] node = "esg_scoring" /\ page = "project" ->
            Widgets \cup {"project_esg", "sourcing", "visual"}
      [] node = "financing" ->
            Widgets \cup {"financing", "create_dossier", "dossier_discovery", "documents",
                          "sourcing", "visual", "simulation"}
      [] node = "application" ->
            {"application", "documents", "interactive", "sourcing", "visual", "simulation"}
      [] OTHER -> Widgets \cup {node, "sourcing", "visual"}

\* build_graph
InToolNode(node) ==
    CASE node = "chat" ->
            Widgets \cup {"profile", "reading", "documents", "memory", "projects", "project_esg",
                          "resources", "reports", "dossier_status"}
      [] node = "financing" ->
            Widgets \cup {"financing", "dossier_discovery", "documents", "memory", "resources"}
      [] node = "application" -> {"application", "documents", "interactive", "memory", "resources"}
      [] OTHER -> Widgets \cup {node, "memory", "resources"}

-----------------------------------------------------------------------------
(* The nodes *)

Ready(node) ==
    /\ graphTurn.at = node
    /\ graphTurn.calls = {}
    /\ graphTurn.steps < RecursionLimit

\* Mutation of LimitReached: one call more.
LimitPassed(count) == count > MaxToolCallsPerTurn

LimitReached(count) == count >= MaxToolCallsPerTurn

\* The model answers with calls of tools that were offered, or with a text, and
\* _should_continue_tool_loop ends the turn or goes on to the ToolNode.
ModelAnswers(offered, count, active, carbon) ==
    /\ activeModule' = active
    /\ UNCHANGED carbonBilan
    /\ \E calls \in {{}} \cup {{f} : f \in offered} :
        LET n == IF calls = {} THEN graphTurn.count ELSE count IN
        graphTurn' =
            IF calls = {} \/ LimitReached(n) THEN NoTurn
            ELSE [graphTurn EXCEPT !.calls = calls, !.count = n, !.steps = @ + 1,
                                   !.asked = {}, !.carbon = carbon]

\* document_node only writes the summary of the document.
DocumentNode ==
    /\ Ready("document")
    /\ graphTurn' = [graphTurn EXCEPT !.at = "chat", !.steps = @ + 1]
    /\ UNCHANGED <<activeModule, carbonBilan>>

ChatNode ==
    /\ Ready("chat")
    /\ ModelAnswers(Offered("chat", graphTurn.page), graphTurn.count, activeModule, graphTurn.carbon)

\* _route_esg_target
ScoreProject ==
    /\ Ready("esg_scoring") /\ graphTurn.page = "project"
    /\ ModelAnswers(Offered("esg_scoring", "project"), graphTurn.count + 1, "project_esg_scoring",
               graphTurn.carbon)

\* A completed assessment is replaced by one to resume or by a new one before
\* the module is set, so that the module always stays active.
EsgScoringNode ==
    /\ Ready("esg_scoring") /\ graphTurn.page # "project"
    /\ ModelAnswers(Offered("esg_scoring", "other"), graphTurn.count + 1, "esg_scoring", graphTurn.carbon)

\* The assessment is read at the first pass, and again while it is completed.
CarbonNode ==
    LET found == IF graphTurn.carbon = "in_progress" \/ carbonBilan = "none" THEN "in_progress" ELSE carbonBilan
    IN  /\ Ready("carbon")
        /\ ModelAnswers(Offered("carbon", graphTurn.page), graphTurn.count,
                   IF found = "completed" THEN "none" ELSE "carbon", found)

FinancingNode ==
    /\ Ready("financing")
    /\ ModelAnswers(Offered("financing", graphTurn.page), graphTurn.count, "financing", graphTurn.carbon)

ApplicationNode ==
    /\ Ready("application")
    /\ ModelAnswers(Offered("application", graphTurn.page), graphTurn.count, "application", graphTurn.carbon)

CreditNode ==
    /\ Ready("credit")
    /\ ModelAnswers(Offered("credit", graphTurn.page), graphTurn.count, "credit", graphTurn.carbon)

ActionPlanNode ==
    /\ Ready("action_plan")
    /\ ModelAnswers(Offered("action_plan", graphTurn.page), graphTurn.count, "action_plan", graphTurn.carbon)

\* The ToolNode runs the calls it has, and answers the other ones with an error
\* message.  The tools of the carbon node create and finalise the assessment.
ToolNode ==
    /\ graphTurn # NoTurn
    /\ graphTurn.calls # {} /\ graphTurn.steps < RecursionLimit
    /\ graphTurn' = [graphTurn EXCEPT !.calls = {}, !.steps = @ + 1, !.rounds = @ + 1]
    /\ IF "carbon" \in graphTurn.calls \cap InToolNode(graphTurn.at)
       THEN carbonBilan' \in {carbonBilan, "in_progress", "completed"}
       ELSE UNCHANGED carbonBilan
    /\ UNCHANGED activeModule

\* The model or a query fails, the reader goes away, or the super-steps are
\* used up (GraphRecursionError): what was checkpointed stays.
TurnFails ==
    /\ graphTurn # NoTurn
    /\ graphTurn' = NoTurn
    /\ UNCHANGED <<activeModule, carbonBilan>>

NextGraph ==
    \/ \E asked \in SUBSET Requests, document, continues \in BOOLEAN, page \in {"project", "other"} :
        RouterNode(asked, document, page, continues)
    \/ DocumentNode \/ ChatNode \/ ScoreProject \/ EsgScoringNode \/ CarbonNode
    \/ FinancingNode \/ ApplicationNode \/ CreditNode \/ ActionPlanNode
    \/ ToolNode \/ TurnFails

SpecGraph == InitGraph /\ [][NextGraph]_graphVars

-----------------------------------------------------------------------------
(* Properties *)

\* Neither the module in progress nor the classifier captures an explicit
\* request: the message reaches a node that was asked for.
RequestIsServed ==
    graphTurn # NoTurn /\ graphTurn.asked \cap Modules # {}
    => \/ graphTurn.at \in graphTurn.asked
       \/ graphTurn.at = "esg_scoring" /\ "widget" \in graphTurn.asked

\* The promise of create_tool_loop and of FR-020: at most five rounds of tools.
FiveToolRounds == graphTurn # NoTurn => graphTurn.rounds <= MaxToolCallsPerTurn
=============================================================================
