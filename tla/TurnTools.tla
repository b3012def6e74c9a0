------------------------------ MODULE TurnTools ------------------------------
(***************************************************************************)
(* The transaction of a turn and the tools that share it.  A turn of the   *)
(* conversation opens one session (api/chat.py, generate_sse); the calls   *)
(* of one answer of the model run together on it (ToolNode), and so do     *)
(* those of the rounds that follow; what they wrote is committed with the  *)
(* answer of the assistant, or by a call that commits itself.  A statement *)
(* that fails leaves the session broken: it refuses everything, the commit *)
(* included, until a rollback.                                             *)
(*                                                                         *)
(* A tool is what it does to that session: the scripts its code may        *)
(* follow, whether it catches its exceptions itself, and whether           *)
(* with_retry is around it.  Operations of a script, where a run of        *)
(* statements of one kind is one operation:                                *)
(*   read      queries                                                     *)
(*   check     queries or tests that may settle the answer: not found,     *)
(*             not allowed, not valid                                      *)
(*   answer    an answer that settles the call without doing anything      *)
(*   look      statements whose failure is swallowed                       *)
(*   ask       the model, a file, a session of its own: none of the turn's *)
(*   write     rows, then a flush                                          *)
(*   try       a write whose failure is swallowed                          *)
(*   insert    a write whose conflict rolls the session back               *)
(*   commit    the session is committed                                    *)
(***************************************************************************)
EXTENDS Naturals, Sequences, FiniteSets

CONSTANT Calls  \* the tool calls of a turn

-----------------------------------------------------------------------------
(* Scripts *)

Then(A, B) == {a \o b : a \in A, b \in B}
Maybe(A) == A \cup {<<>>}

Query == {<<"read">>}
Lookup == {<<"check">>}
Update == {<<"check", "write">>}

\* A tool whose body is in a try: its exceptions become an answer.
Guarded(scripts) == [scripts |-> scripts, catches |-> TRUE, retried |-> FALSE]

\* The same below with_retry, which sees an answer and never an exception.
GuardedRetried(scripts) == [scripts |-> scripts, catches |-> TRUE, retried |-> TRUE]

\* A tool that lets its exceptions through, to ToolNode, which answers with them.
Bare(scripts) == [scripts |-> scripts, catches |-> FALSE, retried |-> FALSE]

\* requires_destructive_confirmation, unless confirm is given.
requires_destructive_confirmation == {<<"answer">>}

-----------------------------------------------------------------------------
(* The company, its dashboard, its documents *)

GetProfile == Query
GetOrCreateProfile == {<<"read">>, <<"read", "write">>}
UpdateProfile == Maybe({<<"write">>})

\* A profile is created on the way, even when nothing of it changes then.
update_company_profile ==
    GuardedRetried({<<"answer">>} \cup
                   Then(GetOrCreateProfile, UpdateProfile \cup {<<"answer">>}))
get_company_profile == Guarded(Lookup)

EsgSummary == Query
CarbonSummary == Query
CreditSummary == Query
FinancingSummary == Query
NextActions == Query
RecentActivity == {<<"look">>}
ScoreSources == {<<"look">>, <<"look", "read">>}
DashboardSummary == Then(Query, Then(RecentActivity, Then(Query, Maybe(ScoreSources))))

get_user_dashboard_summary == Guarded(DashboardSummary)
get_company_profile_chat == Guarded(Lookup)
get_esg_assessment_chat == Guarded(Lookup)
get_carbon_summary_chat == Guarded(Lookup)

\* The status of the document is flushed before and after the analysis, and in the
\* handlers of its failures, which raise again.
AnalyzeDocument ==
    {<<"write", "ask", "write", "try">>, <<"write", "ask", "write", "answer">>}
analyze_uploaded_document == Guarded(Then(Lookup, AnalyzeDocument))
get_document_analysis == Guarded(Lookup)
list_user_documents == Guarded(Lookup)

-----------------------------------------------------------------------------
(* Projects and financing *)

\* The account of the configuration, or the one of the user.
ToolAccount == {<<>>, <<"check">>}

ListProjects == Query
GetProject == Lookup
CreateProject == {<<"write">>}
UpdateProject == Update
SoftDeleteProject == Update
DuplicateProject == Update
LinkDocument == {<<"check", "insert">>}

list_projects == Guarded(Then(ToolAccount, ListProjects))
get_project == Guarded(Then(ToolAccount, GetProject))
create_project == Guarded(Then(ToolAccount, CreateProject))
update_project == GuardedRetried(Then(ToolAccount, UpdateProject))
delete_project ==
    GuardedRetried(requires_destructive_confirmation \cup Then(ToolAccount, SoftDeleteProject))
duplicate_project == Guarded(Then(ToolAccount, DuplicateProject))
link_document_to_project == Guarded(Then(ToolAccount, LinkDocument))

\* The match of one offer: the scores of the enterprise, of the project, the row.
ComputeOfferMatch == {<<"check", "try", "write">>}
ProjectEsgSubscore == {<<"look">>}
ComputeOfferMatchV045 == {<<"try">>}  \* its exceptions are caught per offer
MatchFunds == {<<"check">>, <<"check", "look", "try">>, <<"check", "look", "try", "write">>}
match_funds_for_project == Guarded(Then(ToolAccount, Then(MatchFunds, {<<"commit">>})))

ListMatches == Query
MatchDetails == Lookup
CompareOffers == {<<"check">>} \cup Then({<<"check">>}, ComputeOfferMatch)
RecomputeMatches == Lookup
ExecuteBatch == {<<"read", "try", "commit">>}

list_matches_for_project == Guarded(Then(ToolAccount, ListMatches))
compare_offers_for_fund_v2 == Guarded(Then(ToolAccount, Then(CompareOffers, {<<"commit">>})))
recompute_matches_for_project ==
    Guarded(Then(ToolAccount, Then(RecomputeMatches, ExecuteBatch)))
get_match_details == Guarded(Then(ToolAccount, MatchDetails))

\* The list of matches is written, while it is read.
GetFundMatches == {<<"read", "write">>}
UpdateMatchStatus == Update
FundById == Lookup
ListOffers == Query
GetOffer == Lookup
CompareOffersForFund == Query

search_compatible_funds == Guarded(Then(GetProfile, GetFundMatches))
save_fund_interest == Guarded(Then(Lookup, UpdateMatchStatus))
get_fund_details == Guarded(Then(FundById, Query))
list_offers == Guarded(Then(ListOffers, {<<"check">>}))
get_offer == Guarded(GetOffer)
compare_offers_for_fund == Guarded(Then(CompareOffersForFund, {<<"check">>}))

\* A session of its own, and only some of its exceptions are caught.
SimulateMulti == {<<"ask">>}
compare_simulations == Bare(SimulateMulti)

-----------------------------------------------------------------------------
(* Dossiers *)

SimulateFinancing == Lookup
ExportApplication == {<<"ask", "write">>}
EsgGating == {<<"check">>}

create_fund_application == GuardedRetried(Update)
generate_application_section ==
    Guarded(Then(Lookup, Then(GetOrCreateProfile, {<<"look", "ask", "write">>})))
update_application_section == Guarded(Update)
get_application_checklist == Guarded(Lookup)
simulate_financing == Guarded(Then(Lookup, SimulateFinancing))
export_application == Guarded(Then(Lookup, Then(EsgGating, ExportApplication)))
list_applications == Guarded(Lookup)
provide_checklist_document == Guarded(Update)
detach_checklist_document == Guarded(Update)

ListTemplates == Query
EffectiveTemplate == Lookup
list_templates == Guarded(ListTemplates)
get_effective_template == Guarded(EffectiveTemplate)

-----------------------------------------------------------------------------
(* Assessments *)

\* Referentials one by one, the failure of each swallowed.
AllReferentialScores == {<<"check">>, <<"check", "try">>, <<"check", "try", "write">>}

create_esg_assessment == Guarded({<<"write">>})
save_esg_criterion_score == Guarded(Update)
batch_save_esg_criteria == GuardedRetried(Update)
finalize_esg_assessment == GuardedRetried(Update)
finalize_esg_assessment_multi_ref == Guarded(Then({<<"check", "write">>}, AllReferentialScores))
get_esg_assessment == Guarded(Lookup)
recompute_score == Guarded(Update)
compare_referentials == Guarded(Lookup)

\* The row is flushed as generating, and again by the handler of its failure.
GenerateReport == {<<"check", "write", "look", "ask", "write">>,
                   <<"check", "write", "look", "ask", "write", "answer">>}
generate_esg_report == Guarded(Then(Lookup, GenerateReport))

\* The response and the refusal of its duplicate are one flush, without a rollback.
create_project_esg_assessment == Guarded(Then(ToolAccount, {<<"check", "write", "read">>}))
save_project_esg_criterion == Guarded(Then(ToolAccount, Update))
finalize_project_esg_assessment == Guarded(Then(ToolAccount, Update))
get_project_esg_assessment == Guarded(Then(ToolAccount, Lookup))
list_project_esg_assessments == Guarded(Then(ToolAccount, Lookup))
generate_project_esg_report == Guarded(Then(ToolAccount, {<<"check", "ask">>}))

FactorNotFound == {<<"look", "answer">>}
create_carbon_assessment == Guarded({<<"look", "check", "write">>})
save_emission_entry ==
    Guarded(Then({<<"check", "look">>}, {<<"read", "write", "read">>} \cup FactorNotFound))
finalize_carbon_assessment == GuardedRetried({<<"check", "read", "write">>})
get_carbon_summary == Guarded(Lookup)
generate_carbon_report == Guarded({<<"check", "write", "commit">>})

-----------------------------------------------------------------------------
(* Credit and plan *)

CollectDataPoints == {<<"look">>}
\* Mutation of generate_credit_score: with_retry sees the exceptions of the tool.
generate_credit_score_retried ==
    [scripts |-> {<<"check", "look", "read", "write", "commit">>},
     catches |-> FALSE, retried |-> TRUE]

generate_credit_score ==
    GuardedRetried(Then({<<"check">>}, Then(CollectDataPoints, {<<"read", "write", "commit">>})))
get_credit_score == Guarded(Lookup)
generate_credit_certificate ==
    GuardedRetried({<<"check", "read", "ask", "write", "commit", "read">>})

Consented == Lookup
get_credit_methodology == Guarded(Lookup)
get_mobile_money_kpis == Guarded(Then(Consented, Lookup))
list_public_data_sources == Guarded(Then(Consented, Lookup))

\* The plan of before is archived in a transaction of its own.
generate_action_plan ==
    GuardedRetried({<<"check", "ask", "answer">>,
                    <<"check", "ask", "write", "commit", "check", "write", "commit", "read">>})
update_action_item == GuardedRetried({<<"answer">>, <<"check", "write", "commit", "read", "try">>})
get_action_plan == Guarded(Lookup)

-----------------------------------------------------------------------------
(* Sources, resources, memory, visualisations, tours, questions *)

cite_source == Bare(Lookup)
search_source == Bare(Lookup)
flag_unsourced == Bare({<<"answer">>, <<"write">>})

search_resources == Bare({<<"answer">>} \cup Query)
get_resource_content == Bare(Lookup)
recommend_resources_for_user == Bare({<<"answer">>} \cup Query)

\* The session of search_history is its own unless one is given: none is.
SearchHistory == {<<"ask">>}
recall_history == Bare({<<"answer">>} \cup SearchHistory)

show_kpi_card == Bare({<<>>})
show_match_card == Bare({<<>>})
show_map == Bare({<<>>})
show_comparison_table == Bare({<<>>})

trigger_guided_tour == Bare({<<"answer">>, <<"look">>})

\* The questions that are pending expire and the new one is written; the log entry
\* is the tool's own, and its failure is swallowed.
PersistQuestion == {<<"write", "look">>}
WidgetContext == {<<>>, <<"look">>, <<"answer">>, <<"look", "answer">>}
ask_interactive_question == Guarded(Then(WidgetContext, PersistQuestion))
ask_yes_no == Guarded(Then(WidgetContext, PersistQuestion))
ask_select == Guarded(Then(WidgetContext, PersistQuestion))
ask_number == Guarded(Then(WidgetContext, PersistQuestion))
ask_date == Guarded(Then(WidgetContext, PersistQuestion))
ask_date_range == Guarded(Then(WidgetContext, PersistQuestion))
ask_rating == Guarded(Then(WidgetContext, PersistQuestion))
ask_file_upload == Guarded(Then(WidgetContext, PersistQuestion))
show_form == Guarded(Then(WidgetContext, PersistQuestion))
show_summary_card == Guarded(Then(WidgetContext, PersistQuestion))

-----------------------------------------------------------------------------
(* The lists of the modules.  Some are in no ToolNode (matching, templates, *)
(* alternative credit, sources, simulations, visualisations, the scores of  *)
(* several referentials): nothing but the graph keeps them out of a turn.   *)

PROFILING_TOOLS == {update_company_profile, get_company_profile}
CHAT_TOOLS == {get_user_dashboard_summary, get_company_profile_chat,
               get_esg_assessment_chat, get_carbon_summary_chat}
DOCUMENT_TOOLS == {analyze_uploaded_document, get_document_analysis, list_user_documents}
PROJECT_TOOLS == {list_projects, get_project, create_project, update_project, delete_project,
                  duplicate_project, link_document_to_project, match_funds_for_project}
MATCHING_TOOLS == {list_matches_for_project, compare_offers_for_fund_v2,
                   recompute_matches_for_project, get_match_details}
FINANCING_TOOLS == {search_compatible_funds, save_fund_interest, get_fund_details,
                    list_offers, get_offer, compare_offers_for_fund}
APPLICATION_TOOLS == {generate_application_section, update_application_section,
                      get_application_checklist, simulate_financing, export_application,
                      list_applications, provide_checklist_document,
                      detach_checklist_document, create_fund_application}
TEMPLATE_TOOLS == {list_templates, get_effective_template}
ESG_TOOLS == {create_esg_assessment, save_esg_criterion_score, batch_save_esg_criteria,
              finalize_esg_assessment, get_esg_assessment, generate_esg_report}
MultiReferentialTools == {finalize_esg_assessment_multi_ref, recompute_score,
                          compare_referentials}
PROJECT_ESG_TOOLS == {create_project_esg_assessment, save_project_esg_criterion,
                      finalize_project_esg_assessment, get_project_esg_assessment,
                      list_project_esg_assessments, generate_project_esg_report}
CARBON_TOOLS == {create_carbon_assessment, save_emission_entry, finalize_carbon_assessment,
                 get_carbon_summary, generate_carbon_report}
CREDIT_TOOLS == {generate_credit_score, get_credit_score, generate_credit_certificate}
CREDIT_ALTERNATIVE_TOOLS == {get_credit_methodology, get_mobile_money_kpis,
                             list_public_data_sources}
ACTION_PLAN_TOOLS == {generate_action_plan, update_action_item, get_action_plan}
SOURCING_TOOLS == {cite_source, search_source, flag_unsourced}
RESOURCE_TOOLS == {search_resources, get_resource_content, recommend_resources_for_user}
MEMORY_TOOLS == {recall_history}
SIMULATION_TOOLS == {compare_simulations}
VISUALIZATION_TOOLS == {show_kpi_card, show_match_card, show_map, show_comparison_table}
GUIDED_TOUR_TOOLS == {trigger_guided_tour}
INTERACTIVE_TOOLS == {ask_interactive_question, ask_yes_no, ask_select, ask_number, ask_date,
                      ask_date_range, ask_rating, ask_file_upload, show_form,
                      show_summary_card}

Tools ==
    UNION {PROFILING_TOOLS, CHAT_TOOLS, DOCUMENT_TOOLS, PROJECT_TOOLS, MATCHING_TOOLS,
           FINANCING_TOOLS, APPLICATION_TOOLS, TEMPLATE_TOOLS, ESG_TOOLS,
           MultiReferentialTools, PROJECT_ESG_TOOLS, CARBON_TOOLS, CREDIT_TOOLS, CREDIT_ALTERNATIVE_TOOLS,
           ACTION_PLAN_TOOLS, SOURCING_TOOLS, RESOURCE_TOOLS, MEMORY_TOOLS,
           SIMULATION_TOOLS, VISUALIZATION_TOOLS, GUIDED_TOUR_TOOLS, INTERACTIVE_TOOLS}

-----------------------------------------------------------------------------
(* The turn *)

VARIABLES
    turn,      \* open; saved: the answer is committed; failed
    session,   \* ok, or broken by a statement that failed
    call,      \* the calls of the model
    flushed,      \* what calls wrote that is not committed, by call and attempt
    kept,      \* what they wrote that is
    undone     \* what the conflict of another call rolled back

turnVars == <<turn, session, call, flushed, kept, undone>>

Attempts == {0, 1}
NotCalled == [told |-> "none", left |-> <<>>, script |-> <<>>, catches |-> TRUE,
              retried |-> FALSE, attempt |-> 0, wrote |-> FALSE]

TurnTypeOK ==
    /\ turn \in {"open", "saved", "failed"} /\ session \in {"ok", "broken"}
    /\ \A c \in Calls : /\ call[c].told \in {"none", "running", "done", "no"}
                        /\ call[c].attempt \in Attempts
    /\ flushed \subseteq Calls \X Attempts /\ kept \subseteq Calls \X Attempts
    /\ undone \subseteq Calls \X Attempts

InitTurn ==
    /\ turn = "open" /\ session = "ok"
    /\ call = [c \in Calls |-> NotCalled]
    /\ flushed = {} /\ kept = {} /\ undone = {}

Running(c) == turn = "open" /\ call[c].told = "running"
At(c, ops) == call[c].left # <<>> /\ Head(call[c].left) \in ops
Advance(c) == call' = [call EXCEPT ![c].left = Tail(@)]
Settle(c, told) ==
    call' = [call EXCEPT ![c] = [NotCalled EXCEPT !.told = told, !.wrote = call[c].wrote]]

\* with_retry logs an answer: the failure of the log is swallowed.
AfterLog(c) == IF call[c].retried THEN {session, "broken"} ELSE {session}

\* The model calls a tool, in this round of the turn or beside other calls of it.
CallTool(c) ==
    /\ turn = "open" /\ call[c].told = "none"
    /\ \E t \in Tools : \E s \in t.scripts :
        call' = [call EXCEPT ![c] = [NotCalled EXCEPT !.told = "running", !.left = s,
            !.script = IF t.retried /\ ~ t.catches THEN s ELSE <<>>,
            !.catches = t.catches, !.retried = t.retried]]
    /\ UNCHANGED <<turn, session, flushed, kept, undone>>

Reads(c) ==
    /\ Running(c)
    /\ \/ At(c, {"read", "check", "look"}) /\ session = "ok"
       \/ At(c, {"ask"})
    /\ Advance(c)
    /\ UNCHANGED <<turn, session, flushed, kept, undone>>

Writes(c) ==
    /\ Running(c) /\ session = "ok"
    /\ At(c, {"write", "try", "insert"})
    /\ call' = [call EXCEPT ![c].left = Tail(@), ![c].wrote = TRUE]
    /\ flushed' = flushed \cup {<<c, call[c].attempt>>}
    /\ UNCHANGED <<turn, session, kept, undone>>

Commits(c) ==
    /\ Running(c) /\ session = "ok"
    /\ At(c, {"commit"})
    /\ kept' = kept \cup flushed /\ flushed' = {}
    /\ Advance(c)
    /\ UNCHANGED <<turn, session, undone>>

Swallows(c) ==
    /\ Running(c)
    /\ At(c, {"look", "try"})
    /\ session' \in {session, "broken"}
    /\ Advance(c)
    /\ UNCHANGED <<turn, flushed, kept, undone>>

\* Not found, not allowed, not valid.
Refuses(c) ==
    /\ Running(c)
    /\ \/ At(c, {"check"}) /\ session = "ok"
       \/ At(c, {"answer"})
    /\ Settle(c, "no")
    /\ session' \in AfterLog(c)
    /\ UNCHANGED <<turn, flushed, kept, undone>>

\* The document is linked already: the flush fails, and the session is rolled back
\* with all that the turn had not committed.
Conflicts(c) ==
    /\ Running(c) /\ session = "ok"
    /\ At(c, {"insert"})
    /\ undone' = undone \cup flushed /\ flushed' = {}
    /\ Settle(c, "no")
    /\ UNCHANGED <<turn, session, kept>>

\* Mutation of Raises: a handler of the tool rolls the session back.
RaisesAndRollsBack(c) ==
    /\ Running(c)
    /\ call' = [call EXCEPT ![c] = [NotCalled EXCEPT !.told = "no", !.wrote = call[c].wrote]]
    /\ session' = "ok" /\ flushed' = {}
    /\ UNCHANGED <<turn, kept, undone>>

\* An exception, of a statement or of anything else; two calls that use the session
\* at the same moment raise one.  A tool that catches answers with it; with_retry
\* runs the tool again, once, and never rolls anything back.
Raises(c) ==
    /\ Running(c)
    /\ ~ At(c, {"look", "try", "answer"})
    /\ IF call[c].retried /\ ~ call[c].catches /\ call[c].attempt = 0
       THEN call' = [call EXCEPT ![c].left = call[c].script, ![c].attempt = 1]
       ELSE Settle(c, "no")
    /\ session' \in {session, "broken"}
    /\ UNCHANGED <<turn, flushed, kept, undone>>

Returns(c) ==
    /\ Running(c) /\ call[c].left = <<>>
    /\ Settle(c, "done")
    /\ session' \in AfterLog(c)
    /\ UNCHANGED <<turn, flushed, kept, undone>>

\* The message of the assistant is flushed and everything is committed.
SaveTurn ==
    /\ turn = "open" /\ session = "ok"
    /\ \A c \in Calls : call[c].told # "running"
    /\ turn' = "saved"
    /\ kept' = kept \cup flushed /\ flushed' = {}
    /\ UNCHANGED <<session, call, undone>>

\* The model fails, the reader leaves, or the broken session refuses the message:
\* the session is closed without a commit.
FailTurn ==
    /\ turn = "open"
    /\ turn' = "failed"
    /\ flushed' = {}
    /\ UNCHANGED <<session, call, kept, undone>>

NextTurn ==
    \/ \E c \in Calls : \/ CallTool(c) \/ Reads(c) \/ Writes(c) \/ Commits(c) \/ Swallows(c)
                        \/ Refuses(c) \/ Conflicts(c) \/ Raises(c) \/ Returns(c)
    \/ SaveTurn \/ FailTurn

SpecTurn == InitTurn /\ [][NextTurn]_turnVars

-----------------------------------------------------------------------------
(* Properties *)

\* What the model was told is done is there when the turn is: in a turn whose answer
\* is saved, a call that wrote and answered that it had done so is committed, whatever
\* failed, was swallowed or answered no beside it; the one exception is the session
\* that link_document_to_project rolls back for a duplicate.
SuccessIsKept ==
    turn = "saved" =>
        \A c \in Calls : call[c].told = "done" /\ call[c].wrote =>
            \E a \in Attempts : <<c, a>> \in kept \cup undone

\* with_retry rolls nothing back between two attempts: it is only because every tool
\* that writes under it catches its own exceptions that no call is in the
\* transaction twice.
WritesOnce ==
    \A c \in Calls : ~ ({c} \X Attempts \subseteq flushed \cup kept)
===============================================================================
