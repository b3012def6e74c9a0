---------------------------- MODULE ServicesProofs ----------------------------
(***************************************************************************)
(* What TLAPS proves of the services that MCServices composes and that have *)
(* no module of proofs of their own, and of the tools of a turn that its   *)
(* graph calls.                                                            *)
(*                                                                         *)
(* The services, for any number of offers, of batches, of administrators   *)
(* and of requests: a user is told once of a match, whatever rewrites its  *)
(* row; what is cited was checked by another administrator than its        *)
(* author; every variable of every service stays in its type.              *)
(*                                                                         *)
(* The tools, for every set of calls of a turn: what a saved turn told the *)
(* model is done is committed, or was rolled back by the duplicate of a    *)
(* document (SuccessIsKept), and no call writes twice (WritesOnce).        *)
(* The first follows from an account of every write (WritesAreSomewhere):  *)
(* while the turn has not failed, a call that wrote is among what is       *)
(* flushed, kept or undone; nothing is flushed any more once it is saved.  *)
(* The second from the tools themselves: those below with_retry catch      *)
(* their own exceptions, so that no call ever gets to a second attempt     *)
(* (OneAttempt).  The scripts of the tools are not unfolded.               *)
(*                                                                         *)
(* The graph, for every bound on its recursion: what the user asks for in  *)
(* so many words reaches its node (RequestIsServed).                       *)
(***************************************************************************)
EXTENDS MCServices, DossiersProofs, TurnTools, FiniteSetTheorems

-----------------------------------------------------------------------------
(* The tools *)

Caught(t) == t.retried => t.catches

\* What each of the three ways to wrap a tool gives, whatever its scripts.
LEMMA WrappersCatch ==
    \A S : Caught(Guarded(S)) /\ Caught(GuardedRetried(S)) /\ Caught(Bare(S))
  BY DEF Caught, Guarded, GuardedRetried, Bare

\* No tool below with_retry lets an exception through to it.
LEMMA RetriedToolsCatch == \A t \in Tools : Caught(t)
<1>1. \A t \in PROFILING_TOOLS \cup CHAT_TOOLS \cup DOCUMENT_TOOLS \cup RESOURCE_TOOLS : Caught(t)
  BY WrappersCatch
  DEF PROFILING_TOOLS, CHAT_TOOLS, DOCUMENT_TOOLS, RESOURCE_TOOLS,
      update_company_profile, get_company_profile,
      get_user_dashboard_summary, get_company_profile_chat,
      get_esg_assessment_chat, get_carbon_summary_chat,
      analyze_uploaded_document, get_document_analysis, list_user_documents,
      search_resources, get_resource_content, recommend_resources_for_user
<1>2. \A t \in PROJECT_TOOLS \cup MATCHING_TOOLS \cup FINANCING_TOOLS \cup SIMULATION_TOOLS :
          Caught(t)
  BY WrappersCatch
  DEF PROJECT_TOOLS, MATCHING_TOOLS, FINANCING_TOOLS, SIMULATION_TOOLS,
      list_projects, get_project, create_project, update_project, delete_project,
      duplicate_project, link_document_to_project, match_funds_for_project,
      list_matches_for_project, compare_offers_for_fund_v2,
      recompute_matches_for_project, get_match_details,
      search_compatible_funds, save_fund_interest, get_fund_details,
      list_offers, get_offer, compare_offers_for_fund, compare_simulations
<1>3. \A t \in APPLICATION_TOOLS \cup TEMPLATE_TOOLS : Caught(t)
  BY WrappersCatch
  DEF APPLICATION_TOOLS, TEMPLATE_TOOLS,
      generate_application_section, update_application_section,
      get_application_checklist, simulate_financing, export_application,
      list_applications, provide_checklist_document,
      detach_checklist_document, create_fund_application,
      list_templates, get_effective_template
<1>4. \A t \in ESG_TOOLS \cup MultiReferentialTools \cup PROJECT_ESG_TOOLS \cup CARBON_TOOLS :
          Caught(t)
  BY WrappersCatch
  DEF ESG_TOOLS, MultiReferentialTools, PROJECT_ESG_TOOLS, CARBON_TOOLS,
      create_esg_assessment, save_esg_criterion_score, batch_save_esg_criteria,
      finalize_esg_assessment, get_esg_assessment, generate_esg_report,
      finalize_esg_assessment_multi_ref, recompute_score, compare_referentials,
      create_project_esg_assessment, save_project_esg_criterion,
      finalize_project_esg_assessment, get_project_esg_assessment,
      list_project_esg_assessments, generate_project_esg_report,
      create_carbon_assessment, save_emission_entry, finalize_carbon_assessment,
      get_carbon_summary, generate_carbon_report
<1>5. \A t \in CREDIT_TOOLS \cup CREDIT_ALTERNATIVE_TOOLS \cup ACTION_PLAN_TOOLS
               \cup SOURCING_TOOLS \cup MEMORY_TOOLS : Caught(t)
  BY WrappersCatch
  DEF CREDIT_TOOLS, CREDIT_ALTERNATIVE_TOOLS, ACTION_PLAN_TOOLS, SOURCING_TOOLS, MEMORY_TOOLS,
      generate_credit_score, get_credit_score, generate_credit_certificate,
      get_credit_methodology, get_mobile_money_kpis, list_public_data_sources,
      generate_action_plan, update_action_item, get_action_plan,
      cite_source, search_source, flag_unsourced, recall_history
<1>6. \A t \in VISUALIZATION_TOOLS \cup GUIDED_TOUR_TOOLS \cup INTERACTIVE_TOOLS : Caught(t)
  BY WrappersCatch
  DEF VISUALIZATION_TOOLS, GUIDED_TOUR_TOOLS, INTERACTIVE_TOOLS,
      show_kpi_card, show_match_card, show_map, show_comparison_table,
      trigger_guided_tour,
      ask_interactive_question, ask_yes_no, ask_select, ask_number, ask_date,
      ask_date_range, ask_rating, ask_file_upload, show_form, show_summary_card
<1>7. QED BY <1>1, <1>2, <1>3, <1>4, <1>5, <1>6 DEF Tools

-----------------------------------------------------------------------------
(* The inductive invariant *)

\* A call is a record of seven fields, whatever its script.
CallFields == {"told", "left", "script", "catches", "retried", "attempt", "wrote"}
CallsAreRecords == call = [c \in Calls |-> [f \in CallFields |-> call[c][f]]]

OneAttempt ==
    /\ \A c \in Calls : call[c].attempt = 0 /\ (call[c].retried => call[c].catches)
    /\ flushed \subseteq Calls \X {0} /\ kept \subseteq Calls \X {0}
    /\ undone \subseteq Calls \X {0}

WritesAreSomewhere ==
    turn # "failed" => \A c \in Calls : call[c].wrote => <<c, 0>> \in flushed \cup kept \cup undone

NothingLeftOpen == turn = "saved" => flushed = {}

TurnInv == CallsAreRecords /\ OneAttempt /\ WritesAreSomewhere /\ NothingLeftOpen


\* A call is such a record; its one attempt is the first.
IsCall(r) ==
    /\ r = [f \in CallFields |-> r[f]]
    /\ r.attempt = 0
    /\ r.retried => r.catches

LEMMA NotCalledIs == IsCall(NotCalled) /\ ~ NotCalled.wrote
  BY DEF IsCall, NotCalled, CallFields

LEMMA CallsAre == TurnInv => \A c \in Calls : IsCall(call[c])
<1>1. SUFFICES ASSUME TurnInv, NEW c \in Calls PROVE IsCall(call[c])
  OBVIOUS
<1>2. call[c] = [f \in CallFields |-> call[c][f]]
  BY <1>1 DEF TurnInv, CallsAreRecords
<1>3. call[c].attempt = 0 /\ (call[c].retried => call[c].catches)
  BY <1>1 DEF TurnInv, OneAttempt
<1>4. QED BY <1>2, <1>3 DEF IsCall

\* A step of one call, which becomes r.
LEMMA OneCallMoves ==
    ASSUME TurnInv, NEW c \in Calls, NEW r, IsCall(r), call' = [call EXCEPT ![c] = r]
    PROVE  /\ CallsAreRecords'
           /\ \A d \in Calls : /\ call'[d].attempt = 0
                               /\ call'[d].retried => call'[d].catches
                               /\ d # c => call'[d].wrote = call[d].wrote
           /\ call'[c].wrote = r.wrote
<1>1. \A d \in Calls : call'[d] = IF d = c THEN r ELSE call[d]
  BY DEF TurnInv, CallsAreRecords
<1>2. \A d \in Calls : IsCall(call'[d])
  BY <1>1, CallsAre
<1>3. call' = [d \in Calls |-> call'[d]]
  BY DEF TurnInv, CallsAreRecords
<1>4. CallsAreRecords'
  BY <1>2, <1>3 DEF CallsAreRecords, IsCall
<1>5. QED BY <1>1, <1>2, <1>4 DEF IsCall

\* The four ways the actions change a call.
LEMMA AdvanceMoves ==
    ASSUME TurnInv, NEW c \in Calls, Advance(c)
    PROVE  /\ CallsAreRecords'
           /\ \A d \in Calls : /\ call'[d].attempt = 0
                               /\ call'[d].retried => call'[d].catches
                               /\ call'[d].wrote = call[d].wrote
<1> DEFINE r == [call[c] EXCEPT !.left = Tail(@)]
<1>1. IsCall(r) /\ r.wrote = call[c].wrote
  BY CallsAre DEF IsCall, CallFields
<1>2. call' = [call EXCEPT ![c] = r]
  BY DEF Advance
<1> HIDE DEF r
<1>3. QED BY <1>1, <1>2, OneCallMoves

LEMMA SettleMoves ==
    ASSUME TurnInv, NEW c \in Calls, NEW told, Settle(c, told)
    PROVE  /\ CallsAreRecords'
           /\ \A d \in Calls : /\ call'[d].attempt = 0
                               /\ call'[d].retried => call'[d].catches
                               /\ call'[d].wrote = call[d].wrote
<1> DEFINE r == [NotCalled EXCEPT !.told = told, !.wrote = call[c].wrote]
<1>1. IsCall(r) /\ r.wrote = call[c].wrote
  BY NotCalledIs DEF IsCall, CallFields
<1>2. call' = [call EXCEPT ![c] = r]
  BY DEF Settle
<1> HIDE DEF r
<1>3. QED BY <1>1, <1>2, OneCallMoves

LEMMA WriteMoves ==
    ASSUME TurnInv, NEW c \in Calls,
           call' = [call EXCEPT ![c].left = Tail(@), ![c].wrote = TRUE]
    PROVE  /\ CallsAreRecords'
           /\ \A d \in Calls : /\ call'[d].attempt = 0
                               /\ call'[d].retried => call'[d].catches
                               /\ d # c => call'[d].wrote = call[d].wrote
<1> DEFINE r == [call[c] EXCEPT !.left = Tail(@), !.wrote = TRUE]
<1>1. IsCall(r)
  BY CallsAre DEF IsCall, CallFields
<1>2. call' = [call EXCEPT ![c] = r]
  BY DEF TurnInv, CallsAreRecords
<1> HIDE DEF r
<1>3. QED BY <1>1, <1>2, OneCallMoves

LEMMA CallMoves ==
    ASSUME TurnInv, NEW c \in Calls, CallTool(c)
    PROVE  /\ CallsAreRecords'
           /\ \A d \in Calls : /\ call'[d].attempt = 0
                               /\ call'[d].retried => call'[d].catches
                               /\ d # c => call'[d].wrote = call[d].wrote
           /\ ~ call'[c].wrote
<1>1. PICK t \in Tools, s \in UNION {t2.scripts : t2 \in Tools} :
        call' = [call EXCEPT ![c] = [NotCalled EXCEPT !.told = "running", !.left = s,
            !.script = IF t.retried /\ ~ t.catches THEN s ELSE <<>>,
            !.catches = t.catches, !.retried = t.retried]]
  BY DEF CallTool
<1> DEFINE r == [NotCalled EXCEPT !.told = "running", !.left = s,
                     !.script = IF t.retried /\ ~ t.catches THEN s ELSE <<>>,
                     !.catches = t.catches, !.retried = t.retried]
<1>2. t.retried => t.catches
  BY RetriedToolsCatch DEF Caught
<1>3. IsCall(r) /\ ~ r.wrote
  BY <1>2, NotCalledIs DEF IsCall, CallFields
<1>4. call' = [call EXCEPT ![c] = r]
  BY <1>1
<1> HIDE DEF r
<1>5. QED BY <1>3, <1>4, OneCallMoves

LEMMA TurnInvInit == InitTurn => TurnInv
  BY NotCalledIs
  DEF InitTurn, IsCall, TurnInv, CallsAreRecords, OneAttempt, WritesAreSomewhere,
      NothingLeftOpen

\* One case per action, each from what it does to the call and to the three sets.
LEMMA TurnInvStep == TurnInv /\ [NextTurn]_turnVars => TurnInv'
<1> SUFFICES ASSUME TurnInv, [NextTurn]_turnVars PROVE TurnInv'
  OBVIOUS
<1>1. CASE UNCHANGED turnVars
  BY <1>1 DEF turnVars, TurnInv, CallsAreRecords, OneAttempt, WritesAreSomewhere,
              NothingLeftOpen
<1>2. ASSUME NEW c \in Calls, CallTool(c) PROVE TurnInv'
  <2>1. UNCHANGED <<turn, flushed, kept, undone>>
    BY <1>2 DEF CallTool
  <2>2. QED BY <1>2, <2>1, CallMoves
            DEF TurnInv, OneAttempt, WritesAreSomewhere, NothingLeftOpen
<1>3. ASSUME NEW c \in Calls, Reads(c) \/ Swallows(c) PROVE TurnInv'
  <2>1. Advance(c) /\ UNCHANGED <<turn, flushed, kept, undone>>
    BY <1>3 DEF Reads, Swallows
  <2>2. QED BY <2>1, AdvanceMoves
            DEF TurnInv, OneAttempt, WritesAreSomewhere, NothingLeftOpen
<1>4. ASSUME NEW c \in Calls, Writes(c) PROVE TurnInv'
  <2>1. /\ call' = [call EXCEPT ![c].left = Tail(@), ![c].wrote = TRUE]
        /\ flushed' = flushed \cup {<<c, 0>>} /\ turn = "open"
        /\ UNCHANGED <<turn, kept, undone>>
    BY <1>4 DEF Writes, Running, TurnInv, OneAttempt
  <2>2. /\ CallsAreRecords'
        /\ \A d \in Calls : /\ call'[d].attempt = 0
                            /\ call'[d].retried => call'[d].catches
                            /\ d # c => call'[d].wrote = call[d].wrote
    BY <2>1, WriteMoves
  <2>3. <<c, 0>> \in Calls \X {0}
    OBVIOUS
  <2>4. OneAttempt'
    BY <2>1, <2>2, <2>3 DEF TurnInv, OneAttempt
  <2>5. WritesAreSomewhere'
    BY <2>1, <2>2 DEF TurnInv, WritesAreSomewhere
  <2>6. QED BY <2>1, <2>2, <2>4, <2>5 DEF TurnInv, NothingLeftOpen
<1>5. ASSUME NEW c \in Calls, Commits(c) PROVE TurnInv'
  <2>1. /\ Advance(c) /\ kept' = kept \cup flushed /\ flushed' = {}
        /\ UNCHANGED <<turn, undone>>
    BY <1>5 DEF Commits
  <2>2. QED BY <2>1, AdvanceMoves
            DEF TurnInv, OneAttempt, WritesAreSomewhere, NothingLeftOpen
<1>6. ASSUME NEW c \in Calls, Refuses(c) \/ Returns(c) PROVE TurnInv'
  <2>1. Settle(c, "no") \/ Settle(c, "done")
    BY <1>6 DEF Refuses, Returns
  <2>2. UNCHANGED <<turn, flushed, kept, undone>>
    BY <1>6 DEF Refuses, Returns
  <2>3. QED BY <2>1, <2>2, SettleMoves
            DEF TurnInv, OneAttempt, WritesAreSomewhere, NothingLeftOpen
<1>7. ASSUME NEW c \in Calls, Conflicts(c) PROVE TurnInv'
  <2>1. /\ Settle(c, "no") /\ undone' = undone \cup flushed /\ flushed' = {}
        /\ UNCHANGED <<turn, kept>>
    BY <1>7 DEF Conflicts
  <2>2. QED BY <2>1, SettleMoves
            DEF TurnInv, OneAttempt, WritesAreSomewhere, NothingLeftOpen
<1>8. ASSUME NEW c \in Calls, Raises(c) PROVE TurnInv'
  <2>1. ~ (call[c].retried /\ ~ call[c].catches)
    BY DEF TurnInv, OneAttempt
  <2>2. Settle(c, "no") /\ UNCHANGED <<turn, flushed, kept, undone>>
    BY <1>8, <2>1 DEF Raises
  <2>3. QED BY <2>2, SettleMoves
            DEF TurnInv, OneAttempt, WritesAreSomewhere, NothingLeftOpen
<1>9. CASE SaveTurn \/ FailTurn
  BY <1>9 DEF SaveTurn, FailTurn, TurnInv, CallsAreRecords, OneAttempt, WritesAreSomewhere,
              NothingLeftOpen
<1>10. QED
  BY <1>1, <1>2, <1>3, <1>4, <1>5, <1>6, <1>7, <1>8, <1>9 DEF NextTurn

-----------------------------------------------------------------------------
(* The theorems *)

LEMMA TurnInvAlways == SpecTurn => []TurnInv
  BY TurnInvInit, TurnInvStep, PTL DEF SpecTurn

\* What the model was told is done is committed when the answer of its turn is saved,
\* whatever failed or was swallowed beside it in the one session of the turn.
THEOREM SuccessesAreKept == SpecTurn => []SuccessIsKept
<1>1. TurnInv => SuccessIsKept
  BY DEF TurnInv, WritesAreSomewhere, NothingLeftOpen, SuccessIsKept, Attempts
<1>2. QED BY <1>1, TurnInvAlways, PTL

\* with_retry, which rolls nothing back, never has a call write a second time.
THEOREM CallsWriteOnce == SpecTurn => []WritesOnce
<1>1. TurnInv => WritesOnce
  <2>1. SUFFICES ASSUME TurnInv, NEW c \in Calls PROVE <<c, 1>> \notin flushed \cup kept
    BY DEF WritesOnce, Attempts
  <2>2. <<c, 1>> \notin Calls \X {0}
    OBVIOUS
  <2>3. QED BY <2>1, <2>2 DEF TurnInv, OneAttempt
<1>2. QED BY <1>1, TurnInvAlways, PTL

\* What the writes do not depend on.
TurnShape ==
    /\ turn \in {"open", "saved", "failed"} /\ session \in {"ok", "broken"}
    /\ \A c \in Calls : call[c].told \in {"none", "running", "done", "no"}

LEMMA TurnShapeStep == TurnInv /\ TurnShape /\ [NextTurn]_turnVars => TurnShape'
<1> SUFFICES ASSUME TurnInv, TurnShape, [NextTurn]_turnVars PROVE TurnShape'
  OBVIOUS
<1>1. \A c \in Calls : IsCall(call[c])
  BY CallsAre
<1>2. call = [c \in Calls |-> call[c]]
  BY DEF TurnInv, CallsAreRecords
<1>3. ASSUME NEW c \in Calls, NEW r, call' = [call EXCEPT ![c] = r],
             r.told \in {"none", "running", "done", "no"}
      PROVE  \A d \in Calls : call'[d].told \in {"none", "running", "done", "no"}
  <2>1. \A d \in Calls : call'[d] = IF d = c THEN r ELSE call[d]
    BY <1>2, <1>3
  <2>2. QED BY <1>3, <2>1 DEF TurnShape
<1>4. ASSUME NEW c \in Calls, NEW told \in {"done", "no"}, Settle(c, told)
      PROVE  \A d \in Calls : call'[d].told \in {"none", "running", "done", "no"}
  <2> DEFINE r == [NotCalled EXCEPT !.told = told, !.wrote = call[c].wrote]
  <2>1. r.told = told
    BY DEF NotCalled
  <2>2. call' = [call EXCEPT ![c] = r]
    BY <1>4 DEF Settle
  <2> HIDE DEF r
  <2>3. QED BY <1>3, <2>1, <2>2
<1>5. ASSUME NEW c \in Calls, Advance(c)
      PROVE  \A d \in Calls : call'[d].told \in {"none", "running", "done", "no"}
  <2> DEFINE r == [call[c] EXCEPT !.left = Tail(@)]
  <2>1. r.told = call[c].told
    BY <1>1 DEF IsCall, CallFields
  <2>2. call' = [call EXCEPT ![c] = r]
    BY <1>5 DEF Advance
  <2> HIDE DEF r
  <2>3. QED BY <1>3, <2>1, <2>2 DEF TurnShape
<1>6. ASSUME NEW c \in Calls, CallTool(c) PROVE TurnShape'
  <2>1. PICK t \in Tools, s \in UNION {t2.scripts : t2 \in Tools} :
          call' = [call EXCEPT ![c] = [NotCalled EXCEPT !.told = "running", !.left = s,
              !.script = IF t.retried /\ ~ t.catches THEN s ELSE <<>>,
              !.catches = t.catches, !.retried = t.retried]]
    BY <1>6 DEF CallTool
  <2> DEFINE r == [NotCalled EXCEPT !.told = "running", !.left = s,
                       !.script = IF t.retried /\ ~ t.catches THEN s ELSE <<>>,
                       !.catches = t.catches, !.retried = t.retried]
  <2>2. r.told = "running" /\ call' = [call EXCEPT ![c] = r]
    BY <2>1 DEF NotCalled
  <2> HIDE DEF r
  <2>3. \A d \in Calls : call'[d].told \in {"none", "running", "done", "no"}
    BY <1>3, <2>2
  <2>4. QED BY <1>6, <2>3 DEF CallTool, TurnShape
<1>7. ASSUME NEW c \in Calls, Reads(c) \/ Commits(c) \/ Swallows(c) PROVE TurnShape'
  BY <1>5, <1>7 DEF Reads, Commits, Swallows, TurnShape
<1>8. ASSUME NEW c \in Calls, Writes(c) PROVE TurnShape'
  <2> DEFINE r == [call[c] EXCEPT !.left = Tail(@), !.wrote = TRUE]
  <2>1. r.told = call[c].told
    BY <1>1 DEF IsCall, CallFields
  <2>2. call' = [call EXCEPT ![c] = r] /\ UNCHANGED <<turn, session, undone>>
    BY <1>2, <1>8 DEF Writes
  <2> HIDE DEF r
  <2>3. QED BY <1>3, <2>1, <2>2 DEF TurnShape
<1>9. ASSUME NEW c \in Calls, Refuses(c) \/ Conflicts(c) \/ Returns(c) PROVE TurnShape'
  BY <1>4, <1>9 DEF Refuses, Conflicts, Returns, AfterLog, TurnShape
<1>10. ASSUME NEW c \in Calls, Raises(c) PROVE TurnShape'
  <2>1. ~ (call[c].retried /\ ~ call[c].catches)
    BY DEF TurnInv, OneAttempt
  <2>2. Settle(c, "no")
    BY <1>10, <2>1 DEF Raises
  <2>3. QED BY <1>4, <1>10, <2>2 DEF Raises, TurnShape
<1>11. CASE SaveTurn \/ FailTurn
  BY <1>11 DEF SaveTurn, FailTurn, TurnShape
<1>12. CASE UNCHANGED turnVars
  BY <1>12 DEF turnVars, TurnShape
<1>13. QED
  BY <1>6, <1>7, <1>8, <1>9, <1>10, <1>11, <1>12 DEF NextTurn

\* The type of every variable.
LEMMA TurnTyped == SpecTurn => []TurnTypeOK
<1>1. InitTurn => TurnShape
  BY DEF InitTurn, TurnShape, NotCalled
<1>2. TurnInv /\ TurnShape => TurnTypeOK
  BY DEF TurnInv, OneAttempt, TurnShape, TurnTypeOK, Attempts
<1>3. QED BY <1>1, <1>2, TurnShapeStep, TurnInvInit, TurnInvStep, PTL DEF SpecTurn

-----------------------------------------------------------------------------
(* The graph of the conversation *)

GraphTurns ==
    [at : Nodes, asked : SUBSET Requests, page : {"project", "other"},
     carbon : {"none", "in_progress", "completed"}, calls : SUBSET Families,
     count : 0 .. MaxToolCallsPerTurn - 1, steps : 0 .. RecursionLimit, rounds : 0 .. RecursionLimit]

GraphShape ==
    /\ activeModule \in Modules \cup {"none", "project_esg_scoring"}
    /\ carbonBilan \in {"none", "in_progress", "completed"}
    /\ graphTurn \in GraphTurns \cup {NoTurn}

\* A round of tools is a super-step.
RoundsAreSteps == graphTurn # NoTurn => graphTurn.rounds <= graphTurn.steps

GraphInv == GraphShape /\ RoundsAreSteps /\ RequestIsServed

LEMMA TurnsAreNoNoTurn == \A t \in GraphTurns : t # NoTurn /\ t.at # "idle"
<1> QED
    BY DEF GraphTurns, NoTurn, Nodes, Modules

\* The router goes to a node whose flag is set, when there is one.
LEMMA RouteIsAFlag ==
    ASSUME NEW flags \in SUBSET Modules, flags # {}, NEW document
    PROVE  RouteAfterRouter(flags, document) \in flags
<1> DEFINE First(i) == Priority[i] \in flags /\ \A j \in 1 .. i - 1 : Priority[j] \notin flags
<1>1. /\ Priority[1] = "action_plan" /\ Priority[2] = "esg_scoring" /\ Priority[3] = "carbon"
      /\ Priority[4] = "financing" /\ Priority[5] = "application" /\ Priority[6] = "credit"
    BY DEF Priority
<1>2. \/ Priority[1] \in flags \/ Priority[2] \in flags \/ Priority[3] \in flags
      \/ Priority[4] \in flags \/ Priority[5] \in flags \/ Priority[6] \in flags
    <2>1. PICK m \in flags : m \in Modules
        OBVIOUS
    <2> QED
        BY <1>1, <2>1 DEF Modules
<1>3. \E i \in 1 .. 6 : First(i)
    <2>1. CASE Priority[1] \in flags
        BY <2>1
    <2>2. CASE Priority[1] \notin flags /\ Priority[2] \in flags
        BY <2>2
    <2>3. CASE Priority[1] \notin flags /\ Priority[2] \notin flags /\ Priority[3] \in flags
        BY <2>3
    <2>4. CASE /\ Priority[1] \notin flags /\ Priority[2] \notin flags /\ Priority[3] \notin flags
               /\ Priority[4] \in flags
        BY <2>4
    <2>5. CASE /\ Priority[1] \notin flags /\ Priority[2] \notin flags /\ Priority[3] \notin flags
               /\ Priority[4] \notin flags /\ Priority[5] \in flags
        BY <2>5
    <2>6. CASE /\ Priority[1] \notin flags /\ Priority[2] \notin flags /\ Priority[3] \notin flags
               /\ Priority[4] \notin flags /\ Priority[5] \notin flags /\ Priority[6] \in flags
        BY <2>6
    <2> QED
        BY <1>2, <2>1, <2>2, <2>3, <2>4, <2>5, <2>6
<1> DEFINE first == CHOOSE i \in 1 .. 6 : First(i)
<1>4. first \in 1 .. 6 /\ First(first)
    BY <1>3
<1>5. RouteAfterRouter(flags, document) = Priority[first]
    BY DEF RouteAfterRouter
<1> QED
    BY <1>4, <1>5

\* The node the router goes to was asked for, when one was.
LEMMA RouterServes ==
    ASSUME GraphInv, NEW asked \in SUBSET Requests, NEW document \in BOOLEAN,
           NEW page \in {"project", "other"}, NEW continues \in BOOLEAN,
           RouterNode(asked, document, page, continues)
    PROVE  GraphInv'
<1> DEFINE stays == activeModule # "none" /\ ~Forgets(asked) /\ continues
           flags == IF stays THEN {activeModule} \cap Modules ELSE Flags(asked)
           node == RouteAfterRouter(flags, document)
           next == [at |-> node, asked |-> asked, page |-> page, carbon |-> "none",
                    calls |-> {}, count |-> 0, steps |-> 1, rounds |-> 0]
<1>1. /\ activeModule' \in {activeModule, "none"}
      /\ graphTurn' = next /\ UNCHANGED carbonBilan
    BY DEF RouterNode
<1>2. flags \subseteq Modules
    BY DEF Flags, Modules
<1>3. flags = {} => node \in {"chat", "document"}
    BY DEF RouteAfterRouter
<1>4. flags # {} => node \in flags
    BY <1>2, RouteIsAFlag
<1>5. asked \cap Modules # {} =>
        /\ flags # {}
        /\ \A m \in flags : m \in asked \/ (m = "esg_scoring" /\ "widget" \in asked)
    <2>1. CASE stays
        <3>1. (asked \cap Modules) \ {activeModule} = {}
            BY <2>1 DEF Forgets
        <3> QED
            BY <2>1, <3>1
    <2>2. CASE ~ stays
        BY <2>2 DEF Flags, Modules
    <2> QED
        BY <2>1, <2>2
<1> HIDE DEF node, flags, stays
<1>6. node \in Nodes
    BY <1>2, <1>3, <1>4 DEF Nodes
<1>7. next \in GraphTurns
    BY <1>6, RecursionAssumption DEF GraphTurns, MaxToolCallsPerTurn
<1>8. next.rounds <= next.steps /\ next.at = node /\ next.asked = asked
    OBVIOUS
<1> HIDE DEF next
<1>9. GraphShape'
    BY <1>1, <1>7 DEF GraphInv, GraphShape
<1>10. RoundsAreSteps' /\ RequestIsServed'
    BY <1>1, <1>4, <1>5, <1>8 DEF RoundsAreSteps, RequestIsServed
<1> QED
    BY <1>9, <1>10 DEF GraphInv

\* After the answer of the model nobody is asked for any more.
LEMMA AnswerStep ==
    ASSUME GraphInv, NEW node \in Nodes, Ready(node), NEW offered \in SUBSET Families,
           NEW count, count \in {graphTurn.count, graphTurn.count + 1},
           NEW active \in Modules \cup {"none", "project_esg_scoring"},
           NEW carbon \in {"none", "in_progress", "completed"},
           ModelAnswers(offered, count, active, carbon)
    PROVE  GraphInv'
<1>1. graphTurn \in GraphTurns /\ graphTurn # NoTurn
    BY DEF GraphInv, GraphShape, Ready, NoTurn, Nodes, Modules
<1>2. PICK calls \in {{}} \cup {{f} : f \in offered} :
        LET n == IF calls = {} THEN graphTurn.count ELSE count IN
        graphTurn' = IF calls = {} \/ LimitReached(n) THEN NoTurn
                     ELSE [graphTurn EXCEPT !.calls = calls, !.count = n, !.steps = @ + 1,
                                            !.asked = {}, !.carbon = carbon]
    BY DEF ModelAnswers
<1>3. activeModule' = active /\ UNCHANGED carbonBilan
    BY DEF ModelAnswers
<1>4. CASE graphTurn' = NoTurn
    BY <1>3, <1>4 DEF GraphInv, GraphShape, RoundsAreSteps, RequestIsServed
<1>5. CASE /\ ~ LimitReached(count)
           /\ graphTurn' = [graphTurn EXCEPT !.calls = calls, !.count = count, !.steps = @ + 1,
                                             !.asked = {}, !.carbon = carbon]
    <2> DEFINE next == [graphTurn EXCEPT !.calls = calls, !.count = count,
                                         !.steps = graphTurn.steps + 1, !.asked = {}, !.carbon = carbon]
    <2>1. calls \in SUBSET Families
        BY <1>2
    <2>2. count \in 0 .. MaxToolCallsPerTurn - 1
        BY <1>1, <1>5 DEF GraphTurns, LimitReached, MaxToolCallsPerTurn
    <2>3. graphTurn.steps + 1 \in 0 .. RecursionLimit
        BY <1>1, RecursionAssumption DEF GraphTurns, Ready
    <2>4. next \in GraphTurns
        BY <1>1, <2>1, <2>2, <2>3 DEF GraphTurns
    <2>5. next.rounds = graphTurn.rounds /\ next.steps = graphTurn.steps + 1 /\ next.asked = {}
        BY <1>1 DEF GraphTurns
    <2>6. graphTurn.rounds <= graphTurn.steps + 1
        BY <1>1 DEF GraphInv, RoundsAreSteps, GraphTurns
    <2>7. graphTurn' = next
        BY <1>5
    <2> HIDE DEF next
    <2> QED
        BY <1>3, <2>4, <2>5, <2>6, <2>7 DEF GraphInv, GraphShape, RoundsAreSteps, RequestIsServed
<1> QED
    BY <1>2, <1>4, <1>5

LEMMA OfferedAreFamilies ==
    ASSUME NEW node \in Modules \cup {"chat"}, NEW page \in {"project", "other"}
    PROVE  Offered(node, page) \in SUBSET Families
<1> QED
    BY DEF Offered, Families, Widgets, Nodes, Modules

LEMMA GraphInit == InitGraph => GraphInv
<1> QED
    BY DEF InitGraph, GraphInv, GraphShape, RoundsAreSteps, RequestIsServed

LEMMA GraphStep == GraphInv /\ [NextGraph]_graphVars => GraphInv'
<1> SUFFICES ASSUME GraphInv, [NextGraph]_graphVars PROVE GraphInv'
    OBVIOUS
<1> DEFINE Actives == Modules \cup {"none", "project_esg_scoring"}
           Bilans == {"none", "in_progress", "completed"}
<1>1. graphTurn # NoTurn => graphTurn \in GraphTurns
    BY DEF GraphInv, GraphShape
<1>2. ASSUME NEW node \in Nodes, Ready(node) PROVE
        /\ graphTurn \in GraphTurns /\ graphTurn.page \in {"project", "other"} /\ graphTurn.carbon \in Bilans
    <2>1. graphTurn # NoTurn
        BY <1>2 DEF Ready, NoTurn, Nodes, Modules
    <2> QED
        BY <1>1, <2>1 DEF GraphTurns
<1>3. activeModule \in Actives /\ carbonBilan \in Bilans
    BY DEF GraphInv, GraphShape
<1>4. Modules \subseteq Nodes /\ "chat" \in Nodes /\ "document" \in Nodes
    BY DEF Nodes
<1>5. /\ "esg_scoring" \in Modules /\ "carbon" \in Modules /\ "financing" \in Modules
      /\ "application" \in Modules /\ "credit" \in Modules /\ "action_plan" \in Modules
    BY DEF Modules
<1>6. CASE ChatNode
    BY <1>2, <1>3, <1>4, <1>6, AnswerStep, OfferedAreFamilies DEF ChatNode
<1>7. CASE ScoreProject
    BY <1>2, <1>3, <1>4, <1>5, <1>7, AnswerStep, OfferedAreFamilies DEF ScoreProject
<1>8. CASE EsgScoringNode
    BY <1>2, <1>3, <1>4, <1>5, <1>8, AnswerStep, OfferedAreFamilies DEF EsgScoringNode
<1>9. CASE CarbonNode
    <2> DEFINE found == IF graphTurn.carbon = "in_progress" \/ carbonBilan = "none"
                        THEN "in_progress" ELSE carbonBilan
               active == IF found = "completed" THEN "none" ELSE "carbon"
    <2>1. found \in Bilans /\ active \in Actives
        BY <1>3, <1>5
    <2>2. Ready("carbon") /\ ModelAnswers(Offered("carbon", graphTurn.page), graphTurn.count, active, found)
        BY <1>9 DEF CarbonNode
    <2> HIDE DEF found, active
    <2> QED
        BY <1>2, <1>4, <1>5, <2>1, <2>2, AnswerStep, OfferedAreFamilies
<1>10. CASE FinancingNode
    BY <1>2, <1>3, <1>4, <1>5, <1>10, AnswerStep, OfferedAreFamilies DEF FinancingNode
<1>11. CASE ApplicationNode
    BY <1>2, <1>3, <1>4, <1>5, <1>11, AnswerStep, OfferedAreFamilies DEF ApplicationNode
<1>12. CASE CreditNode
    BY <1>2, <1>3, <1>4, <1>5, <1>12, AnswerStep, OfferedAreFamilies DEF CreditNode
<1>13. CASE ActionPlanNode
    BY <1>2, <1>3, <1>4, <1>5, <1>13, AnswerStep, OfferedAreFamilies DEF ActionPlanNode
<1>14. CASE DocumentNode
    <2> DEFINE next == [graphTurn EXCEPT !.at = "chat", !.steps = graphTurn.steps + 1]
    <2>1. /\ graphTurn' = next /\ UNCHANGED <<activeModule, carbonBilan>>
          /\ graphTurn.at = "document" /\ graphTurn.steps < RecursionLimit
        BY <1>14 DEF DocumentNode, Ready
    <2>2. graphTurn \in GraphTurns /\ graphTurn # NoTurn
        BY <1>2, <1>4, <1>14, TurnsAreNoNoTurn DEF DocumentNode
    <2>3. graphTurn.steps + 1 \in 0 .. RecursionLimit /\ graphTurn.rounds <= graphTurn.steps + 1
        BY <2>1, <2>2, RecursionAssumption DEF GraphInv, RoundsAreSteps, GraphTurns
    <2>4. next \in GraphTurns
        BY <1>4, <2>2, <2>3 DEF GraphTurns
    <2>5. next.rounds = graphTurn.rounds /\ next.steps = graphTurn.steps + 1 /\ next.asked = graphTurn.asked
        BY <2>2 DEF GraphTurns
    <2>6. graphTurn.asked \cap Modules = {}
        BY <2>1, <2>2 DEF GraphInv, RequestIsServed, GraphTurns, Requests, Modules
    <2> HIDE DEF next
    <2> QED
        BY <2>1, <2>3, <2>4, <2>5, <2>6 DEF GraphInv, GraphShape, RoundsAreSteps, RequestIsServed
<1>15. CASE ToolNode
    <2> DEFINE next == [graphTurn EXCEPT !.calls = {}, !.steps = graphTurn.steps + 1,
                                         !.rounds = graphTurn.rounds + 1]
    <2>1. /\ graphTurn' = next /\ UNCHANGED activeModule /\ carbonBilan' \in Bilans
          /\ graphTurn # NoTurn /\ graphTurn.steps < RecursionLimit
        BY <1>3, <1>15 DEF ToolNode
    <2>2. graphTurn \in GraphTurns
        BY <1>1, <2>1
    <2>3. /\ graphTurn.steps + 1 \in 0 .. RecursionLimit
          /\ graphTurn.rounds + 1 <= graphTurn.steps + 1
          /\ graphTurn.rounds + 1 \in 0 .. RecursionLimit
        BY <2>1, <2>2, RecursionAssumption DEF GraphInv, RoundsAreSteps, GraphTurns
    <2>4. next \in GraphTurns
        BY <2>2, <2>3 DEF GraphTurns
    <2>5. /\ next.rounds = graphTurn.rounds + 1 /\ next.steps = graphTurn.steps + 1
          /\ next.asked = graphTurn.asked /\ next.at = graphTurn.at
        BY <2>2 DEF GraphTurns
    <2> HIDE DEF next
    <2> QED
        BY <2>1, <2>3, <2>4, <2>5 DEF GraphInv, GraphShape, RoundsAreSteps, RequestIsServed
<1>16. CASE TurnFails
    BY <1>16 DEF TurnFails, GraphInv, GraphShape, RoundsAreSteps, RequestIsServed
<1>17. CASE UNCHANGED graphVars
    BY <1>17 DEF graphVars, GraphInv, GraphShape, RoundsAreSteps, RequestIsServed
<1> QED
    BY <1>6, <1>7, <1>8, <1>9, <1>10, <1>11, <1>12, <1>13, <1>14, <1>15, <1>16, <1>17, RouterServes
    DEF NextGraph

LEMMA GraphTyped == GraphInv => GraphTypeOK
BY DEF GraphInv, GraphShape, GraphTurns, GraphTypeOK

LEMMA GraphInvariant == SpecGraph => []GraphInv
<1> QED
    BY GraphInit, GraphStep, PTL DEF SpecGraph

\* Neither the module in progress nor the classifier captures an explicit
\* request: the message reaches a node that was asked for.
THEOREM RequestsAreServed == SpecGraph => []RequestIsServed
<1>1. GraphInv => RequestIsServed
    BY DEF GraphInv
<1> QED
    BY <1>1, GraphInvariant, PTL

-----------------------------------------------------------------------------
(* Offers *)

MatchRows == [level : Levels, fresh : BOOLEAN, notified : BOOLEAN]
Writings == UNION {[D -> Levels] : D \in SUBSET Offers}
Batches == [todo : SUBSET Offers, next : SUBSET Offers, found : BOOLEAN,
            wrote : Writings, runs : BOOLEAN]

\* The rows, and what the batches have written of them without a commit.
RowsInv ==
    /\ offerMatch \in [Offers -> MatchRows \cup {NoMatch}]
    /\ alertJob.found \subseteq Offers
    /\ alertJob.runs \in BOOLEAN
    /\ matchBatch \in [MatchBatches -> Batches]

\* What the job has read and not marked yet is there and nobody was told of it:
\* no batch takes the row or the mark away.
FoundUntold == \A o \in alertJob.found : offerMatch[o] # NoMatch /\ ~ offerMatch[o].notified

AlertInv == RowsInv /\ FoundUntold /\ alerts \in [Offers -> Nat] /\ AlertedOnce

LEMMA NoBatchType == NoBatch \in Batches
<1>1. <<>> \in [{} -> Levels]
    OBVIOUS
<1> QED
    BY <1>1 DEF NoBatch, Batches, Writings

LEMMA AlertInit == InitMatches => AlertInv
<1> SUFFICES ASSUME InitMatches PROVE AlertInv
    OBVIOUS
<1>1. RowsInv
    BY NoBatchType DEF InitMatches, RowsInv
<1> QED
    BY <1>1 DEF InitMatches, AlertInv, FoundUntold, AlertedOnce, NoMatch

\* A batch that goes on without a commit leaves the rows, the alerts and the
\* job alone.
LEMMA BatchStep ==
    ASSUME AlertInv, NEW b \in MatchBatches, NEW batch \in Batches, SetBatch(b, batch),
           UNCHANGED <<offerMatch, alerts, alertJob>>
    PROVE  AlertInv'
<1>1. RowsInv'
    BY DEF AlertInv, RowsInv, SetBatch
<1> QED
    BY <1>1 DEF AlertInv, FoundUntold, AlertedOnce

\* A commit writes the levels of some rows, and keeps what was told of them.
LEMMA CommitKeepsMarks ==
    ASSUME AlertInv, NEW b \in MatchBatches, CommitBatch(b)
    PROVE  AlertInv'
<1> DEFINE wrote == matchBatch[b].wrote
<1>1. /\ \A o \in DOMAIN wrote : o \in Offers /\ wrote[o] \in Levels
      /\ matchBatch[b] \in Batches
    <2>1. matchBatch[b] \in Batches
        BY DEF AlertInv, RowsInv
    <2>2. PICK D \in SUBSET Offers : wrote \in [D -> Levels]
        BY <2>1 DEF Batches, Writings
    <2> QED
        BY <2>1, <2>2
<1>2. ASSUME NEW o \in DOMAIN wrote
      PROVE  /\ offerMatch'[o] \in MatchRows
             /\ offerMatch'[o].notified <=> offerMatch[o] # NoMatch /\ offerMatch[o].notified
    <2>1. offerMatch'[o] = Written(o, wrote[o])
        BY <1>1 DEF CommitBatch
    <2>2. offerMatch[o] \in MatchRows \cup {NoMatch} /\ wrote[o] \in Levels
        BY <1>1 DEF AlertInv, RowsInv
    <2>3. CASE offerMatch[o] = NoMatch
        <3>1. offerMatch'[o] = [level |-> wrote[o], fresh |-> TRUE, notified |-> FALSE]
            BY <2>1, <2>3 DEF Written
        <3> QED
            BY <2>2, <2>3, <3>1 DEF MatchRows
    <2>4. CASE offerMatch[o] # NoMatch
        <3>1. offerMatch'[o] = [level |-> wrote[o], fresh |-> TRUE, notified |-> offerMatch[o].notified]
            BY <2>1, <2>4 DEF Written
        <3>2. offerMatch[o].notified \in BOOLEAN
            BY <2>2, <2>4 DEF MatchRows
        <3> QED
            BY <2>2, <2>4, <3>1, <3>2 DEF MatchRows
    <2> QED
        BY <2>3, <2>4
<1>3. \A o \in Offers \ DOMAIN wrote : offerMatch'[o] = offerMatch[o]
    BY DEF CommitBatch
<1>4. offerMatch' \in [Offers -> MatchRows \cup {NoMatch}]
    <2>1. offerMatch' = [o \in Offers |-> offerMatch'[o]]
        BY DEF CommitBatch
    <2>2. \A o \in Offers : offerMatch'[o] \in MatchRows \cup {NoMatch}
        BY <1>2, <1>3 DEF AlertInv, RowsInv
    <2> QED
        BY <2>1, <2>2
<1>5. \A x \in MatchRows : x # NoMatch
    BY DEF MatchRows, NoMatch, Levels
<1>6. RowsInv'
    BY <1>4, NoBatchType DEF AlertInv, RowsInv, CommitBatch, SetBatch
<1>7. FoundUntold'
    <2>1. alertJob' = alertJob
        BY DEF CommitBatch
    <2> QED
        BY <1>2, <1>3, <1>5, <2>1 DEF AlertInv, RowsInv, FoundUntold
<1>8. alerts' = alerts
    BY DEF CommitBatch
<1>9. AlertedOnce'
    BY <1>2, <1>3, <1>5, <1>8 DEF AlertInv, AlertedOnce
<1> QED
    BY <1>6, <1>7, <1>8, <1>9 DEF AlertInv

\* The job marks the rows it found, and no others, with one reminder each.
LEMMA AlertsMark == AlertInv /\ FinishAlerts => AlertInv'
<1> SUFFICES ASSUME AlertInv, FinishAlerts PROVE AlertInv'
    OBVIOUS
<1>1. ASSUME NEW o \in alertJob.found
      PROVE  /\ o \in Offers /\ alerts[o] = 0 /\ alerts'[o] = 1
             /\ offerMatch'[o] \in MatchRows /\ offerMatch'[o].notified
    <2>1. o \in Offers /\ offerMatch[o] \in MatchRows
        BY DEF AlertInv, RowsInv, FoundUntold
    <2>2. alerts[o] = 0
        BY <2>1 DEF AlertInv, FoundUntold, AlertedOnce
    <2>3. offerMatch'[o] = [offerMatch[o] EXCEPT !.notified = TRUE] /\ alerts'[o] = alerts[o] + 1
        BY <2>1 DEF FinishAlerts
    <2>4. offerMatch'[o] \in MatchRows /\ offerMatch'[o].notified
        BY <2>1, <2>3 DEF MatchRows
    <2> QED
        BY <2>1, <2>2, <2>3, <2>4
<1>2. \A o \in Offers \ alertJob.found : offerMatch'[o] = offerMatch[o] /\ alerts'[o] = alerts[o]
    BY DEF FinishAlerts
<1>3. offerMatch' \in [Offers -> MatchRows \cup {NoMatch}] /\ alerts' \in [Offers -> Nat]
    <2>1. /\ offerMatch' = [o \in Offers |-> offerMatch'[o]]
          /\ alerts' = [o \in Offers |-> alerts'[o]]
        BY DEF FinishAlerts
    <2>2. \A o \in Offers : offerMatch'[o] \in MatchRows \cup {NoMatch} /\ alerts'[o] \in Nat
        BY <1>1, <1>2 DEF AlertInv, RowsInv
    <2> QED
        BY <2>1, <2>2
<1>4. RowsInv' /\ FoundUntold'
    BY <1>3 DEF AlertInv, RowsInv, FoundUntold, FinishAlerts
<1>5. \A x \in MatchRows : x # NoMatch
    BY DEF MatchRows, NoMatch, Levels
<1>6. AlertedOnce'
    BY <1>1, <1>2, <1>5 DEF AlertInv, AlertedOnce
<1> QED
    BY <1>3, <1>4, <1>6 DEF AlertInv

LEMMA AlertStep == AlertInv /\ [NextMatches]_matchVars => AlertInv'
<1> SUFFICES ASSUME AlertInv, [NextMatches]_matchVars PROVE AlertInv'
    OBVIOUS
<1>0. /\ offerMatch \in [Offers -> MatchRows \cup {NoMatch}]
      /\ matchBatch \in [MatchBatches -> Batches]
    BY DEF AlertInv, RowsInv
<1>1. ASSUME NEW b \in MatchBatches, NEW todo \in SUBSET Offers,
             StartRecompute(b, todo) \/ StartCompare(b, todo) \/ ProjectChanges(b, todo)
      PROVE  AlertInv'
    <2>1. [NoBatch EXCEPT !.todo = todo, !.runs = TRUE] \in Batches
        BY NoBatchType DEF Batches
    <2> QED
        BY <1>1, <2>1, BatchStep DEF StartRecompute, StartCompare, ProjectChanges, BatchStarts
<1>2. ASSUME NEW b \in MatchBatches, NEW o \in Offers, LookForMatch(b, o) PROVE AlertInv'
    <2>1. matchBatch[b] \in Batches
        BY <1>0
    <2>2. /\ [matchBatch[b] EXCEPT !.todo = @ \ {o}, !.next = {o}, !.found = offerMatch[o] # NoMatch] \in Batches
          /\ [matchBatch[b] EXCEPT !.todo = @ \ {o}] \in Batches
        BY <2>1 DEF Batches
    <2> QED
        BY <1>2, <2>2, BatchStep DEF LookForMatch
<1>3. ASSUME NEW b \in MatchBatches, NEW level \in Levels, WriteMatch(b, level) PROVE AlertInv'
    <2>1. PICK o \in matchBatch[b].next :
            /\ \/ SetBatch(b, [matchBatch[b] EXCEPT !.next = {},
                        !.wrote = [x \in DOMAIN @ \cup {o} |-> IF x = o THEN level ELSE @[x]]])
               \/ SetBatch(b, NoBatch)
            /\ UNCHANGED <<offerMatch, subscription, alerts, debounced, alertJob>>
        BY <1>3 DEF WriteMatch
    <2> DEFINE wrote == matchBatch[b].wrote
               more == [x \in DOMAIN wrote \cup {o} |-> IF x = o THEN level ELSE wrote[x]]
    <2>2. matchBatch[b] \in Batches /\ o \in Offers
        BY <1>0, <2>1 DEF Batches
    <2>3. more \in Writings
        <3>1. PICK D \in SUBSET Offers : wrote \in [D -> Levels]
            BY <2>2 DEF Batches, Writings
        <3>2. more \in [D \cup {o} -> Levels] /\ D \cup {o} \in SUBSET Offers
            BY <2>2, <3>1
        <3> QED
            BY <3>2 DEF Writings
    <2>4. [matchBatch[b] EXCEPT !.next = {}, !.wrote = more] \in Batches
        BY <2>2, <2>3 DEF Batches
    <2>5. CASE SetBatch(b, NoBatch)
        BY <2>1, <2>5, NoBatchType, BatchStep
    <2>6. CASE SetBatch(b, [matchBatch[b] EXCEPT !.next = {}, !.wrote = more])
        BY <2>1, <2>4, <2>6, BatchStep
    <2> QED
        BY <2>1, <2>5, <2>6
<1>4. ASSUME NEW b \in MatchBatches, CommitBatch(b) PROVE AlertInv'
    BY <1>4, CommitKeepsMarks
<1>5. ASSUME NEW b \in MatchBatches, BatchFails(b) PROVE AlertInv'
    BY <1>5, NoBatchType, BatchStep DEF BatchFails
<1>6. CASE StartAlerts
    BY <1>6 DEF StartAlerts, AlertInv, RowsInv, FoundUntold, AlertedOnce
<1>7. CASE FinishAlerts
    BY <1>7, AlertsMark
<1>8. CASE AlertsFail
    BY <1>8 DEF AlertsFail, AlertInv, RowsInv, FoundUntold, AlertedOnce
<1>9. ASSUME NEW o \in Offers, MatchExpires(o) PROVE AlertInv'
    <2>1. offerMatch[o] \in MatchRows /\ [offerMatch[o] EXCEPT !.fresh = FALSE] \in MatchRows
        BY <1>0, <1>9 DEF MatchExpires, MatchRows
    <2>2. offerMatch' = [offerMatch EXCEPT ![o] = [offerMatch[o] EXCEPT !.fresh = FALSE]]
        BY <1>9 DEF MatchExpires
    <2>3. /\ offerMatch' \in [Offers -> MatchRows \cup {NoMatch}]
          /\ \A x \in Offers : x # o => offerMatch'[x] = offerMatch[x]
          /\ offerMatch'[o] \in MatchRows /\ offerMatch'[o].notified = offerMatch[o].notified
        BY <1>0, <2>1, <2>2 DEF MatchRows
    <2>4. \A x \in MatchRows : x # NoMatch
        BY DEF MatchRows, NoMatch, Levels
    <2> QED
        BY <1>9, <2>1, <2>3, <2>4 DEF MatchExpires, AlertInv, RowsInv, FoundUntold, AlertedOnce
<1>10. CASE UNCHANGED <<offerMatch, alerts, matchBatch, alertJob>>
    BY <1>10 DEF AlertInv, RowsInv, FoundUntold, AlertedOnce
<1> QED
    BY <1>1, <1>2, <1>3, <1>4, <1>5, <1>6, <1>7, <1>8, <1>9, <1>10
    DEF NextMatches, DebounceEnds, UpdateSubscription, matchVars

\* A row is marked exactly when one reminder was created for it, although
\* batches rewrite the row while the job holds what it read of it, the row
\* expires and comes back, and batches and job may fail.
THEOREM ToldOnce == SpecMatches => []AlertedOnce
<1>1. AlertInv => AlertedOnce
    BY DEF AlertInv
<1> QED
    BY AlertInit, AlertStep, <1>1, PTL DEF SpecMatches

\* A batch takes its offers one by one: those to do, the one it works on and those it
\* wrote are different ones.
OffersInTurn(batch) ==
    /\ batch.next \cap batch.todo = {}
    /\ batch.next = {} \/ \E o \in Offers : batch.next = {o}
    /\ DOMAIN batch.wrote \subseteq Offers \ batch.todo
    /\ batch.runs \/ batch = NoBatch

AlertJobs == [runs : BOOLEAN, found : SUBSET Offers]

MatchShape ==
    /\ subscription \in [active : BOOLEAN, min : Levels] \cup {NoSubscription}
    /\ debounced \in BOOLEAN
    /\ alertJob \in AlertJobs
    /\ \A b \in MatchBatches : OffersInTurn(matchBatch[b])

LEMMA JobsAre == \A found \in SUBSET Offers, runs \in BOOLEAN : [runs |-> runs, found |-> found] \in AlertJobs
<1> QED
    BY DEF AlertJobs

LEMMA NoBatchInTurn == OffersInTurn(NoBatch)
<1>1. DOMAIN <<>> = {}
    OBVIOUS
<1> QED
    BY <1>1 DEF OffersInTurn, NoBatch

LEMMA BatchInTurn ==
    ASSUME AlertInv, MatchShape, NEW b \in MatchBatches, NEW batch, OffersInTurn(batch), SetBatch(b, batch)
    PROVE  \A a \in MatchBatches : OffersInTurn(matchBatch'[a])
<1>1. \A a \in MatchBatches : matchBatch'[a] = IF a = b THEN batch ELSE matchBatch[a]
    BY DEF AlertInv, RowsInv, SetBatch
<1> QED
    BY <1>1 DEF MatchShape

LEMMA MatchShapeStep == AlertInv /\ MatchShape /\ [NextMatches]_matchVars => MatchShape'
<1> SUFFICES ASSUME AlertInv, MatchShape, [NextMatches]_matchVars PROVE MatchShape'
    OBVIOUS
<1>0. \A b \in MatchBatches : matchBatch[b] \in Batches /\ OffersInTurn(matchBatch[b])
    BY DEF AlertInv, RowsInv, MatchShape
<1>1. ASSUME NEW b \in MatchBatches, NEW todo \in SUBSET Offers, BatchStarts(b, todo)
      PROVE  \A a \in MatchBatches : OffersInTurn(matchBatch'[a])
    <2> DEFINE batch == [NoBatch EXCEPT !.todo = todo, !.runs = TRUE]
    <2>1. DOMAIN <<>> = {}
        OBVIOUS
    <2>2. OffersInTurn(batch)
        BY <2>1 DEF OffersInTurn, NoBatch
    <2> QED
        BY <1>1, <2>2, BatchInTurn DEF BatchStarts
<1>2. ASSUME NEW b \in MatchBatches, NEW todo \in SUBSET Offers,
             StartRecompute(b, todo) \/ StartCompare(b, todo) \/ ProjectChanges(b, todo)
      PROVE  MatchShape'
    BY <1>1, <1>2 DEF StartRecompute, StartCompare, ProjectChanges, BatchStarts, MatchShape
<1>3. ASSUME NEW b \in MatchBatches, NEW o \in Offers, LookForMatch(b, o) PROVE MatchShape'
    <2> DEFINE old == matchBatch[b]
               taken == [old EXCEPT !.todo = @ \ {o}, !.next = {o}, !.found = offerMatch[o] # NoMatch]
               left == [old EXCEPT !.todo = @ \ {o}]
    <2>1. old \in Batches /\ OffersInTurn(old) /\ old.next = {} /\ o \in old.todo
        BY <1>0, <1>3 DEF LookForMatch
    <2>2. old.runs
        BY <2>1 DEF OffersInTurn, NoBatch
    <2>3. /\ taken.todo = old.todo \ {o} /\ taken.next = {o} /\ taken.wrote = old.wrote /\ taken.runs = old.runs
          /\ left.todo = old.todo \ {o} /\ left.next = old.next /\ left.wrote = old.wrote /\ left.runs = old.runs
        BY <2>1 DEF Batches
    <2>4. (SetBatch(b, taken) \/ SetBatch(b, left)) /\ UNCHANGED <<subscription, debounced, alertJob>>
        BY <1>3 DEF LookForMatch
    <2> HIDE DEF taken, left
    <2>5. OffersInTurn(taken) /\ OffersInTurn(left)
        BY <2>1, <2>2, <2>3 DEF OffersInTurn
    <2> QED
        BY <2>4, <2>5, BatchInTurn DEF MatchShape
<1>4. ASSUME NEW b \in MatchBatches, NEW level \in Levels, WriteMatch(b, level) PROVE MatchShape'
    <2> DEFINE old == matchBatch[b]
    <2>1. PICK o \in old.next :
            /\ \/ SetBatch(b, [old EXCEPT !.next = {},
                        !.wrote = [x \in DOMAIN @ \cup {o} |-> IF x = o THEN level ELSE @[x]]])
               \/ SetBatch(b, NoBatch)
            /\ UNCHANGED <<subscription, debounced, alertJob>>
        BY <1>4 DEF WriteMatch
    <2> DEFINE wrote == old.wrote
               more == [x \in DOMAIN wrote \cup {o} |-> IF x = o THEN level ELSE wrote[x]]
               written == [old EXCEPT !.next = {}, !.wrote = more]
    <2>2. old \in Batches /\ OffersInTurn(old) /\ o \in Offers
        BY <1>0, <2>1 DEF Batches
    <2>3. DOMAIN more = DOMAIN wrote \cup {o}
        OBVIOUS
    <2> HIDE DEF more
    <2>4. /\ written.todo = old.todo /\ written.next = {} /\ written.wrote = more /\ written.runs = old.runs
        BY <2>2 DEF Batches
    <2>5. old.runs
        BY <2>1, <2>2 DEF OffersInTurn, NoBatch
    <2> HIDE DEF written
    <2>6. OffersInTurn(written)
        BY <2>1, <2>2, <2>3, <2>4, <2>5 DEF OffersInTurn
    <2>7. CASE SetBatch(b, NoBatch)
        BY <2>1, <2>7, NoBatchInTurn, BatchInTurn DEF MatchShape
    <2>8. CASE SetBatch(b, written)
        BY <2>1, <2>6, <2>8, BatchInTurn DEF MatchShape
    <2> QED
        BY <2>1, <2>7, <2>8 DEF written, more
<1>5. ASSUME NEW b \in MatchBatches, CommitBatch(b) \/ BatchFails(b) PROVE MatchShape'
    BY <1>5, NoBatchInTurn, BatchInTurn DEF CommitBatch, BatchFails, MatchShape
<1>6. ASSUME NEW min \in Levels, NEW active \in BOOLEAN, UpdateSubscription(min, active) PROVE MatchShape'
    BY <1>6 DEF UpdateSubscription, MatchShape
<1>7. CASE StartAlerts \/ FinishAlerts \/ AlertsFail
    <2>1. PICK found \in SUBSET Offers, runs \in BOOLEAN : alertJob' = [runs |-> runs, found |-> found]
        BY <1>7, Zenon DEF StartAlerts, FinishAlerts, AlertsFail
    <2>2. UNCHANGED <<subscription, debounced, matchBatch>>
        BY <1>7 DEF StartAlerts, FinishAlerts, AlertsFail
    <2> QED
        BY <2>1, <2>2, JobsAre DEF MatchShape
<1>8. CASE DebounceEnds \/ (\E o \in Offers : MatchExpires(o)) \/ UNCHANGED matchVars
    BY <1>8 DEF DebounceEnds, MatchExpires, matchVars, MatchShape
<1> QED
    BY <1>2, <1>3, <1>4, <1>5, <1>6, <1>7, <1>8 DEF NextMatches

LEMMA MatchesTyped == SpecMatches => []MatchTypeOK
<1>1. InitMatches => MatchShape
    BY NoBatchInTurn, JobsAre DEF InitMatches, MatchShape
<1>2. ASSUME AlertInv, MatchShape PROVE MatchTypeOK
    <2>1. \A o \in Offers : alerts[o] \in 0 .. 2
        BY <1>2 DEF AlertInv, AlertedOnce
    <2>2. alerts \in [Offers -> 0 .. 2]
        BY <1>2, <2>1 DEF AlertInv
    <2>3. ASSUME NEW b \in MatchBatches
          PROVE  /\ matchBatch[b].todo \subseteq Offers
                 /\ matchBatch[b].next \subseteq Offers /\ Cardinality(matchBatch[b].next) <= 1
                 /\ DOMAIN matchBatch[b].wrote \subseteq Offers \ matchBatch[b].todo
                 /\ matchBatch[b].runs \/ matchBatch[b] = NoBatch
        <3>1. matchBatch[b] \in Batches /\ OffersInTurn(matchBatch[b])
            BY <1>2 DEF AlertInv, RowsInv, MatchShape
        <3>2. Cardinality({}) = 0 /\ \A o \in Offers : Cardinality({o}) = 1
            BY FS_EmptySet, FS_Singleton
        <3>3. Cardinality(matchBatch[b].next) <= 1
            BY <3>1, <3>2 DEF OffersInTurn
        <3> QED
            BY <3>1, <3>3 DEF Batches, OffersInTurn
    <2> QED
        BY <1>2, <2>2, <2>3 DEF MatchTypeOK, AlertInv, RowsInv, MatchShape, MatchRows, AlertJobs
<1> QED
    BY <1>1, <1>2, AlertInit, AlertStep, MatchShapeStep, PTL DEF SpecMatches


-----------------------------------------------------------------------------
(* The catalogue *)

SourceRows == [st : SourceStates, by : Admins, verifier : Admins \cup {"none"},
               text : Contents, seen : Contents \cup {"none"}]
SkillRows == [st : {"draft", "published"}, text : Contents, tested : Contents \cup {"none"},
              cites : BOOLEAN, retired : BOOLEAN]

VerifyWork == [op : {"verify"}, by : Admins, seen : Contents]
UpdateWork == [op : {"update"}, text : Contents]
RemoveWork == [op : {"delete"}, sets : Admins \cup {"none"}]
SourceWork == [op : {"request", "outdate"}] \cup VerifyWork \cup UpdateWork \cup RemoveWork
TextWork == [op : {"create", "edit", "version"}, on : SkillVersions, text : Contents, cites : BOOLEAN]
PublishWork == [op : {"publish"}, on : SkillVersions, tested : Contents]
RetireWork == [op : {"unpublish", "retire"}, on : SkillVersions]
CatalogueWork == SourceWork \cup TextWork \cup PublishWork \cup RetireWork \cup {NoCatalogueRequest}

CatalogueShape ==
    /\ catalogueOverlap \in BOOLEAN
    /\ source \in SourceRows \cup {NoSource}
    /\ skill \in [SkillVersions -> SkillRows \cup {NoSkill}]
    /\ catalogueReq \in [CatalogueRequests -> CatalogueWork]

\* The row a request is going to change exists.
RowsAreThere ==
    \A r \in CatalogueRequests :
        /\ catalogueReq[r].op \in SourceRequests => source # NoSource
        /\ catalogueReq[r].op \in {"edit", "publish", "unpublish", "retire"} =>
             skill[catalogueReq[r].on] # NoSkill

SourceIsChecked == source # NoSource => SourceChecks(source)

\* One by one, what a request was decided from is there when it commits.
DecisionsAreCurrent ==
    ~ catalogueOverlap =>
        /\ \A r \in CatalogueRequests : catalogueReq[r] # NoCatalogueRequest =>
            /\ \A q \in CatalogueRequests : catalogueReq[q] # NoCatalogueRequest => q = r
            /\ catalogueReq[r].op = "verify" => source.st = "pending" /\ catalogueReq[r].seen = source.text
            /\ catalogueReq[r].op \in {"request", "update"} => source.st = "draft"
        /\ source.st = "verified" => source.seen = source.text

CatalogueInv == CatalogueShape /\ RowsAreThere /\ SourceIsChecked /\ DecisionsAreCurrent


LEMMA CatalogueInit == InitCatalogue => CatalogueInv
<1> SUFFICES ASSUME InitCatalogue PROVE CatalogueInv
    OBVIOUS
<1>1. CatalogueShape
    BY DEF InitCatalogue, CatalogueShape, CatalogueWork
<1>2. \A r \in CatalogueRequests : catalogueReq[r] = NoCatalogueRequest /\ catalogueReq[r].op = "none"
    BY DEF InitCatalogue, NoCatalogueRequest
<1>3. source = NoSource /\ source.st = "absent"
    BY DEF InitCatalogue, NoSource
<1>4. RowsAreThere /\ SourceIsChecked /\ DecisionsAreCurrent
    BY <1>2, <1>3 DEF RowsAreThere, SourceIsChecked, DecisionsAreCurrent, SourceRequests
<1> QED
    BY <1>1, <1>4 DEF CatalogueInv

\* What a request carries, by what it does.
LEMMA CatalogueRequestFacts ==
    ASSUME CatalogueShape, NEW r \in CatalogueRequests
    PROVE  LET q == catalogueReq[r] IN
           /\ q = NoCatalogueRequest <=> q.op = "none"
           /\ q.op \in SourceRequests => q \in SourceWork
           /\ q.op = "verify" => q \in VerifyWork
           /\ q.op = "update" => q \in UpdateWork
           /\ q.op = "delete" => q \in RemoveWork
           /\ q.op \in {"create", "edit", "version"} => q \in TextWork
           /\ q.op = "publish" => q \in PublishWork
           /\ q.op \in {"unpublish", "retire"} => q \in RetireWork
<1> DEFINE q == catalogueReq[r]
<1>1. q \in CatalogueWork
    BY DEF CatalogueShape
<1>2. NoCatalogueRequest.op = "none"
    BY DEF NoCatalogueRequest
<1>3. q \in [op : {"request", "outdate"}] => q.op \in {"request", "outdate"}
    OBVIOUS
<1>4. /\ q \in VerifyWork => q.op = "verify"
      /\ q \in UpdateWork => q.op = "update"
      /\ q \in RemoveWork => q.op = "delete"
    BY DEF VerifyWork, UpdateWork, RemoveWork
<1>5. /\ q \in TextWork => q.op \in {"create", "edit", "version"}
      /\ q \in PublishWork => q.op = "publish"
      /\ q \in RetireWork => q.op \in {"unpublish", "retire"}
    BY DEF TextWork, PublishWork, RetireWork
<1> HIDE DEF q
<1>6. /\ q = NoCatalogueRequest <=> q.op = "none"
      /\ q.op \in SourceRequests => q \in SourceWork
      /\ q.op = "verify" => q \in VerifyWork
      /\ q.op = "update" => q \in UpdateWork
      /\ q.op = "delete" => q \in RemoveWork
      /\ q.op \in {"create", "edit", "version"} => q \in TextWork
      /\ q.op = "publish" => q \in PublishWork
      /\ q.op \in {"unpublish", "retire"} => q \in RetireWork
    BY <1>1, <1>2, <1>3, <1>4, <1>5 DEF CatalogueWork, SourceWork, SourceRequests
<1> QED
    BY <1>6 DEF q

LEMMA AbsentFacts ==
    /\ NoSource.st = "absent" /\ \A s \in SourceRows : s # NoSource /\ s.st \in SourceStates
    /\ NoSkill.st = "absent" /\ \A k \in SkillRows : k # NoSkill /\ k.st \in {"draft", "published"}
<1> QED
    BY DEF NoSource, SourceRows, SourceStates, NoSkill, SkillRows

\* A request begins: no row changes.
LEMMA CatalogueBegins ==
    ASSUME CatalogueInv, NEW r \in CatalogueRequests, NEW what \in CatalogueWork, BeginCatalogue(r, what),
           what.op \in SourceRequests => source # NoSource,
           what.op \in {"edit", "publish", "unpublish", "retire"} => skill[what.on] # NoSkill,
           what.op = "verify" => source.st = "pending" /\ what.seen = source.text,
           what.op \in {"request", "update"} => source.st = "draft"
    PROVE  CatalogueInv'
<1>1. /\ catalogueReq' = [catalogueReq EXCEPT ![r] = what]
      /\ UNCHANGED <<catalogueOverlap, source, skill>>
      /\ ~ catalogueOverlap => \A q \in CatalogueRequests : catalogueReq[q] = NoCatalogueRequest
    BY DEF BeginCatalogue
<1>2. \A q \in CatalogueRequests : catalogueReq'[q] = IF q = r THEN what ELSE catalogueReq[q]
    BY <1>1 DEF CatalogueInv, CatalogueShape
<1>3. CatalogueShape'
    BY <1>1 DEF CatalogueInv, CatalogueShape
<1>4. RowsAreThere'
    BY <1>1, <1>2 DEF CatalogueInv, RowsAreThere
<1>5. SourceIsChecked'
    BY <1>1 DEF CatalogueInv, SourceIsChecked, SourceChecks
<1>6. DecisionsAreCurrent'
    BY <1>1, <1>2 DEF CatalogueInv, DecisionsAreCurrent
<1> QED
    BY <1>3, <1>4, <1>5, <1>6 DEF CatalogueInv

\* A request ends: the rows stay, and the source is checked.
LEMMA CatalogueEnds ==
    ASSUME CatalogueInv, NEW r \in CatalogueRequests, NEW op, op # "none", EndCatalogue(r, op),
           source' \in SourceRows \cup {NoSource}, source # NoSource => source' # NoSource,
           skill' \in [SkillVersions -> SkillRows \cup {NoSkill}],
           \A k \in SkillVersions : skill[k] # NoSkill => skill'[k] # NoSkill,
           SourceIsChecked',
           ~ catalogueOverlap /\ source'.st = "verified" => source'.seen = source'.text
    PROVE  CatalogueInv'
<1>1. /\ catalogueReq' = [catalogueReq EXCEPT ![r] = NoCatalogueRequest]
      /\ UNCHANGED catalogueOverlap /\ catalogueReq[r] # NoCatalogueRequest
    BY DEF EndCatalogue, NoCatalogueRequest
<1>2. \A q \in CatalogueRequests :
        catalogueReq'[q] = IF q = r THEN NoCatalogueRequest ELSE catalogueReq[q]
    BY <1>1 DEF CatalogueInv, CatalogueShape
<1>3. CatalogueShape'
    BY <1>1 DEF CatalogueInv, CatalogueShape, CatalogueWork
<1>4. NoCatalogueRequest.op = "none"
    BY DEF NoCatalogueRequest
<1>5. \A q \in CatalogueRequests : catalogueReq[q].op \in {"edit", "publish", "unpublish", "retire"}
        => catalogueReq[q].on \in SkillVersions
    BY CatalogueRequestFacts DEF CatalogueInv, TextWork, PublishWork, RetireWork
<1>6. RowsAreThere'
    BY <1>2, <1>4, <1>5 DEF CatalogueInv, RowsAreThere, SourceRequests
<1>7. DecisionsAreCurrent'
    BY <1>1, <1>2 DEF CatalogueInv, DecisionsAreCurrent
<1> QED
    BY <1>3, <1>6, <1>7 DEF CatalogueInv

\* A request on the source ends: the row is written if the checks accept it.
LEMMA SourceWritten ==
    ASSUME CatalogueInv, NEW r \in CatalogueRequests, NEW op, op # "none", EndCatalogue(r, op),
           NEW s \in SourceRows, WritesSource(s),
           ~ catalogueOverlap /\ s.st = "verified" => s.seen = s.text
    PROVE  CatalogueInv'
<1>1. /\ source' = IF SourceChecks(s) THEN s ELSE source
      /\ UNCHANGED skill
    BY DEF WritesSource
<1>2. source' \in SourceRows \cup {NoSource} /\ (source # NoSource => source' # NoSource)
    BY <1>1, AbsentFacts DEF CatalogueInv, CatalogueShape
<1>3. SourceIsChecked'
    BY <1>1 DEF CatalogueInv, SourceIsChecked, SourceChecks
<1>4. ~ catalogueOverlap /\ source'.st = "verified" => source'.seen = source'.text
    BY <1>1 DEF CatalogueInv, DecisionsAreCurrent
<1>5. skill' \in [SkillVersions -> SkillRows \cup {NoSkill}]
    BY <1>1 DEF CatalogueInv, CatalogueShape
<1> QED
    BY <1>1, <1>2, <1>3, <1>4, <1>5, CatalogueEnds

\* A request on the skill ends: one row of it is written, or none.
LEMMA SkillWritten ==
    ASSUME CatalogueInv, NEW r \in CatalogueRequests, NEW op, op # "none", EndCatalogue(r, op),
           NEW k \in SkillVersions, NEW row \in SkillRows,
           skill' \in {skill, [skill EXCEPT ![k] = row]}, UNCHANGED source
    PROVE  CatalogueInv'
<1>1. /\ skill' \in [SkillVersions -> SkillRows \cup {NoSkill}]
      /\ \A x \in SkillVersions : skill[x] # NoSkill => skill'[x] # NoSkill
    BY AbsentFacts DEF CatalogueInv, CatalogueShape
<1>2. /\ source' \in SourceRows \cup {NoSource} /\ (source # NoSource => source' # NoSource)
      /\ SourceIsChecked'
      /\ ~ catalogueOverlap /\ source'.st = "verified" => source'.seen = source'.text
    BY DEF CatalogueInv, CatalogueShape, SourceIsChecked, SourceChecks, DecisionsAreCurrent
<1> QED
    BY <1>1, <1>2, CatalogueEnds

LEMMA SourceSteps ==
    ASSUME CatalogueInv, NEW r \in CatalogueRequests,
           \/ FinishRequestVerification(r) \/ FinishVerify(r) \/ FinishOutdate(r)
           \/ FinishUpdateSource(r) \/ FinishDeleteSource(r)
    PROVE  CatalogueInv'
<1> DEFINE q == catalogueReq[r]
<1>1. q.op \in SourceRequests
    BY DEF FinishRequestVerification, FinishVerify, FinishOutdate, FinishUpdateSource, FinishDeleteSource,
           EndCatalogue, SourceRequests
<1>2. source \in SourceRows /\ source # NoSource
    BY <1>1 DEF CatalogueInv, CatalogueShape, RowsAreThere
<1>3. q # NoCatalogueRequest
    BY <1>1 DEF NoCatalogueRequest, SourceRequests
<1>4. CASE FinishRequestVerification(r)
    <2> DEFINE s == [source EXCEPT !.st = "pending"]
    <2>1. s \in SourceRows /\ s.st = "pending"
        BY <1>2 DEF SourceRows, SourceStates
    <2>2. WritesSource(s) /\ EndCatalogue(r, "request")
        BY <1>4 DEF FinishRequestVerification
    <2> HIDE DEF s
    <2> QED
        BY <2>1, <2>2, SourceWritten
<1>5. CASE FinishVerify(r)
    <2> DEFINE s == [source EXCEPT !.st = "verified", !.verifier = q.by, !.seen = q.seen]
    <2>1. q \in VerifyWork /\ q.op = "verify"
        BY <1>5, CatalogueRequestFacts DEF FinishVerify, EndCatalogue, CatalogueInv
    <2>2. s \in SourceRows /\ s.seen = q.seen /\ s.text = source.text
        BY <1>2, <2>1 DEF SourceRows, SourceStates, VerifyWork
    <2>3. ~ catalogueOverlap => q.seen = source.text
        BY <1>3, <2>1 DEF CatalogueInv, DecisionsAreCurrent
    <2>4. WritesSource(s) /\ EndCatalogue(r, "verify")
        BY <1>5 DEF FinishVerify
    <2> HIDE DEF s
    <2> QED
        BY <2>2, <2>3, <2>4, SourceWritten
<1>6. CASE FinishOutdate(r)
    <2> DEFINE s == [source EXCEPT !.st = "outdated"]
    <2>1. s \in SourceRows /\ s.st = "outdated"
        BY <1>2 DEF SourceRows, SourceStates
    <2>2. WritesSource(s) /\ EndCatalogue(r, "outdate")
        BY <1>6 DEF FinishOutdate
    <2> HIDE DEF s
    <2> QED
        BY <2>1, <2>2, SourceWritten
<1>7. CASE FinishUpdateSource(r)
    <2> DEFINE s == [source EXCEPT !.text = q.text]
    <2>1. q \in UpdateWork /\ q.op = "update"
        BY <1>7, CatalogueRequestFacts DEF FinishUpdateSource, EndCatalogue, CatalogueInv
    <2>2. s \in SourceRows /\ s.st = source.st
        BY <1>2, <2>1 DEF SourceRows, UpdateWork
    <2>3. ~ catalogueOverlap => source.st = "draft"
        BY <1>3, <2>1 DEF CatalogueInv, DecisionsAreCurrent
    <2>4. WritesSource(s) /\ EndCatalogue(r, "update")
        BY <1>7 DEF FinishUpdateSource
    <2> HIDE DEF s
    <2> QED
        BY <2>2, <2>3, <2>4, SourceWritten
<1>8. CASE FinishDeleteSource(r)
    <2> DEFINE s == [source EXCEPT !.st = "outdated",
                                   !.verifier = IF q.sets = "none" THEN source.verifier ELSE q.sets]
    <2>1. q \in RemoveWork /\ q.op = "delete"
        BY <1>8, CatalogueRequestFacts DEF FinishDeleteSource, EndCatalogue, CatalogueInv
    <2>2. s \in SourceRows /\ s.st = "outdated"
        BY <1>2, <2>1 DEF SourceRows, SourceStates, RemoveWork
    <2>3. WritesSource(s) /\ EndCatalogue(r, "delete")
        BY <1>8 DEF FinishDeleteSource
    <2> HIDE DEF s
    <2> QED
        BY <2>2, <2>3, SourceWritten
<1> QED
    BY <1>4, <1>5, <1>6, <1>7, <1>8


LEMMA SkillSteps ==
    ASSUME CatalogueInv, NEW r \in CatalogueRequests,
           \/ FinishCreateSkill(r) \/ FinishEdit(r) \/ FinishNewVersion(r)
           \/ FinishPublish(r) \/ FinishUnpublish(r) \/ FinishDeleteSkill(r)
    PROVE  CatalogueInv'
<1> DEFINE q == catalogueReq[r]
<1>1. CASE FinishCreateSkill(r) \/ FinishNewVersion(r)
    <2>1. PICK k \in {1, q.on} : /\ Inserts(k, q.text, q.cites) /\ UNCHANGED source
                                 /\ k = 1 => EndCatalogue(r, "create") \/ EndCatalogue(r, "version")
                                 /\ k # 1 => EndCatalogue(r, "version")
        BY <1>1 DEF FinishCreateSkill, FinishNewVersion
    <2>2. q \in TextWork
        BY <2>1, CatalogueRequestFacts DEF EndCatalogue, CatalogueInv
    <2> DEFINE row == [st |-> "draft", text |-> q.text, tested |-> "none", cites |-> q.cites, retired |-> FALSE]
    <2>3. q.text \in Contents /\ q.cites \in BOOLEAN /\ k \in SkillVersions
        BY <2>1, <2>2, VersionsAssumption DEF TextWork
    <2>4. row \in SkillRows
        BY <2>3 DEF SkillRows
    <2>5. skill' \in {skill, [skill EXCEPT ![k] = row]}
        BY <2>1 DEF Inserts
    <2> HIDE DEF row
    <2>6. PICK op \in {"create", "version"} : EndCatalogue(r, op)
        BY <2>1
    <2> QED
        BY <2>1, <2>3, <2>4, <2>5, <2>6, SkillWritten
<1>2. CASE FinishEdit(r)
    <2> DEFINE row == [skill[q.on] EXCEPT !.text = q.text, !.cites = q.cites]
    <2>1. q \in TextWork /\ q.op = "edit"
        BY <1>2, CatalogueRequestFacts DEF FinishEdit, EndCatalogue, CatalogueInv
    <2>2. q.on \in SkillVersions /\ q.text \in Contents /\ q.cites \in BOOLEAN /\ skill[q.on] \in SkillRows
        BY <2>1 DEF TextWork, CatalogueInv, CatalogueShape, RowsAreThere
    <2>3. row \in SkillRows
        BY <2>2 DEF SkillRows
    <2>4. skill' = [skill EXCEPT ![q.on] = row] /\ UNCHANGED source /\ EndCatalogue(r, "edit")
        BY <1>2, <2>2 DEF FinishEdit, CatalogueInv, CatalogueShape
    <2> HIDE DEF row
    <2> QED
        BY <2>2, <2>3, <2>4, SkillWritten
<1>3. CASE FinishPublish(r)
    <2> DEFINE row == [skill[q.on] EXCEPT !.st = "published", !.tested = q.tested]
    <2>1. q \in PublishWork /\ q.op = "publish"
        BY <1>3, CatalogueRequestFacts DEF FinishPublish, EndCatalogue, CatalogueInv
    <2>2. q.on \in SkillVersions /\ q.tested \in Contents /\ skill[q.on] \in SkillRows
        BY <2>1 DEF PublishWork, CatalogueInv, CatalogueShape, RowsAreThere
    <2>3. row \in SkillRows
        BY <2>2 DEF SkillRows
    <2>4. skill' = [skill EXCEPT ![q.on] = row] /\ UNCHANGED source /\ EndCatalogue(r, "publish")
        BY <1>3, <2>2 DEF FinishPublish, CatalogueInv, CatalogueShape
    <2> HIDE DEF row
    <2> QED
        BY <2>2, <2>3, <2>4, SkillWritten
<1>4. CASE FinishUnpublish(r)
    <2> DEFINE row == [skill[q.on] EXCEPT !.st = "draft", !.tested = "none"]
    <2>1. q \in RetireWork /\ q.op = "unpublish"
        BY <1>4, CatalogueRequestFacts DEF FinishUnpublish, EndCatalogue, CatalogueInv
    <2>2. q.on \in SkillVersions /\ skill[q.on] \in SkillRows
        BY <2>1 DEF RetireWork, CatalogueInv, CatalogueShape, RowsAreThere
    <2>3. row \in SkillRows
        BY <2>2 DEF SkillRows
    <2>4. skill' = [skill EXCEPT ![q.on] = row] /\ UNCHANGED source /\ EndCatalogue(r, "unpublish")
        BY <1>4, <2>2 DEF FinishUnpublish, CatalogueInv, CatalogueShape
    <2> HIDE DEF row
    <2> QED
        BY <2>2, <2>3, <2>4, SkillWritten
<1>5. CASE FinishDeleteSkill(r)
    <2> DEFINE row == [skill[q.on] EXCEPT !.retired = TRUE]
    <2>1. q \in RetireWork /\ q.op = "retire"
        BY <1>5, CatalogueRequestFacts DEF FinishDeleteSkill, EndCatalogue, CatalogueInv
    <2>2. q.on \in SkillVersions /\ skill[q.on] \in SkillRows
        BY <2>1 DEF RetireWork, CatalogueInv, CatalogueShape, RowsAreThere
    <2>3. row \in SkillRows
        BY <2>2 DEF SkillRows
    <2>4. skill' = [skill EXCEPT ![q.on] = row] /\ UNCHANGED source /\ EndCatalogue(r, "retire")
        BY <1>5, <2>2 DEF FinishDeleteSkill, CatalogueInv, CatalogueShape
    <2> HIDE DEF row
    <2> QED
        BY <2>2, <2>3, <2>4, SkillWritten
<1> QED
    BY <1>1, <1>2, <1>3, <1>4, <1>5

\* A request on the source begins, from a row it found.
LEMMA SourceBegins ==
    ASSUME CatalogueInv, NEW r \in CatalogueRequests,
           \/ StartRequestVerification(r) \/ StartOutdate(r)
           \/ \E a \in Admins : StartVerify(r, a) \/ StartDeleteSource(r, a)
           \/ \E text \in Contents : StartUpdateSource(r, text)
    PROVE  CatalogueInv'
<1>1. source \in SourceRows /\ source # NoSource
    BY AbsentFacts DEF StartRequestVerification, StartOutdate, StartVerify, StartDeleteSource,
       StartUpdateSource, Editable, CatalogueInv, CatalogueShape
<1>2. ASSUME NEW op \in {"request", "outdate"}, BeginCatalogue(r, [op |-> op]),
             op = "request" => source.st = "draft"
      PROVE  CatalogueInv'
    <2> DEFINE what == [op |-> op]
    <2>1. what \in CatalogueWork /\ what.op = op
        BY DEF CatalogueWork, SourceWork
    <2>2. BeginCatalogue(r, what)
        BY <1>2
    <2> HIDE DEF what
    <2> QED
        BY <1>1, <1>2, <2>1, <2>2, CatalogueBegins
<1>3. ASSUME NEW a \in Admins, StartVerify(r, a) PROVE CatalogueInv'
    <2> DEFINE what == [op |-> "verify", by |-> a, seen |-> source.text]
    <2>1. source.text \in Contents
        BY <1>1 DEF SourceRows
    <2>2. what \in CatalogueWork /\ what.op = "verify" /\ what.seen = source.text
        BY <2>1 DEF CatalogueWork, SourceWork, VerifyWork
    <2>3. BeginCatalogue(r, what) /\ source.st = "pending"
        BY <1>3 DEF StartVerify
    <2> HIDE DEF what
    <2> QED
        BY <1>1, <2>2, <2>3, CatalogueBegins
<1>4. ASSUME NEW a \in Admins, StartDeleteSource(r, a) PROVE CatalogueInv'
    <2> DEFINE what == [op |-> "delete",
                        sets |-> IF source.verifier = "none" /\ source.by # a THEN a ELSE "none"]
    <2>1. what \in CatalogueWork /\ what.op = "delete"
        BY DEF CatalogueWork, SourceWork, RemoveWork
    <2>2. BeginCatalogue(r, what)
        BY <1>4 DEF StartDeleteSource
    <2> HIDE DEF what
    <2> QED
        BY <1>1, <2>1, <2>2, CatalogueBegins
<1>5. ASSUME NEW text \in Contents, StartUpdateSource(r, text) PROVE CatalogueInv'
    <2> DEFINE what == [op |-> "update", text |-> text]
    <2>1. what \in CatalogueWork /\ what.op = "update"
        BY DEF CatalogueWork, SourceWork, UpdateWork
    <2>2. BeginCatalogue(r, what) /\ source.st = "draft"
        BY <1>5 DEF StartUpdateSource, Editable
    <2> HIDE DEF what
    <2> QED
        BY <1>1, <2>1, <2>2, CatalogueBegins
<1> QED
    BY <1>2, <1>3, <1>4, <1>5 DEF StartRequestVerification, StartOutdate

\* A request on the skill begins, from a version it found.
LEMMA SkillBegins ==
    ASSUME CatalogueInv, NEW r \in CatalogueRequests,
           \/ \E text \in Contents, cites \in BOOLEAN : StartCreateSkill(r, text, cites)
           \/ \E k \in SkillVersions :
                \/ \E text \in Contents, cites \in BOOLEAN : StartUpdateSkill(r, k, text, cites)
                \/ StartPublish(r, k) \/ StartUnpublish(r, k) \/ StartDeleteSkill(r, k)
    PROVE  CatalogueInv'
<1>1. \A k \in SkillVersions : skill[k].st \in {"draft", "published"} => skill[k] \in SkillRows /\ skill[k] # NoSkill
    BY AbsentFacts DEF CatalogueInv, CatalogueShape
<1>2. ASSUME NEW text \in Contents, NEW cites \in BOOLEAN, NEW op \in {"create", "edit", "version"},
             NEW k \in SkillVersions, BeginCatalogue(r, [op |-> op, on |-> k, text |-> text, cites |-> cites]),
             op = "edit" => skill[k] # NoSkill
      PROVE  CatalogueInv'
    <2> DEFINE what == [op |-> op, on |-> k, text |-> text, cites |-> cites]
    <2>1. what \in CatalogueWork /\ what.op = op /\ what.on = k
        BY DEF CatalogueWork, TextWork
    <2>2. BeginCatalogue(r, what)
        BY <1>2
    <2> HIDE DEF what
    <2> QED
        BY <1>2, <2>1, <2>2, CatalogueBegins DEF SourceRequests
<1>3. ASSUME NEW text \in Contents, NEW cites \in BOOLEAN, StartCreateSkill(r, text, cites)
      PROVE  CatalogueInv'
    BY <1>2, <1>3, VersionsAssumption DEF StartCreateSkill
<1>4. ASSUME NEW k \in SkillVersions, NEW text \in Contents, NEW cites \in BOOLEAN,
             StartUpdateSkill(r, k, text, cites)
      PROVE  CatalogueInv'
    <2> DEFINE op == IF EditsInPlace(k) THEN "edit" ELSE "version"
               on == IF EditsInPlace(k) THEN k ELSE k + 1
               cited == cites \/ skill[k].cites
    <2>1. /\ skill[k] # NoSkill /\ on \in SkillVersions /\ cited \in BOOLEAN
          /\ op \in {"create", "edit", "version"} /\ (op = "edit" => on = k)
        BY <1>4 DEF StartUpdateSkill
    <2>2. BeginCatalogue(r, [op |-> op, on |-> on, text |-> text, cites |-> cited])
        BY <1>4 DEF StartUpdateSkill
    <2> HIDE DEF op, on, cited
    <2> QED
        BY <1>2, <2>1, <2>2
<1>5. ASSUME NEW k \in SkillVersions, StartPublish(r, k) PROVE CatalogueInv'
    <2> DEFINE what == [op |-> "publish", on |-> k, tested |-> skill[k].text]
    <2>1. skill[k] \in SkillRows /\ skill[k] # NoSkill
        BY <1>1, <1>5 DEF StartPublish
    <2>2. skill[k].text \in Contents
        BY <2>1 DEF SkillRows
    <2>3. what \in CatalogueWork /\ what.op = "publish" /\ what.on = k
        BY <2>2 DEF CatalogueWork, PublishWork
    <2>4. BeginCatalogue(r, what)
        BY <1>5 DEF StartPublish
    <2> HIDE DEF what
    <2> QED
        BY <2>1, <2>3, <2>4, CatalogueBegins DEF SourceRequests
<1>6. ASSUME NEW k \in SkillVersions, StartUnpublish(r, k) \/ StartDeleteSkill(r, k) PROVE CatalogueInv'
    <2>1. PICK op \in {"unpublish", "retire"} : BeginCatalogue(r, [op |-> op, on |-> k])
        BY <1>6 DEF StartUnpublish, StartDeleteSkill
    <2> DEFINE what == [op |-> op, on |-> k]
    <2>2. skill[k] # NoSkill
        BY <1>1, <1>6 DEF StartUnpublish, StartDeleteSkill
    <2>3. what \in CatalogueWork /\ what.op = op /\ what.on = k
        BY DEF CatalogueWork, RetireWork
    <2>4. BeginCatalogue(r, what)
        BY <2>1
    <2> HIDE DEF what
    <2> QED
        BY <2>2, <2>3, <2>4, CatalogueBegins DEF SourceRequests
<1> QED
    BY <1>3, <1>4, <1>5, <1>6

LEMMA CatalogueStep == CatalogueInv /\ [NextCatalogue]_catalogueVars => CatalogueInv'
<1> SUFFICES ASSUME CatalogueInv, [NextCatalogue]_catalogueVars PROVE CatalogueInv'
    OBVIOUS
<1>1. ASSUME NEW a \in Admins, NEW st \in {"draft", "pending"}, CreateSource(a, st) PROVE CatalogueInv'
    <2> DEFINE s == [st |-> st, by |-> a, verifier |-> "none", text |-> "t1", seen |-> "none"]
    <2>1. s \in SourceRows /\ SourceChecks(s) /\ s.st # "verified"
        BY AdminsAssumption DEF SourceRows, SourceStates, Contents, SourceChecks
    <2>2. source = NoSource /\ source' = s /\ UNCHANGED <<catalogueOverlap, skill, catalogueReq>>
        BY <1>1 DEF CreateSource
    <2> HIDE DEF s
    <2>3. \A q \in CatalogueRequests : catalogueReq[q].op \notin SourceRequests
        BY <2>2 DEF CatalogueInv, RowsAreThere
    <2>4. CatalogueShape'
        BY <2>1, <2>2 DEF CatalogueInv, CatalogueShape
    <2>5. RowsAreThere' /\ SourceIsChecked'
        BY <2>1, <2>2, <2>3 DEF CatalogueInv, RowsAreThere, SourceIsChecked, SourceChecks
    <2>6. DecisionsAreCurrent'
        BY <2>1, <2>2, <2>3 DEF CatalogueInv, DecisionsAreCurrent, SourceRequests
    <2> QED
        BY <2>4, <2>5, <2>6 DEF CatalogueInv
<1>2. CASE UNCHANGED catalogueVars
    BY <1>2 DEF catalogueVars, CatalogueInv, CatalogueShape, RowsAreThere, SourceIsChecked, SourceChecks,
                DecisionsAreCurrent
<1> QED
    BY <1>1, <1>2, SourceSteps, SkillSteps, SourceBegins, SkillBegins DEF NextCatalogue

LEMMA CatalogueInvariant == SpecCatalogue => []CatalogueInv
<1> QED
    BY CatalogueInit, CatalogueStep, PTL DEF SpecCatalogue

\* What the assistant cites was verified by another administrator than the one
\* who captured it, however requests overlap, and who saw the content it has
\* when they do not.
THEOREM CitedIsChecked == SpecCatalogue => []CitableIsChecked
<1>1. ASSUME CatalogueInv PROVE CitableIsChecked
    <2>1. SUFFICES ASSUME source.st = "verified"
                   PROVE  /\ source.verifier \in Admins \ {source.by}
                          /\ ~catalogueOverlap => source.seen = source.text
        BY DEF CitableIsChecked
    <2>2. source \in SourceRows /\ SourceChecks(source)
        BY <1>1, <2>1, AbsentFacts DEF CatalogueInv, CatalogueShape, SourceIsChecked
    <2> QED
        BY <1>1, <2>1, <2>2 DEF SourceRows, SourceChecks, CatalogueInv, DecisionsAreCurrent
<1> QED
    BY <1>1, CatalogueInvariant, PTL

-----------------------------------------------------------------------------
(* The composition *)

\* A step of the composition is a step, or none, of every module of it.
LEMMA EveryServiceSteps ==
    ASSUME [Next]_serviceVars
    PROVE  /\ [NextDossiers]_dossierVars /\ [NextSections]_sectionVars /\ [NextFiles]_fileVars
           /\ [NextGraph]_graphVars /\ [NextCatalogue]_catalogueVars
           /\ [NextMatches]_matchVars /\ [NextTurn]_turnVars
<1>1. CASE UNCHANGED serviceVars
    BY <1>1 DEF serviceVars
<1>2. CASE Next
    BY <1>2 DEF Next, Moves, Stays
<1> QED
    BY <1>1, <1>2

\* Every behaviour of the composition is one of each module, so that all that is
\* proved of the modules of the services holds in it.
THEOREM ServicesImplementTheirParts ==
    Spec => /\ SpecDossiers /\ SpecSections /\ SpecFiles /\ SpecGraph
            /\ SpecCatalogue /\ SpecMatches /\ SpecTurn
<1>1. Init => /\ InitDossiers /\ InitSections /\ InitFiles /\ InitGraph
              /\ InitCatalogue /\ InitMatches /\ InitTurn
    BY DEF Init
<1> QED
    BY <1>1, EveryServiceSteps, PTL DEF Spec, SpecDossiers, SpecSections, SpecFiles, SpecGraph,
       SpecCatalogue, SpecMatches, SpecTurn

LEMMA CatalogueTyped == CatalogueInv => CatalogueTypeOK
<1>1. catalogueReq \in [CatalogueRequests -> CatalogueWork] =>
        catalogueReq \in [CatalogueRequests ->
            [op : {"request", "outdate"}] \cup [op : {"verify"}, by : Admins, seen : Contents]
            \cup [op : {"update"}, text : Contents]
            \cup [op : {"delete"}, sets : Admins \cup {"none"}]
            \cup [op : {"create", "edit", "version"}, on : SkillVersions, text : Contents, cites : BOOLEAN]
            \cup [op : {"publish"}, on : SkillVersions, tested : Contents]
            \cup [op : {"unpublish", "retire"}, on : SkillVersions]
            \cup {NoCatalogueRequest}]
    BY DEF CatalogueWork, SourceWork, VerifyWork, UpdateWork, RemoveWork, TextWork, PublishWork,
           RetireWork
<1> QED
    BY <1>1 DEF CatalogueInv, CatalogueShape, CatalogueTypeOK, SourceRows, SkillRows

\* Every variable of the seven modules stays in its type.
THEOREM ServicesTyped == Spec => []ServicesTypeOK
BY ServicesImplementTheirParts, DossiersTyped, SectionInvariant, SectionsTyped, FileInvariant,
   FilesTyped, GraphInvariant, GraphTyped, CatalogueInvariant, CatalogueTyped, MatchesTyped,
   TurnTyped, PTL DEF ServicesTypeOK

=============================================================================
