------------------------------ MODULE Revisions ------------------------------
(***************************************************************************)
(* The revisions of the database schema (backend/alembic/versions), each   *)
(* as the steps of its upgrade() and of its downgrade() on PostgreSQL.     *)
(*                                                                         *)
(* An object of the schema is a pair <<container, part>>.  A container is  *)
(* a table, an enum type or a function, itself the object <<container,     *)
(* "">>; its parts are the columns, constraints, enum values and settings  *)
(* that a revision can add or drop alone, and that go with it.  Indexes,   *)
(* policies and triggers belong to the object they are on.                 *)
(***************************************************************************)
EXTENDS Naturals, Sequences

Whole(S) == S \X {""}
PartsOf(t, S) == {t} \X S

(***************************************************************************)
(* A step: what it does to which objects, and the containers they need     *)
(* (foreign keys and enum types).  "make" fails on what exists and "drop"  *)
(* on what does not; "ensure" (IF NOT EXISTS, DO ... duplicate_object) and *)
(* "clear" (IF EXISTS) do not.  "check" fails on rows that a constraint or *)
(* the revision itself refuses.  "commit" is autocommit_block(), "own" the *)
(* bare COMMIT after which each statement commits itself.                  *)
(***************************************************************************)
Step(do, what, needs) == [do |-> do, what |-> what, needs |-> needs]

Table(t, needs) == Step("make", Whole({t}), needs)
Types(S) == Step("make", Whole(S), {})
SafeTypes(S) == Step("ensure", Whole(S), {})
Columns(t, S, needs) == Step("make", PartsOf(t, S), needs \union {t})
SafeParts(t, S) == Step("ensure", PartsOf(t, S), {t})
DropTables(S) == Step("drop", Whole(S), {})
DropTypes(S) == Step("drop", Whole(S), {})
ClearTypes(S) == Step("clear", Whole(S), {})
DropParts(t, S) == Step("drop", PartsOf(t, S), {})
ClearParts(t, S) == Step("clear", PartsOf(t, S), {})
Refuse(rows) == Step("check", rows, {})
CommitNow == Step("commit", {}, {})
CommitEachStatement == Step("own", {}, {})

\* The embedding column of a table with one type or another.
Embedded(t, type) == Columns(t, {type}, {})

-----------------------------------------------------------------------------
(* The first releases: users to interactive questions *)

UpUsers == << Table("users", {}), Columns("users", {"users_email_key", "idx_users_email"}, {}) >>
DownUsers == << DropParts("users", {"idx_users_email"}), DropTables({"users"}) >>

UpConversations ==
    << Table("conversations", {"users"}), Table("messages", {"conversations"}),
       DropParts("users", {"idx_users_email", "users_email_key"}), Columns("users", {"ix_users_email"}, {}) >>
DownConversations ==
    << DropParts("users", {"ix_users_email"}), Columns("users", {"users_email_key", "idx_users_email"}, {}),
       DropTables({"messages"}), DropTables({"conversations"}) >>

UpCompany ==
    << Types({"sector_type"}), Table("company_profiles", {"users", "sector_type"}),
       Columns("conversations", {"summary"}, {}) >>
DownCompany ==
    << DropParts("conversations", {"summary"}), DropTables({"company_profiles"}), ClearTypes({"sector_type"}) >>

UpDocuments ==
    << Types({"document_status", "document_type_enum"}),
       Table("documents", {"users", "conversations", "document_status", "document_type_enum"}),
       Table("document_analyses", {"documents"}),
       Table("document_chunks", {"documents"}), Embedded("document_chunks", "vector(1536)") >>
DownDocuments ==
    << DropTables({"document_chunks"}), DropTables({"document_analyses"}), DropTables({"documents"}),
       ClearTypes({"document_status", "document_type_enum"}) >>

UpEsg == << Types({"esg_status_type"}), Table("esg_assessments", {"users", "conversations", "esg_status_type"}) >>
DownEsg == << DropTables({"esg_assessments"}), ClearTypes({"esg_status_type"}) >>

UpReports ==
    << Types({"report_type_enum", "report_status_enum"}),
       Table("reports", {"users", "report_type_enum", "report_status_enum"}),
       Columns("reports", {"assessment_id_fkey"}, {"esg_assessments"}) >>
DownReports == << DropTables({"reports"}), ClearTypes({"report_type_enum", "report_status_enum"}) >>

UpCarbon ==
    << Types({"carbon_status_enum"}),
       Table("carbon_assessments", {"users", "conversations", "carbon_status_enum"}),
       Table("carbon_emission_entries", {"carbon_assessments"}) >>
DownCarbon ==
    << DropTables({"carbon_emission_entries"}), DropTables({"carbon_assessments"}),
       ClearTypes({"carbon_status_enum"}) >>

\* intermediary_type_enum is created with funds, which uses it too; the second
\* table asks for it again in the same command and is told that it was made.
UpFinancing ==
    << Types({"fund_type_enum", "fund_status_enum", "access_type_enum", "intermediary_type_enum"}),
       Table("funds", {"fund_type_enum", "fund_status_enum", "access_type_enum", "intermediary_type_enum"}),
       Types({"organization_type_enum"}),
       Table("intermediaries", {"intermediary_type_enum", "organization_type_enum"}),
       Table("fund_intermediaries", {"funds", "intermediaries"}),
       Types({"match_status_enum"}),
       Table("fund_matches", {"users", "funds", "intermediaries", "match_status_enum"}),
       Types({"financing_source_type_enum"}),
       Table("financing_chunks", {"financing_source_type_enum"}), Embedded("financing_chunks", "text") >>
DownFinancing ==
    << DropTables({"financing_chunks"}), DropTables({"fund_matches"}), DropTables({"fund_intermediaries"}),
       DropTables({"intermediaries"}), DropTables({"funds"}),
       ClearTypes({"financing_source_type_enum", "match_status_enum", "organization_type_enum",
                   "intermediary_type_enum", "access_type_enum", "fund_status_enum", "fund_type_enum"}) >>

\* The downgrade leaves the two enum types.
UpApplications ==
    << Types({"target_type_app_enum", "application_status_enum"}),
       Table("fund_applications", {"users", "funds", "fund_matches", "intermediaries",
                                   "target_type_app_enum", "application_status_enum"}) >>
DownApplications == << DropTables({"fund_applications"}) >>

UpCredit ==
    << Types({"confidence_label_enum"}), Table("credit_scores", {"users", "confidence_label_enum"}),
       Types({"credit_category_enum"}),
       Table("credit_data_points", {"users", "credit_scores", "credit_category_enum"}) >>
DownCredit ==
    << DropTables({"credit_data_points"}), DropTables({"credit_scores"}),
       DropTypes({"confidence_label_enum", "credit_category_enum"}) >>

UpActionPlans ==
    << Types({"plan_status_enum"}), Table("action_plans", {"users", "plan_status_enum"}),
       Types({"badge_type_enum"}), Table("badges", {"users", "badge_type_enum"}),
       Types({"action_item_category_enum", "action_item_priority_enum", "action_item_status_enum"}),
       Table("action_items", {"action_plans", "funds", "intermediaries", "action_item_category_enum",
                              "action_item_priority_enum", "action_item_status_enum"}),
       Types({"reminder_type_enum"}), Table("reminders", {"users", "action_items", "reminder_type_enum"}) >>
DownActionPlans ==
    << DropTables({"reminders"}), DropTables({"action_items"}), DropTables({"badges"}),
       DropTables({"action_plans"}),
       ClearTypes({"reminder_type_enum", "badge_type_enum", "action_item_status_enum",
                   "action_item_priority_enum", "action_item_category_enum", "plan_status_enum"}) >>

UpToolLogs == << Table("tool_call_logs", {"users", "conversations"}) >>
DownToolLogs == << DropTables({"tool_call_logs"}) >>

UpQuestions ==
    << Table("interactive_questions", {"conversations", "messages"}),
       Columns("interactive_questions", {"ck_iq_max_le_8"}, {}) >>
DownQuestions == << DropTables({"interactive_questions"}) >>

UpToolsOffered == << Columns("tool_call_logs", {"tools_offered"}, {}) >>
DownToolsOffered == << DropParts("tool_call_logs", {"tools_offered"}) >>

-----------------------------------------------------------------------------
(* Accounts, the catalogue and its versions *)

METIER_TABLES ==
    {"company_profiles", "documents", "esg_assessments", "carbon_assessments", "credit_scores",
     "fund_matches", "fund_applications", "action_plans", "action_items", "reminders",
     "conversations", "messages", "interactive_questions", "tool_call_logs", "reports"}

\* The backfill reaches every table of METIER_TABLES, through the user or the
\* parent row, before the columns become NOT NULL and the policies are on.
UpAccountTables ==
    << SafeTypes({"user_role", "invitation_status"}), Table("accounts", {}),
       Table("refresh_tokens", {"users"}) >>
UpInvitations == << Table("account_invitations", {"accounts", "users"}) >>
UpTenantColumns ==
    << Columns("users", {"role"}, {}), Columns("users", {"account_id"}, {"accounts"}),
       Step("make", METIER_TABLES \X {"account_id"}, METIER_TABLES \union {"accounts"}),
       Columns("company_profiles", {"archived"}, {}), Columns("users", {"users_role_account_consistency"}, {}) >>
UpTenants == UpAccountTables \o UpInvitations \o UpTenantColumns
DownTenants ==
    << ClearParts("users", {"users_role_account_consistency"}),
       Step("clear", METIER_TABLES \X {"account_id"}, {}), ClearParts("company_profiles", {"archived"}),
       DropParts("users", {"account_id", "role"}),
       DropTables({"account_invitations"}), DropTables({"refresh_tokens"}), DropTables({"accounts"}),
       ClearTypes({"invitation_status", "user_role"}) >>

Catalogued == {"accounts", "users", "sources"}
UpSourcesTable == << Table("sources", {"accounts", "users"}) >>
UpIndicatorTables == << Table("indicators", Catalogued), Table("criteria", Catalogued) >>
UpFormulaTable == << Table("formulas", Catalogued) >>
UpReferentialTables ==
    << Table("thresholds", Catalogued), Table("referentials", Catalogued) >>
UpFactorTables ==
    << Table("referential_indicators", {"referentials", "indicators", "sources"}),
       Table("emission_factors", Catalogued) >>
UpRequiredTables ==
    << Table("required_documents", Catalogued \union {"funds", "intermediaries"}),
       Table("simulation_factors", Catalogued) >>
UpUnsourced == << Table("unsourced_flags", {"accounts", "conversations", "messages"}) >>
UpSources ==
    UpSourcesTable \o UpIndicatorTables \o UpFormulaTable \o UpReferentialTables \o UpFactorTables
        \o UpRequiredTables \o UpUnsourced
DownSources ==
    << DropTables({"unsourced_flags"}), DropTables({"simulation_factors"}), DropTables({"required_documents"}),
       DropTables({"emission_factors"}), DropTables({"referential_indicators"}), DropTables({"referentials"}),
       DropTables({"thresholds"}), DropTables({"formulas"}), DropTables({"criteria"}),
       DropTables({"indicators"}), DropTables({"sources"}) >>

UpAuditTable ==
    << SafeTypes({"audit_action", "audit_source"}),
       Table("audit_log", {"users", "accounts", "audit_action", "audit_source"}) >>
UpAuditGuards == << SafeTypes({"raise_audit_log_no_update", "raise_audit_log_no_delete"}) >>
UpAudit == UpAuditTable \o UpAuditGuards
DownAudit ==
    << ClearTypes({"raise_audit_log_no_update", "raise_audit_log_no_delete"}), DropTables({"audit_log"}),
       ClearTypes({"audit_source", "audit_action"}) >>

CATALOG_TABLES_VERSION ==
    {"indicators", "criteria", "formulas", "thresholds", "referentials", "referential_indicators",
     "emission_factors", "required_documents", "simulation_factors", "funds", "intermediaries",
     "fund_intermediaries"}
VersionColumns ==
    (CATALOG_TABLES_VERSION \X {"version", "valid_from", "valid_to", "superseded_by"})
        \union ({"sources"} \X {"catalog_version", "valid_from", "valid_to", "superseded_by"})
MoneyColumns ==
    ({"funds"} \X {"min_amount", "max_amount"})
        \union {<<"company_profiles", "annual_revenue_amount">>, <<"action_items", "estimated_cost_amount">>}
UpVersioning ==
    << Table("exchange_rates", {}), SafeTypes({"prevent_supersede_cycle"}),
       Step("make", VersionColumns, CATALOG_TABLES_VERSION \union {"sources"}),
       Columns("fund_applications", {"snapshot_at", "snapshot_data"}, {}),
       Step("make", MoneyColumns, {"funds", "company_profiles", "action_items"}) >>
DownVersioning ==
    << Step("drop", MoneyColumns, {}), DropParts("fund_applications", {"snapshot_at", "snapshot_data"}),
       Step("drop", VersionColumns, {}), ClearTypes({"prevent_supersede_cycle"}),
       DropTables({"exchange_rates"}) >>

UpChunks ==
    << Table("message_chunks", {"accounts", "conversations", "messages"}),
       Embedded("message_chunks", "vector(1536)") >>
DownChunks == << DropTables({"message_chunks"}) >>

\* Every factor gets the year 2024, then (category, country, year) is unique.
UpCarbonFactors ==
    << Columns("emission_factors", {"year"}, {}), Refuse({"alike factors"}),
       Columns("emission_factors", {"cat_country_year_uniq"}, {}),
       Columns("carbon_emission_entries", {"source_id"}, {"sources"}),
       Columns("carbon_emission_entries", {"factor_id"}, {"emission_factors"}) >>
DownCarbonFactors ==
    << DropParts("carbon_emission_entries", {"factor_id", "source_id"}),
       DropParts("emission_factors", {"cat_country_year_uniq", "year"}) >>

\* Applications without a project get one of their own.
UpProjectTables ==
    << Table("projects", {"accounts"}), Table("project_documents", {"projects", "documents"}) >>
UpApplicationProject == << Columns("fund_applications", {"project_id"}, {"projects"}) >>
UpProjects == UpProjectTables \o UpApplicationProject
DownProjects ==
    << DropParts("fund_applications", {"project_id"}), DropTables({"project_documents"}),
       DropTables({"projects"}) >>

UpAttestations == << Table("attestations", {"accounts", "users"}) >>
DownAttestations == << DropTables({"attestations"}) >>

DeletionColumns == {"deletion_scheduled_at", "deleted_at", "purge_in_progress"}
UpConsentTable ==
    << SafeTypes({"consent_type_enum", "legal_basis_enum"}),
       Table("consents", {"accounts", "users", "consent_type_enum", "legal_basis_enum"}),
       SafeTypes({"update_consents_updated_at"}) >>
UpDeletion ==
    << Columns("accounts", DeletionColumns, {}),
       Columns("audit_log", {"anonymous rows"}, {}), SafeTypes({"audit_log_anonymize"}) >>
UpConsents == UpConsentTable \o UpDeletion
\* "DELETE FROM audit_log WHERE user_id IS NULL ..." meets the trigger
\* audit_log_no_delete of UpAudit as soon as it finds a row.
DownConsents ==
    << ClearTypes({"audit_log_anonymize"}), Refuse({"anonymised audit"}),
       DropParts("audit_log", {"anonymous rows"}), DropParts("accounts", DeletionColumns),
       ClearTypes({"update_consents_updated_at"}), DropTables({"consents"}),
       ClearTypes({"legal_basis_enum", "consent_type_enum"}) >>

FundColumns ==
    {"instruments", "theme", "submission_mode", "submission_calendar", "source_id", "publication_status"}
IntermediaryColumns ==
    {"code", "required_documents", "fees_structured", "processing_time_days", "disbursement_time_days",
     "submission_portal_url", "success_rate", "total_funded_volume", "source_id", "publication_status"}
AccreditationColumns == {"accredited_from", "accredited_to", "max_amount_per_fund", "accreditation_source_id"}
UpFundColumns ==
    << Columns("funds", FundColumns, {"sources"}), Columns("fund_type_enum", {"v2 values"}, {}) >>
UpIntermediaryColumns ==
    << Columns("intermediaries", IntermediaryColumns, {"sources"}),
       Columns("fund_intermediaries", AccreditationColumns, {"sources"}) >>
UpOfferTable ==
    << Table("offers", {"funds", "intermediaries", "sources"}),
       Columns("fund_applications", {"offer_id"}, {"offers"}) >>
\* One draft offer per accredited pair and per fund of direct access; the
\* applications and the funds that the backfill leaves without an offer or a
\* source are refused by SET NOT NULL.
BackfillOffers == << Refuse({"unplaced row"}) >>
UpOffers == UpFundColumns \o UpIntermediaryColumns \o UpOfferTable \o BackfillOffers
DownOffers ==
    << DropParts("fund_applications", {"offer_id"}), DropTables({"offers"}),
       DropParts("fund_intermediaries", AccreditationColumns), DropParts("intermediaries", IntermediaryColumns),
       DropParts("fund_type_enum", {"v2 values"}), DropParts("funds", FundColumns) >>

UpScoreTable ==
    << SafeTypes({"referential_score_computed_by_enum"}),
       Table("referential_scores", {"accounts", "esg_assessments", "referentials",
                                    "referential_score_computed_by_enum"}) >>
UpScoreReminder == << SafeParts("reminder_type_enum", {"referential_version_evolved"}) >>
UpScores == UpScoreTable \o UpScoreReminder
DownScores ==
    << DropTables({"referential_scores"}), ClearTypes({"referential_score_computed_by_enum"}) >>

-----------------------------------------------------------------------------
(* Widgets, the back office, matches, dossiers *)

UpWidgets ==
    << CommitNow, Columns("interactive_questions", {"payload", "response_payload"}, {}),
       DropParts("interactive_questions", {"ck_iq_max_le_8"}),
       Columns("interactive_questions", {"ck_iq_max_le_8_or_select_form"}, {}) >>
DownWidgets ==
    << Refuse({"new widget"}), DropParts("interactive_questions", {"ck_iq_max_le_8_or_select_form"}),
       Columns("interactive_questions", {"ck_iq_max_le_8"}, {}),
       DropParts("interactive_questions", {"response_payload", "payload"}) >>

UpToolErrors == << Columns("tool_call_logs", {"validation_error"}, {}) >>
DownToolErrors == << DropParts("tool_call_logs", {"validation_error"}) >>

UpSkills == << Table("skills", {"users"}) >>
DownSkills == << DropTables({"skills"}) >>

UpPublicationStatus ==
    << SafeParts("simulation_factors", {"publication_status"}), Table("password_reset_tokens", {"users"}) >>
UpPublicationGates ==
    << SafeTypes({"before_publish_check_sources_verified", "before_verify_source_check_different_admin"}) >>
UpPublication == UpPublicationStatus \o UpPublicationGates
DownPublication ==
    << ClearTypes({"before_publish_check_sources_verified", "before_verify_source_check_different_admin"}),
       DropTables({"password_reset_tokens"}), ClearParts("simulation_factors", {"publication_status"}) >>

\* The new value is added outside the transaction, between the tables and
\* their backfill.
UpMatchTables ==
    << Table("offer_matches", {"accounts", "projects", "offers"}),
       Table("match_alerts_subscriptions", {"accounts", "projects"}) >>
UpMatchBackfill == << CommitNow, SafeParts("reminder_type_enum", {"new_offer_alert"}) >>
UpMatches == UpMatchTables \o UpMatchBackfill
DownMatches == << DropTables({"match_alerts_subscriptions"}), DropTables({"offer_matches"}) >>

UpMobileMoneyTables ==
    << Table("mobile_money_imports", {"accounts"}),
       Table("mobile_money_transactions", {"accounts", "mobile_money_imports"}),
       Table("mobile_money_analyses", {"accounts"}) >>
UpCreditEvidenceTables == << Table("credit_photos", {"accounts"}), Table("public_data_sources", {"accounts"}) >>
UpMethodology ==
    << Table("credit_methodology_factors", {"sources"}), CommitNow,
       SafeParts("credit_category_enum", {"mobile_money_flux", "photos_ia", "public_data"}) >>
UpAlternative == UpMobileMoneyTables \o UpCreditEvidenceTables \o UpMethodology
DownAlternative ==
    << DropTables({"credit_methodology_factors"}), DropTables({"public_data_sources"}),
       DropTables({"credit_photos"}), DropTables({"mobile_money_analyses"}),
       DropTables({"mobile_money_transactions"}), DropTables({"mobile_money_imports"}) >>

UpResources == << Table("resources", {"sources", "intermediaries", "users"}) >>
DownResources == << DropTables({"resources"}) >>

\* The unique index on (project, offer) refuses two applications that are not
\* rejected.
UpTemplateTable == << Table("templates_dossier", {"offers", "skills", "sources", "users"}) >>
UpApplicationColumns ==
    << Columns("fund_applications", {"template_id"}, {"templates_dossier"}),
       Columns("fund_applications", {"attestation_id"}, {"attestations"}),
       Columns("fund_applications", {"language", "export_path"}, {}),
       Refuse({"twin applications"}), Columns("fund_applications", {"project_offer_unique"}, {}) >>
UpTemplates == UpTemplateTable \o UpApplicationColumns
DownTemplates ==
    << ClearParts("fund_applications", {"project_offer_unique"}),
       DropParts("fund_applications", {"export_path", "attestation_id", "language", "template_id"}),
       DropTables({"templates_dossier"}) >>

UpExtension ==
    << SafeParts("audit_source", {"extension"}), Columns("funds", {"url_patterns"}, {}),
       Columns("intermediaries", {"url_patterns"}, {}), Columns("refresh_tokens", {"scope"}, {}) >>
DownExtension ==
    << DropParts("refresh_tokens", {"scope"}), DropParts("intermediaries", {"url_patterns"}),
       DropParts("funds", {"url_patterns"}) >>

-----------------------------------------------------------------------------
(* The two branches after 042 *)

\* Each column is looked at first and left alone when it has its type already.
UpVoyage ==
    << ClearParts("message_chunks", {"vector(1536)"}), SafeParts("message_chunks", {"vector(1024)"}),
       ClearParts("document_chunks", {"vector(1536)"}), SafeParts("document_chunks", {"vector(1024)"}),
       ClearParts("financing_chunks", {"text"}), SafeParts("financing_chunks", {"vector(1024)"}) >>
DownVoyage ==
    << ClearParts("financing_chunks", {"vector(1024)"}), SafeParts("financing_chunks", {"text"}),
       ClearParts("document_chunks", {"vector(1024)"}), SafeParts("document_chunks", {"vector(1536)"}),
       ClearParts("message_chunks", {"vector(1024)"}), SafeParts("message_chunks", {"vector(1536)"}) >>

UpEmails == << Refuse({"twin e-mails"}) >>
DownEmails == <<>>

UpCarbonReports == << CommitEachStatement, SafeParts("report_type_enum", {"carbon"}) >>
DownCarbonReports == <<>>

UpAnyReport == << ClearParts("reports", {"assessment_id_fkey"}) >>
DownAnyReport ==
    << Refuse({"carbon report"}), Columns("reports", {"assessment_id_fkey"}, {"esg_assessments"}) >>

ProjectColumns ==
    {"taxonomie_verte_uemoa_aligned", "gcf_priority_themes", "gender_inclusion",
     "vulnerable_populations", "project_esg_score"}
MatchColumns == {"project_score", "company_score", "project_score_breakdown", "divergence_explanation"}
UpProjectScores == << Columns("projects", ProjectColumns, {}), Columns("offer_matches", MatchColumns, {}) >>
DownProjectScores == << DropParts("offer_matches", MatchColumns), DropParts("projects", ProjectColumns) >>

CriterionColumns == {"weight", "is_required", "applies_to_project", "referential_id"}
UpProjectAssessments ==
    << Columns("criteria", CriterionColumns, {"referentials"}),
       Table("project_esg_assessments", {"accounts", "projects", "referentials", "users"}) >>
UpProjectResponses ==
    << Table("project_esg_criterion_responses", {"accounts", "project_esg_assessments", "criteria", "sources"}) >>
UpProjectEsg == UpProjectAssessments \o UpProjectResponses
DownProjectEsg ==
    << DropTables({"project_esg_criterion_responses"}), DropTables({"project_esg_assessments"}),
       DropParts("criteria", CriterionColumns) >>

-----------------------------------------------------------------------------
\* One line of releases to 042, then the branch that the deployments follow and
\* the revision that nothing comes after.
Trunk ==
    << "001", "f9b659a2b8e6", "2b24b1676e59", "163318558259", "005", "006", "007", "008", "73d72f6ebd8f",
       "68cd43ef0091", "5b7f090f1dcc", "54432e29b7f3", "018", "10b2", "019", "020", "021", "022", "023",
       "024", "025", "026", "027", "028", "030", "031", "032", "033", "035", "036", "037", "038", "041",
       "042", "043 emails", "044", "045", "046", "047" >>
Fork == "042"
Orphan == "043 voyage"
TrunkHead == "047"

TrunkUps ==
    << UpUsers, UpConversations, UpCompany, UpDocuments, UpEsg, UpReports, UpCarbon, UpFinancing,
       UpApplications, UpCredit, UpActionPlans, UpToolLogs, UpQuestions, UpToolsOffered, UpTenants,
       UpSources, UpAudit, UpVersioning, UpChunks, UpCarbonFactors, UpProjects, UpAttestations,
       UpConsents, UpOffers, UpScores, UpWidgets, UpToolErrors, UpSkills, UpPublication, UpMatches,
       UpAlternative, UpResources, UpTemplates, UpExtension, UpEmails, UpCarbonReports, UpAnyReport,
       UpProjectScores, UpProjectEsg >>
TrunkDowns ==
    << DownUsers, DownConversations, DownCompany, DownDocuments, DownEsg, DownReports, DownCarbon,
       DownFinancing, DownApplications, DownCredit, DownActionPlans, DownToolLogs, DownQuestions,
       DownToolsOffered, DownTenants, DownSources, DownAudit, DownVersioning, DownChunks,
       DownCarbonFactors, DownProjects, DownAttestations, DownConsents, DownOffers, DownScores,
       DownWidgets, DownToolErrors, DownSkills, DownPublication, DownMatches, DownAlternative,
       DownResources, DownTemplates, DownExtension, DownEmails, DownCarbonReports, DownAnyReport,
       DownProjectScores, DownProjectEsg >>

Place(r) == CHOOSE i \in DOMAIN Trunk : Trunk[i] = r
UpOf(r) == IF r = Orphan THEN UpVoyage ELSE TrunkUps[Place(r)]
DownOf(r) == IF r = Orphan THEN DownVoyage ELSE TrunkDowns[Place(r)]
=============================================================================
