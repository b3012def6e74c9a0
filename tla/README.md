# ESG Mefali: a verification project

TLA+ models of ESG Mefali (FastAPI, LangGraph and PostgreSQL behind, Nuxt in
front): what its requests, tabs, streams, tools, transactions and migrations may
do to each other, what TLC checks of them on small instances, and what TLAPS
proves for every instance. Paths are relative to the repository's root.

1. [The system](#1-the-system) - 2. [The modules](#2-the-modules) -
3. [The runs](#3-the-runs) - 4. [What is proved](#4-what-is-proved) -
5. [Not modelled, and other disagreements](#5-not-modelled-and-other-disagreements) -
6. [What is left](#6-what-is-left)

## 1. The system

A user of a small company talks to an assistant in the browser, fills in
assessments and dossiers, and obtains scores, attestations and reports. The
backend keeps no state in memory but a few tasks and a debounce table: state is
in PostgreSQL (READ COMMITTED, the default isolation level), in the checkpoints
of LangGraph, in the browser's `localStorage` and in module-level variables of
the frontend's composables. Most services read a row, decide in Python, and
write later in the same request, with no lock: the decisions of concurrent
requests may be stale. The exceptions are the checklists of the dossiers and the
deletion of a document, which lock the rows they change (`SELECT ... FOR
UPDATE`) and read them again.

| component | state | operations | interacts with | correct when |
|---|---|---|---|---|
| chat turns, interactive questions (`api/chat.py`, `graph/tools/interactive_tools.py`) | `interactive_questions`, `messages`; one request session and one stream session per turn | text message, answer, abandonment, question tools, link to the message | graph (awaits its stream), the tab (SSE), `get_db` | one pending question, no lost answer, no phantom question unless a tool rolls it back, turns end |
| chat client (`useChat.ts`) | conversations, messages, stream, question of the input bar, consent counters | create, select, delete, send, answer, abandon, the events of the stream | chat turns (HTTP, SSE), guided tour | what the screen and the counters say is what the server received |
| guided tour (`useGuidedTour.ts`) | `tourState`, `cancelled`, driver.js instance, pending promises | start, step, cancel, interrupt | chat stream (awaits `startTour`), widget, authentication failure | the tour always gives the interface and the stream back |
| refresh tokens (`services/refresh_token_service.py`, `useAuth.ts`, `stores/auth.ts`) | `refresh_tokens`; tokens in each tab and in `localStorage` | login, rotation with a grace window, logout | every request of the frontend (401, refresh, retry) | sessions survive tabs refreshing together |
| conversation graph (`graph/graph.py`, `graph/nodes.py`) | the state of a turn, the active module of a conversation | routing, nodes, tool rounds | every tool | an explicit request reaches its node, the loop ends |
| tools (`graph/tools/`) | the session of the turn | about ninety tools, their handlers, `with_retry` | every service | what was reported done is committed |
| accounts, invitations, members (`modules/account`, `api/auth.py`) | `accounts`, `users`, `account_invitations` | invite, revoke, register, remove, suspend | refresh tokens, consents | an account keeps a member, an invitation lets one person in |
| account deletion (`modules/me`, `scripts/purge_scheduled_deletions.py`) | `deletion_scheduled_at`, `deleted_at` | schedule, cancel, purge | every table of an account | a deletion that is due happens, one that is cancelled does not |
| application dossiers (`modules/applications`) | `fund_applications`: status, snapshot, sections, checklist | create, edit, generate, submit, attach | projects, documents, language model | legal transitions, submitted dossiers have their snapshot, edits keep to their part |
| documents (`modules/documents`) | `documents`, files on disk | upload, analyse, delete | checklists | what a checklist refers to exists |
| projects (`modules/projects`) | `projects` | create, duplicate, delete, re-open | dossiers, assessments, matches (listeners) | |
| company ESG (`modules/esg/service.py`, `multi_referential_service.py`) and its report | evaluations, referential scores, `reports` | grade, finalise, recompute, report | badges, credit score | scores are those of the grades beside them |
| project ESG (`modules/esg/project_service.py`, `project_listener.py`) | assessments, responses, the project's score | create, answer, finalise, synchronise, delete | projects | a finalised assessment is frozen |
| carbon (`modules/carbon`) and its reports | assessments, entries, `reports` | enter, complete, render | a task of the process | totals and reports are those of the entries |
| credit score (`modules/credit`) | `credit_scores` | generate | data of every module | versions without gaps, in order |
| action plan (`modules/action_plan`) | `action_plans`, `action_items`, `badges` | generate, move, award | most modules (conditions of badges) | one active plan, its counters, the badges that are earned |
| financing and matching (`modules/financing`) | `offer_matches`, subscriptions, reminders | recompute (request, listener, batch), notify | projects | one alert per match |
| attestations (`modules/attestations`) | `attestations` | issue, revoke, verify, purge | scores, account deletion | a number is unique, a status only worsens |
| catalogue (`modules/sources`, `modules/skills`, `modules/admin`) | `sources`, `skills` and their versions | capture, verify, outdate, edit, publish | every citation of the assistant | what is cited was checked by two people |
| database migrations (`backend/alembic`) | the schema, `alembic_version` | upgrade, downgrade, crash | every table | the version says what the schema is |
| company profile, dashboard | one row; none | update; read | most modules | only through the session of a turn |
| audit log, row-level security | a journal; session variables | append; set | every session | not modelled, see 5 |

What is hard in this code: two tabs, two users or a job working on the same row
(check-then-write everywhere); the two transactions of one chat turn, and the
one session that all the tools of a turn share; events shown to the user before
the commit of what they show; tokens that tabs copy to each other through
`localStorage`; promises that nobody resolves; requests that commit half-way
(action plan, matches, credit), tasks nobody takes up again after a crash; and
migrations that leave the transaction of the command. `PROJECT.json` lists these
hazards at their lines, with the properties about them.

## 2. The modules

| module | what it is | run by |
|---|---|---|
| `ChatTurns` | one conversation: its turns, their two sessions, the rows and locks of its questions | `MCChatTurns` |
| `QuestionLifecycle` | abstract specification: the documented life cycle of the questions | refined by `ChatTurns` |
| `ChatClient` | the chat as a tab keeps it | `MCAccess` |
| `GuidedTour` | the guided tours of one tab, the chat stream that awaits them, the widget they retract | itself |
| `RefreshSessions` | the refresh tokens of one user and the tabs that hold them | `MCAccess` |
| `Accounts` | accounts, members, invitations, deletion | `MCAccess`, itself |
| `Attestations` | the attestations of several holders, their verification, their purge | `MCAccess` |
| `Dossiers` | the dossiers of a user for a project: creation, status, snapshot | `MCServices` |
| `DossierLifecycle` | abstract specification: what a dossier promises | refined by `Dossiers` |
| `DossierSections` | the sections of one dossier | `MCServices` |
| `DossierContents` | checklists, documents and their files, exports | `MCServices` |
| `Catalogue` | one source, one skill and its versions | `MCServices` |
| `OfferMatches` | the matches of one project with the offers, alerts, a subscription | `MCServices` |
| `ConversationGraph` | the graph of one conversation | `MCServices`, itself |
| `TurnTools` | the session of one turn and every tool that uses it | `MCServices` |
| `ProjectEsg` | the assessments of one project | `MCAssessments`, itself |
| `CompanyEsg` | the evaluations of one company, their scores and report | `MCAssessments` |
| `Carbon` | the carbon assessments of one user and their reports | `MCAssessments` |
| `CreditScores` | the credit scores of one user | `MCAssessments` |
| `ActionPlan` | the plans and the badges of one user | `MCAssessments` |
| `Revisions` | the 40 revisions of the schema, as steps | used by `Migrations` |
| `Migrations` | upgrades and downgrades of one database | `MCAssessments`, itself |
| `SchemaBounds` | the inductive invariant of `Migrations`, and the facts about `Revisions` it rests on | `MCAssessments` |
| `MCChatTurns`, `MCAccess`, `MCServices`, `MCAssessments` | instances for TLC | |
| `ChatTurnsProofs`, `GuidedTourProofs`, `ChatClientProofs`, `AccessProofs` | theorems and proofs: the chat, the tours, what `MCAccess` composes | |
| `DossiersProofs`, `ServicesProofs` | theorems and proofs: dossiers with their sections and contents, then the tools, the graph, the rest of `MCServices` and its composition | |
| `MigrationsProofs`, `AssessmentsProofs` | theorems and proofs: the migrations, then the rest of `MCAssessments` and its composition | |

The last three MC modules each hold several parts of the system that share no
table: a behaviour of all of them is an interleaving of a behaviour of each, so
`part`, chosen at the start, says which one moves. Where parts do meet, one
module has both sides: the two sessions of a turn (`ChatTurns`), the stream and
the tour (`GuidedTour`), checklists and documents (`DossierContents`), accounts
and their deletion (`Accounts`), the session that all the tools share
(`TurnTools`).

Most services are modelled in one way. A request occupies a slot (`...Requests`):
its `Start...` action holds the reads, the checks and the early returns; the
slot keeps what was decided; its `Finish...` action holds the writes and the
commit. Steps between which other sessions can see something (a commit, a flush
that locks, a call to the model) are actions of their own. A request that is
refused changes nothing and is not a step. `...Overlap`, chosen at the start,
says whether requests may overlap: some properties hold only when they do not,
and say so (`~ ...Overlap =>`).

### ChatTurns

A *turn* is one HTTP request. `pc` is where it stands in `send_message` or
`abandon_interactive_question`:

    idle -> expiring (text) | writing (answer, abandonment) -> committing
         -> streaming <-> asking -> linking -> finishing -> done
    committing -> refused (answer without text), any -> aborted

`db`, `latest` and `lock` are PostgreSQL's: the committed version of each row,
the newest version, and the session that wrote it and has not committed. A
statement reads `Visible`; a writer waits until the row is `Lockable`. A bulk
UPDATE (`_expire_pending_questions`, the tools' expiry, the link of the
assistant message) takes its rows when it starts (`todo`), then reaches them one
by one in any order, waits for each lock, and evaluates its WHERE again on the
version it finds. That re-evaluation keeps the row locked even when it no longer
matches. The ORM's UPDATE of an answer or an abandonment is by id and evaluates
nothing: it overwrites whatever the row has become since it was read.

| action | code |
|---|---|
| `SendText`, `ExpireRow`, `ExpireDone` | `send_message` without a question: `_expire_pending_questions` |
| `SendFor`, `SendForAny`, `WriteAnswer` | `_resolve_interactive_question` (404, 409, 400, 422 are `refused`), the flush, and the link of the answering message, in one transaction |
| `SendFor`, `WriteAbandon`, `CommitAbandon` | `abandon_interactive_question`, committed by `get_db` |
| `CommitBeforeStream` | the explicit commit before the stream (`chat.py:1277`) |
| `EarlyReturn` | the error stream for a message without text (`chat.py:1185`), and the commit of `get_db` behind it |
| `Ask`, `AskExpireRow`, `InsertQuestion` | `ask_interactive_question` and `_persist_widget_question`; the result is shown at once (`shown`) |
| `ToolCommit` | the tools whose services commit the stream's session (`action_plan/service.py:297`, `383`) |
| `ToolRollback` | `link_document_to_project` rolls the stream's session back on a duplicate (`projects/service.py:510`) and the turn goes on; `undone` remembers the questions whose row went with it |
| `FinishWithMessage`, `LinkRow`, `LinkDone`, `FinishWithTour`, `CommitStream` | the end of `generate_sse` |
| `Abort` | an exception that reaches the session, a disconnection, a crash, a deadlock victim: rollback |

`Idle` is the frontend's guard (`isStreaming` in `useChat.ts`, and the widgets
that are locked while it is set): per tab. The server has none.

### ChatClient

JavaScript again: an action is one handler, the code between two awaits, or one
event of the stream. Replies to the requests of one selection arrive in any
order, also after another conversation was selected (`reads`). The server is
there for what it decides: which question is pending, what was answered.

| action | code of `useChat.ts` |
|---|---|
| `CreateTalk`, `SelectTalk`, `DeleteTalk`, `MessagesArrive`, `QuestionsArrive`, `ReadFails` | conversations, `fetchMessages`, `fetchPendingQuestions` |
| `SendMessage`, `SubmitAnswer`, `AbandonAndSend` | the three ways to open a turn, and what is marked locally before the request |
| `TurnAccepted`, `Token`, `QuestionEvent`, `ResolvedEvent`, `DoneSaved`, `DoneEmpty`, `StreamEnds`, `TurnFails`, `ConnectionChanges` | `readStream` and the handlers of its events, the `catch` and `finally` |
| `TourRefused`, `TourStarts`, `TourEnds` | the `guided_tour` event, `startTour` awaited, the counters of consent |

### GuidedTour

`startTour` is a coroutine: `at` is the await it is suspended in.

    off -> loading -> retracting -> inviting -> navigating -> waiting
        -> seeking <-> showing -> reporting -> off;   waiting -> late -> off;
    loading, navigating, seeking -> failing -> off

An action is the code between two awaits, or one event handler. A promise that
an event resolves (`invited`, `passed`, and a retraction that ended) is followed
up before the next event, as JavaScript runs its microtasks: `Settled` guards
the handlers. `driver` is the driver.js instance (`shown`: a popover is up);
`ui` holds the flags of the store and whether the page mounts the widget (only
the default layout does, in a wide window); `retraction` is the animation whose
end `startTour` awaits, `stuck` when nothing is left to call back. driver.js is
outside the repository and modelled from its use: Escape or a click on the
overlay calls `onDestroyStarted`, `destroy()` from the code does not.

| action | code |
|---|---|
| `StartTour` | `startTour` called by the stream's `guided_tour` event; refused unless `tourState` is idle |
| `DriverLoaded`, `Retracted`, `Navigate`, `Navigated`, `PageReady`, `PageTimesOut`, `GiveUpPage` | the way to the page of the tour |
| `ShowStep`, `SkipStep`, `NextStep`, `ReportSkipped`, `Complete` | the loop over the steps and the end of the function |
| `NoticeCancel` | every `if (cancelled) return false` |
| `Crash`, `Recover` | the `catch` clause |
| `ClickNext`, `PressEscape`, `ClickClose` | the popover's buttons and countdown, and `onDestroyStarted` |
| `AuthFails`, `AuthCancels` | `handleAuthFailure`, which tests the flag, awaits an import, then cancels |
| `OpenWidget`, `CloseWidget`, `UnmountWidget`, `MountWidget`, `RetractionEnds` | the floating button, the header of the widget, a change of layout or of window width, the GSAP tween |
| `Send`, `EndStream` | `isStreaming`: one stream at a time, which awaits the tour |

### RefreshSessions

`tok` is the table; a row's `age` is the time since its revocation, counted up
to `Late`. `cred` is what a tab holds in memory and `stored` the copy in
`localStorage`: a refresh token and the remaining life of the access token that
came with it. `call` is the single-flight refresh of a tab. `SendRefresh` follows
any 401 answered to a tab that holds tokens: its access token ran out, or the
401 is late (of a request sent with the token before), or it refuses a wrong
password (`me/service.py:482`). A refresh may thus rotate a token that is a moment
old. `RetryRefused` is the second 401, of the request that was sent again
(`useAuth.ts:105-108`, `174-177`). A rotation is
`LookUp` (SELECT, and the decision), then `Rotate` (INSERT, UPDATE, commit); the
UPDATE of a logout is `StartRevoking` (the rows that are active now) and
`RevokeAll` (those that still are when it reaches them). `RefreshFails` is the
`catch` of `refresh()`: whatever fails, the tab clears its store and
`localStorage`. `LoadFromStorage` is the global middleware, or a reload, which
also loses what the tab had in flight. `root` and `ended` are history variables:
the login a token descends from, and the logins a committed logout covers.

### Accounts, Attestations

| action | code |
|---|---|
| `StartAccount`, `FinishAccount` | registration with or without an invitation, removal of a member, invitation, revocation, the request to delete an account: the checks, then the commit (a registration with an invitation for an account that has its essential consents clashes with them: `ConsentClash`) |
| `Cancelling` | the cancellation of a deletion starts, by its link or by a user |
| `Toggle`, `ChangeConsents`, `UseAssistant` | suspension by an administrator, consents, the log of the tools |
| `Job`, `DeletionDue` | `purge_scheduled_deletions.py`: the list of the accounts that are due, then one account after the other, each in a transaction (`tool_call_logs` makes it fail) |
| `InviteExpires` | time |
| `StartIssue`, `FinishIssue`, `IssueFails` | `generate_attestation`: the display number is a count plus one, computed when the request reads |
| `StartRevokeAtt`, `FinishRevokeAtt` | revocation by the holder or an administrator |
| `NewYear`, `RunsOut` | the year of the numbers, the expiry |
| `GetsReady`, `BecomesDue`, `PurgeHolder` | the scores an attestation needs, and `_revoke_active_attestations` and the deletion of the rows |

`Verified` is the order of the tests of `verify_attestation`.

### Dossiers, DossierSections, DossierContents

| action | code |
|---|---|
| `StartCreate`, `FinishCreate` | `create_application`: the search for a draft, the insertion |
| `StartMove`, `FinishMove` | the router's and the tools' change of status: the transition checked on the row that was read, `_create_snapshot` when a submission finds none, `validate_immutable` |
| `StartDeleteProject`, `FinishDeleteProject`, `ReopenProject` | `soft_delete_project` (forced or not), `update_project` |
| `ChangeCatalogue` | what a snapshot copies changes: the fund, the documents, the scores |
| `StartEdit`, `StartGenerate`, `FinishSection`, `FailGenerate` | the sections, read and written back as one JSON column, with a call to the model in between |
| `StartItem`, `FinishItem` | a checklist's document, attached or detached under the lock of its dossier (`held`) |
| `StartUpload`, `StartExport`, `FinishNew`, `FailNew` | the file at once, the row with the commit |
| `StartAnalysis`, `FinishAnalysis`, `Reanalyse` | the analysis in its request, and the new analysis that starts nothing |
| `StartDelete`, `FinishDelete`, `FailDelete` | `delete_document`: the references of every checklist under their locks, the file, the row |

`DossierLifecycle` is the abstract specification of the dossiers: `Dossiers`
maps the statuses to its phases (`PhaseOf`) and the snapshot to `frozen`.

### Catalogue, OfferMatches

`Catalogue`: a source is captured, sent for verification, verified by somebody
else, edited while it is a draft (`Editable`), outdated or deleted; a skill is created, edited (an edit of a published version
makes another version), published after an evaluation in between (`StartPublish`,
`FinishPublish`), unpublished or deleted. Each is a `Start`/`Finish` pair named
after the service's function. `source.seen` and the `by` of a source are what
the checks of `models/source.py` are about.

`OfferMatches`: a batch (`matchBatch`) is a session that goes through offers,
looks each one up, writes, and commits at its end: `StartRecompute` (a request
or a tool), `StartCompare`, `ProjectChanges` (the listener, debounced for thirty
seconds), then `LookForMatch`, `WriteMatch`, `CommitBatch` or `BatchFails`.
`StartAlerts`, `FinishAlerts` and `AlertsFail` are `notify_new_offer_matches`.
Scores are two levels, which is all a subscription's threshold tells apart.

### ConversationGraph, TurnTools

`ConversationGraph`: `RouterNode` takes any set of requests that the detectors
may find in a text, and decides as `router_node` does, from the module left
active, the page, a document; a node (`EsgScoringNode`, `ChatNode`, ...) answers
or calls a tool; `ToolNode` runs it and comes back. `RecursionLimit` is
LangGraph's.

`TurnTools`: `SaveTurn` and `FailTurn` are the two ends of `generate_sse`. A
tool is an operator: the scripts its code may follow on the session (`read`,
`check`, `look`, `write`, `try`, `insert`, `commit`, `ask`, `answer`), whether
it catches its exceptions, whether `with_retry` is around it. Calls of one
answer run concurrently (`ToolNode` gathers them), and a session that a
statement broke refuses everything until a rollback.

| action | code |
|---|---|
| `CallTool` | the model calls a tool of the lists `..._TOOLS` |
| `Reads`, `Writes`, `Commits`, `Refuses`, `Returns` | the statements of a tool, its refusals, its answer (logged by `with_retry`, whose failure is swallowed) |
| `Swallows` | a statement whose failure a `try` swallows: the session may be broken |
| `Conflicts` | the rollback of `link_document_to_project` |
| `Raises` | any other failure: caught by the tool, tried again by `with_retry`, or answered by `ToolNode` |

### ProjectEsg, CompanyEsg, Carbon, CreditScores, ActionPlan

| action | code |
|---|---|
| `StartAssessment`, `StartAnswer`, `StartFinalize`, `StartDeleteEsg`, `StartEsia`, `StartManual`, `FinishEsg`, `AbortFinalize` | `project_service.py`, the report, and the manual score of `update_project` |
| `Sync`, `WindowPasses` | `project_listener.py`: the task that copies the score to the project, its debounce |
| `CreateEvaluation`, `StartSave`, `StartFinalizeEsg`, `StartMulti`, `StartRecompute`, `StartReport` and their `Finish...` | `esg/service.py`, `multi_referential_service.py`, `reports/service.py`; `Graded` is the criteria, by pillar |
| `StartBilan`, `StartEntry`, `StartClose`, `StartCarbonReport` and their `Finish...`; `Render`, `CarbonCrash` | `carbon/service.py`; the task that renders a report, and the death of the process with its tasks |
| `StartScore`, `StampScore`, `NumberScore`, `FinishScore`, `ScoreFails` | `generate_credit_score`: the ten-second refusal, the clock read once the scores are computed, `get_next_version`, the insertion that `uq_credit_score_user_version` may refuse |
| `StartGenerate`, `ArchivePlan`, `FinishGenerate` | `generate_action_plan`, and the commit in its middle |
| `StartMove`, `CountActions`, `FinishMove`, `ReadBadges`, `AwardBadges` | `update_action_item`: the transition, the flush and the counters, the commit, then the badges |
| `ConditionChanges`, `PlanRequestFails` | the conditions of the badges of other modules, any failure between two steps |

### Revisions, Migrations

`Revisions` holds the `upgrade()` and the `downgrade()` of the 40 files of
`alembic/versions` as sequences of steps on sets of objects: `make` and `drop`
fail on what exists or does not, `ensure` and `clear` (`IF [NOT] EXISTS`) do
not, `check` fails on rows that a constraint or the revision itself refuses,
`commit` is an `autocommit_block()`, `own` the bare `COMMIT` of revision 044
after which each statement commits itself. `Migrations` runs them: `Upgrade` and
`Downgrade` issue a command, `Work` does its steps up to the next commit (or to
the failure, which rolls back to the last one), `Crash` stops it there, and
`Appears` and `Cleaned` bring and remove the rows that some revision refuses.
`RunSteps` goes through the steps by blocks of sixteen (`RunFrom`) only to keep
TLC's evaluation shallow; what the steps compute does not depend on the size of
a block.

## 3. The runs

| run | instance | question |
|---|---|---|
| `chat_overlap` | 3 turns, 2 questions (1 summary card), turn 1 in one tab, turns 2 and 3 in another; fairness | do two tabs keep locks and versions consistent, lose no answer, show no phantom question but what a tool of the turn rolled back, and end every turn? |
| `chat_serial` | the same turns from one tab, 3 questions | do the rows refine `QuestionLifecycle` when nothing overlaps? |
| `tour` | 4 steps; fairness | does a tour give everything back, and return? |
| `access` | 2 requests on 1 account, 2 people and 2 invitations; 2 tabs and 3 tokens; 2 requests on 2 attestations of 2 holders over 2 years; 2 conversations and 1 consent card | members, invitations, sessions, attestation numbers and statuses, consents |
| `services` | 2 requests on the life cycle of 2 dossiers, on 2 sections of one dossier, on the checklist of one dossier with 2 items and 2 documents, 1 source and 2 versions of a skill by 2 administrators, 2 offers; turns of a conversation; 2 calls of any of the tools | submissions and their snapshots, the life cycle of dossiers, edits, checklists, citations, routing, alerts, the session of a turn |
| `assessments` | 2 requests on 2 assessments and 2 referentials, 1 evaluation with 2 pillars, 2 carbon years and 2 reports, 3 credit scores over 5 ticks, 2 plans with 1 action, 2 badges of elsewhere; 3 migration commands on databases at any revision, with one kind of refused row | frozen assessments, scores and reports of what is beside them, versions, plans, badges, schema |
| `tour_close`, `accounts_invited`, `accounts_purge`, `esg_correction`, `graph_rounds`, `migration_retry` | the smallest instance | one disagreement each, see below |

What each property says is in the comment above it, with the code it is about.

Bounds, and why they are enough:

- Requests: two in flight show every overlap of two actors, and each runs again
  and again; the properties that mention only one row or one part are about what
  one other request can do to it. Three turns in `chat_overlap`: one asks, one
  answers, one overlaps both.
- Rows: two of each kind where a property relates two (two dossiers in
  `Dossiers`, two items and two documents of one checklist in `DossierContents`,
  two attestations of one year), one more where rows are only added
  (three credit scores, so that two generations can overlap after a first one).
  The parts that add rows stop when they are used up.
- Two questions let a bulk UPDATE lock rows in two orders; three serial ones
  give an expired, an answered and a pending one. Three tokens allow a login, its
  rotation, and a second rotation (of the same token or of its successor) or
  login; the theorems hold for any number.
- Clocks: `Grace = 1` and `Life = 2` keep the order of
  `refresh_token_grace_window_seconds = 5` and `access_token_expire_minutes = 1440`,
  on which no property rests; `Tick` waits while a transaction is open
  (a transaction takes much less than the window). `LastTick = 4`: five periods
  of ten seconds for three scores. `LastYear = 2`: a second year, whose numbers
  start again.
- `RecursionLimit = 25` is LangGraph's default, `RecomputeCap = 1` makes the cap
  of 50 offers bite with two. `MaxEntries = 2` entries per carbon year.
- Migrations: `MaxCommands = 3` (an upgrade that stops, the repair or the way
  back, another upgrade), `MaxRows = 1` kind of refused row at a time. The
  revisions are all there, and the start of the run evaluates what `SchemaBounds`
  says of each command from each of them.
- The longest tour of the registry has four steps, the shortest one. Tours,
  streams and failures repeat for ever.

Deadlock is not checked (`CHECK_DEADLOCK FALSE`) where an instance stops because
its turns, tokens, rows, years or commands are used up; `TurnsEnd` and
`CancelledWorkReturns` say what may not stop half-way, and a lock that is never
released (`held` in `DossierContents`) would leave `FailDelete` and the others
enabled anyway. Requests, people, tokens and rows are interchangeable in the
runs that use symmetry; those have no liveness property.

Fairness. `chat_overlap`: weak fairness of a turn's own steps (the handlers run,
and the model's reply ends; here `RoomToAsk` bounds the questions, `ToolCommit`
and `ToolRollback` need something written since the last one), and of PostgreSQL's breaking of a cycle of waiting
sessions. `Deadlocked` only sees cycles between current sessions, as the
database does: a turn waiting for its own request session, which sits idle in a
transaction, is not one, and nobody would break it. `tour`, `tour_close`: weak
fairness of `startTour`'s own steps (timers, imports, navigations that end or
fail) and of the import in `handleAuthFailure`; none of the user, who may leave a
popover up. `accounts_purge`: weak fairness of the job, which is run every day;
none of requests.

### What the violations say

1. `tour_close`. The close button of a popover calls `cancelTour` without
   resolving the promise of the step: `startTour` never returns, `isStreaming`
   stays true, and the chat refuses every message until the page is reloaded.
2. `accounts_invited`. A registration with an invitation inserts essential
   consents the account already has; the failure is caught, the commit fails.
3. `accounts_purge`. `tool_call_logs` refers to users and conversations without
   ON DELETE and is not purged: the purge of an account that used the assistant
   fails every day. So does that of a holder of an attestation, whose revocation
   names nobody (`PurgeHolder` in `Attestations`).
4. `esg_correction`. The message of an immutable assessment says to create
   another one; its finalisation is refused by a unique index.
5. `graph_rounds`. Only the ESG nodes count their rounds of tools; the others
   stop at the recursion limit, with an error.
6. `migration_retry`. An upgrade that a late revision stops cannot be run again
   from a database at 036 or before: 036 and 037 committed their tables.

## 4. What is proved

Theorems hold for every value of the constants that satisfies the named
assumptions; the runs check the same properties on small instances.

| module | theorems | the inductive invariant, and why |
|---|---|---|
| `ChatTurnsProofs` | `TypeCorrect`, `NoSelfDeadlockHolds`, `AnswersSurviveExpiry`, `ShownQuestionsSurvive`, `AnswersHaveMessages`, `OneTabFollowsLifecycle` (refinement) | `IInv` (`Invariance`) and, from one tab, `SerialInv`: see below |
| `GuidedTourProofs` | `TypeCorrect`, `NothingLeftBehind`, `NextTourCanStart` | `TourInv`: a cancelled tour is stopped and stays so, a tour that is not cancelled runs until it returns |
| `ChatClientProofs` | `NoConsentCountsTwice` | `ConsentInv`: a consent that may still be counted is one the server has and no counter has yet |
| `AccessProofs` | `AccountsKeepAMember`, `InvitationsJoinOne` | `AccountInv`: whoever joined with an invitation is still in its account, unless that was purged (`JoinedAreThere`); without overlap at most one request runs, and the removal that was checked still spares somebody (`RemovalSparesOne`) |
| | `AttestationsOnlyWorsen`, `NumbersCollideAfterAPurge` | `AttInv`: a revocation in flight is of a row that exists; without overlap it is still valid, and, until a row of its year is deleted, no number of a year exceeds their count and the request carries the next one |
| | `SessionsAreAlive`, `RefusalsHaveCause`, `GraceHandsOutUsable` | `SessionInv`: what tabs and requests hold was issued, every token has the login it descends from, a token is revoked by a rotation with a successor or by a logout, each login nobody logged out of has an active token; and a successor is revoked after the token it replaced (`SuccessorIsYounger`), so that within the grace window of the one, the other is within its own |
| | `AccessImplementsItsParts`, `AccessTyped` | the composition, from the invariants above |
| `DossiersProofs` | `SentIsSnapshotted`, `DossiersFollowLifecycle` (refinement) | `DossierInv`: a move in flight is about a row that exists, and takes the snapshot it needs or the row has it; `OneByOne`: without overlap the row is still the one the move was decided from |
| | `OthersSectionsStay` | `SectionInv`: without overlap the column a request holds is the current one, but for its section |
| | `ItemsKeepTheirDocuments`, `OthersItemsStay` | `FileInv`: whoever is to write a checklist holds its lock (`WritersHaveLocks`), what it will write is the current checklist but for its item or its document (`WritesAreCurrent`), and an analysis in flight is of a stored document |
| `ServicesProofs` | `SuccessesAreKept`, `CallsWriteOnce` | `TurnInv`: until a turn fails, what a call wrote is flushed, kept or undone; no call reaches a second attempt, since every tool below `with_retry` catches its exceptions (`RetriedToolsCatch`) |
| | `RequestsAreServed` | `GraphInv`: the routes, for any bound of the recursion (`RouteIsAFlag`: the node that is chosen is one that was flagged) |
| | `ToldOnce` | `AlertInv`: what the job of the alerts has read is there and nobody was told of it |
| | `CitedIsChecked` | `CatalogueInv`: a request in flight is about a source or a version that exists, and a source passes the checks of its table (`SourceChecks`); without overlap what the request was decided from is what is there when it commits (`DecisionsAreCurrent`) |
| | `ServicesImplementTheirParts`, `ServicesTyped` | the composition of seven services |
| `MigrationsProofs` | `SchemaStaysInBounds`, `VersionsAreBacked`, `LittleIsLeftBehind`, `MigrationsTyped` | `SchemaInv` (in `SchemaBounds`): see below |
| `AssessmentsProofs` | `FinalisedStaysAnswered` | `EsgInv`: the row that a finalisation has flushed is there; without overlap what a request was decided on is what the row says, and a finalised row is one of its answers (`RowsAreFrozen`). A score is a percentage (`ScoreIsAPercentage`) |
| | `ProjectEsgTyped` | `EsgListInv`: the list holds each finalised assessment once, though requests that overlap may finalise one row twice, and holds no other (`FinalisedAreListed`) |
| | `ScoresKeepTheirGrades` | `ScoreInv`: a request is about an evaluation that exists; without overlap what it is to write, of the evaluation or of its report, is of the grades that will be beside it (`GradesAreCurrent`) |
| | `CompanyScoresTyped` | the grades of a pillar add up to at most ten times their number (`SumBound`), so that a pillar is at most 100 points, a thousand tenths (`PillarBound`), and so is a score (`ScoreForBound`), however many criteria there are |
| | `FootprintsAddUp`, `CarbonTyped` | `CarbonInv`: what adds to an assessment or closes it has it, and what reports on one has it completed (`BilansAreThere`); the entries of a year and those on their way are bounded (`EntriesFit`); without overlap the total in flight is the one to write (`TotalsAreCurrent`) |
| | `VersionsAreInOrder`, `CreditTyped` | `CreditInv`: versions are one to the number of rows, and one that waits for its insertion is at most the next; without overlap it is later than every score |
| | `PlanTypes`, `PlanIsOneAndCounted`, `JourneyComesLast` | `PlanInv`: a request in flight is about a plan that exists; a count that waits for its commit is the count of the actions then; a full journey that is about to be awarded comes with what is missing of the others |
| | `AssessmentsImplementTheirParts`, `AssessmentsTyped` | the composition of six parts |

In most of these proofs the difficulty is the same: a request writes what it decided from
rows it read before, so the invariant speaks of the requests in flight (what
they are about still exists; without overlap, what they read is still so), and
each action of any other request is shown to keep that.

The three compositions. `AccessImplementsItsParts`, `ServicesImplementTheirParts`
and `AssessmentsImplementTheirParts` show that a behaviour of a composed
specification is one of each part: what is proved of a part from its own
specification holds of the run that checks it.

The argument of `ChatTurnsProofs`. As far as the rows are concerned the actions
have six shapes (`Moves`, `Writes`, `Inserts`, `Commits`, `RollsBack`,
`TakesBack`);
`StepShapes` proves that every step is one of them, and each invariant is proved
shape by shape. `IInv` adds to the checked invariants what they need:

- `LockInv`: a row nobody locks has only its committed version, and a lock's
  owner is a session of a turn that is running in it;
- `NeverVanishes`, `AnswerHeld`, `NewestAnswerHasMessage`: what a row's newest
  version may be given its committed one (a committed row does not become absent
  again, an answer only gives way to an abandonment), without which nothing can
  be said of the commit that publishes it;
- `ShownIsKept`: a question a turn has shown is committed, or locked by that
  turn's stream with a version that exists, unless a tool rolled it back
  (`undone`) or the turn aborted;
- `ReachesShown`: the rows a statement still has to reach are rows of questions
  that were shown, so no statement creates a row.

`OneTabFollowsLifecycle` assumes that all turns come from one tab (`FromOneTab`),
as `chat_serial` does: from two, the code does not follow the life cycle
(section 5). `SerialInv` says that at most one turn runs, that at most one row is
pending, committed or not, and how far the turn that runs may have taken the
newest rows from the committed ones: a request session has at most settled what
was pending (`SettledOnly`); a stream session has at most expired what was
pending and asked or expired new questions (`AskedOnly`), and whoever has
expired something has asked something, except inside a question tool
(`AskedWhatItExpired`). Every lock is then the running turn's, so that its commit
publishes all of it, which is one `Settle`, one `Ask`, or nothing; every other
step, a rollback included, changes no committed row.

The argument of `MigrationsProofs`. An object is in a schema after some steps
when one of them made it, or it was there, and no later one dropped it
(`ObjectsAfter`; a segment does what its steps do, by induction over them,
`RunStepsStays`): a greater schema before gives a greater one after, whatever
the steps are. So it is enough to follow, from each
revision, two schemas through every command that may begin there: the least one
(`Least`: what the revision stands for, without what a later one drops outside
its transaction) and the greatest (`Most`: with all that `Remains` names).
`SchemaInv` says that what is committed is between the two of its revision, and
that a command that runs has taken the schema exactly as far as its first steps;
it is inductive, whatever steps fail, whatever rows are there and wherever the
command crashes. What remains are facts about the text of the 40 revisions: that
at each commit of each of these commands the two schemas are again between the
bounds of the revision that is stamped by then (`EveryCommandStaysInBounds`),
that the stamps follow the heads (`StampsInOrder`), and that the heads are tips
(`HeadsAreTips`). They have no variable and no parameter: they are closed
formulas over the tables of `Revisions`, which a change of a revision may break
and no choice of constants can. `SchemaBounds` states them as named assumptions,
and TLC evaluates them when `assessments` starts; the theorems hold for any numbers of
commands and any kinds of rows given these tables. The induction over the steps
is over a set of numbers (`CountingUp`), since the theorems of the library take
an operator that the provers cannot instantiate.

Assumptions: `None` is no turn, question or tab, summary cards are questions,
`tab` maps turns to tabs (`ChatTurns`); a tour has at least one step
(`GuidedTour`); the grace window and the lifetime are numbers, and `NoToken` is no
token (`RefreshSessions`);
the recursion limit is positive (`ConversationGraph`); "none" is no
administrator and version 1 is a version (`Catalogue`); required criteria
are criteria (`ProjectEsg`), Mefali is a referential and no criterion has two
pillars (`CompanyEsg`), and `None` and
`Nothing` are no account and no document (`Accounts`, `DossierContents`); the
bounds on ticks, years, entries, batches, rows and commands are numbers; the attestations, the
carbon requests, the criteria of a project and of a company, the actions of a plan,
the rows of credit scores and the cards are finite sets, since they are counted
or added up; "full_journey" is not one of the badges earned elsewhere, and
`Nobody` is no card. TLC evaluates all of them.

TLC only, and why:

- liveness (`TurnsEnd`, `CancelledWorkReturns`, the violations of `tour_close` and
  `accounts_purge`): fairness and ENABLED are out of the prover's reach;
- what the text of the 40 revisions computes from one revision to another (the
  three facts of `SchemaBounds` above), and that the upgrade of `migration_retry`
  fails the second time: evaluations of one given script, which TLC does and an
  SMT solver cannot;
- the other violations, which are single counterexamples.

Every invariant, every refinement and every action property of the passing runs
is proved; `TurnsEnd` and `CancelledWorkReturns` are the temporal properties
that are only model-checked.

## 5. Not modelled, and other disagreements

### Not modelled, and simplifications

- Row-level security: the policies are the database's; a model of them would be
  a model of PostgreSQL. That the chat's stream session sets no scope, and that
  a commit in the middle of a request resets it, is not in the models.
- The audit log: listeners add its rows to the session they observe, and nothing
  reads it to decide.
- Scores, prompts, extraction of text, signatures, PDF and rendering: computed
  once, with no control that depends on them. A score is a level or the sum of
  the grades it is computed from; a text is one of two.
- Chat: the background title task, the profile hook of an answer. Conversation
  CRUD is in `ChatClient`, from the browser's side. ToolNode gathers the calls of
  one answer; in `ChatTurns` a question tool runs from its UPDATE to its INSERT
  with no other call of that answer in between. Without that, two questions of
  one answer could both be pending, and a commit or a rollback between the two
  statements could publish or undo the expiry alone. `TurnTools` has the calls
  of an answer run concurrently.
- Rows of `interactive_questions` are never deleted, and a conflict is an UPDATE
  of an existing row: inserts never wait for each other.
- The serial instances take the commit of a request to precede its response, as
  `get_db` did before FastAPI 0.118; from that version on, a response may come
  before its commit, and the tab's next request then overlaps it, which is the
  instance with overlaps. The same holds for the rotation of a refresh token.
- Tokens: the user and the account are active, refresh tokens do not expire (30
  days); password reset, member removal and the extension's tokens are left out.
  A reply that is lost or a request that fails is seen by the tab after the
  server is done with it.
- Guided tours: a change of page in the middle of a tour (`useGuidedTour.ts`
  450-526) is left out, no tour of the registry has one; so are the countdown's
  length and a reload of the page, which resets everything. An import that is
  awaited may be interleaved with events even when its module is loaded.
- Dossiers: the preparation sheet, the simulation and the recomputation against
  the snapshot write nothing. Action plan: reminders, and the explicit
  percentage of an action. Carbon: the choice of the emission factor and the
  reduction plan. Company ESG: benchmarks, recommendations, and the history of
  superseded scores.
- Financing: the matches with funds (`fund_matches`) are scripts of `TurnTools`;
  the publication of funds, intermediaries and referentials is a column that the
  services only read.
- Migrations: columns that nothing refuses and that come and go together are one
  object; data migrations are modelled by what they refuse and not by what they
  write. `env.py` offline mode is left out.

### Other disagreements, seen while modelling

Each was read in the code; no run is about it, either because a model of it
would restate one line, or because nothing in the repository promises the
opposite.

Chat and sessions.
- Two tabs leave two pending questions, although `interactive_questions` is
  documented to have one at most (in `ChatTurns`: `FollowsLifecycle` is checked
  from one tab).
- A summary card answered without a text is flushed as answered, then the
  request is refused, and `get_db` commits the half (`chat.py:1185`, 845-846;
  `SummaryCardWidget.vue:98-102`). `AnswerKeepsItsMessage` excludes these cards.
- Two refreshes that look a token up before either revokes it make two
  successors; and the grace window hands out, with a new access token, a successor
  that a logout revoked, or that another refresh has rotated in turn: a refresh
  with the latter is served while its own window lasts, and refused after it. All
  in `RefreshSessions`.
- A 401 "Mot de passe incorrect" (`me/service.py:482`) makes the tab refresh and
  send the request again, and the second 401 signs it out (`useAuth.ts:105`;
  `SendRefresh`, `RetryRefused`).
- A question that a turn has shown disappears when a later tool of the turn finds
  a duplicate link: the widget is there, nobody can answer it, and the turn ends
  well (`projects/service.py:510`; `ToolRollback` in `ChatTurns`, whose
  `ShownSurvives` excludes it by `undone`).
- A refresh reply that arrives after the tab's logout puts tokens back
  (`useAuth.ts:254`); a tab whose refresh is refused removes the other tabs'
  newer tokens from `localStorage`.
- Closing the widget while it retracts, or starting a tour on a page without it,
  leaves `startTour` waiting (`FloatingChatWidget.vue:292`); Escape on the last
  step cancels a tour that then returns true; `userInitiatedClose` stays false
  after Next, so the next Escape on the page is taken for Next.
- Selecting a conversation does not abort the running stream, which
  `_bmad-output/implementation-artifacts/7-3-resilience*.md:21` says it does;
  replies of two selections may arrive out of order; an answer marked before its
  POST is lost from the screen when the POST fails; deleting the current
  conversation leaves its question in the input bar; an event split over two
  chunks is ignored.

Graph and tools.
- `with_retry` (`common.py`, "1 retry automatique silencieux", FR-021) never
  retries: every tool below it catches its own exceptions, and is logged as a
  success. `CallsWriteOnce` rests on it.
- `link_document_to_project` rolls the session of the whole turn back for a
  duplicate (`projects/service.py:510`): earlier successes of the turn are lost
  (`undone` in `SuccessIsKept`). `save_project_esg_criterion` catches an
  IntegrityError without a rollback: the session of the turn stays broken.
- Tools that are offered and are in no ToolNode: sourcing, visualisation,
  simulation, matching, templates, alternative credit, `create_fund_application`
  in the financing node, the project tools of `_score_project`; the tools of
  several referentials are in no list; the memory and resource tools are in
  ToolNodes and never offered.
- The initial state of a turn resets `esg_assessment` and `carbon_data`, so that
  the routes that test them are dead; the ESG module is never deactivated at its
  end; the cap of rounds and the recursion limit leave a tool call without an
  answer in the history.
- Dashboard: `get_user_dashboard_summary` reads keys that do not exist;
  `_collect_score_sources` reads `log.arguments` (the column is `tool_args`);
  the next intermediary is not filtered by user. `search_history` requires 1536
  dimensions, revision 043 makes them 1024.

Documents, dossiers, projects.
- A new analysis sets the status and starts nothing (`documents/router.py:240`,
  promised at 228 and 245).
- Two draft creations that overlap both find none; the unique index of revision
  041 refuses the second one.

Assessments, credit, plan.
- A deleted project assessment leaves its score on the project; the two Mefali
  scores (legacy and referential) may differ; a carbon report whose process dies
  stays `generating`; the debounce of the project listener drops later changes.
- The ten-second "lock" of credit scores does not hold two simultaneous
  generations back; the engagement falls from 30 to 20 when a match goes from
  submitted to accepted (`credit/service.py:35`), and the green projects from 10
  to 0 on a contact.
- A failure between the two commits of `generate_action_plan` leaves no active
  plan; an explicit percentage overrides the 100 % of a completed action;
  `create_reminder` does not check whose action it is; a badge that another
  request awarded loses the others of its request, and the exception answers an
  error after the action was committed.

Financing.
- `financing/router.py` reads `ESGAssessment.total_score`, which does not exist;
  `search_compatible_funds` passes neither the ESG score nor the account;
  `notify_new_offer_matches` is called by nothing but tests; the listener's
  recomputation starts before the commit it reacts to;
  `update_match_intermediary` records a contact in any status;
  `_has_submitted_application` is satisfied by a draft; the update branch of
  `compute_offer_match` leaves a stale explanation of divergence
  (`matching_service.py` 388-415); the global score is the smaller of two in
  F14 and the project's in v045.

Attestations, account, catalogue.
- The number of an attestation is not tried again on a conflict, although the
  docstring (`attestations/service.py:138-141`) says so; after a purge it
  conflicts until the year ends (`NumberFreeUntilPurge`).
- The revocation that a purge writes is refused by `revoked_consistency_chk`
  (`purge.py:148`, `models/attestation.py:132-136`; promised in `purge.py:11`
  and `specs/027*/spec.md:175`).
- Publishing a version of a skill does not retire the earlier one
  (`skills/service.py:5-6`); a deleted draft may be published; a second edit of
  one published version fails on its name; edits during an evaluation are
  published unevaluated. The publication trigger does nothing.

Migrations.
- A first upgrade of an empty database fails at 032, whose identifier is longer
  than `alembic_version.version_num`: `env.py` widens the column at the start of
  a command, when the table is already there. The second attempt goes through
  (`Widened` in `Migrations`).
- There are two heads: `alembic upgrade head` (`Makefile:13`, `deploy.sh:509`,
  `Dockerfile.prod:44`) fails, `docker-compose.prod.yml:59-62` says so and goes
  to 047, so that the embeddings of 043 are never changed although 53-55 says
  they are.
- The round trip of `specs/041-f15-dossiers-offre/quickstart.md:186` fails:
  73d72f6 leaves its two enum types behind. The downgrade of 027 deletes rows of
  the audit log, which its trigger refuses; 028 down and up makes a second
  DIRECT intermediary; a crash in 036, 046 or 047 leaves tables that stop the
  next upgrade (`NothingLeftBehind` lists them).

## 6. What is left

In the order in which it would add most:

1. The effect of removals, suspensions and password resets on refresh tokens:
   `Accounts` and `RefreshSessions` in one composition.
2. The title task and the profile hook of a chat turn.
3. The matches with funds as a module of their own, beside `OfferMatches`.
