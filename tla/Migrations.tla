----------------------------- MODULE Migrations -----------------------------
(***************************************************************************)
(* The alembic commands that move a PostgreSQL database along the          *)
(* revisions of Revisions.tla (backend/alembic/env.py, Makefile, the       *)
(* start-up command of docker-compose.prod.yml), with the rows that the    *)
(* revisions refuse, failures and crashes.                                 *)
(*                                                                         *)
(* A command is one transaction (env.py does not ask for one per           *)
(* migration), except that autocommit_block() commits what was done so far *)
(* and that after the bare COMMIT of revision 044 every statement, the     *)
(* update of alembic_version included, commits itself.  Within a           *)
(* transaction, the steps up to the next commit are one action: what       *)
(* another session can see, and what a crash leaves, does not depend on    *)
(* the point between them.                                                 *)
(***************************************************************************)
EXTENDS Revisions, FiniteSets, SequencesExt

CONSTANTS
    RowKinds,   \* the kinds of rows that some revision refuses
    MaxRows,    \* how many kinds a database has at the same time
    MaxCommands \* how many commands are issued

ASSUME MigrationBounds == MaxRows \in Nat /\ MaxCommands \in Nat

VARIABLES
    db,         \* what is committed: [schema, rows, heads]
    command,    \* the running command: its way, its revisions, the next of
                \* their steps, whether statements commit themselves
    issued,     \* how many commands have been issued
    aborted     \* whether the last command was an upgrade that rows made fail

schemaVars == <<db, command, issued, aborted>>

NoCommand == [way |-> "none"]
Running == command.way # "none"

\* The object that a kind of row lives in: the row goes with it.
HomeOf(row) ==
    CASE row = "alike factors"     -> <<"emission_factors", "">>
      [] row = "unplaced row"      -> <<"fund_applications", "">>
      [] row = "twin applications" -> <<"fund_applications", "offer_id">>
      [] row = "twin e-mails"      -> <<"users", "">>
      [] row = "anonymised audit"  -> <<"audit_log", "anonymous rows">>
      [] row = "new widget"        -> <<"interactive_questions", "payload">>
      [] row = "carbon report"     -> <<"report_type_enum", "carbon">>

\* What makes such a row impossible, once it is there.
GuardOf(row) ==
    CASE row = "alike factors"     -> <<"emission_factors", "year">>
      [] row = "unplaced row"      -> <<"fund_applications", "offer_id">>
      [] row = "twin applications" -> <<"fund_applications", "project_offer_unique">>
      [] row = "carbon report"     -> <<"reports", "assessment_id_fkey">>
      [] OTHER                     -> <<"no such object", "">>

-----------------------------------------------------------------------------
(* The revisions of a database *)

Revisions == ToSet(Trunk) \union {Orphan}
Ancestors(r) == ToSet(SubSeq(Trunk, 1, Place(IF r = Orphan THEN Fork ELSE r))) \union {r}
Applied(heads) == UNION {Ancestors(r) : r \in heads}
Parent(r) == IF r = Orphan THEN Fork ELSE Trunk[Place(r) - 1]
Above(S) == {Parent(r) : r \in S \ {Head(Trunk)}}

Made(r) == UNION {UpOf(r)[i].what : i \in {j \in DOMAIN UpOf(r) : UpOf(r)[j].do \in {"make", "ensure"}}}
Unmade(r) == UNION {UpOf(r)[i].what : i \in {j \in DOMAIN UpOf(r) : UpOf(r)[j].do \in {"drop", "clear"}}}

\* The schema after each revision of the trunk, the empty database first.
\* No revision makes again what an earlier one dropped.
Schemas[n \in 0..Len(Trunk)] ==
    IF n = 0 THEN {} ELSE (Schemas[n - 1] \ Unmade(Trunk[n])) \union Made(Trunk[n])

\* The schema that a database at these heads stands for.
Expected(heads) ==
    LET trunk == Schemas[Cardinality(Applied(heads) \ {Orphan})]
    IN IF Orphan \in heads THEN (trunk \ Unmade(Orphan)) \union Made(Orphan) ELSE trunk

-----------------------------------------------------------------------------
(* One step *)

Needed(r) == UNION {{<<o, n>> : o \in UpOf(r)[i].what, n \in UpOf(r)[i].needs} : i \in DOMAIN UpOf(r)}
Needs == UNION {Needed(r) : r \in Revisions}

\* alembic_version is made with 32 characters; env.py widens it at the start of
\* the next command.
VersionTable == <<"alembic_version", "">>
Widened == <<"alembic_version", "64 characters">>
LongNames == {"032", "035", "041", "043 emails", "044", "045"}

Gone(schema, what) == {o \in schema : o \in what \/ <<o[1], "">> \in what}

\* A statement fails on what exists, on what does not, on a container that is
\* not there, or on one that something else still needs; the name of some
\* revisions does not fit the column that alembic makes for it.
Collides(view, s) ==
    \/ s.do = "make" /\ (s.what \cap view.schema # {} \/ ~ Whole(s.needs) \subseteq view.schema)
    \/ s.do = "stamp" /\ s.what \cap LongNames # {} /\ Widened \notin view.schema
    \/ s.do = "ensure" /\ ~ Whole(s.needs) \subseteq view.schema
    \/ s.do = "drop" /\ ~ s.what \subseteq view.schema
    \/ s.do \in {"drop", "clear"} /\
        \E gone \in {Gone(view.schema, s.what)} :
            \E d \in Needs : <<d[2], "">> \in gone /\ d[1] \in view.schema /\ d[1] \notin gone

Did(view, s) ==
    CASE s.do \in {"make", "ensure"} -> [view EXCEPT !.schema = @ \union s.what]
      [] s.do \in {"drop", "clear"}  ->
            [view EXCEPT !.schema = {o \in @ : o \notin s.what /\ <<o[1], "">> \notin s.what},
                         !.rows = {x \in @ : HomeOf(x) \in view.schema \ Gone(view.schema, s.what)}]
      [] s.do = "stamp" -> [view EXCEPT !.heads = (@ \ Above(s.what)) \union s.what]
      [] s.do = "unstamp" ->
            [view EXCEPT !.heads = (@ \ s.what) \union (Above(s.what) \ Applied(@ \ s.what))]
      [] OTHER -> view

Outcome(view, s) ==
    IF Collides(view, s) THEN "collided"
    ELSE IF s.do = "check" /\ s.what \cap view.rows # {} THEN "refused" ELSE "ok"

\* Mutation of After: what a statement cannot do is skipped, and the revision goes on.
AfterSkipping(before, s) ==
    [outcome |-> "ok", view |-> IF Outcome(before.view, s) = "ok" THEN Did(before.view, s) ELSE before.view]

After(before, s) == [outcome |-> Outcome(before.view, s), view |-> Did(before.view, s)]

\* The steps one after the other, until one fails.  The singleton makes TLC
\* evaluate what the steps before did once.
RunFrom(before, steps) ==
    LET run[i \in 0..Len(steps)] ==
            IF i = 0 THEN before
            ELSE CHOOSE ran \in {IF now.outcome = "ok" THEN After(now, steps[i]) ELSE now :
                                    now \in {run[i - 1]}} : TRUE
    IN run[Len(steps)]

\* By blocks, which only bounds how deep TLC's evaluation goes.
Block == 16
BlockOf(steps, k) == SubSeq(steps, Block * (k - 1) + 1, Min({Block * k, Len(steps)}))
Blocks(steps) == (Len(steps) + Block - 1) \div Block

RunSteps(view, steps) ==
    LET run[k \in 0..Blocks(steps)] ==
            IF k = 0 THEN [outcome |-> "ok", view |-> view]
            ELSE CHOOSE ran \in {RunFrom(now, BlockOf(steps, k)) : now \in {run[k - 1]}} : TRUE
    IN run[Blocks(steps)]

-----------------------------------------------------------------------------
(* Between the commands *)

InitMigrations ==
    /\ \E h \in {{}} \union {{r} : r \in ToSet(Trunk)} :
            db = [schema |-> Expected(h) \union (IF h = {} THEN {} ELSE {VersionTable}), rows |-> {}, heads |-> h]
    /\ command = NoCommand
    /\ issued = 0
    /\ aborted = FALSE

\* Users and administrators make rows of a kind, for as long as nothing in the
\* schema or in the running release keeps them from it.
Appears(row) ==
    /\ ~ Running
    /\ row \notin db.rows
    /\ Cardinality(db.rows) < MaxRows
    /\ HomeOf(row) \in db.schema
    /\ GuardOf(row) \notin db.schema
    /\ row = "twin e-mails" => "043 emails" \notin Applied(db.heads)
    /\ db' = [db EXCEPT !.rows = @ \union {row}]
    /\ UNCHANGED <<command, issued, aborted>>

\* The operator settles them by hand; the audit log only grows.
Cleaned(row) ==
    /\ ~ Running
    /\ row \in db.rows \ {"anonymised audit"}
    /\ db' = [db EXCEPT !.rows = @ \ {row}]
    /\ UNCHANGED <<command, issued, aborted>>

-----------------------------------------------------------------------------
(* A command *)

\* The revisions in an order alembic may run them: where the one that nothing
\* comes after falls among the others is its own choice.
Orders == {InsertAt(Trunk, i, Orphan) : i \in Place(Fork) + 1..Len(Trunk) + 1}
Missing(order, applied) == SelectSeq(order, LAMBDA r : r \notin applied)

Begin(way, plan) ==
    /\ ~ Running
    /\ plan # <<>>
    /\ issued < MaxCommands
    /\ issued' = issued + 1
    /\ command' = [way |-> way, plan |-> plan, at |-> 1, own |-> FALSE]
    /\ aborted' = FALSE
    /\ db' = [db EXCEPT !.schema = @ \union (IF VersionTable \in @ THEN {Widened} ELSE {})]

\* "alembic upgrade 047..." of the deployment, and "alembic upgrade heads";
\* "alembic upgrade head" is refused, for there are two.
Upgrade ==
    \E applied \in {Applied(db.heads)} :
        \E plan \in {Missing(order, applied) : order \in {Trunk} \union Orders} : Begin("up", plan)

\* One head goes back by one revision; the fork stays while a branch is there.
Downgrade == \E r \in db.heads : r \notin Applied(db.heads \ {r}) /\ Begin("down", <<r>>)

\* The steps of the command, with the update of alembic_version that follows
\* each revision.
StepsOf(way, r) ==
    IF way = "up" THEN Append(UpOf(r), Step("stamp", {r}, {})) ELSE Append(DownOf(r), Step("unstamp", {r}, {}))
Script(way, plan) ==
    <<Step("ensure", {VersionTable}, {})>> \o FlattenSeq([k \in DOMAIN plan |-> StepsOf(way, plan[k])])

\* Mutation of SegmentEnd: every statement commits itself.
SegmentEndAtEachStep(c, script) == c.at

\* The steps up to the next commit, or to the end; what they did stays, or the
\* transaction is rolled back at the one that fails.
SegmentEnd(c, script) ==
    Min({i \in c.at..Len(script) : i = Len(script) \/ c.own \/ script[i].do \in {"commit", "own"}})

Work ==
    /\ Running
    /\ UNCHANGED issued
    /\ \E script \in {Script(command.way, command.plan)} :
       \E last \in {SegmentEnd(command, script)} :
       \E ran \in {RunSteps(db, SubSeq(script, command.at, last))} :
            IF ran.outcome # "ok"
            THEN /\ command' = NoCommand
                 /\ aborted' = (command.way = "up" /\ ran.outcome = "refused")
                 /\ UNCHANGED db
            ELSE /\ db' = ran.view
                 /\ command' = IF last = Len(script) THEN NoCommand
                               ELSE [command EXCEPT !.at = last + 1, !.own = @ \/ script[last].do = "own"]
                 /\ UNCHANGED aborted

\* The process or its connection is lost: the open transaction goes with it.
Crash ==
    /\ Running
    /\ command' = NoCommand
    /\ UNCHANGED <<db, issued, aborted>>

NextMigrations ==
    \/ \E row \in RowKinds : Appears(row) \/ Cleaned(row)
    \/ Upgrade
    \/ Downgrade
    \/ Work
    \/ Crash

SpecMigrations == InitMigrations /\ [][NextMigrations]_schemaVars

-----------------------------------------------------------------------------
(* Properties *)

Objects == UNION {Made(r) : r \in Revisions}

MigrationsTypeOK ==
    /\ db.rows \subseteq RowKinds
    /\ Cardinality(db.rows) <= MaxRows
    /\ aborted \in BOOLEAN /\ issued \in 0..MaxCommands
    /\ db.heads \subseteq Revisions
    /\ db.schema \subseteq Objects \union {VersionTable, Widened}
    /\ Running => command.way \in {"up", "down"} /\ command.plan # <<>> /\ command.at > 0

\* Whatever way a database came to its revision, through crashes, refusals and
\* downgrades, everything the revision stands for is in its schema, but for
\* what a revision ahead has dropped already outside its transaction.
Dropped == UNION {{r} \X Unmade(r) : r \in Revisions}
VersionIsBacked ==
    ~ Running =>
        Expected(db.heads) \subseteq
            db.schema \union {d[2] : d \in {x \in Dropped : x[1] \notin Applied(db.heads)}}

\* What a downgrade or an abort leaves behind is an enum value, one of the two
\* types of the applications (73d72f6ebd8f does not drop them), or was made by
\* a revision that commits before its version is stamped.
EnumValues ==
    PartsOf("reminder_type_enum", {"referential_version_evolved", "new_offer_alert"})
        \union PartsOf("credit_category_enum", {"mobile_money_flux", "photos_ia", "public_data"})
        \union {<<"audit_source", "extension">>, <<"report_type_enum", "carbon">>}
CommittedEarly == {"036", "037", "044", "045", "046", "047", Orphan}
Remains ==
    EnumValues \union {VersionTable, Widened} \union Whole({"target_type_app_enum", "application_status_enum"})
        \union UNION {Made(r) : r \in CommittedEarly}
NothingLeftBehind == ~ Running => db.schema \ Expected(db.heads) \subseteq Remains

\* 043_normalize_users_email_lowercase.py:63-69, when two users differ by the case
\* of their e-mail: "Résolvez manuellement ... puis relancez la migration."
\* Once they are settled, the same upgrade goes through.
AbortedMigrationCanBeRerun ==
    aborted =>
        RunSteps([db EXCEPT !.rows = {}], Script("up", Missing(Trunk, Applied(db.heads)))).outcome = "ok"
=============================================================================
