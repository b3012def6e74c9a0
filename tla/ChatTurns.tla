----------------------------- MODULE ChatTurns -----------------------------
(***************************************************************************)
(* One conversation of the chat and the requests that touch its            *)
(* interactive questions (backend/app/api/chat.py and                      *)
(* backend/app/graph/tools/interactive_tools.py).                          *)
(*                                                                         *)
(* A turn is one HTTP request: a text message, the answer to a question,   *)
(* or the abandonment of a question.  A message is handled in two database *)
(* transactions: the request session `db`, committed before the stream     *)
(* starts, and the stream session `sse_db`, committed at the end of the    *)
(* stream.  The rows of interactive_questions are kept with PostgreSQL's   *)
(* READ COMMITTED rules: a writer locks the row until its transaction      *)
(* ends, nobody else sees its version before the commit, and an UPDATE     *)
(* takes the rows that match when it starts, waits for each row's lock and *)
(* evaluates its WHERE again on the version it then finds.                 *)
(***************************************************************************)
EXTENDS Naturals, FiniteSets

CONSTANTS
    Turns,         \* the requests
    Questions,     \* identifiers of interactive questions
    SummaryCards,  \* the questions whose answer is synthesised as ""
    Tabs,          \* the browser tabs the conversation is open in
    tab,           \* tab[t]: the tab that sends turn t
    None           \* no message, no turn, no lock

Sessions == Turns \X {"request", "stream"}

ASSUME NoneAssumption == None \notin Turns \cup Questions \cup Sessions
ASSUME CardsAssumption == SummaryCards \subseteq Questions
ASSUME TabAssumption == tab \in [Turns -> Tabs]

VARIABLES
    db,      \* committed version of each question's row
    latest,  \* newest version of the row, its lock owner's if there is one
    lock,    \* the session that holds the row's lock
    shown,   \* the turn whose stream showed the question to the user
    undone,  \* history: the questions shown whose row a tool of the same turn
             \* rolled back
    pc,      \* where each turn stands
    kind,    \* what each turn was sent for
    target,  \* the question a turn answers or abandons
    todo     \* the rows left to the UPDATE statement a turn is executing

vars == <<db, latest, lock, shown, undone, pc, kind, target, todo>>

States == {"absent", "pending", "answered", "abandoned", "expired"}
Rows == [state : States, amsg : Turns \cup {None}, rmsg : Turns \cup {None}]
Absent == [state |-> "absent", amsg |-> None, rmsg |-> None]
NewQuestion == [state |-> "pending", amsg |-> None, rmsg |-> None]

RequestPCs == {"writing", "expiring", "committing"}
StreamPCs == {"streaming", "asking", "linking", "finishing"}
ActivePCs == RequestPCs \cup StreamPCs
EndPCs == {"done", "refused", "aborted"}

TypeOK ==
    /\ db \in [Questions -> Rows]
    /\ latest \in [Questions -> Rows]
    /\ lock \in [Questions -> Sessions \cup {None}]
    /\ shown \in [Questions -> Turns \cup {None}]
    /\ undone \subseteq Questions
    /\ pc \in [Turns -> {"idle"} \cup ActivePCs \cup EndPCs]
    /\ kind \in [Turns -> {"text", "answer", "abandon"}]
    /\ target \in [Turns -> Questions \cup {None}]
    /\ todo \in [Turns -> SUBSET Questions]

Init ==
    /\ db = [q \in Questions |-> Absent]
    /\ latest = [q \in Questions |-> Absent]
    /\ lock = [q \in Questions |-> None]
    /\ shown = [q \in Questions |-> None]
    /\ undone = {}
    /\ pc = [t \in Turns |-> "idle"]
    /\ kind = [t \in Turns |-> "text"]
    /\ target = [t \in Turns |-> None]
    /\ todo = [t \in Turns |-> {}]

-----------------------------------------------------------------------------
(* Rows, locks and transactions *)

\* The version of the row a statement of session s reads.
Visible(s, q) == IF lock[q] = s THEN latest[q] ELSE db[q]

Pending(row) == row.state = "pending"
Unlinked(row) == Pending(row) /\ row.amsg = None
Expired(row) == [row EXCEPT !.state = "expired"]

Lockable(s, q) == lock[q] \in {None, s}

\* Write a version of row q and keep its lock.
Write(s, q, row) ==
    /\ Lockable(s, q)
    /\ lock' = [lock EXCEPT ![q] = s]
    /\ latest' = [latest EXCEPT ![q] = row]
    /\ UNCHANGED db

\* Mutation of ExpireIfPending: the WHERE does not test the state.
ExpireAnyway(row) == Expired(row)

\* Mutation of ExpireIfPending: a state the column does not have.
SkipIfPending(row) ==
    IF Pending(row) THEN [row EXCEPT !.state = "skipped"] ELSE row

\* What the statement does to the row it reaches: the WHERE is evaluated again.
ExpireIfPending(row) == IF Pending(row) THEN Expired(row) ELSE row
LinkIfUnlinked(row, t) == IF Unlinked(row) THEN [row EXCEPT !.amsg = t] ELSE row

Commit(s) ==
    /\ db' = [q \in Questions |-> Visible(s, q)]
    /\ lock' = [q \in Questions |-> IF lock[q] = s THEN None ELSE lock[q]]
    /\ UNCHANGED latest

\* The transactions of some sessions are undone, and their locks released.
Rollback(sessions) ==
    LET owned == {q \in Questions : lock[q] \in sessions}
    IN  /\ latest' = [q \in Questions |-> IF q \in owned THEN db[q] ELSE latest[q]]
        /\ lock' = [q \in Questions |-> IF q \in owned THEN None ELSE lock[q]]
        /\ UNCHANGED db

RollbackTurn(t) == Rollback({<<t, "request">>, <<t, "stream">>})

Goto(t, there) == pc' = [pc EXCEPT ![t] = there]
Statement(t, rows) == todo' = [todo EXCEPT ![t] = rows]

\* A tab sends nothing while a turn of its own is in flight; the server does
\* not stop two tabs (or a tab that lost its connection and a turn the server
\* has not given up yet) from working on the conversation at once.
Idle(t) ==
    /\ pc[t] = "idle"
    /\ \A u \in Turns : tab[u] = tab[t] => pc[u] \notin ActivePCs

-----------------------------------------------------------------------------
(* The request session *)

\* A text message: the user's message is inserted and the UPDATE that expires
\* every pending question of the conversation starts.
SendText(t) ==
    /\ Idle(t)
    /\ Goto(t, "expiring")
    /\ kind' = [kind EXCEPT ![t] = "text"]
    /\ Statement(t, {q \in Questions : Pending(db[q])})
    /\ UNCHANGED <<db, latest, lock, shown, undone, target>>

\* Mutation of SendFor: the state of the question is not checked.
SendForAny(t, q, what) ==
    /\ Idle(t)
    /\ shown[q] # None /\ db[q] # Absent
    /\ kind' = [kind EXCEPT ![t] = what]
    /\ target' = [target EXCEPT ![t] = q]
    /\ Goto(t, "writing")
    /\ UNCHANGED <<db, latest, lock, shown, undone, todo>>

\* An answer or an abandonment of a question the user was shown: the row is
\* read, and the request is refused (404, 409) unless it is pending.  An
\* answer that fails validation (400, 422) is refused as well.
SendFor(t, q, what) ==
    /\ Idle(t)
    /\ shown[q] # None
    /\ kind' = [kind EXCEPT ![t] = what]
    /\ target' = [target EXCEPT ![t] = q]
    /\ \/ Pending(db[q]) /\ Goto(t, "writing")
       \/ (~Pending(db[q]) \/ what = "answer") /\ Goto(t, "refused")
    /\ UNCHANGED <<db, latest, lock, shown, undone, todo>>

\* Mutation of WriteAnswer: the id of the message is not stored.
WriteAnswerUnlinked(t) ==
    /\ pc[t] = "writing" /\ kind[t] = "answer"
    /\ Write(<<t, "request">>, target[t],
             [latest[target[t]] EXCEPT !.state = "answered"])
    /\ Goto(t, "committing")
    /\ UNCHANGED <<shown, undone, kind, target, todo>>

\* The ORM writes the state it decided on: UPDATE ... WHERE id, whatever the
\* row has become since it was read.  An answer that yields a message also
\* stores the message's id, in the same transaction.
WriteAnswer(t) ==
    /\ pc[t] = "writing" /\ kind[t] = "answer"
    /\ LET q == target[t] IN
        Write(<<t, "request">>, q,
              [latest[q] EXCEPT !.state = "answered",
                                !.rmsg = IF q \in SummaryCards THEN @ ELSE t])
    /\ Goto(t, "committing")
    /\ UNCHANGED <<shown, undone, kind, target, todo>>

WriteAbandon(t) ==
    /\ pc[t] = "writing" /\ kind[t] = "abandon"
    /\ LET q == target[t] IN
        Write(<<t, "request">>, q, [latest[q] EXCEPT !.state = "abandoned"])
    /\ Goto(t, "committing")
    /\ UNCHANGED <<shown, undone, kind, target, todo>>

\* One row of the UPDATE that expires the pending questions.
ExpireRow(t) ==
    /\ pc[t] = "expiring"
    /\ \E q \in todo[t] :
        /\ Write(<<t, "request">>, q, ExpireIfPending(latest[q]))
        /\ Statement(t, todo[t] \ {q})
    /\ UNCHANGED <<shown, undone, pc, kind, target>>

ExpireDone(t) ==
    /\ pc[t] = "expiring" /\ todo[t] = {}
    /\ Goto(t, "committing")
    /\ UNCHANGED <<db, latest, lock, shown, undone, kind, target, todo>>

\* The explicit commit that precedes the stream.
EmptyAnswer(t) == kind[t] = "answer" /\ target[t] \in SummaryCards

\* Mutation of CommitBeforeStream: the stream starts in an open transaction.
StreamWithoutCommit(t) ==
    /\ pc[t] = "committing"
    /\ kind[t] # "abandon" /\ ~EmptyAnswer(t)
    /\ Goto(t, "streaming")
    /\ UNCHANGED <<db, latest, lock, shown, undone, kind, target, todo>>

CommitBeforeStream(t) ==
    /\ pc[t] = "committing"
    /\ kind[t] # "abandon" /\ ~EmptyAnswer(t)
    /\ Commit(<<t, "request">>)
    /\ Goto(t, "streaming")
    /\ UNCHANGED <<shown, undone, kind, target, todo>>

\* An answer that yields no text: the handler returns an error event, and
\* get_db commits what the request wrote.
EarlyReturn(t) ==
    /\ pc[t] = "committing" /\ EmptyAnswer(t)
    /\ Commit(<<t, "request">>)
    /\ Goto(t, "refused")
    /\ UNCHANGED <<shown, undone, kind, target, todo>>

CommitAbandon(t) ==
    /\ pc[t] = "committing" /\ kind[t] = "abandon"
    /\ Commit(<<t, "request">>)
    /\ Goto(t, "done")
    /\ UNCHANGED <<shown, undone, kind, target, todo>>

-----------------------------------------------------------------------------
(* The stream session *)

\* Bound of the model: the identifiers left for the questions being asked.
RoomToAsk ==
    Cardinality({q \in Questions : shown[q] = None})
        > Cardinality({t \in Turns : pc[t] = "asking"})

\* A question tool first expires the conversation's pending questions ...
Ask(t) ==
    /\ pc[t] = "streaming"
    /\ RoomToAsk
    /\ Goto(t, "asking")
    /\ Statement(t, {q \in Questions : Pending(Visible(<<t, "stream">>, q))})
    /\ UNCHANGED <<db, latest, lock, shown, undone, kind, target>>

AskExpireRow(t) ==
    /\ pc[t] = "asking"
    /\ \E q \in todo[t] :
        /\ Write(<<t, "stream">>, q, ExpireIfPending(latest[q]))
        /\ Statement(t, todo[t] \ {q})
    /\ UNCHANGED <<shown, undone, pc, kind, target>>

\* ... then inserts its own; the tool's result carries it to the user at once,
\* long before the transaction commits.
InsertQuestion(t) ==
    /\ pc[t] = "asking" /\ todo[t] = {}
    /\ \E q \in Questions :
        /\ shown[q] = None
        /\ Write(<<t, "stream">>, q, NewQuestion)
        /\ shown' = [shown EXCEPT ![q] = t]
    /\ Goto(t, "streaming")
    /\ UNCHANGED <<undone, kind, target, todo>>

\* Another tool of the turn commits the session it shares.  Bound of the
\* model: a question tool runs from its UPDATE to its INSERT without another
\* call of the same reply in between.
ToolCommit(t) ==
    /\ pc[t] = "streaming"
    /\ \E q \in Questions : lock[q] = <<t, "stream">>
    /\ Commit(<<t, "stream">>)
    /\ UNCHANGED <<shown, undone, pc, kind, target, todo>>

\* Another tool of the turn rolls back the session it shares, to recover from
\* a duplicate, and the turn goes on: what the turn wrote there and had not
\* committed is lost, a question the user is already looking at included.
ToolRollback(t) ==
    /\ pc[t] = "streaming"
    /\ \E q \in Questions : lock[q] = <<t, "stream">>
    /\ Rollback({<<t, "stream">>})
    /\ undone' = undone \cup
            {q \in Questions : lock[q] = <<t, "stream">> /\ db[q].state = "absent"}
    /\ UNCHANGED <<shown, pc, kind, target, todo>>

\* The graph is done: the assistant message is inserted, and the UPDATE that
\* links the pending questions without a message to it starts.
FinishWithMessage(t) ==
    /\ pc[t] = "streaming"
    /\ Goto(t, "linking")
    /\ Statement(t, {q \in Questions : Unlinked(Visible(<<t, "stream">>, q))})
    /\ UNCHANGED <<db, latest, lock, shown, undone, kind, target>>

\* The reply is empty and a guided tour was sent: no message is stored.
FinishWithTour(t) ==
    /\ pc[t] = "streaming"
    /\ Goto(t, "finishing")
    /\ UNCHANGED <<db, latest, lock, shown, undone, kind, target, todo>>

LinkRow(t) ==
    /\ pc[t] = "linking"
    /\ \E q \in todo[t] :
        /\ Write(<<t, "stream">>, q, LinkIfUnlinked(latest[q], t))
        /\ Statement(t, todo[t] \ {q})
    /\ UNCHANGED <<shown, undone, pc, kind, target>>

LinkDone(t) ==
    /\ pc[t] = "linking" /\ todo[t] = {}
    /\ Goto(t, "finishing")
    /\ UNCHANGED <<db, latest, lock, shown, undone, kind, target, todo>>

\* Mutation of CommitStream: sse_db is closed without a commit.
CloseStream(t) ==
    /\ pc[t] = "finishing"
    /\ RollbackTurn(t)
    /\ Goto(t, "done")
    /\ UNCHANGED <<shown, undone, kind, target, todo>>

CommitStream(t) ==
    /\ pc[t] = "finishing"
    /\ Commit(<<t, "stream">>)
    /\ Goto(t, "done")
    /\ UNCHANGED <<shown, undone, kind, target, todo>>

\* An exception, a disconnection, a crash or PostgreSQL's deadlock detector
\* ends the turn: what its open transaction wrote is lost.
Abort(t) ==
    /\ pc[t] \in ActivePCs
    /\ RollbackTurn(t)
    /\ Goto(t, "aborted")
    /\ Statement(t, {})
    /\ UNCHANGED <<shown, undone, kind, target>>

-----------------------------------------------------------------------------
Start(t) ==
    \/ SendText(t)
    \/ \E q \in Questions : SendFor(t, q, "answer") \/ SendFor(t, q, "abandon")

Request(t) ==
    \/ WriteAnswer(t) \/ WriteAbandon(t)
    \/ ExpireRow(t) \/ ExpireDone(t)
    \/ CommitBeforeStream(t) \/ EarlyReturn(t) \/ CommitAbandon(t)

Stream(t) ==
    \/ Ask(t) \/ AskExpireRow(t) \/ InsertQuestion(t)
    \/ ToolCommit(t) \/ ToolRollback(t)
    \/ FinishWithMessage(t) \/ FinishWithTour(t)
    \/ LinkRow(t) \/ LinkDone(t) \/ CommitStream(t)

Next == \E t \in Turns : Start(t) \/ Request(t) \/ Stream(t) \/ Abort(t)

\* The session a turn is using, and the sessions it waits for when every row
\* left to its statement is locked by others.
Current(t) == <<t, IF pc[t] \in StreamPCs THEN "stream" ELSE "request">>

Wanted(t) ==
    IF pc[t] = "writing" THEN {target[t]}
    ELSE IF pc[t] \in {"expiring", "asking", "linking"} THEN todo[t]
    ELSE {}

Stuck(t) == Wanted(t) # {} /\ \A q \in Wanted(t) : ~Lockable(Current(t), q)
Holders(t) == {lock[q] : q \in Wanted(t)}

\* A cycle of sessions that wait for each other, as the database sees it.
Deadlocked(t) ==
    \E S \in SUBSET Turns :
        /\ t \in S
        /\ \A u \in S : Stuck(u) /\ Holders(u) \subseteq {Current(v) : v \in S}

\* The handlers run, the model's reply ends (a turn has a bounded number of
\* tool calls), and the database breaks the cycles of waiting sessions.
Fairness ==
    \A t \in Turns :
        /\ WF_vars(Request(t))
        /\ WF_vars(Stream(t))
        /\ WF_vars(Deadlocked(t) /\ Abort(t))

Spec == Init /\ [][Next]_vars
FairSpec == Spec /\ Fairness

-----------------------------------------------------------------------------
(* Properties *)

\* A row nobody locks has no version but the committed one, a question nobody
\* was shown has no row, and a turn that is not running holds no lock.
LockInv ==
    /\ \A q \in Questions : lock[q] = None => latest[q] = db[q]
    /\ \A q \in Questions : shown[q] = None => lock[q] = None /\ db[q] = Absent
    /\ \A t \in Turns, q \in Questions :
        /\ lock[q] = <<t, "request">> => pc[t] \in RequestPCs
        /\ lock[q] = <<t, "stream">> => pc[t] \in StreamPCs

\* The stream of a turn never waits for a row its own request session locks
\* (the deadlock that the commit before the stream was written to remove).
NoSelfDeadlock ==
    \A t \in Turns :
        Stuck(t) => Holders(t) \cap {<<t, "request">>, <<t, "stream">>} = {}

\* Expiring the pending questions never overwrites an answer that is already
\* committed, in whatever order the turns' statements and commits come.
ExpiryNeverErasesAnswer ==
    [][\A q \in Questions :
        db[q].state = "answered" => db'[q].state # "expired"]_vars

\* A turn that ended well leaves every question it showed in the database,
\* but for those a tool of that turn rolled back before anything committed
\* them (link_document_to_project does, on a duplicate): nothing else, in this
\* turn or in another, leaves the user looking at a question that is no row.
ShownSurvives ==
    \A q \in Questions :
        shown[q] # None /\ pc[shown[q]] = "done"
        => db[q].state # "absent" \/ q \in undone

\* Only the answer to a summary card is stored without the user's message.
AnswerKeepsItsMessage ==
    \A q \in Questions :
        db[q].state = "answered" /\ db[q].rmsg = None => q \in SummaryCards

\* Every turn that was started ends.
TurnsEnd == \A t \in Turns : pc[t] \in ActivePCs ~> pc[t] \in EndPCs

\* The committed rows go through the life cycle of QuestionLifecycle.
Lifecycle == INSTANCE QuestionLifecycle WITH
                 state <- [q \in Questions |-> db[q].state]
FollowsLifecycle == Lifecycle!Spec
=============================================================================
