-------------------------- MODULE ChatTurnsProofs --------------------------
(***************************************************************************)
(* What TLAPS proves of ChatTurns, for any set of turns, questions, tabs   *)
(* and summary cards.                                                      *)
(*                                                                         *)
(* Every step of the specification is, for the rows, one of six shapes:    *)
(* a turn moves on and touches no row, a session writes one row, a tool    *)
(* inserts a question, a session commits, a turn is rolled back and ends,  *)
(* a tool rolls the stream session back and the turn goes on.              *)
(* StepShapes proves it once; the invariants are then proved shape by      *)
(* shape instead of action by action.                                      *)
(*                                                                         *)
(* The life cycle of the questions needs more, and has it only while one   *)
(* tab drives the conversation: how far the two sessions of the turn that  *)
(* runs may have taken the rows from what is committed (SerialInv).        *)
(***************************************************************************)
EXTENDS ChatTurns, TLAPS

\* Where a turn may go while its locks stay: within its session.
StaysIn(t) ==
    /\ pc[t] \in RequestPCs => pc'[t] \in RequestPCs
    /\ pc[t] \in StreamPCs => pc'[t] \in StreamPCs

OthersStay(t) == \A u \in Turns \ {t} : pc'[u] = pc[u]

\* What one write may do to a row.
RowStep(q, old, new) ==
    /\ new \in Rows
    /\ old.state # "absent" => new.state # "absent"
    /\ old.state \in {"answered", "abandoned"} => new.state \in {"answered", "abandoned"}
    /\ new.state = "answered" /\ new.rmsg = None
          => q \in SummaryCards \/ (old.state = "answered" /\ old.rmsg = None)

Moves(t) ==
    /\ UNCHANGED <<db, latest, lock, shown, undone>>
    /\ StaysIn(t) /\ OthersStay(t)
    /\ pc[t] \notin EndPCs
    /\ pc'[t] # "done"

Writes(t, q) ==
    /\ \E row \in Rows : Write(Current(t), q, row) /\ RowStep(q, latest[q], row)
    /\ shown[q] # None /\ UNCHANGED <<shown, undone>>
    /\ pc[t] \in ActivePCs
    /\ StaysIn(t) /\ OthersStay(t)

Inserts(t, q) ==
    /\ Write(<<t, "stream">>, q, NewQuestion)
    /\ shown[q] = None /\ shown' = [shown EXCEPT ![q] = t]
    /\ UNCHANGED undone
    /\ pc[t] \in StreamPCs /\ pc' = [pc EXCEPT ![t] = "streaming"]

Commits(t) ==
    /\ Commit(Current(t))
    /\ UNCHANGED <<shown, undone>>
    /\ pc[t] \in ActivePCs
    /\ OthersStay(t)

RollsBack(t) ==
    /\ RollbackTurn(t)
    /\ UNCHANGED <<shown, undone>>
    /\ pc[t] \in ActivePCs /\ pc' = [pc EXCEPT ![t] = "aborted"]

\* The questions whose insertion a rollback of the stream of t takes back.
TakenBack(t) == {q \in Questions : lock[q] = <<t, "stream">> /\ db[q].state = "absent"}

TakesBack(t) ==
    /\ Rollback({<<t, "stream">>})
    /\ shown' = shown /\ undone' = undone \cup TakenBack(t)
    /\ pc[t] = "streaming" /\ pc' = pc

\* A statement only reaches rows of questions somebody was shown.
ReachesShown ==
    \A t \in Turns :
        /\ \A q \in todo[t] : shown[q] # None
        /\ pc[t] = "writing" => target[t] \in Questions /\ shown[target[t]] # None

-----------------------------------------------------------------------------
(* Types and shapes *)

LEMMA RowLemma ==
    ASSUME NEW row \in Rows, NEW t \in Turns, NEW q \in Questions
    PROVE  /\ RowStep(q, row, ExpireIfPending(row))
           /\ RowStep(q, row, LinkIfUnlinked(row, t))
           /\ RowStep(q, row, [row EXCEPT !.state = "abandoned"])
           /\ RowStep(q, row, [row EXCEPT !.state = "answered",
                                 !.rmsg = IF q \in SummaryCards THEN @ ELSE t])
  BY NoneAssumption
     DEF Rows, States, RowStep, ExpireIfPending, LinkIfUnlinked, Expired, Pending, Unlinked

LEMMA NewRows == Absent \in Rows /\ NewQuestion \in Rows
  BY DEF Rows, States, Absent, NewQuestion

LEMMA SessionsOf ==
    ASSUME NEW t \in Turns
    PROVE  /\ <<t, "request">> \in Sessions /\ <<t, "stream">> \in Sessions
           /\ Current(t) \in Sessions
           /\ <<t, "request">> # None /\ <<t, "stream">> # None
           /\ Current(t) # None
  BY NoneAssumption DEF Sessions, Current

\* A write of a row, a commit and a rollback keep the types of the table.
TableType ==
    /\ db \in [Questions -> Rows]
    /\ latest \in [Questions -> Rows]
    /\ lock \in [Questions -> Sessions \cup {None}]

LEMMA WriteType ==
    ASSUME TypeOK, NEW s \in Sessions, NEW q \in Questions, NEW row \in Rows,
           Write(s, q, row)
    PROVE  TableType'
  BY DEF TypeOK, Write, TableType

LEMMA CommitType ==
    ASSUME TypeOK, NEW s \in Sessions, Commit(s)
    PROVE  TableType'
  BY DEF TypeOK, Commit, Visible, TableType

LEMMA RollbackType ==
    ASSUME TypeOK, NEW sessions, Rollback(sessions)
    PROVE  TableType'
  BY DEF TypeOK, Rollback, TableType

\* The six shapes, and the types after them.
LEMMA StepShapes ==
    ASSUME TypeOK, ReachesShown, LockInv, NEW t \in Turns,
           Start(t) \/ Request(t) \/ Stream(t) \/ Abort(t)
    PROVE  /\ TypeOK'
           /\ \/ Moves(t)
              \/ \E q \in Questions : Writes(t, q) \/ Inserts(t, q)
              \/ Commits(t)
              \/ RollsBack(t)
              \/ TakesBack(t)
<1> DEFINE Shape == \/ Moves(t)
                    \/ \E q \in Questions : Writes(t, q) \/ Inserts(t, q)
                    \/ Commits(t)
                    \/ RollsBack(t)
                    \/ TakesBack(t)
           Control == /\ pc' \in [Turns -> {"idle"} \cup ActivePCs \cup EndPCs]
                      /\ kind' \in [Turns -> {"text", "answer", "abandon"}]
                      /\ target' \in [Turns -> Questions \cup {None}]
                      /\ todo' \in [Turns -> SUBSET Questions]
                      /\ shown' \in [Questions -> Turns \cup {None}]
<1> USE DEF RequestPCs, StreamPCs, ActivePCs, EndPCs, Goto, Statement
<1>1. ASSUME SendText(t) \/ ExpireDone(t) \/ Ask(t) \/ FinishWithMessage(t)
             \/ FinishWithTour(t) \/ LinkDone(t)
      PROVE  TypeOK' /\ Shape
  <2>1. Moves(t)
    BY <1>1 DEF TypeOK, Moves, StaysIn, OthersStay, Idle, SendText, ExpireDone, Ask,
                FinishWithMessage, FinishWithTour, LinkDone
  <2>2. TypeOK'
    BY <1>1 DEF TypeOK, SendText, ExpireDone, Ask, FinishWithMessage, FinishWithTour, LinkDone
  <2> QED
    BY <2>1, <2>2
<1>2. ASSUME NEW q \in Questions, NEW what \in {"answer", "abandon"}, SendFor(t, q, what)
      PROVE  TypeOK' /\ Shape
  <2>1. Moves(t)
    BY <1>2 DEF TypeOK, Moves, StaysIn, OthersStay, Idle, SendFor
  <2>2. TypeOK'
    BY <1>2 DEF TypeOK, SendFor
  <2> QED
    BY <2>1, <2>2
<1>3. ASSUME WriteAnswer(t) \/ WriteAbandon(t)
      PROVE  TypeOK' /\ Shape
  <2> DEFINE q == target[t]
             row == IF kind[t] = "answer"
                    THEN [latest[q] EXCEPT !.state = "answered",
                                           !.rmsg = IF q \in SummaryCards THEN @ ELSE t]
                    ELSE [latest[q] EXCEPT !.state = "abandoned"]
  <2>1. q \in Questions /\ shown[q] # None /\ pc[t] = "writing"
    BY <1>3 DEF ReachesShown, WriteAnswer, WriteAbandon
  <2>2. Write(<<t, "request">>, q, row)
    BY <1>3 DEF WriteAnswer, WriteAbandon
  <2>3. latest[q] \in Rows
    BY <2>1 DEF TypeOK
  <2>4. RowStep(q, latest[q], row)
    <3>1. CASE kind[t] = "answer"
      BY <3>1, <2>1, <2>3, RowLemma
    <3>2. CASE kind[t] # "answer"
      BY <3>2, <2>1, <2>3, RowLemma
    <3> QED
      BY <3>1, <3>2
  <2>5. row \in Rows
    BY <2>4 DEF RowStep
  <2>6. Current(t) = <<t, "request">>
    BY <2>1 DEF Current
  <2>7. /\ UNCHANGED <<shown, undone, kind, target, todo>>
        /\ pc' = [pc EXCEPT ![t] = "committing"]
    BY <1>3 DEF WriteAnswer, WriteAbandon
  <2>8. Writes(t, q)
    <3> HIDE DEF row, q
    <3>1. \E r \in Rows : Write(Current(t), q, r) /\ RowStep(q, latest[q], r)
      BY <2>2, <2>4, <2>5, <2>6
    <3>2. StaysIn(t) /\ OthersStay(t)
      BY <2>1, <2>7 DEF StaysIn, OthersStay, TypeOK
    <3> QED
      BY <2>1, <2>7, <3>1, <3>2 DEF Writes
  <2>9. TableType'
    BY <2>1, <2>2, <2>5, WriteType, SessionsOf
  <2>10. TypeOK'
    BY <2>7, <2>9 DEF TypeOK, TableType
  <2> QED
    BY <2>1, <2>8, <2>10
<1>4. ASSUME ExpireRow(t) \/ AskExpireRow(t) \/ LinkRow(t)
      PROVE  TypeOK' /\ Shape
  <2>1. PICK q \in todo[t] :
          /\ \/ Write(Current(t), q, ExpireIfPending(latest[q]))
             \/ Write(Current(t), q, LinkIfUnlinked(latest[q], t))
          /\ todo' = [todo EXCEPT ![t] = todo[t] \ {q}]
    BY <1>4 DEF ExpireRow, AskExpireRow, LinkRow, Current
  <2>2. q \in Questions /\ latest[q] \in Rows /\ shown[q] # None
    BY <2>1 DEF TypeOK, ReachesShown
  <2>3. /\ UNCHANGED <<shown, undone, kind, target, pc>>
        /\ pc[t] \in ActivePCs
    BY <1>4 DEF ExpireRow, AskExpireRow, LinkRow
  <2>4. PICK row \in Rows : Write(Current(t), q, row) /\ RowStep(q, latest[q], row)
    <3>1. CASE Write(Current(t), q, ExpireIfPending(latest[q]))
      <4>1. RowStep(q, latest[q], ExpireIfPending(latest[q]))
        BY <2>2, RowLemma
      <4> QED
        BY <3>1, <4>1 DEF RowStep
    <3>2. CASE Write(Current(t), q, LinkIfUnlinked(latest[q], t))
      <4>1. RowStep(q, latest[q], LinkIfUnlinked(latest[q], t))
        BY <2>2, RowLemma
      <4> QED
        BY <3>2, <4>1 DEF RowStep
    <3> QED
      BY <2>1, <3>1, <3>2
  <2>6. Writes(t, q)
    <3>1. StaysIn(t) /\ OthersStay(t)
      BY <2>3 DEF StaysIn, OthersStay
    <3> QED
      BY <2>2, <2>3, <2>4, <3>1 DEF Writes
  <2>7. TableType'
    BY <2>2, <2>4, WriteType, SessionsOf
  <2>8. TypeOK'
    BY <2>1, <2>3, <2>7 DEF TypeOK, TableType
  <2> QED
    BY <2>2, <2>6, <2>8
<1>5. ASSUME InsertQuestion(t)
      PROVE  TypeOK' /\ Shape
  <2>1. PICK q \in Questions : Inserts(t, q)
    BY <1>5 DEF InsertQuestion, Inserts
  <2>2. TableType'
    BY <2>1, NewRows, WriteType, SessionsOf DEF Inserts
  <2>3. TypeOK'
    BY <1>5, <2>1, <2>2 DEF TypeOK, TableType, Inserts, InsertQuestion
  <2> QED
    BY <2>1, <2>3
<1>6. ASSUME \/ CommitBeforeStream(t) \/ EarlyReturn(t) \/ CommitAbandon(t)
             \/ ToolCommit(t) \/ CommitStream(t)
      PROVE  TypeOK' /\ Shape
  <2>1. Commit(Current(t))
    BY <1>6 DEF Current, CommitBeforeStream, EarlyReturn, CommitAbandon, ToolCommit, CommitStream
  <2>2. TableType'
    BY <2>1, CommitType, SessionsOf
  <2>3. Commits(t)
    BY <1>6, <2>1 DEF Commits, OthersStay, TypeOK, CommitBeforeStream, EarlyReturn,
                      CommitAbandon, ToolCommit, CommitStream
  <2>4. TypeOK'
    BY <1>6, <2>2 DEF TypeOK, TableType, CommitBeforeStream, EarlyReturn,
                      CommitAbandon, ToolCommit, CommitStream
  <2> QED
    BY <2>3, <2>4
<1>7. ASSUME Abort(t)
      PROVE  TypeOK' /\ Shape
  <2>1. TableType'
    BY <1>7, RollbackType DEF Abort, RollbackTurn
  <2>2. RollsBack(t)
    BY <1>7 DEF Abort, RollsBack
  <2>3. TypeOK'
    BY <1>7, <2>1 DEF TypeOK, TableType, Abort
  <2> QED
    BY <2>2, <2>3
<1>8. ASSUME ToolRollback(t)
      PROVE  TypeOK' /\ Shape
  <2>1. TableType'
    BY <1>8, RollbackType DEF ToolRollback
  <2>2. TakesBack(t)
    BY <1>8 DEF ToolRollback, TakesBack, TakenBack
  <2>3. TypeOK'
    BY <1>8, <2>1 DEF TypeOK, TableType, ToolRollback
  <2> QED
    BY <2>2, <2>3
<1> QED
  BY <1>1, <1>2, <1>3, <1>4, <1>5, <1>6, <1>7, <1>8 DEF Start, Request, Stream

-----------------------------------------------------------------------------
(* The inductive invariant *)

\* An answer that is committed can only be abandoned by its lock owner.
AnswerHeld ==
    \A q \in Questions :
        db[q].state = "answered" => latest[q].state \in {"answered", "abandoned"}

\* AnswerKeepsItsMessage, for the uncommitted versions too.
NewestAnswerHasMessage ==
    \A q \in Questions :
        latest[q].state = "answered" /\ latest[q].rmsg = None => q \in SummaryCards

\* A question that was shown is committed, or still held by the stream that
\* inserted it, or a tool took it back, or that stream was rolled back.
ShownIsKept ==
    \A q \in Questions :
        shown[q] # None =>
            \/ db[q].state # "absent"
            \/ lock[q] = <<shown[q], "stream">> /\ latest[q].state # "absent"
            \/ q \in undone
            \/ pc[shown[q]] = "aborted"

\* A row that is committed never becomes absent again.
NeverVanishes ==
    \A q \in Questions : db[q].state # "absent" => latest[q].state # "absent"

IInv ==
    /\ TypeOK
    /\ LockInv
    /\ ReachesShown
    /\ NeverVanishes
    /\ AnswerHeld
    /\ NewestAnswerHasMessage
    /\ AnswerKeepsItsMessage
    /\ ShownIsKept

LEMMA InitIInv == Init => IInv
<1> SUFFICES ASSUME Init PROVE IInv
  OBVIOUS
<1>1. TypeOK
  BY NewRows DEF Init, TypeOK
<1>2. LockInv /\ ReachesShown
  BY SessionsOf DEF Init, LockInv, ReachesShown
<1>3. NeverVanishes /\ AnswerHeld /\ NewestAnswerHasMessage /\ AnswerKeepsItsMessage /\ ShownIsKept
  BY DEF Init, NeverVanishes, AnswerHeld, NewestAnswerHasMessage, AnswerKeepsItsMessage, ShownIsKept, Absent
<1> QED
  BY <1>1, <1>2, <1>3 DEF IInv

LEMMA MovesIInv ==
    ASSUME IInv, NEW t \in Turns, Moves(t), TypeOK'
    PROVE  /\ LockInv' /\ NeverVanishes' /\ AnswerHeld' /\ NewestAnswerHasMessage'
           /\ AnswerKeepsItsMessage' /\ ShownIsKept'
<1> USE DEF IInv, Moves
<1>1. LockInv'
  BY DEF LockInv, StaysIn, OthersStay
<1>2. NeverVanishes' /\ AnswerHeld' /\ NewestAnswerHasMessage' /\ AnswerKeepsItsMessage'
  BY DEF NeverVanishes, AnswerHeld, NewestAnswerHasMessage, AnswerKeepsItsMessage
<1>3. ShownIsKept'
  BY DEF ShownIsKept, OthersStay, EndPCs, TypeOK
<1> QED
  BY <1>1, <1>2, <1>3

LEMMA WritesIInv ==
    ASSUME IInv, NEW t \in Turns, NEW q \in Questions, Writes(t, q), TypeOK'
    PROVE  /\ LockInv' /\ NeverVanishes' /\ AnswerHeld' /\ NewestAnswerHasMessage'
           /\ AnswerKeepsItsMessage' /\ ShownIsKept'
<1> USE DEF IInv, Writes
<1>0. PICK row \in Rows : Write(Current(t), q, row) /\ RowStep(q, latest[q], row)
  OBVIOUS
<1>1. /\ lock[q] \in {None, Current(t)}
      /\ db' = db
      /\ lock' = [lock EXCEPT ![q] = Current(t)]
      /\ latest' = [latest EXCEPT ![q] = row]
  BY <1>0 DEF Write, Lockable
<1>2. \A r \in Questions \ {q} : lock'[r] = lock[r] /\ latest'[r] = latest[r]
  BY <1>1 DEF TypeOK
<1>3. lock'[q] = Current(t) /\ latest'[q] = row /\ Current(t) # None
  BY <1>1, SessionsOf DEF TypeOK
<1>4. LockInv'
  BY <1>1, <1>2, <1>3, SessionsOf
     DEF LockInv, StaysIn, OthersStay, Current, ActivePCs, TypeOK
<1>5. NeverVanishes' /\ AnswerHeld' /\ NewestAnswerHasMessage' /\ AnswerKeepsItsMessage'
  BY <1>0, <1>1, <1>2, <1>3 DEF RowStep, NeverVanishes, AnswerHeld, NewestAnswerHasMessage, AnswerKeepsItsMessage
<1>6. ShownIsKept'
  <2> SUFFICES ASSUME NEW r \in Questions, shown[r] # None
               PROVE  \/ db'[r].state # "absent"
                      \/ lock'[r] = <<shown[r], "stream">> /\ latest'[r].state # "absent"
                      \/ r \in undone
                      \/ pc'[shown[r]] = "aborted"
    BY DEF ShownIsKept
  <2>1. CASE db[r].state # "absent"
    BY <2>1, <1>1
  <2>2. CASE lock[r] = <<shown[r], "stream">> /\ latest[r].state # "absent"
    <3>1. lock[r] # None
      BY <2>2, SessionsOf DEF TypeOK
    <3> QED
      BY <2>2, <3>1, <1>0, <1>1, <1>2, <1>3 DEF RowStep
  <2>3. CASE pc[shown[r]] = "aborted"
    BY <2>3 DEF OthersStay, ActivePCs, RequestPCs, StreamPCs, TypeOK
  <2> QED
    BY <2>1, <2>2, <2>3 DEF ShownIsKept
<1> QED
  BY <1>4, <1>5, <1>6

LEMMA InsertsIInv ==
    ASSUME IInv, NEW t \in Turns, NEW q \in Questions, Inserts(t, q), TypeOK'
    PROVE  /\ LockInv' /\ NeverVanishes' /\ AnswerHeld' /\ NewestAnswerHasMessage'
           /\ AnswerKeepsItsMessage' /\ ShownIsKept'
<1> USE DEF IInv, Inserts
<1>1. /\ db' = db
      /\ lock' = [lock EXCEPT ![q] = <<t, "stream">>]
      /\ latest' = [latest EXCEPT ![q] = NewQuestion]
  BY DEF Write
<1>2. \A r \in Questions \ {q} :
        lock'[r] = lock[r] /\ latest'[r] = latest[r] /\ shown'[r] = shown[r]
  BY <1>1 DEF TypeOK
<1>3. /\ lock'[q] = <<t, "stream">> /\ latest'[q] = NewQuestion /\ shown'[q] = t
      /\ db[q] = Absent /\ t # None
  BY <1>1, NoneAssumption DEF TypeOK, LockInv
<1>4. pc'[t] = "streaming" /\ \A u \in Turns \ {t} : pc'[u] = pc[u]
  BY DEF TypeOK
<1>5. LockInv'
  <2>1. \A r \in Questions : lock'[r] = None => latest'[r] = db'[r]
    BY <1>1, <1>2, <1>3, SessionsOf DEF LockInv
  <2>2. \A r \in Questions : shown'[r] = None => lock'[r] = None /\ db'[r] = Absent
    BY <1>1, <1>2, <1>3 DEF LockInv
  <2>3. ASSUME NEW u \in Turns, NEW r \in Questions
        PROVE  /\ lock'[r] = <<u, "request">> => pc'[u] \in RequestPCs
               /\ lock'[r] = <<u, "stream">> => pc'[u] \in StreamPCs
    <3>1. CASE r = q
      BY <3>1, <1>3, <1>4 DEF StreamPCs
    <3>2. CASE r # q /\ u = t
      BY <3>2, <1>2, <1>4 DEF LockInv, StreamPCs, RequestPCs
    <3>3. CASE r # q /\ u # t
      BY <3>3, <1>2, <1>4 DEF LockInv
    <3> QED
      BY <3>1, <3>2, <3>3
  <2> QED
    BY <2>1, <2>2, <2>3 DEF LockInv
<1>6. NeverVanishes' /\ AnswerHeld' /\ NewestAnswerHasMessage' /\ AnswerKeepsItsMessage'
  BY <1>1, <1>2, <1>3
     DEF NeverVanishes, AnswerHeld, NewestAnswerHasMessage, AnswerKeepsItsMessage, NewQuestion, Absent
<1>7. ShownIsKept'
  BY <1>1, <1>2, <1>3, <1>4 DEF ShownIsKept, NewQuestion, StreamPCs, TypeOK
<1> QED
  BY <1>5, <1>6, <1>7

LEMMA CommitsIInv ==
    ASSUME IInv, NEW t \in Turns, Commits(t), TypeOK'
    PROVE  /\ LockInv' /\ NeverVanishes' /\ AnswerHeld' /\ NewestAnswerHasMessage'
           /\ AnswerKeepsItsMessage' /\ ShownIsKept'
<1> USE DEF IInv, Commits
<1>1. /\ latest' = latest
      /\ \A q \in Questions :
            /\ lock[q] = Current(t) => db'[q] = latest[q] /\ lock'[q] = None
            /\ lock[q] # Current(t) => db'[q] = db[q] /\ lock'[q] = lock[q]
  BY DEF Commit, Visible
<1>2. \A u \in Turns, q \in Questions :
        lock'[q] \in {<<u, "request">>, <<u, "stream">>} => u # t /\ lock'[q] = lock[q]
  <2> SUFFICES ASSUME NEW u \in Turns, NEW q \in Questions,
                      lock'[q] \in {<<u, "request">>, <<u, "stream">>}
               PROVE  u # t /\ lock'[q] = lock[q]
    OBVIOUS
  <2>1. lock'[q] = lock[q] /\ lock[q] # Current(t)
    BY <1>1, SessionsOf
  <2>2. u # t
    BY <2>1 DEF LockInv, Current, RequestPCs, StreamPCs
  <2> QED
    BY <2>1, <2>2
<1>3. LockInv'
  <2>1. \A q \in Questions : lock'[q] = None => latest'[q] = db'[q]
    BY <1>1 DEF LockInv
  <2>2. \A q \in Questions : shown'[q] = None => lock'[q] = None /\ db'[q] = Absent
    BY <1>1, SessionsOf DEF LockInv
  <2>3. \A u \in Turns, q \in Questions :
          /\ lock'[q] = <<u, "request">> => pc'[u] \in RequestPCs
          /\ lock'[q] = <<u, "stream">> => pc'[u] \in StreamPCs
    BY <1>2 DEF LockInv, OthersStay
  <2> QED
    BY <2>1, <2>2, <2>3 DEF LockInv
<1>4. NeverVanishes' /\ AnswerHeld' /\ NewestAnswerHasMessage' /\ AnswerKeepsItsMessage'
  BY <1>1 DEF NeverVanishes, AnswerHeld, NewestAnswerHasMessage, AnswerKeepsItsMessage
<1>5. ShownIsKept'
  <2> SUFFICES ASSUME NEW q \in Questions, shown[q] # None
               PROVE  \/ db'[q].state # "absent"
                      \/ lock'[q] = <<shown[q], "stream">> /\ latest'[q].state # "absent"
                      \/ q \in undone
                      \/ pc'[shown[q]] = "aborted"
    BY DEF ShownIsKept
  <2>1. CASE db[q].state # "absent"
    <3>1. latest[q].state # "absent"
      BY <2>1 DEF NeverVanishes
    <3> QED
      BY <2>1, <3>1, <1>1
  <2>2. CASE lock[q] = <<shown[q], "stream">> /\ latest[q].state # "absent"
    BY <2>2, <1>1
  <2>3. CASE pc[shown[q]] = "aborted"
    BY <2>3 DEF OthersStay, ActivePCs, RequestPCs, StreamPCs, TypeOK
  <2> QED
    BY <2>1, <2>2, <2>3 DEF ShownIsKept
<1> QED
  BY <1>3, <1>4, <1>5

LEMMA RollsBackIInv ==
    ASSUME IInv, NEW t \in Turns, RollsBack(t), TypeOK'
    PROVE  /\ LockInv' /\ NeverVanishes' /\ AnswerHeld' /\ NewestAnswerHasMessage'
           /\ AnswerKeepsItsMessage' /\ ShownIsKept'
<1> USE DEF IInv, RollsBack
<1> DEFINE mine == {<<t, "request">>, <<t, "stream">>}
<1>1. /\ db' = db
      /\ \A q \in Questions :
            /\ lock[q] \in mine => latest'[q] = db[q] /\ lock'[q] = None
            /\ lock[q] \notin mine => latest'[q] = latest[q] /\ lock'[q] = lock[q]
  BY DEF RollbackTurn, Rollback
<1>2. pc'[t] = "aborted" /\ \A u \in Turns \ {t} : pc'[u] = pc[u]
  BY DEF TypeOK
<1>3. LockInv'
  <2>1. \A q \in Questions : lock'[q] = None => latest'[q] = db'[q]
    BY <1>1 DEF LockInv
  <2>2. \A q \in Questions : shown'[q] = None => lock'[q] = None /\ db'[q] = Absent
    BY <1>1 DEF LockInv
  <2>3. \A u \in Turns, q \in Questions :
          /\ lock'[q] = <<u, "request">> => pc'[u] \in RequestPCs
          /\ lock'[q] = <<u, "stream">> => pc'[u] \in StreamPCs
    <3> SUFFICES ASSUME NEW u \in Turns, NEW q \in Questions,
                        lock'[q] \in {<<u, "request">>, <<u, "stream">>}
                 PROVE  lock'[q] = lock[q] /\ pc'[u] = pc[u]
      BY DEF LockInv
    <3>1. lock[q] \notin mine /\ lock'[q] = lock[q]
      BY <1>1, SessionsOf
    <3>2. u # t
      BY <3>1
    <3> QED
      BY <3>1, <3>2, <1>2
  <2> QED
    BY <2>1, <2>2, <2>3 DEF LockInv
<1>4. NeverVanishes' /\ AnswerHeld' /\ NewestAnswerHasMessage' /\ AnswerKeepsItsMessage'
  BY <1>1 DEF NeverVanishes, AnswerHeld, NewestAnswerHasMessage, AnswerKeepsItsMessage
<1>5. ShownIsKept'
  BY <1>1, <1>2 DEF ShownIsKept, TypeOK
<1> QED
  BY <1>3, <1>4, <1>5

LEMMA TakesBackIInv ==
    ASSUME IInv, NEW t \in Turns, TakesBack(t), TypeOK'
    PROVE  /\ LockInv' /\ NeverVanishes' /\ AnswerHeld' /\ NewestAnswerHasMessage'
           /\ AnswerKeepsItsMessage' /\ ShownIsKept'
<1> USE DEF IInv, TakesBack
<1> DEFINE mine == <<t, "stream">>
<1>1. /\ db' = db
      /\ \A q \in Questions :
            /\ lock[q] = mine => latest'[q] = db[q] /\ lock'[q] = None
            /\ lock[q] # mine => latest'[q] = latest[q] /\ lock'[q] = lock[q]
  BY DEF Rollback
<1>2. LockInv'
  <2>1. \A q \in Questions : lock'[q] = None => latest'[q] = db'[q]
    BY <1>1 DEF LockInv
  <2>2. \A q \in Questions : shown'[q] = None => lock'[q] = None /\ db'[q] = Absent
    BY <1>1 DEF LockInv
  <2>3. \A u \in Turns, q \in Questions :
          /\ lock'[q] = <<u, "request">> => pc'[u] \in RequestPCs
          /\ lock'[q] = <<u, "stream">> => pc'[u] \in StreamPCs
    <3> SUFFICES ASSUME NEW u \in Turns, NEW q \in Questions,
                        lock'[q] \in {<<u, "request">>, <<u, "stream">>}
                 PROVE  lock'[q] = lock[q]
      BY DEF LockInv
    <3> QED
      BY <1>1, SessionsOf
  <2> QED
    BY <2>1, <2>2, <2>3 DEF LockInv
<1>3. NeverVanishes' /\ AnswerHeld' /\ NewestAnswerHasMessage' /\ AnswerKeepsItsMessage'
  BY <1>1 DEF NeverVanishes, AnswerHeld, NewestAnswerHasMessage, AnswerKeepsItsMessage
<1>4. ShownIsKept'
  <2> SUFFICES ASSUME NEW q \in Questions, shown[q] # None
               PROVE  \/ db[q].state # "absent"
                      \/ lock'[q] = <<shown[q], "stream">> /\ latest'[q].state # "absent"
                      \/ q \in undone'
                      \/ pc[shown[q]] = "aborted"
    BY <1>1 DEF ShownIsKept
  <2>1. CASE lock[q] = mine
    BY <2>1 DEF TakenBack
  <2>2. CASE lock[q] # mine
    BY <2>2, <1>1 DEF ShownIsKept
  <2> QED
    BY <2>1, <2>2
<1> QED
  BY <1>2, <1>3, <1>4

\* The rows a statement starts with are rows somebody was shown.
LEMMA ReachesShownStep ==
    ASSUME TypeOK, LockInv, ReachesShown, TypeOK', NEW t \in Turns,
           Start(t) \/ Request(t) \/ Stream(t) \/ Abort(t)
    PROVE  ReachesShown'
<1> USE DEF Goto, Statement
<1>1. \A q \in Questions : shown[q] # None => shown'[q] # None
  <2>1. CASE InsertQuestion(t)
    BY <2>1, NoneAssumption DEF InsertQuestion, TypeOK
  <2>2. CASE ~InsertQuestion(t)
    <3>1. shown' = shown
      BY <2>2 DEF Start, Request, Stream, Abort, SendText, SendFor, WriteAnswer,
           WriteAbandon, ExpireRow, ExpireDone, CommitBeforeStream, EarlyReturn,
           CommitAbandon, Ask, AskExpireRow, ToolCommit, ToolRollback, FinishWithMessage,
           FinishWithTour, LinkRow, LinkDone, CommitStream
    <3> QED
      BY <3>1
  <2> QED
    BY <2>1, <2>2
<1>2. \A q \in Questions, s \in Sessions :
        Visible(s, q).state = "pending" => shown[q] # None
  BY NoneAssumption DEF Visible, LockInv, Absent
<1>3. \A u \in Turns : \A q \in todo'[u] : q \in todo[u] \/ shown[q] # None
  <2>1. ASSUME SendText(t) \/ Ask(t) \/ FinishWithMessage(t)
        PROVE  \A u \in Turns : \A q \in todo'[u] : q \in todo[u] \/ shown[q] # None
    <3> DEFINE Fine(rows) == \A q \in rows : q \in Questions /\ shown[q] # None
    <3>1. Fine({q \in Questions : Pending(db[q])})
      BY DEF Pending, LockInv, Absent
    <3>2. /\ Fine({q \in Questions : Pending(Visible(<<t, "stream">>, q))})
          /\ Fine({q \in Questions : Unlinked(Visible(<<t, "stream">>, q))})
      BY <1>2, SessionsOf DEF Pending, Unlinked
    <3>3. PICK rows : todo' = [todo EXCEPT ![t] = rows] /\ Fine(rows)
      BY <2>1, <3>1, <3>2 DEF SendText, Ask, FinishWithMessage
    <3> QED
      BY <3>3 DEF TypeOK
  <2>2. ASSUME ~(SendText(t) \/ Ask(t) \/ FinishWithMessage(t))
        PROVE  \A u \in Turns : todo'[u] \subseteq todo[u]
    BY <2>2
       DEF TypeOK, Start, Request, Stream, Abort, SendFor, WriteAnswer,
           WriteAbandon, ExpireRow, ExpireDone, CommitBeforeStream, EarlyReturn,
           CommitAbandon, AskExpireRow, InsertQuestion, ToolCommit, ToolRollback,
           FinishWithTour, LinkRow, LinkDone, CommitStream
  <2> QED
    BY <2>1, <2>2
<1>4. \A u \in Turns : pc'[u] = "writing" =>
        target'[u] \in Questions /\ shown[target'[u]] # None
  <2>1. ASSUME NEW q \in Questions, NEW what \in {"answer", "abandon"}, SendFor(t, q, what)
        PROVE  \A u \in Turns : pc'[u] = "writing" =>
                 target'[u] \in Questions /\ shown[target'[u]] # None
    BY <2>1 DEF SendFor, TypeOK, ReachesShown
  <2>2. ASSUME ~ \E q \in Questions : SendFor(t, q, "answer") \/ SendFor(t, q, "abandon")
        PROVE  target' = target /\ \A u \in Turns : pc'[u] = "writing" => pc[u] = "writing"
    BY <2>2
       DEF TypeOK, Start, Request, Stream, Abort, SendText, WriteAnswer,
           WriteAbandon, ExpireRow, ExpireDone, CommitBeforeStream, EarlyReturn,
           CommitAbandon, Ask, AskExpireRow, InsertQuestion, ToolCommit, ToolRollback,
           FinishWithMessage, FinishWithTour, LinkRow, LinkDone, CommitStream
  <2> QED
    BY <2>1, <2>2 DEF ReachesShown
<1> QED
  BY <1>1, <1>3, <1>4 DEF ReachesShown, TypeOK

LEMMA IInvStep == IInv /\ [Next]_vars => IInv'
<1> SUFFICES ASSUME IInv, [Next]_vars PROVE IInv'
  OBVIOUS
<1>1. CASE UNCHANGED vars
  BY <1>1 DEF vars, IInv, TypeOK, LockInv, ReachesShown, NeverVanishes, AnswerHeld,
              NewestAnswerHasMessage, AnswerKeepsItsMessage, ShownIsKept
<1>2. ASSUME NEW t \in Turns, Start(t) \/ Request(t) \/ Stream(t) \/ Abort(t)
      PROVE  IInv'
  <2>1. /\ TypeOK'
        /\ \/ Moves(t)
           \/ \E q \in Questions : Writes(t, q) \/ Inserts(t, q)
           \/ Commits(t)
           \/ RollsBack(t)
           \/ TakesBack(t)
    BY <1>2, StepShapes DEF IInv
  <2>2. ReachesShown'
    BY <1>2, <2>1, ReachesShownStep DEF IInv
  <2>3. /\ LockInv' /\ NeverVanishes' /\ AnswerHeld' /\ NewestAnswerHasMessage'
        /\ AnswerKeepsItsMessage' /\ ShownIsKept'
    BY <2>1, MovesIInv, WritesIInv, InsertsIInv, CommitsIInv, RollsBackIInv, TakesBackIInv
  <2> QED
    BY <2>1, <2>2, <2>3 DEF IInv
<1> QED
  BY <1>1, <1>2 DEF Next

THEOREM Invariance == Spec => []IInv
<1>1. Init => IInv
  BY InitIInv
<1>2. IInv /\ [Next]_vars => IInv'
  BY IInvStep
<1> QED
  BY <1>1, <1>2, PTL DEF Spec

-----------------------------------------------------------------------------
(* The properties *)

\* The types are right in every reachable state.
THEOREM TypeCorrect == Spec => []TypeOK
  BY Invariance, PTL DEF IInv

\* No stream waits for a row locked by its own turn: the request session has
\* released its locks before the stream session exists.
THEOREM NoSelfDeadlockHolds == Spec => []NoSelfDeadlock
<1>1. IInv => NoSelfDeadlock
  <2> SUFFICES ASSUME IInv, NEW t \in Turns, Stuck(t),
                      NEW s \in {<<t, "request">>, <<t, "stream">>}, s \in Holders(t)
               PROVE  FALSE
    BY DEF NoSelfDeadlock
  <2>1. PICK q \in Wanted(t) : lock[q] = s
    BY DEF Holders
  <2>2. q \in Questions
    BY <2>1 DEF Wanted, IInv, TypeOK, ReachesShown
  <2>3. lock[q] = Current(t)
    BY <2>1, <2>2 DEF IInv, LockInv, Current, RequestPCs, StreamPCs
  <2> QED
    BY <2>1, <2>3 DEF Stuck, Lockable
<1> QED
  BY <1>1, Invariance, PTL

\* However turns of several tabs interleave, an expiry never overwrites a
\* committed answer.
THEOREM AnswersSurviveExpiry == Spec => ExpiryNeverErasesAnswer
<1> DEFINE Keeps == \A q \in Questions :
                        db[q].state = "answered" => db'[q].state # "expired"
<1>1. IInv /\ [Next]_vars => [Keeps]_vars
  <2> SUFFICES ASSUME IInv, NEW t \in Turns,
                      Start(t) \/ Request(t) \/ Stream(t) \/ Abort(t)
               PROVE  Keeps
    BY DEF Next
  <2>1. \/ db' = db
        \/ \A q \in Questions : db'[q] \in {db[q], latest[q]}
    BY StepShapes DEF IInv, Moves, Writes, Inserts, Write, Commits, Commit, Visible,
                      RollsBack, TakesBack, RollbackTurn, Rollback
  <2> QED
    BY <2>1 DEF IInv, AnswerHeld
<1> QED
  BY <1>1, Invariance, PTL DEF Spec, ExpiryNeverErasesAnswer

\* A turn that ended well leaves its questions in the database, but for those
\* its own tools rolled back.
THEOREM ShownQuestionsSurvive == Spec => []ShownSurvives
<1>1. IInv => ShownSurvives
  BY NoneAssumption
     DEF IInv, ShownSurvives, ShownIsKept, LockInv, StreamPCs, TypeOK
<1> QED
  BY <1>1, Invariance, PTL

\* Only the answer to a summary card is stored without its message.
THEOREM AnswersHaveMessages == Spec => []AnswerKeepsItsMessage
  BY Invariance, PTL DEF IInv
-----------------------------------------------------------------------------
(* One tab.  Without overlap the session that is current owns every lock,  *)
(* and its commit publishes one step of the life cycle.                    *)

\* What the frontend ensures for a conversation that one tab drives.
FromOneTab == \A t, u \in Turns : tab[t] = tab[u]

OneActive ==
    \A t, u \in Turns : pc[t] \in ActivePCs /\ pc[u] \in ActivePCs => t = u

AtMostOnePending(rows) ==
    \A q, r \in Questions : Pending(rows[q]) /\ Pending(rows[r]) => q = r

Kept(q) == latest[q].state = db[q].state
Fresh(q) == db[q].state = "absent" /\ Pending(latest[q])

\* What the request session, and the stream session, may have made of the
\* committed rows.
SettledOnly ==
    \A q \in Questions :
        Kept(q) \/ (Pending(db[q]) /\ latest[q].state \in {"answered", "abandoned", "expired"})
AskedOnly ==
    \A q \in Questions :
        \/ Kept(q)
        \/ Pending(db[q]) /\ latest[q].state = "expired"
        \/ db[q].state = "absent" /\ latest[q].state \in {"pending", "expired"}

\* Between two tools, who has expired something has asked something.
AskedWhatItExpired == (\A q \in Questions : Kept(q)) \/ (\E q \in Questions : Fresh(q))

Stage(t) ==
    /\ pc[t] \in RequestPCs => SettledOnly
    /\ pc[t] \in StreamPCs => AskedOnly
    /\ pc[t] \in StreamPCs \ {"asking"} => AskedWhatItExpired
    /\ pc[t] = "writing" => Pending(db[target[t]])
    /\ pc[t] = "asking" => \A q \in Questions : Pending(latest[q]) => q \in todo[t]

SerialInv ==
    /\ FromOneTab
    /\ OneActive
    /\ AtMostOnePending(db) /\ AtMostOnePending(latest)
    /\ \A t \in Turns : Stage(t)

LEMMA SerialInit == FromOneTab /\ Init => SerialInv
<1> SUFFICES ASSUME FromOneTab, Init PROVE SerialInv
  OBVIOUS
<1>1. \A t \in Turns : pc[t] = "idle"
  BY DEF Init
<1>2. OneActive /\ \A t \in Turns : Stage(t)
  BY <1>1 DEF OneActive, Stage, ActivePCs, RequestPCs, StreamPCs
<1>3. AtMostOnePending(db) /\ AtMostOnePending(latest)
  BY DEF Init, AtMostOnePending, Pending, Absent
<1> QED
  BY <1>2, <1>3 DEF SerialInv

\* Every lock is the running turn's, and what it reads is the newest version.
LEMMA OwnTransaction ==
    ASSUME IInv, OneActive, NEW t \in Turns, pc[t] \in ActivePCs
    PROVE  \A q \in Questions :
              /\ lock[q] \in {None, Current(t)}
              /\ Visible(Current(t), q) = latest[q]
<1> SUFFICES ASSUME NEW q \in Questions
             PROVE  lock[q] \in {None, Current(t)} /\ Visible(Current(t), q) = latest[q]
  OBVIOUS
<1>1. lock[q] \in {None, Current(t)}
  <2>1. CASE lock[q] # None
    <3>1. PICK u \in Turns, x \in {"request", "stream"} : lock[q] = <<u, x>>
      BY <2>1 DEF IInv, TypeOK, Sessions
    <3>2. pc[u] \in ActivePCs /\ (x = "stream" <=> pc[u] \in StreamPCs)
      BY <3>1 DEF IInv, LockInv, ActivePCs, RequestPCs, StreamPCs
    <3>3. u = t
      BY <3>2 DEF OneActive
    <3> QED
      BY <3>1, <3>2, <3>3 DEF Current
  <2> QED
    BY <2>1
<1>2. Visible(Current(t), q) = latest[q]
  BY <1>1 DEF Visible, IInv, LockInv
<1> QED
  BY <1>1, <1>2

LEMMA NobodyWrites ==
    ASSUME IInv, \A u \in Turns : pc[u] \notin ActivePCs
    PROVE  \A q \in Questions : latest[q] = db[q]
<1>1. ASSUME NEW q \in Questions, lock[q] # None PROVE FALSE
  <2>1. PICK u \in Turns, x \in {"request", "stream"} : lock[q] = <<u, x>>
    BY <1>1 DEF IInv, TypeOK, Sessions
  <2> QED
    BY <2>1 DEF IInv, LockInv, ActivePCs
<1> QED
  BY <1>1 DEF IInv, LockInv

\* While one turn moves, only its stage has to be looked at.
LEMMA StageIsEnough ==
    ASSUME SerialInv, NEW t \in Turns, OthersStay(t),
           pc[t] \in ActivePCs \/ \A u \in Turns : pc[u] \notin ActivePCs,
           AtMostOnePending(db)', AtMostOnePending(latest)', Stage(t)'
    PROVE  SerialInv'
<1>1. \A u \in Turns : pc'[u] \in ActivePCs => u = t
  BY DEF SerialInv, OneActive, OthersStay
<1>2. OneActive'
  BY <1>1 DEF OneActive
<1>3. ASSUME NEW u \in Turns PROVE Stage(u)'
  <2>1. CASE u = t
    BY <2>1
  <2>2. CASE u # t
    BY <2>2, <1>1 DEF Stage, ActivePCs, RequestPCs, StreamPCs
  <2> QED
    BY <2>1, <2>2
<1> QED
  BY <1>2, <1>3 DEF SerialInv, FromOneTab


LEMMA Begins ==
    ASSUME IInv, SerialInv, NEW t \in Turns, Start(t), TypeOK'
    PROVE  SerialInv' /\ db' = db
<1>1. Idle(t) /\ db' = db /\ latest' = latest /\ OthersStay(t)
  BY DEF Start, SendText, SendFor, Goto, OthersStay, IInv, TypeOK
<1>2. \A u \in Turns : pc[u] \notin ActivePCs
  BY <1>1 DEF Idle, SerialInv, FromOneTab
<1>3. \A q \in Questions : Kept(q)
  BY <1>2, NobodyWrites DEF Kept
<1>4. \/ pc'[t] = "expiring"
      \/ pc'[t] = "writing" /\ Pending(db[target'[t]])
      \/ pc'[t] = "refused"
  BY DEF Start, SendText, SendFor, Goto, IInv, TypeOK
<1>5. Stage(t)'
  BY <1>1, <1>3, <1>4 DEF Stage, SettledOnly, Kept, RequestPCs, StreamPCs
<1>6. AtMostOnePending(db)' /\ AtMostOnePending(latest)'
  BY <1>1 DEF SerialInv, AtMostOnePending
<1> QED
  BY <1>1, <1>2, <1>5, <1>6, StageIsEnough

LEMMA GoesOn ==
    ASSUME IInv, SerialInv, NEW t \in Turns, TypeOK',
           \/ ExpireDone(t) \/ Ask(t) \/ FinishWithMessage(t) \/ FinishWithTour(t) \/ LinkDone(t)
    PROVE  SerialInv' /\ db' = db
<1> USE DEF ActivePCs, RequestPCs, StreamPCs, Goto, Statement
<1>1. db' = db /\ latest' = latest /\ target' = target /\ OthersStay(t) /\ pc[t] \in ActivePCs
  BY DEF ExpireDone, Ask, FinishWithMessage, FinishWithTour, LinkDone, OthersStay, IInv, TypeOK
<1>2. Stage(t)'
  <2>1. CASE Ask(t)
    <3>1. pc[t] = "streaming" /\ pc'[t] = "asking"
      BY <2>1 DEF Ask, IInv, TypeOK
    <3>2. todo'[t] = {q \in Questions : Pending(Visible(<<t, "stream">>, q))}
      BY <2>1 DEF Ask, IInv, TypeOK
    <3>3. \A q \in Questions : Visible(<<t, "stream">>, q) = latest[q]
      BY <1>1, <3>1, OwnTransaction DEF SerialInv, Current
    <3>4. \A q \in Questions : Pending(latest[q]) => q \in todo'[t]
      BY <3>2, <3>3
    <3>5. AskedOnly
      BY <3>1 DEF SerialInv, Stage
    <3> QED
      BY <1>1, <3>1, <3>4, <3>5 DEF Stage, AskedOnly, Kept
  <2>2. CASE ExpireDone(t)
    <3>1. pc[t] = "expiring" /\ pc'[t] = "committing"
      BY <2>2 DEF ExpireDone, IInv, TypeOK
    <3> QED
      BY <1>1, <3>1 DEF SerialInv, Stage, SettledOnly, Kept
  <2>3. CASE FinishWithMessage(t) \/ FinishWithTour(t) \/ LinkDone(t)
    <3>1. pc[t] \in StreamPCs \ {"asking"} /\ pc'[t] \in StreamPCs \ {"asking"}
      BY <2>3 DEF FinishWithMessage, FinishWithTour, LinkDone, IInv, TypeOK
    <3> QED
      BY <1>1, <3>1 DEF SerialInv, Stage, AskedOnly, AskedWhatItExpired, Kept, Fresh
  <2> QED
    BY <2>1, <2>2, <2>3
<1>3. AtMostOnePending(db)' /\ AtMostOnePending(latest)'
  BY <1>1 DEF SerialInv, AtMostOnePending
<1> QED
  BY <1>1, <1>2, <1>3, StageIsEnough

\* A statement that leaves nothing pending that was not.
LEMMA NothingNewPending ==
    ASSUME SerialInv, db' = db,
           \A q \in Questions : Pending(latest'[q]) => Pending(latest[q])
    PROVE  AtMostOnePending(db)' /\ AtMostOnePending(latest)'
  BY DEF SerialInv, AtMostOnePending, Pending

LEMMA Settling ==
    ASSUME IInv, SerialInv, NEW t \in Turns, TypeOK', WriteAnswer(t) \/ WriteAbandon(t)
    PROVE  SerialInv' /\ db' = db
<1> USE DEF ActivePCs, RequestPCs, StreamPCs, Goto
<1>1. pc[t] = "writing" /\ pc'[t] = "committing" /\ OthersStay(t) /\ db' = db
  BY DEF WriteAnswer, WriteAbandon, Write, OthersStay, IInv, TypeOK
<1>2. target[t] \in Questions /\ Pending(db[target[t]])
  BY <1>1 DEF SerialInv, Stage, IInv, ReachesShown
<1>3. PICK row : latest' = [latest EXCEPT ![target[t]] = row] /\ row.state \in {"answered", "abandoned"}
  <2> DEFINE old == latest[target[t]]
             answer == [old EXCEPT !.state = "answered",
                                   !.rmsg = IF target[t] \in SummaryCards THEN @ ELSE t]
             abandon == [old EXCEPT !.state = "abandoned"]
  <2>1. old \in Rows
    BY <1>2 DEF IInv, TypeOK
  <2>2. answer.state = "answered" /\ abandon.state = "abandoned"
    BY <2>1 DEF Rows
  <2>3. \/ latest' = [latest EXCEPT ![target[t]] = answer]
        \/ latest' = [latest EXCEPT ![target[t]] = abandon]
    BY DEF WriteAnswer, WriteAbandon, Write
  <2> HIDE DEF answer, abandon
  <2> QED
    BY <2>2, <2>3
<1>4. /\ latest'[target[t]] = row
      /\ \A q \in Questions \ {target[t]} : latest'[q] = latest[q]
  BY <1>2, <1>3 DEF IInv, TypeOK
<1>5. SettledOnly'
  <2>1. SettledOnly
    BY <1>1 DEF SerialInv, Stage
  <2> QED
    BY <2>1, <1>1, <1>2, <1>3, <1>4 DEF SettledOnly, Kept, Pending
<1>6. Stage(t)'
  BY <1>1, <1>5 DEF Stage
<1>7. \A q \in Questions : Pending(latest'[q]) => Pending(latest[q])
  BY <1>3, <1>4 DEF Pending
<1> QED
  BY <1>1, <1>6, <1>7, NothingNewPending, StageIsEnough


LEMMA Expiring ==
    ASSUME IInv, SerialInv, NEW t \in Turns, TypeOK', ExpireRow(t) \/ AskExpireRow(t)
    PROVE  SerialInv' /\ db' = db
<1> USE DEF ActivePCs, RequestPCs, StreamPCs
<1>1. PICK q \in todo[t] :
        /\ latest' = [latest EXCEPT ![q] = ExpireIfPending(latest[q])]
        /\ todo' = [todo EXCEPT ![t] = todo[t] \ {q}]
  BY DEF ExpireRow, AskExpireRow, Write, Statement
<1>2. db' = db /\ pc' = pc /\ pc[t] \in {"expiring", "asking"} /\ OthersStay(t)
  BY DEF ExpireRow, AskExpireRow, Write, OthersStay
<1>3. q \in Questions /\ latest[q] \in Rows
  BY <1>1 DEF IInv, TypeOK
<1>4. /\ \A r \in Questions \ {q} : latest'[r] = latest[r]
      /\ latest'[q].state = IF Pending(latest[q]) THEN "expired" ELSE latest[q].state
  <2>1. latest'[q] = ExpireIfPending(latest[q]) /\ \A r \in Questions \ {q} : latest'[r] = latest[r]
    BY <1>1, <1>3 DEF IInv, TypeOK
  <2> QED
    BY <2>1, <1>3 DEF ExpireIfPending, Expired, Rows
<1>5. \A r \in Questions : Pending(latest'[r]) => r # q /\ Pending(latest[r])
  BY <1>4 DEF Pending
<1>6. CASE pc[t] = "expiring"
  <2>1. SettledOnly
    BY <1>6 DEF SerialInv, Stage
  <2>2. SettledOnly'
    BY <2>1, <1>2, <1>4 DEF SettledOnly, Kept, Pending
  <2> QED
    BY <2>2, <1>2, <1>5, <1>6, NothingNewPending, StageIsEnough DEF Stage
<1>7. CASE pc[t] = "asking"
  <2>1. AskedOnly /\ \A r \in Questions : Pending(latest[r]) => r \in todo[t]
    BY <1>7 DEF SerialInv, Stage
  <2>2. AskedOnly'
    BY <2>1, <1>2, <1>4 DEF AskedOnly, Kept, Pending
  <2>3. \A r \in Questions : Pending(latest'[r]) => r \in todo'[t]
    BY <2>1, <1>1, <1>5 DEF IInv, TypeOK
  <2> QED
    BY <2>2, <2>3, <1>2, <1>5, <1>7, NothingNewPending, StageIsEnough DEF Stage
<1> QED
  BY <1>2, <1>6, <1>7

LEMMA Linking ==
    ASSUME IInv, SerialInv, NEW t \in Turns, TypeOK', LinkRow(t)
    PROVE  SerialInv' /\ db' = db
<1> USE DEF ActivePCs, RequestPCs, StreamPCs
<1>1. PICK q \in todo[t] : latest' = [latest EXCEPT ![q] = LinkIfUnlinked(latest[q], t)]
  BY DEF LinkRow, Write
<1>2. db' = db /\ pc' = pc /\ pc[t] = "linking" /\ OthersStay(t)
  BY DEF LinkRow, Write, OthersStay
<1>3. q \in Questions /\ latest[q] \in Rows
  BY <1>1 DEF IInv, TypeOK
<1>4. \A r \in Questions : latest'[r].state = latest[r].state
  <2>1. latest'[q] = LinkIfUnlinked(latest[q], t) /\ \A r \in Questions \ {q} : latest'[r] = latest[r]
    BY <1>1, <1>3 DEF IInv, TypeOK
  <2>2. LinkIfUnlinked(latest[q], t).state = latest[q].state
    BY <1>3 DEF LinkIfUnlinked, Rows
  <2> QED
    BY <2>1, <2>2
<1>5. AskedOnly /\ AskedWhatItExpired
  BY <1>2 DEF SerialInv, Stage
<1>6. AskedOnly' /\ AskedWhatItExpired'
  BY <1>2, <1>4, <1>5 DEF AskedOnly, AskedWhatItExpired, Kept, Fresh, Pending
<1> QED
  BY <1>2, <1>4, <1>6, NothingNewPending, StageIsEnough DEF Stage, Pending

LEMMA Asking ==
    ASSUME IInv, SerialInv, NEW t \in Turns, TypeOK', InsertQuestion(t)
    PROVE  SerialInv' /\ db' = db
<1> USE DEF ActivePCs, RequestPCs, StreamPCs, Goto
<1>1. PICK q \in Questions : shown[q] = None /\ latest' = [latest EXCEPT ![q] = NewQuestion]
  BY DEF InsertQuestion, Write
<1>2. /\ db' = db /\ OthersStay(t) /\ pc[t] = "asking" /\ pc'[t] = "streaming"
      /\ todo[t] = {}
  BY DEF InsertQuestion, Write, OthersStay, IInv, TypeOK
<1>3. db[q].state = "absent"
  BY <1>1 DEF IInv, LockInv, Absent
<1>4. /\ \A r \in Questions \ {q} : latest'[r] = latest[r]
      /\ latest'[q].state = "pending"
  BY <1>1 DEF IInv, TypeOK, NewQuestion
<1>5. AskedOnly /\ \A r \in Questions : ~Pending(latest[r])
  BY <1>2 DEF SerialInv, Stage
<1>6. AskedOnly' /\ AskedWhatItExpired'
  BY <1>2, <1>3, <1>4, <1>5 DEF AskedOnly, AskedWhatItExpired, Kept, Fresh, Pending
<1>7. AtMostOnePending(db)' /\ AtMostOnePending(latest)'
  BY <1>2, <1>4, <1>5 DEF SerialInv, AtMostOnePending, Pending
<1> QED
  BY <1>2, <1>6, <1>7, StageIsEnough DEF Stage

LEMMA GivingUp ==
    ASSUME IInv, SerialInv, NEW t \in Turns, TypeOK', Abort(t)
    PROVE  SerialInv' /\ db' = db
<1> USE DEF ActivePCs, RequestPCs, StreamPCs, Goto
<1>1. pc[t] \in ActivePCs /\ pc'[t] = "aborted" /\ OthersStay(t) /\ db' = db
  BY DEF Abort, RollbackTurn, Rollback, OthersStay, IInv, TypeOK
<1>2. \A q \in Questions : latest'[q] = db[q]
  <2>1. ASSUME NEW q \in Questions, lock[q] = Current(t) PROVE latest'[q] = db[q]
    <3>1. Current(t) \in {<<t, "request">>, <<t, "stream">>}
      BY DEF Current
    <3> QED
      BY <2>1, <3>1 DEF Abort, RollbackTurn, Rollback
  <2>2. ASSUME NEW q \in Questions, lock[q] = None PROVE latest'[q] = db[q]
    <3>1. latest[q] = db[q]
      BY <2>2 DEF IInv, LockInv
    <3>2. latest'[q] \in {db[q], latest[q]}
      BY DEF Abort, RollbackTurn, Rollback
    <3> QED
      BY <3>1, <3>2
  <2>3. \A q \in Questions : lock[q] \in {None, Current(t)}
    BY <1>1, OwnTransaction DEF SerialInv
  <2> QED
    BY <2>1, <2>2, <2>3
<1>3. AtMostOnePending(db)' /\ AtMostOnePending(latest)'
  BY <1>1, <1>2 DEF SerialInv, AtMostOnePending
<1>4. Stage(t)'
  BY <1>1 DEF Stage
<1> QED
  BY <1>1, <1>3, <1>4, StageIsEnough

\* A tool that rolls the stream back leaves the turn with what is committed.
LEMMA TakingBack ==
    ASSUME IInv, SerialInv, NEW t \in Turns, TypeOK', ToolRollback(t)
    PROVE  SerialInv' /\ db' = db
<1> USE DEF ActivePCs, RequestPCs, StreamPCs
<1>1. pc[t] = "streaming" /\ pc' = pc /\ OthersStay(t) /\ db' = db
  BY DEF ToolRollback, Rollback, OthersStay
<1>2. \A q \in Questions : latest'[q] = db[q]
  <2>1. \A q \in Questions : lock[q] \in {None, <<t, "stream">>}
    BY <1>1, OwnTransaction DEF SerialInv, Current
  <2>2. \A q \in Questions : lock[q] = None => latest[q] = db[q]
    BY DEF IInv, LockInv
  <2> QED
    BY <2>1, <2>2 DEF ToolRollback, Rollback
<1>3. AtMostOnePending(db)' /\ AtMostOnePending(latest)'
  BY <1>1, <1>2 DEF SerialInv, AtMostOnePending
<1>4. Stage(t)'
  BY <1>1, <1>2 DEF Stage, AskedOnly, AskedWhatItExpired, Kept
<1> QED
  BY <1>1, <1>3, <1>4, StageIsEnough

\* What commits is everything the turn wrote: one question asked in the place
\* of another, one question settled, or nothing.
LEMMA Publishing ==
    ASSUME IInv, SerialInv, NEW t \in Turns, TypeOK',
           \/ CommitBeforeStream(t) \/ EarlyReturn(t) \/ CommitAbandon(t)
           \/ ToolCommit(t) \/ CommitStream(t)
    PROVE  /\ SerialInv'
           /\ \A q \in Questions : db'[q] = latest[q]
           /\ SettledOnly \/ (AskedOnly /\ AskedWhatItExpired)
<1> USE DEF ActivePCs, RequestPCs, StreamPCs, Goto
<1>1. /\ pc[t] \in {"committing", "streaming", "finishing"}
      /\ pc'[t] \in {"streaming", "refused", "done"}
      /\ OthersStay(t)
  BY DEF CommitBeforeStream, EarlyReturn, CommitAbandon, ToolCommit, CommitStream,
         OthersStay, IInv, TypeOK
<1>2. Commit(Current(t))
  BY DEF CommitBeforeStream, EarlyReturn, CommitAbandon, ToolCommit, CommitStream, Current
<1>3. \A q \in Questions : db'[q] = latest[q] /\ latest'[q] = latest[q]
  BY <1>1, <1>2, OwnTransaction DEF SerialInv, Commit
<1>4. AtMostOnePending(db)' /\ AtMostOnePending(latest)'
  BY <1>3 DEF SerialInv, AtMostOnePending
<1>5. Stage(t)'
  BY <1>1, <1>3 DEF Stage, AskedOnly, AskedWhatItExpired, Kept
<1>6. SettledOnly \/ (AskedOnly /\ AskedWhatItExpired)
  BY <1>1 DEF SerialInv, Stage
<1> QED
  BY <1>1, <1>3, <1>4, <1>5, <1>6, StageIsEnough


LEMMA SerialStep ==
    ASSUME IInv, SerialInv, [Next]_vars, TypeOK'
    PROVE  /\ SerialInv'
           /\ \/ db' = db
              \/ /\ \A q \in Questions : db'[q] = latest[q]
                 /\ SettledOnly \/ (AskedOnly /\ AskedWhatItExpired)
<1>1. CASE UNCHANGED vars
  BY <1>1 DEF vars, SerialInv, FromOneTab, OneActive, AtMostOnePending, Pending, Stage, SettledOnly,
              AskedOnly, AskedWhatItExpired, Kept, Fresh
<1>2. ASSUME NEW t \in Turns, Start(t) \/ Request(t) \/ Stream(t) \/ Abort(t)
      PROVE  /\ SerialInv'
             /\ \/ db' = db
                \/ /\ \A q \in Questions : db'[q] = latest[q]
                   /\ SettledOnly \/ (AskedOnly /\ AskedWhatItExpired)
  BY <1>2, Begins, GoesOn, Settling, Expiring, Linking, Asking, GivingUp, TakingBack, Publishing
     DEF Request, Stream
<1> QED
  BY <1>1, <1>2 DEF Next

\* A question that is settled is the only one, and the row of no other changes.
LEMMA SettlingIsAStep ==
    ASSUME IInv, SerialInv, SettledOnly, db' \in [Questions -> Rows],
           \A q \in Questions : db'[q] = latest[q]
    PROVE  [Lifecycle!Next]_[q \in Questions |-> db[q].state]
<1> DEFINE state == [q \in Questions |-> db[q].state]
<1>1. CASE \A q \in Questions : Kept(q)
  <2>1. state' = state
    BY <1>1 DEF Kept
  <2> QED
    BY <2>1
<1>2. CASE ~ \A q \in Questions : Kept(q)
  <2>1. PICK q \in Questions : ~ Kept(q)
    BY <1>2
  <2>2. Pending(db[q]) /\ latest[q].state \in {"answered", "abandoned", "expired"}
    BY <2>1 DEF SettledOnly
  <2>3. \A r \in Questions \ {q} : latest[r].state = db[r].state
    BY <2>1, <2>2 DEF SettledOnly, Kept, SerialInv, AtMostOnePending
  <2>4. PICK outcome \in Lifecycle!Outcomes : latest[q].state = outcome
    BY <2>2 DEF Lifecycle!Outcomes
  <2>5. state' = [state EXCEPT ![q] = outcome]
    BY <2>3, <2>4
  <2>6. Lifecycle!Settle(q, outcome)
    BY <2>2, <2>5 DEF Lifecycle!Settle, Pending
  <2> QED
    BY <2>4, <2>6 DEF Lifecycle!Next
<1> QED
  BY <1>1, <1>2

\* A question that is asked replaces the pending one, and those that the turn
\* asked and expired before it come out expired.
LEMMA AskingIsAStep ==
    ASSUME IInv, SerialInv, AskedOnly, AskedWhatItExpired, db' \in [Questions -> Rows],
           \A q \in Questions : db'[q] = latest[q]
    PROVE  [Lifecycle!Next]_[q \in Questions |-> db[q].state]
<1> DEFINE state == [q \in Questions |-> db[q].state]
<1>1. CASE \A q \in Questions : Kept(q)
  <2>1. state' = state
    BY <1>1 DEF Kept
  <2> QED
    BY <2>1
<1>2. CASE \E q \in Questions : Fresh(q)
  <2>1. PICK q \in Questions : Fresh(q)
    BY <1>2
  <2>2. PICK gone \in SUBSET (Questions \ {q}) :
            \A r \in Questions :
                r \in gone <=> r # q /\ db[r].state = "absent" /\ latest[r].state = "expired"
    <3> DEFINE expired == {r \in Questions : /\ r # q /\ db[r].state = "absent"
                                             /\ latest[r].state = "expired"}
    <3>1. expired \in SUBSET (Questions \ {q})
      OBVIOUS
    <3> QED
      BY <3>1
  <2>3. \A r \in Questions :
            latest[r].state = IF r = q THEN "pending"
                              ELSE IF r \in gone \/ db[r].state = "pending" THEN "expired"
                              ELSE db[r].state
    <3> SUFFICES ASSUME NEW r \in Questions
                 PROVE  latest[r].state = IF r = q THEN "pending"
                                          ELSE IF r \in gone \/ db[r].state = "pending" THEN "expired"
                                          ELSE db[r].state
      OBVIOUS
    <3>1. CASE r = q
      BY <3>1, <2>1 DEF Fresh, Pending
    <3>2. CASE r # q
      <4>1. latest[r].state # "pending"
        BY <3>2, <2>1 DEF SerialInv, AtMostOnePending, Fresh, Pending
      <4> QED
        BY <3>2, <4>1, <2>2 DEF AskedOnly, Kept, Pending
    <3> QED
      BY <3>1, <3>2
  <2>4. \A r \in gone \cup {q} : state[r] = "absent"
    BY <2>1, <2>2 DEF Fresh
  <2>5. state' = [r \in Questions |->
                     IF r = q THEN "pending"
                     ELSE IF r \in gone \/ state[r] = "pending" THEN "expired"
                     ELSE state[r]]
    BY <2>3
  <2>6. Lifecycle!Ask(q, gone)
    BY <2>4, <2>5 DEF Lifecycle!Ask
  <2> QED
    BY <2>6 DEF Lifecycle!Next
<1> QED
  BY <1>1, <1>2 DEF AskedWhatItExpired

\* The committed rows of a conversation that one tab drives go through the life
\* cycle of the documentation: what the two sessions of a turn do in between,
\* their rollbacks included, is not seen from outside.
THEOREM OneTabFollowsLifecycle == FromOneTab /\ Spec => FollowsLifecycle
<1>1. Init => Lifecycle!Init
  BY DEF Init, Lifecycle!Init, Absent
<1>2. IInv /\ IInv' /\ SerialInv /\ [Next]_vars => [Lifecycle!Next]_[q \in Questions |-> db[q].state]
  <2> SUFFICES ASSUME IInv, IInv', SerialInv, [Next]_vars
               PROVE  [Lifecycle!Next]_[q \in Questions |-> db[q].state]
    OBVIOUS
  <2>1. db' \in [Questions -> Rows] /\ TypeOK'
    BY DEF IInv, TypeOK
  <2>2. CASE db' = db
    BY <2>2
  <2>3. CASE db' # db
    BY <2>1, <2>3, SerialStep, SettlingIsAStep, AskingIsAStep
  <2> QED
    BY <2>2, <2>3
<1>3. IInv /\ IInv' /\ SerialInv /\ [Next]_vars => SerialInv'
  BY SerialStep DEF IInv
<1> QED
  BY <1>1, <1>2, <1>3, SerialInit, Invariance, PTL DEF Spec, FollowsLifecycle, Lifecycle!Spec

=============================================================================
