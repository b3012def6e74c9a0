------------------------- MODULE QuestionLifecycle -------------------------
(***************************************************************************)
(* What the interactive questions of a conversation promise their reader:  *)
(* the life cycle drawn in specs/018-interactive-chat-widgets/data-model.md*)
(* (a question is asked, then answered, abandoned or expired, for good,    *)
(* and at most one is pending), with no sessions, locks or versions.       *)
(* ChatTurns implements it as long as one tab drives the conversation.     *)
(***************************************************************************)
CONSTANT Questions

VARIABLE state

Outcomes == {"answered", "abandoned", "expired"}
States == {"absent", "pending"} \cup Outcomes

Init == state = [q \in Questions |-> "absent"]

\* Question q is asked.  It replaces whatever was pending, and the questions
\* `gone` asked just before it and never seen pending from outside.
Ask(q, gone) ==
    /\ \A r \in gone \cup {q} : state[r] = "absent"
    /\ state' = [r \in Questions |->
                    IF r = q THEN "pending"
                    ELSE IF r \in gone \/ state[r] = "pending" THEN "expired"
                    ELSE state[r]]

\* The pending question is settled.
Settle(q, outcome) ==
    /\ state[q] = "pending"
    /\ state' = [state EXCEPT ![q] = outcome]

Next ==
    \/ \E q \in Questions : \E gone \in SUBSET (Questions \ {q}) : Ask(q, gone)
    \/ \E q \in Questions, outcome \in Outcomes : Settle(q, outcome)

Spec == Init /\ [][Next]_state
=============================================================================
