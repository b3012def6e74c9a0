---------------------------- MODULE MCChatTurns ----------------------------
(* Small conversations for TLC: see the .cfg files for the instances. *)
EXTENDS ChatTurns

CONSTANTS t1, t2, t3, q1, q2, q3, a, b

TwoTurns == {t1, t2}
ThreeTurns == {t1, t2, t3}
TwoQuestions == {q1, q2}
ThreeQuestions == {q1, q2, q3}
OneCard == {q1}
TwoTabs == {a, b}
OneTab == {a}
OneAgainstTwo == [t \in Turns |-> IF t = t1 THEN a ELSE b]
AllFromOne == [t \in Turns |-> a]
=============================================================================
