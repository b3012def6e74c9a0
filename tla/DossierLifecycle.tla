-------------------------- MODULE DossierLifecycle --------------------------
(***************************************************************************)
(* What an application dossier promises, whoever edits it: it is prepared, *)
(* it goes to an intermediary or to the fund, the fund examines it and     *)
(* decides.  What was sent to the fund does not come back to preparation,  *)
(* a decision is final, and the first submission takes the snapshot the    *)
(* dossier keeps.                                                          *)
(***************************************************************************)
CONSTANT DossierIds

VARIABLES
    phase,   \* where each dossier is
    frozen   \* what its snapshot holds, "none" before there is one

Init ==
    /\ phase = [d \in DossierIds |-> "absent"]
    /\ frozen = [d \in DossierIds |-> "none"]

Steps == { <<"absent", "prepared">>, <<"prepared", "prepared">>,
           <<"prepared", "intermediary">>, <<"prepared", "fund">>,
           <<"intermediary", "prepared">>, <<"intermediary", "fund">>,
           <<"fund", "examined">>, <<"examined", "decided">> }

\* The snapshot is taken by the submission, and only if there is none.
Step(d) ==
    /\ <<phase[d], phase'[d]>> \in Steps
    /\ IF phase'[d] \in {"intermediary", "fund"} /\ frozen[d] = "none"
       THEN frozen'[d] # "none"
       ELSE frozen'[d] = frozen[d]

\* One dossier at a time.
Next ==
    \E d \in DossierIds :
        /\ Step(d)
        /\ \A x \in DossierIds \ {d} : phase'[x] = phase[x] /\ frozen'[x] = frozen[x]
=============================================================================
