----------------------------- MODULE MCServices -----------------------------
(***************************************************************************)
(* The dossiers of a project, its matches with the offers, the graph of a  *)
(* conversation, the tools of a turn and the catalogue, for TLC. They keep *)
(* their rows in different tables and share none of the state the modules  *)
(* have, so that a behaviour of all of them interleaves a behaviour of     *)
(* each: every behaviour of this module moves one of them, chosen at the   *)
(* start, and the other ones stay where they begin.                        *)
(***************************************************************************)
EXTENDS Dossiers, DossierSections, DossierContents, ConversationGraph, Catalogue,
        OfferMatches, TurnTools

VARIABLE part  \* the service that moves; it never changes

serviceVars == <<part, dossierVars, sectionVars, fileVars, graphVars, catalogueVars,
                 matchVars, turnVars>>

Init ==
    /\ part \in {"dossiers", "sections", "contents", "graph", "catalogue", "matches", "turn"}
    /\ InitDossiers /\ (part # "dossiers" => ~ dossierOverlap)
    /\ InitSections /\ (part # "sections" => ~ sectionOverlap)
    /\ InitFiles
    /\ InitGraph
    /\ InitMatches
    /\ InitTurn
    /\ InitCatalogue /\ (part # "catalogue" => ~ catalogueOverlap)

Stays(name, vars) == IF part = name THEN TRUE ELSE UNCHANGED vars

Moves(name, next) ==
    /\ part = name
    /\ next
    /\ UNCHANGED part
    /\ Stays("dossiers", dossierVars)
    /\ Stays("sections", sectionVars)
    /\ Stays("contents", fileVars)
    /\ Stays("graph", graphVars)
    /\ Stays("catalogue", catalogueVars)
    /\ Stays("matches", matchVars)
    /\ Stays("turn", turnVars)

Next ==
    \/ Moves("dossiers", NextDossiers)
    \/ Moves("sections", NextSections)
    \/ Moves("contents", NextFiles)
    \/ Moves("graph", NextGraph)
    \/ Moves("catalogue", NextCatalogue)
    \/ Moves("matches", NextMatches)
    \/ Moves("turn", NextTurn)

Spec == Init /\ [][Next]_serviceVars

\* Every variable of every service stays in its type.
ServicesTypeOK ==
    /\ DossierTypeOK /\ SectionTypeOK /\ FileTypeOK
    /\ GraphTypeOK /\ CatalogueTypeOK /\ MatchTypeOK /\ TurnTypeOK

\* The services share the model values of their requests and of their rows.
Interchangeable ==
    Permutations(DossierRequests) \cup Permutations(DossierIds)
===============================================================================
