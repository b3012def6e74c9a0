--------------------------- MODULE DossierSections ---------------------------
(***************************************************************************)
(* The text of a dossier: its sections, edited by the user, rewritten by   *)
(* the assistant's tools and generated by the language model               *)
(* (backend/app/modules/applications/service.py,                           *)
(* backend/app/graph/tools/application_tools.py).                          *)
(*                                                                         *)
(* The sections are one JSON column.  Every request reads it when it loads *)
(* the dossier and writes it back as a whole when it commits; a generation *)
(* takes the time of a call to the model in between.                       *)
(***************************************************************************)
EXTENDS FiniteSets

CONSTANTS
    SectionKeys,     \* the keys of the template of the dossier's target
    SectionRequests  \* slots for the requests in flight

VARIABLES
    sectionOverlap, \* whether requests may overlap; it never changes
    section,        \* the column: text and status of each section
    sectionReq      \* the requests in flight

sectionVars == <<sectionOverlap, section, sectionReq>>

Texts == {"none", "user", "model"}
SectionStatuses == {"not_generated", "generated", "validated"}
NoSectionRequest == [op |-> "none"]

SectionTypeOK ==
    /\ sectionOverlap \in BOOLEAN
    /\ section \in [SectionKeys -> [text : Texts, st : SectionStatuses]]
    /\ \A r \in SectionRequests :
          sectionReq[r] = NoSectionRequest
          \/ /\ sectionReq[r].op \in {"edit", "generate"}
             /\ sectionReq[r].key \in SectionKeys
             /\ DOMAIN sectionReq[r].value = SectionKeys

\* initialize_sections
EmptySections == [s \in SectionKeys |-> [text |-> "none", st |-> "not_generated"]]

InitSections ==
    /\ sectionOverlap \in BOOLEAN
    /\ section = EmptySections
    /\ sectionReq = [r \in SectionRequests |-> NoSectionRequest]

-----------------------------------------------------------------------------

\* Mutation of WithSection: the section that was asked for is the only one kept.
WithSectionAlone(column, s, text, st) == [EmptySections EXCEPT ![s] = [text |-> text, st |-> st]]

\* update_section: a copy of the column with one section replaced.
WithSection(column, s, text, st) == [column EXCEPT ![s] = [text |-> text, st |-> st]]

StartSectionRequest(r, op, s, text, st) ==
    /\ sectionReq[r] = NoSectionRequest
    /\ sectionOverlap \/ \A q \in SectionRequests : sectionReq[q] = NoSectionRequest
    /\ sectionReq' = [sectionReq EXCEPT ![r] =
          [op |-> op, key |-> s, value |-> WithSection(section, s, text, st)]]
    /\ UNCHANGED <<sectionOverlap, section>>

\* PATCH of a section: a text, a status, or both; what is not given is kept.
\* The assistant's update_application_section gives a text and no status.
StartEdit(r, s, text, st) ==
    /\ text \in {"user", section[s].text}
    /\ StartSectionRequest(r, "edit", s, text, st)

\* generate_section: the prompt is built from what was read.
StartGenerate(r, s) == StartSectionRequest(r, "generate", s, "model", "generated")

FinishSection(r) ==
    /\ sectionReq[r] # NoSectionRequest
    /\ section' = sectionReq[r].value
    /\ sectionReq' = [sectionReq EXCEPT ![r] = NoSectionRequest]
    /\ UNCHANGED sectionOverlap

\* The model does not answer, or the process dies: nothing is written.
FailGenerate(r) ==
    /\ sectionReq[r].op = "generate"
    /\ sectionReq' = [sectionReq EXCEPT ![r] = NoSectionRequest]
    /\ UNCHANGED <<sectionOverlap, section>>

NextSections ==
    \E r \in SectionRequests :
        \/ \E s \in SectionKeys :
            \/ \E text \in Texts, st \in SectionStatuses : StartEdit(r, s, text, st)
            \/ StartGenerate(r, s)
        \/ FinishSection(r)
        \/ FailGenerate(r)

SpecSections == InitSections /\ [][NextSections]_sectionVars

-----------------------------------------------------------------------------

\* A section only changes when a request for this section commits, as long as
\* requests do not overlap: otherwise the request that commits last undoes what
\* the others committed since it read the column.
OnlyItsSectionChanges ==
    [][~sectionOverlap => \A s \in SectionKeys :
        section'[s] # section[s] =>
            \E r \in SectionRequests :
                /\ sectionReq[r] # NoSectionRequest /\ sectionReq'[r] = NoSectionRequest
                /\ sectionReq[r].key = s]_sectionVars
=============================================================================
