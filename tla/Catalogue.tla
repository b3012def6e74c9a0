------------------------------ MODULE Catalogue ------------------------------
(***************************************************************************)
(* One source of the catalogue, its verification by a second administrator *)
(* (backend/app/modules/sources/service.py, admin/sources_service.py and   *)
(* the checks of backend/app/models/source.py), and the versions of one    *)
(* skill that may cite it (backend/app/modules/skills/service.py).         *)
(*                                                                         *)
(* A request reads and decides when it starts, and writes the columns it   *)
(* changed when it commits; the evaluation of a skill, which takes up to a *)
(* minute, runs in between.                                                *)
(***************************************************************************)
EXTENDS Naturals

CONSTANTS
    Admins,           \* administrators
    SkillVersions,    \* versions of the skill that the model keeps: 1 .. n
    CatalogueRequests \* slots for the requests in flight

\* "none" stands for the NULL of verified_by.
ASSUME AdminsAssumption == "none" \notin Admins
ASSUME VersionsAssumption == SkillVersions \subseteq Nat /\ 1 \in SkillVersions

VARIABLES
    catalogueOverlap, \* whether requests on the source may overlap, in a behaviour
                      \* without requests on the skill; it never changes
    source,           \* the source
    skill,            \* the versions of the skill
    catalogueReq      \* the requests in flight

catalogueVars == <<catalogueOverlap, source, skill, catalogueReq>>

\* Two contents; the second one of a skill has enough golden examples.
Contents == {"t1", "t2"}
Enough == {"t2"}

SourceStates == {"draft", "pending", "verified", "outdated"}

NoSource == [st |-> "absent"]
NoSkill == [st |-> "absent"]
NoCatalogueRequest == [op |-> "none"]

\* `seen` is the content that the verifier was shown, `tested` the one whose
\* evaluation passed; the code keeps neither.
CatalogueTypeOK ==
    /\ catalogueOverlap \in BOOLEAN
    /\ source \in [st : SourceStates, by : Admins, verifier : Admins \cup {"none"},
                   text : Contents, seen : Contents \cup {"none"}] \cup {NoSource}
    /\ skill \in [SkillVersions ->
            [st : {"draft", "published"}, text : Contents, tested : Contents \cup {"none"},
             cites : BOOLEAN, retired : BOOLEAN] \cup {NoSkill}]
    /\ catalogueReq \in [CatalogueRequests ->
            [op : {"request", "outdate"}] \cup [op : {"verify"}, by : Admins, seen : Contents]
            \cup [op : {"update"}, text : Contents]
            \cup [op : {"delete"}, sets : Admins \cup {"none"}]
            \cup [op : {"create", "edit", "version"}, on : SkillVersions, text : Contents, cites : BOOLEAN]
            \cup [op : {"publish"}, on : SkillVersions, tested : Contents]
            \cup [op : {"unpublish", "retire"}, on : SkillVersions]
            \cup {NoCatalogueRequest}]

InitCatalogue ==
    /\ catalogueOverlap \in BOOLEAN
    /\ source = NoSource
    /\ skill = [k \in SkillVersions |-> NoSkill]
    /\ catalogueReq = [r \in CatalogueRequests |-> NoCatalogueRequest]

SourceRequests == {"request", "verify", "outdate", "update", "delete"}

BeginCatalogue(r, what) ==
    /\ catalogueReq[r] = NoCatalogueRequest
    /\ IF catalogueOverlap THEN what.op \in SourceRequests
       ELSE \A q \in CatalogueRequests : catalogueReq[q] = NoCatalogueRequest
    /\ catalogueReq' = [catalogueReq EXCEPT ![r] = what]
    /\ UNCHANGED <<catalogueOverlap, source, skill>>

EndCatalogue(r, op) ==
    /\ catalogueReq[r].op = op
    /\ catalogueReq' = [catalogueReq EXCEPT ![r] = NoCatalogueRequest]
    /\ UNCHANGED catalogueOverlap

-----------------------------------------------------------------------------
(* The source *)

\* sources_four_eyes_chk and sources_verified_consistency_chk
SourceChecks(s) ==
    /\ s.verifier # s.by
    /\ s.st \in {"verified", "outdated"} => s.verifier # "none"

\* A row that a check refuses fails the request.
WritesSource(s) ==
    /\ source' = IF SourceChecks(s) THEN s ELSE source
    /\ UNCHANGED skill

\* The router of the administration asks for the verification at once.
CreateSource(a, st) ==
    /\ source = NoSource
    /\ source' = [st |-> st, by |-> a, verifier |-> "none", text |-> "t1", seen |-> "none"]
    /\ UNCHANGED <<catalogueOverlap, skill, catalogueReq>>

StartRequestVerification(r) ==
    /\ source.st = "draft"
    /\ BeginCatalogue(r, [op |-> "request"])

FinishRequestVerification(r) ==
    /\ EndCatalogue(r, "request")
    /\ WritesSource([source EXCEPT !.st = "pending"])

StartVerify(r, a) ==
    /\ source.st = "pending"
    /\ source.by # a
    /\ BeginCatalogue(r, [op |-> "verify", by |-> a, seen |-> source.text])

FinishVerify(r) ==
    /\ EndCatalogue(r, "verify")
    /\ WritesSource([source EXCEPT !.st = "verified", !.verifier = catalogueReq[r].by,
                                   !.seen = catalogueReq[r].seen])

StartOutdate(r) ==
    /\ source.st = "verified"
    /\ BeginCatalogue(r, [op |-> "outdate"])

FinishOutdate(r) ==
    /\ EndCatalogue(r, "outdate")
    /\ WritesSource([source EXCEPT !.st = "outdated"])

\* Mutation of Editable: a source that was verified can still be edited.
EditableUntilOutdated == source.st \in {"draft", "pending", "verified"}

Editable == source.st = "draft"

StartUpdateSource(r, text) ==
    /\ Editable
    /\ BeginCatalogue(r, [op |-> "update", text |-> text])

FinishUpdateSource(r) ==
    /\ EndCatalogue(r, "update")
    /\ WritesSource([source EXCEPT !.text = catalogueReq[r].text])

\* soft_delete_with_cascade, in any state: who deletes becomes the verifier of a
\* source that has none, unless they captured it.  No table of attachments
\* exists, so that nothing depends on a source.
StartDeleteSource(r, a) ==
    /\ source # NoSource
    /\ BeginCatalogue(r, [op |-> "delete",
                          sets |-> IF source.verifier = "none" /\ source.by # a THEN a ELSE "none"])

FinishDeleteSource(r) ==
    LET sets == catalogueReq[r].sets IN
    /\ EndCatalogue(r, "delete")
    /\ WritesSource([source EXCEPT !.st = "outdated", !.verifier = IF sets = "none" THEN @ ELSE sets])

-----------------------------------------------------------------------------
(* The skill *)

\* _validate_sources
MayCite(cites) == cites => source.st = "verified"

Inserts(k, text, cites) ==
    skill' = IF skill[k] # NoSkill THEN skill
             ELSE [skill EXCEPT ![k] = [st |-> "draft", text |-> text, tested |-> "none",
                                        cites |-> cites, retired |-> FALSE]]

StartCreateSkill(r, text, cites) ==
    /\ MayCite(cites)
    /\ BeginCatalogue(r, [op |-> "create", on |-> 1, text |-> text, cites |-> cites])

\* A name that exists fails the request.
FinishCreateSkill(r) ==
    /\ EndCatalogue(r, "create")
    /\ Inserts(1, catalogueReq[r].text, catalogueReq[r].cites)
    /\ UNCHANGED source

EditsInPlace(k) == skill[k].st = "draft"

\* A payload without sources keeps those of the skill, and does not look at them.
StartUpdateSkill(r, k, text, cites) ==
    /\ skill[k] # NoSkill
    /\ MayCite(cites)
    /\ EditsInPlace(k) \/ k + 1 \in SkillVersions
    /\ BeginCatalogue(r, [op |-> IF EditsInPlace(k) THEN "edit" ELSE "version",
                          on |-> IF EditsInPlace(k) THEN k ELSE k + 1,
                          text |-> text, cites |-> cites \/ skill[k].cites])

FinishEdit(r) ==
    LET q == catalogueReq[r] IN
    /\ EndCatalogue(r, "edit")
    /\ skill' = [skill EXCEPT ![q.on].text = q.text, ![q.on].cites = q.cites]
    /\ UNCHANGED source

\* _create_new_version: the name of the new version is that of the published one
\* with its number, so that a second one for the same version fails.
FinishNewVersion(r) ==
    /\ EndCatalogue(r, "version")
    /\ Inserts(catalogueReq[r].on, catalogueReq[r].text, catalogueReq[r].cites)
    /\ UNCHANGED source

\* Only an evaluation that passes is followed.  A draft that was deleted may be
\* published, and the earlier version stays published.
StartPublish(r, k) ==
    /\ skill[k].st = "draft"
    /\ skill[k].text \in Enough
    /\ BeginCatalogue(r, [op |-> "publish", on |-> k, tested |-> skill[k].text])

FinishPublish(r) ==
    LET q == catalogueReq[r] IN
    /\ EndCatalogue(r, "publish")
    /\ skill' = [skill EXCEPT ![q.on].st = "published", ![q.on].tested = q.tested]
    /\ UNCHANGED source

StartUnpublish(r, k) ==
    /\ skill[k].st = "published"
    /\ BeginCatalogue(r, [op |-> "unpublish", on |-> k])

FinishUnpublish(r) ==
    LET k == catalogueReq[r].on IN
    /\ EndCatalogue(r, "unpublish")
    /\ skill' = [skill EXCEPT ![k].st = "draft", ![k].tested = "none"]
    /\ UNCHANGED source

StartDeleteSkill(r, k) ==
    /\ skill[k].st = "draft"
    /\ BeginCatalogue(r, [op |-> "retire", on |-> k])

FinishDeleteSkill(r) ==
    /\ EndCatalogue(r, "retire")
    /\ skill' = [skill EXCEPT ![catalogueReq[r].on].retired = TRUE]
    /\ UNCHANGED source

-----------------------------------------------------------------------------

NextCatalogue ==
    \/ \E a \in Admins, st \in {"draft", "pending"} : CreateSource(a, st)
    \/ \E r \in CatalogueRequests :
        \/ StartRequestVerification(r) \/ FinishRequestVerification(r)
        \/ \E a \in Admins : StartVerify(r, a) \/ StartDeleteSource(r, a)
        \/ FinishVerify(r) \/ StartOutdate(r) \/ FinishOutdate(r)
        \/ \E text \in Contents : StartUpdateSource(r, text)
        \/ FinishUpdateSource(r) \/ FinishDeleteSource(r)
        \/ \E text \in Contents, cites \in BOOLEAN : StartCreateSkill(r, text, cites)
        \/ FinishCreateSkill(r)
        \/ \E k \in SkillVersions :
            \/ \E text \in Contents, cites \in BOOLEAN : StartUpdateSkill(r, k, text, cites)
            \/ StartPublish(r, k) \/ StartUnpublish(r, k) \/ StartDeleteSkill(r, k)
        \/ FinishEdit(r) \/ FinishNewVersion(r)
        \/ FinishPublish(r) \/ FinishUnpublish(r) \/ FinishDeleteSkill(r)

SpecCatalogue == InitCatalogue /\ [][NextCatalogue]_catalogueVars

-----------------------------------------------------------------------------
(* Properties *)

\* What the assistant cites was verified by another administrator than the one
\* who captured it, who saw the content it has.  An update that overlaps a
\* verification changes the content behind the verifier's back.
CitableIsChecked ==
    source.st = "verified" =>
        /\ source.verifier \in Admins \ {source.by}
        /\ ~catalogueOverlap => source.seen = source.text

=============================================================================
