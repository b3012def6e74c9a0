--------------------------- MODULE DossierContents ---------------------------
(***************************************************************************)
(* The checklists of the dossiers of a user                                *)
(* (backend/app/modules/applications/service.py), the documents the        *)
(* checklists refer to and their files (backend/app/modules/documents),    *)
(* and the exports that become documents                                   *)
(* (backend/app/graph/tools/application_tools.py).                         *)
(*                                                                         *)
(* A checklist is a JSON column, read and written as a whole: its requests *)
(* lock the row of the dossier and read it again (SELECT FOR UPDATE,       *)
(* populate_existing).  A file is written or removed at once, a row when   *)
(* the request commits: a request that fails in between (Fail...) leaves   *)
(* the file as it is.                                                      *)
(***************************************************************************)
EXTENDS FiniteSets, TLC

CONSTANTS
    Folders,      \* the dossiers
    Items,        \* keys of the items of a checklist
    Documents,    \* identifiers for the rows of documents
    FileRequests, \* slots for the requests in flight
    Nothing

ASSUME NothingIsNoDocument == Nothing \notin Documents

VARIABLES
    item,        \* the document of each item of each checklist, or Nothing
    held,        \* the dossiers whose row is locked
    doc,         \* documents
    analysed,    \* the documents with a row in document_analyses
    file,        \* the paths at which there is a file
    fileReq      \* the requests in flight

fileVars == <<item, held, doc, analysed, file, fileReq>>

\* A document that was uploaded has a file of its own; those a dossier was
\* exported to share one (of one format).
Paths == Documents \cup Folders

NoDocument == [st |-> "absent", path |-> Nothing]
NoFileRequest == [op |-> "none"]
Stored(x) == doc[x] # NoDocument

FileTypeOK ==
    /\ item \in [Folders -> [Items -> Documents \cup {Nothing}]]
    /\ held \subseteq Folders
    /\ doc \in [Documents -> [st : {"uploaded", "processing", "analyzed", "error"},
                              path : Paths] \cup {NoDocument}]
    /\ analysed \subseteq Documents
    /\ file \subseteq Paths
    /\ DOMAIN fileReq = FileRequests

InitFiles ==
    /\ item = [d \in Folders |-> [i \in Items |-> Nothing]]
    /\ held = {}
    /\ doc = [x \in Documents |-> NoDocument]
    /\ analysed = {}
    /\ file = {}
    /\ fileReq = [r \in FileRequests |-> NoFileRequest]

BeginFile(r, what) ==
    /\ fileReq[r] = NoFileRequest
    /\ fileReq' = [fileReq EXCEPT ![r] = what]
    /\ UNCHANGED <<item, doc, analysed>>

EndFile(r, op) ==
    /\ fileReq[r].op = op
    /\ fileReq' = [fileReq EXCEPT ![r] = NoFileRequest]

-----------------------------------------------------------------------------
(* Checklists *)

\* Mutation of LockDossiers: nobody locks.
LockNothing(ds) == UNCHANGED held

\* SELECT ... FOR UPDATE waits until the rows are free.
LockDossiers(ds) == ds \cap held = {} /\ held' = held \cup ds

\* attach_checklist_document, and detach_checklist_document (x = Nothing).
StartItem(r, d, i, x) ==
    /\ x # Nothing => Stored(x)
    /\ BeginFile(r, [op |-> "item", on |-> d, key |-> i,
                     value |-> [item[d] EXCEPT ![i] = x]])
    /\ LockDossiers({d})
    /\ UNCHANGED file

FinishItem(r) ==
    LET q == fileReq[r] IN
    /\ EndFile(r, "item")
    /\ item' = [item EXCEPT ![q.on] = q.value]
    /\ held' = held \ {q.on}
    /\ UNCHANGED <<doc, analysed, file>>

-----------------------------------------------------------------------------
(* Documents *)

\* The identifiers that a request in flight will insert.
Taken == {fileReq[r].on : r \in {q \in FileRequests : fileReq[q].op \in {"upload", "export"}}}
New(x) == ~Stored(x) /\ x \notin Taken

\* upload_document: the file, then the row.
StartUpload(r, x) ==
    /\ New(x)
    /\ BeginFile(r, [op |-> "upload", on |-> x, path |-> x])
    /\ file' = file \cup {x}
    /\ UNCHANGED held

\* The export of a dossier whose required criteria are answered
\* (_check_esg_gating): the file of the dossier, then a new document.
StartExport(r, d, x) ==
    /\ New(x)
    /\ BeginFile(r, [op |-> "export", on |-> x, path |-> d])
    /\ file' = file \cup {d}
    /\ UNCHANGED held

FinishNew(r) ==
    LET q == fileReq[r] IN
    /\ EndFile(r, q.op)
    /\ q.op \in {"upload", "export"}
    /\ doc' = [doc EXCEPT ![q.on] =
                  [st |-> IF q.op = "upload" THEN "uploaded" ELSE "analyzed", path |-> q.path]]
    /\ UNCHANGED <<item, held, analysed, file>>

\* Another file of the request is refused, or its commit fails.
FailNew(r) ==
    /\ EndFile(r, fileReq[r].op)
    /\ fileReq[r].op \in {"upload", "export"}
    /\ UNCHANGED <<item, held, doc, analysed, file>>

\* The row of a document stays locked until its analysis commits.
BeingAnalysed(x) ==
    \E r \in FileRequests : fileReq[r].op = "analysis" /\ fileReq[r].on = x

StartAnalysis(r, x) ==
    /\ Stored(x)
    /\ ~BeingAnalysed(x)
    /\ BeginFile(r, [op |-> "analysis", on |-> x, found |-> doc[x].path \in file])
    /\ UNCHANGED <<held, file>>

\* analyze_document, whose caller goes on when it raises: a file that is
\* missing, unreadable or too slow to analyse makes the status an error.  A
\* document has one analysis, and a second one poisons the session.
FinishAnalysis(r, done) ==
    LET x == fileReq[r].on IN
    /\ EndFile(r, "analysis")
    /\ done => fileReq[r].found
    /\ IF done /\ x \in analysed
       THEN UNCHANGED <<doc, analysed>>
       ELSE /\ doc' = [doc EXCEPT ![x].st = IF done THEN "analyzed" ELSE "error"]
            /\ analysed' = IF done THEN analysed \cup {x} ELSE analysed
    /\ UNCHANGED <<item, held, file>>

\* reanalyze_document sets the status, and starts nothing.
Reanalyse(x) ==
    /\ Stored(x)
    /\ ~BeingAnalysed(x)
    /\ doc' = [doc EXCEPT ![x].st = "processing"]
    /\ UNCHANGED <<item, held, analysed, file, fileReq>>

\* Mutation of Cleared: only the first item of a dossier is looked at.
ClearedOnce(x) ==
    [d \in Folders |->
        IF \E i \in Items : item[d][i] = x
        THEN [item[d] EXCEPT ![CHOOSE i \in Items : item[d][i] = x] = Nothing]
        ELSE item[d]]

\* clear_document_references
Cleared(x) ==
    [d \in Folders |-> [i \in Items |-> IF item[d][i] = x THEN Nothing ELSE item[d][i]]]

\* delete_document: the references, with every dossier of the account locked,
\* the file, then the row.
StartDelete(r, x) ==
    /\ Stored(x)
    /\ \A q \in FileRequests : fileReq[q].op = "delete" => fileReq[q].on # x
    /\ BeginFile(r, [op |-> "delete", on |-> x, value |-> Cleared(x)])
    /\ LockDossiers(Folders)
    /\ file' = file \ {doc[x].path}

FinishDelete(r) ==
    LET x == fileReq[r].on IN
    /\ EndFile(r, "delete")
    /\ ~BeingAnalysed(x)
    /\ item' = fileReq[r].value
    /\ doc' = [doc EXCEPT ![x] = NoDocument]
    /\ analysed' = analysed \ {x}
    /\ held' = held \ Folders
    /\ UNCHANGED file

\* The lock wait ends in a deadlock, or the process dies.
FailDelete(r) ==
    /\ EndFile(r, "delete")
    /\ held' = held \ Folders
    /\ UNCHANGED <<item, doc, analysed, file>>

-----------------------------------------------------------------------------

StartFile(r) ==
    \/ \E d \in Folders, i \in Items, x \in Documents \cup {Nothing} : StartItem(r, d, i, x)
    \/ \E x \in Documents :
        \/ StartUpload(r, x) \/ StartAnalysis(r, x) \/ StartDelete(r, x)
        \/ \E d \in Folders : StartExport(r, d, x)

FinishFile(r) ==
    \/ FinishItem(r)
    \/ FinishNew(r) \/ FailNew(r)
    \/ \E done \in BOOLEAN : FinishAnalysis(r, done)
    \/ FinishDelete(r) \/ FailDelete(r)

NextFiles ==
    \/ \E r \in FileRequests : StartFile(r) \/ FinishFile(r)
    \/ \E x \in Documents : Reanalyse(x)

SpecFiles == InitFiles /\ [][NextFiles]_fileVars

-----------------------------------------------------------------------------
(* Properties *)

\* SC-005: an item refers to a document that exists, however attachments and
\* deletions overlap.
ItemsHaveDocuments ==
    \A d \in Folders, i \in Items : item[d][i] # Nothing => Stored(item[d][i])

\* FR-021: an item only changes when a request for this item commits, or the
\* deletion of its document: concurrent requests never undo each other.
OnlyItsItemChanges ==
    [][\A d \in Folders, i \in Items :
        item'[d][i] # item[d][i] =>
            \E r \in FileRequests :
                /\ fileReq'[r] = NoFileRequest
                /\ \/ fileReq[r].op = "item" /\ fileReq[r].on = d /\ fileReq[r].key = i
                   \/ fileReq[r].op = "delete" /\ fileReq[r].on = item[d][i]]_fileVars
=============================================================================
